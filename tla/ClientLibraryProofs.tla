------------------------ MODULE ClientLibraryProofs ------------------------
(***************************************************************************)
(* Proofs about ClientLibrary, for any number of threads, contexts,        *)
(* handles and restarts of the daemon, until the table of the daemon grows *)
(* under a client that is reading it (raced).                              *)
(*                                                                         *)
(* None of the properties is inductive, and none can be proved alone.  A   *)
(* SCONTEXTMAP is not freed under a thread because no two threads use the  *)
(* same one; that is so because hContexts and handles are unique; handles  *)
(* are because each thread reads the answer to its own request; and it     *)
(* does because no other thread uses the socket of its SCONTEXTMAP.        *)
(* Inv has all of these at once: who holds which mutex (Mutexes), what     *)
(* each thread has in hand at each step (Working), the list of contexts    *)
(* (Lists), the handles (HandlesOK, Fresh, Agreement), what is on the      *)
(* sockets (Wires) and how large the table of readers is (Tables).         *)
(***************************************************************************)
EXTENDS ClientLibrary, SequenceTheorems, TLAPS

USE DEF locksVars, mapVars, clientVars, wireVars, appVars, serverVars

-----------------------------------------------------------------------------
\* Types

Steps == {"idle", "enter", "lookup", "peek", "seekLock", "seek", "lock",
          "states", "send", "receive", "receiveData", "retry", "unlock",
          "cleanup", "addContext", "addHandle", "removeHandle", "removeSeek",
          "deleteHandle", "removeContext", "cleanSession", "cleanChannels",
          "cleanList", "freeContext"}

\* What is left to send, for each function.
Todos(f) ==
  CASE f = "ESTABLISH" -> {<<"VERSION", "ESTABLISH">>, <<"ESTABLISH">>}
    [] f = "LIST_READERS" -> {<<"STATE">>, <<"SIZE", "ARRAY">>, <<"ARRAY">>}
    [] f = "STATUS" -> {<<"STATE", "STATUS">>, <<"SIZE", "ARRAY", "STATUS">>,
                        <<"ARRAY", "STATUS">>, <<"STATUS">>}
    [] f = "LIST_GROUPS" -> {<<>>}
    [] OTHER -> {<<f>>}

Commands == AllFunctions \cup {"VERSION", "SIZE", "ARRAY", "STATE"}

CallRecords ==
  [f : AllFunctions \cup {"NONE"}, hContext : Contexts \cup {NoContext},
   hCard : Handles \cup {NoHandle}, map : Maps \cup {NULL},
   todo : Seq(Commands),
   index : Nat \ {0}, version : AllVersions]

DaemonRecords ==
  [running : BOOLEAN, version : AllVersions, table : Nat \ {0},
   started : Nat]

Types ==
  /\ clientMutex \in Threads \cup {NoThread}
  /\ listLock \in Threads \cup {NoThread}
  /\ readerStatesMutex \in Threads \cup {NoThread}
  /\ mMutex \in [Maps -> Threads \cup {NoThread}]
  /\ contextMapList \in Seq(Maps)
  /\ hContext \in [Maps -> Contexts \cup {NoContext}]
  /\ channelMapList \in [Maps -> SUBSET Handles]
  /\ allocated \subseteq Maps
  /\ maxReaderContext \in Nat
  /\ session \in [Maps -> {"closed", "open", "broken"}]
  /\ requests = [m \in Maps |-> requests[m]]
  /\ replies = [m \in Maps |-> replies[m]]
  /\ pc \in [Threads -> Steps]
  /\ call \in [Threads -> CallRecords]
  /\ myContext \in [Threads -> Contexts \cup {NoContext}]
  /\ myHandles \in [Threads -> SUBSET Handles]
  /\ daemon \in DaemonRecords
  /\ serverContext \in [Maps -> Contexts \cup {NoContext}]
  /\ serverHandles \in [Maps -> SUBSET Handles]
  /\ drawn \subseteq Handles

-----------------------------------------------------------------------------
\* Who holds what

\* The steps under clientMutex.
HoldsClient(t) ==
  \/ pc[t] \in {"lookup", "peek", "seekLock", "seek", "lock", "cleanup",
                "addContext", "cleanSession", "cleanChannels", "cleanList",
                "freeContext"}
  \/ pc[t] \in {"send", "receive"} /\ call[t].f = "ESTABLISH"

\* The steps under the mMutex of the context.
Exchanges(t) ==
  \/ pc[t] \in {"states", "receiveData", "retry", "unlock", "addHandle",
                "removeHandle", "removeSeek", "deleteHandle"}
  \/ pc[t] \in {"send", "receive"} /\ call[t].f # "ESTABLISH"

\* The steps under readerStatesMutex.
HoldsStates(t) ==
  /\ pc[t] \in {"send", "receive", "retry", "unlock"}
  /\ UsesReaderStates(call[t].f)

Mutexes ==
  /\ \A t \in Threads : clientMutex = t <=> HoldsClient(t)
  /\ \A t \in Threads : listLock = t <=> Seeking(t)
  /\ \A t \in Threads : readerStatesMutex = t <=> HoldsStates(t)
  /\ \A t \in Threads, m \in Maps :
       mMutex[m] = t <=> Exchanges(t) /\ call[t].map = m

\* The functions that reach each step.
FunctionsAt(step) ==
  CASE step = "idle" -> {"NONE"}
    [] step = "enter" -> AllFunctions \ {"ESTABLISH"}
    [] step = "lookup" -> ContextFunctions \cup {"CANCEL", "IS_VALID"}
    [] step = "peek" -> {"CANCEL", "IS_VALID"}
    [] step \in {"seekLock", "seek"} -> HandleFunctions
    [] step \in {"lock", "unlock"} -> ContextFunctions \cup HandleFunctions
    [] step = "states" -> {"STATUS", "LIST_READERS"}
    [] step \in {"send", "receive"} -> AllFunctions \ {"CANCEL", "IS_VALID"}
    [] step = "receiveData" -> {"TRANSMIT", "CONTROL"}
    [] step = "retry" -> HandleFunctions
    [] step \in {"cleanup", "addContext"} -> {"ESTABLISH"}
    [] step = "addHandle" -> {"CONNECT"}
    [] step \in {"removeHandle", "removeSeek", "deleteHandle"} ->
         {"DISCONNECT"}
    [] OTHER -> {"RELEASE"}

\* The steps at which a thread works on its context.
Owns(t) == Exchanges(t) \/ pc[t] \in {"lock", "removeContext", "cleanSession"}

Cleans(t) == pc[t] \in {"cleanChannels", "cleanList", "freeContext"}

Establishes(t) == call[t].f = "ESTABLISH"

InList(m) == \E i \in DOMAIN contextMapList : contextMapList[i] = m

\* What a thread has in hand.
Working(t) ==
  /\ call[t].f \in FunctionsAt(pc[t])
  /\ pc[t] \in {"states", "send", "receive"} => call[t].todo \in Todos(call[t].f)
  /\ pc[t] = "receive" => call[t].todo # <<>>
  /\ pc[t] = "states" => Head(call[t].todo) # "ARRAY"
  /\ pc[t] \in {"enter", "lookup"} /\ call[t].f \in ContextFunctions =>
       call[t].hContext = myContext[t] /\ myContext[t] # NoContext
  /\ pc[t] # "unlock" /\ call[t].f \in HandleFunctions =>
       call[t].hCard \in myHandles[t]
  /\ pc[t] = "addHandle" => call[t].hCard \in Handles
  /\ pc[t] = "peek" => InList(call[t].map)
  /\ Owns(t) => /\ InList(call[t].map)
                /\ hContext[call[t].map] = myContext[t]
                /\ myContext[t] # NoContext
  /\ Cleans(t) => /\ call[t].map \in allocated
                  /\ hContext[call[t].map] = NoContext
                  /\ pc[t] # "cleanChannels" => channelMapList[call[t].map] = {}
                  /\ pc[t] # "freeContext" <=> InList(call[t].map)
  /\ Establishes(t) => /\ call[t].map \in Maps \ allocated
                       /\ myContext[t] = NoContext
                       /\ session[call[t].map] # "closed"
  /\ pc[t] = "addContext" => /\ call[t].hContext # NoContext
                             /\ \A m \in Maps : InList(m) =>
                                  hContext[m] # call[t].hContext

\* Every context of the list exists and is there once, and every context of
\* the application is in the list until it is being released.
Lists ==
  /\ \A m \in Maps : InList(m) => m \in allocated
  /\ \A i, j \in DOMAIN contextMapList :
       contextMapList[i] = contextMapList[j] => i = j
  /\ \A m \in Maps : InList(m) /\ hContext[m] # NoContext =>
       session[m] # "closed"
  /\ \A m, n \in Maps :
       InList(m) /\ InList(n) /\ hContext[m] = hContext[n]
         /\ hContext[m] # NoContext => m = n
  /\ \A t \in Threads : myContext[t] # NoContext /\ ~Cleans(t) =>
       \E m \in Maps : InList(m) /\ hContext[m] = myContext[t]
  /\ \A t, u \in Threads :
       myContext[t] = myContext[u] /\ myContext[t] # NoContext => t = u

\* The list of context m is that of thread t.
ListOf(t, m) ==
  \/ hContext[m] = myContext[t] /\ myContext[t] # NoContext /\ ~Cleans(t)
  \/ pc[t] = "cleanChannels" /\ call[t].map = m

\* A handle given to a thread is in the list of no context but the one of the
\* thread.
HandlesOK ==
  /\ \A t \in Threads : myHandles[t] \subseteq drawn
  /\ \A m \in Maps : channelMapList[m] \subseteq drawn
  /\ \A m \in Maps : ~InList(m) => channelMapList[m] = {}
  /\ \A t \in Threads, m \in Maps : \A h \in channelMapList[m] :
       h \in myHandles[t] => ListOf(t, m)

\* A search has not found its handle in the contexts it has passed.
Searched ==
  \A t \in Threads : Seeking(t) =>
    \A i \in DOMAIN contextMapList :
      i < call[t].index => call[t].hCard \notin channelMapList[contextMapList[i]]

\* Thread t is about to add the handle h.
Adds(t, h) ==
  /\ call[t].f = "CONNECT"
  /\ \/ pc[t] = "addHandle" /\ call[t].hCard = h
     \/ /\ pc[t] = "receive"
        /\ replies[call[t].map] # <<>>
        /\ FirstAnswer(t).rv = "SUCCESS"
        /\ FirstAnswer(t).value = h

\* A new handle is nobody's, and the daemon knows it.
Fresh ==
  \A t \in Threads : \A h \in Handles :
    Adds(t, h) =>
      /\ h \in drawn
      /\ \A u \in Threads : h \notin myHandles[u]
      /\ \A m \in Maps : h \notin channelMapList[m]
      /\ \A u \in Threads : Adds(u, h) => u = t
      /\ session[call[t].map] = "open" /\ serverContext[call[t].map] # NoContext
           => h \in serverHandles[call[t].map]

\* The daemon has forgotten the handle h and thread t is about to.
Removes(t, m, h) ==
  /\ call[t].f = "DISCONNECT"
  /\ call[t].map = m /\ call[t].hCard = h
  /\ \/ pc[t] \in {"removeHandle", "removeSeek", "deleteHandle"}
     \/ /\ pc[t] = "receive"
        /\ replies[m] # <<>>
        /\ FirstAnswer(t).rv = "SUCCESS"

Agreement ==
  \A m \in Maps : \A h \in channelMapList[m] :
    session[m] = "open" /\ serverContext[m] # NoContext =>
      h \in serverHandles[m] \/ \E t \in Threads : Removes(t, m, h)

\* An answer to the request cmd of thread t.
AnswerOK(t, cmd, a) ==
  /\ a.n = IF cmd \in {"ARRAY", "STATE"} THEN maxReaderContext ELSE 1
  /\ cmd = "ESTABLISH" => a.value \in Contexts
  /\ cmd = "SIZE" =>
       /\ a.value \in Nat \ {0}
       /\ session[call[t].map] = "open" => a.value = daemon.table
  /\ cmd = "CONNECT" /\ a.rv = "SUCCESS" => a.value \in Handles

\* A thread that waits has its request or its answer on the socket, unless
\* the daemon is no more.
Awaits(t) ==
  LET m == call[t].map
      cmd == Head(call[t].todo)
  IN \/ /\ session[m] = "open"
        /\ requests[m] = <<Request(t, cmd)>>
        /\ replies[m] = <<>>
     \/ /\ requests[m] = <<>>
        /\ replies[m] # <<>>
        /\ AnswerOK(t, cmd, FirstAnswer(t))
        /\ Tail(replies[m]) = DataOf(cmd, FirstAnswer(t).rv)
     \/ /\ session[m] = "broken"
        /\ requests[m] = <<>>
        /\ replies[m] = <<>>

AwaitsData(t) ==
  /\ requests[call[t].map] = <<>>
  /\ replies[call[t].map] = <<Answer("DATA", "SUCCESS", 0, 1)>>

Talks(t, m) == pc[t] \in {"receive", "receiveData"} /\ call[t].map = m

Wires ==
  /\ \A t \in Threads : pc[t] = "receive" => Awaits(t)
  /\ \A t \in Threads : pc[t] = "receiveData" => AwaitsData(t)
  /\ \A m \in Maps : (\A t \in Threads : ~Talks(t, m)) =>
       requests[m] = <<>> /\ replies[m] = <<>>
  /\ \A m \in Maps : session[m] = "open" => daemon.running

\* The table a thread is about to be sent is as large as the one it expects.
Tables ==
  \A t \in Threads :
    /\ pc[t] \in {"send", "receive"} /\ call[t].todo # <<>>
         /\ Head(call[t].todo) = "ARRAY" /\ session[call[t].map] = "open" =>
         daemon.table = maxReaderContext
    /\ pc[t] = "receive" /\ Head(call[t].todo) = "STATE" =>
         maxReaderContext = FixedTable

Inv == /\ Types /\ Mutexes /\ \A t \in Threads : Working(t)
       /\ Lists /\ HandlesOK /\ Fresh /\ Agreement /\ Wires /\ Tables

-----------------------------------------------------------------------------
\* Lemmas about the operators

\* Assigning to one local variable of a call keeps the call well formed.
LEMMA CallType ==
  ASSUME NEW k \in CallRecords
  PROVE  /\ \A m \in Maps : [k EXCEPT !.map = m] \in CallRecords
         /\ \A i \in Nat \ {0} : [k EXCEPT !.index = i] \in CallRecords
         /\ \A td \in Seq(Commands) : [k EXCEPT !.todo = td] \in CallRecords
         /\ \A v \in AllVersions : [k EXCEPT !.version = v] \in CallRecords
         /\ \A c \in Contexts : [k EXCEPT !.hContext = c] \in CallRecords
         /\ \A h \in Handles : [k EXCEPT !.hCard = h] \in CallRecords
BY DEF CallRecords

\* A new call is well formed.
LEMMA NewCallType ==
  ASSUME NEW f \in AllFunctions \cup {"NONE"},
         NEW c \in Contexts \cup {NoContext}, NEW h \in Handles \cup {NoHandle}
  PROVE  /\ Call(f, c, h) \in CallRecords
         /\ Call(f, c, h).f = f
         /\ Call(f, c, h).hContext = c
         /\ Call(f, c, h).hCard = h
         /\ Call(f, c, h).map = NULL
<1>1. <<>> \in Seq(Commands)
  OBVIOUS
<1> QED BY <1>1 DEF Call, CallRecords, AllVersions

\* Appending to a sequence of one and of two.
LEMMA AppendToPair ==
  ASSUME NEW a, NEW b, NEW c
  PROVE  /\ Append(<<a>>, b) = <<a, b>>
         /\ Append(<<a, b>>, c) = <<a, b, c>>
<1> DEFINE S == {a, b, c}
<1>1. ASSUME NEW s \in Seq(S), NEW r \in Seq(S), Len(s) = Len(r),
             \A i \in 1 .. Len(s) : s[i] = r[i]
      PROVE  s = r
  BY <1>1, SeqEqual
<1>2. Append(<<a>>, b) = <<a, b>>
  <2>1. <<a>> \in Seq(S) /\ <<a, b>> \in Seq(S) /\ Len(<<a, b>>) = 2
    OBVIOUS
  <2>2. Append(<<a>>, b) \in Seq(S) /\ Len(Append(<<a>>, b)) = 2
    BY <2>1
  <2>3. \A i \in 1 .. 2 : Append(<<a>>, b)[i] = <<a, b>>[i]
    BY <2>1
  <2> QED BY <1>1, <2>1, <2>2, <2>3
<1>3. Append(<<a, b>>, c) = <<a, b, c>>
  <2>1. /\ <<a, b>> \in Seq(S)
        /\ <<a, b, c>> \in Seq(S) /\ Len(<<a, b, c>>) = 3
    OBVIOUS
  <2>2. Append(<<a, b>>, c) \in Seq(S) /\ Len(Append(<<a, b>>, c)) = 3
    BY <2>1
  <2>3. \A i \in 1 .. 3 : Append(<<a, b>>, c)[i] = <<a, b, c>>[i]
    BY <2>1
  <2> QED BY <1>1, <2>1, <2>2, <2>3
<1> QED BY <1>2, <1>3

\* The requests a call begins with.
LEMMA FirstRequests ==
  ASSUME NEW f \in ContextFunctions \cup HandleFunctions \cup {"ESTABLISH"}
  PROVE  /\ RequestsOf(f) \in Todos(f)
         /\ RequestsOf(f) \in Seq(Commands)
         /\ RequestsOf(f) # <<>> => Head(RequestsOf(f)) # "ARRAY"
<1> USE DEF Commands, AllFunctions, ContextFunctions, HandleFunctions
<1>1. CASE f = "LIST_READERS"
  <2>1. RequestsOf(f) \in {<<"STATE">>, <<"SIZE", "ARRAY">>}
    BY <1>1 DEF RequestsOf, GetReaderStates
  <2>2. Todos(f) = {<<"STATE">>, <<"SIZE", "ARRAY">>, <<"ARRAY">>}
    BY <1>1 DEF Todos
  <2>3. CASE RequestsOf(f) = <<"STATE">>
    BY <2>2, <2>3
  <2>4. CASE RequestsOf(f) = <<"SIZE", "ARRAY">>
    BY <2>2, <2>4
  <2> QED BY <2>1, <2>3, <2>4
<1>2. CASE f = "STATUS"
  <2>1. /\ Append(<<"STATE">>, "STATUS") = <<"STATE", "STATUS">>
        /\ Append(<<"SIZE", "ARRAY">>, "STATUS") = <<"SIZE", "ARRAY", "STATUS">>
    BY AppendToPair
  <2>2. RequestsOf(f) \in {<<"STATE", "STATUS">>, <<"SIZE", "ARRAY", "STATUS">>}
    BY <1>2, <2>1 DEF RequestsOf, GetReaderStates
  <2>3. Todos(f) = {<<"STATE", "STATUS">>, <<"SIZE", "ARRAY", "STATUS">>,
                    <<"ARRAY", "STATUS">>, <<"STATUS">>}
    BY <1>2 DEF Todos
  <2>4. CASE RequestsOf(f) = <<"STATE", "STATUS">>
    BY <2>3, <2>4
  <2>5. CASE RequestsOf(f) = <<"SIZE", "ARRAY", "STATUS">>
    BY <2>3, <2>5
  <2> QED BY <2>2, <2>4, <2>5
<1>3. CASE f = "LIST_GROUPS"
  BY <1>3 DEF RequestsOf, Todos
<1>4. CASE f = "ESTABLISH"
  BY <1>4 DEF RequestsOf, Todos
<1>5. CASE f \notin {"LIST_READERS", "STATUS", "LIST_GROUPS", "ESTABLISH"}
  <2>1. RequestsOf(f) = <<f>> /\ Todos(f) = {<<f>>}
    BY <1>5 DEF RequestsOf, Todos
  <2> QED BY <1>5, <2>1
<1> QED BY <1>1, <1>2, <1>3, <1>4, <1>5

\* The first request of a call that has some left, and those after it.
LEMMA NextRequests ==
  ASSUME NEW f \in AllFunctions, NEW td \in Todos(f), td # <<>>
  PROVE  /\ td \in Seq(Commands)
         /\ Head(td) \in Commands
         /\ Head(td) = "VERSION" => f = "ESTABLISH" /\ Tail(td) = <<"ESTABLISH">>
         /\ Head(td) = "ESTABLISH" => f = "ESTABLISH"
         /\ Head(td) = "SIZE" =>
              UsesReaderStates(f) /\ Tail(td) \in Todos(f) /\ Tail(td) # <<>>
         /\ Head(td) \in {"ARRAY", "STATE"} =>
              UsesReaderStates(f) /\ (f = "STATUS" => Tail(td) = <<"STATUS">>)
         /\ Head(td) \in AllFunctions => Head(td) = f
<1> USE DEF Commands, AllFunctions, ContextFunctions, HandleFunctions,
            UsesReaderStates
<1>1. CASE f = "LIST_READERS"
  <2>1. td \in {<<"STATE">>, <<"SIZE", "ARRAY">>, <<"ARRAY">>}
    BY <1>1 DEF Todos
  <2>2. CASE td = <<"STATE">>
    BY <1>1, <2>2
  <2>3. CASE td = <<"SIZE", "ARRAY">>
    <3>1. Tail(td) = <<"ARRAY">>
      BY <2>3
    <3> QED BY <1>1, <2>3, <3>1 DEF Todos
  <2>4. CASE td = <<"ARRAY">>
    BY <1>1, <2>4
  <2> QED BY <2>1, <2>2, <2>3, <2>4
<1>2. CASE f = "STATUS"
  <2>1. td \in {<<"STATE", "STATUS">>, <<"SIZE", "ARRAY", "STATUS">>,
                <<"ARRAY", "STATUS">>, <<"STATUS">>}
    BY <1>2 DEF Todos
  <2>2. CASE td = <<"STATE", "STATUS">>
    BY <1>2, <2>2
  <2>3. CASE td = <<"SIZE", "ARRAY", "STATUS">>
    <3>1. Tail(td) = <<"ARRAY", "STATUS">>
      BY <2>3
    <3> QED BY <1>2, <2>3, <3>1 DEF Todos
  <2>4. CASE td = <<"ARRAY", "STATUS">>
    BY <1>2, <2>4
  <2>5. CASE td = <<"STATUS">>
    BY <1>2, <2>5
  <2> QED BY <2>1, <2>2, <2>3, <2>4, <2>5
<1>3. CASE f = "LIST_GROUPS"
  BY <1>3 DEF Todos
<1>4. CASE f = "ESTABLISH"
  <2>1. CASE td = <<"VERSION", "ESTABLISH">>
    BY <1>4, <2>1
  <2>2. CASE td = <<"ESTABLISH">>
    BY <1>4, <2>2
  <2> QED BY <1>4, <2>1, <2>2 DEF Todos
<1>5. CASE f \notin {"LIST_READERS", "STATUS", "LIST_GROUPS", "ESTABLISH"}
  <2>1. td = <<f>>
    BY <1>5 DEF Todos
  <2> QED BY <1>5, <2>1
<1> QED BY <1>1, <1>2, <1>3, <1>4, <1>5

\* The functions that reach each step, one by one.
LEMMA FunctionsAtEach ==
  /\ FunctionsAt("idle") = {"NONE"}
  /\ FunctionsAt("enter") = AllFunctions \ {"ESTABLISH"}
  /\ FunctionsAt("lookup") = ContextFunctions \cup {"CANCEL", "IS_VALID"}
  /\ FunctionsAt("peek") = {"CANCEL", "IS_VALID"}
  /\ FunctionsAt("seekLock") = HandleFunctions
  /\ FunctionsAt("seek") = HandleFunctions
  /\ FunctionsAt("lock") = ContextFunctions \cup HandleFunctions
  /\ FunctionsAt("states") = {"STATUS", "LIST_READERS"}
  /\ FunctionsAt("send") = AllFunctions \ {"CANCEL", "IS_VALID"}
  /\ FunctionsAt("receive") = AllFunctions \ {"CANCEL", "IS_VALID"}
  /\ FunctionsAt("receiveData") = {"TRANSMIT", "CONTROL"}
  /\ FunctionsAt("retry") = HandleFunctions
  /\ FunctionsAt("unlock") = ContextFunctions \cup HandleFunctions
  /\ FunctionsAt("cleanup") = {"ESTABLISH"}
  /\ FunctionsAt("addContext") = {"ESTABLISH"}
  /\ FunctionsAt("addHandle") = {"CONNECT"}
  /\ FunctionsAt("removeHandle") = {"DISCONNECT"}
  /\ FunctionsAt("removeSeek") = {"DISCONNECT"}
  /\ FunctionsAt("deleteHandle") = {"DISCONNECT"}
  /\ FunctionsAt("removeContext") = {"RELEASE"}
  /\ FunctionsAt("cleanSession") = {"RELEASE"}
  /\ FunctionsAt("cleanChannels") = {"RELEASE"}
  /\ FunctionsAt("cleanList") = {"RELEASE"}
  /\ FunctionsAt("freeContext") = {"RELEASE"}
BY DEF FunctionsAt

-----------------------------------------------------------------------------
\* Steps of one thread

\* Thread t goes on at step with the local variables k.
Moves(t, step, k) ==
  /\ pc' = [pc EXCEPT ![t] = step]
  /\ call' = [call EXCEPT ![t] = k]

\* A step that changes a mutex takes it when it is free or gives back its own,
\* and the thread is then where the mutex has to be held or not.
TakesOrGives(mutex, newMutex, t, before, after) ==
  \/ newMutex = mutex /\ (before <=> after)
  \/ mutex = NoThread /\ newMutex = t /\ after
  \/ before /\ newMutex = NoThread /\ ~after

TakesOrGivesContext(t, k) ==
  \/ /\ UNCHANGED mMutex
     /\ Exchanges(t) <=> Exchanges(t)'
     /\ Exchanges(t) => k.map = call[t].map
  \/ /\ ~Exchanges(t) /\ Exchanges(t)'
     /\ mMutex[k.map] = NoThread
     /\ mMutex' = [mMutex EXCEPT ![k.map] = t]
  \/ /\ Exchanges(t) /\ ~Exchanges(t)'
     /\ mMutex' = [mMutex EXCEPT ![call[t].map] = NoThread]

\* What the other threads are doing stays the same.
LEMMA MovesFrame ==
  ASSUME Types, NEW t \in Threads, NEW step, NEW k, Moves(t, step, k)
  PROVE  /\ pc'[t] = step /\ call'[t] = k
         /\ \A u \in Threads : u # t => pc'[u] = pc[u] /\ call'[u] = call[u]
BY DEF Types, Moves

\* The mutexes are held by the threads that are where they have to be held.
LEMMA MutexStep ==
  ASSUME Types, Mutexes, NEW t \in Threads, NEW step, NEW k,
         Moves(t, step, k), Exchanges(t)' => k.map \in Maps,
         TakesOrGives(clientMutex, clientMutex', t, HoldsClient(t),
                      HoldsClient(t)'),
         TakesOrGives(listLock, listLock', t, Seeking(t), Seeking(t)'),
         TakesOrGives(readerStatesMutex, readerStatesMutex', t,
                      HoldsStates(t), HoldsStates(t)'),
         TakesOrGivesContext(t, k)
  PROVE  Mutexes'
<1> USE ClientLibraryAssumption
<1>1. /\ pc'[t] = step /\ call'[t] = k
      /\ \A u \in Threads : u # t => pc'[u] = pc[u] /\ call'[u] = call[u]
  BY MovesFrame
<1>2. \A u \in Threads : u # t => /\ HoldsClient(u)' <=> HoldsClient(u)
                                  /\ Seeking(u)' <=> Seeking(u)
                                  /\ HoldsStates(u)' <=> HoldsStates(u)
                                  /\ Exchanges(u)' <=> Exchanges(u)
  BY <1>1 DEF HoldsClient, Seeking, HoldsStates, Exchanges
<1>3. \A u \in Threads : clientMutex' = u <=> HoldsClient(u)'
  BY <1>2 DEF Mutexes, TakesOrGives
<1>4. \A u \in Threads : listLock' = u <=> Seeking(u)'
  BY <1>2 DEF Mutexes, TakesOrGives
<1>5. \A u \in Threads : readerStatesMutex' = u <=> HoldsStates(u)'
  BY <1>2 DEF Mutexes, TakesOrGives
<1>6. ASSUME NEW u \in Threads, NEW m \in Maps
      PROVE  mMutex'[m] = u <=> Exchanges(u)' /\ call'[u].map = m
  <2>1. mMutex[m] = u <=> Exchanges(u) /\ call[u].map = m
    BY DEF Mutexes
  <2>2. mMutex[m] = t <=> Exchanges(t) /\ call[t].map = m
    BY DEF Mutexes
  <2>3. CASE UNCHANGED mMutex
    BY <1>1, <1>2, <2>1, <2>2, <2>3 DEF TakesOrGivesContext, Types
  <2>4. CASE /\ ~Exchanges(t) /\ Exchanges(t)'
             /\ mMutex[k.map] = NoThread
             /\ mMutex' = [mMutex EXCEPT ![k.map] = t]
    BY <1>1, <1>2, <2>1, <2>2, <2>4 DEF Types
  <2>5. CASE /\ Exchanges(t) /\ ~Exchanges(t)'
             /\ mMutex' = [mMutex EXCEPT ![call[t].map] = NoThread]
    BY <1>1, <1>2, <2>1, <2>2, <2>5 DEF Types
  <2> QED BY <2>3, <2>4, <2>5 DEF TakesOrGivesContext
<1> QED BY <1>3, <1>4, <1>5, <1>6 DEF Mutexes

\* A step of one thread that leaves the contexts alone does not disturb what
\* the others have in hand.
LEMMA OthersWork ==
  ASSUME Inv, NEW t \in Threads, NEW step, NEW k, Moves(t, step, k),
         UNCHANGED <<contextMapList, hContext, channelMapList, allocated,
                     myContext, myHandles>>,
         \A m \in Maps : session'[m] = "closed" => session[m] = "closed"
  PROVE  \A u \in Threads : u # t => Working(u)'
<1> SUFFICES ASSUME NEW u \in Threads, u # t PROVE Working(u)'
  OBVIOUS
<1>1. pc'[u] = pc[u] /\ call'[u] = call[u]
  BY MovesFrame DEF Inv
<1>2. /\ Owns(u)' <=> Owns(u)
      /\ Cleans(u)' <=> Cleans(u)
      /\ Establishes(u)' <=> Establishes(u)
      /\ \A m \in Maps : InList(m)' <=> InList(m)
      /\ InList(call[u].map)' <=> InList(call[u].map)
  BY <1>1 DEF Owns, Exchanges, Cleans, Establishes, InList
<1>3. Working(u) /\ (Owns(u) => call[u].map \in Maps)
  BY DEF Inv, Working, InList, Types
<1> QED BY <1>1, <1>2, <1>3 DEF Working

\* A step that leaves the contexts and the handles of the application alone
\* keeps what is known of them.
LEMMA KeepsLists ==
  ASSUME HandlesOK, drawn \subseteq drawn',
         UNCHANGED <<contextMapList, hContext, channelMapList, myContext,
                     myHandles>>,
         \A u \in Threads : Cleans(u)' => Cleans(u),
         \A u \in Threads : pc[u] = "cleanChannels" =>
           pc'[u] = "cleanChannels" /\ call'[u].map = call[u].map
  PROVE  HandlesOK'
<1>1. \A m \in Maps : InList(m)' <=> InList(m)
  BY DEF InList
<1>2. \A u \in Threads, m \in Maps : ListOf(u, m) => ListOf(u, m)'
  BY DEF ListOf
<1> QED BY <1>1, <1>2 DEF HandlesOK

\* A step of one thread that changes nothing but where it is, its local
\* variables and the mutexes, and that does not read its answer.
LEMMA QuietStep ==
  ASSUME Inv, NEW t \in Threads, NEW step \in Steps, NEW k \in CallRecords,
         Moves(t, step, k),
         UNCHANGED <<mapVars, clientVars, wireVars, appVars, serverVars>>,
         pc[t] \notin {"addHandle", "cleanChannels", "cleanList",
                       "freeContext"},
         step \notin {"addHandle", "receive", "receiveData", "cleanChannels",
                      "cleanList", "freeContext"},
         pc[t] \in {"receive", "receiveData"} =>
           requests[call[t].map] = <<>> /\ replies[call[t].map] = <<>>,
         \A m \in Maps, h \in Handles :
           h \in channelMapList[m] /\ Removes(t, m, h) => Removes(t, m, h)',
         step = "send" /\ k.todo # <<>> => Head(k.todo) # "ARRAY",
         clientMutex' \in Threads \cup {NoThread},
         listLock' \in Threads \cup {NoThread},
         readerStatesMutex' \in Threads \cup {NoThread},
         mMutex' \in [Maps -> Threads \cup {NoThread}],
         Mutexes', Working(t)'
  PROVE  Inv'
<1>1. /\ pc'[t] = step /\ call'[t] = k
      /\ \A u \in Threads : u # t => pc'[u] = pc[u] /\ call'[u] = call[u]
  BY MovesFrame DEF Inv
<1>2. Types'
  BY DEF Inv, Types, Moves
<1>3. \A u \in Threads : Working(u)'
  BY OthersWork
<1>4. Lists'
  <2>1. \A u \in Threads : Cleans(u)' <=> Cleans(u)
    BY <1>1 DEF Cleans
  <2>2. \A m \in Maps : InList(m)' <=> InList(m)
    BY DEF InList
  <2> QED BY <2>1, <2>2 DEF Inv, Lists
<1>5. HandlesOK'
  BY <1>1, KeepsLists DEF Inv, Cleans
<1>6. Fresh'
  <2>1. \A u \in Threads, h \in Handles : Adds(u, h)' => u # t /\ Adds(u, h)
    BY <1>1 DEF Adds, FirstAnswer
  <2> QED BY <1>1, <2>1 DEF Inv, Fresh
<1>7. Agreement'
  <2>1. ASSUME NEW u \in Threads, NEW m \in Maps, NEW h \in Handles,
               h \in channelMapList[m], Removes(u, m, h)
        PROVE  Removes(u, m, h)'
    BY <1>1, <2>1 DEF Removes, FirstAnswer
  <2> QED BY <2>1 DEF Inv, Agreement, Types
<1>8. Wires'
  <2>1. ASSUME NEW u \in Threads, pc'[u] = "receive" PROVE Awaits(u)'
    <3>1. u # t /\ Awaits(u)
      BY <1>1, <2>1 DEF Inv, Wires
    <3> QED BY <1>1, <3>1 DEF Awaits, AnswerOK, FirstAnswer, Request, Argument
  <2>2. ASSUME NEW u \in Threads, pc'[u] = "receiveData" PROVE AwaitsData(u)'
    <3>1. u # t /\ AwaitsData(u)
      BY <1>1, <2>2 DEF Inv, Wires
    <3> QED BY <1>1, <3>1 DEF AwaitsData
  <2>3. ASSUME NEW m \in Maps, \A u \in Threads : ~Talks(u, m)'
        PROVE  requests[m] = <<>> /\ replies[m] = <<>>
    <3>1. \A u \in Threads : u # t => ~Talks(u, m)
      BY <1>1, <2>3 DEF Talks
    <3>2. CASE Talks(t, m)
      BY <3>2 DEF Talks
    <3>3. CASE ~Talks(t, m)
      BY <3>1, <3>3 DEF Inv, Wires
    <3> QED BY <3>2, <3>3
  <2>4. \A m \in Maps : session[m] = "open" => daemon.running
    BY DEF Inv, Wires
  <2> QED BY <2>1, <2>2, <2>3, <2>4 DEF Wires
<1>9. Tables'
  BY <1>1 DEF Inv, Tables
<1> QED BY <1>2, <1>3, <1>4, <1>5, <1>6, <1>7, <1>8, <1>9 DEF Inv

\* Enter(): the functions of a context or a handle take clientMutex.
LEMMA EnterStep ==
  ASSUME Inv, NEW t \in Threads, Enter(t)
  PROVE  Inv'
<1> USE ClientLibraryAssumption
<1> DEFINE step == IF call[t].f \in HandleFunctions THEN "seekLock" ELSE "lookup"
           k == call[t]
<1>0. Types /\ Mutexes /\ Working(t) /\ Lists
  BY DEF Inv
<1>1. step \in Steps /\ k \in CallRecords
  BY <1>0 DEF Enter, Steps, Types
<1>2. Moves(t, step, k)
  BY <1>0 DEF Enter, Moves, Goto, SetCall, Return, NoCall, Types
<1>3. pc'[t] = step /\ call'[t] = k
  BY <1>0, <1>2, MovesFrame
<1>4. Mutexes'
  BY <1>0, <1>2, <1>3, MutexStep
     DEF Enter, TakesOrGives, TakesOrGivesContext, SCardLockThread,
         HoldsClient, Seeking, HoldsStates, Exchanges
<1>5. Working(t)'
  BY <1>0, <1>3
     DEF Enter, Working, FunctionsAt, Owns, Exchanges, Cleans, Establishes,
         AllFunctions, ContextFunctions, HandleFunctions
<1>6. \A m \in Maps, h \in Handles : Removes(t, m, h) => Removes(t, m, h)'
  BY DEF Enter, Removes
<1> QED
  BY <1>0, <1>1, <1>2, <1>4, <1>5, <1>6, QuietStep
     DEF Enter, Types, SCardLockThread, SCardUnlockThread

\* The application calls a function of its context, or cancels or tests one.
LEMMA CallContextStep ==
  ASSUME Inv, NEW t \in Threads, NEW f \in AllFunctions, NEW c \in Contexts,
         \/ f \in {"CANCEL", "IS_VALID"}
         \/ f \in ContextFunctions /\ c = myContext[t],
         CallContext(t, f, c)
  PROVE  Inv'
<1> USE ClientLibraryAssumption
<1> DEFINE step == "enter"
           k == Call(f, c, NoHandle)
<1>0. Types /\ Mutexes /\ Working(t) /\ Lists
  BY DEF Inv
<1>1. step \in Steps /\ k \in CallRecords
  BY <1>0, NewCallType DEF CallContext, Steps, Types, AllFunctions,
     ContextFunctions,
     HandleFunctions
<1>2. Moves(t, step, k)
  BY <1>0 DEF CallContext, Moves, Goto, SetCall, Return, NoCall, Types
<1>3. pc'[t] = step /\ call'[t] = k
  BY <1>0, <1>2, MovesFrame
<1>4. Mutexes'
  BY <1>0, <1>1, <1>2, <1>3, MutexStep
     DEF CallContext, TakesOrGives, TakesOrGivesContext, SCardLockThread,
         SCardUnlockThread, HoldsClient, Seeking, HoldsStates, Exchanges,
         UsesReaderStates, Call
<1>5. Working(t)'
  BY <1>0, <1>3, NewCallType
     DEF CallContext, Working, FunctionsAt, Owns, Exchanges, Cleans, Establishes,
         AllFunctions, ContextFunctions, HandleFunctions
<1>6. \A m \in Maps, h \in Handles : Removes(t, m, h) => Removes(t, m, h)'
  BY <1>0, <1>3, NewCallType DEF CallContext, Removes
<1> QED
  BY <1>0, <1>1, <1>2, <1>4, <1>5, <1>6, QuietStep
     DEF CallContext, Types, SCardLockThread, SCardUnlockThread

\* The application calls a function of one of its handles.
LEMMA CallHandleStep ==
  ASSUME Inv, NEW t \in Threads, NEW f \in HandleFunctions, NEW h \in Handles,
         CallHandle(t, f, h)
  PROVE  Inv'
<1> USE ClientLibraryAssumption
<1> DEFINE step == "enter"
           k == Call(f, NoContext, h)
<1>0. Types /\ Mutexes /\ Working(t) /\ Lists
  BY DEF Inv
<1>1. step \in Steps /\ k \in CallRecords
  BY <1>0, NewCallType DEF CallHandle, Steps, Types, AllFunctions,
     ContextFunctions,
     HandleFunctions
<1>2. Moves(t, step, k)
  BY <1>0 DEF CallHandle, Moves, Goto, SetCall, Return, NoCall, Types
<1>3. pc'[t] = step /\ call'[t] = k
  BY <1>0, <1>2, MovesFrame
<1>4. Mutexes'
  BY <1>0, <1>1, <1>2, <1>3, MutexStep
     DEF CallHandle, TakesOrGives, TakesOrGivesContext, SCardLockThread,
         SCardUnlockThread, HoldsClient, Seeking, HoldsStates, Exchanges,
         UsesReaderStates, Call
<1>5. Working(t)'
  BY <1>0, <1>3, NewCallType
     DEF CallHandle, Working, FunctionsAt, Owns, Exchanges, Cleans, Establishes,
         AllFunctions, ContextFunctions, HandleFunctions, Types
<1>6. \A m \in Maps, g \in Handles : Removes(t, m, g) => Removes(t, m, g)'
  BY <1>0, <1>3, NewCallType DEF CallHandle, Removes
<1> QED
  BY <1>0, <1>1, <1>2, <1>4, <1>5, <1>6, QuietStep
     DEF CallHandle, Types, SCardLockThread, SCardUnlockThread

\* SCardCancel() and SCardIsValidContext() are done with the context.
LEMMA PeekStep ==
  ASSUME Inv, NEW t \in Threads, Peek(t)
  PROVE  Inv'
<1> USE ClientLibraryAssumption
<1> DEFINE step == "idle"
           k == NoCall
<1>0. Types /\ Mutexes /\ Working(t) /\ Lists
  BY DEF Inv
<1>1. step \in Steps /\ k \in CallRecords
  BY <1>0, NewCallType DEF Peek, Steps, Types, NoCall
<1>2. Moves(t, step, k)
  BY <1>0 DEF Peek, Moves, Goto, SetCall, Return, NoCall, Types
<1>3. pc'[t] = step /\ call'[t] = k
  BY <1>0, <1>2, MovesFrame
<1>4. Mutexes'
  BY <1>0, <1>1, <1>2, <1>3, MutexStep
     DEF Peek, TakesOrGives, TakesOrGivesContext, SCardLockThread,
         SCardUnlockThread, HoldsClient, Seeking, HoldsStates, Exchanges,
         UsesReaderStates, NoCall, Call
<1>5. Working(t)'
  BY <1>0, <1>3, NewCallType
     DEF Peek, Working, FunctionsAt, Owns, Exchanges, Cleans, Establishes,
         AllFunctions, ContextFunctions, HandleFunctions, NoCall
<1>6. \A m \in Maps, h \in Handles : Removes(t, m, h) => Removes(t, m, h)'
  BY <1>0, <1>3, NewCallType DEF Peek, Removes
<1> QED
  BY <1>0, <1>1, <1>2, <1>4, <1>5, <1>6, QuietStep
     DEF Peek, Types, SCardLockThread, SCardUnlockThread

\* There is no memory for the context.
LEMMA SCardAddContextFailsStep ==
  ASSUME Inv, NEW t \in Threads, SCardAddContextFails(t)
  PROVE  Inv'
<1> USE ClientLibraryAssumption
<1> DEFINE step == "idle"
           k == NoCall
<1>0. Types /\ Mutexes /\ Working(t) /\ Lists
  BY DEF Inv
<1>1. step \in Steps /\ k \in CallRecords
  BY <1>0, NewCallType DEF SCardAddContextFails, Steps, Types, NoCall
<1>2. Moves(t, step, k)
  BY <1>0 DEF SCardAddContextFails, Moves, Goto, SetCall, Return, NoCall, Types
<1>3. pc'[t] = step /\ call'[t] = k
  BY <1>0, <1>2, MovesFrame
<1>4. Mutexes'
  BY <1>0, <1>1, <1>2, <1>3, MutexStep
     DEF SCardAddContextFails, TakesOrGives, TakesOrGivesContext, SCardLockThread,
         SCardUnlockThread, HoldsClient, Seeking, HoldsStates, Exchanges,
         UsesReaderStates, NoCall, Call
<1>5. Working(t)'
  BY <1>0, <1>3, NewCallType
     DEF SCardAddContextFails, Working, FunctionsAt, Owns, Exchanges, Cleans, Establishes,
         AllFunctions, ContextFunctions, HandleFunctions, NoCall
<1>6. \A m \in Maps, h \in Handles : Removes(t, m, h) => Removes(t, m, h)'
  BY <1>0, <1>3, NewCallType DEF SCardAddContextFails, Removes
<1> QED
  BY <1>0, <1>1, <1>2, <1>4, <1>5, <1>6, QuietStep
     DEF SCardAddContextFails, Types, SCardLockThread, SCardUnlockThread

\* The search for a handle takes contextMapList_lock.
LEMMA SeekLockStep ==
  ASSUME Inv, NEW t \in Threads, SeekLock(t)
  PROVE  Inv'
<1> USE ClientLibraryAssumption
<1> DEFINE step == IF pc[t] = "seekLock" THEN "seek" ELSE "removeSeek"
           k == [call[t] EXCEPT !.index = 1]
<1>0. Types /\ Mutexes /\ Working(t) /\ Lists
  BY DEF Inv
<1>1. step \in Steps /\ k \in CallRecords
  <2>1. call[t] \in CallRecords /\ 1 \in Nat \ {0}
    BY <1>0 DEF Types
  <2> QED BY <2>1, CallType DEF Steps
<1>2. Moves(t, step, k)
  BY <1>0 DEF SeekLock, Moves, Goto, SetCall, Types
<1>a. /\ k.f = call[t].f /\ k.map = call[t].map /\ k.hCard = call[t].hCard
      /\ k.todo = call[t].todo /\ k.hContext = call[t].hContext
  BY <1>0 DEF Types, CallRecords
<1> HIDE DEF k
<1>3. pc'[t] = step /\ call'[t] = k
  BY <1>0, <1>2, MovesFrame
<1>b. /\ pc[t] \in {"seekLock", "removeHandle"} /\ listLock = NoThread
      /\ listLock' = t
      /\ UNCHANGED <<clientMutex, readerStatesMutex, mMutex, mapVars, clientVars,
                 wireVars, appVars, serverVars>>
  BY DEF SeekLock
<1>c. CASE pc[t] = "seekLock"
  <2>1. Mutexes'
   <3>1. /\ HoldsClient(t) /\ HoldsClient(t)' /\ Seeking(t)' 
         /\ ~HoldsStates(t) /\ ~HoldsStates(t)' /\ ~Exchanges(t) /\ ~Exchanges(t)'
     BY <1>3, <1>c DEF HoldsClient, Seeking, HoldsStates, Exchanges
   <3> QED
     BY <1>0, <1>1, <1>2, <1>b, <3>1, MutexStep
     DEF TakesOrGives, TakesOrGivesContext
  <2>2. Working(t)'
   <3>1. /\ call[t].f \in HandleFunctions /\ call[t].hCard \in myHandles[t]
     BY <1>0, <1>c, FunctionsAtEach DEF Working
   <3>2. /\ pc'[t] = "seek" /\ call'[t].f \in FunctionsAt("seek")
         /\ call'[t].f # "ESTABLISH" /\ call'[t].f \notin ContextFunctions
         /\ call'[t].hCard \in myHandles'[t]
    BY <1>3, <1>c, <1>a, <1>b, <3>1, FunctionsAtEach
     DEF HandleFunctions, ContextFunctions
   <3> QED
    BY <3>2
     DEF Working, Owns, Exchanges, Cleans, Establishes
  <2>3. \A m \in Maps, h \in Handles : Removes(t, m, h) => Removes(t, m, h)'
   BY <1>3, <1>a, <1>c DEF Removes
  <2> QED
  BY <1>0, <1>1, <1>2, <1>b, <1>c, <2>1, <2>2, <2>3, QuietStep
     DEF Types
<1>d. CASE pc[t] = "removeHandle"
  <2>1. Mutexes'
   <3>1. /\ ~HoldsClient(t) /\ ~HoldsClient(t)' /\ Seeking(t)' 
         /\ ~HoldsStates(t) /\ ~HoldsStates(t)' /\ Exchanges(t) /\ Exchanges(t)'
     BY <1>3, <1>d DEF HoldsClient, Seeking, HoldsStates, Exchanges
   <3>2. k.map \in Maps
     BY <1>0, <1>a, <3>1 DEF Working, Owns, InList, Types
   <3> QED
     BY <1>0, <1>1, <1>2, <1>a, <1>b, <3>1, <3>2, MutexStep
     DEF TakesOrGives, TakesOrGivesContext
  <2>2. Working(t)'
   <3>1. /\ call[t].f = "DISCONNECT" /\ call[t].hCard \in myHandles[t]
     BY <1>0, <1>d, FunctionsAtEach DEF Working, HandleFunctions
   <3>2. /\ InList(call[t].map)
         /\ hContext[call[t].map] = myContext[t]
         /\ myContext[t] # NoContext
     BY <1>0, <1>d DEF Working, Owns, Exchanges
   <3>3. InList(call[t].map)'
     BY <1>b, <1>3, <3>2, <1>a DEF InList
   <3>4. /\ pc'[t] = "removeSeek" /\ call'[t].f \in FunctionsAt("removeSeek")
         /\ call'[t].f # "ESTABLISH" /\ call'[t].f \notin ContextFunctions
         /\ call'[t].hCard \in myHandles'[t]
         /\ hContext'[call'[t].map] = myContext'[t]
         /\ myContext'[t] # NoContext
    BY <1>3, <1>d, <1>a, <1>b, <3>1, <3>2, FunctionsAtEach
     DEF HandleFunctions, ContextFunctions
   <3> QED
    BY <3>3, <3>4
     DEF Working, Owns, Exchanges, Cleans, Establishes
  <2>3. \A m \in Maps, h \in Handles : Removes(t, m, h) => Removes(t, m, h)'
   BY <1>3, <1>a, <1>d DEF Removes
  <2> QED
  BY <1>0, <1>1, <1>2, <1>b, <1>d, <2>1, <2>2, <2>3, QuietStep
     DEF Types
<1> QED BY <1>b, <1>c, <1>d
\* The search goes on with the next context.
LEMMA SeekNextStep ==
  ASSUME Inv, NEW t \in Threads, SeekNext(t)
  PROVE  Inv'
<1> USE ClientLibraryAssumption
<1> DEFINE step == pc[t]
           k == [call[t] EXCEPT !.index = @ + 1]
<1>0. Types /\ Mutexes /\ Working(t) /\ Lists
  BY DEF Inv
<1>1. step \in Steps /\ k \in CallRecords
  <2>1. call[t] \in CallRecords /\ call[t].index + 1 \in Nat \ {0}
    BY <1>0 DEF Types, CallRecords
  <2> QED BY <1>0, <2>1, CallType DEF Types
<1>2. Moves(t, step, k)
  BY <1>0 DEF SeekNext, Moves, Goto, SetCall, Types
<1>3. pc'[t] = step /\ call'[t] = k
  BY <1>0, <1>2, MovesFrame
<1>4. /\ k.f = call[t].f /\ k.map = call[t].map /\ k.hCard = call[t].hCard
      /\ k.todo = call[t].todo /\ k.hContext = call[t].hContext
  BY <1>0 DEF Types, CallRecords
<1> HIDE DEF k
<1>5. /\ pc[t] \in {"seek", "removeSeek"}
      /\ UNCHANGED <<locksVars, mapVars, clientVars, wireVars, appVars,
                     serverVars>>
  BY DEF SeekNext, Seeking
<1>6. Mutexes'
  <2>1. /\ HoldsClient(t) <=> HoldsClient(t)'
        /\ Seeking(t) /\ Seeking(t)'
        /\ HoldsStates(t) <=> HoldsStates(t)'
        /\ Exchanges(t) <=> Exchanges(t)'
    BY <1>3, <1>4, <1>5 DEF HoldsClient, Seeking, HoldsStates, Exchanges
  <2>2. Exchanges(t) => k.map \in Maps
    BY <1>0, <1>4 DEF Working, Owns, InList, Types
  <2> QED
    BY <1>0, <1>2, <1>4, <1>5, <2>1, <2>2, MutexStep
       DEF TakesOrGives, TakesOrGivesContext
<1>7. Working(t)'
  <2>1. InList(call[t].map)' <=> InList(call[t].map)
    BY <1>3, <1>4, <1>5 DEF InList
  <2>2. Owns(t)' <=> Owns(t)
    BY <1>3, <1>4 DEF Owns, Exchanges
  <2> QED
    BY <1>0, <1>3, <1>4, <1>5, <2>1, <2>2
       DEF Working, Cleans, Establishes
<1>8. \A m \in Maps, h \in Handles : Removes(t, m, h) => Removes(t, m, h)'
  BY <1>3, <1>4, <1>5 DEF Removes
<1> QED
  BY <1>0, <1>1, <1>2, <1>5, <1>6, <1>7, <1>8, QuietStep DEF Types

\* The thread locks its context and lets the others go on.
LEMMA LockContextStep ==
  ASSUME Inv, NEW t \in Threads, LockContext(t)
  PROVE  Inv'
<1> USE ClientLibraryAssumption
<1> DEFINE step == IF UsesReaderStates(call[t].f) THEN "states" ELSE "send"
           k == [call[t] EXCEPT !.todo = RequestsOf(call[t].f)]
<1>0. Types /\ Mutexes /\ Working(t) /\ Lists
  BY DEF Inv
<1>a. /\ call[t].f \in ContextFunctions \cup HandleFunctions
      /\ call[t].f \in HandleFunctions => call[t].hCard \in myHandles[t]
      /\ InList(call[t].map) /\ hContext[call[t].map] = myContext[t]
      /\ myContext[t] # NoContext /\ call[t].map \in Maps
  BY <1>0, FunctionsAtEach DEF LockContext, Working, Owns, InList, Types
<1>1. step \in Steps /\ k \in CallRecords
  <2>1. call[t] \in CallRecords /\ RequestsOf(call[t].f) \in Seq(Commands)
    BY <1>0, <1>a, FirstRequests DEF Types
  <2> QED BY <2>1, CallType DEF Steps
<1>2. Moves(t, step, k)
  BY <1>0 DEF LockContext, Moves, Goto, SetCall, Types
<1>3. pc'[t] = step /\ call'[t] = k
  BY <1>0, <1>2, MovesFrame
<1>4. /\ k.f = call[t].f /\ k.map = call[t].map /\ k.hCard = call[t].hCard
      /\ k.todo = RequestsOf(call[t].f)
  BY <1>0 DEF Types, CallRecords
<1> HIDE DEF k
<1>5. /\ pc[t] = "lock" /\ mMutex[k.map] = NoThread
      /\ mMutex' = [mMutex EXCEPT ![k.map] = t]
      /\ clientMutex' = NoThread
      /\ UNCHANGED <<listLock, readerStatesMutex, mapVars, clientVars, wireVars,
                     appVars, serverVars>>
  BY <1>4 DEF LockContext, SCardUnlockThread
<1>6. call[t].f # "ESTABLISH"
  BY <1>a DEF ContextFunctions, HandleFunctions
<1>7. Mutexes'
  <2>1. /\ HoldsClient(t) /\ ~HoldsClient(t)'
        /\ ~Seeking(t) /\ ~Seeking(t)'
        /\ ~HoldsStates(t) /\ ~HoldsStates(t)'
        /\ ~Exchanges(t) /\ Exchanges(t)'
    BY <1>3, <1>4, <1>5, <1>6
       DEF HoldsClient, Seeking, HoldsStates, Exchanges
  <2> QED
    BY <1>0, <1>2, <1>a, <1>4, <1>5, <2>1, MutexStep
       DEF TakesOrGives, TakesOrGivesContext
<1>8. Working(t)'
  <2>1. InList(call[t].map)'
    BY <1>a, <1>3, <1>4, <1>5 DEF InList
  <2>2. /\ call'[t].f \in FunctionsAt(step) /\ call'[t].f # "ESTABLISH"
        /\ call'[t].todo \in Todos(call'[t].f)
    BY <1>3, <1>4, <1>a, <1>6, FirstRequests, FunctionsAtEach
       DEF UsesReaderStates, AllFunctions, ContextFunctions, HandleFunctions
  <2>3. pc'[t] = "states" => Head(call'[t].todo) # "ARRAY"
    <3>1. SUFFICES ASSUME UsesReaderStates(call[t].f) PROVE Head(k.todo) # "ARRAY"
      BY <1>3
    <3>2. RequestsOf(call[t].f) # <<>>
      <4>1. CASE call[t].f = "LIST_READERS"
        BY <4>1 DEF RequestsOf, GetReaderStates
      <4>2. CASE call[t].f = "STATUS"
        BY <4>2, AppendToPair DEF RequestsOf, GetReaderStates
      <4> QED BY <3>1, <4>1, <4>2 DEF UsesReaderStates
    <3> QED BY <1>4, <1>a, <3>2, FirstRequests
  <2>4. /\ call'[t].f \in HandleFunctions => call'[t].hCard \in myHandles'[t]
        /\ hContext'[call'[t].map] = myContext'[t] /\ myContext'[t] # NoContext
    BY <1>3, <1>4, <1>5, <1>a
  <2> QED
    BY <1>3, <2>1, <2>2, <2>3, <2>4
       DEF Working, Owns, Exchanges, Cleans, Establishes
<1>9. \A m \in Maps, h \in Handles : Removes(t, m, h) => Removes(t, m, h)'
  BY <1>5 DEF Removes
<1>10. k.todo # <<>> => Head(k.todo) # "ARRAY"
  BY <1>4, <1>a, FirstRequests
<1> QED
  BY <1>0, <1>1, <1>2, <1>5, <1>7, <1>8, <1>9, <1>10, QuietStep DEF Types

\* SCardStatus() and SCardListReaders() lock readerStates.
LEMMA LockReaderStatesStep ==
  ASSUME Inv, NEW t \in Threads, LockReaderStates(t)
  PROVE  Inv'
<1> USE ClientLibraryAssumption
<1> DEFINE step == "send"
           k == call[t]
<1>0. Types /\ Mutexes /\ Working(t) /\ Lists
  BY DEF Inv
<1>1. step \in Steps /\ k \in CallRecords
  BY <1>0 DEF Steps, Types
<1>2. Moves(t, step, k)
  BY <1>0 DEF LockReaderStates, Moves, Goto, SetCall, Types
<1>3. pc'[t] = step /\ call'[t] = k
  BY <1>0, <1>2, MovesFrame
<1>4. /\ call[t].f \in {"STATUS", "LIST_READERS"} /\ call[t].f # "ESTABLISH"
      /\ call[t].f \in HandleFunctions => call[t].hCard \in myHandles[t]
      /\ call[t].todo \in Todos(call[t].f) /\ Head(call[t].todo) # "ARRAY"
      /\ InList(call[t].map) /\ hContext[call[t].map] = myContext[t]
      /\ myContext[t] # NoContext /\ call[t].map \in Maps
  BY <1>0, FunctionsAtEach
     DEF LockReaderStates, Working, Owns, Exchanges, InList, Types
<1>5. /\ pc[t] = "states" /\ readerStatesMutex = NoThread
      /\ readerStatesMutex' = t
      /\ UNCHANGED <<clientMutex, listLock, mMutex, mapVars, clientVars,
                     wireVars, call, appVars, serverVars>>
  BY DEF LockReaderStates
<1>6. Mutexes'
  <2>1. /\ ~HoldsClient(t) /\ ~HoldsClient(t)'
        /\ ~Seeking(t) /\ ~Seeking(t)'
        /\ ~HoldsStates(t) /\ HoldsStates(t)'
        /\ Exchanges(t) /\ Exchanges(t)'
    BY <1>3, <1>4, <1>5
       DEF HoldsClient, Seeking, HoldsStates, Exchanges, UsesReaderStates
  <2> QED
    BY <1>0, <1>2, <1>4, <1>5, <2>1, MutexStep
       DEF TakesOrGives, TakesOrGivesContext
<1>7. Working(t)'
  <2>1. InList(call[t].map)'
    BY <1>3, <1>4, <1>5 DEF InList
  <2>2. call'[t].f \in FunctionsAt(step) /\ call'[t].f # "ESTABLISH"
    BY <1>3, <1>4, FunctionsAtEach
       DEF AllFunctions, ContextFunctions, HandleFunctions
  <2>3. /\ call'[t].f \in HandleFunctions => call'[t].hCard \in myHandles'[t]
        /\ hContext'[call'[t].map] = myContext'[t] /\ myContext'[t] # NoContext
        /\ call'[t].todo \in Todos(call'[t].f)
    BY <1>3, <1>4, <1>5
  <2> QED
    BY <1>3, <2>1, <2>2, <2>3
       DEF Working, Owns, Exchanges, Cleans, Establishes
<1>8. \A m \in Maps, h \in Handles : Removes(t, m, h) => Removes(t, m, h)'
  BY <1>3, <1>4, <1>5 DEF Removes
<1> QED
  BY <1>0, <1>1, <1>2, <1>4, <1>5, <1>6, <1>7, <1>8, QuietStep DEF Types

\* A call that is over still has its context, or its socket when there is no
\* context yet.
LEMMA FinishWorks ==
  ASSUME Inv, NEW t \in Threads,
         pc[t] \in {"send", "receive", "receiveData", "addHandle",
                    "removeSeek", "deleteHandle"},
         NEW step, step = IF call[t].f = "ESTABLISH" THEN "cleanup"
                                                      ELSE "unlock",
         Moves(t, step, call[t]),
         UNCHANGED <<contextMapList, hContext, allocated, session, myContext>>
  PROVE  Working(t)'
<1>1. pc'[t] = step /\ call'[t] = call[t]
  BY MovesFrame DEF Inv
<1>2. Working(t)
  BY DEF Inv
<1>3. InList(call[t].map)' <=> InList(call[t].map)
  BY <1>1 DEF InList
<1>4. CASE call[t].f = "ESTABLISH"
  <2>1. /\ call[t].map \in Maps \ allocated /\ myContext[t] = NoContext
        /\ session[call[t].map] # "closed"
    BY <1>2, <1>4 DEF Working, Establishes
  <2>2. pc'[t] = "cleanup" /\ call'[t].f \in FunctionsAt("cleanup")
    BY <1>1, <1>4, FunctionsAtEach
  <2>3. "ESTABLISH" \notin HandleFunctions
    BY DEF HandleFunctions
  <2> QED
    BY <1>1, <1>4, <2>1, <2>2, <2>3
       DEF Working, Owns, Exchanges, Cleans, Establishes
<1>5. CASE call[t].f # "ESTABLISH"
  <2>1. /\ InList(call[t].map) /\ hContext[call[t].map] = myContext[t]
        /\ myContext[t] # NoContext
    BY <1>2, <1>5 DEF Working, Owns, Exchanges
  <2>2. call[t].f \in FunctionsAt(pc[t])
    BY <1>2 DEF Working
  <2>3. /\ FunctionsAt("unlock") = ContextFunctions \cup HandleFunctions
        /\ FunctionsAt("send") = AllFunctions \ {"CANCEL", "IS_VALID"}
        /\ FunctionsAt("receive") = AllFunctions \ {"CANCEL", "IS_VALID"}
        /\ FunctionsAt("receiveData") = {"TRANSMIT", "CONTROL"}
        /\ FunctionsAt("addHandle") = {"CONNECT"}
        /\ FunctionsAt("removeSeek") = {"DISCONNECT"}
        /\ FunctionsAt("deleteHandle") = {"DISCONNECT"}
    BY FunctionsAtEach
  <2>4. call[t].f \in ContextFunctions \cup HandleFunctions
    BY <1>5, <2>2, <2>3 DEF AllFunctions, ContextFunctions, HandleFunctions
  <2>5. pc'[t] = "unlock" /\ call'[t].f \in FunctionsAt("unlock")
    BY <1>1, <1>5, <2>3, <2>4
  <2> QED
    BY <1>1, <1>3, <1>5, <2>1, <2>5
       DEF Working, Owns, Exchanges, Cleans, Establishes
<1> QED BY <1>4, <1>5

\* A request is not sent.
LEMMA SendNothingStep ==
  ASSUME Inv, NEW t \in Threads, SendNothing(t)
  PROVE  Inv'
<1> USE ClientLibraryAssumption
<1> DEFINE step == IF call[t].f = "ESTABLISH" THEN "cleanup" ELSE "unlock"
           k == call[t]
<1>0. Types /\ Mutexes /\ Working(t) /\ Lists
  BY DEF Inv
<1>1. step \in Steps /\ k \in CallRecords
  BY <1>0 DEF Steps, Types
<1>2. Moves(t, step, k)
  BY <1>0 DEF SendNothing, Moves, Goto, SetCall, Types, Finish
<1>3. pc'[t] = step /\ call'[t] = k
  BY <1>0, <1>2, MovesFrame
<1>4. /\ call[t].f # "ESTABLISH" => call[t].map \in Maps
      /\ UsesReaderStates(call[t].f) => call[t].f # "ESTABLISH"
  BY <1>0 DEF SendNothing, Working, Owns, Exchanges, InList, Types,
     UsesReaderStates
<1>5. /\ pc[t] = "send"
      /\ UNCHANGED <<locksVars, mapVars, clientVars, wireVars, call, appVars,
                     serverVars>>
  BY DEF SendNothing, Finish
<1>6. Mutexes'
  <2>1. /\ HoldsClient(t) <=> HoldsClient(t)'
        /\ ~Seeking(t) /\ ~Seeking(t)'
        /\ HoldsStates(t) <=> HoldsStates(t)'
        /\ Exchanges(t) <=> Exchanges(t)'
        /\ Exchanges(t) => call[t].f # "ESTABLISH"
    BY <1>3, <1>4, <1>5
       DEF HoldsClient, Seeking, HoldsStates, Exchanges
  <2> QED
    BY <1>0, <1>2, <1>4, <1>5, <2>1, MutexStep
       DEF TakesOrGives, TakesOrGivesContext
<1>7. Working(t)'
  BY <1>2, <1>5, FinishWorks
<1>8. \A m \in Maps, h \in Handles : Removes(t, m, h) => Removes(t, m, h)'
  BY <1>5 DEF Removes
<1> QED
  BY <1>0, <1>1, <1>2, <1>4, <1>5, <1>6, <1>7, <1>8, QuietStep DEF Types

\* The daemon has gone before it answered.
LEMMA ReceiveFailsStep ==
  ASSUME Inv, NEW t \in Threads, ReceiveFails(t)
  PROVE  Inv'
<1> USE ClientLibraryAssumption
<1> DEFINE step == IF call[t].f = "ESTABLISH" THEN "cleanup" ELSE "unlock"
           k == call[t]
<1>0. Types /\ Mutexes /\ Working(t) /\ Lists
  BY DEF Inv
<1>1. step \in Steps /\ k \in CallRecords
  BY <1>0 DEF Steps, Types
<1>2. Moves(t, step, k)
  BY <1>0 DEF ReceiveFails, Moves, Goto, SetCall, Types, Finish
<1>3. pc'[t] = step /\ call'[t] = k
  BY <1>0, <1>2, MovesFrame
<1>4. /\ call[t].f # "ESTABLISH" => call[t].map \in Maps
      /\ UsesReaderStates(call[t].f) => call[t].f # "ESTABLISH"
      /\ pc[t] = "receiveData" => /\ call[t].f # "ESTABLISH"
                                  /\ ~UsesReaderStates(call[t].f)
  BY <1>0, FunctionsAtEach
     DEF ReceiveFails, Working, Owns, Exchanges, InList, Types,
         UsesReaderStates
<1>5. /\ pc[t] \in {"receive", "receiveData"}
      /\ UNCHANGED <<locksVars, mapVars, clientVars, wireVars, call, appVars,
                     serverVars>>
      /\ requests[call[t].map] = <<>> /\ replies[call[t].map] = <<>>
  BY DEF ReceiveFails, Finish, PeerClosed, Inv, Wires, Awaits, AwaitsData
<1>6. Mutexes'
  <2>1. /\ HoldsClient(t) <=> HoldsClient(t)'
        /\ ~Seeking(t) /\ ~Seeking(t)'
        /\ HoldsStates(t) <=> HoldsStates(t)'
        /\ Exchanges(t) <=> Exchanges(t)'
        /\ Exchanges(t) => call[t].f # "ESTABLISH"
    BY <1>3, <1>4, <1>5
       DEF HoldsClient, Seeking, HoldsStates, Exchanges
  <2> QED
    BY <1>0, <1>2, <1>4, <1>5, <2>1, MutexStep
       DEF TakesOrGives, TakesOrGivesContext
<1>7. Working(t)'
  BY <1>2, <1>5, FinishWorks
<1>8. \A m \in Maps, h \in Handles : Removes(t, m, h) => Removes(t, m, h)'
  BY <1>5 DEF Removes
<1> QED
  BY <1>0, <1>1, <1>2, <1>4, <1>5, <1>6, <1>7, <1>8, QuietStep DEF Types

\* Another application holds the card: the thread starts again.
LEMMA RetryStep ==
  ASSUME Inv, NEW t \in Threads, Retry(t)
  PROVE  Inv'
<1> USE ClientLibraryAssumption
<1> DEFINE step == "enter"
           k == Call(call[t].f, NoContext, call[t].hCard)
<1>0. Types /\ Mutexes /\ Working(t) /\ Lists
  BY DEF Inv
<1>a. /\ call[t].f \in HandleFunctions /\ call[t].f \in AllFunctions \cup {"NONE"}
      /\ call[t].hCard \in myHandles[t] /\ call[t].hCard \in Handles \cup {NoHandle}
      /\ call[t].f \notin ContextFunctions /\ call[t].f # "ESTABLISH"
      /\ call[t].map \in Maps
  <2>1. call[t].f \in HandleFunctions
    BY <1>0, FunctionsAtEach DEF Retry, Working
  <2>2. call[t].hCard \in Handles \cup {NoHandle} /\ InList(call[t].map)
    BY <1>0 DEF Types, CallRecords, Retry, Working, Owns, Exchanges
  <2> QED
    BY <1>0, <2>1, <2>2
       DEF Retry, Working, HandleFunctions, ContextFunctions, AllFunctions,
           InList, Types
<1>1. step \in Steps /\ k \in CallRecords
  BY <1>a, NewCallType DEF Steps
<1>2. Moves(t, step, k)
  BY <1>0 DEF Retry, Moves, Goto, SetCall, Types
<1>3. pc'[t] = step /\ call'[t] = k
  BY <1>0, <1>2, MovesFrame
<1>4. k.f = call[t].f /\ k.hCard = call[t].hCard
  BY <1>a, NewCallType
<1> HIDE DEF k
<1>5. /\ pc[t] = "retry"
      /\ UNCHANGED <<clientMutex, listLock, mapVars, clientVars, wireVars,
                     appVars, serverVars>>
      /\ mMutex' = [mMutex EXCEPT ![call[t].map] = NoThread]
      /\ readerStatesMutex' = IF HoldsStates(t) THEN NoThread
                                                ELSE readerStatesMutex
  BY <1>0 DEF Retry, UnlockContext, Mutexes
<1>6. Mutexes'
  <2>1. /\ ~HoldsClient(t) /\ ~HoldsClient(t)'
        /\ ~Seeking(t) /\ ~Seeking(t)'
        /\ ~HoldsStates(t)'
        /\ Exchanges(t) /\ ~Exchanges(t)'
    BY <1>3, <1>5
       DEF HoldsClient, Seeking, HoldsStates, Exchanges
  <2> QED
    BY <1>0, <1>2, <1>a, <1>5, <2>1, MutexStep
       DEF TakesOrGives, TakesOrGivesContext
<1>7. Working(t)'
  <2>1. /\ call'[t].f \in FunctionsAt(step) /\ call'[t].f # "ESTABLISH"
        /\ call'[t].f \notin ContextFunctions
        /\ call'[t].hCard \in myHandles'[t]
    BY <1>3, <1>4, <1>5, <1>a, FunctionsAtEach
       DEF AllFunctions, ContextFunctions, HandleFunctions
  <2> QED
    BY <1>3, <2>1 DEF Working, Owns, Exchanges, Cleans, Establishes
<1>8. \A m \in Maps, h \in Handles : Removes(t, m, h) => Removes(t, m, h)'
  BY <1>5 DEF Removes
<1> QED
  BY <1>0, <1>1, <1>2, <1>4, <1>5, <1>6, <1>7, <1>8, QuietStep DEF Types

\* SCardRemoveContext() takes clientMutex again.
LEMMA SCardRemoveContextStep ==
  ASSUME Inv, NEW t \in Threads, SCardRemoveContext(t)
  PROVE  Inv'
<1> USE ClientLibraryAssumption
<1> DEFINE step == "cleanSession"
           k == call[t]
<1>0. Types /\ Mutexes /\ Working(t) /\ Lists
  BY DEF Inv
<1>1. step \in Steps /\ k \in CallRecords
  BY <1>0 DEF Steps, Types
<1>2. Moves(t, step, k)
  BY <1>0 DEF SCardRemoveContext, Moves, Goto, SetCall, Types
<1>3. pc'[t] = step /\ call'[t] = k
  BY <1>0, <1>2, MovesFrame
<1>4. /\ call[t].f = "RELEASE"
      /\ InList(call[t].map) /\ hContext[call[t].map] = myContext[t]
      /\ myContext[t] # NoContext
  BY <1>0, FunctionsAtEach DEF SCardRemoveContext, Working, Owns
<1>5. /\ pc[t] = "removeContext" /\ clientMutex = NoThread /\ clientMutex' = t
      /\ UNCHANGED <<listLock, readerStatesMutex, mMutex, mapVars, clientVars,
                     wireVars, call, appVars, serverVars>>
  BY DEF SCardRemoveContext, SCardLockThread
<1>6. Mutexes'
  <2>1. /\ ~HoldsClient(t) /\ HoldsClient(t)'
        /\ ~Seeking(t) /\ ~Seeking(t)'
        /\ ~HoldsStates(t) /\ ~HoldsStates(t)'
        /\ ~Exchanges(t) /\ ~Exchanges(t)'
    BY <1>3, <1>5
       DEF HoldsClient, Seeking, HoldsStates, Exchanges
  <2> QED
    BY <1>0, <1>2, <1>5, <2>1, MutexStep
       DEF TakesOrGives, TakesOrGivesContext
<1>7. Working(t)'
  <2>1. InList(call[t].map)'
    BY <1>4, <1>5 DEF InList
  <2>2. /\ call'[t].f \in FunctionsAt(step) /\ call'[t].f # "ESTABLISH"
        /\ call'[t].f \notin HandleFunctions
    BY <1>3, <1>4, FunctionsAtEach DEF HandleFunctions
  <2> QED
    BY <1>3, <1>4, <1>5, <2>1, <2>2
       DEF Working, Owns, Exchanges, Cleans, Establishes
<1>8. \A m \in Maps, h \in Handles : Removes(t, m, h) => Removes(t, m, h)'
  BY <1>5 DEF Removes
<1> QED
  BY <1>0, <1>1, <1>2, <1>4, <1>5, <1>6, <1>7, <1>8, QuietStep DEF Types

\* A call unlocks its context and returns; SCardReleaseContext() goes on.
LEMMA UnlockStep ==
  ASSUME Inv, NEW t \in Threads, Unlock(t)
  PROVE  Inv'
<1> USE ClientLibraryAssumption
<1> DEFINE step == IF call[t].f = "RELEASE" THEN "removeContext" ELSE "idle"
           k == IF call[t].f = "RELEASE" THEN call[t] ELSE NoCall
<1>0. Types /\ Mutexes /\ Working(t) /\ Lists
  BY DEF Inv
<1>a. /\ call[t].f # "ESTABLISH"
      /\ InList(call[t].map) /\ hContext[call[t].map] = myContext[t]
      /\ myContext[t] # NoContext /\ call[t].map \in Maps
  <2>1. pc[t] = "unlock" /\ Owns(t)
    BY DEF Unlock, Owns, Exchanges
  <2>2. call[t].f \in ContextFunctions \cup HandleFunctions
    BY <1>0, <2>1, FunctionsAtEach DEF Working
  <2>3. call[t].f # "ESTABLISH"
    BY <2>2 DEF ContextFunctions, HandleFunctions
  <2> QED BY <1>0, <2>1, <2>3 DEF Working, InList, Types
<1>1. step \in Steps /\ k \in CallRecords
  <2>1. NoCall \in CallRecords
    BY NewCallType DEF NoCall
  <2>2. call[t] \in CallRecords
    BY <1>0 DEF Types
  <2> QED BY <2>1, <2>2 DEF Steps
<1>2. Moves(t, step, k)
  BY <1>0 DEF Unlock, Moves, Goto, SetCall, Types, Return
<1>3. pc'[t] = step /\ call'[t] = k
  BY <1>0, <1>2, MovesFrame
<1>4. /\ call[t].f = "RELEASE" => k = call[t]
      /\ call[t].f # "RELEASE" => k.f = "NONE"
  BY <1>0 DEF NoCall, Call
<1> HIDE DEF k
<1>5. /\ pc[t] = "unlock"
      /\ UNCHANGED <<clientMutex, listLock, mapVars, clientVars, wireVars,
                     appVars, serverVars>>
      /\ mMutex' = [mMutex EXCEPT ![call[t].map] = NoThread]
      /\ readerStatesMutex' = IF HoldsStates(t) THEN NoThread
                                                ELSE readerStatesMutex
  BY <1>0 DEF Unlock, UnlockContext, Mutexes
<1>6. Mutexes'
  <2>1. /\ ~HoldsClient(t) /\ ~HoldsClient(t)'
        /\ ~Seeking(t) /\ ~Seeking(t)'
        /\ ~HoldsStates(t)'
        /\ Exchanges(t) /\ ~Exchanges(t)'
    BY <1>3, <1>5
       DEF HoldsClient, Seeking, HoldsStates, Exchanges
  <2> QED
    BY <1>0, <1>2, <1>a, <1>5, <2>1, MutexStep
       DEF TakesOrGives, TakesOrGivesContext
<1>7. Working(t)'
  <2>1. CASE call[t].f = "RELEASE"
    <3>1. InList(call[t].map)'
      BY <1>a, <1>3, <1>4, <1>5, <2>1 DEF InList
    <3>2. /\ call'[t].f \in FunctionsAt("removeContext") /\ call'[t].f # "ESTABLISH"
          /\ call'[t].f \notin HandleFunctions
      BY <1>3, <1>4, <2>1, FunctionsAtEach DEF HandleFunctions
    <3> QED
      BY <1>a, <1>3, <1>4, <1>5, <2>1, <3>1, <3>2
         DEF Working, Owns, Exchanges, Cleans, Establishes
  <2>2. CASE call[t].f # "RELEASE"
    <3>1. /\ call'[t].f \in FunctionsAt("idle") /\ call'[t].f # "ESTABLISH"
          /\ call'[t].f \notin HandleFunctions
      BY <1>3, <1>4, <2>2, FunctionsAtEach DEF HandleFunctions
    <3> QED
      BY <1>3, <2>2, <3>1
         DEF Working, Owns, Exchanges, Cleans, Establishes
  <2> QED BY <2>1, <2>2
<1>8. \A m \in Maps, h \in Handles : Removes(t, m, h) => Removes(t, m, h)'
  BY <1>5 DEF Removes
<1> QED
  BY <1>0, <1>1, <1>2, <1>4, <1>5, <1>6, <1>7, <1>8, QuietStep DEF Types

\* The context is not in the list.
LEMMA LookupFailsStep ==
  ASSUME Inv, NEW t \in Threads, Lookup(t), UNCHANGED mMutex,
         clientMutex' = NoThread, Return(t)
  PROVE  Inv'
<1> USE ClientLibraryAssumption
<1> DEFINE step == "idle"
           k == NoCall
<1>0. Types /\ Mutexes /\ Working(t) /\ Lists
  BY DEF Inv
<1>1. step \in Steps /\ k \in CallRecords
  BY NewCallType DEF Steps, NoCall
<1>2. Moves(t, step, k)
  BY DEF Return, Goto, SetCall, Moves
<1>3. pc'[t] = step /\ call'[t] = k
  BY <1>0, <1>2, MovesFrame
<1>4. k.f = "NONE"
  BY DEF NoCall, Call
<1> HIDE DEF k
<1>5. /\ pc[t] = "lookup"
      /\ UNCHANGED <<listLock, readerStatesMutex, mapVars, clientVars,
                     wireVars, appVars, serverVars>>
  BY DEF Lookup
<1>6. Mutexes'
  <2>1. /\ HoldsClient(t) /\ ~HoldsClient(t)'
        /\ ~Seeking(t) /\ ~Seeking(t)'
        /\ ~HoldsStates(t) /\ ~HoldsStates(t)'
        /\ ~Exchanges(t) /\ ~Exchanges(t)'
    BY <1>3, <1>5
       DEF HoldsClient, Seeking, HoldsStates, Exchanges
  <2> QED
    BY <1>0, <1>2, <1>5, <2>1, MutexStep
       DEF TakesOrGives, TakesOrGivesContext
<1>7. Working(t)'
  <2>1. /\ call'[t].f \in FunctionsAt("idle") /\ call'[t].f # "ESTABLISH"
        /\ call'[t].f \notin HandleFunctions
    BY <1>3, <1>4, FunctionsAtEach DEF HandleFunctions
  <2> QED
    BY <1>3, <2>1 DEF Working, Owns, Exchanges, Cleans, Establishes
<1>8. \A m \in Maps, h \in Handles : Removes(t, m, h) => Removes(t, m, h)'
  BY <1>5 DEF Removes
<1> QED
  BY <1>0, <1>1, <1>2, <1>4, <1>5, <1>6, <1>7, <1>8, QuietStep DEF Types

\* The context is in the list: it is the one of the thread, but for
\* SCardCancel() and SCardIsValidContext().
LEMMA LookupFoundStep ==
  ASSUME Inv, NEW t \in Threads, Lookup(t), UNCHANGED clientMutex,
         NEW n \in SCardGetContextTH(call[t].hContext),
         SetCall(t, [call[t] EXCEPT !.map = n]),
         Goto(t, IF call[t].f \in ContextFunctions THEN "lock" ELSE "peek")
  PROVE  Inv'
<1> USE ClientLibraryAssumption
<1> DEFINE step == IF call[t].f \in ContextFunctions THEN "lock" ELSE "peek"
           k == [call[t] EXCEPT !.map = n]
<1>0. Types /\ Mutexes /\ Working(t) /\ Lists
  BY DEF Inv
<1>a. n \in Maps /\ InList(n) /\ hContext[n] = call[t].hContext
  BY DEF SCardGetContextTH, InList
<1>1. step \in Steps /\ k \in CallRecords
  BY <1>0, <1>a, CallType DEF Types, Steps
<1>2. Moves(t, step, k)
  BY DEF Goto, SetCall, Moves
<1>3. pc'[t] = step /\ call'[t] = k
  BY <1>0, <1>2, MovesFrame
<1>4. k.f = call[t].f /\ k.map = n
  BY <1>0 DEF Types, CallRecords
<1> HIDE DEF k
<1>5. /\ pc[t] = "lookup"
      /\ UNCHANGED <<listLock, readerStatesMutex, mMutex, mapVars, clientVars,
                     wireVars, appVars, serverVars>>
  BY DEF Lookup
<1>6. Mutexes'
  <2>1. /\ HoldsClient(t) /\ HoldsClient(t)'
        /\ ~Seeking(t) /\ ~Seeking(t)'
        /\ ~HoldsStates(t) /\ ~HoldsStates(t)'
        /\ ~Exchanges(t) /\ ~Exchanges(t)'
    BY <1>3, <1>5
       DEF HoldsClient, Seeking, HoldsStates, Exchanges
  <2> QED
    BY <1>0, <1>2, <1>5, <2>1, MutexStep
       DEF TakesOrGives, TakesOrGivesContext
<1>7. Working(t)'
  <2>1. InList(call[t].map)'
    BY <1>3, <1>4, <1>5, <1>a DEF InList
  <2>2. call[t].f \in ContextFunctions \cup {"CANCEL", "IS_VALID"}
    BY <1>0, <1>5, FunctionsAtEach DEF Working
  <2>3. /\ call'[t].f # "ESTABLISH" /\ call'[t].f \notin HandleFunctions
        /\ call'[t].f \in FunctionsAt(step)
    BY <1>3, <1>4, <2>2, FunctionsAtEach
       DEF ContextFunctions, HandleFunctions
  <2>4. CASE call[t].f \in ContextFunctions
    <3>1. call[t].hContext = myContext[t] /\ myContext[t] # NoContext
      BY <1>0, <1>5, <2>4 DEF Working
    <3>2. /\ hContext'[call'[t].map] = myContext'[t] /\ myContext'[t] # NoContext
      BY <1>3, <1>4, <1>5, <1>a, <3>1
    <3> QED
      BY <1>3, <2>1, <2>3, <2>4, <3>2
         DEF Working, Owns, Exchanges, Cleans, Establishes
  <2>5. CASE call[t].f \notin ContextFunctions
    BY <1>3, <2>1, <2>3, <2>5
       DEF Working, Owns, Exchanges, Cleans, Establishes
  <2> QED BY <2>4, <2>5
<1>8. \A m \in Maps, h \in Handles : Removes(t, m, h) => Removes(t, m, h)'
  BY <1>5 DEF Removes
<1> QED
  BY <1>0, <1>1, <1>2, <1>4, <1>5, <1>6, <1>7, <1>8, QuietStep DEF Types

\* SCardGetContextTH() under clientMutex.
LEMMA LookupStep ==
  ASSUME Inv, NEW t \in Threads, Lookup(t)
  PROVE  Inv'
<1>1. CASE clientMutex' = NoThread /\ Return(t)
  BY <1>1, LookupFailsStep DEF Lookup
<1>2. CASE \E m \in SCardGetContextTH(call[t].hContext) :
             /\ SetCall(t, [call[t] EXCEPT !.map = m])
             /\ Goto(t, IF call[t].f \in ContextFunctions THEN "lock"
                                                          ELSE "peek")
             /\ UNCHANGED clientMutex
  BY <1>2, LookupFoundStep
<1> QED BY <1>1, <1>2 DEF Lookup, SCardUnlockThread

\* SCardGetContextAndChannelFromHandleTH() finds the context of the thread.
LEMMA SeekFoundStep ==
  ASSUME Inv, NEW t \in Threads, SeekFound(t)
  PROVE  Inv'
<1> USE ClientLibraryAssumption
<1> DEFINE n == SoughtMap(t)
           step == IF pc[t] = "seek" THEN "lock" ELSE "deleteHandle"
           k == [call[t] EXCEPT !.map = n]
<1>0. Types /\ Mutexes /\ Working(t) /\ Lists /\ HandlesOK
  BY DEF Inv
<1>5. /\ pc[t] \in {"seek", "removeSeek"} /\ listLock' = NoThread
      /\ UNCHANGED <<clientMutex, readerStatesMutex, mMutex, mapVars,
                     clientVars, wireVars, appVars, serverVars>>
  BY DEF SeekFound, Seeking
<1>a. n \in Maps /\ InList(n) /\ call[t].hCard \in channelMapList[n]
  <2>1. call[t].index \in DOMAIN contextMapList
    BY <1>0 DEF SeekFound, Types, CallRecords
  <2>2. contextMapList[call[t].index] \in Maps
    BY <1>0, <2>1 DEF Types
  <2> QED BY <2>1, <2>2 DEF SoughtMap, InList, SeekFound
<1>b. /\ call[t].f \in HandleFunctions
      /\ pc[t] = "removeSeek" => call[t].f = "DISCONNECT"
  BY <1>0, <1>5, FunctionsAtEach DEF Working, HandleFunctions
<1>c. call[t].hCard \in myHandles[t]
  BY <1>0, <1>5, <1>b DEF Working
<1>d. hContext[n] = myContext[t] /\ myContext[t] # NoContext
  BY <1>0, <1>5, <1>a, <1>c DEF HandlesOK, ListOf
<1>e. pc[t] = "removeSeek" => call[t].map = n
  <2>1. SUFFICES ASSUME pc[t] = "removeSeek" PROVE call[t].map = n
    OBVIOUS
  <2>2. /\ InList(call[t].map) /\ hContext[call[t].map] = myContext[t]
        /\ call[t].map \in Maps
    BY <1>0, <2>1 DEF Working, Owns, Exchanges, InList, Types
  <2> QED BY <1>0, <1>a, <1>d, <2>2 DEF Lists
<1>1. step \in Steps /\ k \in CallRecords
  BY <1>0, <1>a, CallType DEF Types, Steps
<1>2. Moves(t, step, k)
  BY DEF SeekFound, Goto, SetCall, Moves
<1> HIDE DEF n
<1>3. pc'[t] = step /\ call'[t] = k
  BY <1>0, <1>2, MovesFrame
<1>4. k.f = call[t].f /\ k.map = n /\ k.hCard = call[t].hCard
  BY <1>0 DEF Types, CallRecords
<1> HIDE DEF k
<1>f. call[t].f # "ESTABLISH"
  BY <1>b DEF HandleFunctions
<1>6. Mutexes'
  <2>1. /\ HoldsClient(t) <=> HoldsClient(t)'
        /\ Seeking(t) /\ ~Seeking(t)'
        /\ ~HoldsStates(t) /\ ~HoldsStates(t)'
        /\ Exchanges(t) <=> Exchanges(t)'
        /\ Exchanges(t) => pc[t] = "removeSeek"
    BY <1>3, <1>5
       DEF HoldsClient, Seeking, HoldsStates, Exchanges
  <2> QED
    BY <1>0, <1>2, <1>4, <1>5, <1>a, <1>e, <2>1, MutexStep
       DEF TakesOrGives, TakesOrGivesContext
<1>7. Working(t)'
  <2>1. InList(call[t].map)'
    BY <1>3, <1>4, <1>5, <1>a DEF InList
  <2>2. call'[t].f \in FunctionsAt(step) /\ call'[t].f # "ESTABLISH"
    BY <1>3, <1>4, <1>5, <1>b, <1>f, FunctionsAtEach
  <2>3. /\ call'[t].hCard \in myHandles'[t]
        /\ hContext'[call'[t].map] = myContext'[t] /\ myContext'[t] # NoContext
    BY <1>3, <1>4, <1>5, <1>c, <1>d
  <2> QED
    BY <1>3, <2>1, <2>2, <2>3
       DEF Working, Owns, Exchanges, Cleans, Establishes
<1>8. \A m \in Maps, h \in Handles : Removes(t, m, h) => Removes(t, m, h)'
  BY <1>3, <1>4, <1>5, <1>e DEF Removes
<1> QED
  BY <1>0, <1>1, <1>2, <1>5, <1>6, <1>7, <1>8, QuietStep DEF Types

\* The handle is not found: the call fails, or there is nothing to remove.
LEMMA SeekNotFoundStep ==
  ASSUME Inv, Searched, NEW t \in Threads, SeekNotFound(t)
  PROVE  Inv'
<1> USE ClientLibraryAssumption
<1>0. Types /\ Mutexes /\ Working(t) /\ Lists /\ HandlesOK
  BY DEF Inv
<1>1. /\ pc[t] \in {"seek", "removeSeek"} /\ listLock' = NoThread
      /\ call[t].index > Len(contextMapList)
      /\ UNCHANGED <<readerStatesMutex, mMutex, mapVars, clientVars, wireVars,
                     appVars, serverVars>>
  BY DEF SeekNotFound, Seeking
<1>2. /\ call[t].f \in HandleFunctions
      /\ pc[t] = "removeSeek" => call[t].f = "DISCONNECT"
  BY <1>0, <1>1, FunctionsAtEach DEF Working, HandleFunctions
<1>3. CASE pc[t] = "seek"
  <2>1. clientMutex' = NoThread /\ Moves(t, "idle", NoCall)
    BY <1>0, <1>3 DEF SeekNotFound, SCardUnlockThread, Return, Goto, SetCall,
                      Moves
  <2>2. pc'[t] = "idle" /\ call'[t] = NoCall
    BY <1>0, <2>1, MovesFrame
  <2>3. NoCall.f = "NONE" /\ NoCall \in CallRecords /\ "idle" \in Steps
    BY NewCallType DEF NoCall, Steps
  <2>4. Mutexes'
    <3>1. /\ HoldsClient(t) /\ ~HoldsClient(t)'
          /\ Seeking(t) /\ ~Seeking(t)'
          /\ ~HoldsStates(t) /\ ~HoldsStates(t)'
          /\ ~Exchanges(t) /\ ~Exchanges(t)'
      BY <1>3, <2>2 DEF HoldsClient, Seeking, HoldsStates, Exchanges
    <3> QED
      BY <1>0, <1>1, <2>1, <3>1, MutexStep
         DEF TakesOrGives, TakesOrGivesContext
  <2>5. Working(t)'
    <3>1. /\ call'[t].f \in FunctionsAt("idle") /\ call'[t].f # "ESTABLISH"
          /\ call'[t].f \notin HandleFunctions
      BY <2>2, <2>3, FunctionsAtEach DEF HandleFunctions
    <3> QED
      BY <2>2, <3>1 DEF Working, Owns, Exchanges, Cleans, Establishes
  <2>6. \A m \in Maps, h \in Handles : Removes(t, m, h) => Removes(t, m, h)'
    BY <1>3 DEF Removes
  <2> QED
    BY <1>0, <1>1, <1>3, <2>1, <2>3, <2>4, <2>5, <2>6, QuietStep DEF Types
<1>4. CASE pc[t] = "removeSeek"
  <2>1. /\ clientMutex' = clientMutex /\ Moves(t, "unlock", call[t])
    BY <1>0, <1>2, <1>4 DEF SeekNotFound, Finish, Goto, Moves, Types
  <2>2. pc'[t] = "unlock" /\ call'[t] = call[t] /\ "unlock" \in Steps
    BY <1>0, <2>1, MovesFrame DEF Steps
  <2>3. /\ InList(call[t].map) /\ call[t].map \in Maps
    BY <1>0, <1>4 DEF Working, Owns, Exchanges, InList, Types
  <2>4. Mutexes'
    <3>1. /\ ~HoldsClient(t) /\ ~HoldsClient(t)'
          /\ Seeking(t) /\ ~Seeking(t)'
          /\ ~HoldsStates(t) /\ ~HoldsStates(t)'
          /\ Exchanges(t) /\ Exchanges(t)'
      BY <1>2, <1>4, <2>2
         DEF HoldsClient, Seeking, HoldsStates, Exchanges, UsesReaderStates
    <3> QED
      BY <1>0, <1>1, <2>1, <2>3, <3>1, MutexStep
         DEF TakesOrGives, TakesOrGivesContext
  <2>5. Working(t)'
    BY <1>1, <1>2, <1>4, <2>1, FinishWorks
  <2>6. call[t].hCard \notin channelMapList[call[t].map]
    <3>1. PICK i \in DOMAIN contextMapList : contextMapList[i] = call[t].map
      BY <2>3 DEF InList
    <3>2. i < call[t].index
      BY <1>0, <1>1, <3>1 DEF Types, CallRecords
    <3> QED BY <1>4, <3>1, <3>2 DEF Searched, Seeking
  <2>7. \A m \in Maps, h \in Handles :
          ~(h \in channelMapList[m] /\ Removes(t, m, h))
    BY <2>6 DEF Removes
  <2> QED
    BY <1>0, <1>1, <1>4, <2>1, <2>2, <2>4, <2>5, <2>7, QuietStep DEF Types
<1> QED BY <1>1, <1>3, <1>4

-----------------------------------------------------------------------------
\* Who uses a socket

\* A thread that exchanges messages has a socket.
LEMMA TalkerMap ==
  ASSUME Inv, NEW t \in Threads,
         pc[t] \in {"send", "receive", "receiveData", "addContext", "cleanup"}
           \/ Owns(t)
  PROVE  call[t].map \in Maps /\ session[call[t].map] # "closed"
<1>1. Working(t) /\ Types /\ Lists
  BY DEF Inv
<1>2. CASE Owns(t)
  BY <1>1, <1>2 DEF Working, InList, Types, Lists
<1>3. CASE ~Owns(t)
  <2>1. call[t].f = "ESTABLISH"
    BY <1>1, <1>3, FunctionsAtEach DEF Owns, Exchanges, Working
  <2> QED BY <1>1, <2>1 DEF Working, Establishes
<1> QED BY <1>2, <1>3

\* No two threads use the same socket: mMutex, or clientMutex when there is no
\* context yet, keeps them apart.
LEMMA OneTalker ==
  ASSUME Inv, NEW t \in Threads, NEW u \in Threads,
         Exchanges(t) \/ Establishes(t), Exchanges(u) \/ Establishes(u),
         call[t].map = call[u].map
  PROVE  t = u
<1>1. Types /\ Mutexes /\ Lists /\ Working(t) /\ Working(u)
  BY DEF Inv
<1>2. ASSUME NEW v \in Threads, Exchanges(v)
      PROVE  call[v].map \in Maps /\ call[v].map \in allocated
  <2>1. Working(v) /\ Owns(v)
    BY <1>2 DEF Inv, Owns
  <2> QED BY <1>1, <2>1 DEF Working, InList, Types, Lists
<1>3. ASSUME NEW v \in Threads, Establishes(v)
      PROVE  clientMutex = v /\ call[v].map \notin allocated
  <2>1. Working(v)
    BY DEF Inv
  <2>2. call[v].map \notin allocated /\ "ESTABLISH" \in FunctionsAt(pc[v])
    BY <1>3, <2>1 DEF Working, Establishes
  <2>3. pc[v] \in {"send", "receive", "cleanup", "addContext"}
    BY <1>1, <2>2
       DEF FunctionsAt, AllFunctions, ContextFunctions, HandleFunctions, Types,
           Steps
  <2>4. HoldsClient(v)
    BY <1>3, <2>3 DEF HoldsClient, Establishes
  <2> QED BY <1>1, <2>2, <2>4 DEF Mutexes
<1>4. CASE Exchanges(t) /\ Exchanges(u)
  BY <1>1, <1>2, <1>4 DEF Mutexes
<1>5. CASE Establishes(t) /\ Establishes(u)
  BY <1>3, <1>5
<1> QED BY <1>2, <1>3, <1>4, <1>5

\* A thread that talks to the daemon is alone to.
LEMMA TalksAlone ==
  ASSUME Inv, NEW t \in Threads, NEW u \in Threads, NEW m,
         Talks(t, m), Talks(u, m)
  PROVE  t = u
<1>1. \A v \in Threads : Talks(v, m) => Exchanges(v) \/ Establishes(v)
  BY DEF Talks, Exchanges, Establishes
<1> QED BY <1>1, OneTalker DEF Talks

\* A thread that is about to read the table holds readerStatesMutex.
LEMMA TableReader ==
  ASSUME Inv, NEW t \in Threads, pc[t] \in {"send", "receive"},
         call[t].todo # <<>>, Head(call[t].todo) \in {"SIZE", "ARRAY", "STATE"}
  PROVE  readerStatesMutex = t /\ UsesReaderStates(call[t].f)
<1>1. Working(t) /\ Mutexes
  BY DEF Inv
<1>2. call[t].f \in AllFunctions /\ call[t].todo \in Todos(call[t].f)
  BY <1>1, FunctionsAtEach DEF Working
<1>3. UsesReaderStates(call[t].f)
  BY <1>2, NextRequests
<1> QED BY <1>1, <1>3 DEF Mutexes, HoldsStates

\* A thread reads what is on its socket and goes on.
LEMMA ReceiveStep ==
  ASSUME Inv, NEW t \in Threads, NEW step \in Steps, NEW k \in CallRecords,
         NEW r, Moves(t, step, k), k.map = call[t].map,
         pc[t] \in {"receive", "receiveData"},
         step \in {"send", "receiveData", "retry", "unlock", "cleanup",
                   "addContext", "addHandle", "removeHandle"},
         requests[call[t].map] = <<>>,
         replies' = [replies EXCEPT ![call[t].map] = r],
         UNCHANGED <<locksVars, mapVars, session, requests, appVars,
                     serverVars>>,
         maxReaderContext' \in Nat,
         maxReaderContext' # maxReaderContext => readerStatesMutex = t,
         IF step = "receiveData" THEN r = <<Answer("DATA", "SUCCESS", 0, 1)>>
                                 ELSE r = <<>>,
         \A h \in Handles : Adds(t, h)' => Adds(t, h),
         \A m \in Maps, h \in Handles :
           Removes(t, m, h) => Removes(t, m, h)',
         step = "send" /\ k.todo # <<>> /\ Head(k.todo) = "ARRAY"
           /\ session[call[t].map] = "open" =>
             daemon.table = maxReaderContext',
         Mutexes', Working(t)'
  PROVE  Inv'
<1> DEFINE n == call[t].map
<1>0. n \in Maps /\ Talks(t, n)
  BY TalkerMap DEF Talks
<1>1. /\ pc'[t] = step /\ call'[t] = k
      /\ \A u \in Threads : u # t => pc'[u] = pc[u] /\ call'[u] = call[u]
  BY MovesFrame DEF Inv
<1>2. Types'
  BY DEF Inv, Types, Moves
<1>3. \A u \in Threads : Working(u)'
  BY OthersWork
<1>4. Lists'
  <2>1. \A u \in Threads : Cleans(u)' <=> Cleans(u)
    BY <1>1 DEF Cleans
  <2>2. \A m \in Maps : InList(m)' <=> InList(m)
    BY DEF InList
  <2> QED BY <2>1, <2>2 DEF Inv, Lists
<1>5. HandlesOK'
  BY <1>1, KeepsLists DEF Inv, Cleans
<1>6. \A u \in Threads : u # t /\ pc[u] \in {"receive", "receiveData"} =>
        call[u].map # n /\ replies'[call[u].map] = replies[call[u].map]
  <2>1. SUFFICES ASSUME NEW u \in Threads, u # t,
                        pc[u] \in {"receive", "receiveData"}
                 PROVE  call[u].map # n
    BY <2>1, TalkerMap DEF Inv, Types
  <2> QED BY <1>0, <2>1, TalksAlone DEF Talks
<1>7. Fresh'
  <2>1. \A u \in Threads, h \in Handles : Adds(u, h)' => Adds(u, h)
    BY <1>1, <1>6 DEF Adds, FirstAnswer
  <2>2. \A u \in Threads : call'[u].map = call[u].map
    BY <1>1
  <2> QED BY <1>1, <2>1, <2>2 DEF Inv, Fresh
<1>8. Agreement'
  <2>1. ASSUME NEW u \in Threads, NEW m \in Maps, NEW h \in Handles,
               Removes(u, m, h)
        PROVE  Removes(u, m, h)'
    BY <1>1, <1>6, <2>1 DEF Removes, FirstAnswer
  <2> QED BY <2>1 DEF Inv, Agreement, Types
<1>9. ASSUME NEW u \in Threads, u # t, pc[u] \in {"send", "receive"},
             call[u].todo # <<>>, Head(call[u].todo) \in {"ARRAY", "STATE"}
      PROVE  maxReaderContext' = maxReaderContext
  BY <1>9, TableReader
<1>10. Wires'
  <2>1. ASSUME NEW u \in Threads, pc'[u] = "receive" PROVE Awaits(u)'
    <3>1. u # t /\ Awaits(u) /\ call[u].todo # <<>>
      BY <1>1, <2>1 DEF Inv, Wires, Working
    <3>2. Head(call[u].todo) \in {"ARRAY", "STATE"} =>
            maxReaderContext' = maxReaderContext
      BY <1>1, <1>9, <2>1, <3>1
    <3>3. /\ replies'[call[u].map] = replies[call[u].map]
          /\ call'[u] = call[u] /\ UNCHANGED <<session, requests, daemon>>
      BY <1>1, <1>6, <2>1, <3>1
    <3>4. \A cmd, a : AnswerOK(u, cmd, a) /\
            (cmd \in {"ARRAY", "STATE"} => maxReaderContext' = maxReaderContext)
            => AnswerOK(u, cmd, a)'
      BY <3>3 DEF AnswerOK
    <3> QED
      BY <3>1, <3>2, <3>3, <3>4 DEF Awaits, FirstAnswer, Request, Argument
  <2>2. ASSUME NEW u \in Threads, pc'[u] = "receiveData" PROVE AwaitsData(u)'
    <3>1. CASE u = t
      BY <1>0, <1>1, <2>2, <3>1 DEF AwaitsData, Inv, Types
    <3>2. CASE u # t
      <4>1. AwaitsData(u)
        BY <1>1, <2>2, <3>2 DEF Inv, Wires
      <4> QED BY <1>1, <1>6, <2>2, <3>2, <4>1 DEF AwaitsData
    <3> QED BY <3>1, <3>2
  <2>3. ASSUME NEW m \in Maps, \A u \in Threads : ~Talks(u, m)'
        PROVE  requests[m] = <<>> /\ replies'[m] = <<>>
    <3>1. CASE m = n
      <4>1. ~Talks(t, m)'
        BY <2>3
      <4>2. step # "receiveData"
        BY <1>1, <3>1, <4>1 DEF Talks
      <4> QED BY <1>0, <3>1, <4>2 DEF Inv, Types
    <3>2. CASE m # n
      <4>1. \A u \in Threads : ~Talks(u, m)
        BY <1>1, <2>3, <3>2 DEF Talks
      <4>2. requests[m] = <<>> /\ replies[m] = <<>>
        BY <4>1 DEF Inv, Wires
      <4> QED BY <3>2, <4>2 DEF Inv, Types
    <3> QED BY <3>1, <3>2
  <2>4. \A m \in Maps : session[m] = "open" => daemon.running
    BY DEF Inv, Wires
  <2> QED BY <2>1, <2>2, <2>3, <2>4 DEF Wires
<1>11. Tables'
  <2> SUFFICES ASSUME NEW u \in Threads
               PROVE  /\ pc'[u] \in {"send", "receive"} /\ call'[u].todo # <<>>
                           /\ Head(call'[u].todo) = "ARRAY"
                           /\ session[call'[u].map] = "open" =>
                           daemon.table = maxReaderContext'
                      /\ pc'[u] = "receive" /\ Head(call'[u].todo) = "STATE" =>
                           maxReaderContext' = FixedTable
    BY DEF Tables
  <2>1. CASE u = t
    BY <1>1, <2>1
  <2>2. CASE u # t
    <3>1. pc[u] = "receive" => call[u].todo # <<>>
      BY DEF Inv, Working
    <3> QED BY <1>1, <1>9, <2>2, <3>1 DEF Inv, Tables
  <2> QED BY <2>1, <2>2
<1> QED BY <1>2, <1>3, <1>4, <1>5, <1>7, <1>8, <1>10, <1>11 DEF Inv

\* What a thread reads is the answer to the request it has sent, and nothing
\* is left on the socket but the data that follow the answer.
LEMMA ReadsAnswer ==
  ASSUME Inv, NEW t \in Threads, NEW cmd, Receives(t, cmd)
  PROVE  /\ pc[t] = "receive" /\ call[t].todo # <<>> /\ Head(call[t].todo) = cmd
         /\ call[t].f \in AllFunctions \ {"CANCEL", "IS_VALID"}
         /\ call[t].todo \in Todos(call[t].f)
         /\ call[t].map \in Maps /\ session[call[t].map] # "closed"
         /\ requests[call[t].map] = <<>> /\ replies[call[t].map] # <<>>
         /\ AnswerOK(t, cmd, FirstAnswer(t))
         /\ replies' = [replies EXCEPT ![call[t].map] =
                          DataOf(cmd, FirstAnswer(t).rv)]
         /\ UNCHANGED <<session, requests>>
<1> DEFINE m == call[t].map
<1>1. /\ pc[t] = "receive" /\ Head(call[t].todo) = cmd /\ replies[m] # <<>>
      /\ UNCHANGED <<session, requests>>
  BY DEF Receives, Answered
<1>2. Working(t) /\ Types /\ Awaits(t)
  BY <1>1 DEF Inv, Wires
<1>3. /\ call[t].todo # <<>> /\ call[t].todo \in Todos(call[t].f)
      /\ call[t].f \in AllFunctions \ {"CANCEL", "IS_VALID"}
  BY <1>1, <1>2, FunctionsAtEach DEF Working
<1>4. m \in Maps /\ session[m] # "closed"
  BY <1>1, TalkerMap
<1>5. /\ requests[m] = <<>>
      /\ AnswerOK(t, cmd, FirstAnswer(t))
      /\ Tail(replies[m]) = DataOf(cmd, FirstAnswer(t).rv)
  BY <1>1, <1>2 DEF Awaits
<1>6. ~(Head(replies[m]).n > IF cmd \in {"ARRAY", "STATE"}
                             THEN maxReaderContext ELSE 1)
  BY <1>2, <1>5 DEF AnswerOK, FirstAnswer, Types
<1>7. replies' = [replies EXCEPT ![m] = Tail(@)]
  BY <1>6 DEF Receives, MessageReceive
<1> QED BY <1>1, <1>3, <1>4, <1>5, <1>7

\* The mutexes a call holds, as it goes on from its answer.
LEMMA ReceiveMutexes ==
  ASSUME Inv, NEW t \in Threads, NEW step, NEW k, Moves(t, step, k),
         pc[t] = "receive", k.f = call[t].f, k.map = call[t].map,
         UNCHANGED locksVars,
         \/ step = "send"
         \/ step \in {"cleanup", "addContext"} /\ call[t].f = "ESTABLISH"
         \/ step \in {"unlock", "retry"} /\ call[t].f # "ESTABLISH"
         \/ /\ step \in {"receiveData", "addHandle", "removeHandle"}
            /\ call[t].f # "ESTABLISH" /\ ~UsesReaderStates(call[t].f)
  PROVE  Mutexes'
<1>1. Types /\ Mutexes
  BY DEF Inv
<1>2. pc'[t] = step /\ call'[t] = k
  BY <1>1, MovesFrame
<1>3. call[t].map \in Maps
  BY TalkerMap
<1>4. call[t].f = "ESTABLISH" => ~UsesReaderStates(call[t].f)
  BY DEF UsesReaderStates
<1>5. /\ HoldsClient(t) <=> HoldsClient(t)'
      /\ ~Seeking(t) /\ ~Seeking(t)'
      /\ HoldsStates(t) <=> HoldsStates(t)'
      /\ Exchanges(t) <=> Exchanges(t)'
  BY <1>2, <1>4 DEF HoldsClient, Seeking, HoldsStates, Exchanges
<1> QED BY <1>1, <1>3, <1>5, MutexStep DEF TakesOrGives, TakesOrGivesContext

\* What a call has in hand, as it goes on from its answer.
LEMMA ReceiveWorks ==
  ASSUME Inv, NEW t \in Threads, NEW step, NEW k, Moves(t, step, k),
         pc[t] = "receive", k.f = call[t].f, k.map = call[t].map,
         UNCHANGED <<mapVars, session, appVars>>,
         step \in {"send", "receiveData", "retry", "addHandle",
                   "removeHandle"},
         call[t].f \in FunctionsAt(step),
         step = "send" => k.todo \in Todos(call[t].f),
         step = "addHandle" => k.hCard \in Handles,
         call[t].f \in HandleFunctions => k.hCard = call[t].hCard
  PROVE  Working(t)'
<1>1. Types /\ Working(t)
  BY DEF Inv
<1>2. pc'[t] = step /\ call'[t] = k
  BY <1>1, MovesFrame
<1>3. InList(call[t].map)' <=> InList(call[t].map)
  BY <1>2 DEF InList
<1>4. call[t].f \in HandleFunctions => call[t].hCard \in myHandles[t]
  BY <1>1 DEF Working
<1>5. CASE call[t].f = "ESTABLISH"
  <2>1. step = "send"
    BY <1>5, FunctionsAtEach DEF HandleFunctions
  <2>2. /\ call[t].map \in Maps \ allocated /\ myContext[t] = NoContext
        /\ session[call[t].map] # "closed"
    BY <1>1, <1>5 DEF Working, Establishes
  <2> QED
    BY <1>2, <1>4, <1>5, <2>1, <2>2
       DEF Working, Owns, Exchanges, Cleans, Establishes
<1>6. CASE call[t].f # "ESTABLISH"
  <2>1. /\ InList(call[t].map) /\ hContext[call[t].map] = myContext[t]
        /\ myContext[t] # NoContext
    BY <1>1, <1>6 DEF Working, Owns, Exchanges
  <2> QED
    BY <1>2, <1>3, <1>4, <1>6, <2>1
       DEF Working, Owns, Exchanges, Cleans, Establishes
<1> QED BY <1>5, <1>6

\* The thread reads an answer that ends its call.
LEMMA ReceiveFinishes ==
  ASSUME Inv, NEW t \in Threads, NEW cmd, Receives(t, cmd), Finish(t),
         UNCHANGED <<locksVars, mapVars, appVars, serverVars>>,
         maxReaderContext' = maxReaderContext,
         ~HasData(cmd, FirstAnswer(t).rv),
         cmd = "DISCONNECT" => FirstAnswer(t).rv # "SUCCESS"
  PROVE  Inv'
<1> DEFINE step == IF call[t].f = "ESTABLISH" THEN "cleanup" ELSE "unlock"
<1>0. Types
  BY DEF Inv
<1>1. Moves(t, step, call[t])
  BY <1>0 DEF Finish, Goto, Moves, Types
<1>2. step \in Steps /\ call[t] \in CallRecords /\ maxReaderContext' \in Nat
  BY <1>0 DEF Types, Steps
<1>3. /\ pc[t] = "receive" /\ call[t].todo # <<>> /\ Head(call[t].todo) = cmd
      /\ call[t].f \in AllFunctions /\ call[t].todo \in Todos(call[t].f)
      /\ requests[call[t].map] = <<>>
      /\ replies' = [replies EXCEPT ![call[t].map] =
                       DataOf(cmd, FirstAnswer(t).rv)]
      /\ UNCHANGED <<session, requests>>
  BY ReadsAnswer
<1>4. DataOf(cmd, FirstAnswer(t).rv) = <<>>
  BY DEF DataOf
<1>5. pc'[t] = step /\ call'[t] = call[t]
  BY <1>0, <1>1, MovesFrame
<1>6. \A h \in Handles : Adds(t, h)' => Adds(t, h)
  BY <1>5 DEF Adds
<1>7. \A m \in Maps, h \in Handles : Removes(t, m, h) => Removes(t, m, h)'
  <2>1. call[t].f = "DISCONNECT" => cmd = "DISCONNECT"
    <3>1. call[t].f = "DISCONNECT" => Todos(call[t].f) = {<<"DISCONNECT">>}
      BY DEF Todos
    <3> QED BY <1>3, <3>1
  <2> QED BY <1>3, <2>1 DEF Removes
<1>8. Working(t)'
  BY <1>1, <1>3, FinishWorks
<1>9. Mutexes'
  BY <1>1, <1>3, ReceiveMutexes
<1> QED
  BY <1>1, <1>2, <1>3, <1>4, <1>6, <1>7, <1>8, <1>9, ReceiveStep

\* The thread reads an answer and its call goes on.
LEMMA ReceiveGoesOn ==
  ASSUME Inv, NEW t \in Threads, NEW cmd, Receives(t, cmd),
         NEW step \in Steps, NEW k \in CallRecords, Moves(t, step, k),
         k.f = call[t].f, k.map = call[t].map,
         UNCHANGED <<locksVars, mapVars, appVars, serverVars>>,
         maxReaderContext' \in Nat,
         maxReaderContext' # maxReaderContext => readerStatesMutex = t,
         step \in {"send", "receiveData", "retry", "addHandle",
                   "removeHandle"},
         call[t].f \in FunctionsAt(step),
         step = "send" => k.todo \in Todos(call[t].f),
         step = "addHandle" => /\ k.hCard \in Handles
                               /\ FirstAnswer(t).rv = "SUCCESS"
                               /\ FirstAnswer(t).value = k.hCard,
         call[t].f \in HandleFunctions => k.hCard = call[t].hCard,
         step = "receiveData" <=> HasData(cmd, FirstAnswer(t).rv),
         cmd = "DISCONNECT" /\ FirstAnswer(t).rv = "SUCCESS" =>
           step = "removeHandle",
         step = "send" /\ k.todo # <<>> /\ Head(k.todo) = "ARRAY"
           /\ session[call[t].map] = "open" =>
             daemon.table = maxReaderContext'
  PROVE  Inv'
<1> DEFINE r == DataOf(cmd, FirstAnswer(t).rv)
<1>0. Types
  BY DEF Inv
<1>1. /\ pc[t] = "receive" /\ call[t].todo # <<>> /\ Head(call[t].todo) = cmd
      /\ call[t].f \in AllFunctions /\ call[t].todo \in Todos(call[t].f)
      /\ requests[call[t].map] = <<>> /\ replies[call[t].map] # <<>>
      /\ replies' = [replies EXCEPT ![call[t].map] = r]
      /\ UNCHANGED <<session, requests>>
  BY ReadsAnswer
<1>2. IF step = "receiveData" THEN r = <<Answer("DATA", "SUCCESS", 0, 1)>>
                              ELSE r = <<>>
  BY DEF DataOf, HasData
<1>3. pc'[t] = step /\ call'[t] = k
  BY <1>0, MovesFrame
<1>4. \A h \in Handles : Adds(t, h)' => Adds(t, h)
  BY <1>1, <1>3 DEF Adds
<1>5. \A m \in Maps, h \in Handles : Removes(t, m, h) => Removes(t, m, h)'
  <2>1. call[t].f = "DISCONNECT" => cmd = "DISCONNECT"
    <3>1. call[t].f = "DISCONNECT" => Todos(call[t].f) = {<<"DISCONNECT">>}
      BY DEF Todos
    <3> QED BY <1>1, <3>1
  <2>2. "DISCONNECT" \in HandleFunctions
    BY DEF HandleFunctions
  <2> QED BY <1>1, <1>3, <2>1, <2>2 DEF Removes
<1>6. Working(t)'
  BY <1>1, ReceiveWorks
<1>7. Mutexes'
  <2>1. step # "send" => call[t].f # "ESTABLISH"
    BY FunctionsAtEach DEF HandleFunctions
  <2>2. step \in {"receiveData", "addHandle", "removeHandle"} =>
          ~UsesReaderStates(call[t].f)
    BY FunctionsAtEach DEF UsesReaderStates
  <2> QED BY <1>1, <2>1, <2>2, ReceiveMutexes
<1> HIDE DEF r
<1> QED
  BY <1>0, <1>1, <1>2, <1>4, <1>5, <1>6, <1>7, ReceiveStep

\* The answer to CMD_VERSION.
LEMMA ReceiveVersionStep ==
  ASSUME Inv, NEW t \in Threads, ReceiveVersion(t)
  PROVE  Inv'
<1> DEFINE a == FirstAnswer(t)
<1>0. Types
  BY DEF Inv
<1>1. /\ Receives(t, "VERSION")
      /\ UNCHANGED <<locksVars, mapVars, maxReaderContext, appVars, serverVars>>
  BY DEF ReceiveVersion
<1>2. /\ pc[t] = "receive" /\ call[t].todo # <<>>
      /\ Head(call[t].todo) = "VERSION"
      /\ call[t].f \in AllFunctions \ {"CANCEL", "IS_VALID"}
      /\ call[t].todo \in Todos(call[t].f)
  BY <1>1, ReadsAnswer
<1>3. call[t].f = "ESTABLISH" /\ Tail(call[t].todo) = <<"ESTABLISH">>
  BY <1>2, NextRequests
<1>4. /\ call[t] \in CallRecords /\ maxReaderContext' \in Nat
      /\ "send" \in Steps /\ call[t].f \in FunctionsAt("send")
      /\ "ESTABLISH" \notin HandleFunctions /\ ~HasData("VERSION", a.rv)
  BY <1>0, <1>1, <1>2, FunctionsAtEach
     DEF Types, Steps, HasData, HandleFunctions
<1>5. CASE SendNext(t)
  <2> DEFINE k == [call[t] EXCEPT !.todo = Tail(@)]
  <2>1. Moves(t, "send", k)
    BY <1>5 DEF SendNext, Moves, Goto, SetCall
  <2>2. k.f = call[t].f /\ k.map = call[t].map /\ k.todo = <<"ESTABLISH">>
    BY <1>3, <1>4 DEF CallRecords
  <2>3. /\ k \in CallRecords /\ k.todo \in Todos(call[t].f)
        /\ Head(k.todo) # "ARRAY"
    <3>1. <<"ESTABLISH">> \in Seq(Commands)
      BY DEF Commands, AllFunctions
    <3>2. k \in CallRecords
      BY <1>3, <1>4, <3>1, CallType
    <3>3. <<"ESTABLISH">> \in Todos(call[t].f)
      BY <1>3 DEF Todos
    <3>4. Head(<<"ESTABLISH">>) # "ARRAY"
      OBVIOUS
    <3> QED BY <2>2, <3>2, <3>3, <3>4
  <2> HIDE DEF k
  <2> QED BY <1>1, <1>3, <1>4, <2>1, <2>2, <2>3, ReceiveGoesOn
<1>6. CASE /\ a.value = "older"
           /\ SetCall(t, [call[t] EXCEPT !.version = a.value])
           /\ Goto(t, "send")
  <2> DEFINE k == [call[t] EXCEPT !.version = a.value]
  <2>1. Moves(t, "send", k)
    BY <1>6 DEF Moves, Goto, SetCall
  <2>2. k.f = call[t].f /\ k.map = call[t].map /\ k.todo = call[t].todo
    BY <1>4 DEF CallRecords
  <2>3. k \in CallRecords
    BY <1>4, <1>6, CallType DEF AllVersions
  <2> HIDE DEF k
  <2> QED BY <1>1, <1>2, <1>3, <1>4, <2>1, <2>2, <2>3, ReceiveGoesOn
<1>7. CASE Finish(t)
  BY <1>1, <1>4, <1>7, ReceiveFinishes
<1> QED BY <1>5, <1>6, <1>7 DEF ReceiveVersion

\* The answer to CMD_GET_READERS_STATE_SIZE: readerStates[] is made as large.
LEMMA ReceiveSizeStep ==
  ASSUME Inv, NEW t \in Threads, ReceiveSize(t)
  PROVE  Inv'
<1> DEFINE a == FirstAnswer(t)
<1>0. Types
  BY DEF Inv
<1>1. /\ Receives(t, "SIZE")
      /\ UNCHANGED <<locksVars, mapVars, appVars, serverVars>>
  BY DEF ReceiveSize
<1>2. /\ pc[t] = "receive" /\ call[t].todo # <<>>
      /\ Head(call[t].todo) = "SIZE"
      /\ call[t].f \in AllFunctions \ {"CANCEL", "IS_VALID"}
      /\ call[t].todo \in Todos(call[t].f)
      /\ AnswerOK(t, "SIZE", a)
  BY <1>1, ReadsAnswer
<1>3. /\ Tail(call[t].todo) \in Todos(call[t].f) /\ Tail(call[t].todo) # <<>>
      /\ call[t].todo \in Seq(Commands)
  BY <1>2, NextRequests
<1>4. /\ call[t] \in CallRecords
      /\ "send" \in Steps /\ call[t].f \in FunctionsAt("send")
      /\ ~HasData("SIZE", a.rv)
  BY <1>0, <1>1, <1>2, FunctionsAtEach DEF Types, Steps, HasData
<1>5. readerStatesMutex = t
  BY <1>2, TableReader
<1>6. /\ a.value \in Nat
      /\ session[call[t].map] = "open" => a.value = daemon.table
  BY <1>2 DEF AnswerOK
<1>7. CASE maxReaderContext' = a.value /\ SendNext(t)
  <2> DEFINE k == [call[t] EXCEPT !.todo = Tail(@)]
  <2>1. Moves(t, "send", k)
    BY <1>7 DEF SendNext, Moves, Goto, SetCall
  <2>2. /\ k.f = call[t].f /\ k.map = call[t].map
        /\ k.todo = Tail(call[t].todo) /\ k.hCard = call[t].hCard
    BY <1>4 DEF CallRecords
  <2>3. Tail(call[t].todo) \in Seq(Commands)
    BY <1>2, <1>3
  <2>4. k \in CallRecords
    BY <1>4, <2>3, CallType
  <2> HIDE DEF k
  <2> QED
    BY <1>1, <1>3, <1>4, <1>5, <1>6, <1>7, <2>1, <2>2, <2>4, ReceiveGoesOn
<1>8. CASE Finish(t) /\ UNCHANGED maxReaderContext
  BY <1>1, <1>4, <1>8, ReceiveFinishes
<1> QED BY <1>7, <1>8 DEF ReceiveSize

\* The states of the readers have been read.
LEMMA ReceiveStatesStep ==
  ASSUME Inv, NEW t \in Threads, ReceiveStates(t)
  PROVE  Inv'
<1> DEFINE a == FirstAnswer(t)
<1>0. Types
  BY DEF Inv
<1>1. PICK cmd \in {"ARRAY", "STATE"} : Receives(t, cmd)
  BY DEF ReceiveStates
<1>2. /\ pc[t] = "receive" /\ call[t].todo # <<>>
      /\ Head(call[t].todo) = cmd
      /\ call[t].f \in AllFunctions \ {"CANCEL", "IS_VALID"}
      /\ call[t].todo \in Todos(call[t].f)
  BY <1>1, ReadsAnswer
<1>3. UNCHANGED <<locksVars, mapVars, clientVars, appVars, serverVars>>
  BY DEF ReceiveStates
<1>4. /\ call[t] \in CallRecords /\ maxReaderContext' \in Nat
      /\ "send" \in Steps /\ call[t].f \in FunctionsAt("send")
      /\ ~HasData(cmd, a.rv)
  BY <1>0, <1>1, <1>2, <1>3, FunctionsAtEach DEF Types, Steps, HasData
<1>5. CASE call[t].f = "STATUS" /\ SendNext(t)
  <2> DEFINE k == [call[t] EXCEPT !.todo = Tail(@)]
  <2>1. Moves(t, "send", k)
    BY <1>5 DEF SendNext, Moves, Goto, SetCall
  <2>2. Tail(call[t].todo) = <<"STATUS">>
    BY <1>1, <1>2, <1>5, NextRequests
  <2>3. /\ k.f = call[t].f /\ k.map = call[t].map
        /\ k.todo = <<"STATUS">> /\ k.hCard = call[t].hCard
    BY <1>4, <2>2 DEF CallRecords
  <2>4. <<"STATUS">> \in Seq(Commands) /\ Head(<<"STATUS">>) # "ARRAY"
    BY DEF Commands, AllFunctions, HandleFunctions
  <2>5. k \in CallRecords
    BY <1>4, <2>2, <2>4, CallType
  <2>6. <<"STATUS">> \in Todos(call[t].f)
    BY <1>5 DEF Todos
  <2> HIDE DEF k
  <2> QED
    BY <1>1, <1>3, <1>4, <2>1, <2>3, <2>4, <2>5, <2>6, ReceiveGoesOn
<1>6. CASE Finish(t)
  BY <1>1, <1>3, <1>4, <1>6, ReceiveFinishes
<1> QED BY <1>5, <1>6 DEF ReceiveStates

\* The answer to SCARD_CONNECT.
LEMMA ReceiveHandleStep ==
  ASSUME Inv, NEW t \in Threads, ReceiveHandle(t)
  PROVE  Inv'
<1> DEFINE a == FirstAnswer(t)
<1>0. Types
  BY DEF Inv
<1>1. /\ Receives(t, "CONNECT")
      /\ UNCHANGED <<locksVars, mapVars, clientVars, appVars, serverVars>>
  BY DEF ReceiveHandle
<1>2. /\ pc[t] = "receive" /\ call[t].todo # <<>>
      /\ Head(call[t].todo) = "CONNECT"
      /\ call[t].f \in AllFunctions \ {"CANCEL", "IS_VALID"}
      /\ call[t].todo \in Todos(call[t].f)
      /\ AnswerOK(t, "CONNECT", a)
  BY <1>1, ReadsAnswer
<1>3. call[t].f = "CONNECT"
  BY <1>2, NextRequests DEF AllFunctions, ContextFunctions
<1>4. /\ call[t] \in CallRecords /\ maxReaderContext' \in Nat
      /\ "addHandle" \in Steps /\ call[t].f \in FunctionsAt("addHandle")
      /\ "CONNECT" \notin HandleFunctions /\ ~HasData("CONNECT", a.rv)
  BY <1>0, <1>1, <1>3, FunctionsAtEach
     DEF Types, Steps, HasData, HandleFunctions
<1>5. CASE /\ a.rv = "SUCCESS"
           /\ SetCall(t, [call[t] EXCEPT !.hCard = a.value])
           /\ Goto(t, "addHandle")
  <2> DEFINE k == [call[t] EXCEPT !.hCard = a.value]
  <2>1. Moves(t, "addHandle", k)
    BY <1>5 DEF Moves, Goto, SetCall
  <2>2. a.value \in Handles
    BY <1>2, <1>5 DEF AnswerOK
  <2>3. k.f = call[t].f /\ k.map = call[t].map /\ k.hCard = a.value
    BY <1>4 DEF CallRecords
  <2>4. k \in CallRecords
    BY <1>4, <2>2, CallType
  <2> HIDE DEF k
  <2> QED
    BY <1>1, <1>3, <1>4, <1>5, <2>1, <2>2, <2>3, <2>4, ReceiveGoesOn
<1>6. CASE Finish(t)
  BY <1>1, <1>4, <1>6, ReceiveFinishes
<1> QED BY <1>5, <1>6 DEF ReceiveHandle

\* The answers to the other commands.
LEMMA ReceiveResultStep ==
  ASSUME Inv, NEW t \in Threads, ReceiveResult(t)
  PROVE  Inv'
<1> DEFINE a == FirstAnswer(t)
<1>0. Types
  BY DEF Inv
<1>1. PICK cmd \in {"RELEASE"} \cup HandleFunctions :
        /\ Receives(t, cmd)
        /\ \/ /\ HasData(cmd, a.rv)
              /\ Goto(t, "receiveData") /\ UNCHANGED call
           \/ /\ cmd = "DISCONNECT" /\ a.rv = "SUCCESS"
              /\ Goto(t, "removeHandle") /\ UNCHANGED call
           \/ /\ Blocks(cmd) /\ a.rv = "SHARING_VIOLATION"
              /\ Goto(t, "retry") /\ UNCHANGED call
           \/ /\ ~HasData(cmd, a.rv)
              /\ ~(cmd = "DISCONNECT" /\ a.rv = "SUCCESS")
              /\ ~(Blocks(cmd) /\ a.rv = "SHARING_VIOLATION")
              /\ Finish(t)
        /\ UNCHANGED <<locksVars, mapVars, clientVars, appVars, serverVars>>
  BY DEF ReceiveResult
<1>2. /\ pc[t] = "receive" /\ call[t].todo # <<>>
      /\ Head(call[t].todo) = cmd
      /\ call[t].f \in AllFunctions \ {"CANCEL", "IS_VALID"}
      /\ call[t].todo \in Todos(call[t].f)
  BY <1>1, ReadsAnswer
<1>3. call[t].f = cmd
  <2>1. cmd \in AllFunctions
    BY DEF AllFunctions, ContextFunctions
  <2> QED BY <1>2, <2>1, NextRequests
<1>4. call[t] \in CallRecords /\ maxReaderContext' \in Nat
  BY <1>0, <1>1 DEF Types
<1>5. ASSUME NEW step \in {"receiveData", "removeHandle", "retry"},
             Goto(t, step), UNCHANGED call
      PROVE  Moves(t, step, call[t]) /\ step \in Steps
  BY <1>0, <1>5 DEF Moves, Goto, Types, Steps
<1>6. CASE HasData(cmd, a.rv) /\ Goto(t, "receiveData") /\ UNCHANGED call
  <2>1. /\ call[t].f \in FunctionsAt("receiveData")
        /\ cmd # "DISCONNECT"
    BY <1>3, <1>6, FunctionsAtEach DEF HasData
  <2> QED BY <1>1, <1>4, <1>5, <1>6, <2>1, ReceiveGoesOn
<1>7. CASE /\ cmd = "DISCONNECT" /\ a.rv = "SUCCESS"
           /\ Goto(t, "removeHandle") /\ UNCHANGED call
  <2>1. /\ call[t].f \in FunctionsAt("removeHandle")
        /\ ~HasData(cmd, a.rv)
    BY <1>3, <1>7, FunctionsAtEach DEF HasData
  <2> QED BY <1>1, <1>4, <1>5, <1>7, <2>1, ReceiveGoesOn
<1>8. CASE /\ Blocks(cmd) /\ a.rv = "SHARING_VIOLATION"
           /\ Goto(t, "retry") /\ UNCHANGED call
  <2>1. /\ call[t].f \in FunctionsAt("retry")
        /\ ~HasData(cmd, a.rv) /\ a.rv # "SUCCESS"
    BY <1>3, <1>8, FunctionsAtEach DEF HasData, Blocks, HandleFunctions
  <2> QED BY <1>1, <1>4, <1>5, <1>8, <2>1, ReceiveGoesOn
<1>9. CASE /\ ~HasData(cmd, a.rv)
           /\ ~(cmd = "DISCONNECT" /\ a.rv = "SUCCESS")
           /\ Finish(t)
  BY <1>1, <1>9, ReceiveFinishes
<1> QED BY <1>1, <1>6, <1>7, <1>8, <1>9

\* The data that follow an answer have been read.
LEMMA ReceiveDataStep ==
  ASSUME Inv, NEW t \in Threads, ReceiveData(t)
  PROVE  Inv'
<1> DEFINE m == call[t].map
<1>0. Types /\ Mutexes /\ Working(t)
  BY DEF Inv
<1>1. /\ pc[t] = "receiveData"
      /\ UNCHANGED <<locksVars, mapVars, clientVars, session, requests,
                     appVars, serverVars>>
  BY DEF ReceiveData
<1>2. call[t].f \in {"TRANSMIT", "CONTROL"}
  BY <1>0, <1>1, FunctionsAtEach DEF Working
<1>3. Moves(t, "unlock", call[t])
  BY <1>0, <1>2 DEF ReceiveData, Finish, Goto, Moves, Types
<1>4. AwaitsData(t)
  BY <1>1 DEF Inv, Wires
<1>5. requests[m] = <<>> /\ replies' = [replies EXCEPT ![m] = <<>>]
  <2>1. replies[m] = <<Answer("DATA", "SUCCESS", 0, 1)>>
    BY <1>4 DEF AwaitsData
  <2>2. Head(replies[m]).n = 1 /\ Tail(replies[m]) = <<>>
    BY <2>1 DEF Answer
  <2>3. ~(Head(replies[m]).n > 1)
    BY <2>2
  <2>4. MessageReceive(m, 1)
    BY DEF ReceiveData
  <2>5. replies' = [replies EXCEPT ![m] = Tail(@)]
    BY <2>3, <2>4 DEF MessageReceive
  <2> QED BY <1>4, <2>2, <2>5 DEF AwaitsData
<1>6. pc'[t] = "unlock" /\ call'[t] = call[t]
  BY <1>0, <1>3, MovesFrame
<1>7. call[t].map \in Maps
  BY <1>1, TalkerMap
<1>8. Mutexes'
  <2>1. /\ ~HoldsClient(t) /\ ~HoldsClient(t)'
        /\ ~Seeking(t) /\ ~Seeking(t)'
        /\ ~HoldsStates(t) /\ ~HoldsStates(t)'
        /\ Exchanges(t) /\ Exchanges(t)'
    BY <1>1, <1>2, <1>6
       DEF HoldsClient, Seeking, HoldsStates, Exchanges, UsesReaderStates
  <2> QED
    BY <1>0, <1>1, <1>3, <1>7, <2>1, MutexStep
       DEF TakesOrGives, TakesOrGivesContext
<1>9. Working(t)'
  BY <1>1, <1>2, <1>3, FinishWorks
<1>10. /\ \A h \in Handles : ~Adds(t, h)'
       /\ \A n \in Maps, h \in Handles : ~Removes(t, n, h)
  BY <1>1, <1>2, <1>6 DEF Adds, Removes
<1>11. /\ "unlock" \in Steps /\ call[t] \in CallRecords
       /\ maxReaderContext' \in Nat
  BY <1>0, <1>1 DEF Steps, Types
<1> QED
  BY <1>1, <1>3, <1>5, <1>8, <1>9, <1>10, <1>11, ReceiveStep

\* The answer to SCARD_ESTABLISH_CONTEXT: the thread asks again when one of
\* its contexts has the value.
LEMMA ReceiveContextStep ==
  ASSUME Inv, NEW t \in Threads, ReceiveContext(t)
  PROVE  Inv'
<1> USE ClientLibraryAssumption
<1> DEFINE a == FirstAnswer(t)
<1>0. Types /\ Working(t)
  BY DEF Inv
<1>1. /\ Receives(t, "ESTABLISH")
      /\ UNCHANGED <<locksVars, mapVars, clientVars, appVars, serverVars>>
  BY DEF ReceiveContext
<1>2. /\ pc[t] = "receive" /\ call[t].todo # <<>>
      /\ Head(call[t].todo) = "ESTABLISH"
      /\ call[t].f \in AllFunctions \ {"CANCEL", "IS_VALID"}
      /\ call[t].todo \in Todos(call[t].f)
      /\ requests[call[t].map] = <<>>
      /\ AnswerOK(t, "ESTABLISH", a)
      /\ replies' = [replies EXCEPT ![call[t].map] = DataOf("ESTABLISH", a.rv)]
      /\ UNCHANGED <<session, requests>>
  BY <1>1, ReadsAnswer
<1>3. call[t].f = "ESTABLISH"
  BY <1>2, NextRequests
<1>4. /\ call[t] \in CallRecords /\ maxReaderContext' \in Nat
      /\ "send" \in Steps /\ "addContext" \in Steps
      /\ call[t].f \in FunctionsAt("send")
      /\ "ESTABLISH" \notin HandleFunctions /\ ~HasData("ESTABLISH", a.rv)
      /\ a.value \in Contexts
  BY <1>0, <1>1, <1>2, FunctionsAtEach
     DEF Types, Steps, HasData, HandleFunctions, AnswerOK
<1>5. CASE Goto(t, "send") /\ UNCHANGED call
  <2>1. Moves(t, "send", call[t])
    BY <1>0, <1>5 DEF Moves, Goto, Types
  <2> QED
    BY <1>1, <1>2, <1>3, <1>4, <2>1, ReceiveGoesOn
<1>6. CASE /\ IsNewContext(a.value) /\ Goto(t, "addContext")
           /\ SetCall(t, [call[t] EXCEPT !.hContext = a.value])
  <2> DEFINE k == [call[t] EXCEPT !.hContext = a.value]
  <2>1. Moves(t, "addContext", k)
    BY <1>6 DEF Moves, Goto, SetCall
  <2>2. k.f = call[t].f /\ k.map = call[t].map /\ k.hContext = a.value
    BY <1>4 DEF CallRecords
  <2>3. k \in CallRecords
    BY <1>4, CallType
  <2> HIDE DEF k
  <2>4. pc'[t] = "addContext" /\ call'[t] = k
    BY <1>0, <2>1, MovesFrame
  <2>5. DataOf("ESTABLISH", a.rv) = <<>>
    BY <1>4 DEF DataOf
  <2>6. \A m \in Maps : InList(m)' => hContext[m] # a.value
    BY <1>1, <1>6 DEF IsNewContext, SCardGetContextTH, InList
  <2>7. Working(t)'
    <3>1. /\ call[t].map \in Maps \ allocated /\ myContext[t] = NoContext
          /\ session[call[t].map] # "closed"
      BY <1>0, <1>3 DEF Working, Establishes
    <3>2. call'[t].f \in FunctionsAt("addContext")
      BY <1>3, <2>2, <2>4, FunctionsAtEach
    <3>3. /\ call'[t].hContext # NoContext
          /\ \A m \in Maps : InList(m)' => hContext'[m] # call'[t].hContext
      BY <1>1, <1>4, <2>2, <2>4, <2>6
    <3> QED
      BY <1>1, <1>2, <1>3, <1>4, <2>2, <2>4, <3>1, <3>2, <3>3
         DEF Working, Owns, Exchanges, Cleans, Establishes
  <2>8. Mutexes'
    BY <1>1, <1>2, <1>3, <2>1, <2>2, ReceiveMutexes
  <2>9. /\ \A h \in Handles : ~Adds(t, h)'
        /\ \A m \in Maps, h \in Handles : ~Removes(t, m, h)
    BY <1>3, <2>2, <2>4 DEF Adds, Removes
  <2> QED
    BY <1>1, <1>2, <1>4, <2>1, <2>2, <2>3, <2>5, <2>7, <2>8, <2>9, ReceiveStep
<1>7. CASE Finish(t)
  BY <1>1, <1>4, <1>7, ReceiveFinishes
<1> QED BY <1>5, <1>6, <1>7 DEF ReceiveContext

-----------------------------------------------------------------------------
\* Steps that change the sockets and the contexts

\* A thread sends its next request.
LEMMA SendStep ==
  ASSUME Inv, NEW t \in Threads, Send(t)
  PROVE  Inv'
<1> USE ClientLibraryAssumption
<1> DEFINE n == call[t].map
           cmd == Head(call[t].todo)
<1>0. Types /\ Mutexes /\ Working(t)
  BY DEF Inv
<1>1. /\ pc[t] = "send" /\ call[t].todo # <<>> /\ session[n] = "open"
      /\ requests' = [requests EXCEPT ![n] = Append(@, Request(t, cmd))]
      /\ maxReaderContext' = IF cmd = "STATE" THEN FixedTable
                                              ELSE maxReaderContext
      /\ UNCHANGED <<locksVars, mapVars, protocolVersion, session, replies,
                     call, appVars, serverVars>>
  BY DEF Send, MessageSendWithHeader
<1>2. Moves(t, "receive", call[t])
  BY <1>0, <1>1 DEF Send, Moves, Goto, Types
<1>3. /\ pc'[t] = "receive"
      /\ \A u \in Threads : u # t => pc'[u] = pc[u]
  BY <1>0, <1>2, MovesFrame
<1>4. n \in Maps /\ (Exchanges(t) \/ Establishes(t))
  BY <1>1, TalkerMap DEF Exchanges, Establishes
<1>5. \A u \in Threads : Talks(u, n) => u = t
  BY <1>4, OneTalker DEF Talks, Exchanges, Establishes
<1>6. requests[n] = <<>> /\ replies[n] = <<>>
  <2>1. \A u \in Threads : ~Talks(u, n)
    BY <1>1, <1>5 DEF Talks
  <2> QED BY <1>4, <2>1 DEF Inv, Wires
<1>7. requests'[n] = <<Request(t, cmd)>>
  <2>1. requests'[n] = Append(requests[n], Request(t, cmd))
    BY <1>0, <1>1, <1>4 DEF Types
  <2> QED BY <1>6, <2>1
<1>8. Types'
  BY <1>0, <1>1, <1>2 DEF Types, Moves, Steps
<1>9. Mutexes'
  <2>1. /\ HoldsClient(t) <=> HoldsClient(t)'
        /\ ~Seeking(t) /\ ~Seeking(t)'
        /\ HoldsStates(t) <=> HoldsStates(t)'
        /\ Exchanges(t) <=> Exchanges(t)'
    BY <1>1, <1>3 DEF HoldsClient, Seeking, HoldsStates, Exchanges
  <2> QED
    BY <1>0, <1>1, <1>2, <1>4, <2>1, MutexStep
       DEF TakesOrGives, TakesOrGivesContext
<1>10. \A u \in Threads : Working(u)'
  <2>1. Working(t)'
    <3>1. /\ InList(call[t].map)' <=> InList(call[t].map)
          /\ Owns(t)' <=> Owns(t)
          /\ FunctionsAt("receive") = FunctionsAt("send")
      BY <1>1, <1>3, FunctionsAtEach DEF InList, Owns, Exchanges
    <3> QED
      BY <1>0, <1>1, <1>3, <3>1 DEF Working, Cleans, Establishes
  <2> QED BY <1>1, <1>2, <2>1, OthersWork
<1>11. Lists'
  <2>1. \A u \in Threads : Cleans(u)' <=> Cleans(u)
    BY <1>1, <1>3 DEF Cleans
  <2>2. \A m \in Maps : InList(m)' <=> InList(m)
    BY <1>1 DEF InList
  <2> QED BY <1>1, <2>1, <2>2 DEF Inv, Lists
<1>12. HandlesOK'
  BY <1>1, <1>3, KeepsLists DEF Inv, Cleans
<1>13. Fresh'
  <2>1. \A u \in Threads, h \in Handles : Adds(u, h)' => Adds(u, h)
    BY <1>1, <1>3, <1>6 DEF Adds, FirstAnswer
  <2> QED BY <1>1, <2>1 DEF Inv, Fresh
<1>14. Agreement'
  <2>1. ASSUME NEW u \in Threads, NEW m \in Maps, NEW h \in Handles,
               Removes(u, m, h)
        PROVE  Removes(u, m, h)'
    BY <1>1, <1>3, <2>1 DEF Removes, FirstAnswer
  <2> QED BY <1>1, <2>1 DEF Inv, Agreement, Types
<1>15. ASSUME NEW u \in Threads, u # t, pc[u] \in {"send", "receive"},
              call[u].todo # <<>>, Head(call[u].todo) \in {"ARRAY", "STATE"}
       PROVE  maxReaderContext' = maxReaderContext
  <2>1. readerStatesMutex = u
    BY <1>15, TableReader
  <2>2. cmd # "STATE"
    BY <1>1, <1>15, <2>1, TableReader
  <2> QED BY <1>1, <2>2
<1>16. Wires'
  <2>1. ASSUME NEW u \in Threads, pc'[u] = "receive" PROVE Awaits(u)'
    <3>1. CASE u = t
      <4>1. Request(t, cmd)' = Request(t, cmd)
        BY <1>1 DEF Request, Argument
      <4> QED BY <1>1, <1>6, <1>7, <3>1, <4>1 DEF Awaits
    <3>2. CASE u # t
      <4>1. pc[u] = "receive" /\ Awaits(u) /\ call[u].todo # <<>>
        BY <1>3, <2>1, <3>2 DEF Inv, Wires, Working
      <4>2. call[u].map # n /\ call[u].map \in Maps
        BY <1>5, <3>2, <4>1, TalkerMap DEF Talks
      <4>3. Head(call[u].todo) \in {"ARRAY", "STATE"} =>
              maxReaderContext' = maxReaderContext
        BY <1>15, <3>2, <4>1
      <4>4. requests'[call[u].map] = requests[call[u].map]
        BY <1>0, <1>1, <4>2 DEF Types
      <4>5. \A c, a : AnswerOK(u, c, a) /\
              (c \in {"ARRAY", "STATE"} => maxReaderContext' = maxReaderContext)
              => AnswerOK(u, c, a)'
        BY <1>1 DEF AnswerOK
      <4> QED
        BY <1>1, <4>1, <4>3, <4>4, <4>5
           DEF Awaits, FirstAnswer, Request, Argument
    <3> QED BY <3>1, <3>2
  <2>2. ASSUME NEW u \in Threads, pc'[u] = "receiveData" PROVE AwaitsData(u)'
    <3>1. u # t /\ pc[u] = "receiveData"
      BY <1>3, <2>2
    <3>2. AwaitsData(u) /\ call[u].map # n /\ call[u].map \in Maps
      BY <1>5, <3>1, TalkerMap DEF Inv, Wires, Talks
    <3> QED BY <1>0, <1>1, <3>2 DEF AwaitsData, Types
  <2>3. ASSUME NEW m \in Maps, \A u \in Threads : ~Talks(u, m)'
        PROVE  requests'[m] = <<>> /\ replies[m] = <<>>
    <3>1. m # n
      <4>1. ~Talks(t, m)'
        BY <2>3
      <4> QED BY <1>1, <1>3, <4>1 DEF Talks
    <3>2. \A u \in Threads : ~Talks(u, m)
      BY <1>1, <1>3, <2>3 DEF Talks
    <3>3. requests[m] = <<>> /\ replies[m] = <<>>
      BY <3>2 DEF Inv, Wires
    <3> QED BY <1>0, <1>1, <3>1, <3>3 DEF Types
  <2>4. \A m \in Maps : session[m] = "open" => daemon.running
    BY DEF Inv, Wires
  <2> QED BY <1>1, <2>1, <2>2, <2>3, <2>4 DEF Wires
<1>17. Tables'
  <2> SUFFICES ASSUME NEW u \in Threads
               PROVE  /\ pc'[u] \in {"send", "receive"} /\ call[u].todo # <<>>
                           /\ Head(call[u].todo) = "ARRAY"
                           /\ session[call[u].map] = "open" =>
                           daemon.table = maxReaderContext'
                      /\ pc'[u] = "receive" /\ Head(call[u].todo) = "STATE" =>
                           maxReaderContext' = FixedTable
    BY <1>1 DEF Tables
  <2>1. CASE u = t
    BY <1>1, <1>3, <2>1 DEF Inv, Tables
  <2>2. CASE u # t
    <3>1. pc[u] = "receive" => call[u].todo # <<>>
      BY DEF Inv, Working
    <3> QED BY <1>3, <1>15, <2>2, <3>1 DEF Inv, Tables
  <2> QED BY <2>1, <2>2
<1> QED
  BY <1>8, <1>9, <1>10, <1>11, <1>12, <1>13, <1>14, <1>16, <1>17 DEF Inv

\* While a thread has clientMutex no other one establishes, looks at or cleans
\* a context.
LEMMA ClientAlone ==
  ASSUME Inv, NEW t \in Threads, HoldsClient(t), NEW u \in Threads, u # t
  PROVE  /\ ~Establishes(u) /\ ~Cleans(u) /\ ~HoldsClient(u)
         /\ pc[u] \notin {"peek", "lock", "cleanSession", "addContext"}
<1>1. ~HoldsClient(u) /\ Working(u) /\ pc[u] \in Steps
  BY DEF Inv, Mutexes, Types
<1>2. ~Establishes(u)
  <2>1. call[u].f \in FunctionsAt(pc[u])
    BY <1>1 DEF Working
  <2>2. ~("ESTABLISH" \in FunctionsAt(pc[u]) /\ call[u].f = "ESTABLISH")
    BY <1>1
       DEF HoldsClient, FunctionsAt, AllFunctions, ContextFunctions,
           HandleFunctions, Steps
  <2> QED BY <2>1, <2>2 DEF Establishes
<1> QED BY <1>1, <1>2 DEF HoldsClient, Cleans

\* No two threads work on the same context.
LEMMA OwnersApart ==
  ASSUME Inv, NEW t \in Threads, NEW u \in Threads, u # t,
         Owns(t) \/ Cleans(t) \/ Establishes(t), Owns(u)
  PROVE  call[u].map # call[t].map
<1>1. Working(t) /\ Working(u) /\ Types /\ Lists
  BY DEF Inv
<1>2. /\ InList(call[u].map) /\ hContext[call[u].map] = myContext[u]
      /\ myContext[u] # NoContext
  BY <1>1 DEF Working
<1>3. CASE Owns(t)
  BY <1>1, <1>2, <1>3 DEF Working, Lists
<1>4. CASE Cleans(t)
  BY <1>1, <1>2, <1>4 DEF Working
<1>5. CASE Establishes(t)
  BY <1>1, <1>2, <1>5 DEF Working, Lists
<1> QED BY <1>3, <1>4, <1>5

\* A step on one context under clientMutex does not disturb what the others
\* have in hand.
LEMMA OthersWorkOn ==
  ASSUME Inv, NEW t \in Threads, NEW step, NEW k, Moves(t, step, k),
         HoldsClient(t), Owns(t) \/ Cleans(t) \/ Establishes(t),
         \A u \in Threads : u # t =>
           myContext'[u] = myContext[u] /\ myHandles'[u] = myHandles[u],
         \A m \in Maps : m # call[t].map =>
           (InList(m)' <=> InList(m)) /\ hContext'[m] = hContext[m]
  PROVE  \A u \in Threads : u # t => Working(u)'
<1> SUFFICES ASSUME NEW u \in Threads, u # t PROVE Working(u)'
  OBVIOUS
<1>1. pc'[u] = pc[u] /\ call'[u] = call[u]
  BY MovesFrame DEF Inv
<1>2. /\ ~Establishes(u) /\ ~Cleans(u)
      /\ pc[u] \notin {"peek", "addContext"}
  BY ClientAlone
<1>3. /\ Owns(u)' <=> Owns(u)
      /\ Cleans(u)' <=> Cleans(u)
      /\ Establishes(u)' <=> Establishes(u)
  BY <1>1 DEF Owns, Exchanges, Cleans, Establishes
<1>4. Working(u)
  BY DEF Inv
<1>5. Owns(u) => InList(call[u].map)' /\ hContext'[call[u].map] = myContext'[u]
  <2> SUFFICES ASSUME Owns(u)
               PROVE  InList(call[u].map)' /\ hContext'[call[u].map] = myContext'[u]
    OBVIOUS
  <2>1. call[u].map # call[t].map /\ InList(call[u].map) /\ call[u].map \in Maps
    BY <1>4, OwnersApart, TalkerMap DEF Working
  <2>2. InList(call[u].map)'
    BY <1>1, <2>1 DEF InList
  <2> QED BY <1>4, <2>1, <2>2 DEF Working
<1> QED BY <1>1, <1>2, <1>3, <1>4, <1>5 DEF Working

\* A step that sends and receives nothing, and closes no socket another thread
\* is talking over.
LEMMA SilentStep ==
  ASSUME Inv, NEW t \in Threads, NEW step, NEW k, Moves(t, step, k),
         pc[t] \notin {"receive", "receiveData"},
         step \notin {"send", "receive", "receiveData"},
         UNCHANGED <<requests, replies, daemon, maxReaderContext>>,
         \A m \in Maps : session'[m] \in {session[m], "closed"},
         \A u \in Threads : u # t /\ pc[u] \in {"receive", "receiveData"} =>
           session'[call[u].map] = session[call[u].map]
  PROVE  Wires' /\ Tables'
<1>1. /\ pc'[t] = step /\ call'[t] = k
      /\ \A u \in Threads : u # t => pc'[u] = pc[u] /\ call'[u] = call[u]
  BY MovesFrame DEF Inv
<1>2. ASSUME NEW u \in Threads, pc'[u] = "receive" PROVE Awaits(u)'
  <2>1. u # t /\ Awaits(u) /\ session'[call[u].map] = session[call[u].map]
    BY <1>1, <1>2 DEF Inv, Wires
  <2>2. \A c, a : AnswerOK(u, c, a)' <=> AnswerOK(u, c, a)
    BY <1>1, <2>1 DEF AnswerOK
  <2> QED BY <1>1, <2>1, <2>2 DEF Awaits, FirstAnswer, Request, Argument
<1>3. ASSUME NEW u \in Threads, pc'[u] = "receiveData" PROVE AwaitsData(u)'
  BY <1>1, <1>3 DEF Inv, Wires, AwaitsData
<1>4. ASSUME NEW m \in Maps, \A u \in Threads : ~Talks(u, m)'
      PROVE  requests[m] = <<>> /\ replies[m] = <<>>
  <2>1. \A u \in Threads : ~Talks(u, m)
    BY <1>1, <1>4 DEF Talks
  <2> QED BY <2>1 DEF Inv, Wires
<1>5. \A m \in Maps : session'[m] = "open" => daemon.running
  BY DEF Inv, Wires
<1>6. Wires'
  BY <1>2, <1>3, <1>4, <1>5 DEF Wires
<1>7. Tables'
  <2> SUFFICES ASSUME NEW u \in Threads, pc'[u] \in {"send", "receive"}
               PROVE  /\ call'[u].todo # <<>>
                           /\ Head(call'[u].todo) = "ARRAY"
                           /\ session'[call'[u].map] = "open" =>
                           daemon.table = maxReaderContext
                      /\ pc'[u] = "receive" /\ Head(call'[u].todo) = "STATE" =>
                           maxReaderContext = FixedTable
    BY DEF Tables
  <2>1. u # t /\ pc[u] \in {"send", "receive"} /\ call[u].map \in Maps
    BY <1>1, TalkerMap
  <2>2. session'[call[u].map] = "open" => session[call[u].map] = "open"
    BY <2>1
  <2> QED BY <1>1, <2>1, <2>2 DEF Inv, Tables
<1> QED BY <1>6, <1>7

\* The socket of the thread is closed after all: the call has failed.
LEMMA EstablishCleanupStep ==
  ASSUME Inv, NEW t \in Threads, EstablishCleanup(t)
  PROVE  Inv'
<1> USE ClientLibraryAssumption
<1> DEFINE n == call[t].map
<1>0. Types /\ Mutexes /\ Working(t) /\ Lists
  BY DEF Inv
<1>1. /\ pc[t] = "cleanup" /\ session' = [session EXCEPT ![n] = "closed"]
      /\ clientMutex' = NoThread
      /\ UNCHANGED <<listLock, readerStatesMutex, mMutex, mapVars, clientVars,
                     requests, replies, appVars, serverVars>>
  BY DEF EstablishCleanup, SCardUnlockThread, ClientCloseSession
<1>2. Moves(t, "idle", NoCall)
  BY DEF EstablishCleanup, Return, Goto, SetCall, Moves
<1>3. /\ pc'[t] = "idle" /\ call'[t] = NoCall
      /\ \A u \in Threads : u # t => pc'[u] = pc[u] /\ call'[u] = call[u]
  BY <1>0, <1>2, MovesFrame
<1>4. NoCall.f = "NONE" /\ NoCall \in CallRecords
  BY NewCallType DEF NoCall
<1>5. /\ HoldsClient(t) /\ Establishes(t) /\ n \in Maps \ allocated
      /\ ~InList(n)
  <2>1. Establishes(t)
    BY <1>0, <1>1, FunctionsAtEach DEF Working, Establishes
  <2> QED BY <1>0, <1>1, <2>1 DEF HoldsClient, Working, Lists
<1>6. Types'
  BY <1>0, <1>1, <1>2, <1>4 DEF Types, Moves, Steps
<1>7. Mutexes'
  <2>1. /\ HoldsClient(t) /\ ~HoldsClient(t)'
        /\ ~Seeking(t) /\ ~Seeking(t)'
        /\ ~HoldsStates(t) /\ ~HoldsStates(t)'
        /\ ~Exchanges(t) /\ ~Exchanges(t)'
    BY <1>1, <1>3 DEF HoldsClient, Seeking, HoldsStates, Exchanges
  <2> QED
    BY <1>0, <1>1, <1>2, <2>1, MutexStep
       DEF TakesOrGives, TakesOrGivesContext
<1>8. \A m \in Maps : InList(m)' <=> InList(m)
  BY <1>1 DEF InList
<1>9. \A u \in Threads : Working(u)'
  <2>1. Working(t)'
    <3>1. /\ call'[t].f \in FunctionsAt("idle") /\ call'[t].f # "ESTABLISH"
          /\ call'[t].f \notin HandleFunctions
      BY <1>3, <1>4, FunctionsAtEach DEF HandleFunctions
    <3> QED
      BY <1>3, <3>1 DEF Working, Owns, Exchanges, Cleans, Establishes
  <2> QED BY <1>1, <1>2, <1>5, <1>8, <2>1, OthersWorkOn
<1>10. Lists'
  <2>1. \A u \in Threads : Cleans(u)' <=> Cleans(u)
    BY <1>1, <1>3 DEF Cleans
  <2>2. \A m \in Maps : m # n => session'[m] = session[m]
    BY <1>0, <1>1 DEF Types
  <2> QED BY <1>0, <1>1, <1>5, <1>8, <2>1, <2>2 DEF Lists
<1>11. HandlesOK'
  BY <1>1, <1>3, KeepsLists DEF Inv, Cleans
<1>12. \A m \in Maps : session'[m] = "open" => session[m] = "open"
  BY <1>0, <1>1 DEF Types
<1>13. Fresh'
  <2>1. \A u \in Threads, h \in Handles : Adds(u, h)' => u # t /\ Adds(u, h)
    BY <1>1, <1>3, <1>4 DEF Adds, FirstAnswer
  <2>2. \A u \in Threads, h \in Handles : Adds(u, h) => call[u].map \in Maps
    BY TalkerMap DEF Adds, Owns, Exchanges
  <2> QED BY <1>1, <1>3, <1>12, <2>1, <2>2 DEF Inv, Fresh
<1>14. Agreement'
  <2>1. ASSUME NEW u \in Threads, NEW m \in Maps, NEW h \in Handles,
               Removes(u, m, h)
        PROVE  Removes(u, m, h)'
    <3>1. u # t
      BY <1>1, <2>1 DEF Removes
    <3> QED BY <1>1, <1>3, <2>1, <3>1 DEF Removes, FirstAnswer
  <2> QED BY <1>1, <1>12, <2>1 DEF Inv, Agreement, Types
<1>15. Wires' /\ Tables'
  <2>1. \A m \in Maps : session'[m] \in {session[m], "closed"}
    BY <1>0, <1>1 DEF Types
  <2>2. ASSUME NEW u \in Threads, u # t, pc[u] \in {"receive", "receiveData"}
        PROVE  session'[call[u].map] = session[call[u].map]
    <3>1. call[u].map \in Maps /\ (Exchanges(u) \/ Establishes(u))
      BY <2>2, TalkerMap DEF Exchanges, Establishes
    <3>2. call[u].map # n
      BY <1>5, <2>2, <3>1, OneTalker
    <3> QED BY <1>0, <1>1, <3>1, <3>2 DEF Types
  <2> QED BY <1>1, <1>2, <2>1, <2>2, SilentStep
<1> QED
  BY <1>6, <1>7, <1>9, <1>10, <1>11, <1>13, <1>14, <1>15 DEF Inv

\* A step that adds no handle and has none to remove.
LEMMA KeepsHandles ==
  ASSUME Inv, NEW t \in Threads, NEW step, NEW k, Moves(t, step, k),
         pc[t] \notin {"receive", "addHandle", "removeHandle", "removeSeek",
                       "deleteHandle"},
         step \notin {"receive", "addHandle"},
         UNCHANGED <<replies, serverContext, serverHandles, drawn>>,
         \A m \in Maps : channelMapList'[m] \subseteq channelMapList[m],
         \A u \in Threads : myHandles'[u] \subseteq myHandles[u],
         \A m \in Maps : session'[m] = "open" => session[m] = "open"
  PROVE  Fresh' /\ Agreement'
<1>1. /\ pc'[t] = step /\ call'[t] = k
      /\ \A u \in Threads : u # t => pc'[u] = pc[u] /\ call'[u] = call[u]
  BY MovesFrame DEF Inv
<1>2. Fresh'
  <2>1. \A u \in Threads, h \in Handles : Adds(u, h)' => u # t /\ Adds(u, h)
    BY <1>1 DEF Adds, FirstAnswer
  <2>2. \A u \in Threads, h \in Handles : Adds(u, h) => call[u].map \in Maps
    BY TalkerMap DEF Adds, Owns, Exchanges
  <2>3. SUFFICES ASSUME NEW u \in Threads, NEW h \in Handles, Adds(u, h)'
                 PROVE  /\ h \in drawn
                        /\ \A v \in Threads : h \notin myHandles'[v]
                        /\ \A m \in Maps : h \notin channelMapList'[m]
                        /\ \A v \in Threads : Adds(v, h)' => v = u
                        /\ session'[call[u].map] = "open"
                             /\ serverContext[call[u].map] # NoContext
                             => h \in serverHandles[call[u].map]
    BY <1>1, <2>1 DEF Fresh
  <2>4. /\ h \in drawn
        /\ \A v \in Threads : h \notin myHandles[v]
        /\ \A m \in Maps : h \notin channelMapList[m]
        /\ \A v \in Threads : Adds(v, h) => v = u
        /\ session[call[u].map] = "open"
             /\ serverContext[call[u].map] # NoContext
             => h \in serverHandles[call[u].map]
    BY <2>1, <2>3 DEF Inv, Fresh
  <2> QED BY <2>1, <2>2, <2>3, <2>4
<1>3. Agreement'
  <2>1. ASSUME NEW u \in Threads, NEW m \in Maps, NEW h \in Handles,
               Removes(u, m, h)
        PROVE  Removes(u, m, h)'
    <3>1. u # t
      BY <2>1 DEF Removes
    <3> QED BY <1>1, <2>1, <3>1 DEF Removes, FirstAnswer
  <2>2. \A m \in Maps : channelMapList[m] \subseteq Handles
    BY DEF Inv, Types
  <2> QED BY <2>1, <2>2 DEF Inv, Agreement
<1> QED BY <1>2, <1>3

\* SCardAddContext() puts the new context in the list.
LEMMA SCardAddContextStep ==
  ASSUME Inv, NEW t \in Threads, SCardAddContext(t)
  PROVE  Inv'
<1> USE ClientLibraryAssumption
<1> DEFINE n == call[t].map
           c == call[t].hContext
<1>0. Types /\ Mutexes /\ Working(t) /\ Lists /\ HandlesOK
  BY DEF Inv
<1>1. /\ pc[t] = "addContext" /\ clientMutex' = NoThread
      /\ allocated' = allocated \cup {n}
      /\ hContext' = [hContext EXCEPT ![n] = c]
      /\ channelMapList' = [channelMapList EXCEPT ![n] = {}]
      /\ contextMapList' = Append(contextMapList, n)
      /\ myContext' = [myContext EXCEPT ![t] = c]
      /\ UNCHANGED <<listLock, readerStatesMutex, mMutex, clientVars,
                     wireVars, myHandles, serverVars>>
  BY DEF SCardAddContext, SCardUnlockThread
<1>2. Moves(t, "idle", NoCall)
  BY DEF SCardAddContext, Return, Goto, SetCall, Moves
<1>3. /\ pc'[t] = "idle" /\ call'[t] = NoCall
      /\ \A u \in Threads : u # t => pc'[u] = pc[u] /\ call'[u] = call[u]
  BY <1>0, <1>2, MovesFrame
<1>4. NoCall.f = "NONE" /\ NoCall \in CallRecords
  BY NewCallType DEF NoCall
<1>5. /\ HoldsClient(t) /\ Establishes(t) /\ n \in Maps \ allocated
      /\ ~InList(n) /\ session[n] # "closed" /\ myContext[t] = NoContext
      /\ c # NoContext /\ c \in Contexts
      /\ \A m \in Maps : InList(m) => hContext[m] # c
  <2>1. Establishes(t)
    BY <1>0, <1>1, FunctionsAtEach DEF Working, Establishes
  <2>2. c \in Contexts \cup {NoContext}
    BY <1>0 DEF Types, CallRecords
  <2> QED BY <1>0, <1>1, <2>1, <2>2 DEF HoldsClient, Working, Lists
<1>6. Types'
  BY <1>0, <1>1, <1>2, <1>4, <1>5 DEF Types, Moves, Steps
<1>7. Mutexes'
  <2>1. /\ HoldsClient(t) /\ ~HoldsClient(t)'
        /\ ~Seeking(t) /\ ~Seeking(t)'
        /\ ~HoldsStates(t) /\ ~HoldsStates(t)'
        /\ ~Exchanges(t) /\ ~Exchanges(t)'
    BY <1>1, <1>3 DEF HoldsClient, Seeking, HoldsStates, Exchanges
  <2> QED
    BY <1>0, <1>1, <1>2, <2>1, MutexStep
       DEF TakesOrGives, TakesOrGivesContext
<1>8. /\ \A m \in Maps : InList(m)' <=> InList(m) \/ m = n
      /\ \A i, j \in DOMAIN contextMapList' :
           contextMapList'[i] = contextMapList'[j] => i = j
  <2>1. /\ DOMAIN contextMapList = 1 .. Len(contextMapList)
        /\ DOMAIN contextMapList' = 1 .. Len(contextMapList) + 1
        /\ \A i \in DOMAIN contextMapList : contextMapList'[i] = contextMapList[i]
        /\ contextMapList'[Len(contextMapList) + 1] = n
        /\ Len(contextMapList) \in Nat
    BY <1>0, <1>1, <1>5 DEF Types
  <2>2. \A i \in DOMAIN contextMapList : contextMapList[i] # n
    BY <1>5 DEF InList
  <2>3. \A i, j \in DOMAIN contextMapList :
          contextMapList[i] = contextMapList[j] => i = j
    BY <1>0 DEF Lists
  <2>4. \A i \in DOMAIN contextMapList' :
          i \in DOMAIN contextMapList \/ i = Len(contextMapList) + 1
    BY <2>1
  <2>5. \A i \in DOMAIN contextMapList : i \in DOMAIN contextMapList'
    BY <2>1
  <2>6. Len(contextMapList) + 1 \in DOMAIN contextMapList'
    BY <2>1
  <2>7. \A m \in Maps : InList(m)' <=> InList(m) \/ m = n
    BY <2>1, <2>4, <2>5, <2>6 DEF InList
  <2> QED BY <2>1, <2>2, <2>3, <2>4, <2>7
<1>9. \A m \in Maps : m # n => /\ hContext'[m] = hContext[m]
                               /\ channelMapList'[m] = channelMapList[m]
  BY <1>0, <1>1 DEF Types
<1>10. hContext'[n] = c /\ channelMapList'[n] = {}
  BY <1>0, <1>1, <1>5 DEF Types
<1>11. myContext'[t] = c /\ \A u \in Threads : u # t => myContext'[u] = myContext[u]
  BY <1>0, <1>1 DEF Types
<1>12. \A u \in Threads : Working(u)'
  <2>1. Working(t)'
    <3>1. /\ call'[t].f \in FunctionsAt("idle") /\ call'[t].f # "ESTABLISH"
          /\ call'[t].f \notin HandleFunctions
      BY <1>3, <1>4, FunctionsAtEach DEF HandleFunctions
    <3> QED
      BY <1>3, <3>1 DEF Working, Owns, Exchanges, Cleans, Establishes
  <2> QED BY <1>1, <1>2, <1>5, <1>8, <1>9, <1>11, <2>1, OthersWorkOn
<1>13. Lists'
  <2>1. \A m \in Maps : InList(m)' => m \in allocated'
    BY <1>0, <1>1, <1>8 DEF Lists
  <2>2. \A m \in Maps : InList(m)' /\ hContext'[m] # NoContext =>
          session'[m] # "closed"
    BY <1>0, <1>1, <1>5, <1>8, <1>9 DEF Lists
  <2>3. \A m, o \in Maps :
          InList(m)' /\ InList(o)' /\ hContext'[m] = hContext'[o]
            /\ hContext'[m] # NoContext => m = o
    BY <1>0, <1>5, <1>8, <1>9, <1>10 DEF Lists
  <2>4. ASSUME NEW u \in Threads, u # t, myContext[u] # NoContext
        PROVE  \E m \in Maps : m # n /\ InList(m) /\ hContext[m] = myContext[u]
    <3>1. ~Cleans(u)
      BY <1>5, <2>4, ClientAlone
    <3>2. \E m \in Maps : InList(m) /\ hContext[m] = myContext[u]
      BY <1>0, <2>4, <3>1 DEF Lists
    <3> QED BY <1>5, <3>2
  <2>5. ASSUME NEW u \in Threads, myContext'[u] # NoContext
        PROVE  \E m \in Maps : InList(m)' /\ hContext'[m] = myContext'[u]
    <3>1. CASE u = t
      BY <1>5, <1>8, <1>10, <1>11, <3>1
    <3>2. CASE u # t
      <4>1. myContext[u] # NoContext /\ myContext'[u] = myContext[u]
        BY <1>11, <2>5, <3>2
      <4>2. PICK m \in Maps : m # n /\ InList(m) /\ hContext[m] = myContext[u]
        BY <2>4, <3>2, <4>1
      <4>3. InList(m)' /\ hContext'[m] = myContext'[u]
        BY <1>8, <1>9, <4>1, <4>2
      <4> QED BY <4>3
    <3> QED BY <3>1, <3>2
  <2>6. ASSUME NEW u \in Threads, u # t, myContext[u] # NoContext
        PROVE  myContext[u] # c
    BY <1>5, <2>4, <2>6
  <2>7. \A u, v \in Threads :
          myContext'[u] = myContext'[v] /\ myContext'[u] # NoContext => u = v
    BY <1>0, <1>5, <1>11, <2>6 DEF Lists
  <2> QED BY <1>8, <2>1, <2>2, <2>3, <2>5, <2>7 DEF Lists
<1>14. HandlesOK'
  <2>3. \A m \in Maps : channelMapList'[m] \subseteq drawn
    BY <1>0, <1>9, <1>10 DEF HandlesOK
  <2>4. \A m \in Maps : ~InList(m)' => channelMapList'[m] = {}
    BY <1>0, <1>8, <1>9 DEF HandlesOK
  <2>5. ASSUME NEW u \in Threads, NEW m \in Maps,
               NEW h \in channelMapList'[m], h \in myHandles[u]
        PROVE  ListOf(u, m)'
    <3>1. m # n
      BY <1>10, <2>5
    <3>2. ListOf(u, m)
      BY <1>0, <1>9, <2>5, <3>1 DEF HandlesOK
    <3>3. u # t
      BY <1>1, <1>5, <3>2 DEF ListOf
    <3> QED BY <1>3, <1>9, <1>11, <3>1, <3>2, <3>3 DEF ListOf, Cleans
  <2> QED BY <1>0, <1>1, <2>3, <2>4, <2>5 DEF HandlesOK
<1>15. Fresh' /\ Agreement'
  <2>1. \A m \in Maps : channelMapList'[m] \subseteq channelMapList[m]
    BY <1>9, <1>10
  <2> QED BY <1>1, <1>2, <2>1, KeepsHandles
<1>16. Wires' /\ Tables'
  BY <1>1, <1>2, SilentStep
<1> QED
  BY <1>6, <1>7, <1>12, <1>13, <1>14, <1>15, <1>16 DEF Inv

\* The context is no longer valid and its socket is closed.
LEMMA CleanSessionStep ==
  ASSUME Inv, NEW t \in Threads, CleanSession(t)
  PROVE  Inv'
<1> USE ClientLibraryAssumption
<1> DEFINE n == call[t].map
<1>0. Types /\ Mutexes /\ Working(t) /\ Lists /\ HandlesOK
  BY DEF Inv
<1>1. /\ pc[t] = "cleanSession"
      /\ hContext' = [hContext EXCEPT ![n] = NoContext]
      /\ session' = [session EXCEPT ![n] = "closed"]
      /\ UNCHANGED <<locksVars, contextMapList, channelMapList, allocated,
                     clientVars, requests, replies, call, appVars, serverVars>>
  BY DEF CleanSession, ClientCloseSession
<1>2. Moves(t, "cleanChannels", call[t])
  BY <1>0 DEF CleanSession, Goto, Moves, Types
<1>3. /\ pc'[t] = "cleanChannels" /\ call'[t] = call[t]
      /\ \A u \in Threads : u # t => pc'[u] = pc[u] /\ call'[u] = call[u]
  BY <1>0, <1>2, MovesFrame
<1>4. /\ HoldsClient(t) /\ Owns(t) /\ call[t].f = "RELEASE" /\ n \in Maps
      /\ InList(n) /\ hContext[n] = myContext[t] /\ myContext[t] # NoContext
      /\ n \in allocated
  <2>1. /\ HoldsClient(t) /\ Owns(t) /\ call[t].f = "RELEASE"
    BY <1>0, <1>1, FunctionsAtEach DEF HoldsClient, Owns, Working
  <2>2. n \in Maps
    BY <2>1, TalkerMap
  <2> QED BY <1>0, <2>1, <2>2 DEF Working, Lists
<1>5. /\ \A m \in Maps : m # n => /\ hContext'[m] = hContext[m]
                                  /\ session'[m] = session[m]
      /\ hContext'[n] = NoContext /\ session'[n] = "closed"
  BY <1>0, <1>1, <1>4 DEF Types
<1>6. Types'
  BY <1>0, <1>1, <1>2 DEF Types, Moves, Steps
<1>7. Mutexes'
  <2>1. /\ HoldsClient(t) /\ HoldsClient(t)'
        /\ ~Seeking(t) /\ ~Seeking(t)'
        /\ ~HoldsStates(t) /\ ~HoldsStates(t)'
        /\ ~Exchanges(t) /\ ~Exchanges(t)'
    BY <1>1, <1>3 DEF HoldsClient, Seeking, HoldsStates, Exchanges
  <2> QED
    BY <1>0, <1>1, <1>2, <2>1, MutexStep
       DEF TakesOrGives, TakesOrGivesContext
<1>8. \A m \in Maps : InList(m)' <=> InList(m)
  BY <1>1 DEF InList
<1>9. \A u \in Threads : Working(u)'
  <2>1. Working(t)'
    <3>1. /\ call'[t].f \in FunctionsAt("cleanChannels")
          /\ call'[t].f # "ESTABLISH" /\ call'[t].f \notin HandleFunctions
      BY <1>3, <1>4, FunctionsAtEach DEF HandleFunctions
    <3>2. InList(call[t].map)'
      BY <1>1, <1>4 DEF InList
    <3> QED
      BY <1>1, <1>3, <1>4, <1>5, <3>1, <3>2
         DEF Working, Owns, Exchanges, Cleans, Establishes
  <2> QED BY <1>1, <1>2, <1>4, <1>5, <1>8, <2>1, OthersWorkOn
<1>10. Lists'
  <2>1. \A m \in Maps : InList(m)' => m \in allocated'
    BY <1>0, <1>1, <1>8 DEF Lists
  <2>2. \A m \in Maps : InList(m)' /\ hContext'[m] # NoContext =>
          session'[m] # "closed"
    BY <1>0, <1>5, <1>8 DEF Lists
  <2>3. \A m, o \in Maps :
          InList(m)' /\ InList(o)' /\ hContext'[m] = hContext'[o]
            /\ hContext'[m] # NoContext => m = o
    BY <1>0, <1>5, <1>8 DEF Lists
  <2>4. ASSUME NEW u \in Threads, myContext[u] # NoContext, ~Cleans(u)'
        PROVE  \E m \in Maps : InList(m)' /\ hContext'[m] = myContext[u]
    <3>1. u # t /\ ~Cleans(u)
      BY <1>3, <2>4 DEF Cleans
    <3>2. PICK m \in Maps : InList(m) /\ hContext[m] = myContext[u]
      BY <1>0, <2>4, <3>1 DEF Lists
    <3>3. m # n
      BY <1>0, <1>4, <2>4, <3>1, <3>2 DEF Lists
    <3> QED BY <1>5, <1>8, <3>2, <3>3
  <2>5. \A i, j \in DOMAIN contextMapList' :
          contextMapList'[i] = contextMapList'[j] => i = j
    BY <1>0, <1>1 DEF Lists
  <2>6. \A u, v \in Threads :
          myContext'[u] = myContext'[v] /\ myContext'[u] # NoContext => u = v
    BY <1>0, <1>1 DEF Lists
  <2> QED BY <1>1, <2>1, <2>2, <2>3, <2>4, <2>5, <2>6 DEF Lists
<1>11. HandlesOK'
  <2>1. ASSUME NEW u \in Threads, NEW m \in Maps,
               NEW h \in channelMapList[m], h \in myHandles[u]
        PROVE  ListOf(u, m)'
    <3>1. ListOf(u, m) /\ InList(m)
      BY <1>0, <2>1 DEF HandlesOK
    <3>2. CASE u = t
      <4>1. hContext[m] = hContext[n]
        BY <1>1, <1>4, <3>1, <3>2 DEF ListOf
      <4>2. m = n
        BY <1>0, <1>4, <3>1, <4>1 DEF Lists
      <4> QED BY <1>3, <3>2, <4>2 DEF ListOf
    <3>3. CASE u # t
      <4>1. pc[u] # "cleanChannels"
        BY <1>4, <3>3, ClientAlone DEF Cleans
      <4>2. m # n
        BY <1>0, <1>4, <3>1, <3>3, <4>1 DEF Lists, ListOf
      <4> QED BY <1>1, <1>3, <1>5, <3>1, <3>3, <4>1, <4>2 DEF ListOf, Cleans
    <3> QED BY <3>2, <3>3
  <2> QED BY <1>0, <1>1, <1>8, <2>1 DEF HandlesOK
<1>12. Fresh' /\ Agreement'
  <2>1. \A m \in Maps : session'[m] = "open" => session[m] = "open"
    BY <1>5
  <2> QED BY <1>1, <1>2, <2>1, KeepsHandles
<1>20. ASSUME NEW u \in Threads, u # t, pc[u] \in {"receive", "receiveData"}
       PROVE  call[u].map \in Maps /\ call[u].map # n
  <2>1. ~Establishes(u)
    BY <1>4, <1>20, ClientAlone
  <2>2. Owns(u)
    BY <1>20, <2>1 DEF Owns, Exchanges, Establishes
  <2> QED BY <1>4, <1>20, <2>2, OwnersApart, TalkerMap
<1>21. Wires' /\ Tables'
  BY <1>1, <1>2, <1>5, <1>20, SilentStep
<1> QED
  BY <1>6, <1>7, <1>9, <1>10, <1>11, <1>12, <1>21 DEF Inv

\* The handles of the context are forgotten.
LEMMA CleanChannelsStep ==
  ASSUME Inv, NEW t \in Threads, CleanChannels(t)
  PROVE  Inv'
<1> USE ClientLibraryAssumption
<1> DEFINE n == call[t].map
<1>0. Types /\ Mutexes /\ Working(t) /\ Lists /\ HandlesOK
  BY DEF Inv
<1>1. /\ pc[t] = "cleanChannels"
      /\ channelMapList' = [channelMapList EXCEPT ![n] = {}]
      /\ UNCHANGED <<locksVars, contextMapList, hContext, allocated,
                     clientVars, wireVars, call, appVars, serverVars>>
  BY DEF CleanChannels
<1>2. Moves(t, "cleanList", call[t])
  BY <1>0 DEF CleanChannels, Goto, Moves, Types
<1>3. /\ pc'[t] = "cleanList" /\ call'[t] = call[t]
      /\ \A u \in Threads : u # t => pc'[u] = pc[u] /\ call'[u] = call[u]
  BY <1>0, <1>2, MovesFrame
<1>4. /\ HoldsClient(t) /\ Cleans(t) /\ call[t].f = "RELEASE" /\ n \in Maps
      /\ hContext[n] = NoContext /\ n \in allocated
      /\ pc[t] # "cleanChannels" => channelMapList[n] = {}
      /\ pc[t] # "freeContext" <=> InList(n)
  <2>1. /\ HoldsClient(t) /\ Cleans(t) /\ call[t].f = "RELEASE"
    BY <1>0, <1>1, FunctionsAtEach DEF HoldsClient, Cleans, Working
  <2> QED BY <1>0, <2>1 DEF Working, Types
<1>5. /\ \A m \in Maps : m # n => channelMapList'[m] = channelMapList[m]
      /\ channelMapList'[n] = {}
  BY <1>0, <1>1, <1>4 DEF Types
<1>6. Types'
  BY <1>0, <1>1, <1>2 DEF Types, Moves, Steps
<1>7. Mutexes'
  <2>1. /\ HoldsClient(t) /\ HoldsClient(t)'
        /\ ~Seeking(t) /\ ~Seeking(t)'
        /\ ~HoldsStates(t) /\ ~HoldsStates(t)'
        /\ ~Exchanges(t) /\ ~Exchanges(t)'
    BY <1>1, <1>3 DEF HoldsClient, Seeking, HoldsStates, Exchanges
  <2> QED
    BY <1>0, <1>1, <1>2, <2>1, MutexStep
       DEF TakesOrGives, TakesOrGivesContext
<1>8. \A m \in Maps : InList(m)' <=> InList(m)
  BY <1>1 DEF InList
<1>9. \A u \in Threads : Working(u)'
  <2>1. Working(t)'
    <3>1. /\ call'[t].f \in FunctionsAt("cleanList")
          /\ call'[t].f # "ESTABLISH" /\ call'[t].f \notin HandleFunctions
      BY <1>3, <1>4, FunctionsAtEach DEF HandleFunctions
    <3>2. InList(call[t].map)'
      BY <1>1, <1>4 DEF InList
    <3> QED
      BY <1>1, <1>3, <1>4, <1>5, <3>1, <3>2
         DEF Working, Owns, Exchanges, Cleans, Establishes
  <2> QED BY <1>1, <1>2, <1>4, <1>8, <2>1, OthersWorkOn
<1>10. Lists'
  <2>1. \A u \in Threads : Cleans(u)' <=> Cleans(u)
    BY <1>1, <1>3 DEF Cleans
  <2> QED BY <1>0, <1>1, <1>8, <2>1 DEF Lists
<1>11. HandlesOK'
  <2>1. ASSUME NEW u \in Threads, NEW m \in Maps,
               NEW h \in channelMapList'[m], h \in myHandles[u]
        PROVE  ListOf(u, m)'
    <3>1. m # n
      BY <1>5, <2>1
    <3>2. ~(pc[u] = "cleanChannels" /\ call[u].map = m)
      BY <1>4, <3>1, ClientAlone DEF Cleans
    <3>3. ListOf(u, m)
      BY <1>0, <1>5, <2>1, <3>1 DEF HandlesOK
    <3>4. u # t
      BY <1>4, <3>2, <3>3 DEF ListOf
    <3> QED BY <1>1, <1>3, <3>2, <3>3, <3>4 DEF ListOf, Cleans
  <2>2. \A m \in Maps : /\ channelMapList'[m] \subseteq drawn
                        /\ ~InList(m)' => channelMapList'[m] = {}
    BY <1>0, <1>5, <1>8 DEF HandlesOK
  <2> QED BY <1>0, <1>1, <2>1, <2>2 DEF HandlesOK
<1>12. Fresh' /\ Agreement'
  <2>1. \A m \in Maps : channelMapList'[m] \subseteq channelMapList[m]
    BY <1>5
  <2> QED BY <1>1, <1>2, <2>1, KeepsHandles
<1>13. Wires' /\ Tables'
  BY <1>1, <1>2, SilentStep
<1> QED
  BY <1>6, <1>7, <1>9, <1>10, <1>11, <1>12, <1>13 DEF Inv

\* The context is taken out of the list.
LEMMA CleanListStep ==
  ASSUME Inv, NEW t \in Threads, CleanList(t)
  PROVE  Inv'
<1> USE ClientLibraryAssumption
<1> DEFINE n == call[t].map
<1>0. Types /\ Mutexes /\ Working(t) /\ Lists /\ HandlesOK
  BY DEF Inv
<1>1. /\ pc[t] = "cleanList" /\ DeleteFromList(n)
      /\ UNCHANGED <<locksVars, hContext, channelMapList, allocated,
                     clientVars, wireVars, call, appVars, serverVars>>
  BY DEF CleanList
<1>2. Moves(t, "freeContext", call[t])
  BY <1>0 DEF CleanList, Goto, Moves, Types
<1>3. /\ pc'[t] = "freeContext" /\ call'[t] = call[t]
      /\ \A u \in Threads : u # t => pc'[u] = pc[u] /\ call'[u] = call[u]
  BY <1>0, <1>2, MovesFrame
<1>4. /\ HoldsClient(t) /\ Cleans(t) /\ call[t].f = "RELEASE" /\ n \in Maps
      /\ hContext[n] = NoContext /\ n \in allocated
      /\ pc[t] # "cleanChannels" => channelMapList[n] = {}
      /\ pc[t] # "freeContext" <=> InList(n)
  <2>1. /\ HoldsClient(t) /\ Cleans(t) /\ call[t].f = "RELEASE"
    BY <1>0, <1>1, FunctionsAtEach DEF HoldsClient, Cleans, Working
  <2> QED BY <1>0, <2>1 DEF Working, Types
<1>5. PICK i \in DOMAIN contextMapList :
        /\ contextMapList[i] = n
        /\ contextMapList' = [j \in 1 .. Len(contextMapList) - 1 |->
                                contextMapList[IF j < i THEN j ELSE j + 1]]
  BY <1>1 DEF DeleteFromList
<1>6. /\ contextMapList' \in Seq(Maps)
      /\ \A m \in Maps : InList(m)' <=> InList(m) /\ m # n
      /\ \A p, q \in DOMAIN contextMapList' :
           contextMapList'[p] = contextMapList'[q] => p = q
  <2> DEFINE len == Len(contextMapList)
  <2>1. /\ len \in Nat /\ DOMAIN contextMapList = 1 .. len
        /\ \A j \in 1 .. len : contextMapList[j] \in Maps
        /\ i \in 1 .. len
    BY <1>0 DEF Types
  <2>2. \A p, q \in 1 .. len : contextMapList[p] = contextMapList[q] => p = q
    BY <1>0, <2>1 DEF Lists
  <2>3. /\ len - 1 \in Nat
        /\ DOMAIN contextMapList' = 1 .. len - 1
        /\ \A j \in 1 .. len - 1 :
             contextMapList'[j] = contextMapList[IF j < i THEN j ELSE j + 1]
    BY <1>5, <2>1
  <2>4. \A j \in 1 .. len - 1 :
          (IF j < i THEN j ELSE j + 1) \in 1 .. len /\
          (IF j < i THEN j ELSE j + 1) # i
    BY <2>1
  <2>5. contextMapList' \in [1 .. len - 1 -> Maps]
    BY <1>5, <2>1, <2>3, <2>4
  <2>6. contextMapList' \in Seq(Maps)
    BY <2>3, <2>5
  <2>7. \A m \in Maps : InList(m)' => InList(m) /\ m # n
    BY <1>5, <2>1, <2>2, <2>3, <2>4 DEF InList
  <2>8. ASSUME NEW m \in Maps, InList(m), m # n PROVE InList(m)'
    <3>1. PICK p \in 1 .. len : contextMapList[p] = m
      BY <2>1, <2>8 DEF InList
    <3>2. p # i
      BY <1>5, <2>8, <3>1
    <3>3. CASE p < i
      <4>1. p \in 1 .. len - 1 /\ contextMapList'[p] = contextMapList[p]
        BY <2>1, <2>3, <3>3
      <4> QED BY <2>3, <3>1, <4>1 DEF InList
    <3>4. CASE p > i
      <4>1. p - 1 \in 1 .. len - 1 /\ ~(p - 1 < i) /\ (p - 1) + 1 = p
        BY <2>1, <3>4
      <4>2. contextMapList'[p - 1] = contextMapList[p]
        BY <2>3, <4>1
      <4> QED BY <2>3, <3>1, <4>1, <4>2 DEF InList
    <3> QED BY <2>1, <3>2, <3>3, <3>4
  <2>9. \A p, q \in 1 .. len - 1 :
          contextMapList'[p] = contextMapList'[q] => p = q
    BY <2>1, <2>2, <2>3, <2>4
  <2> HIDE DEF len
  <2> QED BY <2>3, <2>6, <2>7, <2>8, <2>9
<1>7. Types'
  BY <1>0, <1>1, <1>2, <1>6 DEF Types, Moves, Steps
<1>8. Mutexes'
  <2>1. /\ HoldsClient(t) /\ HoldsClient(t)'
        /\ ~Seeking(t) /\ ~Seeking(t)'
        /\ ~HoldsStates(t) /\ ~HoldsStates(t)'
        /\ ~Exchanges(t) /\ ~Exchanges(t)'
    BY <1>1, <1>3 DEF HoldsClient, Seeking, HoldsStates, Exchanges
  <2> QED
    BY <1>0, <1>1, <1>2, <2>1, MutexStep
       DEF TakesOrGives, TakesOrGivesContext
<1>9. \A u \in Threads : Working(u)'
  <2>1. Working(t)'
    <3>1. /\ call'[t].f \in FunctionsAt("freeContext")
          /\ call'[t].f # "ESTABLISH" /\ call'[t].f \notin HandleFunctions
      BY <1>3, <1>4, FunctionsAtEach DEF HandleFunctions
    <3>2. ~InList(call[t].map)'
      <4>1. \A m \in Maps : m = n => ~InList(m)'
        BY <1>6
      <4>2. ~\E j \in DOMAIN contextMapList' : contextMapList'[j] = n
        BY <1>4, <4>1 DEF InList
      <4> QED BY <1>1, <4>2 DEF InList
    <3> QED
      BY <1>1, <1>3, <1>4, <3>1, <3>2
         DEF Working, Owns, Exchanges, Cleans, Establishes
  <2> QED BY <1>1, <1>2, <1>4, <1>6, <2>1, OthersWorkOn
<1>10. Lists'
  <2>1. \A u \in Threads : Cleans(u)' <=> Cleans(u)
    BY <1>1, <1>3 DEF Cleans
  <2>2. ASSUME NEW u \in Threads, myContext[u] # NoContext, ~Cleans(u)
        PROVE  \E m \in Maps : InList(m)' /\ hContext[m] = myContext[u]
    <3>1. PICK m \in Maps : InList(m) /\ hContext[m] = myContext[u]
      BY <1>0, <2>2 DEF Lists
    <3> QED BY <1>4, <1>6, <2>2, <3>1
  <2>3. /\ \A m \in Maps : InList(m)' => m \in allocated
        /\ \A m \in Maps : InList(m)' /\ hContext[m] # NoContext =>
             session[m] # "closed"
        /\ \A m, o \in Maps :
             InList(m)' /\ InList(o)' /\ hContext[m] = hContext[o]
               /\ hContext[m] # NoContext => m = o
        /\ \A u, v \in Threads :
             myContext[u] = myContext[v] /\ myContext[u] # NoContext => u = v
    BY <1>0, <1>6 DEF Lists
  <2> QED BY <1>1, <1>6, <2>1, <2>2, <2>3 DEF Lists
<1>11. HandlesOK'
  <2>1. \A m \in Maps : ~InList(m)' => channelMapList[m] = {}
    BY <1>0, <1>1, <1>4, <1>6 DEF HandlesOK
  <2>2. ASSUME NEW u \in Threads, NEW m \in Maps, ListOf(u, m)
        PROVE  ListOf(u, m)'
    BY <1>1, <1>3, <1>4, <2>2 DEF ListOf, Cleans
  <2> QED BY <1>0, <1>1, <2>1, <2>2 DEF HandlesOK
<1>12. Fresh' /\ Agreement'
  BY <1>1, <1>2, KeepsHandles
<1>13. Wires' /\ Tables'
  BY <1>1, <1>2, SilentStep
<1> QED
  BY <1>7, <1>8, <1>9, <1>10, <1>11, <1>12, <1>13 DEF Inv

\* The context is freed and the application has it no more.
LEMMA FreeContextStep ==
  ASSUME Inv, NEW t \in Threads, FreeContext(t)
  PROVE  Inv'
<1> USE ClientLibraryAssumption
<1> DEFINE n == call[t].map
<1>0. Types /\ Mutexes /\ Working(t) /\ Lists /\ HandlesOK
  BY DEF Inv
<1>1. /\ pc[t] = "freeContext" /\ clientMutex' = NoThread
      /\ allocated' = allocated \ {n}
      /\ myContext' = [myContext EXCEPT ![t] = NoContext]
      /\ UNCHANGED <<listLock, readerStatesMutex, mMutex, contextMapList,
                     hContext, channelMapList, clientVars, wireVars,
                     myHandles, serverVars>>
  BY DEF FreeContext, SCardUnlockThread
<1>2. Moves(t, "idle", NoCall)
  BY <1>0 DEF FreeContext, Goto, SetCall, Return, Moves
<1>3. /\ pc'[t] = "idle" /\ call'[t] = NoCall
      /\ \A u \in Threads : u # t => pc'[u] = pc[u] /\ call'[u] = call[u]
  BY <1>0, <1>2, MovesFrame
<1>4. /\ HoldsClient(t) /\ Cleans(t) /\ call[t].f = "RELEASE" /\ n \in Maps
      /\ hContext[n] = NoContext /\ n \in allocated
      /\ pc[t] # "cleanChannels" => channelMapList[n] = {}
      /\ pc[t] # "freeContext" <=> InList(n)
  <2>1. /\ HoldsClient(t) /\ Cleans(t) /\ call[t].f = "RELEASE"
    BY <1>0, <1>1, FunctionsAtEach DEF HoldsClient, Cleans, Working
  <2> QED BY <1>0, <2>1 DEF Working, Types
<1>5. /\ myContext'[t] = NoContext
      /\ \A u \in Threads : u # t => myContext'[u] = myContext[u]
  BY <1>0, <1>1 DEF Types
<1>6. NoCall.f = "NONE" /\ NoCall \in CallRecords
  BY NewCallType DEF NoCall
<1>7. Types'
  BY <1>0, <1>1, <1>2, <1>6 DEF Types, Moves, Steps
<1>8. Mutexes'
  <2>1. /\ HoldsClient(t) /\ ~HoldsClient(t)'
        /\ ~Seeking(t) /\ ~Seeking(t)'
        /\ ~HoldsStates(t) /\ ~HoldsStates(t)'
        /\ ~Exchanges(t) /\ ~Exchanges(t)'
    BY <1>1, <1>3 DEF HoldsClient, Seeking, HoldsStates, Exchanges
  <2> QED
    BY <1>0, <1>1, <1>2, <2>1, MutexStep
       DEF TakesOrGives, TakesOrGivesContext
<1>9. \A m \in Maps : InList(m)' <=> InList(m)
  BY <1>1 DEF InList
<1>10. \A u \in Threads : Working(u)'
  <2>1. Working(t)'
    <3>1. /\ call'[t].f \in FunctionsAt("idle") /\ call'[t].f # "ESTABLISH"
          /\ call'[t].f \notin HandleFunctions
      BY <1>3, <1>6, FunctionsAtEach DEF HandleFunctions
    <3> QED
      BY <1>3, <3>1 DEF Working, Owns, Exchanges, Cleans, Establishes
  <2> QED BY <1>1, <1>2, <1>4, <1>5, <1>9, <2>1, OthersWorkOn
<1>11. Lists'
  <2>1. \A u \in Threads : u # t => (Cleans(u)' <=> Cleans(u))
    BY <1>1, <1>3 DEF Cleans
  <2>2. ASSUME NEW u \in Threads, myContext'[u] # NoContext, ~Cleans(u)'
        PROVE  \E m \in Maps : InList(m) /\ hContext[m] = myContext'[u]
    BY <1>0, <1>5, <2>1, <2>2 DEF Lists
  <2>3. \A m \in Maps : InList(m) => m \in allocated'
    BY <1>0, <1>1, <1>4 DEF Lists
  <2>4. \A u, v \in Threads :
          myContext'[u] = myContext'[v] /\ myContext'[u] # NoContext => u = v
    BY <1>0, <1>5 DEF Lists
  <2> QED BY <1>0, <1>1, <1>9, <2>2, <2>3, <2>4 DEF Lists
<1>12. HandlesOK'
  <2>1. ASSUME NEW u \in Threads, NEW m \in Maps, ListOf(u, m)
        PROVE  ListOf(u, m)'
    <3>1. u # t
      BY <1>1, <1>4, <2>1 DEF ListOf
    <3> QED BY <1>1, <1>3, <1>5, <2>1, <3>1 DEF ListOf, Cleans
  <2> QED BY <1>0, <1>1, <1>9, <2>1 DEF HandlesOK
<1>13. Fresh' /\ Agreement'
  BY <1>1, <1>2, KeepsHandles
<1>14. Wires' /\ Tables'
  BY <1>1, <1>2, SilentStep
<1> QED
  BY <1>7, <1>8, <1>10, <1>11, <1>12, <1>13, <1>14 DEF Inv

\* A step that changes the handles of the context of the thread alone does not
\* disturb what the others have in hand.
LEMMA OthersKeepTheirs ==
  ASSUME Inv, NEW t \in Threads, NEW step, NEW k, Moves(t, step, k), Owns(t),
         UNCHANGED <<contextMapList, hContext, allocated, session, myContext>>,
         \A u \in Threads : u # t => myHandles'[u] = myHandles[u],
         \A m \in Maps : m # call[t].map => channelMapList'[m] = channelMapList[m]
  PROVE  \A u \in Threads : u # t => Working(u)'
<1> SUFFICES ASSUME NEW u \in Threads, u # t PROVE Working(u)'
  OBVIOUS
<1>1. pc'[u] = pc[u] /\ call'[u] = call[u]
  BY MovesFrame DEF Inv
<1>2. /\ Owns(u)' <=> Owns(u)
      /\ Cleans(u)' <=> Cleans(u)
      /\ Establishes(u)' <=> Establishes(u)
      /\ \A m \in Maps : InList(m)' <=> InList(m)
      /\ InList(call[u].map)' <=> InList(call[u].map)
  BY <1>1 DEF Owns, Exchanges, Cleans, Establishes, InList
<1>3. Working(u) /\ Types
  BY DEF Inv
<1>4. Cleans(u) => channelMapList'[call[u].map] = channelMapList[call[u].map]
  <2>1. Cleans(u) => call[u].map \in Maps
    BY <1>3 DEF Working, Types
  <2>2. Cleans(u) => call[u].map # call[t].map
    BY OwnersApart
  <2> QED BY <2>1, <2>2
<1> QED BY <1>1, <1>2, <1>3, <1>4 DEF Working

\* SCardAddHandle(): the handle is added to the context, or there is no memory
\* for it.
LEMMA SCardAddHandleStep ==
  ASSUME Inv, NEW t \in Threads, SCardAddHandle(t)
  PROVE  Inv'
<1> USE ClientLibraryAssumption
<1> DEFINE n == call[t].map
           g == call[t].hCard
<1>0. Types /\ Mutexes /\ Working(t) /\ Lists /\ HandlesOK /\ Fresh
  BY DEF Inv
<1>1. /\ pc[t] = "addHandle"
      /\ UNCHANGED <<locksVars, contextMapList, hContext, allocated,
                     clientVars, wireVars, call, myContext, serverVars>>
  BY DEF SCardAddHandle, Finish
<1>2. call[t].f = "CONNECT" /\ g \in Handles
  BY <1>0, <1>1, FunctionsAtEach DEF Working
<1>3. Moves(t, "unlock", call[t])
  BY <1>0, <1>2 DEF SCardAddHandle, Finish, Goto, Moves, Types
<1>4. /\ pc'[t] = "unlock"
      /\ \A u \in Threads : u # t => pc'[u] = pc[u]
  BY <1>0, <1>3, MovesFrame
<1>5. /\ Owns(t) /\ n \in Maps /\ InList(n) /\ hContext[n] = myContext[t]
      /\ myContext[t] # NoContext /\ n \in allocated
  <2>1. Owns(t)
    BY <1>1 DEF Owns, Exchanges
  <2>2. n \in Maps
    BY <2>1, TalkerMap
  <2> QED BY <1>0, <2>1, <2>2 DEF Working, Lists
<1>6. Adds(t, g)
  BY <1>1, <1>2 DEF Adds
<1>7. /\ g \in drawn
      /\ \A u \in Threads : g \notin myHandles[u]
      /\ \A m \in Maps : g \notin channelMapList[m]
      /\ \A u \in Threads : Adds(u, g) => u = t
      /\ session[n] = "open" /\ serverContext[n] # NoContext
           => g \in serverHandles[n]
  BY <1>0, <1>2, <1>6 DEF Fresh
<1>8. PICK S \in {{}, {g}} :
        /\ channelMapList' = [channelMapList EXCEPT ![n] = @ \cup S]
        /\ myHandles' = [myHandles EXCEPT ![t] = @ \cup S]
  <2>1. CASE UNCHANGED <<channelMapList, myHandles>>
    <3>1. /\ channelMapList' = [channelMapList EXCEPT ![n] = @ \cup {}]
          /\ myHandles' = [myHandles EXCEPT ![t] = @ \cup {}]
      BY <1>0, <2>1 DEF Types
    <3> QED BY <3>1
  <2>2. CASE ~UNCHANGED <<channelMapList, myHandles>>
    BY <2>2 DEF SCardAddHandle
  <2> QED BY <2>1, <2>2
<1>9. /\ channelMapList'[n] = channelMapList[n] \cup S
      /\ \A m \in Maps : m # n => channelMapList'[m] = channelMapList[m]
      /\ myHandles'[t] = myHandles[t] \cup S
      /\ \A u \in Threads : u # t => myHandles'[u] = myHandles[u]
      /\ \A h \in S : h = g
  BY <1>0, <1>5, <1>8 DEF Types
<1>10. Types'
  <2>1. /\ channelMapList' \in [Maps -> SUBSET Handles]
        /\ myHandles' \in [Threads -> SUBSET Handles]
    BY <1>0, <1>2, <1>8 DEF Types
  <2> QED BY <1>0, <1>1, <1>3, <2>1 DEF Types, Moves, Steps
<1>11. Mutexes'
  <2>1. /\ ~HoldsClient(t) /\ ~HoldsClient(t)'
        /\ ~Seeking(t) /\ ~Seeking(t)'
        /\ ~HoldsStates(t) /\ ~HoldsStates(t)'
        /\ Exchanges(t) /\ Exchanges(t)'
    BY <1>1, <1>2, <1>4
       DEF HoldsClient, Seeking, HoldsStates, Exchanges, UsesReaderStates
  <2> QED
    BY <1>0, <1>1, <1>3, <1>5, <2>1, MutexStep
       DEF TakesOrGives, TakesOrGivesContext
<1>12. \A u \in Threads : Working(u)'
  <2>1. Working(t)'
    BY <1>1, <1>2, <1>3, FinishWorks
  <2> QED BY <1>1, <1>3, <1>5, <1>9, <2>1, OthersKeepTheirs
<1>13. Lists'
  <2>1. \A u \in Threads : Cleans(u)' <=> Cleans(u)
    BY <1>1, <1>4 DEF Cleans
  <2>2. \A m \in Maps : InList(m)' <=> InList(m)
    BY <1>1 DEF InList
  <2> QED BY <1>0, <1>1, <2>1, <2>2 DEF Lists
<1>14. HandlesOK'
  <2>1. \A u \in Threads : myHandles'[u] \subseteq drawn
    BY <1>0, <1>5, <1>7, <1>9 DEF HandlesOK
  <2>2. \A m \in Maps : InList(m)' <=> InList(m)
    BY <1>1 DEF InList
  <2>3. \A m \in Maps : /\ channelMapList'[m] \subseteq drawn
                        /\ ~InList(m)' => channelMapList'[m] = {}
    BY <1>0, <1>5, <1>7, <1>9, <2>2 DEF HandlesOK
  <2>4. ASSUME NEW u \in Threads, NEW m \in Maps, ListOf(u, m)
        PROVE  ListOf(u, m)'
    BY <1>1, <1>4, <2>4 DEF ListOf, Cleans
  <2>5. ASSUME NEW u \in Threads, NEW m \in Maps,
               NEW h \in channelMapList'[m], h \in myHandles'[u]
        PROVE  ListOf(u, m)
    <3>1. CASE h = g
      <4>1. u = t /\ m = n
        BY <1>7, <1>9, <2>5, <3>1
      <4> QED BY <1>1, <1>5, <4>1 DEF ListOf, Cleans
    <3>2. CASE h # g
      <4>1. h \in channelMapList[m] /\ h \in myHandles[u]
        BY <1>9, <2>5, <3>2
      <4> QED BY <1>0, <4>1 DEF HandlesOK
    <3> QED BY <3>1, <3>2
  <2> QED BY <1>1, <2>1, <2>3, <2>4, <2>5 DEF HandlesOK
<1>15. Fresh'
  <2>1. \A u \in Threads, h \in Handles : Adds(u, h)' => u # t /\ Adds(u, h)
    BY <1>1, <1>4 DEF Adds, FirstAnswer
  <2>2. SUFFICES ASSUME NEW u \in Threads, NEW h \in Handles, Adds(u, h)'
                 PROVE  /\ h \in drawn
                        /\ \A v \in Threads : h \notin myHandles'[v]
                        /\ \A m \in Maps : h \notin channelMapList'[m]
                        /\ \A v \in Threads : Adds(v, h)' => v = u
                        /\ session[call[u].map] = "open"
                             /\ serverContext[call[u].map] # NoContext
                             => h \in serverHandles[call[u].map]
    BY <1>1 DEF Fresh
  <2>3. u # t /\ Adds(u, h) /\ h # g
    BY <1>7, <2>1, <2>2
  <2>4. /\ h \in drawn
        /\ \A v \in Threads : h \notin myHandles[v]
        /\ \A m \in Maps : h \notin channelMapList[m]
        /\ \A v \in Threads : Adds(v, h) => v = u
        /\ session[call[u].map] = "open"
             /\ serverContext[call[u].map] # NoContext
             => h \in serverHandles[call[u].map]
    BY <1>0, <2>3 DEF Fresh
  <2> QED BY <1>9, <2>1, <2>3, <2>4
<1>16. Agreement'
  <2>1. ASSUME NEW u \in Threads, NEW m \in Maps, NEW h \in Handles,
               Removes(u, m, h)
        PROVE  Removes(u, m, h)'
    <3>1. u # t
      BY <1>1, <2>1 DEF Removes
    <3> QED BY <1>1, <1>4, <2>1, <3>1 DEF Removes, FirstAnswer
  <2>2. SUFFICES ASSUME NEW m \in Maps, NEW h \in channelMapList'[m],
                        session[m] = "open", serverContext[m] # NoContext
                 PROVE  h \in serverHandles[m] \/ \E u \in Threads : Removes(u, m, h)'
    BY <1>1 DEF Agreement
  <2>3. CASE h \in channelMapList[m]
    <3>1. h \in Handles
      BY <1>0, <2>3 DEF Types
    <3> QED BY <2>1, <2>2, <2>3, <3>1 DEF Inv, Agreement
  <2>4. CASE h \notin channelMapList[m]
    BY <1>7, <1>9, <2>2, <2>4
  <2> QED BY <2>3, <2>4
<1>17. Wires' /\ Tables'
  BY <1>1, <1>3, SilentStep
<1> QED
  BY <1>10, <1>11, <1>12, <1>13, <1>14, <1>15, <1>16, <1>17 DEF Inv

\* SCardRemoveHandle(): the handle is taken out of the context.
LEMMA SCardRemoveHandleStep ==
  ASSUME Inv, NEW t \in Threads, SCardRemoveHandle(t)
  PROVE  Inv'
<1> USE ClientLibraryAssumption
<1> DEFINE n == call[t].map
           g == call[t].hCard
<1>0. Types /\ Mutexes /\ Working(t) /\ Lists /\ HandlesOK /\ Fresh
  BY DEF Inv
<1>1. /\ pc[t] = "deleteHandle"
      /\ channelMapList' = [channelMapList EXCEPT ![n] = @ \ {g}]
      /\ UNCHANGED <<locksVars, contextMapList, hContext, allocated,
                     clientVars, wireVars, call, appVars, serverVars>>
  BY DEF SCardRemoveHandle, Finish, DeleteHandle
<1>2. call[t].f = "DISCONNECT"
  BY <1>0, <1>1, FunctionsAtEach DEF Working
<1>3. Moves(t, "unlock", call[t])
  BY <1>0, <1>2 DEF SCardRemoveHandle, Finish, Goto, Moves, Types
<1>4. /\ pc'[t] = "unlock"
      /\ \A u \in Threads : u # t => pc'[u] = pc[u]
  BY <1>0, <1>3, MovesFrame
<1>5. Owns(t) /\ n \in Maps
  <2>1. Owns(t)
    BY <1>1 DEF Owns, Exchanges
  <2> QED BY <2>1, TalkerMap
<1>6. /\ channelMapList'[n] = channelMapList[n] \ {g}
      /\ \A m \in Maps : m # n => channelMapList'[m] = channelMapList[m]
  BY <1>0, <1>1, <1>5 DEF Types
<1>7. \A m \in Maps : channelMapList'[m] \subseteq channelMapList[m]
  BY <1>6
<1>8. Types'
  <2>1. channelMapList' \in [Maps -> SUBSET Handles]
    BY <1>0, <1>1 DEF Types
  <2> QED BY <1>0, <1>1, <1>3, <2>1 DEF Types, Moves, Steps
<1>9. Mutexes'
  <2>1. /\ ~HoldsClient(t) /\ ~HoldsClient(t)'
        /\ ~Seeking(t) /\ ~Seeking(t)'
        /\ ~HoldsStates(t) /\ ~HoldsStates(t)'
        /\ Exchanges(t) /\ Exchanges(t)'
    BY <1>1, <1>2, <1>4
       DEF HoldsClient, Seeking, HoldsStates, Exchanges, UsesReaderStates
  <2> QED
    BY <1>0, <1>1, <1>3, <1>5, <2>1, MutexStep
       DEF TakesOrGives, TakesOrGivesContext
<1>10. \A u \in Threads : Working(u)'
  <2>1. Working(t)'
    BY <1>1, <1>2, <1>3, FinishWorks
  <2> QED BY <1>1, <1>3, <1>5, <1>6, <2>1, OthersKeepTheirs
<1>11. Lists'
  <2>1. \A u \in Threads : Cleans(u)' <=> Cleans(u)
    BY <1>1, <1>4 DEF Cleans
  <2>2. \A m \in Maps : InList(m)' <=> InList(m)
    BY <1>1 DEF InList
  <2> QED BY <1>0, <1>1, <2>1, <2>2 DEF Lists
<1>12. HandlesOK'
  <2>1. \A m \in Maps : InList(m)' <=> InList(m)
    BY <1>1 DEF InList
  <2>2. \A m \in Maps : /\ channelMapList'[m] \subseteq drawn
                        /\ ~InList(m)' => channelMapList'[m] = {}
    BY <1>0, <1>7, <2>1 DEF HandlesOK
  <2>3. ASSUME NEW u \in Threads, NEW m \in Maps, ListOf(u, m)
        PROVE  ListOf(u, m)'
    BY <1>1, <1>4, <2>3 DEF ListOf, Cleans
  <2>4. ASSUME NEW u \in Threads, NEW m \in Maps,
               NEW h \in channelMapList'[m], h \in myHandles[u]
        PROVE  ListOf(u, m)
    <3>1. h \in channelMapList[m]
      BY <1>7, <2>4
    <3> QED BY <1>0, <2>4, <3>1 DEF HandlesOK
  <2> QED BY <1>0, <1>1, <2>2, <2>3, <2>4 DEF HandlesOK
<1>13. Fresh'
  <2>1. \A u \in Threads, h \in Handles : Adds(u, h)' => Adds(u, h)
    BY <1>1, <1>4 DEF Adds, FirstAnswer
  <2> QED BY <1>0, <1>1, <1>7, <2>1 DEF Fresh
<1>14. Agreement'
  <2>1. ASSUME NEW u \in Threads, NEW m \in Maps, NEW h \in channelMapList'[m],
               Removes(u, m, h)
        PROVE  Removes(u, m, h)'
    <3>1. u # t
      BY <1>6, <2>1 DEF Removes
    <3> QED BY <1>1, <1>4, <2>1, <3>1 DEF Removes, FirstAnswer
  <2>2. SUFFICES ASSUME NEW m \in Maps, NEW h \in channelMapList'[m],
                        session[m] = "open", serverContext[m] # NoContext
                 PROVE  h \in serverHandles[m] \/ \E u \in Threads : Removes(u, m, h)'
    BY <1>1 DEF Agreement
  <2>3. h \in serverHandles[m] \/ \E u \in Threads : Removes(u, m, h)
    BY <1>7, <2>2 DEF Inv, Agreement
  <2> QED BY <2>1, <2>3
<1>15. Wires' /\ Tables'
  BY <1>1, <1>3, SilentStep
<1> QED
  BY <1>8, <1>9, <1>10, <1>11, <1>12, <1>13, <1>14, <1>15 DEF Inv

\* SCardEstablishContext() opens a socket that nobody uses.
LEMMA SCardEstablishContextStep ==
  ASSUME Inv, NEW t \in Threads, SCardEstablishContext(t)
  PROVE  Inv'
<1> USE ClientLibraryAssumption
<1>0. Types /\ Mutexes /\ Working(t) /\ Lists /\ HandlesOK
  BY DEF Inv
<1>1. /\ pc[t] = "idle" /\ myContext[t] = NoContext /\ daemon.running
      /\ clientMutex = NoThread /\ clientMutex' = t
      /\ UNCHANGED <<listLock, readerStatesMutex, mMutex, mapVars, clientVars,
                     appVars, serverVars>>
  BY DEF SCardEstablishContext, SCardLockThread
<1>2. PICK n \in Maps :
        /\ Unused(n) /\ ClientSetupSession(n)
        /\ SetCall(t, [Call("ESTABLISH", NoContext, NoHandle) EXCEPT
                         !.map = n, !.todo = RequestsOf("ESTABLISH")])
  BY DEF SCardEstablishContext
<1> DEFINE k == [Call("ESTABLISH", NoContext, NoHandle) EXCEPT
                   !.map = n, !.todo = RequestsOf("ESTABLISH")]
<1>3. Moves(t, "send", k)
  BY <1>2 DEF SCardEstablishContext, Goto, SetCall, Moves
<1>4. /\ k \in CallRecords /\ k.f = "ESTABLISH" /\ k.map = n
      /\ k.todo = RequestsOf("ESTABLISH")
  <2>1. RequestsOf("ESTABLISH") \in Seq(Commands)
    BY FirstRequests
  <2>2. Call("ESTABLISH", NoContext, NoHandle) \in CallRecords
    BY NewCallType DEF AllFunctions
  <2> QED BY <2>1, <2>2 DEF CallRecords, Call
<1> HIDE DEF k
<1>5. /\ pc'[t] = "send" /\ call'[t] = k
      /\ \A u \in Threads : u # t => pc'[u] = pc[u] /\ call'[u] = call[u]
  BY <1>0, <1>3, MovesFrame
<1>6. session[n] = "closed" /\ n \notin allocated
  BY <1>2 DEF Unused
<1>7. \A u \in Threads : pc[u] \in {"send", "receive", "receiveData"} \/ Owns(u)
        => call[u].map # n /\ call[u].map \in Maps
  BY <1>6, TalkerMap
<1>8. requests[n] = <<>> /\ replies[n] = <<>>
  <2>1. \A u \in Threads : ~Talks(u, n)
    BY <1>7 DEF Talks
  <2> QED BY <2>1 DEF Inv, Wires
<1>9. UNCHANGED <<requests, replies>>
  BY <1>0, <1>2, <1>8 DEF ClientSetupSession, Types
<1>10. /\ session' = [session EXCEPT ![n] = "open"]
       /\ session'[n] = "open"
       /\ \A m \in Maps : m # n => session'[m] = session[m]
  BY <1>0, <1>2 DEF ClientSetupSession, Types
<1>11. Types'
  BY <1>0, <1>1, <1>3, <1>4, <1>9, <1>10 DEF Types, Moves, Steps
<1>12. Mutexes'
  <2>1. /\ ~HoldsClient(t) /\ HoldsClient(t)'
        /\ ~Seeking(t) /\ ~Seeking(t)'
        /\ ~HoldsStates(t) /\ ~HoldsStates(t)'
        /\ ~Exchanges(t) /\ ~Exchanges(t)'
    BY <1>1, <1>4, <1>5
       DEF HoldsClient, Seeking, HoldsStates, Exchanges, UsesReaderStates
  <2> QED
    BY <1>0, <1>1, <1>3, <2>1, MutexStep
       DEF TakesOrGives, TakesOrGivesContext
<1>13. \A u \in Threads : Working(u)'
  <2>1. Working(t)'
    <3>1. /\ call'[t].f \in FunctionsAt("send") /\ call'[t].f = "ESTABLISH"
          /\ call'[t].f \notin HandleFunctions
          /\ call'[t].todo \in Todos(call'[t].f)
      BY <1>4, <1>5, FunctionsAtEach, FirstRequests
         DEF HandleFunctions, AllFunctions
    <3> QED
      BY <1>1, <1>4, <1>5, <1>6, <1>10, <3>1
         DEF Working, Owns, Exchanges, Cleans, Establishes
  <2>2. \A m \in Maps : session'[m] = "closed" => session[m] = "closed"
    BY <1>10
  <2> QED BY <1>1, <1>3, <2>1, <2>2, OthersWork
<1>14. Lists'
  <2>1. \A u \in Threads : Cleans(u)' <=> Cleans(u)
    BY <1>1, <1>5 DEF Cleans
  <2>2. \A m \in Maps : InList(m)' <=> InList(m)
    BY <1>1 DEF InList
  <2>3. \A m \in Maps : InList(m) => m # n
    BY <1>0, <1>6 DEF Lists
  <2> QED BY <1>0, <1>1, <1>10, <2>1, <2>2, <2>3 DEF Lists
<1>15. HandlesOK'
  BY <1>0, <1>1, <1>5, KeepsLists DEF Cleans
<1>16. Fresh'
  <2>1. \A u \in Threads, h \in Handles : Adds(u, h)' => u # t /\ Adds(u, h)
    BY <1>5, <1>9 DEF Adds, FirstAnswer
  <2>2. \A u \in Threads, h \in Handles : Adds(u, h) =>
          session'[call[u].map] = session[call[u].map]
    <3>1. \A u \in Threads, h \in Handles : Adds(u, h) => Owns(u)
      BY DEF Adds, Owns, Exchanges
    <3> QED BY <1>7, <1>10, <3>1
  <2> QED BY <1>1, <1>5, <2>1, <2>2 DEF Inv, Fresh
<1>17. Agreement'
  <2>1. ASSUME NEW u \in Threads, NEW m \in Maps, NEW h \in Handles,
               Removes(u, m, h)
        PROVE  Removes(u, m, h)'
    <3>1. u # t
      BY <1>1, <2>1 DEF Removes
    <3> QED BY <1>5, <1>9, <2>1, <3>1 DEF Removes, FirstAnswer
  <2>2. channelMapList[n] = {}
    BY <1>0, <1>6 DEF HandlesOK, Lists
  <2> QED BY <1>0, <1>1, <1>10, <2>1, <2>2 DEF Inv, Agreement, Types
<1>18. Wires'
  <2>1. ASSUME NEW u \in Threads, pc'[u] = "receive" PROVE Awaits(u)'
    <3>1. u # t /\ pc[u] = "receive" /\ Awaits(u)
      BY <1>5, <2>1 DEF Inv, Wires
    <3>2. call'[u] = call[u] /\ session'[call[u].map] = session[call[u].map]
      BY <1>5, <1>7, <1>10, <3>1
    <3>3. \A c, a : AnswerOK(u, c, a)' <=> AnswerOK(u, c, a)
      BY <1>1, <3>2 DEF AnswerOK
    <3> QED
      BY <1>9, <3>1, <3>2, <3>3 DEF Awaits, FirstAnswer, Request, Argument
  <2>2. ASSUME NEW u \in Threads, pc'[u] = "receiveData" PROVE AwaitsData(u)'
    BY <1>5, <1>9, <2>2 DEF Inv, Wires, AwaitsData
  <2>3. ASSUME NEW m \in Maps, \A u \in Threads : ~Talks(u, m)'
        PROVE  requests[m] = <<>> /\ replies[m] = <<>>
    <3>1. \A u \in Threads : ~Talks(u, m)
      BY <1>1, <1>5, <2>3 DEF Talks
    <3> QED BY <3>1 DEF Inv, Wires
  <2>4. \A m \in Maps : session'[m] = "open" => daemon.running
    BY <1>1
  <2> QED BY <1>1, <1>9, <2>1, <2>2, <2>3, <2>4 DEF Wires
<1>19. Tables'
  <2> SUFFICES ASSUME NEW u \in Threads, pc'[u] \in {"send", "receive"}
               PROVE  /\ call'[u].todo # <<>>
                           /\ Head(call'[u].todo) = "ARRAY"
                           /\ session'[call'[u].map] = "open" =>
                           daemon.table = maxReaderContext
                      /\ pc'[u] = "receive" /\ Head(call'[u].todo) = "STATE" =>
                           maxReaderContext = FixedTable
    BY <1>1 DEF Tables
  <2>1. CASE u = t
    <3>1. k.todo # <<>> => Head(k.todo) # "ARRAY"
      BY <1>4, FirstRequests
    <3> QED BY <1>5, <2>1, <3>1
  <2>2. CASE u # t
    <3>1. session'[call[u].map] = session[call[u].map]
      BY <1>5, <1>7, <1>10, <2>2
    <3> QED BY <1>5, <2>2, <3>1 DEF Inv, Tables
  <2> QED BY <2>1, <2>2
<1> QED
  BY <1>11, <1>12, <1>13, <1>14, <1>15, <1>16, <1>17, <1>18, <1>19 DEF Inv

-----------------------------------------------------------------------------
\* Steps of the daemon

\* What the daemon does leaves alone what the library has.
LEMMA DaemonFrame ==
  ASSUME Inv, UNCHANGED <<locksVars, mapVars, clientVars, pc, call, appVars>>,
         \A m \in Maps : session'[m] = "closed" <=> session[m] = "closed",
         drawn \subseteq drawn'
  PROVE  /\ Mutexes' /\ (\A t \in Threads : Working(t)') /\ Lists' /\ HandlesOK'
         /\ \A m \in Maps : InList(m)' <=> InList(m)
<1>1. /\ \A t \in Threads : /\ HoldsClient(t)' <=> HoldsClient(t)
                            /\ Seeking(t)' <=> Seeking(t)
                            /\ HoldsStates(t)' <=> HoldsStates(t)
                            /\ Exchanges(t)' <=> Exchanges(t)
                            /\ Owns(t)' <=> Owns(t)
                            /\ Cleans(t)' <=> Cleans(t)
                            /\ Establishes(t)' <=> Establishes(t)
                            /\ InList(call[t].map)' <=> InList(call[t].map)
      /\ \A m \in Maps : InList(m)' <=> InList(m)
  BY DEF HoldsClient, Seeking, HoldsStates, Exchanges, Owns, Cleans,
         Establishes, InList
<1>2. Mutexes'
  BY <1>1 DEF Inv, Mutexes
<1>3. ASSUME NEW t \in Threads PROVE Working(t)'
  <2>1. Working(t)
    BY DEF Inv
  <2>2. Establishes(t) => session'[call[t].map] # "closed"
    BY <2>1 DEF Working
  <2> QED BY <1>1, <2>1, <2>2 DEF Working
<1>4. Lists'
  BY <1>1 DEF Inv, Lists
<1>5. HandlesOK'
  BY <1>1, KeepsLists DEF Inv
<1> QED BY <1>1, <1>2, <1>3, <1>4, <1>5

\* A request the daemon reads is the one of the thread that waits for the
\* answer.
LEMMA ServerTalker ==
  ASSUME Inv, NEW m \in Maps, NEW cmds, ServerReceives(m, cmds)
  PROVE  \E t \in Threads :
           /\ pc[t] = "receive" /\ call[t].map = m /\ session[m] = "open"
           /\ call[t].todo # <<>> /\ call[t].todo \in Todos(call[t].f)
           /\ call[t].f \in AllFunctions \ {"CANCEL", "IS_VALID"}
           /\ requests[m] = <<Request(t, Head(call[t].todo))>>
           /\ replies[m] = <<>>
           /\ Head(call[t].todo) \in cmds
           /\ FirstRequest(m) = Request(t, Head(call[t].todo))
<1>1. session[m] = "open" /\ requests[m] # <<>> /\ FirstRequest(m).cmd \in cmds
  BY DEF ServerReceives
<1>2. PICK t \in Threads : Talks(t, m)
  BY <1>1 DEF Inv, Wires
<1>3. pc[t] = "receive"
  BY <1>1, <1>2 DEF Inv, Wires, Talks, AwaitsData
<1>4. Awaits(t) /\ Working(t) /\ call[t].map = m
  BY <1>2, <1>3 DEF Inv, Wires, Talks
<1>5. requests[m] = <<Request(t, Head(call[t].todo))>> /\ replies[m] = <<>>
  BY <1>1, <1>4 DEF Awaits
<1>6. FirstRequest(m) = Request(t, Head(call[t].todo))
  BY <1>5 DEF FirstRequest
<1>7. Head(call[t].todo) \in cmds
  BY <1>1, <1>6 DEF Request
<1>8. /\ call[t].todo # <<>> /\ call[t].todo \in Todos(call[t].f)
      /\ call[t].f \in AllFunctions \ {"CANCEL", "IS_VALID"}
  BY <1>3, <1>4, FunctionsAtEach DEF Working
<1> QED BY <1>1, <1>3, <1>4, <1>5, <1>6, <1>7, <1>8

\* The daemon answers the request of thread t.
LEMMA ServeStep ==
  ASSUME Inv, NEW t \in Threads, NEW m \in Maps, NEW cmd, NEW a, NEW msgs,
         pc[t] = "receive", call[t].map = m, session[m] = "open",
         Head(call[t].todo) = cmd,
         requests[m] = <<Request(t, cmd)>>, replies[m] = <<>>,
         Reply(m, msgs), msgs = <<a>> \o DataOf(cmd, a.rv),
         AnswerOK(t, cmd, a),
         UNCHANGED <<locksVars, mapVars, clientVars, pc, call, appVars,
                     session, daemon>>,
         serverContext' \in [Maps -> Contexts \cup {NoContext}],
         serverHandles' \in [Maps -> SUBSET Handles],
         drawn \subseteq drawn', drawn' \subseteq Handles,
         requests'[m] = <<>> /\ replies'[m] # <<>> /\ Head(replies'[m]) = a
           => Fresh' /\ Agreement'
  PROVE  Inv'
<1>0. Types
  BY DEF Inv
<1>1. /\ requests' = [requests EXCEPT ![m] = Tail(@)]
      /\ replies' = [replies EXCEPT ![m] = @ \o msgs]
  BY DEF Reply
<1>2. /\ msgs # <<>> /\ Head(msgs) = a /\ Tail(msgs) = DataOf(cmd, a.rv)
      /\ <<>> \o msgs = msgs
  <2> DEFINE d == Answer("DATA", a.rv, 0, 1)
             S == {a, d}
  <2>1. DataOf(cmd, a.rv) = <<d>> \/ DataOf(cmd, a.rv) = <<>>
    BY DEF DataOf
  <2> HIDE DEF d
  <2>2. <<a>> \in Seq(S) /\ <<d>> \in Seq(S) /\ <<>> \in Seq(S)
    OBVIOUS
  <2>3. DataOf(cmd, a.rv) \in Seq(S)
    BY <2>1, <2>2
  <2> HIDE DEF S
  <2> QED BY <2>2, <2>3
<1>3. /\ requests'[m] = <<>> /\ replies'[m] = msgs
      /\ \A n \in Maps : n # m => /\ requests'[n] = requests[n]
                                  /\ replies'[n] = replies[n]
  <2>1. Tail(<<Request(t, cmd)>>) = <<>>
    OBVIOUS
  <2> QED BY <1>0, <1>1, <1>2, <2>1 DEF Types
<1>4. Fresh' /\ Agreement'
  BY <1>2, <1>3
<1>5. /\ Mutexes' /\ (\A u \in Threads : Working(u)') /\ Lists' /\ HandlesOK'
  BY DaemonFrame
<1>6. Types'
  BY <1>0, <1>1 DEF Types
<1>7. Tables'
  BY DEF Inv, Tables
<1>8. Wires'
  <2>1. ASSUME NEW u \in Threads, u # t, pc[u] \in {"receive", "receiveData"}
        PROVE  call[u].map # m /\ call[u].map \in Maps
    <3>1. Talks(t, m)
      BY DEF Talks
    <3>2. call[u].map # m
      BY <2>1, <3>1, TalksAlone DEF Talks
    <3> QED BY <2>1, <3>2, TalkerMap
  <2>2. ASSUME NEW u \in Threads, pc[u] = "receive" PROVE Awaits(u)'
    <3>1. \A c, b : AnswerOK(u, c, b)' <=> AnswerOK(u, c, b)
      BY DEF AnswerOK
    <3>2. CASE u = t
      BY <1>2, <1>3, <3>1, <3>2 DEF Awaits, FirstAnswer
    <3>3. CASE u # t
      <4>1. /\ requests'[call[u].map] = requests[call[u].map]
            /\ replies'[call[u].map] = replies[call[u].map]
        BY <1>3, <2>1, <2>2, <3>3
      <4>2. Awaits(u)
        BY <2>2 DEF Inv, Wires
      <4> QED
        BY <3>1, <4>1, <4>2 DEF Awaits, FirstAnswer, Request, Argument
    <3> QED BY <3>2, <3>3
  <2>3. ASSUME NEW u \in Threads, pc[u] = "receiveData" PROVE AwaitsData(u)'
    <3>1. AwaitsData(u) /\ u # t
      BY <2>3 DEF Inv, Wires
    <3> QED BY <1>3, <2>1, <2>3, <3>1 DEF AwaitsData
  <2>4. ASSUME NEW n \in Maps, \A u \in Threads : ~Talks(u, n)'
        PROVE  requests'[n] = <<>> /\ replies'[n] = <<>>
    <3>1. \A u \in Threads : ~Talks(u, n)
      BY <2>4 DEF Talks
    <3>2. n # m
      BY <3>1 DEF Talks
    <3> QED BY <1>3, <3>1, <3>2 DEF Inv, Wires
  <2>5. \A n \in Maps : session[n] = "open" => daemon.running
    BY DEF Inv, Wires
  <2> QED BY <2>2, <2>3, <2>4, <2>5 DEF Wires
<1> QED BY <1>4, <1>5, <1>6, <1>7, <1>8 DEF Inv

\* An answer that gives no handle and takes none away.
LEMMA ServeKeeps ==
  ASSUME Inv, NEW t \in Threads, NEW m \in Maps, NEW cmd, NEW a,
         pc[t] = "receive", call[t].map = m, Head(call[t].todo) = cmd,
         call[t].todo # <<>>, call[t].todo \in Todos(call[t].f),
         replies[m] = <<>>, replies'[m] # <<>>, Head(replies'[m]) = a,
         \A n \in Maps : n # m => replies'[n] = replies[n],
         UNCHANGED <<locksVars, mapVars, clientVars, pc, call, appVars,
                     session, drawn>>,
         cmd = "CONNECT" => a.rv # "SUCCESS",
         \A n \in Maps : n # m => /\ serverContext'[n] = serverContext[n]
                                  /\ serverHandles'[n] = serverHandles[n],
         \/ channelMapList[m] = {}
         \/ serverContext'[m] = NoContext
         \/ /\ serverContext'[m] = serverContext[m]
            /\ \A h \in Handles : h \in serverHandles[m] =>
                 h \in serverHandles'[m] \/ Removes(t, m, h)'
  PROVE  Fresh' /\ Agreement'
<1>1. call[t].f = "CONNECT" => cmd = "CONNECT"
  <2>1. call[t].f = "CONNECT" => Todos(call[t].f) = {<<"CONNECT">>}
    BY DEF Todos
  <2> QED BY <2>1
<1>2. ASSUME NEW u \in Threads, u # t, pc[u] = "receive"
      PROVE  call[u].map # m /\ replies'[call[u].map] = replies[call[u].map]
  <2>1. call[u].map \in Maps
    BY <1>2, TalkerMap
  <2>2. Talks(t, m)
    BY DEF Talks
  <2>3. call[u].map # m
    BY <1>2, <2>2, TalksAlone DEF Talks
  <2> QED BY <2>1, <2>3
<1>3. \A u \in Threads, h \in Handles : Adds(u, h)' => u # t /\ Adds(u, h)
  BY <1>1, <1>2 DEF Adds, FirstAnswer
<1>4. ASSUME NEW u \in Threads, NEW h \in Handles, u # t, Adds(u, h)
      PROVE  call[u].map \in Maps /\ call[u].map # m
  <2>1. Exchanges(u) /\ Owns(u)
    BY <1>4 DEF Adds, Exchanges, Owns
  <2>2. Exchanges(t) \/ Establishes(t)
    BY DEF Exchanges, Establishes
  <2> QED BY <1>4, <2>1, <2>2, OneTalker, TalkerMap
<1>5. Fresh'
  <2>1. SUFFICES ASSUME NEW u \in Threads, NEW h \in Handles, Adds(u, h)'
                 PROVE  /\ h \in drawn
                        /\ \A v \in Threads : h \notin myHandles[v]
                        /\ \A n \in Maps : h \notin channelMapList[n]
                        /\ \A v \in Threads : Adds(v, h)' => v = u
                        /\ session[call[u].map] = "open"
                             /\ serverContext'[call[u].map] # NoContext
                             => h \in serverHandles'[call[u].map]
    BY DEF Fresh
  <2>2. u # t /\ Adds(u, h)
    BY <1>3, <2>1
  <2>3. call[u].map \in Maps /\ call[u].map # m
    BY <1>4, <2>2
  <2> QED BY <1>3, <2>2, <2>3 DEF Inv, Fresh
<1>6. Agreement'
  <2>1. ASSUME NEW u \in Threads, NEW n \in Maps, NEW h \in Handles,
               Removes(u, n, h)
        PROVE  Removes(u, n, h)'
    <3>1. u # t
      BY <2>1 DEF Removes
    <3> QED BY <1>2, <2>1, <3>1 DEF Removes, FirstAnswer
  <2>2. SUFFICES ASSUME NEW n \in Maps, NEW h \in channelMapList[n],
                        session[n] = "open", serverContext'[n] # NoContext
                 PROVE  h \in serverHandles'[n] \/ \E u \in Threads : Removes(u, n, h)'
    BY DEF Agreement
  <2>3. h \in Handles
    BY DEF Inv, Types
  <2>4. CASE n = m
    <3>1. serverContext[m] # NoContext
      BY <2>2, <2>4
    <3>2. h \in serverHandles[m] \/ \E u \in Threads : Removes(u, m, h)
      BY <2>2, <2>4, <3>1 DEF Inv, Agreement
    <3> QED BY <2>1, <2>2, <2>3, <2>4, <3>2
  <2>5. CASE n # m
    BY <2>1, <2>2, <2>3, <2>5 DEF Inv, Agreement
  <2> QED BY <2>4, <2>5
<1> QED BY <1>5, <1>6

\* Only a buffer is sent after an answer.
LEMMA NoData ==
  ASSUME NEW cmd, NEW a, cmd \notin {"TRANSMIT", "CONTROL"}
  PROVE  <<a>> \o DataOf(cmd, a.rv) = <<a>>
<1>1. DataOf(cmd, a.rv) = <<>>
  BY DEF DataOf, HasData
<1>2. <<a>> \in Seq({a})
  OBVIOUS
<1> QED BY <1>1, <1>2

\* What the daemon knows of the other sessions stays, and nothing the library
\* relies on is forgotten.
ServerKeeps(m) ==
  /\ serverContext' \in [Maps -> Contexts \cup {NoContext}]
  /\ serverHandles' \in [Maps -> SUBSET Handles]
  /\ \A n \in Maps : n # m => /\ serverContext'[n] = serverContext[n]
                              /\ serverHandles'[n] = serverHandles[n]
  /\ \/ channelMapList[m] = {}
     \/ serverContext'[m] = NoContext
     \/ /\ serverContext'[m] = serverContext[m]
        /\ serverHandles'[m] = serverHandles[m]

\* The daemon answers and gives or takes away no handle.
LEMMA ServeAnswer ==
  ASSUME Inv, NEW t \in Threads, NEW m \in Maps, NEW cmd, NEW a,
         pc[t] = "receive", call[t].map = m, session[m] = "open",
         Head(call[t].todo) = cmd,
         call[t].todo # <<>>, call[t].todo \in Todos(call[t].f),
         requests[m] = <<Request(t, cmd)>>, replies[m] = <<>>,
         Reply(m, <<a>> \o DataOf(cmd, a.rv)), AnswerOK(t, cmd, a),
         UNCHANGED <<locksVars, mapVars, clientVars, pc, call, appVars,
                     session, daemon, drawn>>,
         cmd = "CONNECT" => a.rv # "SUCCESS",
         ServerKeeps(m)
  PROVE  Inv'
<1>1. drawn \subseteq drawn' /\ drawn' \subseteq Handles
  BY DEF Inv, Types
<1>2. \A n \in Maps : n # m => replies'[n] = replies[n]
  BY DEF Reply, Inv, Types
<1>3. requests'[m] = <<>> /\ replies'[m] # <<>> /\ Head(replies'[m]) = a
        => Fresh' /\ Agreement'
  BY <1>2, ServeKeeps DEF ServerKeeps
<1> QED BY <1>1, <1>3, ServeStep DEF ServerKeeps

\* The daemon accepts or refuses the protocol version.
LEMMA ServeVersionStep ==
  ASSUME Inv, NEW m \in Maps, ServeVersion(m),
         UNCHANGED <<locksVars, mapVars, clientVars, pc, call, appVars>>
  PROVE  Inv'
<1>1. PICK t \in Threads :
        /\ pc[t] = "receive" /\ call[t].map = m /\ session[m] = "open"
        /\ call[t].todo # <<>> /\ call[t].todo \in Todos(call[t].f)
        /\ requests[m] = <<Request(t, "VERSION")>>
        /\ replies[m] = <<>>
        /\ Head(call[t].todo) = "VERSION"
  BY ServerTalker DEF ServeVersion
<1> DEFINE a == Answer("VERSION", IF FirstRequest(m).arg = daemon.version
                                  THEN "SUCCESS" ELSE "STOPPED",
                       daemon.version, 1)
<1>2. Reply(m, <<a>>) /\ UNCHANGED <<session, serverVars>>
  BY DEF ServeVersion
<1>3. a.n = 1
  BY DEF Answer
<1> HIDE DEF a
<1>4. AnswerOK(t, "VERSION", a)
  BY <1>3 DEF AnswerOK
<1>5. ServerKeeps(m)
  BY <1>2 DEF ServerKeeps, Inv, Types
<1>6. Reply(m, <<a>> \o DataOf("VERSION", a.rv))
  BY <1>2, NoData
<1> QED BY <1>1, <1>2, <1>4, <1>5, <1>6, ServeAnswer

\* The daemon gives the session an hContext.
LEMMA ServeEstablishStep ==
  ASSUME Inv, NEW m \in Maps, NEW c \in Contexts, ServeEstablish(m, c),
         UNCHANGED <<locksVars, mapVars, clientVars, pc, call, appVars>>
  PROVE  Inv'
<1>1. PICK t \in Threads :
        /\ pc[t] = "receive" /\ call[t].map = m /\ session[m] = "open"
        /\ call[t].todo # <<>> /\ call[t].todo \in Todos(call[t].f)
        /\ call[t].f \in AllFunctions \ {"CANCEL", "IS_VALID"}
        /\ requests[m] = <<Request(t, "ESTABLISH")>>
        /\ replies[m] = <<>>
        /\ Head(call[t].todo) = "ESTABLISH"
  BY ServerTalker DEF ServeEstablish
<1> DEFINE a == Answer("ESTABLISH", "SUCCESS", c, 1)
<1>2. /\ Reply(m, <<a>>) /\ UNCHANGED <<session, daemon, serverHandles, drawn>>
      /\ serverContext' = [serverContext EXCEPT ![m] = c]
  BY DEF ServeEstablish
<1>3. a.n = 1 /\ a.value = c
  BY DEF Answer
<1> HIDE DEF a
<1>4. AnswerOK(t, "ESTABLISH", a)
  BY <1>3 DEF AnswerOK
<1>5. channelMapList[m] = {}
  <2>1. call[t].f = "ESTABLISH"
    BY <1>1, NextRequests
  <2> QED BY <1>1, <2>1 DEF Inv, Working, Establishes, Lists, HandlesOK
<1>6. ServerKeeps(m)
  BY <1>2, <1>5 DEF ServerKeeps, Inv, Types
<1>7. Reply(m, <<a>> \o DataOf("ESTABLISH", a.rv))
  BY <1>2, NoData
<1> QED BY <1>1, <1>2, <1>4, <1>6, <1>7, ServeAnswer

\* The daemon sends the size of its table, or the table.
LEMMA ServeTableStep ==
  ASSUME Inv, NEW m \in Maps, ServeTable(m),
         UNCHANGED <<locksVars, mapVars, clientVars, pc, call, appVars>>
  PROVE  Inv'
<1>1. PICK t \in Threads :
        /\ pc[t] = "receive" /\ call[t].map = m /\ session[m] = "open"
        /\ call[t].todo # <<>> /\ call[t].todo \in Todos(call[t].f)
        /\ requests[m] = <<Request(t, Head(call[t].todo))>>
        /\ replies[m] = <<>>
        /\ FirstRequest(m) = Request(t, Head(call[t].todo))
  BY ServerTalker DEF ServeTable
<1>2. FirstRequest(m).cmd = Head(call[t].todo)
  BY <1>1 DEF Request
<1>3. UNCHANGED <<session, serverVars>>
  BY DEF ServeTable
<1>4. ServerKeeps(m)
  BY <1>3 DEF ServerKeeps, Inv, Types
<1>5. CASE FirstRequest(m).cmd = "SIZE"
  <2> DEFINE a == Answer("SIZE", "SUCCESS", daemon.table, 1)
  <2>1. Reply(m, <<a>>)
    BY <1>5 DEF ServeTable
  <2>2. a.n = 1 /\ a.value = daemon.table
    BY DEF Answer
  <2> HIDE DEF a
  <2>3. daemon.table \in Nat \ {0}
    BY DEF Inv, Types, DaemonRecords
  <2>4. AnswerOK(t, "SIZE", a)
    BY <2>2, <2>3 DEF AnswerOK
  <2>5. Reply(m, <<a>> \o DataOf("SIZE", a.rv))
    BY <2>1, NoData
  <2> QED BY <1>1, <1>2, <1>3, <1>4, <1>5, <2>4, <2>5, ServeAnswer
<1>6. CASE FirstRequest(m).cmd = "ARRAY"
  <2> DEFINE a == Answer("ARRAY", "SUCCESS", 0, daemon.table)
  <2>1. Reply(m, <<a>>)
    BY <1>6 DEF ServeTable
  <2>2. a.n = daemon.table
    BY DEF Answer
  <2> HIDE DEF a
  <2>3. daemon.table = maxReaderContext
    BY <1>1, <1>2, <1>6 DEF Inv, Tables
  <2>4. AnswerOK(t, "ARRAY", a)
    BY <2>2, <2>3 DEF AnswerOK
  <2>5. Reply(m, <<a>> \o DataOf("ARRAY", a.rv))
    BY <2>1, NoData
  <2> QED BY <1>1, <1>2, <1>3, <1>4, <1>6, <2>4, <2>5, ServeAnswer
<1>7. CASE FirstRequest(m).cmd = "STATE"
  <2> DEFINE a == Answer("STATE", "SUCCESS", 0, FixedTable)
  <2>1. Reply(m, <<a>>)
    BY <1>7 DEF ServeTable
  <2>2. a.n = FixedTable
    BY DEF Answer
  <2> HIDE DEF a
  <2>3. FixedTable = maxReaderContext
    BY <1>1, <1>2, <1>7 DEF Inv, Tables
  <2>4. AnswerOK(t, "STATE", a)
    BY <2>2, <2>3 DEF AnswerOK
  <2>5. Reply(m, <<a>> \o DataOf("STATE", a.rv))
    BY <2>1, NoData
  <2> QED BY <1>1, <1>2, <1>3, <1>4, <1>7, <2>4, <2>5, ServeAnswer
<1>8. FirstRequest(m).cmd \in {"SIZE", "ARRAY", "STATE"}
  BY DEF ServeTable, ServerReceives
<1> QED BY <1>5, <1>6, <1>7, <1>8

\* The daemon releases a context: the session has no handles any more.
LEMMA ServeReleaseStep ==
  ASSUME Inv, NEW m \in Maps, ServeRelease(m),
         UNCHANGED <<locksVars, mapVars, clientVars, pc, call, appVars>>
  PROVE  Inv'
<1>1. PICK t \in Threads :
        /\ pc[t] = "receive" /\ call[t].map = m /\ session[m] = "open"
        /\ call[t].todo # <<>> /\ call[t].todo \in Todos(call[t].f)
        /\ requests[m] = <<Request(t, "RELEASE")>>
        /\ replies[m] = <<>>
        /\ Head(call[t].todo) = "RELEASE"
  BY ServerTalker DEF ServeRelease
<1> DEFINE a == Answer("RELEASE", "SUCCESS", 0, 1)
<1>2. /\ Reply(m, <<a>>) /\ UNCHANGED <<session, daemon, drawn>>
      /\ serverContext' = [serverContext EXCEPT ![m] = NoContext]
      /\ serverHandles' = [serverHandles EXCEPT ![m] = {}]
  BY DEF ServeRelease
<1>3. a.n = 1
  BY DEF Answer
<1> HIDE DEF a
<1>4. AnswerOK(t, "RELEASE", a)
  BY <1>3 DEF AnswerOK
<1>5. ServerKeeps(m)
  BY <1>2 DEF ServerKeeps, Inv, Types
<1>6. Reply(m, <<a>> \o DataOf("RELEASE", a.rv))
  BY <1>2, NoData
<1> QED BY <1>1, <1>2, <1>4, <1>5, <1>6, ServeAnswer

\* The daemon carries out a command on a handle.
LEMMA HandleAnsweredStep ==
  ASSUME Inv, NEW m \in Maps, ServerReceives(m, HandleFunctions),
         HandleAnswered(m), UNCHANGED <<daemon, drawn>>,
         UNCHANGED <<locksVars, mapVars, clientVars, pc, call, appVars>>
  PROVE  Inv'
<1>1. PICK rv \in ServerResults :
        /\ ServerReceives(m, HandleFunctions)
        /\ serverHandles' =
             IF FirstRequest(m).cmd = "DISCONNECT" /\ rv = "SUCCESS"
             THEN [serverHandles EXCEPT ![m] = @ \ {FirstRequest(m).arg}]
             ELSE serverHandles
        /\ Reply(m, <<Answer(FirstRequest(m).cmd, rv, 0, 1)>>
                      \o DataOf(FirstRequest(m).cmd, rv))
        /\ UNCHANGED <<session, daemon, serverContext, drawn>>
  BY DEF HandleAnswered
<1>2. PICK t \in Threads :
        /\ pc[t] = "receive" /\ call[t].map = m /\ session[m] = "open"
        /\ call[t].todo # <<>> /\ call[t].todo \in Todos(call[t].f)
        /\ call[t].f \in AllFunctions \ {"CANCEL", "IS_VALID"}
        /\ requests[m] = <<Request(t, Head(call[t].todo))>>
        /\ replies[m] = <<>>
        /\ Head(call[t].todo) \in HandleFunctions
        /\ FirstRequest(m) = Request(t, Head(call[t].todo))
  BY <1>1, ServerTalker
<1> DEFINE cmd == Head(call[t].todo)
           a == Answer(cmd, rv, 0, 1)
<1>3. FirstRequest(m).cmd = cmd /\ FirstRequest(m).arg = call[t].hCard
  BY <1>2 DEF Request, Argument, HandleFunctions
<1>4. a.n = 1 /\ a.rv = rv
  BY DEF Answer
<1>5. Reply(m, <<a>> \o DataOf(cmd, a.rv))
  BY <1>1, <1>3, <1>4
<1> HIDE DEF a
<1>6. cmd = call[t].f
  BY <1>2, NextRequests DEF AllFunctions
<1> HIDE DEF cmd
<1>7. AnswerOK(t, cmd, a)
  BY <1>2, <1>4 DEF AnswerOK, HandleFunctions, cmd
<1>8. cmd # "CONNECT"
  BY <1>2 DEF HandleFunctions, cmd
<1>9. Head(call[t].todo) = cmd /\ requests[m] = <<Request(t, cmd)>>
  BY <1>2 DEF cmd
<1>10. /\ serverContext' \in [Maps -> Contexts \cup {NoContext}]
       /\ serverHandles' \in [Maps -> SUBSET Handles]
       /\ \A n \in Maps : n # m => serverHandles'[n] = serverHandles[n]
       /\ drawn \subseteq drawn' /\ drawn' \subseteq Handles
  BY <1>1 DEF Inv, Types
<1>11. CASE cmd = "DISCONNECT" /\ rv = "SUCCESS"
  <2>1. serverHandles' = [serverHandles EXCEPT ![m] = @ \ {call[t].hCard}]
    BY <1>1, <1>3, <1>11
  <2>2. \A n \in Maps : n # m => replies'[n] = replies[n]
    BY <1>5 DEF Reply, Inv, Types
  <2>3. ASSUME requests'[m] = <<>>, replies'[m] # <<>>, Head(replies'[m]) = a
        PROVE  Fresh' /\ Agreement'
    <3>1. Removes(t, m, call[t].hCard)'
      BY <1>2, <1>4, <1>6, <1>11, <2>3 DEF Removes, FirstAnswer
    <3>2. \A h \in Handles : h \in serverHandles[m] =>
            h \in serverHandles'[m] \/ Removes(t, m, h)'
      BY <2>1, <3>1 DEF Inv, Types
    <3> QED
      BY <1>1, <1>2, <1>8, <1>9, <1>10, <2>2, <2>3, <3>2, ServeKeeps
  <2> QED BY <1>1, <1>2, <1>5, <1>7, <1>9, <1>10, <2>3, ServeStep
<1>12. CASE ~(cmd = "DISCONNECT" /\ rv = "SUCCESS")
  <2>1. serverHandles' = serverHandles
    BY <1>1, <1>3, <1>12
  <2>2. ServerKeeps(m)
    BY <1>1, <1>10, <2>1 DEF ServerKeeps
  <2> QED BY <1>1, <1>2, <1>5, <1>7, <1>8, <1>9, <2>2, ServeAnswer
<1> QED BY <1>11, <1>12

\* The daemon opens a card: the handle it draws is a new one.
LEMMA ServeConnectStep ==
  ASSUME Inv, NEW m \in Maps, ServeConnect(m),
         UNCHANGED <<locksVars, mapVars, clientVars, pc, call, appVars>>
  PROVE  Inv'
<1>1. PICK t \in Threads :
        /\ pc[t] = "receive" /\ call[t].map = m /\ session[m] = "open"
        /\ call[t].todo # <<>> /\ call[t].todo \in Todos(call[t].f)
        /\ call[t].f \in AllFunctions \ {"CANCEL", "IS_VALID"}
        /\ requests[m] = <<Request(t, "CONNECT")>>
        /\ replies[m] = <<>>
        /\ Head(call[t].todo) = "CONNECT"
  BY ServerTalker DEF ServeConnect
<1>2. UNCHANGED <<session, daemon, serverContext>>
  BY DEF ServeConnect
<1>3. CASE /\ Reply(m, <<Answer("CONNECT", "ERROR", NoHandle, 1)>>)
           /\ UNCHANGED <<drawn, serverHandles>>
  <2> DEFINE a == Answer("CONNECT", "ERROR", NoHandle, 1)
  <2>1. Reply(m, <<a>>)
    BY <1>3
  <2>2. a.n = 1 /\ a.rv = "ERROR"
    BY DEF Answer
  <2> HIDE DEF a
  <2>3. AnswerOK(t, "CONNECT", a)
    BY <2>2 DEF AnswerOK
  <2>4. ServerKeeps(m)
    BY <1>2, <1>3 DEF ServerKeeps, Inv, Types
  <2>5. Reply(m, <<a>> \o DataOf("CONNECT", a.rv))
    BY <2>1, NoData
  <2> QED BY <1>1, <1>2, <1>3, <2>2, <2>3, <2>4, <2>5, ServeAnswer
<1>4. ASSUME NEW h \in Handles \ drawn,
             drawn' = drawn \cup {h},
             serverHandles' = [serverHandles EXCEPT ![m] = @ \cup {h}],
             Reply(m, <<Answer("CONNECT", "SUCCESS", h, 1)>>)
      PROVE  Inv'
  <2> DEFINE a == Answer("CONNECT", "SUCCESS", h, 1)
  <2>1. Reply(m, <<a>>)
    BY <1>4
  <2>2. a.n = 1 /\ a.rv = "SUCCESS" /\ a.value = h
    BY DEF Answer
  <2> HIDE DEF a
  <2>3. AnswerOK(t, "CONNECT", a)
    BY <2>2 DEF AnswerOK
  <2>4. Reply(m, <<a>> \o DataOf("CONNECT", a.rv))
    BY <2>1, NoData
  <2>5. /\ serverContext' \in [Maps -> Contexts \cup {NoContext}]
        /\ serverHandles' \in [Maps -> SUBSET Handles]
        /\ drawn \subseteq drawn' /\ drawn' \subseteq Handles
        /\ \A n \in Maps : serverHandles[n] \subseteq serverHandles'[n]
        /\ h \in serverHandles'[m]
    BY <1>2, <1>4 DEF Inv, Types
  <2>6. /\ \A n \in Maps : n # m => replies'[n] = replies[n]
    BY <2>1 DEF Reply, Inv, Types
  <2>7. ASSUME requests'[m] = <<>>, replies'[m] # <<>>, Head(replies'[m]) = a
        PROVE  Fresh' /\ Agreement'
    <3>1. ASSUME NEW u \in Threads, u # t, pc[u] = "receive"
          PROVE  call[u].map # m /\ replies'[call[u].map] = replies[call[u].map]
      <4>1. call[u].map \in Maps
        BY <3>1, TalkerMap
      <4>2. Talks(t, m)
        BY <1>1 DEF Talks
      <4>3. call[u].map # m
        BY <3>1, <4>2, TalksAlone DEF Talks
      <4> QED BY <2>6, <4>1, <4>3
    <3>2. \A u \in Threads, g \in Handles :
            Adds(u, g)' => IF u = t THEN g = h ELSE Adds(u, g)
      BY <1>1, <2>2, <2>7, <3>1 DEF Adds, FirstAnswer
    <3>3. \A u \in Threads, g \in Handles :
            Adds(u, g) => g # h /\ call[u].map \in Maps
      <4>1. ASSUME NEW u \in Threads, NEW g \in Handles, Adds(u, g)
            PROVE  g # h /\ call[u].map \in Maps
        <5>1. Exchanges(u) /\ Owns(u)
          BY <4>1 DEF Adds, Exchanges, Owns
        <5> QED BY <1>4, <4>1, <5>1, TalkerMap DEF Inv, Fresh
      <4> QED BY <4>1
    <3>4. Fresh'
      <4>1. SUFFICES ASSUME NEW u \in Threads, NEW g \in Handles, Adds(u, g)'
                     PROVE  /\ g \in drawn'
                            /\ \A v \in Threads : g \notin myHandles[v]
                            /\ \A n \in Maps : g \notin channelMapList[n]
                            /\ \A v \in Threads : Adds(v, g)' => v = u
                            /\ session[call[u].map] = "open"
                                 /\ serverContext[call[u].map] # NoContext
                                 => g \in serverHandles'[call[u].map]
        BY <1>2 DEF Fresh
      <4>2. CASE u = t
        <5>1. g = h
          BY <3>2, <4>1, <4>2
        <5>2. /\ \A v \in Threads : h \notin myHandles[v]
              /\ \A n \in Maps : h \notin channelMapList[n]
          BY <1>4 DEF Inv, HandlesOK
        <5> QED BY <1>1, <1>4, <2>5, <3>2, <3>3, <4>2, <5>1, <5>2
      <4>3. CASE u # t
        <5>1. Adds(u, g) /\ g # h /\ call[u].map \in Maps
          BY <3>2, <3>3, <4>1, <4>3
        <5> QED BY <2>5, <3>2, <5>1 DEF Inv, Fresh
      <4> QED BY <4>2, <4>3
    <3>5. Agreement'
      <4>1. ASSUME NEW u \in Threads, NEW n \in Maps, NEW g \in Handles,
                   Removes(u, n, g)
            PROVE  Removes(u, n, g)'
        <5>1. u # t
          BY <1>1, <4>1 DEF Removes
        <5> QED BY <3>1, <4>1, <5>1 DEF Removes, FirstAnswer
      <4>2. \A n \in Maps : channelMapList[n] \subseteq Handles
        BY DEF Inv, Types
      <4> QED BY <1>2, <2>5, <4>1, <4>2 DEF Inv, Agreement
    <3> QED BY <3>4, <3>5
  <2> QED BY <1>1, <1>2, <2>3, <2>4, <2>5, <2>7, ServeStep
<1> QED BY <1>3, <1>4 DEF ServeConnect

\* What the daemon does to itself: the sockets change at most by its death.
LEMMA DaemonItself ==
  ASSUME Inv,
         UNCHANGED <<locksVars, mapVars, clientVars, pc, call, appVars>>,
         UNCHANGED <<replies, drawn>>,
         daemon' \in DaemonRecords,
         session' \in [Maps -> {"closed", "open", "broken"}],
         \A m \in Maps : session'[m] = "closed" <=> session[m] = "closed",
         \A m \in Maps : session'[m] = "open" =>
           session[m] = "open" /\ daemon'.running,
         requests' = [m \in Maps |-> requests'[m]],
         \A m \in Maps :
           \/ requests'[m] = requests[m]
           \/ requests'[m] = <<>> /\ session'[m] # "open",
         \A m \in Maps : requests'[m] # <<>> => session'[m] = session[m],
         serverContext' \in [Maps -> Contexts \cup {NoContext}],
         serverHandles' \in [Maps -> SUBSET Handles],
         \A m \in Maps : session'[m] = "open" =>
           /\ serverContext'[m] = serverContext[m]
           /\ serverHandles'[m] = serverHandles[m],
         ReadsTable /\ (\E m \in Maps : session'[m] = "open") =>
           daemon'.table = daemon.table
  PROVE  Inv'
<1>0. Types
  BY DEF Inv
<1>1. Mutexes' /\ (\A u \in Threads : Working(u)') /\ Lists' /\ HandlesOK'
  BY DaemonFrame
<1>2. Types'
  BY <1>0 DEF Types
<1>3. \A t \in Threads, h \in Handles : Adds(t, h)' <=> Adds(t, h)
  BY DEF Adds, FirstAnswer
<1>4. \A t \in Threads, m \in Maps, h \in Handles :
        Removes(t, m, h)' <=> Removes(t, m, h)
  BY DEF Removes, FirstAnswer
<1>5. Fresh'
  <2>1. ASSUME NEW t \in Threads, NEW h \in Handles, Adds(t, h)
        PROVE  call[t].map \in Maps
    <3>1. Owns(t)
      BY <2>1 DEF Adds, Exchanges, Owns
    <3> QED BY <3>1, TalkerMap
  <2> QED BY <1>3, <2>1 DEF Inv, Fresh
<1>6. Agreement'
  <2>1. \A m \in Maps : channelMapList[m] \subseteq Handles
    BY <1>0 DEF Types
  <2> QED BY <1>4, <2>1 DEF Inv, Agreement
<1>7. Wires'
  <2>1. ASSUME NEW t \in Threads, pc[t] = "receive" PROVE Awaits(t)'
    <3> DEFINE m == call[t].map
               cmd == Head(call[t].todo)
    <3>1. m \in Maps /\ session[m] # "closed" /\ call[t].todo # <<>>
      BY <2>1, TalkerMap DEF Inv, Working
    <3>2. Awaits(t)
      BY <2>1 DEF Inv, Wires
    <3>3. session'[m] \in {"open", "broken"}
      BY <3>1
    <3>4. UNCHANGED FirstAnswer(t) /\ UNCHANGED Request(t, cmd)
      BY DEF FirstAnswer, Request, Argument
    <3>5. CASE replies[m] # <<>>
      <4>1. /\ requests[m] = <<>> /\ AnswerOK(t, cmd, FirstAnswer(t))
            /\ Tail(replies[m]) = DataOf(cmd, FirstAnswer(t).rv)
        BY <3>2, <3>5 DEF Awaits
      <4>2. requests'[m] = <<>>
        BY <3>1, <4>1
      <4>3. cmd = "SIZE" => ReadsTable
        BY <2>1, <3>1, <3>5 DEF ReadsTable, Answered
      <4>4. AnswerOK(t, cmd, FirstAnswer(t))'
        BY <3>1, <3>4, <4>1, <4>3 DEF AnswerOK
      <4> QED BY <3>4, <3>5, <4>1, <4>2, <4>4 DEF Awaits
    <3>6. CASE replies[m] = <<>>
      <4>1. CASE requests'[m] = <<>>
        <5>1. session'[m] # "open"
          BY <3>1, <3>2, <3>6, <4>1 DEF Awaits
        <5> QED BY <3>3, <3>6, <4>1, <5>1 DEF Awaits
      <4>2. CASE requests'[m] # <<>>
        <5>1. requests'[m] = requests[m] /\ session'[m] = session[m]
          BY <3>1, <4>2
        <5> QED BY <3>2, <3>4, <3>6, <4>2, <5>1 DEF Awaits
      <4> QED BY <4>1, <4>2
    <3> QED BY <3>5, <3>6
  <2>2. ASSUME NEW t \in Threads, pc[t] = "receiveData" PROVE AwaitsData(t)'
    <3>1. call[t].map \in Maps
      BY <2>2, TalkerMap
    <3>2. AwaitsData(t)
      BY <2>2 DEF Inv, Wires
    <3>3. requests'[call[t].map] = <<>>
      BY <3>1, <3>2 DEF AwaitsData
    <3> QED BY <3>2, <3>3 DEF AwaitsData
  <2>3. ASSUME NEW m \in Maps, \A t \in Threads : ~Talks(t, m)'
        PROVE  requests'[m] = <<>> /\ replies'[m] = <<>>
    <3>1. requests[m] = <<>> /\ replies[m] = <<>>
      BY <2>3 DEF Inv, Wires, Talks
    <3> QED BY <3>1
  <2> QED BY <2>1, <2>2, <2>3 DEF Wires
<1>8. Tables'
  <2>1. ASSUME NEW t \in Threads, pc[t] \in {"send", "receive"},
               call[t].todo # <<>>, Head(call[t].todo) = "ARRAY",
               session'[call[t].map] = "open"
        PROVE  daemon'.table = maxReaderContext
    <3>1. call[t].map \in Maps /\ session[call[t].map] = "open"
      BY <2>1, TalkerMap
    <3>2. ReadsTable
      BY <2>1 DEF ReadsTable
    <3> QED BY <2>1, <3>1, <3>2 DEF Inv, Tables
  <2> QED BY <2>1 DEF Inv, Tables
<1> QED BY <1>1, <1>2, <1>5, <1>6, <1>7, <1>8 DEF Inv

\* The daemon closes a session for a handle that is not one of it.
LEMMA SessionEndsStep ==
  ASSUME Inv, NEW m \in Maps, session[m] = "open", SessionEnds(m),
         UNCHANGED <<daemon, drawn>>,
         UNCHANGED <<locksVars, mapVars, clientVars, pc, call, appVars>>
  PROVE  Inv'
<1>1. /\ session' = [session EXCEPT ![m] = "broken"]
      /\ requests' = [requests EXCEPT ![m] = <<>>]
      /\ serverContext' = [serverContext EXCEPT ![m] = NoContext]
      /\ serverHandles' = [serverHandles EXCEPT ![m] = {}]
      /\ UNCHANGED replies
  BY DEF SessionEnds
<1>2. Types /\ \A n \in Maps : session[n] = "open" => daemon.running
  BY DEF Inv, Wires
<1>3. /\ session' \in [Maps -> {"closed", "open", "broken"}]
      /\ session'[m] = "broken"
      /\ \A n \in Maps : n # m => session'[n] = session[n]
      /\ requests'[m] = <<>>
      /\ \A n \in Maps : n # m => requests'[n] = requests[n]
      /\ requests' = [n \in Maps |-> requests'[n]]
  BY <1>1, <1>2 DEF Types
<1>4. /\ serverContext' \in [Maps -> Contexts \cup {NoContext}]
      /\ serverHandles' \in [Maps -> SUBSET Handles]
      /\ \A n \in Maps : n # m => /\ serverContext'[n] = serverContext[n]
                                  /\ serverHandles'[n] = serverHandles[n]
  BY <1>1, <1>2 DEF Types
<1>5. /\ \A n \in Maps : session'[n] = "closed" <=> session[n] = "closed"
      /\ \A n \in Maps : session'[n] = "open" =>
           /\ session[n] = "open" /\ daemon'.running
           /\ serverContext'[n] = serverContext[n]
           /\ serverHandles'[n] = serverHandles[n]
      /\ \A n \in Maps : \/ requests'[n] = requests[n]
                         \/ requests'[n] = <<>> /\ session'[n] # "open"
      /\ \A n \in Maps : requests'[n] # <<>> => session'[n] = session[n]
  BY <1>2, <1>3, <1>4
<1> QED BY <1>1, <1>2, <1>3, <1>4, <1>5, DaemonItself DEF Types

\* A command on a handle.
LEMMA ServeHandleStep ==
  ASSUME Inv, NEW m \in Maps, ServeHandle(m),
         UNCHANGED <<locksVars, mapVars, clientVars, pc, call, appVars>>
  PROVE  Inv'
<1>1. ServerReceives(m, HandleFunctions) /\ UNCHANGED <<daemon, drawn>>
  BY DEF ServeHandle
<1>2. session[m] = "open"
  BY <1>1 DEF ServerReceives
<1>3. HandleAnswered(m) \/ SessionEnds(m)
  BY DEF ServeHandle
<1> QED BY <1>1, <1>2, <1>3, HandleAnsweredStep, SessionEndsStep

\* The daemon cleans up after a client that has closed its socket.
LEMMA ServerCleanupStep ==
  ASSUME Inv, NEW m \in Maps, ServerCleanup(m),
         UNCHANGED <<locksVars, mapVars, clientVars, pc, call, appVars>>
  PROVE  Inv'
<1>1. /\ session[m] = "closed"
      /\ serverContext' = [serverContext EXCEPT ![m] = NoContext]
      /\ serverHandles' = [serverHandles EXCEPT ![m] = {}]
      /\ UNCHANGED <<wireVars, daemon, drawn>>
  BY DEF ServerCleanup
<1>2. Types /\ \A n \in Maps : session[n] = "open" => daemon.running
  BY DEF Inv, Wires
<1>3. /\ serverContext' \in [Maps -> Contexts \cup {NoContext}]
      /\ serverHandles' \in [Maps -> SUBSET Handles]
      /\ \A n \in Maps : session'[n] = "open" =>
           /\ serverContext'[n] = serverContext[n]
           /\ serverHandles'[n] = serverHandles[n]
  BY <1>1, <1>2 DEF Types
<1> QED BY <1>1, <1>2, <1>3, DaemonItself DEF Types

\* The table of the daemon grows while nobody is reading it.
LEMMA TableGrowsStep ==
  ASSUME Inv, ~ReadsTable, TableGrows,
         UNCHANGED <<locksVars, mapVars, clientVars, pc, call, appVars>>
  PROVE  Inv'
<1>1. /\ daemon.running
      /\ daemon' = [daemon EXCEPT !.table = @ + 1]
      /\ UNCHANGED <<wireVars, serverContext, serverHandles, drawn>>
  BY DEF TableGrows
<1>2. Types /\ \A n \in Maps : session[n] = "open" => daemon.running
  BY DEF Inv, Wires
<1>3. daemon' \in DaemonRecords /\ daemon'.running
  <2>1. daemon \in DaemonRecords /\ daemon.table + 1 \in Nat \ {0}
    BY <1>2 DEF Types, DaemonRecords
  <2> QED BY <1>1, <2>1 DEF DaemonRecords
<1> QED BY <1>1, <1>2, <1>3, DaemonItself DEF Types

\* The daemon dies: every socket is broken and no request is answered.
LEMMA CrashStep ==
  ASSUME Inv, Crash,
         UNCHANGED <<locksVars, mapVars, clientVars, pc, call, appVars>>
  PROVE  Inv'
<1>1. /\ daemon' = [daemon EXCEPT !.running = FALSE]
      /\ session' = [m \in Maps |-> IF session[m] = "open" THEN "broken"
                                                           ELSE session[m]]
      /\ requests' = [m \in Maps |-> <<>>]
      /\ serverContext' = [m \in Maps |-> NoContext]
      /\ serverHandles' = [m \in Maps |-> {}]
      /\ UNCHANGED <<replies, drawn>>
  BY DEF Crash
<1>2. Types
  BY DEF Inv
<1>3. daemon' \in DaemonRecords
  BY <1>1, <1>2 DEF Types, DaemonRecords
<1>4. /\ session' \in [Maps -> {"closed", "open", "broken"}]
      /\ \A m \in Maps : session'[m] # "open"
      /\ \A m \in Maps : session'[m] = "closed" <=> session[m] = "closed"
  BY <1>1, <1>2 DEF Types
<1>5. /\ requests' = [m \in Maps |-> requests'[m]]
      /\ \A m \in Maps : requests'[m] = <<>>
      /\ serverContext' \in [Maps -> Contexts \cup {NoContext}]
      /\ serverHandles' \in [Maps -> SUBSET Handles]
  BY <1>1
<1> QED BY <1>1, <1>3, <1>4, <1>5, DaemonItself

\* Another daemon starts, perhaps of another version, that knows no session.
LEMMA RestartStep ==
  ASSUME Inv, Restart,
         UNCHANGED <<locksVars, mapVars, clientVars, pc, call, appVars>>
  PROVE  Inv'
<1>1. PICK v \in Versions :
        daemon' = [running |-> TRUE, version |-> v, table |-> 1,
                   started |-> daemon.started + 1]
  BY DEF Restart
<1>2. /\ ~daemon.running
      /\ UNCHANGED <<wireVars, serverContext, serverHandles, drawn>>
  BY DEF Restart
<1>3. Types /\ \A n \in Maps : session[n] # "open"
  BY <1>2 DEF Inv, Wires
<1>4. daemon' \in DaemonRecords
  BY <1>1, <1>3, ClientLibraryAssumption DEF Types, DaemonRecords
<1> QED BY <1>2, <1>3, <1>4, DaemonItself DEF Types

-----------------------------------------------------------------------------
\* The invariant

\* The invariant holds before the application has called anything.
LEMMA InitInv ==
  Init => Inv
<1> SUFFICES ASSUME Init PROVE Inv
  OBVIOUS
<1> USE ClientLibraryAssumption
<1>1. /\ \A t \in Threads : pc[t] = "idle" /\ call[t] = NoCall
      /\ \A t \in Threads : myContext[t] = NoContext /\ myHandles[t] = {}
      /\ \A m \in Maps : /\ session[m] = "closed" /\ requests[m] = <<>>
                         /\ replies[m] = <<>> /\ mMutex[m] = NoThread
                         /\ channelMapList[m] = {}
      /\ \A m \in Maps : ~InList(m)
      /\ contextMapList = <<>>
  BY DEF Init, InList
<1>2. /\ NoCall \in CallRecords /\ NoCall.f = "NONE"
      /\ NoCall.hContext = NoContext /\ NoCall.hCard = NoHandle
  BY NewCallType DEF NoCall
<1>3. Types
  <2>1. pc \in [Threads -> Steps]
    BY DEF Init, Steps
  <2>2. daemon \in DaemonRecords
    BY DEF Init, DaemonRecords
  <2>3. call \in [Threads -> CallRecords]
    BY <1>2 DEF Init
  <2> QED BY <2>1, <2>2, <2>3 DEF Init, Types
<1>4. \A t \in Threads : ~HoldsClient(t) /\ ~Seeking(t) /\ ~HoldsStates(t)
                         /\ ~Exchanges(t) /\ ~Owns(t) /\ ~Cleans(t)
                         /\ ~Establishes(t)
  BY <1>1, <1>2 DEF HoldsClient, Seeking, HoldsStates, Exchanges, Owns,
                    Cleans, Establishes
<1>5. Mutexes
  BY <1>1, <1>4 DEF Init, Mutexes
<1>6. ASSUME NEW t \in Threads PROVE Working(t)
  <2>1. call[t].f \in FunctionsAt(pc[t])
    BY <1>1, <1>2, FunctionsAtEach
  <2>2. call[t].f \notin HandleFunctions
    BY <1>1, <1>2 DEF HandleFunctions
  <2> QED BY <1>1, <1>4, <2>1, <2>2 DEF Working
<1>7. Lists
  BY <1>1 DEF Lists
<1>8. HandlesOK
  BY <1>1 DEF HandlesOK
<1>9. Fresh /\ Agreement
  BY <1>1 DEF Fresh, Adds, Agreement
<1>10. Wires
  BY <1>1 DEF Wires
<1>11. Tables
  BY <1>1 DEF Tables
<1> QED BY <1>3, <1>5, <1>6, <1>7, <1>8, <1>9, <1>10, <1>11 DEF Inv

\* A call of the application keeps the invariant.
LEMMA CallsStep ==
  ASSUME Inv, NEW t \in Threads,
         Calls(t) \/ SCardCancel(t) \/ SCardIsValidContext(t)
  PROVE  Inv'
<1>1. myContext[t] # NoContext => myContext[t] \in Contexts
  BY DEF Inv, Types
<1>2. ASSUME NEW f \in ContextFunctions, myContext[t] # NoContext,
             CallContext(t, f, myContext[t])
      PROVE  Inv'
  BY <1>1, <1>2, CallContextStep DEF AllFunctions
<1>3. ASSUME NEW f \in {"CANCEL", "IS_VALID"}, NEW c \in Contexts,
             CallContext(t, f, c)
      PROVE  Inv'
  BY <1>3, CallContextStep DEF AllFunctions
<1>4. ASSUME NEW f \in HandleFunctions, NEW h \in Handles, CallHandle(t, f, h)
      PROVE  Inv'
  BY <1>4, CallHandleStep
<1>5. CASE SCardReleaseContext(t) \/ SCardConnect(t) \/ SCardListReaders(t)
             \/ SCardListReaderGroups(t)
  BY <1>2, <1>5 DEF SCardReleaseContext, SCardConnect, SCardListReaders,
                    SCardListReaderGroups, ContextFunctions
<1>6. CASE SCardCancel(t) \/ SCardIsValidContext(t)
  BY <1>3, <1>6 DEF SCardCancel, SCardIsValidContext
<1>7. CASE SCardReconnect(t) \/ SCardDisconnect(t) \/ SCardBeginTransaction(t)
             \/ SCardEndTransaction(t)
  BY <1>4, <1>7 DEF SCardReconnect, SCardDisconnect, SCardBeginTransaction,
                    SCardEndTransaction, HandleFunctions
<1>8. CASE SCardStatus(t) \/ SCardTransmit(t) \/ SCardControl(t)
             \/ SCardGetSetAttrib(t)
  BY <1>4, <1>8 DEF SCardStatus, SCardTransmit, SCardControl,
                    SCardGetSetAttrib, HandleFunctions
<1>9. CASE SCardEstablishContext(t)
  BY <1>9, SCardEstablishContextStep
<1> QED BY <1>5, <1>6, <1>7, <1>8, <1>9 DEF Calls

\* A step of the library keeps the invariant.
LEMMA ContinueStep ==
  ASSUME Inv, Searched, NEW t \in Threads, Continue(t)
  PROVE  Inv'
<1>1. CASE Enter(t) \/ Lookup(t) \/ Peek(t) \/ SeekLock(t) \/ SeekNext(t)
             \/ SeekFound(t) \/ SeekNotFound(t) \/ LockContext(t)
             \/ LockReaderStates(t)
  BY <1>1, EnterStep, LookupStep, PeekStep, SeekLockStep, SeekNextStep,
     SeekFoundStep, SeekNotFoundStep, LockContextStep, LockReaderStatesStep
<1>2. CASE Send(t) \/ SendNothing(t) \/ ReceiveFails(t) \/ ReceiveVersion(t)
             \/ ReceiveContext(t) \/ ReceiveSize(t) \/ ReceiveStates(t)
  BY <1>2, SendStep, SendNothingStep, ReceiveFailsStep, ReceiveVersionStep,
     ReceiveContextStep, ReceiveSizeStep, ReceiveStatesStep
<1>3. CASE ReceiveHandle(t) \/ ReceiveResult(t) \/ ReceiveData(t) \/ Retry(t)
             \/ Unlock(t) \/ EstablishCleanup(t) \/ SCardAddContext(t)
  BY <1>3, ReceiveHandleStep, ReceiveResultStep, ReceiveDataStep, RetryStep,
     UnlockStep, EstablishCleanupStep, SCardAddContextStep
<1>4. CASE SCardAddContextFails(t) \/ SCardAddHandle(t) \/ SCardRemoveHandle(t)
             \/ SCardRemoveContext(t) \/ CleanSession(t) \/ CleanChannels(t)
             \/ CleanList(t) \/ FreeContext(t)
  BY <1>4, SCardAddContextFailsStep, SCardAddHandleStep,
     SCardRemoveHandleStep, SCardRemoveContextStep, CleanSessionStep,
     CleanChannelsStep, CleanListStep, FreeContextStep
<1> QED BY <1>1, <1>2, <1>3, <1>4 DEF Continue

\* A step of the daemon keeps the invariant.
LEMMA DaemonStep ==
  ASSUME Inv, Daemon, NoteGrowth, ~raced'
  PROVE  Inv'
<1>1. UNCHANGED <<locksVars, mapVars, clientVars, pc, call, appVars>>
  BY DEF Daemon
<1>2. ASSUME NEW m \in Maps, Serve(m) PROVE Inv'
  BY <1>1, <1>2, ServeVersionStep, ServeEstablishStep, ServeTableStep,
     ServeConnectStep, ServeReleaseStep, ServeHandleStep, ServerCleanupStep
     DEF Serve
<1>3. CASE TableGrows
  <2>1. daemon'.table > daemon.table
    BY <1>3 DEF TableGrows, Inv, Types, DaemonRecords
  <2>2. ~ReadsTable
    BY <2>1 DEF NoteGrowth
  <2> QED BY <1>1, <1>3, <2>2, TableGrowsStep
<1>4. CASE Crash
  BY <1>1, <1>4, CrashStep
<1>5. CASE Restart
  BY <1>1, <1>5, RestartStep
<1> QED BY <1>2, <1>3, <1>4, <1>5 DEF Daemon

\* Nothing the invariant is about changes in a step that changes no variable.
LEMMA StutterStep ==
  ASSUME Inv, UNCHANGED vars
  PROVE  Inv'
<1>1. UNCHANGED <<locksVars, mapVars, clientVars, pc, call, appVars>>
  BY DEF vars
<1>2. UNCHANGED <<wireVars, serverVars>>
  BY DEF vars
<1>3. Types /\ \A m \in Maps : session[m] = "open" => daemon.running
  BY DEF Inv, Wires
<1> QED BY <1>1, <1>2, <1>3, DaemonItself DEF Types

\* A step that adds no handle an application has to the contexts a search has
\* passed.
LEMMA SearchFrame ==
  ASSUME Inv, Searched, NEW t \in Threads,
         pc'[t] \notin {"seek", "removeSeek"},
         \A u \in Threads : u # t => pc'[u] = pc[u] /\ call'[u] = call[u],
         contextMapList' = contextMapList \/ listLock = NoThread,
         \A m \in Maps : \A h \in channelMapList'[m] :
           h \in channelMapList[m] \/ \A u \in Threads : h \notin myHandles[u]
  PROVE  Searched'
<1>1. SUFFICES ASSUME NEW u \in Threads, Seeking(u)',
                      NEW i \in DOMAIN contextMapList', i < call'[u].index
               PROVE  call'[u].hCard \notin channelMapList'[contextMapList'[i]]
  BY DEF Searched
<1>2. u # t /\ pc'[u] = pc[u] /\ call'[u] = call[u] /\ Seeking(u)
  BY <1>1 DEF Seeking
<1>3. listLock = u /\ u # NoThread
  BY <1>2, ClientLibraryAssumption DEF Inv, Mutexes
<1>4. contextMapList' = contextMapList /\ contextMapList[i] \in Maps
  BY <1>1, <1>3 DEF Inv, Types
<1>5. call[u].hCard \in myHandles[u]
  <2>1. Working(u) /\ pc[u] \in {"seek", "removeSeek"}
    BY <1>2 DEF Inv, Seeking
  <2>2. call[u].f \in HandleFunctions
    BY <2>1, FunctionsAtEach DEF Working, HandleFunctions
  <2> QED BY <2>1, <2>2 DEF Working
<1> QED BY <1>1, <1>2, <1>4, <1>5 DEF Searched

\* The steps that leave the contexts alone and do not search.
LEMMA ElsewhereSearched ==
  ASSUME Inv, Searched, NEW t \in Threads,
         pc'[t] \notin {"seek", "removeSeek"},
         \A u \in Threads : u # t => pc'[u] = pc[u] /\ call'[u] = call[u],
         UNCHANGED <<contextMapList, channelMapList>>
  PROVE  Searched'
BY SearchFrame

\* The functions of the API begin with no search.
LEMMA CallsSearched ==
  ASSUME Inv, Searched, NEW t \in Threads,
         Calls(t) \/ SCardCancel(t) \/ SCardIsValidContext(t)
  PROVE  Searched'
<1>0. Types
  BY DEF Inv
<1>1. ASSUME NEW f, NEW c, CallContext(t, f, c) PROVE Searched'
  BY <1>0, <1>1, ElsewhereSearched DEF CallContext, Goto, SetCall, Types
<1>2. ASSUME NEW f, NEW h, CallHandle(t, f, h) PROVE Searched'
  BY <1>0, <1>2, ElsewhereSearched DEF CallHandle, Goto, SetCall, Types
<1>3. CASE SCardEstablishContext(t)
  <2>1. /\ Goto(t, "send") /\ \E k : SetCall(t, k)
        /\ UNCHANGED <<contextMapList, channelMapList>>
    BY <1>3 DEF SCardEstablishContext
  <2>2. PICK k : SetCall(t, k)
    BY <2>1
  <2> QED BY <1>0, <2>1, <2>2, ElsewhereSearched DEF Goto, SetCall, Types
<1>4. CASE SCardReleaseContext(t) \/ SCardConnect(t) \/ SCardListReaders(t)
             \/ SCardListReaderGroups(t) \/ SCardCancel(t)
             \/ SCardIsValidContext(t)
  BY <1>1, <1>4 DEF SCardReleaseContext, SCardConnect, SCardListReaders,
                    SCardListReaderGroups, SCardCancel, SCardIsValidContext
<1>5. CASE SCardReconnect(t) \/ SCardDisconnect(t) \/ SCardBeginTransaction(t)
             \/ SCardEndTransaction(t)
  BY <1>2, <1>5 DEF SCardReconnect, SCardDisconnect, SCardBeginTransaction,
                    SCardEndTransaction
<1>6. CASE SCardStatus(t) \/ SCardTransmit(t) \/ SCardControl(t)
             \/ SCardGetSetAttrib(t)
  BY <1>2, <1>6 DEF SCardStatus, SCardTransmit, SCardControl,
                    SCardGetSetAttrib
<1> QED BY <1>3, <1>4, <1>5, <1>6 DEF Calls

\* A step of the library keeps what the searches have found out.
LEMMA ContinueSearched ==
  ASSUME Inv, Searched, NEW t \in Threads, Continue(t)
  PROVE  Searched'
<1>0. Types /\ Fresh /\ Working(t)
  BY DEF Inv
<1> DEFINE Moved(step) == /\ pc' = [pc EXCEPT ![t] = step]
                          /\ \A u \in Threads : u # t => call'[u] = call[u]
<1>1. ASSUME NEW step, step \notin {"seek", "removeSeek"}, Moved(step),
             UNCHANGED <<contextMapList, channelMapList>>
      PROVE  Searched'
  BY <1>0, <1>1, ElsewhereSearched DEF Types
<1>2. CASE SeekLock(t)
  <2>1. /\ listLock = NoThread /\ UNCHANGED <<contextMapList, channelMapList>>
        /\ call' = [call EXCEPT ![t] = [call[t] EXCEPT !.index = 1]]
        /\ \A u \in Threads : u # t => pc'[u] = pc[u]
    BY <1>0, <1>2 DEF SeekLock, Goto, SetCall, Types
  <2>2. SUFFICES ASSUME NEW u \in Threads, Seeking(u)',
                        NEW i \in DOMAIN contextMapList, i < call'[u].index
                 PROVE  call'[u].hCard \notin channelMapList[contextMapList[i]]
    BY <2>1 DEF Searched
  <2>3. u = t
    <3>1. \A v \in Threads : ~Seeking(v)
      BY <2>1, ClientLibraryAssumption DEF Inv, Mutexes
    <3> QED BY <2>1, <2>2, <3>1 DEF Seeking
  <2>4. call'[t].index = 1 /\ i \in Nat \ {0}
    BY <1>0, <2>1, <2>2 DEF Types, CallRecords
  <2> QED BY <2>2, <2>3, <2>4
<1>3. CASE SeekNext(t)
  <2>1. /\ Seeking(t) /\ call[t].index <= Len(contextMapList)
        /\ call[t].hCard \notin channelMapList[contextMapList[call[t].index]]
        /\ UNCHANGED <<pc, contextMapList, channelMapList>>
        /\ call' = [call EXCEPT ![t] = [call[t] EXCEPT !.index = @ + 1]]
    BY <1>3 DEF SeekNext, SetCall, SoughtMap
  <2>2. /\ call'[t].hCard = call[t].hCard /\ call'[t].index = call[t].index + 1
        /\ call[t].index \in Nat
        /\ \A u \in Threads : u # t => call'[u] = call[u]
    BY <1>0, <2>1 DEF Types, CallRecords
  <2>3. SUFFICES ASSUME NEW u \in Threads, Seeking(u),
                        NEW i \in DOMAIN contextMapList, i < call'[u].index
                 PROVE  call'[u].hCard \notin channelMapList[contextMapList[i]]
    BY <2>1 DEF Searched, Seeking
  <2>4. CASE u = t /\ i = call[t].index
    BY <2>1, <2>2, <2>4
  <2>5. CASE u = t /\ i # call[t].index
    <3>1. i \in Nat
      BY <1>0 DEF Types
    <3>2. i < call[t].index
      BY <2>2, <2>3, <2>5, <3>1
    <3> QED BY <2>2, <2>3, <2>5, <3>2 DEF Searched
  <2>6. CASE u # t
    BY <2>2, <2>3, <2>6 DEF Searched
  <2> QED BY <2>4, <2>5, <2>6
<1>4. CASE Enter(t) \/ Lookup(t) \/ Peek(t)
  BY <1>0, <1>1, <1>4
     DEF Enter, Lookup, Peek, Goto, SetCall, Return, Types
<1>5. CASE SeekFound(t) \/ SeekNotFound(t)
  BY <1>0, <1>1, <1>5
     DEF SeekFound, SeekNotFound, Goto, SetCall, Return, Finish, Types
<1>6. CASE LockContext(t) \/ LockReaderStates(t)
  BY <1>0, <1>1, <1>6
     DEF LockContext, LockReaderStates, Goto, SetCall, Types
<1>7. CASE Send(t) \/ SendNothing(t) \/ ReceiveFails(t)
  BY <1>0, <1>1, <1>7
     DEF Send, SendNothing, ReceiveFails, Goto, Finish, Types
<1>8. CASE ReceiveVersion(t) \/ ReceiveContext(t)
  BY <1>0, <1>1, <1>8
     DEF ReceiveVersion, ReceiveContext, SendNext, Goto, SetCall, Finish, Types
<1>9. CASE ReceiveSize(t) \/ ReceiveStates(t) \/ ReceiveHandle(t)
  BY <1>0, <1>1, <1>9
     DEF ReceiveSize, ReceiveStates, ReceiveHandle, SendNext, Goto, SetCall,
         Finish, Types
<1>10. CASE ReceiveResult(t) \/ ReceiveData(t)
  BY <1>0, <1>1, <1>10
     DEF ReceiveResult, ReceiveData, Goto, SetCall, Finish, Types
<1>11. CASE Retry(t) \/ Unlock(t) \/ EstablishCleanup(t)
  BY <1>0, <1>1, <1>11
     DEF Retry, Unlock, EstablishCleanup, Goto, SetCall, Return, Types
<1>12. CASE \/ SCardAddContextFails(t) \/ SCardRemoveContext(t)
            \/ CleanSession(t) \/ FreeContext(t)
  BY <1>0, <1>1, <1>12
     DEF SCardAddContextFails, SCardRemoveContext, CleanSession, FreeContext,
         Goto, SetCall, Return, Types
<1>13. CASE SCardAddContext(t)
  <2>1. /\ listLock = NoThread /\ pc' = [pc EXCEPT ![t] = "idle"]
        /\ call' = [call EXCEPT ![t] = NoCall]
        /\ channelMapList' = [channelMapList EXCEPT ![call[t].map] = {}]
    BY <1>13 DEF SCardAddContext, Goto, SetCall, Return
  <2>2. \A m \in Maps : channelMapList'[m] \subseteq channelMapList[m]
    BY <1>0, <2>1 DEF Types
  <2> QED BY <1>0, <2>1, <2>2, SearchFrame DEF Types
<1>14. CASE SCardAddHandle(t)
  <2>1. /\ pc[t] = "addHandle" /\ UNCHANGED <<contextMapList, call>>
        /\ pc' = [pc EXCEPT ![t] = IF call[t].f = "ESTABLISH" THEN "cleanup"
                                                             ELSE "unlock"]
        /\ \/ channelMapList' = [channelMapList EXCEPT ![call[t].map] =
                                    @ \cup {call[t].hCard}]
           \/ UNCHANGED channelMapList
    BY <1>14 DEF SCardAddHandle, Goto, Finish
  <2>2. Adds(t, call[t].hCard) /\ call[t].hCard \in Handles
    BY <1>0, <2>1, FunctionsAtEach DEF Adds, Working
  <2>3. \A u \in Threads : call[t].hCard \notin myHandles[u]
    BY <1>0, <2>2 DEF Fresh
  <2>4. \A m \in Maps : channelMapList'[m] \subseteq
                          channelMapList[m] \cup {call[t].hCard}
    BY <1>0, <2>1 DEF Types
  <2> QED BY <1>0, <2>1, <2>3, <2>4, SearchFrame DEF Types
<1>15. CASE SCardRemoveHandle(t)
  <2>1. /\ UNCHANGED <<contextMapList, call>>
        /\ pc' = [pc EXCEPT ![t] = IF call[t].f = "ESTABLISH" THEN "cleanup"
                                                             ELSE "unlock"]
        /\ channelMapList' = [channelMapList EXCEPT ![call[t].map] =
                                @ \ {call[t].hCard}]
    BY <1>15 DEF SCardRemoveHandle, Goto, Finish, DeleteHandle
  <2>2. \A m \in Maps : channelMapList'[m] \subseteq channelMapList[m]
    BY <1>0, <2>1 DEF Types
  <2> QED BY <1>0, <2>1, <2>2, SearchFrame DEF Types
<1>16. CASE CleanChannels(t)
  <2>1. /\ UNCHANGED <<contextMapList, call>>
        /\ pc' = [pc EXCEPT ![t] = "cleanList"]
        /\ channelMapList' = [channelMapList EXCEPT ![call[t].map] = {}]
    BY <1>16 DEF CleanChannels, Goto
  <2>2. \A m \in Maps : channelMapList'[m] \subseteq channelMapList[m]
    BY <1>0, <2>1 DEF Types
  <2> QED BY <1>0, <2>1, <2>2, SearchFrame DEF Types
<1>17. CASE CleanList(t)
  <2>1. /\ listLock = NoThread /\ UNCHANGED <<channelMapList, call>>
        /\ pc' = [pc EXCEPT ![t] = "freeContext"]
    BY <1>17 DEF CleanList, Goto
  <2> QED BY <1>0, <2>1, SearchFrame DEF Types
<1> QED
  BY <1>2, <1>3, <1>4, <1>5, <1>6, <1>7, <1>8, <1>9, <1>10, <1>11, <1>12,
     <1>13, <1>14, <1>15, <1>16, <1>17 DEF Continue

\* Inv is an invariant of the library and the daemon until the table grows
\* under a client that is reading it: the mutexes are held where
\* winscard_clnt.c needs them, every thread works on a context of its own,
\* each request is answered once, to the thread that sent it, and a search for
\* a handle ends.
THEOREM ClientInvariance ==
  Spec => [](raced \/ (Inv /\ Searched))
<1> DEFINE I == raced \/ (Inv /\ Searched)
<1>1. Init => I
  <2>1. Init => Searched
    BY DEF Init, Searched, Seeking
  <2> QED BY <2>1, InitInv
<1>2. I /\ [Next]_vars => I'
  <2>1. SUFFICES ASSUME I, [Next]_vars, ~raced' PROVE (Inv /\ Searched)'
    OBVIOUS
  <2>2. CASE UNCHANGED vars
    <3>1. Inv /\ Searched
      BY <2>1, <2>2 DEF vars
    <3>2. Searched'
      BY <2>2, <3>1 DEF vars, Searched, Seeking
    <3> QED BY <2>2, <3>1, <3>2, StutterStep
  <2>3. CASE Next
    <3>1. NoteGrowth /\ Inv /\ Searched
      BY <2>1, <2>3 DEF Next, NoteGrowth
    <3>2. CASE Daemon
      <4>1. UNCHANGED <<pc, call, contextMapList, channelMapList>>
        BY <3>2 DEF Daemon
      <4>2. Searched'
        BY <3>1, <4>1 DEF Searched, Seeking
      <4> QED BY <2>1, <3>1, <3>2, <4>2, DaemonStep
    <3>3. ASSUME NEW t \in Threads, Continue(t) PROVE (Inv /\ Searched)'
      BY <3>1, <3>3, ContinueStep, ContinueSearched
    <3>4. ASSUME NEW t \in Threads,
                 Calls(t) \/ SCardCancel(t) \/ SCardIsValidContext(t)
          PROVE  (Inv /\ Searched)'
      BY <3>1, <3>4, CallsStep, CallsSearched
    <3> QED BY <2>3, <3>2, <3>3, <3>4 DEF Next
  <2> QED BY <2>1, <2>2, <2>3
<1> QED BY <1>1, <1>2, PTL DEF Spec

-----------------------------------------------------------------------------
\* The properties

\* SCardCleanContext() frees an SCONTEXTMAP under clientMutex after it has
\* taken it out of contextMapList: no thread has a pointer to it any more.
THEOREM UseAfterFree ==
  Spec => [](raced \/ NoUseAfterFree)
<1>1. ASSUME Inv PROVE NoUseAfterFree
  <2>1. SUFFICES ASSUME NEW t \in Threads, NEW m \in Maps, Dereferences(t, m)
                 PROVE  m \in allocated
    BY DEF NoUseAfterFree
  <2>2. Types /\ Working(t) /\ Lists
    BY <1>1 DEF Inv
  <2>3. CASE Seeking(t) /\ call[t].index <= Len(contextMapList)
             /\ m = SoughtMap(t)
    <3>1. call[t].index \in DOMAIN contextMapList
      BY <2>2, <2>3 DEF Types, CallRecords
    <3> QED BY <2>2, <2>3, <3>1 DEF InList, SoughtMap, Lists
  <2>4. CASE /\ m = call[t].map /\ call[t].f # "ESTABLISH"
             /\ pc[t] \in {"peek", "lock", "receive", "receiveData", "retry",
                           "unlock", "addHandle", "deleteHandle",
                           "cleanSession", "cleanChannels", "cleanList"}
    <3>1. pc[t] = "peek" \/ Owns(t) \/ Cleans(t)
      BY <2>4 DEF Owns, Exchanges, Cleans
    <3> QED BY <2>2, <2>4, <3>1 DEF Working, Lists
  <2> QED BY <2>1, <2>3, <2>4 DEF Dereferences
<1> QED BY <1>1, ClientInvariance, PTL

\* SCardEstablishContext() asks the daemon again while the hContext it is
\* given is one of the application: no two contexts have the same.
THEOREM DistinctContexts ==
  Spec => [](raced \/ ContextsAreDistinct)
<1>1. ASSUME Inv PROVE ContextsAreDistinct
  <2>1. Types /\ Lists
    BY <1>1 DEF Inv
  <2>2. \A i \in DOMAIN contextMapList :
          contextMapList[i] \in Maps /\ InList(contextMapList[i])
    BY <2>1 DEF Types, InList
  <2> QED BY <2>1, <2>2 DEF Lists, ContextsAreDistinct
<1> QED BY <1>1, ClientInvariance, PTL

\* A thread that leaves the mMutex of a context has read all that was sent to
\* it, also when the daemon died or refused: the next call on the socket does
\* not take what is left for its own answer.
THEOREM StreamsInSync ==
  Spec => []StreamInSync
<1>1. ASSUME Inv PROVE \A m \in allocated : SocketIsEmpty(m)
  <2>1. SUFFICES ASSUME NEW m \in allocated, mMutex[m] = NoThread
                 PROVE  requests[m] = <<>> /\ replies[m] = <<>>
    BY DEF SocketIsEmpty
  <2>2. m \in Maps
    BY <1>1, <2>1 DEF Inv, Types
  <2>3. ASSUME NEW t \in Threads, Talks(t, m) PROVE FALSE
    <3>1. CASE call[t].f = "ESTABLISH"
      BY <1>1, <2>1, <2>3, <3>1 DEF Inv, Working, Establishes, Talks
    <3>2. CASE call[t].f # "ESTABLISH"
      <4>1. Exchanges(t) /\ call[t].map = m
        BY <2>3, <3>2 DEF Talks, Exchanges
      <4> QED BY <1>1, <2>1, <2>2, <4>1, ClientLibraryAssumption
              DEF Inv, Mutexes
    <3> QED BY <3>1, <3>2
  <2> QED BY <1>1, <2>2, <2>3 DEF Inv, Wires
<1>2. (raced \/ Inv) => StreamInSync
  BY <1>1 DEF StreamInSync
<1> QED BY <1>2, ClientInvariance, PTL

\* SCardConnect() and SCardDisconnect() change the handles of the library and
\* those of the daemon in two steps; whenever nobody holds the mMutex of the
\* context, the daemon knows every handle the library has for it.
THEOREM HandlesInAgreement ==
  Spec => [](raced \/ HandlesAgree)
<1>1. ASSUME Inv PROVE HandlesAgree
  <2>1. SUFFICES ASSUME NEW m \in allocated, NEW h \in channelMapList[m],
                        session[m] = "open", mMutex[m] = NoThread,
                        serverContext[m] # NoContext
                 PROVE  h \in serverHandles[m]
    BY DEF HandlesAgree
  <2>2. m \in Maps
    BY <1>1, <2>1 DEF Inv, Types
  <2>3. ASSUME NEW t \in Threads, Removes(t, m, h) PROVE FALSE
    <3>1. Exchanges(t) /\ call[t].map = m
      BY <2>3 DEF Removes, Exchanges
    <3> QED BY <1>1, <2>1, <2>2, <3>1, ClientLibraryAssumption
            DEF Inv, Mutexes
  <2> QED BY <1>1, <2>1, <2>2, <2>3 DEF Inv, Agreement
<1> QED BY <1>1, ClientInvariance, PTL

\* A thread that waits for no mutex goes on: what it reads is there, is on
\* its way, or will never come.
LEMMA WorksOn ==
  ASSUME Inv, NEW t \in Threads, pc[t] # "idle", WaitsFor(t) = NoThread
  PROVE  Proceeds(t)
<1>1. ASSUME pc[t] = "receive"
      PROVE  \/ session[call[t].map] = "broken"
             \/ requests[call[t].map] # <<>>
             \/ replies[call[t].map] # <<>>
  <2>1. Awaits(t)
    BY <1>1 DEF Inv, Wires
  <2>2. <<Request(t, Head(call[t].todo))>> # <<>>
    OBVIOUS
  <2> QED BY <2>1, <2>2 DEF Awaits
<1>2. ASSUME pc[t] = "receiveData" PROVE replies[call[t].map] # <<>>
  <2>1. AwaitsData(t)
    BY <1>2 DEF Inv, Wires
  <2>2. <<Answer("DATA", "SUCCESS", 0, 1)>> # <<>>
    OBVIOUS
  <2> QED BY <2>1, <2>2 DEF AwaitsData
<1> QED BY <1>1, <1>2 DEF Proceeds

\* No thread waits for the mMutex of its context, which only it uses.
LEMMA ContextIsFree ==
  ASSUME Inv, NEW t \in Threads, pc[t] = "lock"
  PROVE  mMutex[call[t].map] = NoThread
<1>1. Types /\ Mutexes /\ Lists /\ Owns(t) /\ Working(t) /\ ~Exchanges(t)
  BY DEF Inv, Owns, Exchanges
<1>2. call[t].map \in Maps
  BY <1>1, TalkerMap
<1>3. ASSUME NEW u \in Threads, mMutex[call[t].map] = u PROVE FALSE
  <2>1. Exchanges(u) /\ call[u].map = call[t].map
    BY <1>1, <1>2, <1>3 DEF Mutexes
  <2>2. Owns(u) /\ Working(u)
    BY <2>1 DEF Inv, Owns
  <2>3. myContext[u] = myContext[t] /\ myContext[t] # NoContext
    BY <1>1, <2>1, <2>2 DEF Working
  <2>4. u = t
    BY <1>1, <2>3 DEF Lists
  <2> QED BY <1>1, <2>1, <2>4
<1> QED BY <1>1, <1>2, <1>3 DEF Types

\* The mutexes are taken in the order clientMutex, contextMapList_lock, and a
\* mMutex or readerStatesMutex is held only by threads that talk to the
\* daemon: every chain of waiting threads ends in one that goes on.
THEOREM Deadlocks ==
  Spec => [](raced \/ NobodyIsStuck)
<1>1. ASSUME Inv PROVE NobodyIsStuck
  <2> USE ClientLibraryAssumption
  <2>0. Types /\ Mutexes
    BY <1>1 DEF Inv
  <2>1. ASSUME NEW t \in Threads, Seeking(t) PROVE Proceeds(t)
    <3>1. pc[t] # "idle" /\ WaitsFor(t) = NoThread
      BY <2>1 DEF Seeking, WaitsFor
    <3> QED BY <1>1, <3>1, WorksOn
  <2>2. ASSUME NEW t \in Threads, HoldsStates(t) PROVE Proceeds(t)
    <3>1. pc[t] # "idle" /\ WaitsFor(t) = NoThread
      BY <2>2 DEF HoldsStates, WaitsFor
    <3> QED BY <1>1, <3>1, WorksOn
  <2>3. ASSUME NEW t \in Threads, HoldsClient(t)
        PROVE  \/ Proceeds(t)
               \/ WaitsFor(t) \in Threads /\ Proceeds(WaitsFor(t))
    <3>1. pc[t] # "idle" /\ WaitsFor(t) \in {NoThread, listLock}
      BY <1>1, <2>3, ContextIsFree DEF HoldsClient, WaitsFor
    <3>2. CASE WaitsFor(t) = NoThread
      BY <1>1, <3>1, <3>2, WorksOn
    <3>3. CASE WaitsFor(t) # NoThread
      BY <2>0, <2>1, <3>1, <3>3 DEF Types, Mutexes
    <3> QED BY <3>2, <3>3
  <2>4. SUFFICES ASSUME NEW t \in Threads, pc[t] # "idle",
                        WaitsFor(t) # NoThread
                 PROVE  \/ Proceeds(WaitsFor(t))
                        \/ /\ WaitsFor(WaitsFor(t)) # NoThread
                           /\ Proceeds(WaitsFor(WaitsFor(t)))
    BY <1>1, WorksOn DEF NobodyIsStuck
  <2>5. \/ WaitsFor(t) = clientMutex
        \/ WaitsFor(t) = listLock
        \/ WaitsFor(t) = readerStatesMutex
    BY <1>1, <2>4, ContextIsFree DEF WaitsFor
  <2>6. CASE WaitsFor(t) = clientMutex
    <3>1. WaitsFor(t) \in Threads /\ HoldsClient(WaitsFor(t))
      BY <2>0, <2>4, <2>6 DEF Types, Mutexes
    <3> QED BY <2>3, <3>1
  <2>7. CASE WaitsFor(t) = listLock
    <3>1. WaitsFor(t) \in Threads /\ Seeking(WaitsFor(t))
      BY <2>0, <2>4, <2>7 DEF Types, Mutexes
    <3> QED BY <2>1, <3>1
  <2>8. CASE WaitsFor(t) = readerStatesMutex
    <3>1. WaitsFor(t) \in Threads /\ HoldsStates(WaitsFor(t))
      BY <2>0, <2>4, <2>8 DEF Types, Mutexes
    <3> QED BY <2>2, <3>1
  <2> QED BY <2>5, <2>6, <2>7, <2>8
<1> QED BY <1>1, ClientInvariance, PTL

=============================================================================
