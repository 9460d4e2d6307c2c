--------------------------- MODULE WinscardProofs ---------------------------
(***************************************************************************)
(* Proofs about Winscard, for any number of clients, handles, cards and    *)
(* nested transactions and for every choice of commands and faults.        *)
(*                                                                         *)
(* HandlesAreOwned is not inductive: nothing in it says why the handle a   *)
(* thread adds is new, nor that a thread works on a handle of its own      *)
(* client.  HandleInv adds both: while a thread is between                 *)
(* RFCreateReaderHandle() and RFAddReaderHandle() it holds LockMutex and   *)
(* its handle is in no list (ThreadOK), and a handle that a client has, or *)
(* is about to get or to give back, is in handlesList and belongs to       *)
(* nobody else (Ownership).  OneUnlocks says that RFUnlockSharing(), which *)
(* tests LockCount in one step and decrements it in another, is run by one *)
(* thread at a time: LockCount then never falls below -1.                  *)
(***************************************************************************)
EXTENDS WinscardProperties, TLAPS

USE DEF sharing, card, slot, locks, threads, event, history, others

\* The idle thread has a well-formed call record.
LEMMA NoCallType == NoCall \in Calls
BY DEF NoCall, HandleCall, Call, Calls, AllModes, AllDispositions,
   Protocols, Results

\* A command with arguments of the right types is a well-formed call record.
LEMMA CallType ==
  ASSUME NEW cmd \in AllCommands, NEW h \in Handles \cup {NoHandle},
         NEW mode \in AllModes, NEW pref \in SUBSET Protocols,
         NEW disp \in AllDispositions
  PROVE  Call(cmd, h, mode, pref, disp) \in Calls
BY DEF Call, Calls, Results

\* So is a command on a handle without share mode and protocols.
LEMMA HandleCallType ==
  ASSUME NEW cmd \in AllCommands, NEW h \in Handles \cup {NoHandle},
         NEW disp \in AllDispositions
  PROVE  HandleCall(cmd, h, disp) \in Calls
BY DEF HandleCall, Call, Calls, AllModes, Results

\* Updating a local variable of a command keeps its record well formed.
LEMMA WithType ==
  ASSUME NEW c \in Calls
  PROVE  /\ \A rv \in Results : WithResult(c, rv) \in Calls
         /\ \A i \in Nat : WithCard(c, i) \in Calls
         /\ \A h \in Handles : WithHandle(c, h) \in Calls
         /\ \A d \in AllDispositions : WithDisposition(c, d) \in Calls
<1>1. ASSUME NEW rv \in Results PROVE WithResult(c, rv) \in Calls
  BY DEF WithResult, Calls
<1>2. ASSUME NEW i \in Nat PROVE WithCard(c, i) \in Calls
  BY DEF WithCard, Calls
<1>3. ASSUME NEW h \in Handles PROVE WithHandle(c, h) \in Calls
  BY DEF WithHandle, Calls
<1>4. ASSUME NEW d \in AllDispositions PROVE WithDisposition(c, d) \in Calls
  BY DEF WithDisposition, Calls
<1> QED BY <1>1, <1>2, <1>3, <1>4

\* IFDPowerICC() leaves a Boolean power state and returns one of three
\* results.
LEMMA PowerType ==
  ASSUME NEW rv, TypeOK, IFDPowerUp(rv) \/ IFDPowerDown(rv)
  PROVE  iccPowered' \in BOOLEAN /\ rv \in {"SUCCESS", "REMOVED", "FAILED"}
<1>1. rv \in {"SUCCESS", "REMOVED", "FAILED"}
  BY DEF IFDPowerUp, IFDPowerDown, IFDPowerICCResults
<1>2. iccPowered' \in BOOLEAN
  BY Zenon DEF IFDPowerUp, IFDPowerDown, TypeOK
<1> QED BY <1>1, <1>2

\* The inductive invariant

NewSteps == {"connectExclusive", "connectLockSharing", "connectAdd"}

ConnectSteps == NewSteps \cup {"connectWait", "connectPresent",
                  "connectPower", "connectPowered", "connectProtocol",
                  "connectLock", "connectDone"}

HandleSteps == {"reconnectPresent", "reconnectNotify", "reconnectPower",
                "reconnectState",
                "reconnectProtocol", "reconnectInUse", "reconnectShare",
                "reconnectExclusive", "reconnectLock", "reconnectUnlock",
                "reconnectCount", "reconnectClear", "beginLock", "endPower",
                "endNotify", "endUnlock", "unlockNested", "unlockLast",
                "driver", "driverNoCard", "removeUnlock", "removeStatus"}

\* The steps at which no call has failed so far.
SureSteps ==
  (ConnectSteps \cup DisconnectSteps \cup {"removeUnlock", "removeStatus"})
    \ {"connectPowered", "disconnectUnpower", "disconnectState",
       "disconnectReturn"}

\* What a thread knows of the handle it works on.
ThreadOK(t) ==
  LET c == call[t] IN
  /\ pc[t] \in NewSteps => /\ connectMutex = t
                           /\ c.hCard \in Handles \ handlesList
  /\ pc[t] = "connectDone" => c.hCard \in Handles
  /\ pc[t] \in ConnectSteps => c.cmd = "CONNECT"
  /\ pc[t] \in HandleSteps => c.cmd # "CONNECT" /\ c.hCard \in cardsList[t]
  /\ pc[t] \in DisconnectSteps =>
       /\ c.hCard \in Handles
       /\ c.cmd \in {"CONNECT", "DISCONNECT", "RELEASE_CONTEXT"}
       /\ c.cmd # "CONNECT" => c.hCard \in cardsList[t]
  /\ pc[t] \in {"removeUnlock", "removeStatus"} => c.cmd = "RELEASE_CONTEXT"
  /\ pc[t] \in SureSteps => c.rv = "SUCCESS"
  /\ c.cmd = "CONNECT" => c.hCard \notin cardsList[t]

Ownership ==
  \A t \in Clients : \A h \in Handles :
    Owns(t, h) => /\ h \in handlesList
                  /\ \A u \in Clients : Owns(u, h) => u = t

\* RFUnlockSharing() is run by one thread at a time, and between its test and
\* its decrement LockCount can only have been set to 0.
OneUnlocks ==
  \A t \in Clients :
    pc[t] \in UnlockSteps =>
      /\ LockCount >= 0
      /\ \A u \in Clients : pc[u] \in UnlockSteps => u = t

HandleInv ==
  /\ TypeOK
  /\ \A t \in Clients : ThreadOK(t)
  /\ Ownership
  /\ OneUnlocks

\* The types of the fields of a thread's command, from TypeOK.
LEMMA CallFields ==
  ASSUME TypeOK, NEW t \in Clients
  PROVE  /\ call[t] \in Calls
         /\ call[t].hCard \in Handles \cup {NoHandle}
         /\ call[t].mode \in AllModes
         /\ call[t].disp \in AllDispositions
         /\ call[t].rv \in Results
         /\ call[t].card \in Nat
BY DEF TypeOK, Calls

\* RFLockSharing() and RFUnlockAllSharing() keep hLockId a handle or 0 and do
\* not take LockCount below -1.
LEMMA LockType ==
  ASSUME TypeOK, NEW h \in Handles \cup {NoHandle},
         RFLockSharing(h) \/ RFUnlockAllSharing(h)
  PROVE  /\ hLockId' \in Handles \cup {NoHandle}
         /\ LockCount' \in Int /\ LockCount' >= -1
BY DEF TypeOK, RFLockSharing, RFUnlockAllSharing

\* The history of given locks stays a function to the naturals.
LEMMA DepthType ==
  ASSUME TypeOK, NEW h \in Handles \cup {NoHandle}, NEW kept \in Nat,
         LockGiven(h) \/ LockGivenBack(h, kept)
  PROVE  depth' \in [Handles -> Nat]
<1>1. CASE h \in Handles
  BY <1>1 DEF TypeOK, LockGiven, LockGivenBack
<1>2. CASE h \notin Handles
  BY <1>2 DEF TypeOK, LockGiven, LockGivenBack
<1> QED BY <1>1, <1>2

\* Every step of a server thread preserves the type invariant.
\* UnlockSharing is where LockCount could fall below -1, and ConnectAdd where
\* a value that is no handle could get into the list.
LEMMA ServeType ==
  ASSUME HandleInv, NEW t \in Clients, Serve(t)
  PROVE  TypeOK'
<1> USE DEF HandleInv
<1>1. CASE ConnectUnlocked(t)
  BY <1>1 DEF ConnectUnlocked, TypeOK, Goto, Steps
<1>2. CASE ConnectPresent(t)
  BY <1>2, NoCallType DEF ConnectPresent, TypeOK, Goto, Return, SetCall,
     Steps
<1>3. CASE ConnectPower(t)
  <2>1. call' \in [Clients -> Calls] /\ iccPowered' \in BOOLEAN
    BY <1>3, CallFields, WithType, PowerType
       DEF ConnectPower, SetCall, TypeOK, Results
  <2> QED BY <1>3, <2>1 DEF ConnectPower, TypeOK, Goto, Steps
<1>4. CASE ConnectPowered(t)
  BY <1>4, NoCallType, CallFields, WithType
     DEF ConnectPowered, TypeOK, Goto, Return, SetCall, Steps, Results,
        MarkInUse, StateAfterReset
<1>5. CASE ConnectProtocol(t)
  <2>1. WithCard(call[t], icc) \in Calls
    BY CallFields, WithType DEF TypeOK
  <2> QED BY <1>5, <2>1, NoCallType
          DEF ConnectProtocol, TypeOK, Goto, Return, SetCall, Steps,
              IsNegotiated
<1>6. CASE ConnectLock(t)
  <2>1. call' \in [Clients -> Calls]
    BY <1>6, CallFields, WithType DEF ConnectLock, SetCall, TypeOK
  <2>2. contexts' \in Int
    BY <1>6 DEF ConnectLock, TypeOK
  <2> QED BY <1>6, <2>1, <2>2 DEF ConnectLock, TypeOK, Goto, Steps
<1>50. CASE ConnectExclusive(t)
  BY <1>50 DEF ConnectExclusive, TypeOK, Goto, Steps, EXCLUSIVE_CONTEXT
<1>7. CASE ConnectSharingViolation(t)
  BY <1>7, NoCallType
     DEF ConnectSharingViolation, TypeOK, Goto, Return, SetCall, Steps
<1>8. CASE ConnectLockSharing(t)
  BY <1>8, CallFields, LockType, DepthType DEF ConnectLockSharing, TypeOK,
     Goto, Steps
<1>9. CASE ConnectAdd(t)
  BY <1>9 DEF ConnectAdd, TypeOK, Goto, Steps, RFAddReaderHandle,
     UnlockLockMutex,
        ThreadOK, NewSteps
<1>10. CASE ConnectAddFails(t)
  BY <1>10 DEF ConnectAddFails, TypeOK, Goto, Steps, UnlockLockMutex
<1>11. CASE ConnectUndo(t)
  BY <1>11, NoCallType DEF ConnectUndo, TypeOK, Goto, Return, SetCall, Steps
<1>12. CASE ConnectUndone(t)
  BY <1>12, NoCallType DEF ConnectUndone, TypeOK, Goto, Return, SetCall,
     Steps, NO_CONTEXT
<1>13. CASE MSGAddHandle(t)
  <2>1. call[t].hCard \in Handles
    BY <1>13 DEF MSGAddHandle, ThreadOK
  <2>2. cardsList' \in [Clients -> SUBSET Handles]
    BY <1>13, <2>1 DEF MSGAddHandle, TypeOK
  <2>3. /\ shareMode' \in [Handles -> AllModes \cup {"NONE"}]
        /\ cardOf' \in [Handles -> Nat]
    BY <1>13, CallFields DEF MSGAddHandle, TypeOK
  <2>4. pc' \in [Clients -> Steps] /\ call' \in [Clients -> Calls]
    BY <1>13, NoCallType
       DEF MSGAddHandle, GiveBackHandle, Return, Goto, SetCall, TypeOK, Steps
  <2> QED BY <1>13, <2>2, <2>3, <2>4 DEF MSGAddHandle, TypeOK
<1>14. CASE DisconnectUnlocked(t)
  BY <1>14 DEF DisconnectUnlocked, TypeOK, Goto, Steps
<1>15. CASE DisconnectUnlock(t)
  BY <1>15, CallFields, WithType
     DEF DisconnectUnlock, TypeOK, Goto, SetCall, Steps, Results,
        RFUnlockAllSharing
<1>16. CASE DisconnectNotify(t)
  BY <1>16 DEF DisconnectNotify, TypeOK, Goto, Steps, RFSetReaderEventState
<1>17. CASE DisconnectPower(t)
  BY <1>17, CallFields, WithType, PowerType
     DEF DisconnectPower, TypeOK, Goto, SetCall, Steps, Results
<1>18. CASE DisconnectUnpower(t)
  BY <1>18 DEF DisconnectUnpower, TypeOK, Goto, Steps
<1>19. CASE DisconnectState(t)
  BY <1>19, CallFields, WithType
     DEF DisconnectState, TypeOK, Goto, SetCall, Steps, Results,
        StateAfterReset
<1>20. CASE DisconnectRemove(t)
  <2>1. /\ shareMode' \in [Handles -> AllModes \cup {"NONE"}]
        /\ depth' \in [Handles -> Nat]
        /\ cardOf' \in [Handles -> Nat]
    BY <1>20 DEF DisconnectRemove, TypeOK
  <2>2. /\ handlesList' \subseteq Handles
        /\ dwEventStatus' \in [Handles -> {"NONE", "RESET", "REMOVED"}]
    BY <1>20 DEF DisconnectRemove, RFRemoveReaderHandle, TypeOK
  <2> QED BY <1>20, <2>1, <2>2 DEF DisconnectRemove, TypeOK, Goto, Steps
<1>21. CASE DisconnectCount(t)
  BY <1>21 DEF DisconnectCount, TypeOK, Goto, Steps
<1>22. CASE DisconnectDecrement(t)
  BY <1>22 DEF DisconnectDecrement, TypeOK, Goto, Steps, RemoveConnection
<1>23. CASE DisconnectNegative(t)
  BY <1>23 DEF DisconnectNegative, TypeOK, Goto, Steps
<1>24. CASE DisconnectNone(t)
  BY <1>24 DEF DisconnectNone, TypeOK, Goto, Steps, NO_CONTEXT
<1>25. CASE DisconnectGrace(t)
  BY <1>25 DEF DisconnectGrace, TypeOK, Goto, Steps
<1>26. CASE DisconnectUnused(t)
  BY <1>26 DEF DisconnectUnused, TypeOK, Goto, Steps, MarkUnused
<1>27. CASE DisconnectReturn(t)
  BY <1>27, NoCallType
     DEF DisconnectReturn, TypeOK, Goto, Return, SetCall, Steps
<1>51. CASE ReconnectPresent(t)
  BY <1>51, NoCallType DEF ReconnectPresent, TypeOK, Goto, Return, SetCall,
     Steps
<1>28. CASE ReconnectNotify(t)
  BY <1>28 DEF ReconnectNotify, TypeOK, Goto, Steps, RFSetReaderEventState
<1>29. CASE ReconnectPower(t)
  BY <1>29, CallFields, WithType, PowerType
     DEF ReconnectPower, TypeOK, Goto, SetCall, Steps, Results
<1>30. CASE ReconnectState(t)
  BY <1>30, NoCallType
     DEF ReconnectState, TypeOK, Goto, Return, SetCall, Steps, StateAfterReset
<1>31. CASE ReconnectProtocol(t)
  <2>1. WithCard(call[t], icc) \in Calls
    BY CallFields, WithType DEF TypeOK
  <2> QED BY <1>31, <2>1, NoCallType
          DEF ReconnectProtocol, TypeOK, Goto, Return, SetCall, Steps,
              IsNegotiated
<1>32. CASE ReconnectInUse(t)
  BY <1>32 DEF ReconnectInUse, TypeOK, Goto, Steps, MarkInUse
<1>33. CASE ReconnectShare(t)
  BY <1>33, NoCallType DEF ReconnectShare, TypeOK, Goto, Return, SetCall,
     Steps
<1>34. CASE ReconnectExclusive(t)
  BY <1>34 DEF ReconnectExclusive, TypeOK, Goto, Steps, EXCLUSIVE_CONTEXT
<1>35. CASE ReconnectLock(t)
  BY <1>35, CallFields, LockType, DepthType DEF ReconnectLock, TypeOK,
     Goto, Steps
<1>36. CASE ReconnectUnlock(t)
  <2>1. depth' \in [Handles -> Nat]
    <3>1. LockGivenBack(call[t].hCard, 0)
      BY <1>36 DEF ReconnectUnlock
    <3> QED BY <3>1, CallFields, DepthType
  <2> QED BY <1>36, <2>1 DEF ReconnectUnlock, TypeOK, Goto, Steps, UnlockSteps
<1>37. CASE ReconnectCount(t)
  BY <1>37 DEF ReconnectCount, TypeOK, Goto, Steps, LAST_CONTEXT
<1>38. CASE ReconnectClear(t)
  <2>1. shareMode' \in [Handles -> AllModes \cup {"NONE"}] /\ cardOf' \in
     [Handles -> Nat]
    BY <1>38, CallFields DEF ReconnectClear, TypeOK
  <2>2. dwEventStatus' \in [Handles -> {"NONE", "RESET", "REMOVED"}]
    BY <1>38 DEF ReconnectClear, RFClearReaderEventState, TypeOK
  <2> QED BY <1>38, <2>1, <2>2, NoCallType DEF ReconnectClear, TypeOK,
     Goto, Return, SetCall, Steps
<1>39. CASE BeginLock(t)
  BY <1>39, CallFields, LockType, DepthType, NoCallType DEF BeginLock,
     TypeOK, Goto, Return, SetCall, Steps
<1>40. CASE EndPower(t)
  BY <1>40, CallFields, WithType, PowerType
     DEF EndPower, TypeOK, Goto, SetCall, Steps, Results
<1>41. CASE EndNotify(t)
  BY <1>41 DEF EndNotify, TypeOK, Goto, Steps, RFSetReaderEventState,
        StateAfterReset
<1>42. CASE EndUnlock(t)
  <2>1. depth' \in [Handles -> Nat]
    <3>1. PICK kept \in Nat : LockGivenBack(call[t].hCard, kept)
      BY <1>42 DEF EndUnlock
    <3> QED BY <3>1, CallFields, DepthType
  <2> QED BY <1>42, <2>1, NoCallType
          DEF EndUnlock, TypeOK, Goto, Return, SetCall, Steps, UnlockSteps
<1>43. CASE UnlockSharing(t)
  <2>1. LockCount >= 0
    BY <1>43 DEF UnlockSharing, OneUnlocks
  <2> QED BY <1>43, <2>1, NoCallType
          DEF UnlockSharing, TypeOK, Goto, Return, SetCall, Steps
<1>44. CASE DriverReturns(t)
  BY <1>44, NoCallType DEF DriverReturns, TypeOK, Goto, Return, SetCall,
     Steps
<1>45. CASE DriverNoCard(t)
  BY <1>45, NoCallType DEF DriverNoCard, TypeOK, Goto, Return, SetCall, Steps
<1>46. CASE MSGRemoveContext(t)
  <2>1. call' \in [Clients -> Calls]
    <3>1. PICK h \in cardsList[t] :
            SetCall(t, HandleCall("RELEASE_CONTEXT", h, "LEAVE"))
      BY <1>46 DEF MSGRemoveContext
    <3>2. HandleCall("RELEASE_CONTEXT", h, "LEAVE") \in Calls
      <4>1. "RELEASE_CONTEXT" \in AllCommands /\ "LEAVE" \in AllDispositions
        BY DEF AllCommands, AllDispositions
      <4>2. h \in Handles
        BY DEF TypeOK
      <4> QED BY <4>1, <4>2, HandleCallType
    <3> QED BY <3>1, <3>2 DEF SetCall, TypeOK
  <2>2. pc' \in [Clients -> Steps]
    BY <1>46 DEF MSGRemoveContext, Goto, RemoveEntry, DisconnectEntry,
       TypeOK, Steps
  <2> QED BY <1>46, <2>1, <2>2 DEF MSGRemoveContext, TypeOK
<1>47. CASE RemoveUnlock(t)
  BY <1>47 DEF RemoveUnlock, TypeOK, Goto, Steps
<1>48. CASE RemoveStatus(t)
  BY <1>48, CallFields, WithType
     DEF RemoveStatus, TypeOK, Goto, SetCall, Steps, DisconnectEntry,
        AllCommands, AllDispositions
<1>49. CASE ContextRemoved(t)
  BY <1>49 DEF ContextRemoved, TypeOK, Goto, Steps
<1> QED
  BY <1>1, <1>2, <1>3, <1>4, <1>5, <1>6, <1>7, <1>8, <1>9, <1>10, <1>11,
     <1>12, <1>13, <1>14, <1>15, <1>16, <1>17, <1>18, <1>19, <1>20, <1>21,
     <1>22, <1>23, <1>24, <1>25, <1>26, <1>27, <1>28, <1>29, <1>30, <1>31,
     <1>32, <1>33, <1>34, <1>35, <1>36, <1>37, <1>38, <1>39, <1>40, <1>41,
     <1>42, <1>43, <1>44, <1>45, <1>46, <1>47, <1>48, <1>49, <1>50, <1>51
  DEF Serve

\* Accepting a command preserves the type invariant.
LEMMA RequestType ==
  ASSUME HandleInv, NEW t \in Clients, Request(t)
  PROVE  TypeOK'
<1> USE DEF HandleInv
<1>1. CASE SCardEstablishContext(t)
  BY <1>1 DEF SCardEstablishContext, TypeOK
<1>2. CASE SCardConnect(t)
  <2>1. ASSUME NEW mode \in ConnectModes, NEW pref \in Preferences
        PROVE  Call("CONNECT", NoHandle, mode, pref, "LEAVE") \in Calls
    BY CallType, ConstantsAssumption DEF AllCommands, AllDispositions
  <2> QED BY <1>2, <2>1 DEF SCardConnect, TypeOK, Goto, SetCall, Steps
<1>3. CASE SCardReconnect(t)
  <2>1. ASSUME NEW h \in Handles, NEW mode \in ReconnectModes,
               NEW pref \in Preferences, NEW disp \in Dispositions
        PROVE  Call("RECONNECT", h, mode, pref, disp) \in Calls
    BY CallType, ConstantsAssumption DEF AllCommands
  <2> QED BY <1>3, <2>1 DEF SCardReconnect, TypeOK, Goto, SetCall, Steps
<1>4. CASE SCardDisconnect(t)
  <2>1. ASSUME NEW h \in Handles, NEW disp \in Dispositions
        PROVE  HandleCall("DISCONNECT", h, disp) \in Calls
    BY HandleCallType, ConstantsAssumption DEF AllCommands
  <2>2. call' \in [Clients -> Calls]
    BY <1>4, <2>1 DEF SCardDisconnect, SetCall, TypeOK
  <2>3. pc' \in [Clients -> Steps]
    <3>1. PICK h \in Handles, disp \in Dispositions :
            Goto(t, DisconnectEntry(h, disp))
      BY <1>4 DEF SCardDisconnect
    <3> QED BY <3>1 DEF Goto, DisconnectEntry, TypeOK, Steps
  <2> QED BY <1>4, <2>2, <2>3 DEF SCardDisconnect, TypeOK
<1>5. CASE SCardBeginTransaction(t)
  <2>1. ASSUME NEW h \in Handles
        PROVE  HandleCall("BEGIN_TRANSACTION", h, "LEAVE") \in Calls
    BY HandleCallType DEF AllCommands, AllDispositions
  <2> QED BY <1>5, <2>1 DEF SCardBeginTransaction, TypeOK, Goto, SetCall, Steps
<1>6. CASE SCardEndTransaction(t)
  <2>1. ASSUME NEW h \in Handles, NEW disp \in Dispositions
        PROVE  HandleCall("END_TRANSACTION", h, disp) \in Calls
    BY HandleCallType, ConstantsAssumption DEF AllCommands
  <2> QED BY <1>6, <2>1 DEF SCardEndTransaction, TypeOK, Goto, SetCall, Steps
<1>7. ASSUME NEW cmd \in AllCommands, NEW h \in Handles, CallDriver(t, cmd, h)
      PROVE  TypeOK'
  <2>1. HandleCall(cmd, h, "LEAVE") \in Calls
    BY HandleCallType DEF AllDispositions
  <2> QED BY <1>7, <2>1 DEF CallDriver, TypeOK, Goto, SetCall, Steps
<1>8. CASE SCardTransmit(t) \/ SCardControl(t) \/ SCardAttrib(t)
  BY <1>7, <1>8 DEF SCardTransmit, SCardControl, SCardAttrib, AllCommands
<1>9. CASE SCardReleaseContext(t)
  BY <1>9 DEF SCardReleaseContext, TypeOK, Goto, Steps
<1> QED
  BY <1>1, <1>2, <1>3, <1>4, <1>5, <1>6, <1>8, <1>9 DEF Request

\* The event thread and the user preserve the type invariant.
LEMMA EventType ==
  ASSUME TypeOK, EventThread \/ User
  PROVE  TypeOK'
<1>1. CASE EHStart
  BY <1>1 DEF EHStart, TypeOK, EventSteps
<1>2. CASE EHStartPower
  <2>1. iccPowered' \in BOOLEAN
    BY <1>2, PowerType DEF EHStartPower, TypeOK
  <2> QED BY <1>2, <2>1 DEF EHStartPower, TypeOK, EventSteps
<1>15. CASE EHStartPowerState
  BY <1>15 DEF EHStartPowerState, TypeOK, EventSteps
<1>16. CASE EHStartState
  BY <1>16 DEF EHStartState, TypeOK, EventSteps
<1>3. CASE EHStatus
  BY <1>3 DEF EHStatus, TypeOK, EventSteps
<1>4. CASE EHStatusError
  BY <1>4 DEF EHStatusError, TypeOK, EventSteps
<1>5. CASE EHCardRemoved
  BY <1>5 DEF EHCardRemoved, RFSetReaderEventState, TypeOK, EventSteps
<1>6. CASE EHUnlockId
  BY <1>6 DEF EHUnlockId, TypeOK, EventSteps
<1>7. CASE EHUnlockCount
  BY <1>7 DEF EHUnlockCount, TypeOK, EventSteps
<1>8. CASE EHCardAbsent
  BY <1>8 DEF EHCardAbsent, TypeOK, EventSteps
<1>9. CASE EHCardInserted
  <2>1. iccPowered' \in BOOLEAN
    BY <1>9, PowerType DEF EHCardInserted
  <2> QED BY <1>9, <2>1 DEF EHCardInserted, TypeOK, EventSteps
<1>10. CASE EHCardPowered
  BY <1>10 DEF EHCardPowered, TypeOK, EventSteps
<1>11. CASE EHSetPowerState
  BY <1>11 DEF EHSetPowerState, TypeOK, EventSteps
<1>12. CASE EHPowerOff
  <2>1. iccPowered' \in BOOLEAN
    BY <1>12, PowerType DEF EHPowerOff, TypeOK
  <2> QED BY <1>12, <2>1 DEF EHPowerOff, TypeOK, EventSteps
<1>13. CASE InsertCard
  BY <1>13 DEF InsertCard, TypeOK
<1>14. CASE RemoveCard
  <2>1. iccPowered' \in BOOLEAN
    BY <1>14 DEF RemoveCard
  <2> QED BY <1>14, <2>1 DEF RemoveCard, TypeOK
<1> QED
  BY <1>1, <1>2, <1>3, <1>4, <1>5, <1>6, <1>7, <1>8, <1>9, <1>10, <1>11,
     <1>12, <1>13, <1>14, <1>15, <1>16 DEF EventThread, User

-----------------------------------------------------------------------------
\* The steps of RFUnlockSharing() keep to themselves: whoever else would use
\* the lock waits for SharingUnlocked.
LEMMA ServeUnlocks ==
  ASSUME HandleInv, NEW t \in Clients, Serve(t)
  PROVE  OneUnlocks'
<1> USE DEF HandleInv
<1>1. CASE \/ ConnectLockSharing(t)
           \/ DisconnectUnlock(t)
           \/ ReconnectLock(t)
           \/ BeginLock(t)
  <2>1. SharingUnlocked
    BY <1>1 DEF ConnectLockSharing, DisconnectUnlock, ReconnectLock, BeginLock
  <2>2. \A u \in Clients : pc'[u] \notin UnlockSteps
    BY <1>1, <2>1
       DEF ConnectLockSharing, DisconnectUnlock, ReconnectLock, BeginLock,
           Return, Goto, SharingUnlocked, UnlockSteps, TypeOK
  <2> QED BY <2>2 DEF OneUnlocks
<1>2. CASE ReconnectUnlock(t) \/ EndUnlock(t)
  <2>1. SharingUnlocked /\ UNCHANGED LockCount
    BY <1>2 DEF ReconnectUnlock, EndUnlock
  <2>2. \A u \in Clients \ {t} : pc'[u] \notin UnlockSteps
    BY <1>2, <2>1
       DEF ReconnectUnlock, EndUnlock, Return, Goto, SharingUnlocked, TypeOK
  <2>3. pc'[t] \in UnlockSteps =>
          RFUnlockSharing(call[t].hCard) \in UnlockSteps
    BY <1>2
       DEF ReconnectUnlock, EndUnlock, Return, Goto, UnlockSteps, TypeOK
  <2>4. pc'[t] \in UnlockSteps => LockCount >= 0
    BY <2>3 DEF RFUnlockSharing, UnlockSteps, TypeOK
  <2> QED BY <2>1, <2>2, <2>4 DEF OneUnlocks
<1>3. CASE UnlockSharing(t)
  <2>1. \A u \in Clients : pc'[u] \notin UnlockSteps
    BY <1>3 DEF UnlockSharing, Return, Goto, OneUnlocks, UnlockSteps, TypeOK
  <2> QED BY <2>1 DEF OneUnlocks
<1>4. CASE /\ UNCHANGED LockCount
           /\ \A u \in Clients \ {t} : pc'[u] = pc[u]
           /\ pc'[t] \notin UnlockSteps
  BY <1>4 DEF OneUnlocks
<1>5. CASE ConnectUnlocked(t)
  BY <1>4, <1>5 DEF ConnectUnlocked, Goto, UnlockSteps, TypeOK
<1>6. CASE ConnectPresent(t)
  BY <1>4, <1>6 DEF ConnectPresent, Goto, Return, UnlockSteps, TypeOK
<1>7. CASE ConnectPower(t)
  BY <1>4, <1>7 DEF ConnectPower, Goto, UnlockSteps, TypeOK
<1>8. CASE ConnectPowered(t)
  BY <1>4, <1>8 DEF ConnectPowered, Goto, Return, UnlockSteps, TypeOK
<1>9. CASE ConnectProtocol(t)
  BY <1>4, <1>9 DEF ConnectProtocol, Goto, Return, UnlockSteps, TypeOK
<1>10. CASE ConnectLock(t)
  BY <1>4, <1>10 DEF ConnectLock, Goto, UnlockSteps, TypeOK
<1>50. CASE ConnectExclusive(t)
  BY <1>4, <1>50 DEF ConnectExclusive, Goto, UnlockSteps, TypeOK
<1>11. CASE ConnectSharingViolation(t)
  BY <1>4, <1>11 DEF ConnectSharingViolation, Goto, Return, UnlockSteps,
     TypeOK
<1>12. CASE ConnectAdd(t)
  BY <1>4, <1>12 DEF ConnectAdd, Goto, UnlockSteps, TypeOK
<1>13. CASE ConnectAddFails(t)
  BY <1>4, <1>13 DEF ConnectAddFails, Goto, UnlockSteps, TypeOK
<1>14. CASE ConnectUndo(t)
  BY <1>4, <1>14 DEF ConnectUndo, Goto, Return, UnlockSteps, TypeOK
<1>15. CASE ConnectUndone(t)
  BY <1>4, <1>15 DEF ConnectUndone, Goto, Return, UnlockSteps, TypeOK
<1>16. CASE MSGAddHandle(t)
  BY <1>4, <1>16 DEF MSGAddHandle, Goto, Return, GiveBackHandle, UnlockSteps,
     TypeOK
<1>17. CASE DisconnectUnlocked(t)
  BY <1>4, <1>17 DEF DisconnectUnlocked, Goto, UnlockSteps, TypeOK
<1>18. CASE DisconnectNotify(t)
  BY <1>4, <1>18 DEF DisconnectNotify, Goto, UnlockSteps, TypeOK
<1>19. CASE DisconnectPower(t)
  BY <1>4, <1>19 DEF DisconnectPower, Goto, UnlockSteps, TypeOK
<1>20. CASE DisconnectUnpower(t)
  BY <1>4, <1>20 DEF DisconnectUnpower, Goto, UnlockSteps, TypeOK
<1>21. CASE DisconnectState(t)
  BY <1>4, <1>21 DEF DisconnectState, Goto, UnlockSteps, TypeOK
<1>22. CASE DisconnectRemove(t)
  BY <1>4, <1>22 DEF DisconnectRemove, Goto, UnlockSteps, TypeOK
<1>23. CASE DisconnectCount(t)
  BY <1>4, <1>23 DEF DisconnectCount, Goto, UnlockSteps, TypeOK
<1>24. CASE DisconnectDecrement(t)
  BY <1>4, <1>24 DEF DisconnectDecrement, Goto, UnlockSteps, TypeOK
<1>25. CASE DisconnectNegative(t)
  BY <1>4, <1>25 DEF DisconnectNegative, Goto, UnlockSteps, TypeOK
<1>26. CASE DisconnectNone(t)
  BY <1>4, <1>26 DEF DisconnectNone, Goto, UnlockSteps, TypeOK
<1>27. CASE DisconnectGrace(t)
  BY <1>4, <1>27 DEF DisconnectGrace, Goto, UnlockSteps, TypeOK
<1>28. CASE DisconnectUnused(t)
  BY <1>4, <1>28 DEF DisconnectUnused, Goto, UnlockSteps, TypeOK
<1>29. CASE DisconnectReturn(t)
  BY <1>4, <1>29 DEF DisconnectReturn, Goto, Return, UnlockSteps, TypeOK
<1>51. CASE ReconnectPresent(t)
  BY <1>4, <1>51 DEF ReconnectPresent, Goto, Return, UnlockSteps, TypeOK
<1>30. CASE ReconnectNotify(t)
  BY <1>4, <1>30 DEF ReconnectNotify, Goto, UnlockSteps, TypeOK
<1>31. CASE ReconnectPower(t)
  BY <1>4, <1>31 DEF ReconnectPower, Goto, UnlockSteps, TypeOK
<1>32. CASE ReconnectState(t)
  BY <1>4, <1>32 DEF ReconnectState, Goto, Return, UnlockSteps, TypeOK
<1>33. CASE ReconnectProtocol(t)
  BY <1>4, <1>33 DEF ReconnectProtocol, Goto, Return, UnlockSteps, TypeOK
<1>34. CASE ReconnectInUse(t)
  BY <1>4, <1>34 DEF ReconnectInUse, Goto, UnlockSteps, TypeOK
<1>35. CASE ReconnectShare(t)
  BY <1>4, <1>35 DEF ReconnectShare, Goto, Return, UnlockSteps, TypeOK
<1>36. CASE ReconnectExclusive(t)
  BY <1>4, <1>36 DEF ReconnectExclusive, Goto, UnlockSteps, TypeOK
<1>37. CASE ReconnectCount(t)
  BY <1>4, <1>37 DEF ReconnectCount, Goto, UnlockSteps, TypeOK
<1>38. CASE ReconnectClear(t)
  BY <1>4, <1>38 DEF ReconnectClear, Goto, Return, UnlockSteps, TypeOK
<1>39. CASE EndPower(t)
  BY <1>4, <1>39 DEF EndPower, Goto, UnlockSteps, TypeOK
<1>40. CASE EndNotify(t)
  BY <1>4, <1>40 DEF EndNotify, Goto, UnlockSteps, TypeOK
<1>41. CASE DriverReturns(t)
  BY <1>4, <1>41 DEF DriverReturns, Goto, Return, UnlockSteps, TypeOK
<1>42. CASE DriverNoCard(t)
  BY <1>4, <1>42 DEF DriverNoCard, Goto, Return, UnlockSteps, TypeOK
<1>43. CASE MSGRemoveContext(t)
  BY <1>4, <1>43 DEF MSGRemoveContext, Goto, RemoveEntry, DisconnectEntry,
     UnlockSteps, TypeOK
<1>44. CASE RemoveUnlock(t)
  BY <1>4, <1>44 DEF RemoveUnlock, Goto, UnlockSteps, TypeOK
<1>45. CASE RemoveStatus(t)
  BY <1>4, <1>45 DEF RemoveStatus, Goto, DisconnectEntry, UnlockSteps, TypeOK
<1>46. CASE ContextRemoved(t)
  BY <1>4, <1>46 DEF ContextRemoved, Goto, UnlockSteps, TypeOK
<1> QED
  BY <1>1, <1>2, <1>3, <1>5, <1>6, <1>7, <1>8, <1>9, <1>10, <1>11, <1>12,
     <1>13, <1>14, <1>15, <1>16, <1>17, <1>18, <1>19, <1>20, <1>21, <1>22,
     <1>23, <1>24, <1>25, <1>26, <1>27, <1>28, <1>29, <1>30, <1>31, <1>32,
     <1>33, <1>34, <1>35, <1>36, <1>37, <1>38, <1>39, <1>40, <1>41, <1>42,
     <1>43, <1>44, <1>45, <1>46, <1>50, <1>51 DEF Serve

\* Accepting a command neither starts RFUnlockSharing() nor changes LockCount.
LEMMA RequestUnlocks ==
  ASSUME HandleInv, NEW t \in Clients, Request(t)
  PROVE  OneUnlocks'
<1>1. UNCHANGED LockCount
  BY DEF Request, SCardEstablishContext, SCardConnect, SCardReconnect,
         SCardDisconnect, SCardBeginTransaction, SCardEndTransaction,
         SCardTransmit, SCardControl, SCardAttrib, CallDriver,
         SCardReleaseContext
<1>2. \A u \in Clients : pc'[u] = pc[u] \/ pc'[u] \notin UnlockSteps
  BY DEF Request, SCardEstablishContext, SCardConnect, SCardReconnect,
         SCardDisconnect, SCardBeginTransaction, SCardEndTransaction,
         SCardTransmit, SCardControl, SCardAttrib, CallDriver,
         SCardReleaseContext, Goto, DisconnectEntry, UnlockSteps, HandleInv,
         TypeOK
<1> QED BY <1>1, <1>2 DEF OneUnlocks, HandleInv

-----------------------------------------------------------------------------
\* What updating a local variable of a command leaves alone.
LEMMA WithFields ==
  ASSUME NEW c \in Calls
  PROVE  /\ \A rv : /\ WithResult(c, rv).cmd = c.cmd
                    /\ WithResult(c, rv).hCard = c.hCard
                    /\ WithResult(c, rv).rv = rv
         /\ \A i : /\ WithCard(c, i).cmd = c.cmd
                   /\ WithCard(c, i).hCard = c.hCard
                   /\ WithCard(c, i).rv = c.rv
         /\ \A h : /\ WithHandle(c, h).cmd = c.cmd
                   /\ WithHandle(c, h).hCard = h
                   /\ WithHandle(c, h).rv = c.rv
         /\ \A d : /\ WithDisposition(c, d).cmd = c.cmd
                   /\ WithDisposition(c, d).hCard = c.hCard
                   /\ WithDisposition(c, d).rv = c.rv
BY DEF WithResult, WithCard, WithHandle, WithDisposition, Calls

\* The fields of the idle thread's record.
LEMMA NoCallFields ==
  NoCall.cmd = "NONE" /\ NoCall.hCard = NoHandle /\ NoCall.rv = "SUCCESS"
BY DEF NoCall, HandleCall, Call

Framed(t) ==
  /\ UNCHANGED <<handlesList, connectMutex>>
  /\ \A u \in Clients \ {t} : /\ pc'[u] = pc[u]
                               /\ call'[u] = call[u]
                               /\ cardsList'[u] = cardsList[u]

KeepsOwner(t) == \A h \in Handles : Owns(t, h)' => Owns(t, h)

\* A step of t that touches only t, leaves the reader's handle list and
\* LockMutex alone, keeps t's own conditions and gives t no new handle
\* preserves HandleInv. Most steps are of this kind.
LEMMA FrameStep ==
  ASSUME HandleInv, TypeOK', OneUnlocks', NEW t \in Clients, Framed(t),
         ThreadOK(t)', KeepsOwner(t)
  PROVE  HandleInv'
<1>1. ASSUME NEW u \in Clients PROVE ThreadOK(u)'
  <2>1. CASE u = t
    BY <2>1
  <2>2. CASE u # t
    BY <2>2 DEF HandleInv, Framed, ThreadOK
  <2> QED BY <2>1, <2>2
<1>2. ASSUME NEW u \in Clients, NEW h \in Handles, Owns(u, h)'
      PROVE  Owns(u, h)
  <2>1. CASE u = t
    BY <1>2, <2>1 DEF KeepsOwner
  <2>2. CASE u # t
    BY <1>2, <2>2 DEF Framed, Owns, Forgetting
  <2> QED BY <2>1, <2>2
<1>3. Ownership'
  BY <1>2 DEF HandleInv, Ownership, Framed
<1> QED BY <1>1, <1>3 DEF HandleInv

\* Every step of a server thread preserves HandleInv. The cases that are not
\* FrameSteps are those that take or release LockMutex or change a list of
\* handles.
LEMMA ServeHandles ==
  ASSUME HandleInv, NEW t \in Clients, Serve(t)
  PROVE  HandleInv'
<1>0. /\ TypeOK' /\ TypeOK /\ ThreadOK(t) /\ call[t] \in Calls
      /\ OneUnlocks'
  BY ServeType, ServeUnlocks, CallFields DEF HandleInv
<1> USE DEF ConnectSteps, NewSteps, DisconnectSteps, HandleSteps, SureSteps
<1>1. CASE ConnectUnlocked(t)
  <2>1. Framed(t)
    BY <1>0, <1>1 DEF ConnectUnlocked, Goto, Framed, TypeOK
  <2>2. ThreadOK(t)'
    BY <1>0, <1>1 DEF ConnectUnlocked, Goto, ThreadOK, TypeOK
  <2>3. KeepsOwner(t)
    BY <1>0, <1>1 DEF ConnectUnlocked, Goto, KeepsOwner, Owns, Forgetting,
       ThreadOK, TypeOK
  <2> QED BY <1>0, <2>1, <2>2, <2>3, FrameStep
<1>2. CASE ConnectPresent(t)
  <2>1. Framed(t)
    BY <1>0, <1>2 DEF ConnectPresent, Goto, Return, SetCall, Framed, TypeOK
  <2>2. ThreadOK(t)'
    BY <1>0, <1>2, NoCallFields DEF ConnectPresent, Goto, Return, SetCall,
       ThreadOK, TypeOK
  <2>3. KeepsOwner(t)
    BY <1>0, <1>2, NoCallFields DEF ConnectPresent, Goto, Return, SetCall,
       KeepsOwner, Owns, Forgetting, ThreadOK, TypeOK
  <2> QED BY <1>0, <2>1, <2>2, <2>3, FrameStep
<1>3. CASE ConnectPower(t)
  <2>1. Framed(t)
    BY <1>0, <1>3 DEF ConnectPower, Goto, SetCall, Framed, TypeOK
  <2>2. call'[t].cmd = call[t].cmd /\ call'[t].hCard = call[t].hCard
    <3>1. PICK rv \in Results : SetCall(t, WithResult(call[t], rv))
      BY <1>3, PowerType, <1>0 DEF ConnectPower, Results
    <3> QED BY <1>0, <3>1, WithFields DEF SetCall, TypeOK
  <2>3. ThreadOK(t)'
    BY <1>0, <1>3, <2>2 DEF ConnectPower, Goto, ThreadOK, TypeOK
  <2>4. KeepsOwner(t)
    BY <1>0, <1>3, <2>2
       DEF ConnectPower, Goto, KeepsOwner, Owns, Forgetting, ThreadOK, TypeOK
  <2> QED BY <1>0, <2>1, <2>3, <2>4, FrameStep
<1>4. CASE ConnectPowered(t)
  <2>1. Framed(t)
    BY <1>0, <1>4 DEF ConnectPowered, Goto, Return, SetCall, Framed, TypeOK
  <2>2. ThreadOK(t)'
    BY <1>0, <1>4, NoCallFields, WithFields DEF ConnectPowered, Goto, Return,
       SetCall, ThreadOK, TypeOK
  <2>3. KeepsOwner(t)
    BY <1>0, <1>4, NoCallFields, WithFields DEF ConnectPowered, Goto, Return,
       SetCall, KeepsOwner, Owns, Forgetting, ThreadOK, TypeOK
  <2> QED BY <1>0, <2>1, <2>2, <2>3, FrameStep
<1>5. CASE ConnectProtocol(t)
  <2>1. Framed(t)
    BY <1>0, <1>5 DEF ConnectProtocol, Goto, Return, SetCall, Framed, TypeOK
  <2>2. ThreadOK(t)'
    BY <1>0, <1>5, NoCallFields, WithFields
       DEF ConnectProtocol, Goto, Return, SetCall,
       ThreadOK, TypeOK
  <2>3. KeepsOwner(t)
    BY <1>0, <1>5, NoCallFields, WithFields
       DEF ConnectProtocol, Goto, Return, SetCall,
       KeepsOwner, Owns, Forgetting, ThreadOK, TypeOK
  <2> QED BY <1>0, <2>1, <2>2, <2>3, FrameStep
<1>6. CASE ConnectLock(t)
  <2>0. PICK h \in Handles \ handlesList : SetCall(t, WithHandle(call[t], h))
    BY <1>6 DEF ConnectLock, RFCreateReaderHandle
  <2>1. ASSUME NEW u \in Clients PROVE ThreadOK(u)'
    <3>1. CASE u = t
      <4>1. h \notin cardsList[t]
        BY <1>6 DEF ConnectLock, HandleInv, Ownership, Owns, Forgetting
      <4>2. /\ call'[t].cmd = call[t].cmd
            /\ call'[t].hCard = h
            /\ call'[t].rv = call[t].rv
        BY <1>0, <2>0, WithFields DEF SetCall, TypeOK
      <4> QED BY <1>0, <1>6, <3>1, <4>1, <4>2
              DEF ConnectLock, Goto, ThreadOK, TypeOK
    <3>2. CASE u # t
      BY <1>0, <1>6, <3>2, ConstantsAssumption
         DEF ConnectLock, Goto, SetCall, HandleInv, ThreadOK, TypeOK
    <3> QED BY <3>1, <3>2
  <2>2. Ownership'
    BY <1>0, <1>6, WithFields, ConstantsAssumption DEF ConnectLock,
       RFCreateReaderHandle, Goto, SetCall, HandleInv, ThreadOK, Ownership,
       Owns,
       Forgetting, TypeOK
  <2> QED BY <1>0, <2>1, <2>2 DEF HandleInv
<1>50. CASE ConnectExclusive(t)
  <2>1. Framed(t)
    BY <1>0, <1>50 DEF ConnectExclusive, Goto, Framed, TypeOK
  <2>2. ThreadOK(t)'
    BY <1>0, <1>50 DEF ConnectExclusive, Goto, ThreadOK, TypeOK
  <2>3. KeepsOwner(t)
    BY <1>0, <1>50
       DEF ConnectExclusive, Goto, KeepsOwner, Owns, Forgetting, ThreadOK,
           TypeOK
  <2> QED BY <1>0, <2>1, <2>2, <2>3, FrameStep
<1>7. CASE ConnectSharingViolation(t)
  <2>1. Framed(t)
    BY <1>0, <1>7 DEF ConnectSharingViolation, Goto, Return, SetCall, Framed,
       TypeOK
  <2>2. ThreadOK(t)'
    BY <1>0, <1>7, NoCallFields DEF ConnectSharingViolation, Goto, Return,
       SetCall, ThreadOK, TypeOK
  <2>3. KeepsOwner(t)
    BY <1>0, <1>7, NoCallFields DEF ConnectSharingViolation, Goto, Return,
       SetCall, KeepsOwner, Owns, Forgetting, ThreadOK, TypeOK
  <2> QED BY <1>0, <2>1, <2>2, <2>3, FrameStep
<1>8. CASE ConnectLockSharing(t)
  <2>1. Framed(t)
    BY <1>0, <1>8 DEF ConnectLockSharing, Goto, Framed, TypeOK
  <2>2. ThreadOK(t)'
    BY <1>0, <1>8 DEF ConnectLockSharing, Goto, ThreadOK, TypeOK
  <2>3. KeepsOwner(t)
    BY <1>0, <1>8 DEF ConnectLockSharing, Goto, KeepsOwner, Owns, Forgetting,
       ThreadOK, TypeOK
  <2> QED BY <1>0, <2>1, <2>2, <2>3, FrameStep
<1>9. CASE ConnectAdd(t)
  <2>1. ASSUME NEW u \in Clients PROVE ThreadOK(u)'
    BY <1>0, <1>9, ConstantsAssumption DEF ConnectAdd, RFAddReaderHandle,
       UnlockLockMutex, Goto, HandleInv, ThreadOK, TypeOK
  <2>2. Ownership'
    BY <1>0, <1>9, ConstantsAssumption DEF ConnectAdd, RFAddReaderHandle,
       UnlockLockMutex, Goto, HandleInv, ThreadOK, Ownership, Owns,
       Forgetting, TypeOK
  <2> QED BY <1>0, <2>1, <2>2 DEF HandleInv
<1>10. CASE ConnectAddFails(t)
  <2>1. ASSUME NEW u \in Clients PROVE ThreadOK(u)'
    BY <1>0, <1>10, ConstantsAssumption DEF ConnectAddFails,
       UnlockLockMutex, Goto, HandleInv, ThreadOK, TypeOK
  <2>2. Ownership'
    BY <1>0, <1>10, ConstantsAssumption DEF ConnectAddFails,
       UnlockLockMutex, Goto, HandleInv, ThreadOK, Ownership, Owns,
       Forgetting, TypeOK
  <2> QED BY <1>0, <2>1, <2>2 DEF HandleInv
<1>11. CASE ConnectUndo(t)
  <2>1. Framed(t)
    BY <1>0, <1>11 DEF ConnectUndo, Goto, Return, SetCall, Framed, TypeOK
  <2>2. ThreadOK(t)'
    BY <1>0, <1>11, NoCallFields DEF ConnectUndo, Goto, Return, SetCall,
       ThreadOK, TypeOK
  <2>3. KeepsOwner(t)
    BY <1>0, <1>11, NoCallFields DEF ConnectUndo, Goto, Return, SetCall,
       KeepsOwner, Owns, Forgetting, ThreadOK, TypeOK
  <2> QED BY <1>0, <2>1, <2>2, <2>3, FrameStep
<1>12. CASE ConnectUndone(t)
  <2>1. Framed(t)
    BY <1>0, <1>12 DEF ConnectUndone, Goto, Return, SetCall, Framed, TypeOK
  <2>2. ThreadOK(t)'
    BY <1>0, <1>12, NoCallFields DEF ConnectUndone, Goto, Return, SetCall,
       ThreadOK, TypeOK
  <2>3. KeepsOwner(t)
    BY <1>0, <1>12, NoCallFields DEF ConnectUndone, Goto, Return, SetCall,
       KeepsOwner, Owns, Forgetting, ThreadOK, TypeOK
  <2> QED BY <1>0, <2>1, <2>2, <2>3, FrameStep
<1>13. CASE MSGAddHandle(t)
  <2>1. Framed(t)
    BY <1>0, <1>13 DEF MSGAddHandle, Goto, Return, SetCall, GiveBackHandle,
       Framed, TypeOK
  <2>2. ThreadOK(t)'
    BY <1>0, <1>13, NoCallFields DEF MSGAddHandle, Goto, Return, SetCall,
       GiveBackHandle, ThreadOK, TypeOK
  <2>3. KeepsOwner(t)
    BY <1>0, <1>13, NoCallFields DEF MSGAddHandle, Goto, Return, SetCall,
       GiveBackHandle, KeepsOwner, Owns, Forgetting, ThreadOK, TypeOK
  <2> QED BY <1>0, <2>1, <2>2, <2>3, FrameStep
<1>14. CASE DisconnectUnlocked(t)
  <2>1. Framed(t)
    BY <1>0, <1>14 DEF DisconnectUnlocked, Goto, Framed, TypeOK
  <2>2. ThreadOK(t)'
    BY <1>0, <1>14 DEF DisconnectUnlocked, Goto, ThreadOK, TypeOK
  <2>3. KeepsOwner(t)
    BY <1>0, <1>14 DEF DisconnectUnlocked, Goto, KeepsOwner, Owns, Forgetting,
       ThreadOK, TypeOK
  <2> QED BY <1>0, <2>1, <2>2, <2>3, FrameStep
<1>15. CASE DisconnectUnlock(t)
  <2>1. Framed(t)
    BY <1>0, <1>15 DEF DisconnectUnlock, Goto, SetCall, Framed, TypeOK
  <2>2. ThreadOK(t)'
    BY <1>0, <1>15, WithFields DEF DisconnectUnlock, Goto, SetCall, ThreadOK,
       TypeOK
  <2>3. KeepsOwner(t)
    BY <1>0, <1>15, WithFields DEF DisconnectUnlock, Goto, SetCall,
       KeepsOwner, Owns, Forgetting, ThreadOK, TypeOK
  <2> QED BY <1>0, <2>1, <2>2, <2>3, FrameStep
<1>16. CASE DisconnectNotify(t)
  <2>1. Framed(t)
    BY <1>0, <1>16 DEF DisconnectNotify, Goto, Framed, TypeOK
  <2>2. ThreadOK(t)'
    BY <1>0, <1>16 DEF DisconnectNotify, Goto, ThreadOK, TypeOK
  <2>3. KeepsOwner(t)
    BY <1>0, <1>16 DEF DisconnectNotify, Goto, KeepsOwner, Owns, Forgetting,
       ThreadOK, TypeOK
  <2> QED BY <1>0, <2>1, <2>2, <2>3, FrameStep
<1>17. CASE DisconnectPower(t)
  <2>1. Framed(t)
    BY <1>0, <1>17 DEF DisconnectPower, Goto, SetCall, Framed, TypeOK
  <2>2. ThreadOK(t)'
    BY <1>0, <1>17, WithFields DEF DisconnectPower, Goto, SetCall, ThreadOK,
       TypeOK
  <2>3. KeepsOwner(t)
    BY <1>0, <1>17, WithFields DEF DisconnectPower, Goto, SetCall, KeepsOwner,
       Owns, Forgetting, ThreadOK, TypeOK
  <2> QED BY <1>0, <2>1, <2>2, <2>3, FrameStep
<1>18. CASE DisconnectUnpower(t)
  <2>1. Framed(t)
    BY <1>0, <1>18 DEF DisconnectUnpower, Goto, Framed, TypeOK
  <2>2. ThreadOK(t)'
    BY <1>0, <1>18 DEF DisconnectUnpower, Goto, ThreadOK, TypeOK
  <2>3. KeepsOwner(t)
    BY <1>0, <1>18 DEF DisconnectUnpower, Goto, KeepsOwner, Owns, Forgetting,
       ThreadOK, TypeOK
  <2> QED BY <1>0, <2>1, <2>2, <2>3, FrameStep
<1>19. CASE DisconnectState(t)
  <2>1. Framed(t)
    BY <1>0, <1>19 DEF DisconnectState, Goto, SetCall, Framed, TypeOK
  <2>2. ThreadOK(t)'
    BY <1>0, <1>19, WithFields DEF DisconnectState, Goto, SetCall, ThreadOK,
       TypeOK
  <2>3. KeepsOwner(t)
    BY <1>0, <1>19, WithFields DEF DisconnectState, Goto, SetCall, KeepsOwner,
       Owns, Forgetting, ThreadOK, TypeOK
  <2> QED BY <1>0, <2>1, <2>2, <2>3, FrameStep
<1>20. CASE DisconnectRemove(t)
  <2>1. ASSUME NEW u \in Clients PROVE ThreadOK(u)'
    BY <1>0, <1>20 DEF DisconnectRemove, RFRemoveReaderHandle, Goto,
       HandleInv, ThreadOK, TypeOK
  <2>2. Ownership'
    BY <1>0, <1>20 DEF DisconnectRemove, RFRemoveReaderHandle, Goto,
       HandleInv, ThreadOK, Ownership, Owns,
       Forgetting, TypeOK
  <2> QED BY <1>0, <2>1, <2>2 DEF HandleInv
<1>21. CASE DisconnectCount(t)
  <2>1. Framed(t)
    BY <1>0, <1>21 DEF DisconnectCount, Goto, Framed, TypeOK
  <2>2. ThreadOK(t)'
    BY <1>0, <1>21 DEF DisconnectCount, Goto, ThreadOK, TypeOK
  <2>3. KeepsOwner(t)
    BY <1>0, <1>21 DEF DisconnectCount, Goto, KeepsOwner, Owns, Forgetting,
       ThreadOK, TypeOK
  <2> QED BY <1>0, <2>1, <2>2, <2>3, FrameStep
<1>22. CASE DisconnectDecrement(t)
  <2>1. Framed(t)
    BY <1>0, <1>22 DEF DisconnectDecrement, Goto, Framed, TypeOK
  <2>2. ThreadOK(t)'
    BY <1>0, <1>22 DEF DisconnectDecrement, Goto, ThreadOK, TypeOK
  <2>3. KeepsOwner(t)
    BY <1>0, <1>22 DEF DisconnectDecrement, Goto, KeepsOwner, Owns,
       Forgetting, ThreadOK, TypeOK
  <2> QED BY <1>0, <2>1, <2>2, <2>3, FrameStep
<1>23. CASE DisconnectNegative(t)
  <2>1. Framed(t)
    BY <1>0, <1>23 DEF DisconnectNegative, Goto, Framed, TypeOK
  <2>2. ThreadOK(t)'
    BY <1>0, <1>23 DEF DisconnectNegative, Goto, ThreadOK, TypeOK
  <2>3. KeepsOwner(t)
    BY <1>0, <1>23 DEF DisconnectNegative, Goto, KeepsOwner, Owns,
       Forgetting, ThreadOK, TypeOK
  <2> QED BY <1>0, <2>1, <2>2, <2>3, FrameStep
<1>24. CASE DisconnectNone(t)
  <2>1. Framed(t)
    BY <1>0, <1>24 DEF DisconnectNone, Goto, Framed, TypeOK
  <2>2. ThreadOK(t)'
    BY <1>0, <1>24 DEF DisconnectNone, Goto, ThreadOK, TypeOK
  <2>3. KeepsOwner(t)
    BY <1>0, <1>24 DEF DisconnectNone, Goto, KeepsOwner, Owns, Forgetting,
       ThreadOK, TypeOK
  <2> QED BY <1>0, <2>1, <2>2, <2>3, FrameStep
<1>25. CASE DisconnectGrace(t)
  <2>1. Framed(t)
    BY <1>0, <1>25 DEF DisconnectGrace, Goto, Framed, TypeOK
  <2>2. ThreadOK(t)'
    BY <1>0, <1>25 DEF DisconnectGrace, Goto, ThreadOK, TypeOK
  <2>3. KeepsOwner(t)
    BY <1>0, <1>25 DEF DisconnectGrace, Goto, KeepsOwner, Owns, Forgetting,
       ThreadOK, TypeOK
  <2> QED BY <1>0, <2>1, <2>2, <2>3, FrameStep
<1>26. CASE DisconnectUnused(t)
  <2>1. Framed(t)
    BY <1>0, <1>26 DEF DisconnectUnused, Goto, Framed, TypeOK
  <2>2. ThreadOK(t)'
    BY <1>0, <1>26 DEF DisconnectUnused, Goto, ThreadOK, TypeOK
  <2>3. KeepsOwner(t)
    BY <1>0, <1>26 DEF DisconnectUnused, Goto, KeepsOwner, Owns, Forgetting,
       ThreadOK, TypeOK
  <2> QED BY <1>0, <2>1, <2>2, <2>3, FrameStep
<1>27. CASE DisconnectReturn(t)
  <2>1. Framed(t)
    BY <1>0, <1>27 DEF DisconnectReturn, Goto, Return, SetCall, Framed, TypeOK
  <2>2. ThreadOK(t)'
    BY <1>0, <1>27, NoCallFields DEF DisconnectReturn, Goto, Return, SetCall,
       ThreadOK, TypeOK
  <2>3. KeepsOwner(t)
    BY <1>0, <1>27, NoCallFields DEF DisconnectReturn, Goto, Return, SetCall,
       KeepsOwner, Owns, Forgetting, ThreadOK, TypeOK
  <2> QED BY <1>0, <2>1, <2>2, <2>3, FrameStep
<1>51. CASE ReconnectPresent(t)
  <2>1. Framed(t)
    BY <1>0, <1>51 DEF ReconnectPresent, Goto, Return, SetCall, Framed, TypeOK
  <2>2. ThreadOK(t)'
    BY <1>0, <1>51, NoCallFields DEF ReconnectPresent, Goto, Return, SetCall,
       ThreadOK, TypeOK
  <2>3. KeepsOwner(t)
    BY <1>0, <1>51, NoCallFields DEF ReconnectPresent, Goto, Return, SetCall,
       KeepsOwner, Owns, Forgetting, ThreadOK, TypeOK
  <2> QED BY <1>0, <2>1, <2>2, <2>3, FrameStep
<1>28. CASE ReconnectNotify(t)
  <2>1. Framed(t)
    BY <1>0, <1>28 DEF ReconnectNotify, Goto, Framed, TypeOK
  <2>2. ThreadOK(t)'
    BY <1>0, <1>28 DEF ReconnectNotify, Goto, ThreadOK, TypeOK
  <2>3. KeepsOwner(t)
    BY <1>0, <1>28 DEF ReconnectNotify, Goto, KeepsOwner, Owns, Forgetting,
       ThreadOK, TypeOK
  <2> QED BY <1>0, <2>1, <2>2, <2>3, FrameStep
<1>29. CASE ReconnectPower(t)
  <2>1. Framed(t)
    BY <1>0, <1>29 DEF ReconnectPower, Goto, SetCall, Framed, TypeOK
  <2>2. call'[t].cmd = call[t].cmd /\ call'[t].hCard = call[t].hCard
    <3>1. PICK rv \in Results : SetCall(t, WithResult(call[t], rv))
      BY <1>29, PowerType, <1>0 DEF ReconnectPower, Results
    <3> QED BY <1>0, <3>1, WithFields DEF SetCall, TypeOK
  <2>3. ThreadOK(t)'
    BY <1>0, <1>29, <2>2 DEF ReconnectPower, Goto, ThreadOK, TypeOK
  <2>4. KeepsOwner(t)
    BY <1>0, <1>29, <2>2
       DEF ReconnectPower, Goto, KeepsOwner, Owns, Forgetting, ThreadOK, TypeOK
  <2> QED BY <1>0, <2>1, <2>3, <2>4, FrameStep
<1>30. CASE ReconnectState(t)
  <2>1. Framed(t)
    BY <1>0, <1>30 DEF ReconnectState, Goto, Return, SetCall, Framed, TypeOK
  <2>2. ThreadOK(t)'
    BY <1>0, <1>30, NoCallFields DEF ReconnectState, Goto, Return, SetCall,
       ThreadOK, TypeOK
  <2>3. KeepsOwner(t)
    BY <1>0, <1>30, NoCallFields DEF ReconnectState, Goto, Return, SetCall,
       KeepsOwner, Owns, Forgetting, ThreadOK, TypeOK
  <2> QED BY <1>0, <2>1, <2>2, <2>3, FrameStep
<1>31. CASE ReconnectProtocol(t)
  <2>1. Framed(t)
    BY <1>0, <1>31 DEF ReconnectProtocol, Goto, Return, SetCall, Framed,
       TypeOK
  <2>2. ThreadOK(t)'
    BY <1>0, <1>31, NoCallFields, WithFields
       DEF ReconnectProtocol, Goto, Return, SetCall,
       ThreadOK, TypeOK
  <2>3. KeepsOwner(t)
    BY <1>0, <1>31, NoCallFields, WithFields
       DEF ReconnectProtocol, Goto, Return, SetCall,
       KeepsOwner, Owns, Forgetting, ThreadOK, TypeOK
  <2> QED BY <1>0, <2>1, <2>2, <2>3, FrameStep
<1>32. CASE ReconnectInUse(t)
  <2>1. Framed(t)
    BY <1>0, <1>32 DEF ReconnectInUse, Goto, Framed, TypeOK
  <2>2. ThreadOK(t)'
    BY <1>0, <1>32 DEF ReconnectInUse, Goto, ThreadOK, TypeOK
  <2>3. KeepsOwner(t)
    BY <1>0, <1>32 DEF ReconnectInUse, Goto, KeepsOwner, Owns, Forgetting,
       ThreadOK, TypeOK
  <2> QED BY <1>0, <2>1, <2>2, <2>3, FrameStep
<1>33. CASE ReconnectShare(t)
  <2>1. Framed(t)
    BY <1>0, <1>33 DEF ReconnectShare, Goto, Return, SetCall, Framed, TypeOK
  <2>2. ThreadOK(t)'
    BY <1>0, <1>33, NoCallFields DEF ReconnectShare, Goto, Return, SetCall,
       ThreadOK, TypeOK
  <2>3. KeepsOwner(t)
    BY <1>0, <1>33, NoCallFields DEF ReconnectShare, Goto, Return, SetCall,
       KeepsOwner, Owns, Forgetting, ThreadOK, TypeOK
  <2> QED BY <1>0, <2>1, <2>2, <2>3, FrameStep
<1>34. CASE ReconnectExclusive(t)
  <2>1. Framed(t)
    BY <1>0, <1>34 DEF ReconnectExclusive, Goto, Framed, TypeOK
  <2>2. ThreadOK(t)'
    BY <1>0, <1>34 DEF ReconnectExclusive, Goto, ThreadOK, TypeOK
  <2>3. KeepsOwner(t)
    BY <1>0, <1>34 DEF ReconnectExclusive, Goto, KeepsOwner, Owns,
       Forgetting, ThreadOK, TypeOK
  <2> QED BY <1>0, <2>1, <2>2, <2>3, FrameStep
<1>35. CASE ReconnectLock(t)
  <2>1. Framed(t)
    BY <1>0, <1>35 DEF ReconnectLock, Goto, Framed, TypeOK
  <2>2. ThreadOK(t)'
    BY <1>0, <1>35 DEF ReconnectLock, Goto, ThreadOK, TypeOK
  <2>3. KeepsOwner(t)
    BY <1>0, <1>35 DEF ReconnectLock, Goto, KeepsOwner, Owns, Forgetting,
       ThreadOK, TypeOK
  <2> QED BY <1>0, <2>1, <2>2, <2>3, FrameStep
<1>36. CASE ReconnectUnlock(t)
  <2>1. Framed(t)
    BY <1>0, <1>36 DEF ReconnectUnlock, Goto, UnlockSteps, Framed, TypeOK
  <2>2. ThreadOK(t)'
    BY <1>0, <1>36 DEF ReconnectUnlock, Goto, UnlockSteps, ThreadOK, TypeOK
  <2>3. KeepsOwner(t)
    BY <1>0, <1>36 DEF ReconnectUnlock, Goto, UnlockSteps, KeepsOwner, Owns,
       Forgetting, ThreadOK, TypeOK
  <2> QED BY <1>0, <2>1, <2>2, <2>3, FrameStep
<1>37. CASE ReconnectCount(t)
  <2>1. Framed(t)
    BY <1>0, <1>37 DEF ReconnectCount, Goto, Framed, TypeOK
  <2>2. ThreadOK(t)'
    BY <1>0, <1>37 DEF ReconnectCount, Goto, ThreadOK, TypeOK
  <2>3. KeepsOwner(t)
    BY <1>0, <1>37 DEF ReconnectCount, Goto, KeepsOwner, Owns, Forgetting,
       ThreadOK, TypeOK
  <2> QED BY <1>0, <2>1, <2>2, <2>3, FrameStep
<1>38. CASE ReconnectClear(t)
  <2>1. Framed(t)
    BY <1>0, <1>38 DEF ReconnectClear, Goto, Return, SetCall, Framed, TypeOK
  <2>2. ThreadOK(t)'
    BY <1>0, <1>38, NoCallFields DEF ReconnectClear, Goto, Return, SetCall,
       ThreadOK, TypeOK
  <2>3. KeepsOwner(t)
    BY <1>0, <1>38, NoCallFields DEF ReconnectClear, Goto, Return, SetCall,
       KeepsOwner, Owns, Forgetting, ThreadOK, TypeOK
  <2> QED BY <1>0, <2>1, <2>2, <2>3, FrameStep
<1>39. CASE BeginLock(t)
  <2>1. Framed(t)
    BY <1>0, <1>39 DEF BeginLock, Goto, Return, SetCall, Framed, TypeOK
  <2>2. ThreadOK(t)'
    BY <1>0, <1>39, NoCallFields DEF BeginLock, Goto, Return, SetCall,
       ThreadOK, TypeOK
  <2>3. KeepsOwner(t)
    BY <1>0, <1>39, NoCallFields DEF BeginLock, Goto, Return, SetCall,
       KeepsOwner, Owns, Forgetting, ThreadOK, TypeOK
  <2> QED BY <1>0, <2>1, <2>2, <2>3, FrameStep
<1>40. CASE EndPower(t)
  <2>1. Framed(t)
    BY <1>0, <1>40 DEF EndPower, Goto, SetCall, Framed, TypeOK
  <2>2. ThreadOK(t)'
    BY <1>0, <1>40, WithFields DEF EndPower, Goto, SetCall, ThreadOK, TypeOK
  <2>3. KeepsOwner(t)
    BY <1>0, <1>40, WithFields DEF EndPower, Goto, SetCall, KeepsOwner, Owns,
       Forgetting, ThreadOK, TypeOK
  <2> QED BY <1>0, <2>1, <2>2, <2>3, FrameStep
<1>41. CASE EndNotify(t)
  <2>1. Framed(t)
    BY <1>0, <1>41 DEF EndNotify, Goto, Framed, TypeOK
  <2>2. ThreadOK(t)'
    BY <1>0, <1>41 DEF EndNotify, Goto, ThreadOK, TypeOK
  <2>3. KeepsOwner(t)
    BY <1>0, <1>41 DEF EndNotify, Goto, KeepsOwner, Owns, Forgetting,
       ThreadOK, TypeOK
  <2> QED BY <1>0, <2>1, <2>2, <2>3, FrameStep
<1>42. CASE EndUnlock(t)
  <2>1. Framed(t)
    BY <1>0, <1>42 DEF EndUnlock, Goto, Return, SetCall, UnlockSteps, Framed,
       TypeOK
  <2>2. ThreadOK(t)'
    BY <1>0, <1>42, NoCallFields DEF EndUnlock, Goto, Return, SetCall,
       UnlockSteps, ThreadOK, TypeOK
  <2>3. KeepsOwner(t)
    BY <1>0, <1>42, NoCallFields DEF EndUnlock, Goto, Return, SetCall,
       UnlockSteps, KeepsOwner, Owns, Forgetting, ThreadOK, TypeOK
  <2> QED BY <1>0, <2>1, <2>2, <2>3, FrameStep
<1>43. CASE UnlockSharing(t)
  <2>1. Framed(t)
    BY <1>0, <1>43 DEF UnlockSharing, Goto, Return, SetCall, UnlockSteps,
       Framed, TypeOK
  <2>2. ThreadOK(t)'
    BY <1>0, <1>43, NoCallFields DEF UnlockSharing, Goto, Return, SetCall,
       UnlockSteps, ThreadOK, TypeOK
  <2>3. KeepsOwner(t)
    BY <1>0, <1>43, NoCallFields DEF UnlockSharing, Goto, Return, SetCall,
       UnlockSteps, KeepsOwner, Owns, Forgetting, ThreadOK, TypeOK
  <2> QED BY <1>0, <2>1, <2>2, <2>3, FrameStep
<1>44. CASE DriverReturns(t)
  <2>1. Framed(t)
    BY <1>0, <1>44 DEF DriverReturns, Goto, Return, SetCall, Framed, TypeOK
  <2>2. ThreadOK(t)'
    BY <1>0, <1>44, NoCallFields DEF DriverReturns, Goto, Return, SetCall,
       ThreadOK, TypeOK
  <2>3. KeepsOwner(t)
    BY <1>0, <1>44, NoCallFields DEF DriverReturns, Goto, Return, SetCall,
       KeepsOwner, Owns, Forgetting, ThreadOK, TypeOK
  <2> QED BY <1>0, <2>1, <2>2, <2>3, FrameStep
<1>45. CASE DriverNoCard(t)
  <2>1. Framed(t)
    BY <1>0, <1>45 DEF DriverNoCard, Goto, Return, SetCall, Framed, TypeOK
  <2>2. ThreadOK(t)'
    BY <1>0, <1>45, NoCallFields DEF DriverNoCard, Goto, Return, SetCall,
       ThreadOK, TypeOK
  <2>3. KeepsOwner(t)
    BY <1>0, <1>45, NoCallFields DEF DriverNoCard, Goto, Return, SetCall,
       KeepsOwner, Owns, Forgetting, ThreadOK, TypeOK
  <2> QED BY <1>0, <2>1, <2>2, <2>3, FrameStep
<1>46. CASE MSGRemoveContext(t)
  <2>1. Framed(t)
    BY <1>0, <1>46 DEF MSGRemoveContext, Goto, SetCall, Framed, TypeOK
  <2>2. PICK h \in cardsList[t] :
          /\ SetCall(t, HandleCall("RELEASE_CONTEXT", h, "LEAVE"))
          /\ Goto(t, RemoveEntry(h))
    BY <1>46 DEF MSGRemoveContext
  <2>3. h \in handlesList
    BY <1>0, <1>46 DEF MSGRemoveContext, HandleInv, Ownership, Owns,
       Forgetting,
                   TypeOK
  <2>4. pc'[t] \in {"removeUnlock", "disconnectUnlock"}
    BY <1>0, <2>2, <2>3 DEF Goto, RemoveEntry, DisconnectEntry, TypeOK
  <2>5. /\ call'[t].cmd = "RELEASE_CONTEXT"
        /\ call'[t].hCard = h
        /\ call'[t].rv = "SUCCESS"
    BY <1>0, <2>2 DEF SetCall, HandleCall, Call, TypeOK
  <2>6. UNCHANGED cardsList
    BY <1>46 DEF MSGRemoveContext
  <2>7. ThreadOK(t)'
    BY <1>0, <2>3, <2>4, <2>5, <2>6 DEF ThreadOK, TypeOK
  <2>8. KeepsOwner(t)
    BY <1>46, <2>4, <2>5, <2>6
       DEF MSGRemoveContext, KeepsOwner, Owns, Forgetting
  <2> QED BY <1>0, <2>1, <2>7, <2>8, FrameStep
<1>47. CASE RemoveUnlock(t)
  <2>1. Framed(t)
    BY <1>0, <1>47 DEF RemoveUnlock, Goto, Framed, TypeOK
  <2>2. ThreadOK(t)'
    BY <1>0, <1>47 DEF RemoveUnlock, Goto, ThreadOK, TypeOK
  <2>3. KeepsOwner(t)
    BY <1>0, <1>47 DEF RemoveUnlock, Goto, KeepsOwner, Owns, Forgetting,
       ThreadOK, TypeOK
  <2> QED BY <1>0, <2>1, <2>2, <2>3, FrameStep
<1>48. CASE RemoveStatus(t)
  <2>1. Framed(t)
    BY <1>0, <1>48 DEF RemoveStatus, Goto, SetCall, Framed, TypeOK
  <2>2. PICK disp : /\ SetCall(t, WithDisposition(call[t], disp))
                    /\ Goto(t, DisconnectEntry(call[t].hCard, disp))
    BY <1>48 DEF RemoveStatus
  <2>3. call[t].hCard \in handlesList
    BY <1>0, <1>48 DEF RemoveStatus, ThreadOK, HandleInv, Ownership, Owns,
                   Forgetting, TypeOK
  <2>4. pc'[t] \in {"disconnectWait", "disconnectUnlock"}
    BY <1>0, <2>2, <2>3 DEF Goto, DisconnectEntry, TypeOK
  <2>5. /\ call'[t].cmd = call[t].cmd
        /\ call'[t].hCard = call[t].hCard
        /\ call'[t].rv = call[t].rv
    BY <1>0, <2>2, WithFields DEF SetCall, TypeOK
  <2>6. UNCHANGED cardsList
    BY <1>48 DEF RemoveStatus
  <2>7. call[t].cmd = "RELEASE_CONTEXT"
    BY <1>0, <1>48 DEF RemoveStatus, ThreadOK
  <2>8. ThreadOK(t)'
    BY <1>0, <1>48, <2>3, <2>4, <2>5, <2>6, <2>7 DEF RemoveStatus,
       ThreadOK, TypeOK
  <2>9. KeepsOwner(t)
    BY <1>48, <2>4, <2>5, <2>6, <2>7 DEF RemoveStatus, KeepsOwner, Owns,
       Forgetting
  <2> QED BY <1>0, <2>1, <2>8, <2>9, FrameStep
<1>49. CASE ContextRemoved(t)
  <2>1. Framed(t)
    BY <1>0, <1>49 DEF ContextRemoved, Goto, Framed, TypeOK
  <2>2. ThreadOK(t)'
    BY <1>0, <1>49 DEF ContextRemoved, Goto, ThreadOK, TypeOK
  <2>3. KeepsOwner(t)
    BY <1>0, <1>49 DEF ContextRemoved, Goto, KeepsOwner, Owns, Forgetting,
       ThreadOK, TypeOK
  <2> QED BY <1>0, <2>1, <2>2, <2>3, FrameStep
<1> QED
  BY <1>1, <1>2, <1>3, <1>4, <1>5, <1>6, <1>7, <1>8, <1>9, <1>10, <1>11,
     <1>12, <1>13, <1>14, <1>15, <1>16, <1>17, <1>18, <1>19, <1>20, <1>21,
     <1>22, <1>23, <1>24, <1>25, <1>26, <1>27, <1>28, <1>29, <1>30, <1>31,
     <1>32, <1>33, <1>34, <1>35, <1>36, <1>37, <1>38, <1>39, <1>40, <1>41,
     <1>42, <1>43, <1>44, <1>45, <1>46, <1>47, <1>48, <1>49, <1>50, <1>51
  DEF Serve

\* Accepting a command preserves HandleInv: the handle has passed
\* MSGCheckHandleAssociation().
LEMMA RequestHandles ==
  ASSUME HandleInv, NEW t \in Clients, Request(t)
  PROVE  HandleInv'
<1>0. /\ TypeOK' /\ TypeOK /\ ThreadOK(t) /\ call[t] \in Calls
      /\ OneUnlocks'
  BY RequestType, RequestUnlocks, CallFields DEF HandleInv
<1> USE DEF ConnectSteps, NewSteps, DisconnectSteps, HandleSteps, SureSteps
<1>1. CASE SCardEstablishContext(t)
  <2>1. Framed(t) /\ ThreadOK(t)'
    BY <1>0, <1>1 DEF SCardEstablishContext, Framed, ThreadOK
  <2>2. KeepsOwner(t)
    BY <1>1 DEF SCardEstablishContext, KeepsOwner, Owns, Forgetting
  <2> QED BY <1>0, <2>1, <2>2, FrameStep
<1>2. CASE SCardConnect(t)
  <2>1. Framed(t)
    BY <1>0, <1>2 DEF SCardConnect, Goto, SetCall, Framed, TypeOK
  <2>2. /\ call'[t].cmd = "CONNECT"
        /\ call'[t].hCard = NoHandle
        /\ call'[t].rv = "SUCCESS"
    BY <1>0, <1>2 DEF SCardConnect, SetCall, Call, TypeOK
  <2>3. ThreadOK(t)'
    BY <1>0, <1>2, <2>2, ConstantsAssumption
       DEF SCardConnect, Goto, ThreadOK, TypeOK
  <2>4. KeepsOwner(t)
    BY <1>0, <1>2 DEF SCardConnect, Goto, KeepsOwner, Owns, Forgetting, TypeOK
  <2> QED BY <1>0, <2>1, <2>3, <2>4, FrameStep
<1>3. ASSUME NEW cmd \in AllCommands \ {"CONNECT", "RELEASE_CONTEXT"},
             NEW h \in cardsList[t],
             NEW step \in HandleSteps \ {"removeUnlock", "removeStatus"},
             pc[t] = "idle", Goto(t, step), Framed(t), UNCHANGED cardsList,
             call'[t].cmd = cmd, call'[t].hCard = h
      PROVE  HandleInv'
  <2>1. ThreadOK(t)'
    BY <1>0, <1>3 DEF Goto, ThreadOK, TypeOK
  <2>2. KeepsOwner(t)
    BY <1>0, <1>3 DEF Goto, KeepsOwner, Owns, Forgetting, TypeOK
  <2> QED BY <1>0, <1>3, <2>1, <2>2, FrameStep
<1>4. CASE SCardReconnect(t)
  <2>1. PICK h \in cardsList[t], mode \in ReconnectModes,
             pref \in Preferences, disp \in Dispositions :
          /\ SetCall(t, Call("RECONNECT", h, mode, pref, disp))
          /\ \/ Goto(t, "reconnectPresent")
             \/ Goto(t, "reconnectNotify")
    BY <1>4 DEF SCardReconnect, MSGCheckHandleAssociation
  <2>3. call'[t].cmd = "RECONNECT" /\ call'[t].hCard = h
    BY <1>0, <2>1 DEF SetCall, Call, TypeOK
  <2>4. Framed(t) /\ UNCHANGED cardsList /\ pc[t] = "idle"
    BY <1>0, <1>4 DEF SCardReconnect, MSGCheckHandleAssociation, Goto, SetCall,
                      Framed, TypeOK
  <2> QED BY <1>3, <2>1, <2>3, <2>4 DEF AllCommands
<1>5. CASE SCardDisconnect(t)
  <2>1. PICK h \in cardsList[t], disp \in Dispositions :
          /\ SetCall(t, HandleCall("DISCONNECT", h, disp))
          /\ Goto(t, DisconnectEntry(h, disp))
    BY <1>5 DEF SCardDisconnect, MSGCheckHandleAssociation
  <2>2. Framed(t) /\ UNCHANGED cardsList /\ pc[t] = "idle"
    BY <1>0, <1>5 DEF SCardDisconnect, MSGCheckHandleAssociation, Goto,
                      SetCall, Framed, TypeOK
  <2>3. h \in handlesList
    BY <1>0, <2>2 DEF HandleInv, Ownership, Owns, Forgetting, TypeOK
  <2>4. pc'[t] \in {"disconnectWait", "disconnectUnlock"}
    BY <1>0, <2>1, <2>3 DEF Goto, DisconnectEntry, TypeOK
  <2>6. /\ call'[t].cmd = "DISCONNECT"
        /\ call'[t].hCard = h
        /\ call'[t].rv = "SUCCESS"
    BY <1>0, <2>1 DEF SetCall, HandleCall, Call, TypeOK
  <2>7. ThreadOK(t)'
    BY <1>0, <2>2, <2>3, <2>4, <2>6 DEF ThreadOK, TypeOK
  <2>8. KeepsOwner(t)
    BY <2>2, <2>4, <2>6 DEF KeepsOwner, Owns, Forgetting
  <2> QED BY <1>0, <2>2, <2>7, <2>8, FrameStep
<1>6. CASE SCardBeginTransaction(t)
  <2>1. PICK h \in cardsList[t] :
          SetCall(t, HandleCall("BEGIN_TRANSACTION", h, "LEAVE"))
    BY <1>6 DEF SCardBeginTransaction, MSGCheckHandleAssociation
  <2>2. call'[t].cmd = "BEGIN_TRANSACTION" /\ call'[t].hCard = h
    BY <1>0, <2>1 DEF SetCall, HandleCall, Call, TypeOK
  <2>3. Framed(t) /\ UNCHANGED cardsList /\ pc[t] = "idle"
    BY <1>0, <1>6 DEF SCardBeginTransaction, MSGCheckHandleAssociation, Goto,
                      SetCall, Framed, TypeOK
  <2> QED BY <1>3, <1>6, <2>2, <2>3 DEF SCardBeginTransaction, AllCommands
<1>7. CASE SCardEndTransaction(t)
  <2>1. PICK h \in cardsList[t], disp \in Dispositions :
          /\ SetCall(t, HandleCall("END_TRANSACTION", h, disp))
          /\ Goto(t, "endPower") \/ Goto(t, "endUnlock")
    BY <1>7 DEF SCardEndTransaction, MSGCheckHandleAssociation
  <2>2. call'[t].cmd = "END_TRANSACTION" /\ call'[t].hCard = h
    BY <1>0, <2>1 DEF SetCall, HandleCall, Call, TypeOK
  <2>3. Framed(t) /\ UNCHANGED cardsList /\ pc[t] = "idle"
    BY <1>0, <1>7 DEF SCardEndTransaction, MSGCheckHandleAssociation, Goto,
                      SetCall, Framed, TypeOK
  <2> QED BY <1>3, <2>1, <2>2, <2>3 DEF AllCommands
<1>8. CASE SCardTransmit(t) \/ SCardControl(t) \/ SCardAttrib(t)
  <2>1. PICK cmd \in {"TRANSMIT", "CONTROL", "ATTRIB"}, h \in Handles :
          CallDriver(t, cmd, h)
    BY <1>8 DEF SCardTransmit, SCardControl, SCardAttrib
  <2>2. h \in cardsList[t] /\ pc[t] = "idle"
    BY <2>1 DEF CallDriver, MSGCheckHandleAssociation
  <2>3. call'[t].cmd = cmd /\ call'[t].hCard = h
    BY <1>0, <2>1 DEF CallDriver, SetCall, HandleCall, Call, TypeOK
  <2>4. Framed(t) /\ UNCHANGED cardsList /\ Goto(t, "driver")
    BY <1>0, <2>1 DEF CallDriver, Goto, SetCall, Framed, TypeOK
  <2> QED BY <1>3, <2>1, <2>2, <2>3, <2>4 DEF AllCommands
<1>9. CASE SCardReleaseContext(t)
  <2>1. Framed(t) /\ ThreadOK(t)'
    BY <1>0, <1>9 DEF SCardReleaseContext, Goto, Framed, ThreadOK, TypeOK
  <2>2. KeepsOwner(t)
    BY <1>0, <1>9
       DEF SCardReleaseContext, Goto, KeepsOwner, Owns, Forgetting, TypeOK
  <2> QED BY <1>0, <2>1, <2>2, FrameStep
<1> QED
  BY <1>1, <1>2, <1>4, <1>5, <1>6, <1>7, <1>8, <1>9 DEF Request

\* The event thread and the user change nothing HandleInv speaks of, except
\* that the event thread sets LockCount to 0.
LEMMA EventHandles ==
  ASSUME HandleInv, EventThread \/ User
  PROVE  HandleInv'
<1>1. UNCHANGED <<handlesList, threads>>
  BY DEF EventThread, User, EHStart, EHStartPower, EHStartPowerState,
         EHStartState, EHStatus, EHStatusError,
         EHCardRemoved, EHUnlockId, EHUnlockCount, EHCardAbsent,
         EHCardInserted, EHCardPowered, EHSetPowerState, EHPowerOff,
         InsertCard, RemoveCard
<1>2. TypeOK'
  BY EventType DEF HandleInv
<1>3. LockCount' \in {0, LockCount}
  BY DEF EventThread, User, EHStart, EHStartPower, EHStartPowerState,
         EHStartState, EHStatus, EHStatusError,
         EHCardRemoved, EHUnlockId, EHUnlockCount, EHCardAbsent,
         EHCardInserted, EHCardPowered, EHSetPowerState, EHPowerOff,
         InsertCard, RemoveCard
<1>4. OneUnlocks'
  BY <1>1, <1>3 DEF HandleInv, OneUnlocks, TypeOK
<1> QED BY <1>1, <1>2, <1>4
        DEF HandleInv, ThreadOK, Ownership, Owns, Forgetting

\* HandleInv holds when the daemon has started.
LEMMA HandleInvInit == Init => HandleInv
<1> SUFFICES ASSUME Init PROVE HandleInv
  OBVIOUS
<1>1. TypeOK
  <2>1. iccPowered \in BOOLEAN
    BY Zenon DEF Init
  <2>2. hContext \in [Clients -> BOOLEAN]
    BY Zenon DEF Init
  <2> QED BY <2>1, <2>2, NoCallType, ConstantsAssumption
          DEF Init, TypeOK, Steps, EventSteps, EXCLUSIVE_CONTEXT, NO_CONTEXT
<1>2. ASSUME NEW t \in Clients PROVE ThreadOK(t)
  BY NoCallFields DEF Init, ThreadOK, ConnectSteps, NewSteps, DisconnectSteps,
                      HandleSteps, SureSteps
<1>3. Ownership
  BY DEF Init, Ownership, Owns, DisconnectSteps
<1>4. OneUnlocks
  BY DEF Init, OneUnlocks, UnlockSteps
<1> QED BY <1>1, <1>2, <1>3, <1>4 DEF HandleInv

\* HandleInv is inductive.
LEMMA HandleInvStep == HandleInv /\ [Next]_vars => HandleInv'
<1> SUFFICES ASSUME HandleInv, [Next]_vars PROVE HandleInv'
  OBVIOUS
<1>1. ASSUME NEW t \in Clients, Request(t) \/ Serve(t) PROVE HandleInv'
  BY <1>1, RequestHandles, ServeHandles
<1>2. CASE EventThread \/ User
  BY <1>2, EventHandles
<1>3. CASE UNCHANGED vars
  BY <1>3 DEF vars, HandleInv, TypeOK, ThreadOK, Ownership, Owns, Forgetting,
              OneUnlocks
<1> QED BY <1>1, <1>2, <1>3 DEF Next

\* The inductive invariant holds in every reachable state: no thread ever
\* works on a handle of another client, and the handle SCardConnect() is
\* about to add is in no list.
THEOREM HandleInvariance == Spec => []HandleInv
BY HandleInvInit, HandleInvStep, PTL DEF Spec

\* Every field of the READER_CONTEXT keeps its type. The facts that are not
\* evident from the assignments: LockCount, which RFUnlockSharing() tests and
\* then decrements while the event thread may set it to 0, never falls below
\* -1, and no value but a handle gets into handlesList.
THEOREM TypeCorrectness == Spec => []TypeOK
<1>1. HandleInv => TypeOK
  BY DEF HandleInv
<1> QED BY <1>1, HandleInvariance, PTL

\* Two clients never have the same handle, and a client's handle is connected
\* to the reader, whatever values RFCreateReaderHandle() draws and however
\* connections and disconnections interleave.
THEOREM HandlesOwned == Spec => []HandlesAreOwned
<1>1. HandleInv => HandlesAreOwned
  BY DEF HandleInv, TypeOK, Ownership, Owns, HandlesAreOwned
<1> QED BY <1>1, HandleInvariance, PTL

=============================================================================
