---------------------------- MODULE SharingProofs ----------------------------
(***************************************************************************)
(* Proofs about how the clients of a reader share it: what contexts        *)
(* counts, who can release the lock, which handles outlive their client,   *)
(* what the server makes of them, and how transactions nest.  All of them  *)
(* rest on HandleInv of WinscardProofs.                                    *)
(***************************************************************************)
EXTENDS WinscardProofs, FiniteSetTheorems

USE DEF sharing, card, slot, locks, threads, event, history, others

\* Only thread t moves.
Alone(t) ==
  \A u \in Clients \ {t} : /\ pc'[u] = pc[u]
                           /\ call'[u] = call[u]
                           /\ cardsList'[u] = cardsList[u]

\* The steps of a server thread change the step, the command and the handles
\* of that thread only.
LEMMA OthersStay ==
  ASSUME TypeOK, NEW t \in Clients, Serve(t) \/ Request(t)
  PROVE  Alone(t)
<1> DEFINE Others(f, g) == \A u \in Clients \ {t} : g[u] = f[u]
<1>1. ASSUME NEW step, Goto(t, step) PROVE Others(pc, pc')
  BY <1>1 DEF Goto, TypeOK
<1>2. ASSUME NEW c, SetCall(t, c) PROVE Others(call, call')
  BY <1>2 DEF SetCall, TypeOK
<1>3. Others(pc, pc) /\ Others(call, call) /\ Others(cardsList, cardsList)
  OBVIOUS
<1>4. ASSUME NEW S, cardsList' = [cardsList EXCEPT ![t] = S]
      PROVE  Others(cardsList, cardsList')
  BY <1>4 DEF TypeOK
<1> HIDE DEF Others
<1>5. Others(pc, pc') /\ Others(call, call') /\ Others(cardsList, cardsList')
  <2>1. CASE Serve(t)
    BY <1>1, <1>2, <1>3, <1>4, <2>1
       DEF Serve, Return, GiveBackHandle, ConnectUnlocked, ConnectPresent,
           ConnectPower, ConnectPowered, ConnectProtocol, ConnectLock,
           ConnectExclusive, ConnectSharingViolation, ConnectLockSharing,
           ConnectAdd, ConnectAddFails, ConnectUndo, ConnectUndone,
           MSGAddHandle, DisconnectUnlocked, DisconnectUnlock,
           DisconnectNotify, DisconnectPower, DisconnectUnpower,
           DisconnectState, DisconnectRemove, DisconnectCount,
           DisconnectDecrement, DisconnectNegative, DisconnectNone,
           DisconnectGrace, DisconnectUnused, DisconnectReturn,
           ReconnectPresent, ReconnectNotify, ReconnectPower, ReconnectState,
           ReconnectProtocol, ReconnectInUse, ReconnectShare,
           ReconnectExclusive, ReconnectLock, ReconnectUnlock,
           ReconnectCount, ReconnectClear, BeginLock, EndPower, EndNotify,
           EndUnlock, UnlockSharing, DriverReturns, DriverNoCard,
           MSGRemoveContext, RemoveUnlock, RemoveStatus, ContextRemoved
  <2>2. CASE Request(t)
    BY <1>1, <1>2, <1>3, <1>4, <2>2
       DEF Request, SCardEstablishContext, SCardConnect, SCardReconnect,
           SCardDisconnect, SCardBeginTransaction, SCardEndTransaction,
           SCardTransmit, SCardControl, SCardAttrib, CallDriver,
           SCardReleaseContext
  <2> QED BY <2>1, <2>2
<1> QED BY <1>5 DEF Alone, Others

-----------------------------------------------------------------------------
\* What contexts counts

\* Thread t has counted a connection whose handle is not in the list.
Counts(t) ==
  pc[t] \in {"connectLockSharing", "connectAdd", "connectUndo",
             "undoExclusive", "undoShared", "disconnectCount",
             "disconnectDecrement", "disconnectNone"}

\* NoPhantomConnection with what makes its cardinalities numbers.
CountInv ==
  /\ IsFiniteSet(handlesList)
  /\ IsFiniteSet(Uncounted)
  /\ NoPhantomConnection

\* A set that gains or loses at most x has one element more or less.
LEMMA OneElement ==
  ASSUME NEW S, NEW T, NEW x, IsFiniteSet(S), S \ {x} = T \ {x}
  PROVE  /\ IsFiniteSet(T)
         /\ Cardinality(S) \in Nat /\ Cardinality(T) \in Nat
         /\ (x \in S => x \in T) => Cardinality(T) >= Cardinality(S)
         /\ (x \in S <=> x \in T) => Cardinality(T) = Cardinality(S)
         /\ x \notin S /\ x \in T => Cardinality(T) = Cardinality(S) + 1
         /\ x \in S /\ x \notin T => Cardinality(T) = Cardinality(S) - 1
         /\ Cardinality(T) >= Cardinality(S) - 1
<1>1. IsFiniteSet(S \ {x})
  BY FS_RemoveElement
<1>2. CASE x \in T
  <2>1. T = (S \ {x}) \cup {x}
    BY <1>2
  <2>2. /\ IsFiniteSet(T)
        /\ Cardinality(T) = Cardinality(S \ {x}) + 1
    BY <1>1, <2>1, FS_AddElement
  <2> QED BY <1>1, <1>2, <2>2, FS_RemoveElement, FS_CardinalityType
<1>3. CASE x \notin T
  <2>1. T = S \ {x}
    BY <1>3
  <2> QED BY <1>1, <1>3, <2>1, FS_RemoveElement, FS_CardinalityType
<1> QED BY <1>2, <1>3

\* The threads that have counted a connection without a handle, after a step
\* of thread t.
LEMMA UncountedStep ==
  ASSUME NEW t \in Clients, Alone(t),
         IsFiniteSet(Uncounted)
  PROVE  /\ IsFiniteSet(Uncounted')
         /\ Cardinality(Uncounted) \in Nat /\ Cardinality(Uncounted') \in Nat
         /\ (Counts(t) => Counts(t)')
              => Cardinality(Uncounted') >= Cardinality(Uncounted)
         /\ (Counts(t) <=> Counts(t)')
              => Cardinality(Uncounted') = Cardinality(Uncounted)
         /\ ~Counts(t) /\ Counts(t)'
              => Cardinality(Uncounted') = Cardinality(Uncounted) + 1
         /\ Counts(t) /\ ~Counts(t)'
              => Cardinality(Uncounted') = Cardinality(Uncounted) - 1
         /\ Cardinality(Uncounted') >= Cardinality(Uncounted) - 1
<1>1. Uncounted \ {t} = Uncounted' \ {t}
  BY DEF Uncounted, Alone
<1>2. /\ t \in Uncounted <=> Counts(t)
      /\ t \in Uncounted' <=> Counts(t)'
  BY DEF Uncounted, Counts
<1> HIDE DEF Uncounted, Counts
<1> QED BY <1>1, <1>2, OneElement

\* The steps that change contexts, or the number of threads that have counted
\* a connection, and not the list of handles.
Booked(t) ==
  \/ contexts' <= contexts /\ (Counts(t) => Counts(t)')
  \/ contexts' = contexts + 1 /\ ~Counts(t) /\ Counts(t)'
  \/ contexts' = contexts - 1
  \/ contexts' <= 0
  \/ contexts' = 1 /\ handlesList # {}

\* Such a step preserves CountInv.
LEMMA BookedStep ==
  ASSUME TypeOK, TypeOK', CountInv, NEW t \in Clients,
         Alone(t),
         UNCHANGED handlesList, Booked(t)
  PROVE  CountInv'
<1>1. contexts \in Int /\ contexts' \in Int
  BY DEF TypeOK
<1>2. /\ IsFiniteSet(Uncounted')
      /\ Cardinality(Uncounted) \in Nat /\ Cardinality(Uncounted') \in Nat
      /\ (Counts(t) => Counts(t)')
           => Cardinality(Uncounted') >= Cardinality(Uncounted)
      /\ ~Counts(t) /\ Counts(t)'
           => Cardinality(Uncounted') = Cardinality(Uncounted) + 1
      /\ Cardinality(Uncounted') >= Cardinality(Uncounted) - 1
  BY UncountedStep DEF CountInv
<1>3. /\ Cardinality(handlesList) \in Nat
      /\ handlesList # {} => Cardinality(handlesList) >= 1
  BY FS_CardinalityType, FS_EmptySet DEF CountInv
<1> QED BY <1>1, <1>2, <1>3 DEF CountInv, NoPhantomConnection, Booked

\* Every step of a server thread preserves CountInv.  A connection is counted
\* before its handle is added and taken out after the handle is removed, and
\* SCardReconnect(), which sets contexts to 1, has a handle.
LEMMA ServeCount ==
  ASSUME HandleInv, HandleInv', CountInv, NEW t \in Clients, Serve(t)
  PROVE  CountInv'
<1>0. TypeOK /\ TypeOK' /\ ThreadOK(t)
  BY DEF HandleInv
<1>a. Alone(t)
  BY <1>0, OthersStay
<1>1. CASE ConnectLock(t)
  <2>1. UNCHANGED handlesList /\ Booked(t)
    BY <1>0, <1>1 DEF ConnectLock, Goto, Booked, Counts, TypeOK
  <2> QED BY <1>0, <1>a, <2>1, BookedStep
<1>2. CASE ConnectExclusive(t) \/ ReconnectExclusive(t)
  <2>1. UNCHANGED handlesList /\ Booked(t)
    BY <1>2 DEF ConnectExclusive, ReconnectExclusive, EXCLUSIVE_CONTEXT,
                Booked
  <2> QED BY <1>0, <1>a, <2>1, BookedStep
<1>3. CASE \/ ConnectLockSharing(t) \/ ConnectAddFails(t)
           \/ DisconnectCount(t)
  <2>1. UNCHANGED <<handlesList, contexts>> /\ Counts(t)'
    BY <1>0, <1>3 DEF ConnectLockSharing, ConnectAddFails, DisconnectCount,
                      Goto, Counts, TypeOK
  <2> QED BY <1>0, <1>a, <2>1, BookedStep DEF Booked, TypeOK
<1>4. CASE ConnectUndo(t)
  <2>1. UNCHANGED <<handlesList, contexts>> /\ (contexts <= 0 \/ Counts(t)')
    BY <1>0, <1>4 DEF ConnectUndo, Goto, Counts, TypeOK, NO_CONTEXT
  <2> QED BY <1>0, <1>a, <2>1, BookedStep DEF Booked, TypeOK
<1>5. CASE ConnectUndone(t) \/ DisconnectDecrement(t) \/ DisconnectNone(t)
  <2>1. UNCHANGED handlesList /\ (contexts' = contexts - 1 \/ contexts' = 0)
    BY <1>5 DEF ConnectUndone, DisconnectDecrement, RemoveConnection,
                DisconnectNone, NO_CONTEXT
  <2> QED BY <1>0, <1>a, <2>1, BookedStep DEF Booked
<1>6. CASE ReconnectCount(t)
  <2>1. call[t].hCard \in handlesList
    BY <1>0, <1>6 DEF ReconnectCount, ThreadOK, HandleSteps, HandleInv,
                      Ownership, Owns, Forgetting, TypeOK
  <2>2. UNCHANGED handlesList /\ contexts' = 1
    BY <1>6 DEF ReconnectCount, LAST_CONTEXT
  <2> QED BY <1>0, <1>a, <2>1, <2>2, BookedStep DEF Booked
<1>7. CASE ConnectAdd(t)
  <2>1. call[t].hCard \notin handlesList
    BY <1>0, <1>7 DEF ConnectAdd, ThreadOK, NewSteps
  <2>2. /\ handlesList' = handlesList \cup {call[t].hCard}
        /\ contexts' = contexts
    BY <1>7 DEF ConnectAdd, RFAddReaderHandle
  <2>3. /\ IsFiniteSet(handlesList')
        /\ Cardinality(handlesList) \in Nat
        /\ Cardinality(handlesList') = Cardinality(handlesList) + 1
    BY <2>1, <2>2, FS_AddElement, FS_CardinalityType DEF CountInv
  <2>4. /\ IsFiniteSet(Uncounted')
        /\ Cardinality(Uncounted) \in Nat /\ Cardinality(Uncounted') \in Nat
        /\ Cardinality(Uncounted') >= Cardinality(Uncounted) - 1
    BY <1>a, UncountedStep DEF CountInv
  <2>5. contexts \in Int
    BY <1>0 DEF TypeOK
  <2> QED BY <2>2, <2>3, <2>4, <2>5 DEF CountInv, NoPhantomConnection
<1>8. CASE DisconnectRemove(t)
  <2>1. /\ handlesList' = handlesList \ {call[t].hCard}
        /\ contexts' = contexts
        /\ ~Counts(t) /\ Counts(t)'
    BY <1>0, <1>8 DEF DisconnectRemove, RFRemoveReaderHandle, Goto, Counts,
                      TypeOK
  <2>2. /\ IsFiniteSet(handlesList')
        /\ Cardinality(handlesList) \in Nat
        /\ Cardinality(handlesList') \in Nat
        /\ Cardinality(handlesList') >= Cardinality(handlesList) - 1
    BY <2>1, FS_RemoveElement, FS_CardinalityType DEF CountInv
  <2>3. /\ IsFiniteSet(Uncounted')
        /\ Cardinality(Uncounted) \in Nat /\ Cardinality(Uncounted') \in Nat
        /\ Cardinality(Uncounted') = Cardinality(Uncounted) + 1
    BY <1>a, <2>1, UncountedStep DEF CountInv
  <2>4. contexts \in Int
    BY <1>0 DEF TypeOK
  <2> QED BY <2>1, <2>2, <2>3, <2>4 DEF CountInv, NoPhantomConnection
<1>9. CASE UNCHANGED <<handlesList, contexts>> /\ ~Counts(t)
  BY <1>0, <1>a, <1>9, BookedStep DEF Booked, TypeOK
<1> QED
  BY <1>1, <1>2, <1>3, <1>4, <1>5, <1>6, <1>7, <1>8, <1>9
     DEF Serve, Counts, UnlockSteps, ConnectUnlocked, ConnectPresent,
         ConnectPower, ConnectPowered, ConnectProtocol,
         ConnectSharingViolation, MSGAddHandle, DisconnectUnlocked,
         DisconnectUnlock, DisconnectNotify, DisconnectPower,
         DisconnectUnpower, DisconnectState, DisconnectNegative,
         DisconnectGrace, DisconnectUnused, DisconnectReturn,
         ReconnectPresent, ReconnectNotify, ReconnectPower, ReconnectState,
         ReconnectProtocol, ReconnectInUse, ReconnectShare, ReconnectLock,
         ReconnectUnlock, ReconnectClear, BeginLock, EndPower, EndNotify,
         EndUnlock, UnlockSharing, DriverReturns, DriverNoCard,
         MSGRemoveContext, RemoveUnlock, RemoveStatus, ContextRemoved

\* CountInv is inductive together with HandleInv.
LEMMA CountStep ==
  ASSUME HandleInv, HandleInv', CountInv, [Next]_vars
  PROVE  CountInv'
<1>1. ASSUME NEW t \in Clients, Request(t) PROVE CountInv'
  <2>1. TypeOK /\ TypeOK' /\ Alone(t)
    BY <1>1, OthersStay DEF HandleInv
  <2>2. UNCHANGED <<handlesList, contexts>> /\ ~Counts(t)
    BY <1>1 DEF Request, SCardEstablishContext, SCardConnect, SCardReconnect,
                SCardDisconnect, SCardBeginTransaction, SCardEndTransaction,
                SCardTransmit, SCardControl, SCardAttrib, CallDriver,
                SCardReleaseContext, MSGCheckHandleAssociation, Counts
  <2> QED BY <2>1, <2>2, BookedStep DEF Booked, TypeOK
<1>2. ASSUME NEW t \in Clients, Serve(t) PROVE CountInv'
  BY <1>2, ServeCount
<1>3. CASE EventThread \/ User \/ UNCHANGED vars
  <2>1. UNCHANGED <<handlesList, contexts, pc>>
    BY <1>3 DEF EventThread, User, vars, EHStart, EHStartPower,
         EHStartPowerState, EHStartState, EHStatus,
                EHStatusError, EHCardRemoved, EHUnlockId, EHUnlockCount,
                EHCardAbsent, EHCardInserted, EHCardPowered,
                EHSetPowerState, EHPowerOff, InsertCard, RemoveCard
  <2> QED BY <2>1 DEF CountInv, NoPhantomConnection, Uncounted
<1> QED BY <1>1, <1>2, <1>3 DEF Next

\* Nothing is counted when the daemon starts.
LEMMA CountInit ==
  ASSUME Init
  PROVE  CountInv
<1>1. Uncounted = {} /\ handlesList = {} /\ contexts = 0
  BY DEF Init, Uncounted, NO_CONTEXT
<1> QED BY <1>1, FS_EmptySet DEF CountInv, NoPhantomConnection

\* contexts counts no connection that is gone, however many clients connect,
\* reconnect and disconnect at the same time, in whichever modes, and wherever
\* adding a handle fails.
THEOREM PhantomConnections == Spec => []NoPhantomConnection
<1>1. Init => CountInv
  BY CountInit
<1>2. HandleInv /\ HandleInv' /\ CountInv /\ [Next]_vars => CountInv'
  BY CountStep
<1>3. CountInv => NoPhantomConnection
  BY DEF CountInv
<1> QED BY <1>1, <1>2, <1>3, HandleInvariance, PTL DEF Spec

-----------------------------------------------------------------------------
\* Who can release the lock

\* SCardDisconnect() is past the place where it gives up the lock.
PastSteps == {"disconnectNotify", "disconnectPower", "disconnectUnpower",
              "disconnectState", "disconnectRemove", "disconnectCount",
              "disconnectDecrement", "disconnectNegative", "disconnectNone",
              "disconnectGrace", "disconnectUnused", "disconnectReturn"}

\* The client of thread t has handle h and has yet to disconnect it.
Holds(t, h) == h \in cardsList[t] /\ ~PastUnlock(t, h)

\* The lock belongs to such a handle.
LockHeld == hLockId # NoHandle => \E t \in Clients : Holds(t, hLockId)

\* Thread t is not making an exclusive connection.
Shares(t) ==
  /\ pc[t] \notin {"connectExclusive", "connectLockSharing"}
  /\ call[t].cmd = "CONNECT" => call[t].mode # "EXCLUSIVE"

LockInv == LockHeld /\ \A t \in Clients : Shares(t)

\* A step of thread t that gives up the lock, or leaves it where it is and
\* does not part with its handle, or takes it for a handle of its client,
\* preserves LockHeld.
LEMMA HoldStep ==
  ASSUME LockHeld, NEW t \in Clients, Alone(t),
         \/ hLockId' = NoHandle
         \/ hLockId' = hLockId /\ (Holds(t, hLockId) => Holds(t, hLockId)')
         \/ \E h : hLockId' = h /\ Holds(t, h)'
  PROVE  LockHeld'
<1>1. CASE hLockId' = NoHandle
  BY <1>1 DEF LockHeld
<1>2. CASE hLockId' = hLockId /\ hLockId # NoHandle
           /\ (Holds(t, hLockId) => Holds(t, hLockId)')
  <2>1. PICK u \in Clients : Holds(u, hLockId)
    BY <1>2 DEF LockHeld
  <2>2. CASE u = t
    BY <1>2, <2>1, <2>2 DEF LockHeld, Holds, PastUnlock
  <2>3. CASE u # t
    BY <1>2, <2>1, <2>3 DEF LockHeld, Holds, PastUnlock, Alone
  <2> QED BY <2>2, <2>3
<1>3. CASE \E h : hLockId' = h /\ Holds(t, h)'
  BY <1>3 DEF LockHeld, Holds, PastUnlock
<1> QED BY <1>1, <1>2, <1>3

\* A thread that does not go past the place where SCardDisconnect() gives up
\* the lock, and whose client keeps its handles, keeps the lock.
LEMMA StayStep ==
  ASSUME LockHeld, TypeOK, NEW t \in Clients, Alone(t),
         hLockId' \in {NoHandle, hLockId}, cardsList[t] \subseteq cardsList'[t],
         pc'[t] \notin PastSteps
  PROVE  LockHeld'
<1>1. ASSUME NEW h, Holds(t, h) PROVE Holds(t, h)'
  BY <1>1 DEF Holds, PastUnlock, PastSteps
<1> QED BY <1>1, HoldStep

\* Every step of a server thread preserves LockHeld, if it is not part of an
\* exclusive connection.
LEMMA ServeHolds ==
  ASSUME HandleInv, LockHeld, NEW t \in Clients, Shares(t), Serve(t)
  PROVE  LockHeld'
<1>0. TypeOK /\ ThreadOK(t) /\ call[t] \in Calls
  BY CallFields DEF HandleInv
<1>a. Alone(t)
  BY <1>0, OthersStay
<1>b. ASSUME NEW step, Goto(t, step), step \notin PastSteps,
             hLockId' \in {NoHandle, hLockId},
             cardsList[t] \subseteq cardsList'[t]
      PROVE  LockHeld'
  BY <1>0, <1>a, <1>b, StayStep DEF Goto, TypeOK
<1>1. CASE \/ DisconnectNotify(t) \/ DisconnectPower(t)
           \/ DisconnectUnpower(t) \/ DisconnectState(t)
           \/ DisconnectRemove(t) \/ DisconnectCount(t)
           \/ DisconnectDecrement(t) \/ DisconnectNegative(t)
           \/ DisconnectNone(t) \/ DisconnectGrace(t) \/ DisconnectUnused(t)
  <2>1. pc[t] \in PastSteps /\ UNCHANGED <<hLockId, cardsList>>
    BY <1>1 DEF DisconnectNotify, DisconnectPower, DisconnectUnpower,
       DisconnectState, DisconnectRemove, DisconnectCount,
       DisconnectDecrement, DisconnectNegative, DisconnectNone,
       DisconnectGrace, DisconnectUnused, PastSteps
  <2>2. call' = call \/ \E rv : SetCall(t, WithResult(call[t], rv))
    BY <1>1 DEF DisconnectNotify, DisconnectPower, DisconnectUnpower,
       DisconnectState, DisconnectRemove, DisconnectCount,
       DisconnectDecrement, DisconnectNegative, DisconnectNone,
       DisconnectGrace, DisconnectUnused
  <2>3. call'[t].hCard = call[t].hCard
    BY <1>0, <2>2, WithFields DEF SetCall, TypeOK
  <2>4. Holds(t, hLockId) => Holds(t, hLockId)'
    BY <2>1, <2>3 DEF Holds, PastUnlock, PastSteps
  <2> QED BY <1>a, <2>1, <2>4, HoldStep
<1>2. CASE DisconnectReturn(t)
  <2>1. /\ pc[t] \in PastSteps /\ UNCHANGED hLockId
        /\ pc'[t] \in {"removeContext", "idle"}
        /\ cardsList[t] \ {call[t].hCard} \subseteq cardsList'[t]
    BY <1>0, <1>2 DEF DisconnectReturn, Return, Goto, PastSteps, TypeOK
  <2>2. Holds(t, hLockId) => Holds(t, hLockId)'
    BY <2>1 DEF Holds, PastUnlock, PastSteps
  <2> QED BY <1>a, <2>1, <2>2, HoldStep
<1>3. CASE DisconnectUnlock(t)
  <2>1. CASE RFCheckSharing(call[t].hCard)
    BY <1>3, <1>a, <2>1, HoldStep DEF DisconnectUnlock, RFUnlockAllSharing
  <2>2. CASE ~RFCheckSharing(call[t].hCard)
    <3>1. UNCHANGED <<hLockId, cardsList>> /\ hLockId # call[t].hCard
      BY <1>3, <2>2 DEF DisconnectUnlock, RFUnlockAllSharing, RFCheckSharing
    <3>2. call'[t].hCard = call[t].hCard
      BY <1>0, <1>3, WithFields DEF DisconnectUnlock, SetCall, TypeOK
    <3>3. Holds(t, hLockId) => Holds(t, hLockId)'
      BY <3>1, <3>2 DEF Holds, PastUnlock
    <3> QED BY <1>a, <3>1, <3>3, HoldStep
  <2> QED BY <2>1, <2>2
<1>4. CASE BeginLock(t) \/ ReconnectLock(t)
  <2>1. /\ RFLockSharing(call[t].hCard)
        /\ pc'[t] \notin PastSteps
        /\ UNCHANGED cardsList
        /\ pc[t] \in {"beginLock", "reconnectLock"}
    BY <1>0, <1>4 DEF BeginLock, ReconnectLock, Goto, Return, PastSteps,
                      TypeOK
  <2>2. call[t].hCard \in cardsList[t]
    BY <1>0, <2>1 DEF ThreadOK, HandleSteps
  <2>3. hLockId' = hLockId \/ \E h : hLockId' = h /\ Holds(t, h)'
    BY <2>1, <2>2 DEF RFLockSharing, Holds, PastUnlock, PastSteps
  <2> QED BY <1>0, <1>a, <2>1, <2>3, HoldStep, StayStep
<1>5. CASE MSGRemoveContext(t)
  <2>1. PICK h \in cardsList[t] : Goto(t, RemoveEntry(h))
    BY <1>5 DEF MSGRemoveContext
  <2>2. h \in handlesList
    BY <1>0, <1>5 DEF MSGRemoveContext, HandleInv, Ownership, Owns,
       Forgetting, TypeOK
  <2>3. RemoveEntry(h) \notin PastSteps
    BY <2>2 DEF RemoveEntry, DisconnectEntry, PastSteps
  <2> QED BY <1>5, <1>b, <2>1, <2>3 DEF MSGRemoveContext
<1>6. CASE RemoveStatus(t)
  <2>1. PICK disp : Goto(t, DisconnectEntry(call[t].hCard, disp))
    BY <1>6 DEF RemoveStatus
  <2>2. call[t].hCard \in handlesList
    BY <1>0, <1>6 DEF RemoveStatus, ThreadOK, HandleSteps, HandleInv,
       Ownership, Owns, Forgetting, TypeOK
  <2>3. DisconnectEntry(call[t].hCard, disp) \notin PastSteps
    BY <2>2 DEF DisconnectEntry, PastSteps
  <2> QED BY <1>6, <1>b, <2>1, <2>3 DEF RemoveStatus
<1>7. CASE ConnectLockSharing(t) \/ ConnectExclusive(t)
  BY <1>7 DEF ConnectLockSharing, ConnectExclusive, Shares
<1>8. CASE MSGAddHandle(t)
  <2>1. cardsList[t] \subseteq cardsList'[t]
    BY <1>0, <1>8 DEF MSGAddHandle, TypeOK
  <2> QED BY <1>8, <1>b, <2>1
          DEF MSGAddHandle, Return, GiveBackHandle, PastSteps
<1>9. CASE /\ \E step : Goto(t, step) /\ step \notin PastSteps
           /\ hLockId' \in {NoHandle, hLockId} /\ UNCHANGED cardsList
  BY <1>9, <1>b
<1> HIDE DEF LockHeld
<1>10. CASE \/ ConnectUnlocked(t) \/ ConnectPresent(t) \/ ConnectPower(t)
            \/ ConnectPowered(t) \/ ConnectProtocol(t) \/ ConnectLock(t)
            \/ ConnectSharingViolation(t) \/ ConnectAdd(t)
            \/ ConnectAddFails(t) \/ ConnectUndo(t) \/ ConnectUndone(t)
            \/ DisconnectUnlocked(t)
  BY <1>9, <1>10
     DEF PastSteps, Return, ConnectUnlocked, ConnectPresent, ConnectPower,
         ConnectPowered, ConnectProtocol, ConnectLock,
         ConnectSharingViolation, ConnectAdd, ConnectAddFails, ConnectUndo,
         ConnectUndone, DisconnectUnlocked
<1>11. CASE \/ ReconnectPresent(t) \/ ReconnectNotify(t)
            \/ ReconnectPower(t) \/ ReconnectState(t)
            \/ ReconnectProtocol(t) \/ ReconnectInUse(t)
            \/ ReconnectShare(t) \/ ReconnectExclusive(t)
            \/ ReconnectUnlock(t) \/ ReconnectCount(t) \/ ReconnectClear(t)
  BY <1>9, <1>11
     DEF PastSteps, Return, UnlockSteps, ReconnectPresent,
          ReconnectNotify, ReconnectPower,
         ReconnectState, ReconnectProtocol, ReconnectInUse, ReconnectShare,
         ReconnectExclusive, ReconnectUnlock, ReconnectCount, ReconnectClear
<1>12. CASE \/ EndPower(t) \/ EndNotify(t) \/ EndUnlock(t)
            \/ UnlockSharing(t) \/ DriverReturns(t) \/ DriverNoCard(t)
            \/ RemoveUnlock(t) \/ ContextRemoved(t)
  BY <1>9, <1>12
     DEF PastSteps, Return, UnlockSteps, EndPower, EndNotify, EndUnlock,
         UnlockSharing, DriverReturns, DriverNoCard, RemoveUnlock,
         ContextRemoved
<1> QED
  BY <1>1, <1>2, <1>3, <1>4, <1>5, <1>6, <1>7, <1>8, <1>10, <1>11, <1>12
     DEF Serve

\* Accepting a command leaves the lock where it is.
LEMMA RequestHolds ==
  ASSUME HandleInv, LockHeld, NEW t \in Clients, Request(t)
  PROVE  LockHeld'
<1>0. TypeOK /\ ThreadOK(t)
  BY DEF HandleInv
<1>a. Alone(t)
  BY <1>0, OthersStay
<1>1. UNCHANGED <<hLockId, cardsList>>
  BY DEF Request, SCardEstablishContext, SCardConnect, SCardReconnect,
         SCardDisconnect, SCardBeginTransaction, SCardEndTransaction,
         SCardTransmit, SCardControl, SCardAttrib, CallDriver,
         SCardReleaseContext
<1>b. ASSUME NEW step, Goto(t, step), step \notin PastSteps
      PROVE  LockHeld'
  BY <1>0, <1>1, <1>a, <1>b, StayStep DEF Goto, TypeOK
<1>2. CASE SCardDisconnect(t)
  <2>1. PICK h \in cardsList[t], disp \in Dispositions :
          Goto(t, DisconnectEntry(h, disp)) /\ pc[t] = "idle"
    BY <1>2 DEF SCardDisconnect, MSGCheckHandleAssociation
  <2>2. h \in handlesList
    BY <1>0, <2>1 DEF HandleInv, Ownership, Owns, Forgetting, TypeOK
  <2>3. DisconnectEntry(h, disp) \notin PastSteps
    BY <2>2 DEF DisconnectEntry, PastSteps
  <2> QED BY <1>b, <2>1, <2>3
<1>3. CASE SCardEstablishContext(t)
  BY <1>0, <1>1, <1>3, <1>a, StayStep DEF SCardEstablishContext, PastSteps
<1> QED
  BY <1>b, <1>2, <1>3
     DEF Request, SCardConnect, SCardReconnect, SCardBeginTransaction,
         SCardEndTransaction, SCardTransmit, SCardControl, SCardAttrib,
         CallDriver, SCardReleaseContext, PastSteps

\* The share mode of a command.
LEMMA ModeFields ==
  ASSUME NEW c \in Calls
  PROVE  /\ \A rv : WithResult(c, rv).mode = c.mode
         /\ \A i : WithCard(c, i).mode = c.mode
         /\ \A h : WithHandle(c, h).mode = c.mode
         /\ \A d : WithDisposition(c, d).mode = c.mode
BY DEF WithResult, WithCard, WithHandle, WithDisposition, Calls

\* Nobody starts an exclusive connection if clients do not ask for one.
LEMMA StepShares ==
  ASSUME "EXCLUSIVE" \notin ConnectModes, HandleInv, NEW t \in Clients,
         Shares(t), Serve(t) \/ Request(t)
  PROVE  Shares(t)'
<1>0. TypeOK /\ ThreadOK(t) /\ call[t] \in Calls
  BY CallFields DEF HandleInv
<1>1. ASSUME NEW step, Goto(t, step),
             step \notin {"connectExclusive", "connectLockSharing"}
      PROVE  pc'[t] \notin {"connectExclusive", "connectLockSharing"}
  BY <1>0, <1>1 DEF Goto, TypeOK
<1> DEFINE Modest(c) == c.cmd = "CONNECT" => c.mode # "EXCLUSIVE"
<1>2. ASSUME NEW c, SetCall(t, c), Modest(c)
      PROVE  Modest(call'[t])
  BY <1>0, <1>2 DEF SetCall, TypeOK
<1>3. Modest(call[t])
  BY DEF Shares
<1>4. /\ Modest(NoCall)
      /\ \A rv : Modest(WithResult(call[t], rv))
      /\ \A i : Modest(WithCard(call[t], i))
      /\ \A h : Modest(WithHandle(call[t], h))
      /\ \A d : Modest(WithDisposition(call[t], d))
      /\ \A cmd, h, d : Modest(HandleCall(cmd, h, d))
      /\ \A h, mode, pref, d : Modest(Call("RECONNECT", h, mode, pref, d))
      /\ \A h, pref, d : \A mode \in ConnectModes :
           Modest(Call("CONNECT", h, mode, pref, d))
  BY <1>0, <1>3, WithFields, ModeFields DEF NoCall, HandleCall, Call
<1> HIDE DEF Modest
<1>5. CASE Request(t)
  <2>1. Modest(call'[t])
    BY <1>2, <1>3, <1>4, <1>5
       DEF Request, SCardEstablishContext, SCardConnect, SCardReconnect,
           SCardDisconnect, SCardBeginTransaction, SCardEndTransaction,
           SCardTransmit, SCardControl, SCardAttrib, CallDriver,
           SCardReleaseContext
  <2>2. pc'[t] \notin {"connectExclusive", "connectLockSharing"}
    BY <1>1, <1>5
       DEF Request, SCardEstablishContext, SCardConnect, SCardReconnect,
           SCardDisconnect, SCardBeginTransaction, SCardEndTransaction,
           SCardTransmit, SCardControl, SCardAttrib, CallDriver,
           SCardReleaseContext, DisconnectEntry, Shares
  <2> QED BY <2>1, <2>2 DEF Shares, Modest
<1>6. CASE Serve(t)
  <2>1. Modest(call'[t])
    BY <1>2, <1>3, <1>4, <1>6
     DEF Serve, Return, GiveBackHandle, ConnectUnlocked, ConnectPresent,
         ConnectPower, ConnectPowered, ConnectProtocol, ConnectLock,
         ConnectExclusive, ConnectSharingViolation, ConnectLockSharing,
         ConnectAdd, ConnectAddFails, ConnectUndo, ConnectUndone,
         MSGAddHandle, DisconnectUnlocked, DisconnectUnlock,
         DisconnectNotify, DisconnectPower, DisconnectUnpower,
         DisconnectState, DisconnectRemove, DisconnectCount,
         DisconnectDecrement, DisconnectNegative, DisconnectNone,
         DisconnectGrace, DisconnectUnused, DisconnectReturn,
         ReconnectPresent, ReconnectNotify, ReconnectPower, ReconnectState,
         ReconnectProtocol, ReconnectInUse, ReconnectShare,
         ReconnectExclusive, ReconnectLock, ReconnectUnlock,
         ReconnectCount, ReconnectClear, BeginLock, EndPower, EndNotify,
         EndUnlock, UnlockSharing, DriverReturns, DriverNoCard,
         MSGRemoveContext, RemoveUnlock, RemoveStatus, ContextRemoved
  <2>2. pc'[t] \notin {"connectExclusive", "connectLockSharing"}
    <3>1. CASE ConnectLock(t)
      <4>1. call[t].cmd = "CONNECT" /\ call[t].mode # "EXCLUSIVE"
        BY <1>0, <3>1 DEF ConnectLock, ThreadOK, ConnectSteps, Shares
      <4> QED BY <1>1, <3>1, <4>1 DEF ConnectLock
    <3>2. CASE ConnectExclusive(t) \/ ConnectLockSharing(t)
      BY <3>2 DEF ConnectExclusive, ConnectLockSharing, Shares
    <3> QED
      BY <1>1, <1>6, <3>1, <3>2
       DEF Serve, Return, GiveBackHandle, UnlockSteps, ConnectUnlocked,
         ConnectPresent, ConnectPower, ConnectPowered, ConnectProtocol,
         ConnectSharingViolation, ConnectAdd, ConnectAddFails, ConnectUndo,
         ConnectUndone, MSGAddHandle, DisconnectUnlocked, DisconnectUnlock,
         DisconnectNotify, DisconnectPower, DisconnectUnpower,
         DisconnectState, DisconnectRemove, DisconnectCount,
         DisconnectDecrement, DisconnectNegative, DisconnectNone,
         DisconnectGrace, DisconnectUnused, DisconnectReturn,
         ReconnectPresent, ReconnectNotify, ReconnectPower, ReconnectState,
         ReconnectProtocol, ReconnectInUse, ReconnectShare,
         ReconnectExclusive, ReconnectLock, ReconnectUnlock,
         ReconnectCount, ReconnectClear, BeginLock, EndPower, EndNotify,
         EndUnlock, UnlockSharing, DriverReturns, DriverNoCard,
         MSGRemoveContext, RemoveEntry, DisconnectEntry, RemoveUnlock,
         RemoveStatus, ContextRemoved
  <2> QED BY <2>1, <2>2 DEF Shares, Modest
<1> QED BY <1>5, <1>6

\* LockInv is inductive together with HandleInv, if no client asks for an
\* exclusive connection.
LEMMA LockStep ==
  ASSUME "EXCLUSIVE" \notin ConnectModes, HandleInv, LockInv, [Next]_vars
  PROVE  LockInv'
<1>1. ASSUME NEW t \in Clients, Request(t) \/ Serve(t) PROVE LockInv'
  <2>1. LockHeld'
    BY <1>1, ServeHolds, RequestHolds DEF LockInv
  <2>2. ASSUME NEW u \in Clients PROVE Shares(u)'
    <3>1. CASE u = t
      BY <1>1, <3>1, StepShares DEF LockInv
    <3>2. Alone(t)
      BY <1>1, OthersStay DEF HandleInv
    <3>3. CASE u # t
      BY <3>2, <3>3 DEF LockInv, Shares, Alone
    <3> QED BY <3>1, <3>3
  <2> QED BY <2>1, <2>2 DEF LockInv
<1>2. CASE EventThread \/ User \/ UNCHANGED vars
  <2>1. UNCHANGED <<pc, call, cardsList>> /\ hLockId' \in {hLockId, NoHandle}
    BY <1>2 DEF EventThread, User, vars, EHStart, EHStartPower,
         EHStartPowerState, EHStartState, EHStatus,
                EHStatusError, EHCardRemoved, EHUnlockId, EHUnlockCount,
                EHCardAbsent, EHCardInserted, EHCardPowered,
                EHSetPowerState, EHPowerOff, InsertCard, RemoveCard
  <2> QED BY <2>1 DEF LockInv, LockHeld, Holds, PastUnlock, Shares
<1> QED BY <1>1, <1>2 DEF Next

\* A lock never outlives the client that can release it, if clients do not
\* ask for exclusive connections: whatever else they do at the same time,
\* whatever fails, and whenever they die or the card is removed.
THEOREM LockOwner ==
  ASSUME "EXCLUSIVE" \notin ConnectModes
  PROVE  Spec => []LockOwnerHasClient
<1>1. Init => LockInv
  BY NoCallFields DEF Init, LockInv, LockHeld, Shares
<1>2. HandleInv /\ LockInv /\ [Next]_vars => LockInv'
  BY LockStep
<1>3. LockInv => LockOwnerHasClient
  BY DEF LockInv, LockHeld, Holds, LockOwnerHasClient
<1> QED BY <1>1, <1>2, <1>3, HandleInvariance, PTL DEF Spec

-----------------------------------------------------------------------------
\* Handles without a client

\* What thread t knows of the command it disconnects a handle for:
\* SCardConnect() gives a handle back with SCARD_LEAVE_CARD, which no lock
\* stops, and a sharing violation is the only error of SCardDisconnect().
Leaves(t) ==
  LET c == call[t] IN
  /\ c.cmd = "CONNECT" => c.disp = "LEAVE"
  /\ pc[t] = "disconnectReturn" =>
       \/ c.rv = "SUCCESS"
       \/ c.rv = "SHARING_VIOLATION" /\ c.cmd # "CONNECT"

\* Thread t still has the handles of the reader it had, but for one whose
\* disconnection was refused.
Kept(t) ==
  \A h \in handlesList' :
    Owns(t, h) => Owns(t, h)' \/ RefusedDisconnect(t, h)

\* The steps at which a thread forgets its handle, or has one on the way.
AtHandle == DisconnectSteps \cup {"connectDone"}

\* A step that has nothing to do with connecting and disconnecting.
LEMMA StayKept ==
  ASSUME NEW t \in Clients,
         cardsList[t] \subseteq cardsList'[t], pc[t] \notin AtHandle,
         pc'[t] \notin AtHandle \/ pc'[t] \in {"disconnectWait",
                                               "disconnectUnlock"}
  PROVE  Kept(t)
BY DEF Kept, Owns, Forgetting, AtHandle, DisconnectSteps

\* Every step of a server thread keeps its handles.
LEMMA ServeKept ==
  ASSUME HandleInv, NEW t \in Clients, Leaves(t), Serve(t)
  PROVE  Kept(t)
<1>0. TypeOK /\ ThreadOK(t) /\ call[t] \in Calls
  BY CallFields DEF HandleInv
<1>b. ASSUME NEW step, Goto(t, step), UNCHANGED <<handlesList, cardsList>>,
             pc[t] \notin AtHandle,
             \/ step \notin AtHandle
             \/ step \in {"disconnectWait", "disconnectUnlock"}
      PROVE  Kept(t)
  BY <1>0, <1>b, StayKept DEF Goto, TypeOK
<1>1. CASE ConnectAdd(t)
  <2>1. /\ handlesList' = handlesList \cup {call[t].hCard}
        /\ pc[t] = "connectAdd" /\ pc'[t] = "connectDone"
        /\ UNCHANGED <<call, cardsList>>
    BY <1>0, <1>1 DEF ConnectAdd, RFAddReaderHandle, Goto, TypeOK
  <2>2. call[t].cmd = "CONNECT"
    BY <1>0, <2>1 DEF ThreadOK, ConnectSteps, NewSteps
  <2>3. Owns(t, call[t].hCard)'
    BY <2>1, <2>2 DEF Owns, Forgetting
  <2>4. ASSUME NEW h, Owns(t, h) PROVE Owns(t, h)'
    BY <2>1, <2>4 DEF Owns, Forgetting, DisconnectSteps
  <2> QED BY <2>1, <2>3, <2>4 DEF Kept
<1>2. CASE MSGAddHandle(t)
  <2>1. /\ UNCHANGED handlesList
        /\ pc[t] = "connectDone"
        /\ \/ /\ cardsList'[t] = cardsList[t] \cup {call[t].hCard}
              /\ pc'[t] = "idle"
           \/ /\ pc'[t] = "disconnectUnlock"
              /\ UNCHANGED <<cardsList, call>>
    BY <1>0, <1>2 DEF MSGAddHandle, Return, GiveBackHandle, Goto, TypeOK
  <2>2. ASSUME NEW h, Owns(t, h) PROVE Owns(t, h)'
    BY <2>1, <2>2 DEF Owns, Forgetting, DisconnectSteps
  <2> QED BY <2>1, <2>2 DEF Kept
<1>3. CASE \/ DisconnectUnlocked(t) \/ DisconnectUnlock(t)
           \/ DisconnectNotify(t) \/ DisconnectPower(t)
           \/ DisconnectUnpower(t) \/ DisconnectState(t)
  <2>1. /\ UNCHANGED <<handlesList, cardsList>>
        /\ pc[t] \in DisconnectSteps
        /\ \/ pc'[t] \in {"disconnectUnlock", "disconnectNotify",
                          "disconnectPower", "disconnectUnpower",
                          "disconnectState", "disconnectRemove"}
           \/ /\ pc'[t] = "disconnectReturn"
              /\ SetCall(t, WithResult(call[t], "SHARING_VIOLATION"))
    BY <1>0, <1>3 DEF DisconnectUnlocked, DisconnectUnlock,
       DisconnectNotify, DisconnectPower, DisconnectUnpower,
       DisconnectState, Goto, DisconnectSteps, TypeOK
  <2>2. call' = call \/ \E rv : SetCall(t, WithResult(call[t], rv))
    BY <1>3 DEF DisconnectUnlocked, DisconnectUnlock, DisconnectNotify,
       DisconnectPower, DisconnectUnpower, DisconnectState
  <2>3. /\ call'[t].hCard = call[t].hCard /\ call'[t].cmd = call[t].cmd
        /\ pc'[t] = "disconnectReturn" => call'[t].rv # "SUCCESS"
    BY <1>0, <2>1, <2>2, WithFields DEF SetCall, TypeOK
  <2>4. ASSUME NEW h, Owns(t, h) PROVE Owns(t, h)'
    BY <2>1, <2>3, <2>4 DEF Owns, Forgetting, DisconnectSteps
  <2> QED BY <2>1, <2>4 DEF Kept
<1>4. CASE DisconnectRemove(t)
  <2>1. /\ handlesList' = handlesList \ {call[t].hCard}
        /\ pc'[t] = "disconnectCount" /\ UNCHANGED <<call, cardsList>>
    BY <1>0, <1>4 DEF DisconnectRemove, RFRemoveReaderHandle, Goto, TypeOK
  <2>2. ASSUME NEW h \in handlesList', Owns(t, h) PROVE Owns(t, h)'
    BY <2>1, <2>2 DEF Owns, Forgetting
  <2> QED BY <2>1, <2>2 DEF Kept
<1>5. CASE \/ DisconnectCount(t) \/ DisconnectDecrement(t)
           \/ DisconnectNegative(t) \/ DisconnectNone(t)
           \/ DisconnectGrace(t) \/ DisconnectUnused(t)
  <2>1. /\ UNCHANGED <<handlesList, cardsList, call>>
        /\ pc[t] \in {"disconnectCount", "disconnectDecrement",
                      "disconnectNegative", "disconnectNone",
                      "disconnectGrace", "disconnectUnused"}
    BY <1>5 DEF DisconnectCount, DisconnectDecrement, DisconnectNegative,
       DisconnectNone, DisconnectGrace, DisconnectUnused
  <2>2. ASSUME NEW h, Owns(t, h) PROVE Owns(t, h)'
    BY <2>1, <2>2 DEF Owns, Forgetting
  <2> QED BY <2>1, <2>2 DEF Kept
<1>6. CASE DisconnectReturn(t)
  <2>1. /\ UNCHANGED handlesList
        /\ pc[t] = "disconnectReturn" /\ pc'[t] \in {"idle", "removeContext"}
        /\ \/ UNCHANGED cardsList
           \/ /\ cardsList'[t] = cardsList[t] \ {call[t].hCard}
              /\ \/ call[t].cmd = "RELEASE_CONTEXT"
                 \/ call[t].cmd = "DISCONNECT" /\ call[t].rv = "SUCCESS"
    BY <1>0, <1>6 DEF DisconnectReturn, Return, Goto, TypeOK
  <2>2. \/ call[t].rv = "SUCCESS"
        \/ call[t].rv = "SHARING_VIOLATION" /\ call[t].cmd # "CONNECT"
    BY <2>1 DEF Leaves
  <2>3. ASSUME NEW h, Owns(t, h)
        PROVE  Owns(t, h)' \/ RefusedDisconnect(t, h)
    BY <2>1, <2>2, <2>3 DEF Owns, Forgetting, RefusedDisconnect
  <2> QED BY <2>3 DEF Kept
<1>7. CASE MSGRemoveContext(t)
  <2>1. PICK h \in cardsList[t] : Goto(t, RemoveEntry(h))
    BY <1>7 DEF MSGRemoveContext
  <2>2. h \in handlesList
    BY <1>0, <1>7 DEF MSGRemoveContext, HandleInv, Ownership, Owns,
       Forgetting, TypeOK
  <2>3. \/ RemoveEntry(h) \notin AtHandle
        \/ RemoveEntry(h) \in {"disconnectWait", "disconnectUnlock"}
    BY <2>2 DEF RemoveEntry, DisconnectEntry, AtHandle, DisconnectSteps
  <2> QED BY <1>7, <1>b, <2>1, <2>3
          DEF MSGRemoveContext, AtHandle, DisconnectSteps
<1>8. CASE RemoveStatus(t)
  <2>1. PICK disp : Goto(t, DisconnectEntry(call[t].hCard, disp))
    BY <1>8 DEF RemoveStatus
  <2>2. call[t].hCard \in handlesList
    BY <1>0, <1>8 DEF RemoveStatus, ThreadOK, HandleSteps, HandleInv,
       Ownership, Owns, Forgetting, TypeOK
  <2>3. DisconnectEntry(call[t].hCard, disp)
          \in {"disconnectWait", "disconnectUnlock"}
    BY <2>2 DEF DisconnectEntry
  <2> QED BY <1>8, <1>b, <2>1, <2>3
          DEF RemoveStatus, AtHandle, DisconnectSteps
<1>9. CASE /\ \E step : Goto(t, step) /\ step \notin AtHandle
           /\ pc[t] \notin AtHandle /\ UNCHANGED <<handlesList, cardsList>>
  BY <1>9, <1>b
<1>10. CASE \/ ConnectUnlocked(t) \/ ConnectPresent(t) \/ ConnectPower(t)
            \/ ConnectPowered(t) \/ ConnectProtocol(t) \/ ConnectLock(t)
            \/ ConnectExclusive(t) \/ ConnectSharingViolation(t)
            \/ ConnectLockSharing(t) \/ ConnectAddFails(t)
            \/ ConnectUndo(t) \/ ConnectUndone(t)
  BY <1>9, <1>10
     DEF AtHandle, DisconnectSteps, Return, ConnectUnlocked, ConnectPresent,
         ConnectPower, ConnectPowered, ConnectProtocol, ConnectLock,
         ConnectExclusive, ConnectSharingViolation, ConnectLockSharing,
         ConnectAddFails, ConnectUndo, ConnectUndone
<1>11. CASE \/ ReconnectPresent(t) \/ ReconnectNotify(t)
            \/ ReconnectPower(t) \/ ReconnectState(t)
            \/ ReconnectProtocol(t) \/ ReconnectInUse(t)
            \/ ReconnectShare(t) \/ ReconnectExclusive(t)
            \/ ReconnectLock(t) \/ ReconnectUnlock(t) \/ ReconnectCount(t)
            \/ ReconnectClear(t)
  BY <1>9, <1>11
     DEF AtHandle, DisconnectSteps, Return, UnlockSteps, ReconnectPresent,
          ReconnectNotify,
         ReconnectPower, ReconnectState, ReconnectProtocol, ReconnectInUse,
         ReconnectShare, ReconnectExclusive, ReconnectLock,
         ReconnectUnlock, ReconnectCount, ReconnectClear
<1>12. CASE \/ BeginLock(t) \/ EndPower(t) \/ EndNotify(t) \/ EndUnlock(t)
            \/ UnlockSharing(t) \/ DriverReturns(t) \/ DriverNoCard(t)
            \/ RemoveUnlock(t) \/ ContextRemoved(t)
  BY <1>9, <1>12
     DEF AtHandle, DisconnectSteps, Return, UnlockSteps, BeginLock,
         EndPower, EndNotify, EndUnlock, UnlockSharing, DriverReturns,
         DriverNoCard, RemoveUnlock, ContextRemoved
<1> QED
  BY <1>1, <1>2, <1>3, <1>4, <1>5, <1>6, <1>7, <1>8, <1>10, <1>11, <1>12
     DEF Serve

\* So does accepting a command.
LEMMA RequestKept ==
  ASSUME HandleInv, NEW t \in Clients, Request(t)
  PROVE  Kept(t)
<1>0. TypeOK /\ ThreadOK(t)
  BY DEF HandleInv
<1>1. UNCHANGED <<handlesList, cardsList>> /\ pc[t] = "idle"
  BY DEF Request, SCardEstablishContext, SCardConnect, SCardReconnect,
         SCardDisconnect, SCardBeginTransaction, SCardEndTransaction,
         SCardTransmit, SCardControl, SCardAttrib, CallDriver,
         SCardReleaseContext, MSGCheckHandleAssociation
<1>b. ASSUME NEW step, Goto(t, step),
             \/ step \notin AtHandle
             \/ step \in {"disconnectWait", "disconnectUnlock"}
      PROVE  Kept(t)
  BY <1>0, <1>1, <1>b, StayKept
     DEF Goto, TypeOK, AtHandle, DisconnectSteps
<1>2. CASE SCardDisconnect(t)
  <2>1. PICK h \in cardsList[t], disp \in Dispositions :
          Goto(t, DisconnectEntry(h, disp))
    BY <1>2 DEF SCardDisconnect, MSGCheckHandleAssociation
  <2>2. h \in handlesList
    BY <1>0, <1>1 DEF HandleInv, Ownership, Owns, Forgetting, TypeOK
  <2>3. DisconnectEntry(h, disp) \in {"disconnectWait", "disconnectUnlock"}
    BY <2>2 DEF DisconnectEntry
  <2> QED BY <1>b, <2>1, <2>3
<1>3. CASE SCardEstablishContext(t)
  BY <1>1, <1>3, StayKept
     DEF SCardEstablishContext, AtHandle, DisconnectSteps
<1> QED
  BY <1>b, <1>2, <1>3
     DEF Request, SCardConnect, SCardReconnect, SCardBeginTransaction,
         SCardEndTransaction, SCardTransmit, SCardControl, SCardAttrib,
         CallDriver, SCardReleaseContext, AtHandle, DisconnectSteps

\* The disposition of a command.
LEMMA DispositionFields ==
  ASSUME NEW c \in Calls
  PROVE  /\ \A rv : WithResult(c, rv).disp = c.disp
         /\ \A i : WithCard(c, i).disp = c.disp
         /\ \A h : WithHandle(c, h).disp = c.disp
         /\ \A d : WithDisposition(c, d).disp = d
BY DEF WithResult, WithCard, WithHandle, WithDisposition, Calls

\* SCardConnect() keeps SCARD_LEAVE_CARD.
LEMMA ConnectLeaves ==
  ASSUME HandleInv, NEW t \in Clients, Leaves(t), Serve(t) \/ Request(t)
  PROVE  call'[t].cmd = "CONNECT" => call'[t].disp = "LEAVE"
<1>0. TypeOK /\ ThreadOK(t) /\ call[t] \in Calls
  BY CallFields DEF HandleInv
<1> DEFINE Gentle(c) == c.cmd = "CONNECT" => c.disp = "LEAVE"
<1>1. ASSUME NEW c, SetCall(t, c), Gentle(c)
      PROVE  Gentle(call'[t])
  BY <1>0, <1>1 DEF SetCall, TypeOK
<1>2. Gentle(call[t])
  BY DEF Leaves
<1>3. /\ Gentle(NoCall)
      /\ \A rv : Gentle(WithResult(call[t], rv))
      /\ \A i : Gentle(WithCard(call[t], i))
      /\ \A h : Gentle(WithHandle(call[t], h))
      /\ \A h, mode, pref : Gentle(Call("CONNECT", h, mode, pref, "LEAVE"))
      /\ \A h, mode, pref, d : Gentle(Call("RECONNECT", h, mode, pref, d))
      /\ \A cmd, h : Gentle(HandleCall(cmd, h, "LEAVE"))
      /\ \A h, d : /\ Gentle(HandleCall("DISCONNECT", h, d))
                   /\ Gentle(HandleCall("END_TRANSACTION", h, d))
  BY <1>0, <1>2, WithFields, DispositionFields DEF NoCall, HandleCall, Call
<1>4. pc[t] = "removeStatus" => \A d : Gentle(WithDisposition(call[t], d))
  BY <1>0, WithFields DEF ThreadOK
<1> HIDE DEF Gentle
<1>5. CASE Request(t)
  <2>1. Gentle(call'[t])
    BY <1>1, <1>2, <1>3, <1>5
       DEF Request, SCardEstablishContext, SCardConnect, SCardReconnect,
           SCardDisconnect, SCardBeginTransaction, SCardEndTransaction,
           SCardTransmit, SCardControl, SCardAttrib, CallDriver,
           SCardReleaseContext
  <2> QED BY <2>1 DEF Gentle
<1>6. CASE Serve(t)
  <2>1. Gentle(call'[t])
    BY <1>1, <1>2, <1>3, <1>4, <1>6
       DEF Serve, Return, GiveBackHandle, ConnectUnlocked, ConnectPresent,
           ConnectPower, ConnectPowered, ConnectProtocol, ConnectLock,
           ConnectExclusive, ConnectSharingViolation, ConnectLockSharing,
           ConnectAdd, ConnectAddFails, ConnectUndo, ConnectUndone,
           MSGAddHandle, DisconnectUnlocked, DisconnectUnlock,
           DisconnectNotify, DisconnectPower, DisconnectUnpower,
           DisconnectState, DisconnectRemove, DisconnectCount,
           DisconnectDecrement, DisconnectNegative, DisconnectNone,
           DisconnectGrace, DisconnectUnused, DisconnectReturn,
           ReconnectPresent, ReconnectNotify, ReconnectPower, ReconnectState,
           ReconnectProtocol, ReconnectInUse, ReconnectShare,
           ReconnectExclusive, ReconnectLock, ReconnectUnlock,
           ReconnectCount, ReconnectClear, BeginLock, EndPower, EndNotify,
           EndUnlock, UnlockSharing, DriverReturns, DriverNoCard,
           MSGRemoveContext, RemoveUnlock, RemoveStatus, ContextRemoved
  <2> QED BY <2>1 DEF Gentle
<1> QED BY <1>5, <1>6

\* A thread that serves its client preserves Leaves.
LEMMA ServeLeaves ==
  ASSUME HandleInv, NEW t \in Clients, Leaves(t), Serve(t)
  PROVE  Leaves(t)'
<1>0. /\ TypeOK /\ ThreadOK(t) /\ call[t] \in Calls
      /\ call'[t].cmd = "CONNECT" => call'[t].disp = "LEAVE"
  BY CallFields, ConnectLeaves DEF HandleInv
<1>a. ASSUME NEW step, Goto(t, step), step # "disconnectReturn"
      PROVE  Leaves(t)'
  <2>1. pc'[t] # "disconnectReturn"
    BY <1>0, <1>a DEF Goto, TypeOK
  <2> QED BY <1>0, <2>1 DEF Leaves
<1>3. CASE DisconnectUnlock(t)
  <2>1. CASE ~RFCheckSharing(call[t].hCard) /\ call[t].disp # "LEAVE"
    <3>1. call[t].cmd # "CONNECT"
      BY <2>1 DEF Leaves
    <3>2. /\ call'[t].cmd # "CONNECT"
          /\ call'[t].rv = "SHARING_VIOLATION"
      BY <1>0, <1>3, <2>1, <3>1, WithFields
         DEF DisconnectUnlock, SetCall, TypeOK
    <3> QED BY <1>0, <3>2 DEF Leaves
  <2>2. CASE ~(~RFCheckSharing(call[t].hCard) /\ call[t].disp # "LEAVE")
    BY <1>3, <1>a, <2>2 DEF DisconnectUnlock
  <2> QED BY <2>1, <2>2
<1>4. CASE DisconnectGrace(t) \/ DisconnectUnused(t)
  <2>1. /\ pc[t] \in {"disconnectGrace", "disconnectUnused"}
        /\ UNCHANGED call
        /\ pc'[t] \in {"disconnectUnused", "disconnectReturn"}
    BY <1>0, <1>4 DEF DisconnectGrace, DisconnectUnused, Goto, TypeOK
  <2>2. call'[t].rv = "SUCCESS"
    BY <1>0, <2>1 DEF ThreadOK, SureSteps, DisconnectSteps
  <2> QED BY <1>0, <2>1, <2>2 DEF Leaves
<1>5. CASE MSGRemoveContext(t)
  <2>1. PICK h \in cardsList[t] :
          SetCall(t, HandleCall("RELEASE_CONTEXT", h, "LEAVE"))
    BY <1>5 DEF MSGRemoveContext
  <2>2. call'[t].rv = "SUCCESS"
    BY <1>0, <2>1 DEF SetCall, HandleCall, Call, TypeOK
  <2> QED BY <1>0, <2>2 DEF Leaves
<1>7. CASE RemoveStatus(t)
  <2>1. PICK disp : SetCall(t, WithDisposition(call[t], disp))
    BY <1>7 DEF RemoveStatus
  <2>3. call[t].rv = "SUCCESS"
    BY <1>0, <1>7 DEF RemoveStatus, ThreadOK, SureSteps
  <2>4. call'[t].rv = "SUCCESS"
    BY <1>0, <2>1, <2>3, WithFields DEF SetCall, TypeOK
  <2> QED BY <1>0, <2>4 DEF Leaves
<1>8. CASE \E step : Goto(t, step) /\ step # "disconnectReturn"
  BY <1>8, <1>a
<1>9. CASE \/ ConnectUnlocked(t) \/ ConnectPresent(t) \/ ConnectPower(t)
           \/ ConnectPowered(t) \/ ConnectProtocol(t) \/ ConnectLock(t)
           \/ ConnectExclusive(t) \/ ConnectSharingViolation(t)
           \/ ConnectLockSharing(t) \/ ConnectAdd(t) \/ ConnectAddFails(t)
           \/ ConnectUndo(t) \/ ConnectUndone(t) \/ DisconnectNotify(t)
           \/ DisconnectPower(t) \/ DisconnectUnpower(t)
           \/ DisconnectState(t) \/ DisconnectRemove(t)
           \/ DisconnectCount(t) \/ DisconnectDecrement(t)
           \/ DisconnectNegative(t) \/ DisconnectNone(t)
           \/ DisconnectReturn(t) \/ MSGAddHandle(t)
           \/ DisconnectUnlocked(t) \/ RemoveUnlock(t)
  BY <1>8, <1>9
     DEF Return, GiveBackHandle, MSGAddHandle, DisconnectUnlocked,
         RemoveUnlock, ConnectUnlocked, ConnectPresent, ConnectPower,
         ConnectPowered, ConnectProtocol, ConnectLock, ConnectExclusive,
         ConnectSharingViolation, ConnectLockSharing, ConnectAdd,
         ConnectAddFails, ConnectUndo, ConnectUndone, DisconnectNotify,
         DisconnectPower, DisconnectUnpower, DisconnectState,
         DisconnectRemove, DisconnectCount, DisconnectDecrement,
         DisconnectNegative, DisconnectNone, DisconnectReturn
<1>10. CASE \/ ReconnectPresent(t) \/ ReconnectNotify(t)
            \/ ReconnectPower(t) \/ ReconnectState(t)
            \/ ReconnectProtocol(t) \/ ReconnectInUse(t)
            \/ ReconnectShare(t) \/ ReconnectExclusive(t)
            \/ ReconnectLock(t) \/ ReconnectUnlock(t) \/ ReconnectCount(t)
            \/ ReconnectClear(t) \/ BeginLock(t) \/ EndPower(t)
            \/ EndNotify(t) \/ EndUnlock(t) \/ UnlockSharing(t)
            \/ DriverReturns(t) \/ DriverNoCard(t) \/ ContextRemoved(t)
  BY <1>8, <1>10
     DEF Return, UnlockSteps, ReconnectPresent, ReconnectNotify, ReconnectPower,
         ReconnectState, ReconnectProtocol, ReconnectInUse, ReconnectShare,
         ReconnectExclusive, ReconnectLock, ReconnectUnlock,
         ReconnectCount, ReconnectClear, BeginLock, EndPower, EndNotify,
         EndUnlock, UnlockSharing, DriverReturns, DriverNoCard,
         ContextRemoved
<1> QED
  BY <1>3, <1>4, <1>5, <1>7, <1>9, <1>10 DEF Serve

\* A new command starts with success.
LEMMA RequestLeaves ==
  ASSUME HandleInv, NEW t \in Clients, Leaves(t), Request(t)
  PROVE  Leaves(t)'
<1>0. /\ TypeOK /\ ThreadOK(t) /\ call[t] \in Calls
      /\ call'[t].cmd = "CONNECT" => call'[t].disp = "LEAVE"
  BY CallFields, ConnectLeaves DEF HandleInv
<1>a. ASSUME NEW step, Goto(t, step),
             step # "disconnectReturn"
      PROVE  Leaves(t)'
  <2>1. pc'[t] = step
    BY <1>0, <1>a DEF Goto, TypeOK
  <2> QED BY <1>0, <1>a, <2>1 DEF Leaves
<1>1. CASE SCardDisconnect(t)
  <2>1. PICK h, disp : SetCall(t, HandleCall("DISCONNECT", h, disp))
    BY <1>1 DEF SCardDisconnect
  <2>2. call'[t].rv = "SUCCESS"
    BY <1>0, <2>1 DEF SetCall, HandleCall, Call, TypeOK
  <2> QED BY <1>0, <2>2 DEF Leaves
<1>2. CASE SCardEstablishContext(t)
  BY <1>2 DEF SCardEstablishContext, Leaves
<1> QED
  BY <1>a, <1>1, <1>2
     DEF Request, SCardConnect, SCardReconnect, SCardBeginTransaction,
         SCardEndTransaction, SCardTransmit, SCardControl, SCardAttrib,
         CallDriver, SCardReleaseContext

\* With any number of clients, commands, failures and removals of the card, a
\* handle leaves its client and stays in handlesList only when the
\* SCardDisconnect() of MSGRemoveContext() is refused.
THEOREM OrphanHandles == Spec => OrphansAreRefused
<1> DEFINE LInv == \A t \in Clients : Leaves(t)
           Given == \A t \in Clients, h \in handlesList \cap handlesList' :
                      Owns(t, h) /\ ~Owns(t, h)' => RefusedDisconnect(t, h)
<1>1. Init => LInv
  BY NoCallFields DEF Init, Leaves
<1>2. ASSUME HandleInv, LInv, [Next]_vars PROVE LInv' /\ [Given]_vars
  <2>1. ASSUME NEW t \in Clients, Request(t) \/ Serve(t) PROVE LInv' /\ Given
    <3>1. Leaves(t)' /\ Kept(t)
      BY <1>2, <2>1, ServeLeaves, RequestLeaves, ServeKept, RequestKept
    <3>2. Alone(t)
      BY <1>2, <2>1, OthersStay DEF HandleInv
    <3>3. \A u \in Clients \ {t} : Leaves(u)'
      BY <1>2, <3>2 DEF Leaves, Alone
    <3>4. \A u \in Clients \ {t} : \A h : Owns(u, h)' = Owns(u, h)
      BY <3>2 DEF Alone, Owns, Forgetting
    <3> QED BY <3>1, <3>3, <3>4 DEF Kept
  <2>2. CASE EventThread \/ User \/ UNCHANGED vars
    <3>1. UNCHANGED <<pc, call, cardsList>>
      BY <2>2 DEF EventThread, User, vars, EHStart, EHStartPower,
                  EHStartPowerState, EHStartState, EHStatus,
                  EHStatusError, EHCardRemoved, EHUnlockId, EHUnlockCount,
                  EHCardAbsent, EHCardInserted, EHCardPowered,
                  EHSetPowerState, EHPowerOff, InsertCard, RemoveCard
    <3> QED BY <1>2, <3>1 DEF Leaves, Owns, Forgetting
  <2> QED BY <1>2, <2>1, <2>2 DEF Next
<1> QED BY <1>1, <1>2, HandleInvariance, PTL DEF Spec, OrphansAreRefused

-----------------------------------------------------------------------------
\* Nested transactions

\* Steps of exclusive connections and of MSGRemoveContext(), and what
\* SCardDisconnect() does when it finds no connection to count out.
RareSteps == {"connectExclusive", "connectLockSharing", "undoExclusive",
              "disconnectNone", "reconnectExclusive", "reconnectLock",
              "reconnectUnlock", "reconnectCount", "unlockNested",
              "removeContext", "removeUnlock", "removeStatus"}

EndSteps == {"endPower", "endNotify", "endUnlock"} \cup UnlockSteps

\* Thread t serves a client that shares the reader and stays.
Plain(t) ==
  /\ pc[t] \notin RareSteps
  /\ call[t].mode # "EXCLUSIVE"
  /\ call[t].cmd # "RELEASE_CONTEXT"
  /\ pc[t] \in EndSteps => call[t].cmd # "RECONNECT"

\* Every handle but those in S is connected in another mode.
SharedBut(S) == \A h \in Handles \ S : shareMode[h] # "EXCLUSIVE"

\* Every connection is counted once.
ExactCount == contexts = Cardinality(handlesList) + Cardinality(Uncounted)

\* The card has not been removed, and the event thread does not think so.
CardStays ==
  /\ icc # 0 => inserted >= 1
  /\ dwCurrentState # "ABSENT" => icc # 0
  /\ evPc \notin {"removed", "unlockId", "unlockCount", "absent"}
  /\ evPc \in {"startPower", "startPowered", "startUnpowered",
               "startPresent", "startSwallowed", "inserted", "powerUp",
               "powerUpFailed", "setPowered", "setUnpowered"} => icc # 0

\* Thread t disconnects h and has yet to take it out of the history.
Clearing(t, h) ==
  /\ call[t].hCard = h
  /\ pc[t] \in {"disconnectNotify", "disconnectPower", "disconnectUnpower",
                "disconnectState", "disconnectRemove"}

\* LockCount is the depth of the owner of the lock, one more while a thread
\* is between the test and the decrement of RFUnlockSharing(), and 0 when
\* the lock is free; no other handle has locks to give back.
DepthOK ==
  /\ hLockId = NoHandle => LockCount = 0
  /\ hLockId # NoHandle =>
       /\ LockCount > 0
       /\ SharingUnlocked => LockCount = depth[hLockId]
       /\ ~SharingUnlocked => LockCount = depth[hLockId] + 1
  /\ \A t \in Clients :
       pc[t] \in UnlockSteps => hLockId \in Handles /\ call[t].hCard = hLockId
  /\ \A h \in Handles :
       h # hLockId /\ depth[h] # 0 => \E t \in Clients : Clearing(t, h)

DepthInv ==
  /\ CountInv
  /\ LockInv
  /\ \A t \in Clients : Plain(t)
  /\ ExactCount
  /\ SharedBut({})
  /\ CardStays
  /\ DepthOK

\* The instance: connections are shared, clients stay, the card stays and the
\* driver reports its presence correctly.
Peaceful ==
  /\ "EXCLUSIVE" \notin ConnectModes \cup ReconnectModes
  /\ "RELEASE_CONTEXT" \notin Commands
  /\ MaxRemovals = 0
  /\ "status" \notin Faults

\* A step of thread t that counts a connection in or out with its handle.
ExactlyBooked(t) ==
  \/ contexts' = contexts /\ (Counts(t) <=> Counts(t)')
  \/ contexts' = contexts + 1 /\ ~Counts(t) /\ Counts(t)'
  \/ contexts' = contexts - 1 /\ Counts(t) /\ ~Counts(t)'

\* Such a step preserves ExactCount.
LEMMA ExactStep ==
  ASSUME TypeOK, CountInv, ExactCount, NEW t \in Clients, Alone(t),
         UNCHANGED handlesList, ExactlyBooked(t)
  PROVE  ExactCount'
<1>1. contexts \in Int
  BY DEF TypeOK
<1>2. /\ Cardinality(Uncounted) \in Nat /\ Cardinality(Uncounted') \in Nat
      /\ (Counts(t) <=> Counts(t)')
           => Cardinality(Uncounted') = Cardinality(Uncounted)
      /\ ~Counts(t) /\ Counts(t)'
           => Cardinality(Uncounted') = Cardinality(Uncounted) + 1
      /\ Counts(t) /\ ~Counts(t)'
           => Cardinality(Uncounted') = Cardinality(Uncounted) - 1
  BY UncountedStep DEF CountInv
<1>3. Cardinality(handlesList) \in Nat
  BY FS_CardinalityType DEF CountInv
<1> QED BY <1>1, <1>2, <1>3 DEF ExactCount, ExactlyBooked

\* There is a connection while a thread has one that it has counted.
LEMMA CountedFacts ==
  ASSUME TypeOK, CountInv, ExactCount
  PROVE  /\ contexts >= 0
         /\ \A t \in Clients : Counts(t) => contexts >= 1
<1>1. /\ contexts \in Int /\ Cardinality(Uncounted) \in Nat
      /\ Cardinality(handlesList) \in Nat
  BY FS_CardinalityType DEF TypeOK, CountInv
<1>2. ASSUME NEW t \in Clients, Counts(t) PROVE Cardinality(Uncounted) >= 1
  <2>1. t \in Uncounted
    BY <1>2 DEF Uncounted, Counts
  <2>2. Cardinality(Uncounted) # 0
    BY <2>1, FS_EmptySet DEF CountInv
  <2> QED BY <1>1, <2>2
<1> QED BY <1>1, <1>2 DEF ExactCount

\* The commands that shared clients send and that threads go on with.
LEMMA PlainCall ==
  ASSUME Peaceful, TypeOK, NEW t \in Clients, Plain(t), Serve(t) \/ Request(t)
  PROVE  call'[t].mode # "EXCLUSIVE" /\ call'[t].cmd # "RELEASE_CONTEXT"
<1>0. call[t] \in Calls
  BY CallFields
<1> DEFINE Fine(c) == c.mode # "EXCLUSIVE" /\ c.cmd # "RELEASE_CONTEXT"
<1>1. ASSUME NEW c, SetCall(t, c), Fine(c)
      PROVE  Fine(call'[t])
  BY <1>1 DEF SetCall, TypeOK
<1>2. Fine(call[t])
  BY DEF Plain
<1>3. /\ Fine(NoCall)
      /\ \A rv : Fine(WithResult(call[t], rv))
      /\ \A i : Fine(WithCard(call[t], i))
      /\ \A h : Fine(WithHandle(call[t], h))
      /\ \A d : Fine(WithDisposition(call[t], d))
      /\ \A h, pref, d : \A mode \in ConnectModes :
           Fine(Call("CONNECT", h, mode, pref, d))
      /\ \A h, pref, d : \A mode \in ReconnectModes :
           Fine(Call("RECONNECT", h, mode, pref, d))
      /\ \A h, d : \A cmd \in {"DISCONNECT", "BEGIN_TRANSACTION",
                                "END_TRANSACTION", "TRANSMIT", "CONTROL",
                                "ATTRIB"} : Fine(HandleCall(cmd, h, d))
  BY <1>0, <1>2, WithFields, ModeFields
     DEF NoCall, HandleCall, Call, Peaceful
<1> HIDE DEF Fine
<1>4. CASE Request(t)
  <2>1. Fine(call'[t])
    BY <1>1, <1>2, <1>3, <1>4
       DEF Request, SCardEstablishContext, SCardConnect, SCardReconnect,
           SCardDisconnect, SCardBeginTransaction, SCardEndTransaction,
           SCardTransmit, SCardControl, SCardAttrib, CallDriver,
           SCardReleaseContext
  <2> QED BY <2>1 DEF Fine
<1>5. CASE Serve(t)
  <2>1. pc[t] # "removeContext"
    BY DEF Plain, RareSteps
  <2>2. Fine(call'[t])
    BY <1>1, <1>2, <1>3, <1>5, <2>1
       DEF Serve, Return, GiveBackHandle, ConnectUnlocked, ConnectPresent,
           ConnectPower, ConnectPowered, ConnectProtocol, ConnectLock,
           ConnectExclusive, ConnectSharingViolation, ConnectLockSharing,
           ConnectAdd, ConnectAddFails, ConnectUndo, ConnectUndone,
           MSGAddHandle, DisconnectUnlocked, DisconnectUnlock,
           DisconnectNotify, DisconnectPower, DisconnectUnpower,
           DisconnectState, DisconnectRemove, DisconnectCount,
           DisconnectDecrement, DisconnectNegative, DisconnectNone,
           DisconnectGrace, DisconnectUnused, DisconnectReturn,
           ReconnectPresent, ReconnectNotify, ReconnectPower, ReconnectState,
           ReconnectProtocol, ReconnectInUse, ReconnectShare,
           ReconnectExclusive, ReconnectLock, ReconnectUnlock,
           ReconnectCount, ReconnectClear, BeginLock, EndPower, EndNotify,
           EndUnlock, UnlockSharing, DriverReturns, DriverNoCard,
           MSGRemoveContext, RemoveUnlock, RemoveStatus, ContextRemoved
  <2> QED BY <2>2 DEF Fine
<1> QED BY <1>4, <1>5

\* No thread gets to a rare step, since contexts is never negative.
LEMMA PlainStep ==
  ASSUME Peaceful, HandleInv, NEW t \in Clients, Plain(t), CountInv,
         ExactCount, Serve(t) \/ Request(t)
  PROVE  Plain(t)'
<1>0. /\ TypeOK /\ ThreadOK(t) /\ call[t] \in Calls
      /\ contexts \in Int /\ contexts >= 0
      /\ call'[t].mode # "EXCLUSIVE" /\ call'[t].cmd # "RELEASE_CONTEXT"
  BY CallFields, CountedFacts, PlainCall DEF HandleInv, TypeOK
<1>c. \A step : Goto(t, step) => pc'[t] = step
  BY <1>0 DEF Goto, TypeOK
<1>d. \A d : SetCall(t, d) => call'[t] = d
  BY <1>0 DEF SetCall, TypeOK
<1>e. ASSUME pc'[t] \notin RareSteps \cup EndSteps
      PROVE  Plain(t)'
  BY <1>0, <1>e DEF Plain
<1> USE DEF EXCLUSIVE_CONTEXT, NO_CONTEXT
<1>1. CASE EndPower(t) \/ EndNotify(t)
  <2>1. pc'[t] \in {"endNotify", "endUnlock"} /\ call'[t].cmd = call[t].cmd
    BY <1>0, <1>1, <1>c, <1>d, WithFields DEF EndPower, EndNotify
  <2>2. call[t].cmd # "RECONNECT"
    BY <1>1 DEF EndPower, EndNotify, Plain, EndSteps
  <2> QED BY <1>0, <2>1, <2>2 DEF Plain, RareSteps
<1>2. CASE EndUnlock(t)
  <2>1. \/ pc'[t] = "idle"
        \/ pc'[t] = "unlockLast" /\ call'[t] = call[t]
    BY <1>0, <1>2, <1>c
       DEF EndUnlock, RFUnlockSharing, UnlockSteps, Return
  <2>2. call[t].cmd # "RECONNECT"
    BY <1>2 DEF EndUnlock, Plain, EndSteps
  <2> QED BY <1>0, <2>1, <2>2 DEF Plain, RareSteps, EndSteps, UnlockSteps
<1>3. CASE SCardEndTransaction(t)
  <2>1. /\ pc'[t] \in {"endPower", "endUnlock"}
        /\ \E h, disp : call'[t] = HandleCall("END_TRANSACTION", h, disp)
    BY <1>3, <1>c, <1>d DEF SCardEndTransaction
  <2>2. call'[t].cmd # "RECONNECT"
    BY <2>1 DEF HandleCall, Call
  <2> QED BY <1>0, <2>1, <2>2 DEF Plain, RareSteps
<1>4. CASE Request(t) /\ ~SCardEndTransaction(t)
  <2>1. pc'[t] \notin RareSteps \cup EndSteps
    BY <1>4, <1>c
       DEF Request, SCardEstablishContext, SCardConnect, SCardReconnect,
           SCardDisconnect, DisconnectEntry, SCardBeginTransaction,
           SCardTransmit, SCardControl, SCardAttrib, CallDriver,
           SCardReleaseContext, Peaceful, MSGCheckHandleAssociation,
           RareSteps, EndSteps, UnlockSteps
  <2> QED BY <1>e, <2>1
<1>5. CASE \/ ConnectUndo(t) \/ DisconnectCount(t) \/ ConnectLock(t)
           \/ ReconnectShare(t) \/ DisconnectNegative(t)
  <2>1. pc'[t] \notin RareSteps \cup EndSteps
    BY <1>0, <1>5, <1>c
       DEF ConnectUndo, DisconnectCount, ConnectLock, ReconnectShare,
           DisconnectNegative, Return, Plain, RareSteps, EndSteps,
           UnlockSteps
  <2> QED BY <1>e, <2>1
<1>6. CASE \/ UnlockSharing(t) \/ DisconnectReturn(t)
  <2>1. pc'[t] \notin RareSteps \cup EndSteps
    BY <1>6, <1>c
       DEF UnlockSharing, DisconnectReturn, Return, Plain, RareSteps,
           EndSteps, UnlockSteps
  <2> QED BY <1>e, <2>1
<1>7. CASE \/ ConnectUnlocked(t) \/ ConnectPresent(t) \/ ConnectPower(t)
           \/ ConnectPowered(t) \/ ConnectProtocol(t)
           \/ ConnectSharingViolation(t) \/ ConnectAdd(t)
           \/ ConnectAddFails(t) \/ ConnectUndone(t) \/ MSGAddHandle(t)
           \/ DisconnectUnlocked(t) \/ DisconnectUnlock(t)
           \/ DisconnectNotify(t) \/ DisconnectPower(t)
           \/ DisconnectUnpower(t) \/ DisconnectState(t)
           \/ DisconnectRemove(t) \/ DisconnectDecrement(t)
           \/ DisconnectGrace(t) \/ DisconnectUnused(t)
           \/ ReconnectPresent(t) \/ ReconnectNotify(t)
           \/ ReconnectPower(t) \/ ReconnectState(t)
           \/ ReconnectProtocol(t) \/ ReconnectInUse(t)
           \/ ReconnectClear(t) \/ BeginLock(t) \/ DriverReturns(t)
           \/ DriverNoCard(t)
  <2>1. pc'[t] \notin RareSteps \cup EndSteps
    BY <1>7, <1>c
       DEF ConnectUnlocked, ConnectPresent, ConnectPower, ConnectPowered,
           ConnectProtocol, ConnectSharingViolation, ConnectAdd,
           ConnectAddFails, ConnectUndone, MSGAddHandle, GiveBackHandle,
           DisconnectUnlocked, DisconnectUnlock, DisconnectNotify,
           DisconnectPower, DisconnectUnpower, DisconnectState,
           DisconnectRemove, DisconnectDecrement, DisconnectGrace,
           DisconnectUnused, ReconnectPresent, ReconnectNotify, ReconnectPower,
           ReconnectState, ReconnectProtocol, ReconnectInUse,
           ReconnectClear, BeginLock, DriverReturns, DriverNoCard, Return,
           RareSteps, EndSteps, UnlockSteps
  <2> QED BY <1>e, <2>1
<1>8. CASE \/ ConnectExclusive(t) \/ ConnectLockSharing(t)
           \/ DisconnectNone(t) \/ ReconnectExclusive(t)
           \/ ReconnectLock(t) \/ ReconnectUnlock(t) \/ ReconnectCount(t)
           \/ MSGRemoveContext(t) \/ RemoveUnlock(t) \/ RemoveStatus(t)
           \/ ContextRemoved(t)
  BY <1>8 DEF ConnectExclusive, ConnectLockSharing, DisconnectNone,
              ReconnectExclusive, ReconnectLock, ReconnectUnlock,
              ReconnectCount, MSGRemoveContext, RemoveUnlock, RemoveStatus,
              ContextRemoved, Plain, RareSteps
<1> QED
  BY <1>1, <1>2, <1>3, <1>4, <1>5, <1>6, <1>7, <1>8 DEF Serve

\* Every step of a server thread preserves ExactCount: without exclusive
\* connections no step sets contexts, it is only counted up and down.
LEMMA ServeExact ==
  ASSUME HandleInv, CountInv, ExactCount, NEW t \in Clients, Plain(t),
         Serve(t)
  PROVE  ExactCount'
<1>0. /\ TypeOK /\ ThreadOK(t)
      /\ contexts \in Int /\ contexts >= 0
      /\ Counts(t) => contexts >= 1
  BY CountedFacts DEF HandleInv, TypeOK
<1>a. Alone(t)
  BY <1>0, OthersStay
<1>b. ASSUME UNCHANGED handlesList, ExactlyBooked(t) PROVE ExactCount'
  BY <1>0, <1>a, <1>b, ExactStep
<1>c. \A step : Goto(t, step) => pc'[t] = step
  BY <1>0 DEF Goto, TypeOK
<1>1. CASE ConnectLock(t)
  BY <1>1, <1>b, <1>c DEF ConnectLock, Plain, ExactlyBooked, Counts
<1>2. CASE ConnectAddFails(t) \/ DisconnectCount(t) \/ ConnectUndo(t)
  <2>1. /\ UNCHANGED <<handlesList, contexts>> /\ Counts(t)
        /\ pc'[t] \in {"connectUndo", "disconnectNone",
                       "disconnectDecrement", "undoExclusive", "undoShared"}
    BY <1>0, <1>2, <1>c DEF ConnectAddFails, DisconnectCount, ConnectUndo,
                            Counts, NO_CONTEXT
  <2> QED BY <1>b, <2>1 DEF ExactlyBooked, Counts
<1>3. CASE ConnectUndone(t) \/ DisconnectDecrement(t)
  <2>1. /\ UNCHANGED handlesList /\ contexts' = contexts - 1 /\ Counts(t)
        /\ pc'[t] \in {"idle", "disconnectNegative"}
    BY <1>3, <1>c DEF ConnectUndone, DisconnectDecrement, RemoveConnection,
                      Return, Counts, Plain, RareSteps
  <2> QED BY <1>b, <2>1 DEF ExactlyBooked, Counts
<1>4. CASE ConnectAdd(t)
  <2>1. /\ handlesList' = handlesList \cup {call[t].hCard}
        /\ call[t].hCard \notin handlesList
        /\ contexts' = contexts /\ Counts(t) /\ ~Counts(t)'
    BY <1>0, <1>4, <1>c DEF ConnectAdd, RFAddReaderHandle, ThreadOK,
                            NewSteps, Counts
  <2>2. /\ Cardinality(handlesList) \in Nat
        /\ Cardinality(handlesList') = Cardinality(handlesList) + 1
    BY <2>1, FS_AddElement, FS_CardinalityType DEF CountInv
  <2>3. /\ Cardinality(Uncounted) \in Nat
        /\ Cardinality(Uncounted') = Cardinality(Uncounted) - 1
    BY <1>a, <2>1, UncountedStep DEF CountInv
  <2> QED BY <1>0, <2>1, <2>2, <2>3 DEF ExactCount
<1>5. CASE DisconnectRemove(t)
  <2>1. /\ handlesList' = handlesList \ {call[t].hCard}
        /\ contexts' = contexts /\ ~Counts(t) /\ Counts(t)'
    BY <1>5, <1>c DEF DisconnectRemove, RFRemoveReaderHandle, Counts
  <2>2. Owns(t, call[t].hCard) /\ call[t].hCard \in Handles
    BY <1>0, <1>5 DEF DisconnectRemove, ThreadOK, DisconnectSteps, Owns,
                      Forgetting
  <2>3. call[t].hCard \in handlesList
    BY <2>2 DEF HandleInv, Ownership
  <2>4. /\ Cardinality(handlesList) \in Nat
        /\ Cardinality(handlesList') = Cardinality(handlesList) - 1
    BY <2>1, <2>3, FS_RemoveElement, FS_CardinalityType DEF CountInv
  <2>5. /\ Cardinality(Uncounted) \in Nat
        /\ Cardinality(Uncounted') = Cardinality(Uncounted) + 1
    BY <1>a, <2>1, UncountedStep DEF CountInv
  <2> QED BY <1>0, <2>1, <2>4, <2>5 DEF ExactCount
<1>6. CASE /\ UNCHANGED <<handlesList, contexts>>
           /\ ~Counts(t) /\ ~Counts(t)'
  BY <1>b, <1>6 DEF ExactlyBooked
<1>7. CASE \/ ConnectUnlocked(t) \/ ConnectPresent(t) \/ ConnectPower(t)
           \/ ConnectPowered(t) \/ ConnectProtocol(t)
           \/ ConnectSharingViolation(t) \/ MSGAddHandle(t)
           \/ DisconnectUnlocked(t) \/ DisconnectUnlock(t)
           \/ DisconnectNotify(t) \/ DisconnectPower(t)
           \/ DisconnectUnpower(t) \/ DisconnectState(t)
           \/ DisconnectNegative(t) \/ DisconnectGrace(t)
           \/ DisconnectUnused(t) \/ DisconnectReturn(t)
  <2>1. UNCHANGED <<handlesList, contexts>> /\ ~Counts(t) /\ ~Counts(t)'
    BY <1>0, <1>7, <1>c
       DEF ConnectUnlocked, ConnectPresent, ConnectPower, ConnectPowered,
           ConnectProtocol, ConnectSharingViolation, MSGAddHandle,
           GiveBackHandle, DisconnectUnlocked, DisconnectUnlock,
           DisconnectNotify, DisconnectPower, DisconnectUnpower,
           DisconnectState, DisconnectNegative, DisconnectGrace,
           DisconnectUnused, DisconnectReturn, Return, Counts
  <2> QED BY <1>6, <2>1
<1>8. CASE \/ ReconnectPresent(t) \/ ReconnectNotify(t)
            \/ ReconnectPower(t) \/ ReconnectState(t)
           \/ ReconnectProtocol(t) \/ ReconnectInUse(t)
           \/ ReconnectShare(t) \/ ReconnectClear(t) \/ BeginLock(t)
           \/ EndPower(t) \/ EndNotify(t) \/ EndUnlock(t)
           \/ UnlockSharing(t) \/ DriverReturns(t) \/ DriverNoCard(t)
  <2>1. UNCHANGED <<handlesList, contexts>> /\ ~Counts(t) /\ ~Counts(t)'
    BY <1>8, <1>c
       DEF ReconnectPresent, ReconnectNotify, ReconnectPower, ReconnectState,
           ReconnectProtocol, ReconnectInUse, ReconnectShare,
           ReconnectClear, BeginLock, EndPower, EndNotify, EndUnlock,
           UnlockSharing, DriverReturns, DriverNoCard, Return, UnlockSteps,
           Counts
  <2> QED BY <1>6, <2>1
<1>9. CASE \/ ConnectExclusive(t) \/ ConnectLockSharing(t)
           \/ DisconnectNone(t) \/ ReconnectExclusive(t)
           \/ ReconnectLock(t) \/ ReconnectUnlock(t) \/ ReconnectCount(t)
           \/ MSGRemoveContext(t) \/ RemoveUnlock(t) \/ RemoveStatus(t)
           \/ ContextRemoved(t)
  BY <1>9 DEF ConnectExclusive, ConnectLockSharing, DisconnectNone,
              ReconnectExclusive, ReconnectLock, ReconnectUnlock,
              ReconnectCount, MSGRemoveContext, RemoveUnlock, RemoveStatus,
              ContextRemoved, Plain, RareSteps
<1> QED
  BY <1>1, <1>2, <1>3, <1>4, <1>5, <1>7, <1>8, <1>9 DEF Serve

\* Accepting a command counts nothing.
LEMMA RequestExact ==
  ASSUME HandleInv, CountInv, ExactCount, NEW t \in Clients, Request(t)
  PROVE  ExactCount'
<1>0. TypeOK /\ Alone(t)
  BY OthersStay DEF HandleInv
<1>c. \A step : Goto(t, step) => pc'[t] = step
  BY <1>0 DEF Goto, TypeOK
<1>1. UNCHANGED <<handlesList, contexts>> /\ ~Counts(t) /\ ~Counts(t)'
  BY <1>c DEF Request, SCardEstablishContext, SCardConnect, SCardReconnect,
            SCardDisconnect, DisconnectEntry, SCardBeginTransaction,
            SCardEndTransaction, SCardTransmit, SCardControl, SCardAttrib,
            CallDriver, SCardReleaseContext, MSGCheckHandleAssociation,
            Counts
<1> QED BY <1>0, <1>1, ExactStep DEF ExactlyBooked

\* No handle becomes exclusive.
LEMMA ServeShares ==
  ASSUME HandleInv, SharedBut({}), NEW t \in Clients, Plain(t),
         Serve(t) \/ Request(t)
  PROVE  SharedBut({})'
<1>0. TypeOK /\ call[t].mode # "EXCLUSIVE"
  BY DEF HandleInv, Plain
<1>1. CASE \E h : \E m \in {"NONE", call[t].mode} :
             shareMode' = [shareMode EXCEPT ![h] = m]
  BY <1>0, <1>1 DEF SharedBut, TypeOK
<1>2. CASE UNCHANGED shareMode
  BY <1>2 DEF SharedBut
<1> HIDE DEF SharedBut
<1>3. CASE MSGAddHandle(t) \/ ReconnectClear(t) \/ DisconnectRemove(t)
  BY <1>1, <1>2, <1>3 DEF MSGAddHandle, ReconnectClear, DisconnectRemove
<1>4. CASE Request(t)
  <2>1. UNCHANGED shareMode
    BY <1>4 DEF Request, SCardEstablishContext, SCardConnect, SCardReconnect,
            SCardDisconnect, SCardBeginTransaction, SCardEndTransaction,
            SCardTransmit, SCardControl, SCardAttrib, CallDriver,
            SCardReleaseContext
  <2> QED BY <1>2, <2>1
<1>5. CASE Serve(t)
  BY <1>2, <1>3, <1>5
     DEF Serve, ConnectUnlocked, ConnectPresent, ConnectPower,
         ConnectPowered, ConnectProtocol, ConnectLock, ConnectExclusive,
         ConnectSharingViolation, ConnectLockSharing, ConnectAdd,
         ConnectAddFails, ConnectUndo, ConnectUndone, DisconnectUnlocked,
         DisconnectUnlock, DisconnectNotify, DisconnectPower,
         DisconnectUnpower, DisconnectState, DisconnectCount,
         DisconnectDecrement, DisconnectNegative, DisconnectNone,
         DisconnectGrace, DisconnectUnused, DisconnectReturn,
         ReconnectPresent, ReconnectNotify, ReconnectPower, ReconnectState,
         ReconnectProtocol, ReconnectInUse, ReconnectShare,
         ReconnectExclusive, ReconnectLock, ReconnectUnlock,
         ReconnectCount, BeginLock, EndPower, EndNotify, EndUnlock,
         UnlockSharing, DriverReturns, DriverNoCard, MSGRemoveContext,
         RemoveUnlock, RemoveStatus, ContextRemoved
<1> QED BY <1>4, <1>5

\* The card stays, and the event thread never takes it for removed.
LEMMA StepCard ==
  ASSUME Peaceful, TypeOK, CardStays, [Next]_vars
  PROVE  CardStays'
<1>0. inserted \in Nat /\ icc \in Nat
  BY DEF TypeOK
<1>1. CASE EventThread
  <2>1. CASE EHStart \/ EHStartPower
    BY <1>0, <2>1 DEF EHStart, EHStartPower, CardStays, Peaceful
  <2>2. CASE EHStartPowerState \/ EHStartState
    BY <1>0, <2>2 DEF EHStartPowerState, EHStartState, CardStays, Peaceful
  <2>3. CASE ~(\/ EHStart \/ EHStartPower
               \/ EHStartPowerState \/ EHStartState)
    BY <1>0, <1>1, <2>3
       DEF EventThread, EHStatus, EHStatusError, EHCardRemoved, EHUnlockId,
           EHUnlockCount, EHCardAbsent, EHCardInserted, EHCardPowered,
           EHSetPowerState, EHPowerOff, CardStays, Peaceful
  <2> QED BY <2>1, <2>2, <2>3
<1>2. CASE User
  BY <1>0, <1>2 DEF User, InsertCard, RemoveCard, CardStays, Peaceful
<1>3. CASE UNCHANGED vars \/ \E t \in Clients : Request(t)
  <2>1. UNCHANGED <<icc, inserted, evPc, dwCurrentState>>
    BY <1>3 DEF vars, Request, SCardEstablishContext, SCardConnect,
            SCardReconnect, SCardDisconnect, SCardBeginTransaction,
            SCardEndTransaction, SCardTransmit, SCardControl, SCardAttrib,
            CallDriver, SCardReleaseContext
  <2> QED BY <2>1 DEF CardStays
<1>4. CASE \E t \in Clients : Serve(t)
  <2>1. UNCHANGED <<icc, inserted, evPc, dwCurrentState>>
    BY <1>4
       DEF Serve, ConnectUnlocked, ConnectPresent, ConnectPower,
           ConnectPowered, ConnectProtocol, ConnectLock, ConnectExclusive,
           ConnectSharingViolation, ConnectLockSharing, ConnectAdd,
           ConnectAddFails, ConnectUndo, ConnectUndone, MSGAddHandle,
           DisconnectUnlocked, DisconnectUnlock, DisconnectNotify,
           DisconnectPower, DisconnectUnpower, DisconnectState,
           DisconnectRemove, DisconnectCount, DisconnectDecrement,
           DisconnectNegative, DisconnectNone, DisconnectGrace,
           DisconnectUnused, DisconnectReturn, ReconnectPresent,
           ReconnectNotify, ReconnectPower, ReconnectState,
           ReconnectProtocol, ReconnectInUse, ReconnectShare,
           ReconnectExclusive,
           ReconnectLock, ReconnectUnlock, ReconnectCount, ReconnectClear,
           BeginLock, EndPower, EndNotify, EndUnlock, UnlockSharing,
           DriverReturns, DriverNoCard, MSGRemoveContext, RemoveUnlock,
           RemoveStatus, ContextRemoved
  <2> QED BY <2>1 DEF CardStays
<1> QED BY <1>1, <1>2, <1>3, <1>4 DEF Next

\* A step of thread t that has nothing to do with the lock.
LEMMA QuietStep ==
  ASSUME DepthOK, NEW t \in Clients, Alone(t),
         UNCHANGED <<hLockId, LockCount, depth>>,
         pc[t] \notin UnlockSteps, pc'[t] \notin UnlockSteps,
         \A h \in Handles : Clearing(t, h) => Clearing(t, h)'
  PROVE  DepthOK'
<1>1. SharingUnlocked' <=> SharingUnlocked
  BY DEF SharingUnlocked, Alone
<1>2. ASSUME NEW u \in Clients, pc'[u] \in UnlockSteps
      PROVE  hLockId \in Handles /\ call'[u].hCard = hLockId
  BY <1>2 DEF DepthOK, Alone
<1>3. ASSUME NEW h \in Handles, NEW u \in Clients, Clearing(u, h)
      PROVE  Clearing(u, h)'
  BY <1>3 DEF Clearing, Alone
<1> HIDE DEF SharingUnlocked, Clearing
<1> QED BY <1>1, <1>2, <1>3 DEF DepthOK

\* A handle that another thread is not disconnecting, and does not hold the
\* lock, has no locks to give back.
LEMMA NothingOwed ==
  ASSUME HandleInv, DepthOK, NEW t \in Clients, NEW h \in Handles,
         Owns(t, h), ~Clearing(t, h), hLockId # h
  PROVE  depth[h] = 0
<1>1. ASSUME NEW u \in Clients, Clearing(u, h) PROVE Owns(u, h)
  BY <1>1 DEF Clearing, HandleInv, ThreadOK, DisconnectSteps, Owns,
              Forgetting
<1> QED BY <1>1 DEF DepthOK, HandleInv, Ownership

\* SCardBeginTransaction() adds one lock to the depth of its handle.
LEMMA BeginDepth ==
  ASSUME HandleInv, DepthOK, NEW t \in Clients, Alone(t), BeginLock(t)
  PROVE  DepthOK'
<1> DEFINE h == call[t].hCard
<1>0. /\ TypeOK /\ h \in Handles /\ Owns(t, h)
      /\ pc[t] = "beginLock" /\ pc'[t] = "idle"
      /\ \A g : ~Clearing(t, g)
      /\ SharingUnlocked /\ RFLockSharing(h) /\ LockGiven(h)
  BY DEF BeginLock, Return, Goto, HandleInv, ThreadOK, HandleSteps, Owns,
         Forgetting, Clearing, TypeOK
<1>1. hLockId \in {NoHandle, h} => LockCount = depth[h]
  BY <1>0, NothingOwed, ConstantsAssumption DEF DepthOK
<1>2. SharingUnlocked'
  BY <1>0 DEF SharingUnlocked, Alone, UnlockSteps
<1>3. ASSUME NEW g \in Handles, NEW u \in Clients, Clearing(u, g)
      PROVE  Clearing(u, g)'
  BY <1>0, <1>3 DEF Clearing, Alone
<1>4. CASE hLockId \in {NoHandle, h}
  <2>1. /\ hLockId' = h /\ LockCount' = LockCount + 1
        /\ depth' = [depth EXCEPT ![h] = @ + 1]
    BY <1>0, <1>4 DEF RFLockSharing, LockGiven, RFCheckSharing
  <2>2. /\ depth[h] \in Nat /\ depth'[h] = depth[h] + 1
        /\ \A g \in Handles : g # h => depth'[g] = depth[g]
    BY <1>0, <2>1 DEF TypeOK
  <2>3. \A u \in Clients : pc'[u] \notin UnlockSteps
    BY <1>2 DEF SharingUnlocked
  <2>4. \A g \in Handles : g # h /\ depth[g] # 0 =>
          \E u \in Clients : Clearing(u, g)
    BY <1>4, ConstantsAssumption DEF DepthOK
  <2>5. h # NoHandle
    BY <1>0, ConstantsAssumption
  <2> HIDE DEF h, SharingUnlocked, Clearing
  <2> QED BY <1>1, <1>2, <1>3, <1>4, <2>1, <2>2, <2>3, <2>4, <2>5
          DEF DepthOK
<1>5. CASE hLockId \notin {NoHandle, h}
  <2>1. UNCHANGED <<hLockId, LockCount, depth>>
    BY <1>0, <1>5 DEF RFLockSharing, LockGiven, RFCheckSharing
  <2> QED BY <1>0, <2>1, QuietStep DEF UnlockSteps
<1> QED BY <1>4, <1>5

\* SCardEndTransaction() gives one lock back, when its test says so.
LEMMA EndDepth ==
  ASSUME HandleInv, DepthOK, ExactCount, CountInv, SharedBut({}),
         NEW t \in Clients, Alone(t), EndUnlock(t)
  PROVE  DepthOK'
<1> DEFINE h == call[t].hCard
<1>0. /\ TypeOK /\ h \in Handles /\ Owns(t, h)
      /\ pc[t] = "endUnlock"
      /\ \A g : ~Clearing(t, g)
      /\ SharingUnlocked /\ LockGivenBack(h, 0)
      /\ UNCHANGED <<hLockId, LockCount>>
      /\ LockCount \in Int /\ contexts \in Int
  BY DEF EndUnlock, HandleInv, ThreadOK, HandleSteps, Owns,
         Forgetting, Clearing, TypeOK, SharedBut
<1>1. contexts # EXCLUSIVE_CONTEXT
  BY <1>0, CountedFacts DEF EXCLUSIVE_CONTEXT
<1>3. ASSUME NEW g \in Handles, NEW u \in Clients, Clearing(u, g)
      PROVE  Clearing(u, g)'
  BY <1>0, <1>3 DEF Clearing, Alone
<1>4. CASE hLockId = h
  <2>1. LockCount = depth[h] /\ LockCount > 0 /\ h # NoHandle
    BY <1>0, <1>4, ConstantsAssumption DEF DepthOK
  <2>2. /\ pc'[t] = "unlockLast" /\ call' = call
        /\ depth' = [depth EXCEPT ![h] = @ - 1]
    BY <1>0, <1>1, <1>4, <2>1
       DEF EndUnlock, RFUnlockSharing, RFCheckSharing, UnlockSteps,
           LockGivenBack, Goto, TypeOK
  <2>3. /\ depth[h] \in Nat /\ depth'[h] = depth[h] - 1
        /\ \A g \in Handles : g # h => depth'[g] = depth[g]
    BY <1>0, <2>2 DEF TypeOK
  <2>4. /\ ~SharingUnlocked'
        /\ \A u \in Clients : pc'[u] \in UnlockSteps => u = t
    BY <1>0, <2>2 DEF SharingUnlocked, UnlockSteps, Alone
  <2>5. \A g \in Handles : g # h /\ depth[g] # 0 =>
          \E u \in Clients : Clearing(u, g)
    BY <1>4 DEF DepthOK
  <2>6. call'[t].hCard = h
    BY <2>2
  <2> HIDE DEF h, SharingUnlocked, Clearing
  <2> QED BY <1>0, <1>3, <1>4, <2>1, <2>3, <2>4, <2>5, <2>6 DEF DepthOK
<1>5. CASE hLockId # h
  <2>1. depth[h] = 0
    BY <1>0, <1>5, NothingOwed
  <2>2. UNCHANGED depth
    BY <1>0, <2>1 DEF LockGivenBack
  <2>3. RFUnlockSharing(h) \notin UnlockSteps
    BY <1>0, <1>1, <1>5
       DEF RFUnlockSharing, RFCheckSharing, DepthOK, UnlockSteps
  <2>4. pc'[t] = "idle"
    BY <1>0, <2>3 DEF EndUnlock, Return, Goto, TypeOK
  <2> QED BY <1>0, <2>2, <2>4, QuietStep DEF UnlockSteps
<1> QED BY <1>4, <1>5

\* The update in RFUnlockSharing() brings LockCount down to the depth.
LEMMA UnlockDepth ==
  ASSUME HandleInv, DepthOK, NEW t \in Clients, Alone(t), Plain(t),
         UnlockSharing(t)
  PROVE  DepthOK'
<1>0. /\ TypeOK /\ pc[t] = "unlockLast" /\ pc'[t] = "idle"
      /\ hLockId \in Handles /\ hLockId # NoHandle
      /\ LockCount \in Int /\ depth[hLockId] \in Nat
      /\ LockCount' = LockCount - 1 /\ depth' = depth
      /\ hLockId' = IF LockCount = 1 THEN NoHandle ELSE hLockId
  BY ConstantsAssumption
     DEF UnlockSharing, HandleInv, DepthOK, Plain, RareSteps, EndSteps,
         UnlockSteps, Return, Goto, TypeOK
<1>1. LockCount = depth[hLockId] + 1
  BY <1>0 DEF DepthOK, SharingUnlocked, UnlockSteps
<1>2. \A u \in Clients : pc'[u] \notin UnlockSteps
  BY <1>0 DEF HandleInv, OneUnlocks, UnlockSteps, Alone
<1>3. ASSUME NEW g \in Handles, NEW u \in Clients, Clearing(u, g)
      PROVE  Clearing(u, g)'
  BY <1>0, <1>3 DEF Clearing, Alone
<1>4. ASSUME NEW g \in Handles, g # hLockId', depth[g] # 0
      PROVE  \E u \in Clients : Clearing(u, g)
  <2>1. g # hLockId
    BY <1>0, <1>1, <1>4
  <2> QED BY <1>4, <2>1 DEF DepthOK
<1>5. SharingUnlocked'
  BY <1>2 DEF SharingUnlocked
<1> HIDE DEF SharingUnlocked, Clearing
<1> QED BY <1>0, <1>1, <1>2, <1>3, <1>4, <1>5 DEF DepthOK

\* SCardDisconnect() gives up all the locks of its handle at once.
LEMMA DisconnectDepth ==
  ASSUME HandleInv, DepthOK, NEW t \in Clients, Alone(t), DisconnectUnlock(t)
  PROVE  DepthOK'
<1>h. PICK h \in Handles : h = call[t].hCard
  BY DEF DisconnectUnlock, HandleInv, ThreadOK, DisconnectSteps
<1>0. /\ TypeOK /\ pc[t] = "disconnectUnlock"
      /\ \A g : ~Clearing(t, g)
      /\ SharingUnlocked /\ depth' = depth
      /\ pc'[t] \notin UnlockSteps
  BY DEF DisconnectUnlock, Goto, HandleInv, ThreadOK, DisconnectSteps,
         Clearing, TypeOK, UnlockSteps
<1>1. \A u \in Clients : pc'[u] \notin UnlockSteps
  BY <1>0 DEF SharingUnlocked, Alone
<1>2. ASSUME NEW g \in Handles, NEW u \in Clients, Clearing(u, g)
      PROVE  Clearing(u, g)'
  BY <1>0, <1>2 DEF Clearing, Alone
<1>3. CASE hLockId \in {NoHandle, h}
  <2>1. hLockId' = NoHandle /\ LockCount' = 0 /\ Clearing(t, h)'
    BY <1>h, <1>0, <1>3
       DEF DisconnectUnlock, RFUnlockAllSharing, RFCheckSharing, Clearing,
           Goto, TypeOK
  <2>2. \A g \in Handles : g # h /\ depth[g] # 0 =>
          \E u \in Clients : Clearing(u, g)
    BY <1>3, ConstantsAssumption DEF DepthOK
  <2> HIDE DEF SharingUnlocked, Clearing
  <2> QED BY <1>0, <1>1, <1>2, <2>1, <2>2 DEF DepthOK
<1>4. CASE hLockId \notin {NoHandle, h}
  <2>1. UNCHANGED <<hLockId, LockCount>>
    BY <1>h, <1>4 DEF DisconnectUnlock, RFUnlockAllSharing, RFCheckSharing
  <2> QED BY <1>0, <2>1, QuietStep DEF UnlockSteps
<1> QED BY <1>3, <1>4

\* The handle that is removed does not hold the lock any more.
LEMMA RemoveDepth ==
  ASSUME HandleInv, LockHeld, DepthOK, NEW t \in Clients, Alone(t),
         DisconnectRemove(t)
  PROVE  DepthOK'
<1> DEFINE h == call[t].hCard
<1>0. /\ TypeOK /\ h \in Handles /\ Owns(t, h) /\ PastUnlock(t, h)
      /\ pc[t] = "disconnectRemove" /\ pc'[t] = "disconnectCount"
      /\ UNCHANGED <<hLockId, LockCount>>
      /\ depth' = [depth EXCEPT ![h] = 0]
  BY DEF DisconnectRemove, Goto, HandleInv, ThreadOK, DisconnectSteps, Owns,
         Forgetting, PastUnlock, TypeOK
<1>1. ASSUME NEW u \in Clients, Holds(u, h) PROVE FALSE
  <2>1. Owns(u, h)
    BY <1>1 DEF Holds, Owns, PastUnlock, Forgetting
  <2>2. u = t
    BY <1>0, <2>1 DEF HandleInv, Ownership
  <2> QED BY <1>0, <1>1, <2>2 DEF Holds
<1>2. hLockId # h
  BY <1>0, <1>1, ConstantsAssumption DEF LockHeld
<1>3. ASSUME NEW g \in Handles, g # h, NEW u \in Clients, Clearing(u, g)
      PROVE  Clearing(u, g)'
  BY <1>3 DEF Clearing, Alone
<1>4. SharingUnlocked' <=> SharingUnlocked
  BY <1>0 DEF SharingUnlocked, Alone, UnlockSteps
<1>5. ASSUME NEW u \in Clients, pc'[u] \in UnlockSteps
      PROVE  hLockId \in Handles /\ call'[u].hCard = hLockId
  BY <1>0, <1>5 DEF DepthOK, Alone, UnlockSteps
<1>6. /\ depth'[h] = 0
      /\ \A g \in Handles : g # h => depth'[g] = depth[g]
  BY <1>0 DEF TypeOK
<1>7. hLockId \in Handles \cup {NoHandle}
  BY <1>0 DEF TypeOK
<1> HIDE DEF h, SharingUnlocked, Clearing
<1> QED BY <1>0, <1>2, <1>3, <1>4, <1>5, <1>6, <1>7 DEF DepthOK

\* Every step of a server thread preserves DepthOK.
LEMMA ServeDepth ==
  ASSUME HandleInv, DepthInv, NEW t \in Clients, Serve(t)
  PROVE  DepthOK'
<1>0. /\ TypeOK /\ call[t] \in Calls /\ Plain(t)
      /\ CountInv /\ ExactCount /\ SharedBut({}) /\ LockHeld /\ DepthOK
  BY CallFields DEF HandleInv, DepthInv, LockInv
<1>a. Alone(t)
  BY <1>0, OthersStay
<1>c. \A step : Goto(t, step) => pc'[t] = step
  BY <1>0 DEF Goto, TypeOK
<1>1. CASE \/ BeginLock(t) \/ EndUnlock(t) \/ UnlockSharing(t)
           \/ DisconnectUnlock(t) \/ DisconnectRemove(t)
  BY <1>0, <1>1, <1>a, BeginDepth, EndDepth, UnlockDepth, DisconnectDepth,
     RemoveDepth
<1>2. CASE \/ DisconnectNotify(t) \/ DisconnectPower(t)
           \/ DisconnectUnpower(t) \/ DisconnectState(t)
  <2>1. /\ UNCHANGED <<hLockId, LockCount, depth>>
        /\ pc[t] \in {"disconnectNotify", "disconnectPower",
                      "disconnectUnpower", "disconnectState"}
        /\ pc'[t] \in {"disconnectPower", "disconnectUnpower",
                       "disconnectState", "disconnectRemove"}
        /\ call' = call \/ \E rv : SetCall(t, WithResult(call[t], rv))
    BY <1>2, <1>c DEF DisconnectNotify, DisconnectPower, DisconnectUnpower,
                      DisconnectState
  <2>2. call'[t].hCard = call[t].hCard
    BY <1>0, <2>1, WithFields DEF SetCall, TypeOK
  <2>3. \A h \in Handles : Clearing(t, h) => Clearing(t, h)'
    BY <2>1, <2>2 DEF Clearing
  <2> QED BY <1>0, <1>a, <2>1, <2>3, QuietStep DEF UnlockSteps
<1>3. CASE /\ UNCHANGED <<hLockId, LockCount, depth>>
           /\ pc[t] \notin UnlockSteps \cup PastSteps
           /\ pc'[t] \notin UnlockSteps
  BY <1>0, <1>a, <1>3, QuietStep DEF Clearing, PastSteps
<1>4. CASE \/ DisconnectCount(t) \/ DisconnectDecrement(t)
           \/ DisconnectNegative(t) \/ DisconnectGrace(t)
           \/ DisconnectUnused(t) \/ DisconnectReturn(t)
  <2>1. /\ UNCHANGED <<hLockId, LockCount, depth>>
        /\ pc[t] \notin UnlockSteps /\ pc'[t] \notin UnlockSteps
        /\ \A h : ~Clearing(t, h)
    BY <1>4, <1>c
       DEF DisconnectCount, DisconnectDecrement, DisconnectNegative,
           DisconnectGrace, DisconnectUnused, DisconnectReturn, Return,
           Clearing, UnlockSteps
  <2> QED BY <1>0, <1>a, <2>1, QuietStep
<1>5. CASE \/ ConnectUnlocked(t) \/ ConnectPresent(t) \/ ConnectPower(t)
           \/ ConnectPowered(t) \/ ConnectProtocol(t) \/ ConnectLock(t)
           \/ ConnectSharingViolation(t) \/ ConnectAdd(t)
           \/ ConnectAddFails(t) \/ ConnectUndo(t) \/ ConnectUndone(t)
           \/ MSGAddHandle(t) \/ DisconnectUnlocked(t)
  <2>1. /\ UNCHANGED <<hLockId, LockCount, depth>>
        /\ pc[t] \notin UnlockSteps \cup PastSteps
        /\ pc'[t] \notin UnlockSteps
    BY <1>5, <1>c
       DEF ConnectUnlocked, ConnectPresent, ConnectPower, ConnectPowered,
           ConnectProtocol, ConnectLock, ConnectSharingViolation,
           ConnectAdd, ConnectAddFails, ConnectUndo, ConnectUndone,
           MSGAddHandle, GiveBackHandle, DisconnectUnlocked, Return,
           UnlockSteps, PastSteps
  <2> QED BY <1>3, <2>1
<1>6. CASE \/ ReconnectPresent(t) \/ ReconnectNotify(t)
            \/ ReconnectPower(t) \/ ReconnectState(t)
           \/ ReconnectProtocol(t) \/ ReconnectInUse(t)
           \/ ReconnectShare(t) \/ ReconnectClear(t) \/ EndPower(t)
           \/ EndNotify(t) \/ DriverReturns(t) \/ DriverNoCard(t)
  <2>1. /\ UNCHANGED <<hLockId, LockCount, depth>>
        /\ pc[t] \notin UnlockSteps \cup PastSteps
        /\ pc'[t] \notin UnlockSteps
    BY <1>6, <1>c
       DEF ReconnectPresent, ReconnectNotify, ReconnectPower, ReconnectState,
           ReconnectProtocol, ReconnectInUse, ReconnectShare,
           ReconnectClear, EndPower, EndNotify, DriverReturns,
           DriverNoCard, Return, UnlockSteps, PastSteps
  <2> QED BY <1>3, <2>1
<1>7. CASE \/ ConnectExclusive(t) \/ ConnectLockSharing(t)
           \/ DisconnectNone(t) \/ ReconnectExclusive(t)
           \/ ReconnectLock(t) \/ ReconnectUnlock(t) \/ ReconnectCount(t)
           \/ MSGRemoveContext(t) \/ RemoveUnlock(t) \/ RemoveStatus(t)
           \/ ContextRemoved(t)
  BY <1>0, <1>7
     DEF ConnectExclusive, ConnectLockSharing, DisconnectNone,
         ReconnectExclusive, ReconnectLock, ReconnectUnlock,
         ReconnectCount, MSGRemoveContext, RemoveUnlock, RemoveStatus,
         ContextRemoved, Plain, RareSteps
<1> QED BY <1>1, <1>2, <1>4, <1>5, <1>6, <1>7 DEF Serve

\* So does accepting a command.
LEMMA RequestDepth ==
  ASSUME HandleInv, DepthOK, NEW t \in Clients, Request(t)
  PROVE  DepthOK'
<1>0. TypeOK /\ Alone(t)
  BY OthersStay DEF HandleInv
<1>c. \A step : Goto(t, step) => pc'[t] = step
  BY <1>0 DEF Goto, TypeOK
<1>1. /\ UNCHANGED <<hLockId, LockCount, depth>>
      /\ pc[t] = "idle" /\ pc'[t] \notin UnlockSteps
  BY <1>c DEF Request, SCardEstablishContext, SCardConnect, SCardReconnect,
            SCardDisconnect, DisconnectEntry, SCardBeginTransaction,
            SCardEndTransaction, SCardTransmit, SCardControl, SCardAttrib,
            CallDriver, SCardReleaseContext, MSGCheckHandleAssociation,
            UnlockSteps
<1> QED BY <1>0, <1>1, QuietStep DEF Clearing, UnlockSteps

\* DepthInv is inductive together with HandleInv.
LEMMA DepthStep ==
  ASSUME Peaceful, HandleInv, HandleInv', DepthInv, [Next]_vars
  PROVE  DepthInv'
<1>0. /\ TypeOK /\ CountInv /\ LockInv /\ ExactCount /\ SharedBut({})
      /\ CardStays /\ DepthOK /\ \A t \in Clients : Plain(t)
  BY DEF HandleInv, DepthInv
<1>1. CountInv' /\ LockInv' /\ CardStays'
  BY <1>0, CountStep, LockStep, StepCard DEF Peaceful
<1>2. ASSUME NEW t \in Clients, Request(t) \/ Serve(t) PROVE DepthInv'
  <2>1. ExactCount' /\ SharedBut({})' /\ DepthOK'
    BY <1>0, <1>2, ServeExact, RequestExact, ServeShares, ServeDepth,
       RequestDepth
  <2>2. ASSUME NEW u \in Clients PROVE Plain(u)'
    <3>1. CASE u = t
      BY <1>0, <1>2, <3>1, PlainStep
    <3>2. CASE u # t
      <4>1. Alone(t)
        BY <1>0, <1>2, OthersStay
      <4> QED BY <1>0, <3>2, <4>1 DEF Plain, Alone
    <3> QED BY <3>1, <3>2
  <2> QED BY <1>1, <2>1, <2>2 DEF DepthInv
<1>3. CASE EventThread \/ User \/ UNCHANGED vars
  <2>1. /\ UNCHANGED <<pc, call, contexts, handlesList, hLockId, LockCount>>
        /\ UNCHANGED <<depth, shareMode>>
    BY <1>0, <1>3
       DEF EventThread, User, vars, EHStart, EHStartPower,
         EHStartPowerState, EHStartState, EHStatus,
           EHStatusError, EHCardRemoved, EHUnlockId, EHUnlockCount,
           EHCardAbsent, EHCardInserted, EHCardPowered, EHSetPowerState,
           EHPowerOff, InsertCard, RemoveCard, CardStays
  <2>2. ExactCount' /\ SharedBut({})' /\ \A t \in Clients : Plain(t)'
    BY <1>0, <2>1 DEF ExactCount, Uncounted, SharedBut, Plain
  <2>3. DepthOK'
    BY <1>0, <2>1 DEF DepthOK, SharingUnlocked, Clearing
  <2> QED BY <1>1, <2>2, <2>3 DEF DepthInv
<1> QED BY <1>2, <1>3 DEF Next

\* LockCount is the number of transactions the owner of the lock has begun
\* and not ended, at every moment at which no thread serves it: so the
\* outermost SCardEndTransaction() releases the lock and no inner one does,
\* however many clients wait for it, connect, reconnect and disconnect.
THEOREM NestedTransactions ==
  ASSUME Peaceful
  PROVE  Spec => []LockCountIsDepth
<1>1. ASSUME Init PROVE DepthInv
  <2>1. CountInv
    BY <1>1, CountInit
  <2>2. LockInv /\ \A t \in Clients : Plain(t)
    BY <1>1, NoCallFields
       DEF Init, LockInv, LockHeld, Shares, Plain, RareSteps, EndSteps,
           UnlockSteps, NoCall, HandleCall, Call
  <2>3. ExactCount
    <3>1. Uncounted = {} /\ handlesList = {} /\ contexts = 0
      BY <1>1 DEF Init, Uncounted, NO_CONTEXT
    <3> QED BY <3>1, FS_EmptySet DEF ExactCount
  <2>4. SharedBut({}) /\ CardStays
    BY <1>1, ConstantsAssumption DEF Init, SharedBut, CardStays
  <2>5. DepthOK
    BY <1>1 DEF Init, DepthOK, UnlockSteps
  <2> QED BY <2>1, <2>2, <2>3, <2>4, <2>5 DEF DepthInv
<1>2. HandleInv /\ HandleInv' /\ DepthInv /\ [Next]_vars => DepthInv'
  BY DepthStep
<1>3. DepthInv => LockCountIsDepth
  BY DEF DepthInv, DepthOK, SharingUnlocked, LockCountIsDepth
<1> QED BY <1>1, <1>2, <1>3, HandleInvariance, PTL DEF Spec

=============================================================================
