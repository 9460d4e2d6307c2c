------------------------- MODULE WinscardProperties -------------------------
(***************************************************************************)
(* What the server side of a reader has to guarantee to its clients,       *)
(* stated about the steps of Winscard.                                     *)
(***************************************************************************)
EXTENDS Winscard

Steps == {"idle", "connectWait", "connectPresent", "connectPower",
          "connectPowered", "connectProtocol", "connectLock",
          "connectExclusive", "connectLockSharing", "connectAdd",
          "connectUndo", "undoExclusive", "undoShared", "connectDone",
          "disconnectWait",
          "disconnectUnlock", "disconnectNotify", "disconnectPower",
          "disconnectUnpower", "disconnectState", "disconnectRemove",
          "disconnectCount", "disconnectDecrement", "disconnectNegative",
          "disconnectNone", "disconnectGrace", "disconnectUnused",
          "disconnectReturn", "reconnectPresent", "reconnectNotify",
          "reconnectPower",
          "reconnectState", "reconnectProtocol", "reconnectInUse",
          "reconnectShare", "reconnectExclusive", "reconnectLock",
          "reconnectUnlock", "reconnectCount", "reconnectClear", "beginLock",
          "endPower", "endNotify", "endUnlock", "unlockNested", "unlockLast",
          "driver", "driverNoCard", "removeContext", "removeUnlock",
          "removeStatus"}

EventSteps == {"start", "startPower", "startPowered", "startUnpowered",
               "startPresent", "startSwallowed",
               "poll", "removed", "unlockId",
               "unlockCount", "absent", "inserted", "powerUp",
               "powerUpFailed", "setPowered", "setUnpowered", "power"}

Results == {"SUCCESS", "REMOVED", "FAILED", "NOT_TRIED", "SHARING_VIOLATION"}

Calls == [cmd : AllCommands \cup {"NONE"}, hCard : Handles \cup {NoHandle},
          mode : AllModes, pref : SUBSET Protocols, disp : AllDispositions,
          rv : Results, card : Nat]

\* The type of every field of the READER_CONTEXT, of the threads and of the
\* history; in particular the lock count never falls below -1, although
\* RFUnlockSharing() tests it and decrements it in two steps.
TypeOK ==
  /\ contexts \in Int
  /\ hLockId \in Handles \cup {NoHandle}
  /\ LockCount \in Int /\ LockCount >= -1
  /\ handlesList \in SUBSET Handles
  /\ dwEventStatus \in [Handles -> {"NONE", "RESET", "REMOVED"}]
  /\ readerState \in SUBSET {"UNKNOWN", "ABSENT", "PRESENT", "POWERED",
                             "SWALLOWED"}
  /\ cardProtocol \in Protocols \cup {"UNDEFINED"}
  /\ powerState \in {"UNPOWERED", "POWERED", "GRACE_PERIOD", "IN_USE"}
  /\ icc \in Nat
  /\ inserted \in Nat
  /\ iccPowered \in BOOLEAN
  /\ pc \in [Clients -> Steps]
  /\ call \in [Clients -> Calls]
  /\ cardsList \in [Clients -> SUBSET Handles]
  /\ hContext \in [Clients -> BOOLEAN]
  /\ connectMutex \in Clients \cup {NoClient}
  /\ powerLock \in Clients \cup {NoClient}
  /\ evPc \in EventSteps
  /\ dwCurrentState \in {"ABSENT", "PRESENT", "UNKNOWN"}
  /\ shareMode \in [Handles -> AllModes \cup {"NONE"}]
  /\ depth \in [Handles -> Nat]
  /\ cardOf \in [Handles -> Nat]

-----------------------------------------------------------------------------
\* Handles

\* Thread t has removed h from handlesList and is about to remove it from
\* its own list.
Forgetting(t, h) ==
  /\ call[t].hCard = h
  /\ \/ pc[t] \in {"disconnectCount", "disconnectDecrement",
                    "disconnectNegative", "disconnectNone",
                    "disconnectGrace", "disconnectUnused"}
     \/ pc[t] = "disconnectReturn" /\ call[t].rv = "SUCCESS"

\* MSGCheckHandleAssociation() is the only thing that keeps a client away
\* from the handles of others: every handle in a client's list is connected
\* to the reader and in no other client's list, whatever random values
\* RFCreateReaderHandle() draws while a disconnection is under way.
HandlesAreOwned ==
  \A t \in Clients : \A h \in cardsList[t] :
    ~Forgetting(t, h) =>
      /\ h \in handlesList
      /\ \A u \in Clients \ {t} : h \in cardsList[u] => Forgetting(u, h)

\* The handle is in the list of a client, or a thread is creating it.
HasClient(h) ==
  \E t \in Clients :
    \/ h \in cardsList[t]
    \/ call[t].cmd = "CONNECT" /\ call[t].hCard = h

\* MSGRemoveContext() "Disconnect[s] each of these just in case": when a
\* client is gone its handles are gone from the reader too, and no longer
\* count in contexts and in maxReaderHandles.
NoOrphanHandle == \A h \in handlesList : HasClient(h)

\* The steps of SCardDisconnect().
DisconnectSteps == {"disconnectWait", "disconnectUnlock", "disconnectNotify",
                    "disconnectPower", "disconnectUnpower",
                    "disconnectState", "disconnectRemove",
                    "disconnectCount", "disconnectDecrement",
                    "disconnectNegative", "disconnectNone",
                    "disconnectGrace", "disconnectUnused",
                    "disconnectReturn"}

\* The handle is thread t's: in its client's list, or on the way into it or
\* out again.
Owns(t, h) ==
  /\ ~Forgetting(t, h)
  /\ \/ h \in cardsList[t]
     \/ /\ call[t].hCard = h
        /\ call[t].cmd = "CONNECT"
        /\ pc[t] \in DisconnectSteps \cup {"connectDone"}

\* MSGRemoveContext() deletes h from cardsList although SCardDisconnect() was
\* refused because another client has the lock.
RefusedDisconnect(t, h) ==
  /\ pc[t] = "disconnectReturn"
  /\ call[t].cmd = "RELEASE_CONTEXT"
  /\ call[t].hCard = h
  /\ call[t].rv = "SHARING_VIOLATION"

\* A thread gives up a handle that stays in the list of the reader in this way
\* only.  Neither a handle that could not be stored, nor a disconnection in
\* whose midst the same value is drawn for another client, nor any error
\* leaves one behind.
OrphansAreRefused ==
  [][\A t \in Clients, h \in handlesList \cap handlesList' :
       Owns(t, h) /\ ~Owns(t, h)' => RefusedDisconnect(t, h)]_vars

\* Threads that have counted a connection whose handle is not in the list.
Uncounted ==
  {t \in Clients : pc[t] \in {"connectLockSharing", "connectAdd",
                              "connectUndo", "undoExclusive", "undoShared",
                              "disconnectCount", "disconnectDecrement",
                              "disconnectNone"}}

\* contexts never counts more connections than there are handles (the rest
\* are in the hands of a thread), so it reaches 0 when the last handle goes
\* and the card can be powered off.
NoPhantomConnection ==
  contexts <= Cardinality(handlesList) + Cardinality(Uncounted)

-----------------------------------------------------------------------------
\* The lock

\* Thread t has given up the lock of h for good.
PastUnlock(t, h) ==
  /\ call[t].hCard = h
  /\ pc[t] \in {"disconnectNotify", "disconnectPower", "disconnectUnpower",
                "disconnectState", "disconnectRemove", "disconnectCount",
                "disconnectDecrement", "disconnectNegative",
                "disconnectNone", "disconnectGrace", "disconnectUnused",
                "disconnectReturn"}

\* Thread t is creating the handle h.
Connecting(t, h) ==
  /\ call[t].hCard = h
  /\ call[t].cmd = "CONNECT"
  /\ pc[t] \in {"connectAdd", "connectDone", "disconnectUnlock"}

\* SCardConnect() and SCardDisconnect() poll hLockId until it is 0.  A lock
\* never outlives the client that could release it: its owner is a handle of
\* a client, or about to be, and the disconnection of that handle is still to
\* come.
LockOwnerHasClient ==
  hLockId # NoHandle =>
    \E t \in Clients :
      \/ hLockId \in cardsList[t] /\ ~PastUnlock(t, hLockId)
      \/ Connecting(t, hLockId)

\* LockCount is the number of locks its owner has been given and not given
\* back: one for each transaction it has begun and not ended, and one for an
\* exclusive connection.  So the outermost SCardEndTransaction() releases the
\* lock, and no inner one does.
LockCountIsDepth ==
  hLockId # NoHandle /\ (\A t \in Clients : call[t].hCard # hLockId)
    => LockCount = depth[hLockId]

\* SCardEndTransaction() "Ends a previously begun transaction": a client that
\* has the lock and has been told of every event can give it back with it,
\* so that nobody waits for a transaction that cannot be ended.
LockCanBeEnded ==
  (/\ hLockId # NoHandle
   /\ contexts # EXCLUSIVE_CONTEXT
   /\ evPc = "poll"
   /\ \A t \in Clients : call[t].hCard # hLockId
   /\ RFCheckReaderEventState(hLockId))
     => RFUnlockSharing(hLockId) # "refused"

-----------------------------------------------------------------------------
\* Exclusive access

\* SCARD_SHARE_EXCLUSIVE: "This application will NOT allow others to share
\* the reader."  A handle of a client connected exclusively is the only
\* handle of the reader.
ExclusiveAccess ==
  \A h \in handlesList : shareMode[h] = "EXCLUSIVE" => handlesList = {h}

\* A request reaches the driver while another handle holds the lock.
Intrudes(t) == pc[t] = "driver" /\ ~RFCheckSharing(call[t].hCard)

\* SCardBeginTransaction() makes "sure that another application will not
\* change the current file": no request of another handle is run by the
\* driver during a transaction.
TransactionIsolation ==
  [][\A t \in Clients : Intrudes(t) => ~DriverReturns(t)]_vars

-----------------------------------------------------------------------------
\* The card

\* POWER_STATE_POWERED stands for a card that is powered and not used: the
\* event thread never powers off the card of a handle that has been
\* connected to it and not told of an event.
UsedCardStaysPowered ==
  [][(evPc = "power" /\ EHPowerOff /\ iccPowered /\ ~iccPowered') =>
       ~\E h \in handlesList : /\ shareMode[h] \in {"SHARED", "EXCLUSIVE"}
                               /\ cardOf[h] = icc
                               /\ dwEventStatus[h] = "NONE"]_vars

\* SCARD_W_UNPOWERED_CARD: "Card is not powered".  SCardConnect() gives a
\* client a handle on a card only when the card is powered.
ConnectedCardIsPowered ==
  [][\A t \in Clients :
       (/\ pc[t] = "connectDone"
        /\ call[t].mode # "DIRECT"
        /\ cardsList'[t] # cardsList[t]) => iccPowered]_vars

\* The event thread has acted on the card that is in the slot.
CaughtUp ==
  /\ evPc \in {"poll", "power"}
  /\ dwCurrentState = (IF icc = 0 THEN "ABSENT" ELSE "PRESENT")

\* SCARD_W_REMOVED_CARD: "The smart card has been removed, so further
\* communication is not possible."  A handle the event thread has not marked
\* SCARD_REMOVED is connected to the card that is in the reader: an
\* application is never led to talk to another card without being told.
RemovalIsReported ==
  CaughtUp /\ icc # 0 =>
    \A t \in Clients : \A h \in cardsList[t] :
      pc[t] = "idle" /\ shareMode[h] # "DIRECT" /\ dwEventStatus[h] = "NONE"
        => cardOf[h] = icc

\* Nobody is connected and no command is being served.
Unused == handlesList = {} /\ \A t \in Clients : pc[t] = "idle"

\* Auto power off: a card nobody uses does not stay powered.
UnusedCardIsPoweredOff == (Unused /\ iccPowered) ~> (~Unused \/ ~iccPowered)

\* No thread waits for ever for LockMutex, for powerState_lock or for another
\* thread: when no more commands arrive and no transaction is left open,
\* every command is answered.
CommandsAreAnswered ==
  (<>[][~\E t \in Clients : Request(t)]_vars /\ <>[](hLockId = NoHandle))
    => <>[](\A t \in Clients : pc[t] = "idle")

=============================================================================
