------------------------------ MODULE Winscard ------------------------------
(***************************************************************************)
(* The server side of one smart card reader in pcscd: the PC/SC functions  *)
(* of winscard.c, the sharing, handle and event functions of               *)
(* readerfactory.c they call, the loop of the card event thread in         *)
(* eventhandler.c and the client cleanup of winscard_svc.c.                *)
(*                                                                         *)
(* A server thread (ContextThread) serves one client and runs one command  *)
(* at a time; the event thread watches the card.  All of them share the    *)
(* READER_CONTEXT.  Its fields are _Atomic or guarded by short mutexes, so *)
(* a function is cut into steps at every point where another thread can    *)
(* change what it has just tested: pc[t] names the step thread t is about  *)
(* to do.  An error return that changes nothing is a step that leaves      *)
(* everything unchanged and is not written out.                            *)
(*                                                                         *)
(* Left out: the reference count (the reader is never removed here), the   *)
(* ATR, SCARD_NEGOTIABLE (always set with SCARD_POWERED), eventCounter and *)
(* readerSharing, which are only reported to clients, and the signals that *)
(* tell clients to read them.                                              *)
(***************************************************************************)
EXTENDS Integers, FiniteSets

CONSTANTS
  Clients,                \* server threads, one per connected client
  Handles,                \* the values RFCreateReaderHandle() can draw
  NoHandle,               \* hLockId = 0, hCard = 0
  NoClient,               \* nobody holds LockMutex
  Commands,               \* the commands clients send
  ConnectModes,           \* dwShareMode of SCardConnect()
  ReconnectModes,         \* dwShareMode of SCardReconnect()
  Dispositions,           \* dwDisposition and dwInitialization
  Preferences,            \* dwPreferredProtocols, as sets of protocols
  CardProtocols,          \* the protocols the ATR of the cards offers
  DefaultProtocol,        \* the one it names first
  Faults,                 \* what may go wrong: "power", "status", "pts",
                          \* "memory" calls fail, "swap": a card is changed
                          \* unseen
  maxReaderHandles,       \* handles a reader accepts
  contextMaxCardHandles,  \* handles a client accepts
  MaxLockCount,           \* bound: nested transactions
  CardsAtStart,           \* 1 when a card is already there, else 0
  MaxCards,               \* bound: cards used during a behaviour
  MaxRemovals             \* bound: cards removed during a behaviour

AllCommands == {"CONNECT", "RECONNECT", "DISCONNECT", "BEGIN_TRANSACTION",
                "END_TRANSACTION", "TRANSMIT", "CONTROL", "ATTRIB",
                "RELEASE_CONTEXT"}
AllModes == {"SHARED", "EXCLUSIVE", "DIRECT"}
AllDispositions == {"LEAVE", "RESET", "UNPOWER", "EJECT"}
Protocols == {"T0", "T1", "RAW"}

ASSUME ConstantsAssumption ==
  /\ NoHandle \notin Handles
  /\ NoClient \notin Clients
  /\ Commands \subseteq AllCommands
  /\ ConnectModes \subseteq AllModes
  /\ ReconnectModes \subseteq AllModes
  /\ Dispositions \subseteq AllDispositions
  /\ Preferences \subseteq SUBSET Protocols
  /\ CardProtocols \subseteq {"T0", "T1"}
  /\ DefaultProtocol \in {"T0", "T1"}
  /\ Faults \subseteq {"power", "status", "pts", "memory", "swap"}
  /\ maxReaderHandles \in Nat
  /\ contextMaxCardHandles \in Nat
  /\ MaxLockCount \in Nat
  /\ CardsAtStart \in {0, 1}
  /\ MaxCards \in Nat
  /\ MaxRemovals \in Nat

VARIABLES
  \* the READER_CONTEXT
  contexts,       \* number of connections, or -1 when exclusive
  hLockId,        \* the handle that holds the transaction lock
  LockCount,      \* how often it has locked
  handlesList,    \* the connected handles
  dwEventStatus,  \* the event each handle has yet to be told
  readerState,    \* SCARD_* flags
  cardProtocol,   \* negotiated protocol
  powerState,     \* auto power off state
  \* the reader and its card, as the driver sees them
  icc,            \* 0 when the slot is empty, else which card is in it
  inserted,       \* how many cards have been inserted so far
  iccPowered,     \* the card is powered
  \* the server threads
  pc,             \* next step of each thread
  call,           \* the command each thread serves
  cardsList,      \* handles of each client
  hContext,       \* the client has established a context
  connectMutex,   \* the owner of LockMutex in winscard.c
  powerLock,      \* the thread in SCardConnect() that owns powerState_lock
  \* the card event thread
  evPc,
  dwCurrentState,
  \* history: what the successful calls promised
  shareMode,      \* how each handle is connected
  depth,          \* locks each handle has been given and not given back
  cardOf          \* the card each handle was connected to

sharing == <<contexts, hLockId, LockCount, handlesList, dwEventStatus>>
card    == <<readerState, cardProtocol, powerState, iccPowered>>
slot    == <<icc, inserted>>
locks   == <<connectMutex, powerLock>>
threads == <<pc, call, cardsList, hContext, locks>>
event   == <<evPc, dwCurrentState>>
history == <<shareMode, depth, cardOf>>
others  == <<slot, event, cardsList, hContext>>  \* what most commands leave
vars    == <<sharing, card, slot, threads, event, history>>

EXCLUSIVE_CONTEXT == -1
NO_CONTEXT        == 0
LAST_CONTEXT      == 1

-----------------------------------------------------------------------------
\* Control of a server thread.

\* A command with its arguments and two local variables: rv, the result so
\* far, and card, the card whose protocol it has settled.
Call(cmd, h, mode, pref, disp) ==
  [cmd |-> cmd, hCard |-> h, mode |-> mode, pref |-> pref, disp |-> disp,
   rv |-> "SUCCESS", card |-> 0]

\* A command without share mode and protocols.
HandleCall(cmd, h, disp) == Call(cmd, h, "SHARED", {}, disp)

NoCall == HandleCall("NONE", NoHandle, "LEAVE")

WithResult(c, rv) == [c EXCEPT !.rv = rv]
WithCard(c, i)    == [c EXCEPT !.card = i]
WithHandle(c, h)  == [c EXCEPT !.hCard = h]
WithDisposition(c, disp) == [c EXCEPT !.disp = disp]

SetCall(t, c) == call' = [call EXCEPT ![t] = c]

Goto(t, step) == pc' = [pc EXCEPT ![t] = step]

\* The command is answered; the thread waits for the next message.
Return(t) == Goto(t, "idle") /\ SetCall(t, NoCall)

\* The thread receives command cmd on handle h, which it has checked to be
\* one of its client's.
MSGCheckHandleAssociation(t, cmd, h) ==
  /\ pc[t] = "idle"
  /\ hContext[t]
  /\ cmd \in Commands
  /\ h \in cardsList[t]

-----------------------------------------------------------------------------
\* readerfactory.c: sharing, handles and events.

RFCheckReaderStatus == "UNKNOWN" \notin readerState

RFCheckSharing(h) == hLockId \in {NoHandle, h}

\* Mutant: the lock is taken from whoever holds it.
RFLockSharingUnchecked(h) == hLockId' = h /\ LockCount' = LockCount + 1

RFLockSharing(h) ==
  IF RFCheckSharing(h)
  THEN hLockId' = h /\ LockCount' = LockCount + 1
  ELSE UNCHANGED <<hLockId, LockCount>>

\* RFLockSharing(), RFUnlockSharing() and RFUnlockAllSharing() run under the
\* LockMutex of readerfactory.c.  The event thread and MSGRemoveContext() write
\* hLockId and LockCount without it, so RFUnlockSharing() has two steps: the
\* tests, and then the update, before which others must wait.
UnlockSteps == {"unlockNested", "unlockLast"}

SharingUnlocked == \A t \in Clients : pc[t] \notin UnlockSteps

\* Mutant: LockCount is decremented whatever it is, exclusive mode or not.
RFUnlockSharingUnchecked(h) ==
  IF RFCheckSharing(h) THEN "unlockLast" ELSE "refused"

\* The branch taken.  In exclusive mode the lock taken by SCardConnect() is
\* never given back.
RFUnlockSharing(h) ==
  IF ~RFCheckSharing(h) THEN "refused"
  ELSE IF contexts = EXCLUSIVE_CONTEXT
       THEN IF LockCount > 1 THEN "unlockNested" ELSE "refused"
       ELSE IF LockCount > 0 THEN "unlockLast" ELSE "refused"

\* Mutant: the count is reset, the owner is not.
RFUnlockAllSharingCountOnly(h) ==
  /\ LockCount' = IF RFCheckSharing(h) THEN 0 ELSE LockCount
  /\ UNCHANGED hLockId

RFUnlockAllSharing(h) ==
  IF RFCheckSharing(h)
  THEN hLockId' = NoHandle /\ LockCount' = 0
  ELSE UNCHANGED <<hLockId, LockCount>>

\* What the callers of these functions count on, for the history: h is given
\* the lock once more, or gives it back down to a number it keeps.
LockGiven(h) ==
  depth' = IF RFCheckSharing(h) THEN [depth EXCEPT ![h] = @ + 1] ELSE depth

LockGivenBack(h, kept) ==
  depth' = IF RFCheckSharing(h) /\ depth[h] > kept
           THEN [depth EXCEPT ![h] = @ - 1] ELSE depth

\* Mutant: the value is not compared with the handles in use.
RFCreateReaderHandleUnchecked(h) == h \in Handles

\* A random value no connected handle has.
RFCreateReaderHandle(h) == h \in Handles \ handlesList

\* The handle table is full, or malloc() fails.
RFAddReaderHandleFails ==
  \/ Cardinality(handlesList) >= maxReaderHandles
  \/ "memory" \in Faults

RFAddReaderHandleSucceeds == Cardinality(handlesList) < maxReaderHandles

RFAddReaderHandle(h) ==
  /\ handlesList' = handlesList \cup {h}
  /\ dwEventStatus' = [dwEventStatus EXCEPT ![h] = "NONE"]

\* Mutant: the entry is cleared and not removed.
RFRemoveReaderHandleKept(h) ==
  /\ dwEventStatus' = [dwEventStatus EXCEPT ![h] = "NONE"]
  /\ UNCHANGED handlesList

RFRemoveReaderHandle(h) ==
  /\ handlesList' = handlesList \ {h}
  /\ dwEventStatus' = [dwEventStatus EXCEPT ![h] = "NONE"]

\* contexts in SCardConnect(): an exclusive connection must be the first.
\* Mutant: it need not.
ConnectionAlwaysAllowed(mode) == mode \in AllModes

ConnectionAllowed(mode) == mode = "EXCLUSIVE" => contexts = NO_CONTEXT

\* contexts in SCardDisconnect(), for a connection that is not exclusive.
\* Mutant: it is not taken back.
KeepConnection == UNCHANGED contexts

RemoveConnection == contexts' = contexts - 1

\* The loop over the list; the REMOVED event also frees the lock, which
\* EHUnlockId and EHUnlockCount do.
RFSetReaderEventState(e) ==
  dwEventStatus' =
    [h \in Handles |-> IF h \in handlesList THEN e ELSE dwEventStatus[h]]

RFCheckReaderEventState(h) == dwEventStatus[h] = "NONE"

RFClearReaderEventState(h) ==
  dwEventStatus' = [dwEventStatus EXCEPT ![h] = "NONE"]

-----------------------------------------------------------------------------
\* ifdwrapper.c: what a call of the driver does to the card.

IFDPowerICCResults ==
  IF icc = 0 THEN {"REMOVED"}
             ELSE {"SUCCESS"} \cup {r \in {"FAILED"} : "power" \in Faults}

\* IFD_POWER_UP and IFD_RESET; SCARD_UNPOWER_CARD is a power down and a power
\* up.  A card that does not answer stays mute.
IFDPowerUp(rv) ==
  /\ rv \in IFDPowerICCResults
  /\ iccPowered' = (rv = "SUCCESS")

IFDPowerDown(rv) ==
  /\ rv \in IFDPowerICCResults
  /\ iccPowered' = (iccPowered /\ rv # "SUCCESS")

\* powerState, as SCardConnect(), SCardReconnect() and SCardDisconnect() use
\* and set it.
\* Mutant: the state after auto power off is ignored.
ConnectNeedsNoPower == FALSE

ConnectNeedsPower == powerState = "UNPOWERED"

\* Mutant: the card is not marked.
MarkNothing == UNCHANGED powerState

MarkInUse == powerState' = "IN_USE"

\* Nobody is connected any more: let the event thread power the card off.
MarkUnused ==
  powerState' = IF powerState = "UNPOWERED" THEN "UNPOWERED"
                                            ELSE "GRACE_PERIOD"

\* readerState after a reset asked by a client.
StateAfterReset(rv) ==
  CASE rv = "SUCCESS" -> {"PRESENT", "POWERED"}
    [] rv = "REMOVED" -> {"ABSENT"}
    [] OTHER          -> {"PRESENT", "SWALLOWED"}

\* What the driver may answer to IFDSetPTS().  A card without power does not
\* answer the driver.
IFDSetPTSResults ==
  {r \in {"SUCCESS", "NOT_SUPPORTED", "PROTOCOL_NOT_SUPPORTED", "ERROR"} :
     /\ r = "SUCCESS" => iccPowered
     /\ r = "ERROR" => ~iccPowered \/ "pts" \in Faults
     /\ r \in {"NOT_SUPPORTED", "PROTOCOL_NOT_SUPPORTED"} => "pts" \in Faults}

\* What one try with protocol p comes to; otherwise is what is left when the
\* driver does not know p.
SetPTS(p, otherwise) ==
  UNION {CASE r = "SUCCESS"                -> {p}
           [] r = "NOT_SUPPORTED"          -> {DefaultProtocol}
           [] r = "PROTOCOL_NOT_SUPPORTED" -> otherwise
           [] r = "ERROR"                  -> {"PPS_FAILED"} :
         r \in IFDSetPTSResults}

\* The protocols PHSetProtocol() may settle on, or its errors: T=1 is tried
\* first, then the default protocol of the card.
PHSetProtocol(pref) ==
  LET wanted == pref \cap CardProtocols
      again  == IF wanted = {DefaultProtocol} THEN {"PPS_FAILED"}
                ELSE IF DefaultProtocol \in wanted
                     THEN SetPTS(DefaultProtocol, {"PPS_FAILED"})
                     ELSE {"WRONG_ARGUMENT"}
  IN IF wanted = {} THEN {"WRONG_ARGUMENT"}
     ELSE SetPTS(IF "T1" \in wanted THEN "T1" ELSE "T0", again)

\* The protocol section shared by SCardConnect() and SCardReconnect(): the
\* values cardProtocol may get, or errors that leave it alone.
NegotiatedProtocols(mode, pref) ==
  IF "RAW" \in pref THEN {"RAW"}
  ELSE IF mode = "DIRECT" THEN {cardProtocol}
  ELSE IF cardProtocol = "UNDEFINED" THEN PHSetProtocol(pref)
  ELSE IF cardProtocol \in pref THEN {cardProtocol} ELSE {"PROTO_MISMATCH"}

\* The negotiation has given p, which is no error.
IsNegotiated(p) == p \in Protocols \cup {"UNDEFINED"}

ValidPreference(mode, pref) == mode = "DIRECT" \/ pref # {}

-----------------------------------------------------------------------------
\* SCARD_ESTABLISH_CONTEXT: the client gets a context.
SCardEstablishContext(t) ==
  /\ pc[t] = "idle"
  /\ ~hContext[t]
  /\ hContext' = [hContext EXCEPT ![t] = TRUE]
  /\ UNCHANGED <<sharing, card, slot, pc, call, cardsList, locks, event,
                 history>>

-----------------------------------------------------------------------------
\* SCardConnect()

SCardConnect(t) ==
  /\ pc[t] = "idle"
  /\ hContext[t]
  /\ "CONNECT" \in Commands
  /\ RFCheckReaderStatus
  /\ contexts # EXCLUSIVE_CONTEXT
  /\ \E mode \in ConnectModes, pref \in Preferences :
       /\ ValidPreference(mode, pref)
       /\ SetCall(t, Call("CONNECT", NoHandle, mode, pref, "LEAVE"))
  /\ Goto(t, "connectWait")
  /\ UNCHANGED <<sharing, card, locks, history, others>>

\* The poll of hLockId sees the lock free.
ConnectUnlocked(t) ==
  /\ pc[t] = "connectWait"
  /\ hLockId = NoHandle
  /\ Goto(t, IF call[t].mode = "DIRECT" THEN "connectProtocol"
                                        ELSE "connectPresent")
  /\ UNCHANGED <<sharing, card, call, locks, history, others>>

ConnectPresent(t) ==
  /\ pc[t] = "connectPresent"
  /\ IF "PRESENT" \in readerState
     THEN Goto(t, "connectPower") /\ UNCHANGED call
     ELSE Return(t)
  /\ UNCHANGED <<sharing, card, locks, history, others>>

\* Takes powerState_lock; powers the card up if it is off.
ConnectPower(t) ==
  /\ pc[t] = "connectPower"
  /\ powerLock = NoClient
  /\ powerLock' = t
  /\ IF ConnectNeedsPower
     THEN \E rv \in IFDPowerICCResults :
            /\ IFDPowerUp(rv)
            /\ SetCall(t, WithResult(call[t], rv))
     ELSE /\ SetCall(t, WithResult(call[t], "NOT_TRIED"))
          /\ UNCHANGED iccPowered
  /\ Goto(t, "connectPowered")
  /\ UNCHANGED <<sharing, readerState, cardProtocol, powerState,
                 connectMutex, history, others>>

\* SCARD_POWERED in readerState decides whether the connection goes on.
ConnectPowered(t) ==
  /\ pc[t] = "connectPowered"
  /\ powerLock' = NoClient
  /\ readerState' = IF call[t].rv = "SUCCESS" THEN StateAfterReset("SUCCESS")
                                              ELSE readerState
  /\ IF "POWERED" \in readerState'
     THEN /\ MarkInUse
          /\ Goto(t, "connectProtocol")
          /\ SetCall(t, WithResult(call[t], "SUCCESS"))
     ELSE /\ UNCHANGED powerState
          /\ Return(t)
  /\ UNCHANGED <<sharing, iccPowered, cardProtocol, connectMutex, history,
                 others>>

\* Under mMutex.
ConnectProtocol(t) ==
  /\ pc[t] = "connectProtocol"
  /\ \E p \in NegotiatedProtocols(call[t].mode, call[t].pref) :
       IF IsNegotiated(p)
       THEN /\ cardProtocol' = p
            /\ Goto(t, "connectLock")
            /\ SetCall(t, WithCard(call[t], icc))
       ELSE /\ UNCHANGED cardProtocol
            /\ Return(t)
  /\ UNCHANGED <<sharing, readerState, powerState, iccPowered, locks,
                 history, others>>

\* Mutant: LockMutex stays locked.
LeaveLockMutexLocked == UNCHANGED connectMutex

UnlockLockMutex == connectMutex' = NoClient

\* Takes LockMutex, draws the handle and books the connection.  LockMutex does
\* not stop SCardDisconnect() and SCardReconnect() from changing contexts
\* between the test for an exclusive connection and its assignment.
ConnectLock(t) ==
  /\ pc[t] = "connectLock"
  /\ connectMutex = NoClient
  /\ ConnectionAllowed(call[t].mode)
  /\ connectMutex' = t
  /\ \E h \in Handles :
       /\ RFCreateReaderHandle(h)
       /\ SetCall(t, WithHandle(call[t], h))
  /\ IF call[t].mode = "EXCLUSIVE"
     THEN Goto(t, "connectExclusive") /\ UNCHANGED contexts
     ELSE Goto(t, "connectAdd") /\ contexts' = contexts + 1
  /\ UNCHANGED <<hLockId, LockCount, handlesList, dwEventStatus, card,
                 powerLock, history, others>>

ConnectExclusive(t) ==
  /\ pc[t] = "connectExclusive"
  /\ contexts' = EXCLUSIVE_CONTEXT
  /\ Goto(t, "connectLockSharing")
  /\ UNCHANGED <<hLockId, LockCount, handlesList, dwEventStatus, card, call,
                 locks, history, others>>

ConnectSharingViolation(t) ==
  /\ pc[t] = "connectLock"
  /\ connectMutex = NoClient
  /\ ~ConnectionAllowed(call[t].mode)
  /\ Return(t)
  /\ UNCHANGED <<sharing, card, locks, history, others>>

ConnectLockSharing(t) ==
  /\ pc[t] = "connectLockSharing"
  /\ SharingUnlocked
  /\ RFLockSharing(call[t].hCard)
  /\ LockGiven(call[t].hCard)
  /\ Goto(t, "connectAdd")
  /\ UNCHANGED <<contexts, handlesList, dwEventStatus, card, call, locks,
                 shareMode, cardOf, others>>

\* RFAddReaderHandle() succeeds and LockMutex is released.
ConnectAdd(t) ==
  /\ pc[t] = "connectAdd"
  /\ RFAddReaderHandleSucceeds
  /\ RFAddReaderHandle(call[t].hCard)
  /\ UnlockLockMutex
  /\ Goto(t, "connectDone")
  /\ UNCHANGED <<contexts, hLockId, LockCount, card, call, powerLock,
                 history, others>>

ConnectAddFails(t) ==
  /\ pc[t] = "connectAdd"
  /\ RFAddReaderHandleFails
  /\ UnlockLockMutex
  /\ Goto(t, "connectUndo")
  /\ UNCHANGED <<sharing, card, call, powerLock, history, others>>

\* The connection is taken back, the lock of an exclusive one is not.
ConnectUndo(t) ==
  /\ pc[t] = "connectUndo"
  /\ IF contexts = EXCLUSIVE_CONTEXT \/ contexts > NO_CONTEXT
     THEN /\ Goto(t, IF contexts = EXCLUSIVE_CONTEXT THEN "undoExclusive"
                                                     ELSE "undoShared")
          /\ UNCHANGED call
     ELSE Return(t)
  /\ UNCHANGED <<sharing, card, locks, history, others>>

ConnectUndone(t) ==
  /\ pc[t] \in {"undoExclusive", "undoShared"}
  /\ contexts' = IF pc[t] = "undoExclusive" THEN NO_CONTEXT ELSE contexts - 1
  /\ Return(t)
  /\ UNCHANGED <<hLockId, LockCount, handlesList, dwEventStatus, card, locks,
                 history, others>>

\* The handle that could not be stored is given back by SCardDisconnect().
GiveBackHandle(t) == Goto(t, "disconnectUnlock") /\ UNCHANGED call

\* MSGAddHandle() stores the handle for the client, or fails because the
\* client has too many or memory is short.
MSGAddHandle(t) ==
  LET h == call[t].hCard
      full == Cardinality(cardsList[t]) >= contextMaxCardHandles
  IN
  /\ pc[t] = "connectDone"
  /\ \/ /\ ~full
        /\ cardsList' = [cardsList EXCEPT ![t] = @ \cup {h}]
        /\ shareMode' = [shareMode EXCEPT ![h] = call[t].mode]
        /\ cardOf' = [cardOf EXCEPT ![h] = call[t].card]
        /\ Return(t)
     \/ /\ full \/ "memory" \in Faults
        /\ GiveBackHandle(t)
        /\ UNCHANGED <<cardsList, shareMode, cardOf>>
  /\ UNCHANGED <<sharing, card, slot, hContext, locks, event, depth>>

-----------------------------------------------------------------------------
\* SCardDisconnect(), called for SCARD_DISCONNECT, by MSGRemoveContext() and
\* when MSGAddHandle() fails.  call[t].cmd tells which.

\* Mutant: a reader in error is not disconnected from.
DisconnectEntryChecked(h, disp) ==
  IF h \in handlesList /\ RFCheckReaderStatus THEN "disconnectUnlock"
                                             ELSE "disconnectReturn"

\* Where a call of SCardDisconnect() for handle h starts.  A handle that is
\* not in the list counts as disconnected.
DisconnectEntry(h, disp) ==
  IF h \notin handlesList THEN "disconnectReturn"
  ELSE IF disp # "LEAVE" /\ ~RFCheckSharing(h) THEN "disconnectWait"
  ELSE "disconnectUnlock"

SCardDisconnect(t) ==
  /\ \E h \in Handles, disp \in Dispositions :
       /\ MSGCheckHandleAssociation(t, "DISCONNECT", h)
       /\ SetCall(t, HandleCall("DISCONNECT", h, disp))
       /\ Goto(t, DisconnectEntry(h, disp))
  /\ UNCHANGED <<sharing, card, locks, history, others>>

DisconnectUnlocked(t) ==
  /\ pc[t] = "disconnectWait"
  /\ hLockId = NoHandle
  /\ Goto(t, "disconnectUnlock")
  /\ UNCHANGED <<sharing, card, call, locks, history, others>>

\* Another handle's lock stops the call, unless the card is left as it is.
DisconnectUnlock(t) ==
  LET c == call[t] IN
  /\ pc[t] = "disconnectUnlock"
  /\ SharingUnlocked
  /\ RFUnlockAllSharing(c.hCard)
  /\ IF ~RFCheckSharing(c.hCard) /\ c.disp # "LEAVE"
     THEN /\ SetCall(t, WithResult(c, "SHARING_VIOLATION"))
          /\ Goto(t, "disconnectReturn")
     ELSE /\ UNCHANGED call
          /\ Goto(t, IF c.disp \in {"RESET", "UNPOWER"}
                     THEN "disconnectNotify" ELSE "disconnectRemove")
  /\ UNCHANGED <<contexts, handlesList, dwEventStatus, card, locks, history,
                 others>>

DisconnectNotify(t) ==
  /\ pc[t] = "disconnectNotify"
  /\ RFSetReaderEventState("RESET")
  /\ Goto(t, "disconnectPower")
  /\ UNCHANGED <<contexts, hLockId, LockCount, handlesList, card, call,
                 locks, history, others>>

DisconnectPower(t) ==
  /\ pc[t] = "disconnectPower"
  /\ \E rv \in IFDPowerICCResults :
       /\ IF call[t].disp = "RESET" THEN IFDPowerUp(rv) ELSE IFDPowerDown(rv)
       /\ SetCall(t, WithResult(call[t], rv))
  /\ Goto(t, IF call[t].disp = "UNPOWER" THEN "disconnectUnpower"
                                         ELSE "disconnectState")
  /\ UNCHANGED <<sharing, readerState, cardProtocol, powerState, locks,
                 history, others>>

DisconnectUnpower(t) ==
  /\ pc[t] = "disconnectUnpower"
  /\ powerLock = NoClient
  /\ powerState' = "UNPOWERED"
  /\ Goto(t, "disconnectState")
  /\ UNCHANGED <<sharing, readerState, cardProtocol, iccPowered, call, locks,
                 history, others>>

\* The result of the reset or of the power down is recorded.
DisconnectState(t) ==
  LET c == call[t] IN
  /\ pc[t] = "disconnectState"
  /\ cardProtocol' = "UNDEFINED"
  /\ readerState' = IF c.disp = "UNPOWER" /\ c.rv = "SUCCESS"
                    THEN {"PRESENT"} ELSE StateAfterReset(c.rv)
  /\ SetCall(t, WithResult(call[t], "SUCCESS"))
  /\ Goto(t, "disconnectRemove")
  /\ UNCHANGED <<sharing, powerState, iccPowered, locks, history, others>>

DisconnectRemove(t) ==
  LET h == call[t].hCard IN
  /\ pc[t] = "disconnectRemove"
  /\ RFRemoveReaderHandle(h)
  /\ shareMode' = [shareMode EXCEPT ![h] = "NONE"]
  /\ depth' = [depth EXCEPT ![h] = 0]
  /\ cardOf' = [cardOf EXCEPT ![h] = 0]
  /\ Goto(t, "disconnectCount")
  /\ UNCHANGED <<contexts, hLockId, LockCount, card, call,
                 locks, others>>

\* The connection is counted out without a lock: a test for exclusive mode,
\* a decrement, and a test of the result.
DisconnectCount(t) ==
  /\ pc[t] = "disconnectCount"
  /\ Goto(t, IF contexts = EXCLUSIVE_CONTEXT THEN "disconnectNone"
                                             ELSE "disconnectDecrement")
  /\ UNCHANGED <<sharing, card, call, locks, history, others>>

DisconnectDecrement(t) ==
  /\ pc[t] = "disconnectDecrement"
  /\ RemoveConnection
  /\ Goto(t, "disconnectNegative")
  /\ UNCHANGED <<hLockId, LockCount, handlesList, dwEventStatus, card, call,
                 locks, history, others>>

DisconnectNegative(t) ==
  /\ pc[t] = "disconnectNegative"
  /\ Goto(t, IF contexts < 0 THEN "disconnectNone" ELSE "disconnectGrace")
  /\ UNCHANGED <<sharing, card, call, locks, history, others>>

DisconnectNone(t) ==
  /\ pc[t] = "disconnectNone"
  /\ contexts' = NO_CONTEXT
  /\ Goto(t, "disconnectGrace")
  /\ UNCHANGED <<hLockId, LockCount, handlesList, dwEventStatus, card, call,
                 locks, history, others>>

DisconnectGrace(t) ==
  /\ pc[t] = "disconnectGrace"
  /\ Goto(t, IF contexts = NO_CONTEXT THEN "disconnectUnused"
                                      ELSE "disconnectReturn")
  /\ UNCHANGED <<sharing, card, call, locks, history, others>>

DisconnectUnused(t) ==
  /\ pc[t] = "disconnectUnused"
  /\ powerLock = NoClient
  /\ MarkUnused
  /\ Goto(t, "disconnectReturn")
  /\ UNCHANGED <<sharing, readerState, cardProtocol, iccPowered, call, locks,
                 history, others>>

\* Back in the caller: MSGRemoveHandle() after a successful
\* SCARD_DISCONNECT, list_delete_at() in MSGRemoveContext() whatever the
\* result was.
DisconnectReturn(t) ==
  LET c == call[t] IN
  /\ pc[t] = "disconnectReturn"
  /\ cardsList' =
       IF \/ c.cmd = "RELEASE_CONTEXT"
          \/ c.cmd = "DISCONNECT" /\ c.rv = "SUCCESS"
       THEN [cardsList EXCEPT ![t] = @ \ {c.hCard}] ELSE cardsList
  /\ IF c.cmd = "RELEASE_CONTEXT"
     THEN Goto(t, "removeContext") /\ SetCall(t, NoCall)
     ELSE Return(t)
  /\ UNCHANGED <<sharing, card, slot, hContext, locks, event, history>>

-----------------------------------------------------------------------------
\* SCardReconnect()

SCardReconnect(t) ==
  /\ RFCheckReaderStatus
  /\ \E h \in Handles, mode \in ReconnectModes, pref \in Preferences,
        disp \in Dispositions \ {"EJECT"} :
       /\ MSGCheckHandleAssociation(t, "RECONNECT", h)
       /\ ValidPreference(mode, pref)
       /\ RFCheckSharing(h)
       /\ SetCall(t, Call("RECONNECT", h, mode, pref, disp))
       /\ Goto(t, IF disp = "LEAVE" THEN "reconnectPresent"
                                    ELSE "reconnectNotify")
  /\ UNCHANGED <<sharing, card, locks, history, others>>

\* SCARD_LEAVE_CARD wants a card that answers.
ReconnectPresent(t) ==
  /\ pc[t] = "reconnectPresent"
  /\ IF readerState \cap {"ABSENT", "SWALLOWED"} = {}
     THEN Goto(t, "reconnectProtocol") /\ UNCHANGED call
     ELSE Return(t)
  /\ UNCHANGED <<sharing, card, locks, history, others>>

ReconnectNotify(t) ==
  /\ pc[t] = "reconnectNotify"
  /\ RFSetReaderEventState("RESET")
  /\ Goto(t, "reconnectPower")
  /\ UNCHANGED <<contexts, hLockId, LockCount, handlesList, card, call,
                 locks, history, others>>

ReconnectPower(t) ==
  /\ pc[t] = "reconnectPower"
  /\ \E rv \in IFDPowerICCResults :
       /\ IFDPowerUp(rv)
       /\ SetCall(t, WithResult(call[t], rv))
  /\ Goto(t, "reconnectState")
  /\ UNCHANGED <<sharing, readerState, cardProtocol, powerState, locks,
                 history, others>>

ReconnectState(t) ==
  /\ pc[t] = "reconnectState"
  /\ cardProtocol' = "UNDEFINED"
  /\ readerState' = StateAfterReset(call[t].rv)
  /\ IF call[t].rv = "SUCCESS"
     THEN Goto(t, "reconnectProtocol") /\ UNCHANGED call
     ELSE Return(t)
  /\ UNCHANGED <<sharing, powerState, iccPowered, locks, history, others>>

ReconnectProtocol(t) ==
  LET c == call[t] IN
  /\ pc[t] = "reconnectProtocol"
  /\ \E p \in NegotiatedProtocols(c.mode, c.pref) :
       IF IsNegotiated(p)
       THEN /\ cardProtocol' = p
            /\ Goto(t, IF "RAW" \in c.pref \/ c.mode = "DIRECT"
                       THEN "reconnectShare" ELSE "reconnectInUse")
            /\ SetCall(t, WithCard(c, icc))
       ELSE /\ UNCHANGED cardProtocol
            /\ Return(t)
  /\ UNCHANGED <<sharing, readerState, powerState, iccPowered, locks,
                 history, others>>

ReconnectInUse(t) ==
  /\ pc[t] = "reconnectInUse"
  /\ powerLock = NoClient
  /\ MarkInUse
  /\ Goto(t, "reconnectShare")
  /\ UNCHANGED <<sharing, readerState, cardProtocol, iccPowered, call, locks,
                 history, others>>

\* The share mode stays what it is, or contexts decides about the new one.
ReconnectShare(t) ==
  /\ pc[t] = "reconnectShare"
  /\ IF (call[t].mode = "EXCLUSIVE") = (contexts = EXCLUSIVE_CONTEXT)
     THEN Goto(t, "reconnectClear") /\ UNCHANGED call
     ELSE IF call[t].mode # "EXCLUSIVE"
     THEN Goto(t, "reconnectUnlock") /\ UNCHANGED call
     ELSE IF contexts = LAST_CONTEXT
     THEN Goto(t, "reconnectExclusive") /\ UNCHANGED call
     ELSE Return(t)
  /\ UNCHANGED <<sharing, card, locks, history, others>>

ReconnectExclusive(t) ==
  /\ pc[t] = "reconnectExclusive"
  /\ contexts' = EXCLUSIVE_CONTEXT
  /\ Goto(t, "reconnectLock")
  /\ UNCHANGED <<hLockId, LockCount, handlesList, dwEventStatus, card, call,
                 locks, history, others>>

ReconnectLock(t) ==
  /\ pc[t] = "reconnectLock"
  /\ SharingUnlocked
  /\ RFLockSharing(call[t].hCard)
  /\ LockGiven(call[t].hCard)
  /\ Goto(t, "reconnectClear")
  /\ UNCHANGED <<contexts, handlesList, dwEventStatus, card, call, locks,
                 shareMode, cardOf, others>>

\* RFUnlockSharing() still sees the exclusive mode.
ReconnectUnlock(t) ==
  LET h == call[t].hCard IN
  /\ pc[t] = "reconnectUnlock"
  /\ SharingUnlocked
  /\ Goto(t, IF RFUnlockSharing(h) \in UnlockSteps THEN RFUnlockSharing(h)
                                                    ELSE "reconnectCount")
  /\ LockGivenBack(h, 0)
  /\ UNCHANGED <<sharing, card, call, locks, shareMode, cardOf, others>>

ReconnectCount(t) ==
  /\ pc[t] = "reconnectCount"
  /\ contexts' = LAST_CONTEXT
  /\ Goto(t, "reconnectClear")
  /\ UNCHANGED <<hLockId, LockCount, handlesList, dwEventStatus, card, call,
                 locks, history, others>>

ReconnectClear(t) ==
  LET h == call[t].hCard IN
  /\ pc[t] = "reconnectClear"
  /\ RFClearReaderEventState(h)
  /\ shareMode' = [shareMode EXCEPT ![h] = call[t].mode]
  /\ cardOf' = [cardOf EXCEPT ![h] = call[t].card]
  /\ Return(t)
  /\ UNCHANGED <<contexts, hLockId, LockCount, handlesList, card, locks,
                 depth, others>>

-----------------------------------------------------------------------------
\* SCardBeginTransaction() and SCardEndTransaction()

SCardBeginTransaction(t) ==
  /\ RFCheckReaderStatus
  /\ \E h \in Handles :
       /\ MSGCheckHandleAssociation(t, "BEGIN_TRANSACTION", h)
       /\ RFCheckReaderEventState(h)
       /\ SetCall(t, HandleCall("BEGIN_TRANSACTION", h, "LEAVE"))
  /\ Goto(t, "beginLock")
  /\ UNCHANGED <<sharing, card, locks, history, others>>

\* On SCARD_E_SHARING_VIOLATION the client asks again later.
BeginLock(t) ==
  LET h == call[t].hCard IN
  /\ pc[t] = "beginLock"
  /\ SharingUnlocked
  /\ RFCheckSharing(h) => LockCount < MaxLockCount
  /\ RFLockSharing(h)
  /\ LockGiven(h)
  /\ Return(t)
  /\ UNCHANGED <<contexts, handlesList, dwEventStatus, card, locks,
                 shareMode, cardOf, others>>

SCardEndTransaction(t) ==
  /\ \E h \in Handles, disp \in Dispositions :
       /\ MSGCheckHandleAssociation(t, "END_TRANSACTION", h)
       /\ RFCheckReaderEventState(h)
       /\ disp # "LEAVE" => RFCheckSharing(h)
       /\ SetCall(t, HandleCall("END_TRANSACTION", h, disp))
       /\ Goto(t, IF disp \in {"RESET", "UNPOWER"} THEN "endPower"
                                                   ELSE "endUnlock")
  /\ UNCHANGED <<sharing, card, locks, history, others>>

EndPower(t) ==
  /\ pc[t] = "endPower"
  /\ \E rv \in IFDPowerICCResults :
       /\ IFDPowerUp(rv)
       /\ SetCall(t, WithResult(call[t], rv))
  /\ cardProtocol' = "UNDEFINED"
  /\ Goto(t, "endNotify")
  /\ UNCHANGED <<sharing, readerState, powerState, locks, history, others>>

EndNotify(t) ==
  /\ pc[t] = "endNotify"
  /\ RFSetReaderEventState("RESET")
  /\ readerState' = StateAfterReset(call[t].rv)
  /\ Goto(t, "endUnlock")
  /\ UNCHANGED <<contexts, hLockId, LockCount, handlesList, cardProtocol,
                 powerState, iccPowered, call, locks, history, others>>

EndUnlock(t) ==
  LET h == call[t].hCard IN
  /\ pc[t] = "endUnlock"
  /\ SharingUnlocked
  /\ IF RFUnlockSharing(h) \in UnlockSteps
     THEN Goto(t, RFUnlockSharing(h)) /\ UNCHANGED call
     ELSE Return(t)
  /\ LockGivenBack(h, IF shareMode[h] = "EXCLUSIVE" THEN 1 ELSE 0)
  /\ UNCHANGED <<sharing, card, locks, shareMode, cardOf, others>>

\* The update in RFUnlockSharing(); back in SCardEndTransaction() or in
\* SCardReconnect().
UnlockSharing(t) ==
  /\ pc[t] \in UnlockSteps
  /\ LockCount' = LockCount - 1
  /\ hLockId' = IF pc[t] = "unlockLast" /\ LockCount = 1 THEN NoHandle
                                                         ELSE hLockId
  /\ IF call[t].cmd = "RECONNECT"
     THEN Goto(t, "reconnectCount") /\ UNCHANGED call
     ELSE Return(t)
  /\ UNCHANGED <<contexts, handlesList, dwEventStatus, card, locks, history,
                 others>>

-----------------------------------------------------------------------------
\* SCardTransmit(), SCardControl(), SCardGetAttrib() and SCardSetAttrib():
\* checks, then a call of the driver.

CallDriver(t, cmd, h) ==
  /\ MSGCheckHandleAssociation(t, cmd, h)
  /\ RFCheckSharing(h)
  /\ RFCheckReaderStatus
  /\ SetCall(t, HandleCall(cmd, h, "LEAVE"))
  /\ Goto(t, "driver")
  /\ UNCHANGED <<sharing, card, locks, history, others>>

\* The protocol of the request must be the negotiated one; a RAW request is
\* passed to the reader as it is.
SCardTransmit(t) ==
  \E h \in Handles, p \in UNION Preferences :
    /\ RFCheckReaderEventState(h)
    /\ p # "RAW" => "ABSENT" \notin readerState /\ p = cardProtocol
    /\ CallDriver(t, "TRANSMIT", h)

SCardControl(t) == \E h \in Handles : CallDriver(t, "CONTROL", h)

SCardAttrib(t) ==
  \E h \in Handles :
    /\ RFCheckReaderEventState(h)
    /\ CallDriver(t, "ATTRIB", h)

\* The driver runs the request.
DriverReturns(t) ==
  /\ pc[t] = "driver"
  /\ IF call[t].cmd = "TRANSMIT" /\ icc = 0
     THEN Goto(t, "driverNoCard") /\ UNCHANGED call
     ELSE Return(t)
  /\ UNCHANGED <<sharing, card, locks, history, others>>

\* IFDTransmit() has found no card: the reader is marked empty.
DriverNoCard(t) ==
  /\ pc[t] = "driverNoCard"
  /\ cardProtocol' = "UNDEFINED"
  /\ readerState' = {"ABSENT"}
  /\ Return(t)
  /\ UNCHANGED <<sharing, powerState, iccPowered, locks, history, others>>

-----------------------------------------------------------------------------
\* MSGRemoveContext(), for SCARD_RELEASE_CONTEXT and when a client has died:
\* each handle in turn is disconnected.

SCardReleaseContext(t) ==
  /\ pc[t] = "idle"
  /\ hContext[t]
  /\ "RELEASE_CONTEXT" \in Commands
  /\ Goto(t, "removeContext")
  /\ UNCHANGED <<sharing, card, call, locks, history, others>>

\* Mutant: the handle is removed and its lock is not released.
RemoveEntryLocked(h) == "disconnectRemove"

\* Where the disconnection of a handle starts.
RemoveEntry(h) ==
  IF h \in handlesList /\ hLockId = h THEN "removeUnlock"
                                      ELSE DisconnectEntry(h, "LEAVE")

MSGRemoveContext(t) ==
  /\ pc[t] = "removeContext"
  /\ \E h \in cardsList[t] :
       /\ SetCall(t, HandleCall("RELEASE_CONTEXT", h, "LEAVE"))
       /\ Goto(t, RemoveEntry(h))
  /\ UNCHANGED <<sharing, card, locks, history, others>>

\* The lock is released, LockCount is not.
RemoveUnlock(t) ==
  /\ pc[t] = "removeUnlock"
  /\ hLockId' = NoHandle
  /\ Goto(t, "removeStatus")
  /\ UNCHANGED <<contexts, LockCount, handlesList, dwEventStatus, card, call,
                 locks, history, others>>

\* SCardStatus() tells whether the card was reset or removed since; if not,
\* the disconnection resets it.
RemoveStatus(t) ==
  LET h    == call[t].hCard
      disp == IF RFCheckSharing(h) /\ ~RFCheckReaderEventState(h)
              THEN "LEAVE" ELSE "RESET"
  IN
  /\ pc[t] = "removeStatus"
  /\ SetCall(t, WithDisposition(call[t], disp))
  /\ Goto(t, DisconnectEntry(h, disp))
  /\ UNCHANGED <<sharing, card, locks, history, others>>

ContextRemoved(t) ==
  /\ pc[t] = "removeContext"
  /\ cardsList[t] = {}
  /\ hContext' = [hContext EXCEPT ![t] = FALSE]
  /\ Goto(t, "idle")
  /\ UNCHANGED <<sharing, card, slot, call, cardsList, locks, event, history>>

-----------------------------------------------------------------------------
\* EHStatusHandlerThread()

\* Before the loop: the card that is already there is powered up.  A reader
\* that does not answer is taken for an empty one.
EHStart ==
  /\ evPc = "start"
  /\ \/ /\ icc = 0 \/ "status" \in Faults
        /\ readerState' = {"ABSENT"}
        /\ cardProtocol' = "UNDEFINED"
        /\ evPc' = "poll"
     \/ /\ icc # 0
        /\ evPc' = "startPower"
        /\ UNCHANGED <<readerState, cardProtocol>>
  /\ UNCHANGED <<sharing, powerState, iccPowered, slot, threads,
                 dwCurrentState, history>>

EHStartPower ==
  /\ evPc = "startPower"
  /\ \E rv \in IFDPowerICCResults :
       /\ IFDPowerUp(rv)
       /\ evPc' = IF rv = "SUCCESS" THEN "startPowered" ELSE "startUnpowered"
  /\ cardProtocol' = "UNDEFINED"
  /\ UNCHANGED <<sharing, readerState, powerState, slot, threads,
                 dwCurrentState, history>>

EHStartPowerState ==
  /\ evPc \in {"startPowered", "startUnpowered"}
  /\ powerLock = NoClient
  /\ powerState' = IF evPc = "startPowered" THEN "POWERED" ELSE "UNPOWERED"
  /\ evPc' = IF evPc = "startPowered" THEN "startPresent"
                                      ELSE "startSwallowed"
  /\ UNCHANGED <<sharing, readerState, cardProtocol, iccPowered, slot,
                 threads, dwCurrentState, history>>

EHStartState ==
  /\ evPc \in {"startPresent", "startSwallowed"}
  /\ readerState' = IF evPc = "startPresent" THEN {"PRESENT", "POWERED"}
                                             ELSE {"PRESENT", "SWALLOWED"}
  /\ dwCurrentState' = "PRESENT"
  /\ evPc' = "poll"
  /\ UNCHANGED <<sharing, cardProtocol, powerState, iccPowered, slot, threads,
                 history>>

\* IFDStatusICC() reports the card, and the thread compares with what it knew.
EHStatus ==
  /\ evPc = "poll"
  /\ evPc' = CASE icc = 0 /\ dwCurrentState # "ABSENT"  -> "removed"
               [] icc # 0 /\ dwCurrentState # "PRESENT" -> "inserted"
               [] OTHER                                 -> "power"
  /\ UNCHANGED <<sharing, card, slot, threads, dwCurrentState, history>>

EHStatusError ==
  /\ evPc = "poll"
  /\ "status" \in Faults
  /\ readerState' = {"UNKNOWN"}
  /\ cardProtocol' = "UNDEFINED"
  /\ dwCurrentState' = "UNKNOWN"
  /\ evPc' = "power"
  /\ UNCHANGED <<sharing, powerState, iccPowered, slot, threads, history>>

EHCardRemoved ==
  /\ evPc = "removed"
  /\ RFSetReaderEventState("REMOVED")
  /\ evPc' = "unlockId"
  /\ UNCHANGED <<contexts, hLockId, LockCount, handlesList, card, slot,
                 threads, dwCurrentState, history>>

\* RFSetReaderEventState(SCARD_REMOVED) clears the lock, in two steps.
EHUnlockId ==
  /\ evPc = "unlockId"
  /\ hLockId' = NoHandle
  /\ depth' = [h \in Handles |-> 0]
  /\ evPc' = "unlockCount"
  /\ UNCHANGED <<contexts, LockCount, handlesList, dwEventStatus, card, slot,
                 threads, dwCurrentState, shareMode, cardOf>>

EHUnlockCount ==
  /\ evPc = "unlockCount"
  /\ LockCount' = 0
  /\ evPc' = "absent"
  /\ UNCHANGED <<contexts, hLockId, handlesList, dwEventStatus, card, slot,
                 threads, dwCurrentState, history>>

EHCardAbsent ==
  /\ evPc = "absent"
  /\ cardProtocol' = "UNDEFINED"
  /\ readerState' = {"ABSENT"}
  /\ dwCurrentState' = "ABSENT"
  /\ evPc' = "power"
  /\ UNCHANGED <<sharing, powerState, iccPowered, slot, threads, history>>

EHCardInserted ==
  /\ evPc = "inserted"
  /\ \E rv \in IFDPowerICCResults :
       /\ IFDPowerUp(rv)
       /\ evPc' = IF rv = "SUCCESS" THEN "powerUp" ELSE "powerUpFailed"
  /\ UNCHANGED <<sharing, readerState, cardProtocol, powerState, slot,
                 threads, dwCurrentState, history>>

\* The result of the power up is recorded, first where the clients look for
\* the card, then in powerState.
EHCardPowered ==
  /\ evPc \in {"powerUp", "powerUpFailed"}
  /\ readerState' = IF evPc = "powerUp" THEN {"PRESENT", "POWERED"}
                                        ELSE {"PRESENT", "SWALLOWED"}
  /\ cardProtocol' = "UNDEFINED"
  /\ evPc' = IF evPc = "powerUp" THEN "setPowered" ELSE "setUnpowered"
  /\ UNCHANGED <<sharing, powerState, iccPowered, slot, threads,
                 dwCurrentState, history>>

EHSetPowerState ==
  /\ evPc \in {"setPowered", "setUnpowered"}
  /\ powerLock = NoClient
  /\ powerState' = IF evPc = "setPowered" THEN "POWERED" ELSE "UNPOWERED"
  /\ dwCurrentState' = "PRESENT"
  /\ evPc' = "power"
  /\ UNCHANGED <<sharing, readerState, cardProtocol, iccPowered, slot,
                 threads, history>>

\* After the wait, under powerState_lock: power the unused card off, give a
\* card just left one more round.
EHPowerOff ==
  /\ evPc = "power"
  /\ powerLock = NoClient
  /\ IF powerState = "POWERED"
     THEN /\ \E rv \in IFDPowerICCResults : IFDPowerDown(rv)
          /\ powerState' = "UNPOWERED"
          /\ cardProtocol' = "UNDEFINED"
     ELSE /\ powerState' = IF powerState = "GRACE_PERIOD" THEN "POWERED"
                                                          ELSE powerState
          /\ UNCHANGED <<iccPowered, cardProtocol>>
  /\ evPc' = "poll"
  /\ UNCHANGED <<sharing, readerState, slot, threads, dwCurrentState, history>>

-----------------------------------------------------------------------------
\* The user inserts and removes cards.  The event thread notices that the
\* slot is empty before the next card is there, except when cards are swapped.

InsertCard ==
  /\ icc = 0
  /\ evPc = "start" \/ dwCurrentState # "PRESENT" \/ "swap" \in Faults
  /\ inserted < MaxCards
  /\ icc' = inserted + 1
  /\ inserted' = inserted + 1
  /\ UNCHANGED <<sharing, card, threads, event, history>>

RemoveCard ==
  /\ icc # 0
  /\ inserted <= MaxRemovals
  /\ icc' = 0
  /\ iccPowered' = FALSE
  /\ UNCHANGED <<sharing, readerState, cardProtocol, powerState, inserted,
                 threads, event, history>>

-----------------------------------------------------------------------------
Init ==
  /\ contexts = NO_CONTEXT
  /\ hLockId = NoHandle
  /\ LockCount = 0
  /\ handlesList = {}
  /\ dwEventStatus = [h \in Handles |-> "NONE"]
  /\ readerState = {}
  /\ cardProtocol = "UNDEFINED"
  /\ powerState = "UNPOWERED"
  /\ icc = CardsAtStart
  /\ inserted = CardsAtStart
  /\ iccPowered = FALSE
  /\ pc = [t \in Clients |-> "idle"]
  /\ call = [t \in Clients |-> NoCall]
  /\ cardsList = [t \in Clients |-> {}]
  /\ hContext = [t \in Clients |-> FALSE]
  /\ connectMutex = NoClient
  /\ powerLock = NoClient
  /\ evPc = "start"
  /\ dwCurrentState = "ABSENT"
  /\ shareMode = [h \in Handles |-> "NONE"]
  /\ depth = [h \in Handles |-> 0]
  /\ cardOf = [h \in Handles |-> 0]

\* A client sends a command.
Request(t) ==
  \/ SCardEstablishContext(t)
  \/ SCardConnect(t)
  \/ SCardReconnect(t)
  \/ SCardDisconnect(t)
  \/ SCardBeginTransaction(t)
  \/ SCardEndTransaction(t)
  \/ SCardTransmit(t)
  \/ SCardControl(t)
  \/ SCardAttrib(t)
  \/ SCardReleaseContext(t)

\* The server thread goes on with the command it serves.
Serve(t) ==
  \/ ConnectUnlocked(t)
  \/ ConnectPresent(t)
  \/ ConnectPower(t)
  \/ ConnectPowered(t)
  \/ ConnectProtocol(t)
  \/ ConnectLock(t)
  \/ ConnectExclusive(t)
  \/ ConnectSharingViolation(t)
  \/ ConnectLockSharing(t)
  \/ ConnectAdd(t)
  \/ ConnectAddFails(t)
  \/ ConnectUndo(t)
  \/ ConnectUndone(t)
  \/ MSGAddHandle(t)
  \/ DisconnectUnlocked(t)
  \/ DisconnectUnlock(t)
  \/ DisconnectNotify(t)
  \/ DisconnectPower(t)
  \/ DisconnectUnpower(t)
  \/ DisconnectState(t)
  \/ DisconnectRemove(t)
  \/ DisconnectCount(t)
  \/ DisconnectDecrement(t)
  \/ DisconnectNegative(t)
  \/ DisconnectNone(t)
  \/ DisconnectGrace(t)
  \/ DisconnectUnused(t)
  \/ DisconnectReturn(t)
  \/ ReconnectPresent(t)
  \/ ReconnectNotify(t)
  \/ ReconnectPower(t)
  \/ ReconnectState(t)
  \/ ReconnectProtocol(t)
  \/ ReconnectInUse(t)
  \/ ReconnectShare(t)
  \/ ReconnectExclusive(t)
  \/ ReconnectLock(t)
  \/ ReconnectUnlock(t)
  \/ ReconnectCount(t)
  \/ ReconnectClear(t)
  \/ BeginLock(t)
  \/ EndPower(t)
  \/ EndNotify(t)
  \/ EndUnlock(t)
  \/ UnlockSharing(t)
  \/ DriverReturns(t)
  \/ DriverNoCard(t)
  \/ MSGRemoveContext(t)
  \/ RemoveUnlock(t)
  \/ RemoveStatus(t)
  \/ ContextRemoved(t)

EventThread ==
  \/ EHStart
  \/ EHStartPower
  \/ EHStartPowerState
  \/ EHStartState
  \/ EHStatus
  \/ EHStatusError
  \/ EHCardRemoved
  \/ EHUnlockId
  \/ EHUnlockCount
  \/ EHCardAbsent
  \/ EHCardInserted
  \/ EHCardPowered
  \/ EHSetPowerState
  \/ EHPowerOff

User == InsertCard \/ RemoveCard

Next ==
  \/ \E t \in Clients : Request(t) \/ Serve(t)
  \/ EventThread
  \/ User

Spec == Init /\ [][Next]_vars

\* The operating system schedules every thread of the daemon.
FairSpec ==
  Spec /\ WF_vars(EventThread) /\ \A t \in Clients : WF_vars(Serve(t))

=============================================================================
