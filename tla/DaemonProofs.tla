---------------------------- MODULE DaemonProofs ----------------------------
(***************************************************************************)
(* Proofs about pcscd as a process, for any number of processes and        *)
(* clients, any faults and any order of the steps: two pcscd never work    *)
(* side by side, the files of PCSCLITE_IPC_DIR lead to the one that does,  *)
(* and one without clients has its exit alarm running.  The first two hold *)
(* as long as no pcscd is started beside one that starts or ends and every *)
(* pid was recorded, which the history variable orderly remembers.         *)
(***************************************************************************)
EXTENDS Daemon, FiniteSetTheorems, TLAPS

Leaving == {"stop", "deinitialize", "cleanup", "blocked", "remove",
            "removePid", "exit"}

Steps == Over \cup Checking \cup Starting \cup Looping \cup Leaving

Signals == {"SIGTERM", "SIGINT", "SIGUSR1", "SIGALRM"}

Pids == Daemons \cup {"none", "empty"}

Processes ==
  [main : Steps, signal : {"read", "remove", "removePid", "exit"},
   pipe : Seq(Signals), MustExit : BOOLEAN, Init : BOOLEAN, lives : Int,
   alarm : BOOLEAN, contextsList : SUBSET Clients, pid : Pids,
   unrecorded : BOOLEAN, missed : BOOLEAN]

ClientStates ==
  [state : {"none", "connecting", "served", "leaving"},
   daemon : Daemons \cup {"none", "systemd"}, listSize : Nat]

TypeOK ==
  /\ AutoExit \in BOOLEAN /\ SocketActivated \in BOOLEAN
  /\ proc \in [Daemons -> Processes]
  /\ socketFile \in Daemons \cup {"none", "systemd"}
  /\ pidFile \in Pids
  /\ recycled \in SUBSET Daemons
  /\ client \in [Clients -> ClientStates]

\* The threads of a client belong to a process, and the context of a client
\* that is served is in the list of that process only.
ClientsOK ==
  /\ \A c \in Clients :
       client[c].state \in {"served", "leaving"} => client[c].daemon \in Daemons
  /\ \A d \in Daemons : /\ IsFiniteSet(proc[d].contextsList)
                        /\ \A c \in proc[d].contextsList :
                             /\ client[c].state = "served"
                             /\ client[c].daemon = d

BaseInv == TypeOK /\ ClientsOK

-----------------------------------------------------------------------------
\* Types

\* A process that has not started, and one that has ended, is well formed.
LEMMA NewProcessType ==
  /\ NewProcess \in Processes
  /\ \A step \in Steps : [NewProcess EXCEPT !.main = step] \in Processes
  /\ NoClient \in ClientStates
<1>1. <<>> \in Seq(Signals) /\ {} \in SUBSET Clients
  OBVIOUS
<1>2. NewProcess \in Processes
  BY <1>1 DEF NewProcess, Processes, Steps, Over, Pids
<1>3. \A step \in Steps : [NewProcess EXCEPT !.main = step] \in Processes
  BY <1>2 DEF Processes
<1>4. NoClient \in ClientStates
  BY DEF NoClient, ClientStates
<1> QED BY <1>2, <1>3, <1>4

\* What signal_thread() makes of the variables of the process.
Handled(d, q) ==
  LET p == [proc[d] EXCEPT !.pipe = Tail(@)]
  IN \/ q = p /\ Head(proc[d].pipe) = "SIGUSR1"
     \/ q = [p EXCEPT !.signal = "remove"]
     \/ q = PrepareForExit(p)

LEMMA HandledFields ==
  ASSUME NEW d \in Daemons, TypeOK, proc[d].pipe # <<>>, NEW q, Handled(d, q)
  PROVE  /\ q \in Processes
         /\ q.main = proc[d].main /\ q.alarm = proc[d].alarm
         /\ q.contextsList = proc[d].contextsList
         /\ q.pid = proc[d].pid /\ q.unrecorded = proc[d].unrecorded
         /\ q.signal \in {proc[d].signal, "read", "remove"}
         /\ \/ q.MustExit \/ q.signal = "remove"
            \/ /\ q.pipe = Tail(proc[d].pipe)
               /\ Head(proc[d].pipe) = "SIGUSR1"
               /\ q.MustExit = proc[d].MustExit
<1> DEFINE p == [proc[d] EXCEPT !.pipe = Tail(@)]
<1>0. proc[d] \in Processes /\ Tail(proc[d].pipe) \in Seq(Signals)
  BY DEF TypeOK, Processes
<1>1. /\ p \in Processes
      /\ p.main = proc[d].main /\ p.alarm = proc[d].alarm
      /\ p.contextsList = proc[d].contextsList
      /\ p.pid = proc[d].pid /\ p.unrecorded = proc[d].unrecorded
      /\ p.signal = proc[d].signal /\ p.pipe = Tail(proc[d].pipe)
      /\ p.MustExit = proc[d].MustExit
  BY <1>0 DEF Processes
<1> HIDE DEF p
<1>2. CASE q = p /\ Head(proc[d].pipe) = "SIGUSR1"
  BY <1>1, <1>2
<1>3. CASE q = [p EXCEPT !.signal = "remove"]
  BY <1>1, <1>3 DEF Processes
<1>4. CASE q = PrepareForExit(p)
  <2>1. CASE p.MustExit
    <3>1. p.lives - 1 \in Int
      BY <1>1 DEF Processes
    <3> QED BY <1>1, <1>4, <2>1, <3>1 DEF PrepareForExit, Processes
  <2>2. CASE ~p.MustExit
    BY <1>1, <1>4, <2>2 DEF PrepareForExit, Processes
  <2> QED BY <2>1, <2>2
<1> QED BY <1>2, <1>3, <1>4 DEF Handled, p

LEMMA HandleSignalSets ==
  ASSUME NEW d \in Daemons, HandleSignal(d)
  PROVE  /\ proc[d].pipe # <<>>
         /\ \E q : Handled(d, q) /\ proc' = [proc EXCEPT ![d] = q]
BY DEF HandleSignal, Handled

\* Only d changes, and everything is still well formed.
Only(d) ==
  /\ proc' \in [Daemons -> Processes]
  /\ \A e \in Daemons \ {d} : proc'[e] = proc[e]

\* An action of the main thread of d: its step, alarm, contexts and pid.
After(d, m, a, l, p) ==
  /\ Only(d)
  /\ proc'[d].main = m /\ proc'[d].alarm = a
  /\ proc'[d].contextsList = l /\ proc'[d].pid = p
  /\ proc'[d].signal = proc[d].signal /\ proc'[d].pipe = proc[d].pipe
  /\ proc'[d].MustExit = proc[d].MustExit

LEMMA OnlyOne ==
  ASSUME TypeOK, NEW d \in Daemons, NEW q \in Processes,
         proc' = [proc EXCEPT ![d] = q]
  PROVE  Only(d) /\ proc'[d] = q
BY DEF TypeOK, Only

\* The main thread goes on to another step.
Moves(d, step) ==
  After(d, step, proc[d].alarm, proc[d].contextsList, proc[d].pid)

LEMMA MainMoves ==
  ASSUME TypeOK, NEW d \in Daemons, NEW step \in Steps, Main(d, step)
  PROVE  Moves(d, step) /\ proc'[d].unrecorded = proc[d].unrecorded
<1> DEFINE q == [proc[d] EXCEPT !.main = step]
<1>1. proc[d] \in Processes /\ proc' = [proc EXCEPT ![d] = q]
  BY DEF TypeOK, Main
<1>2. q \in Processes
  BY <1>1 DEF Processes
<1>3. Only(d) /\ proc'[d] = q
  BY <1>1, <1>2, OnlyOne
<1> QED BY <1>1, <1>3 DEF Processes, Moves, After

LEMMA ReadPidMoves ==
  ASSUME TypeOK, NEW d \in Daemons, ReadPid(d)
  PROVE  \/ pidFile \in {"none", "empty"} /\ Moves(d, "init")
         \/ /\ pidFile # "none"
            /\ After(d, "checkPid", proc[d].alarm, proc[d].contextsList,
                     pidFile)
<1> USE DEF Steps, Starting, Checking
<1>1. CASE pidFile \in {"none", "empty"} /\ Main(d, "init")
  BY <1>1, MainMoves
<1>2. CASE /\ pidFile # "none"
           /\ proc' = [proc EXCEPT ![d].main = "checkPid", ![d].pid = pidFile]
  <2> DEFINE q == [proc[d] EXCEPT !.main = "checkPid", !.pid = pidFile]
  <2>1. proc[d] \in Processes /\ proc' = [proc EXCEPT ![d] = q]
    BY <1>2 DEF TypeOK
  <2>2. q \in Processes
    BY <2>1 DEF Processes, TypeOK
  <2>3. Only(d) /\ proc'[d] = q
    BY <2>1, <2>2, OnlyOne
  <2> QED BY <1>2, <2>1, <2>3 DEF Processes, After
<1> QED BY <1>1, <1>2 DEF ReadPid

LEMMA WritePidMoves ==
  ASSUME TypeOK, NEW d \in Daemons, WritePid(d)
  PROVE  /\ Moves(d, "socket")
         /\ pidFile' = d \/ proc'[d].unrecorded
         /\ pidFile' \in Pids
<1> DEFINE q(b) == [proc[d] EXCEPT !.main = "socket", !.Init = FALSE,
                                   !.unrecorded = b]
<1>0. proc[d] \in Processes
  BY DEF TypeOK
<1>1. PICK b \in BOOLEAN : /\ proc' = [proc EXCEPT ![d] = q(b)]
                           /\ b \/ pidFile' = d
  <2>1. CASE /\ pidFile' = d
             /\ proc' = [proc EXCEPT ![d].main = "socket", ![d].Init = FALSE]
    <3>1. [proc[d] EXCEPT !.main = "socket", !.Init = FALSE]
            = q(proc[d].unrecorded)
      BY <1>0 DEF Processes
    <3>2. proc' = [proc EXCEPT ![d] = q(proc[d].unrecorded)]
      BY <2>1, <3>1 DEF TypeOK
    <3> QED BY <1>0, <2>1, <3>2 DEF Processes
  <2>2. CASE proc' = [proc EXCEPT ![d].main = "socket", ![d].Init = FALSE,
                                  ![d].unrecorded = TRUE]
    BY <2>2 DEF TypeOK
  <2> QED BY <2>1, <2>2 DEF WritePid
<1>2. q(b) \in Processes
  BY <1>0 DEF Processes, Steps, Starting
<1>3. Only(d) /\ proc'[d] = q(b)
  BY <1>1, <1>2, OnlyOne
<1>4. pidFile' \in Pids
  BY DEF WritePid, TypeOK, Pids
<1>5. Moves(d, "socket")
  BY <1>0, <1>3 DEF Processes, Moves, After
<1>6. proc'[d].unrecorded = b
  BY <1>0, <1>3 DEF Processes
<1> QED BY <1>1, <1>4, <1>5, <1>6

LEMMA LoopMoves ==
  ASSUME TypeOK, NEW d \in Daemons
  PROVE  /\ Ready(d) => After(d, "loop", AutoExit, proc[d].contextsList,
                              proc[d].pid)
         /\ Select(d) => Moves(d, "select")
         /\ DisableAlarm(d) =>
              After(d, "loop", proc[d].alarm /\ ~AutoExit,
                    proc[d].contextsList, proc[d].pid)
         /\ ContextsDeinitialize(d) => After(d, "cleanup", proc[d].alarm, {},
                                             proc[d].pid)
         /\ \A c \in Clients :
              /\ AcceptClient(d, c) =>
                   After(d, "disarm", proc[d].alarm,
                         proc[d].contextsList \cup {c}, proc[d].pid)
              /\ CloseClient(d, c) => Moves(d, "loop")
<1> USE DEF Steps, Looping, Leaving
<1>0. proc[d] \in Processes /\ AutoExit \in BOOLEAN
  BY DEF TypeOK
<1>1. ASSUME Ready(d)
      PROVE  After(d, "loop", AutoExit, proc[d].contextsList, proc[d].pid)
  <2> DEFINE q == [proc[d] EXCEPT !.main = "loop", !.alarm = AutoExit]
  <2>1. proc' = [proc EXCEPT ![d] = q]
    BY <1>1 DEF Ready, FirstAlarm, TypeOK
  <2>2. q \in Processes
    BY <1>0 DEF Processes
  <2>3. Only(d) /\ proc'[d] = q
    BY <2>1, <2>2, OnlyOne
  <2> QED BY <1>0, <2>3 DEF Processes, After
<1>2. ASSUME Select(d) PROVE Moves(d, "select")
  <2> DEFINE b == proc[d].missed \/ ToldToExit(proc[d])
             q == [proc[d] EXCEPT !.main = "select", !.missed = b]
  <2>1. proc' = [proc EXCEPT ![d] = q]
    BY <1>2 DEF Select, TypeOK
  <2>2. b \in BOOLEAN
    OBVIOUS
  <2> HIDE DEF b
  <2>3. q \in Processes
    BY <1>0, <2>2 DEF Processes
  <2>4. Only(d) /\ proc'[d] = q
    BY <2>1, <2>3, OnlyOne
  <2> QED BY <1>0, <2>4 DEF Processes, Moves, After
<1>3. ASSUME DisableAlarm(d)
      PROVE  After(d, "loop", proc[d].alarm /\ ~AutoExit,
                   proc[d].contextsList, proc[d].pid)
  <2> DEFINE b == proc[d].alarm /\ ~AutoExit
             q == [proc[d] EXCEPT !.main = "loop", !.alarm = b]
  <2>1. proc' = [proc EXCEPT ![d] = q]
    BY <1>3 DEF DisableAlarm, TypeOK
  <2>2. q \in Processes
    BY <1>0 DEF Processes
  <2>3. Only(d) /\ proc'[d] = q
    BY <2>1, <2>2, OnlyOne
  <2> QED BY <1>0, <2>3 DEF Processes, After
<1>4. ASSUME ContextsDeinitialize(d)
      PROVE  After(d, "cleanup", proc[d].alarm, {}, proc[d].pid)
  <2> DEFINE q == [proc[d] EXCEPT !.main = "cleanup", !.contextsList = {}]
  <2>1. proc' = [proc EXCEPT ![d] = q]
    BY <1>4 DEF ContextsDeinitialize, TypeOK
  <2>2. q \in Processes
    BY <1>0 DEF Processes
  <2>3. Only(d) /\ proc'[d] = q
    BY <2>1, <2>2, OnlyOne
  <2> QED BY <1>0, <2>3 DEF Processes, After
<1>5. ASSUME NEW c \in Clients, AcceptClient(d, c)
      PROVE  After(d, "disarm", proc[d].alarm,
                   proc[d].contextsList \cup {c}, proc[d].pid)
  <2> DEFINE q == [proc[d] EXCEPT !.main = "disarm",
                                 !.contextsList = @ \cup {c}]
  <2>1. proc' = [proc EXCEPT ![d] = q]
    BY <1>5 DEF AcceptClient, TypeOK
  <2>2. q \in Processes
    BY <1>0 DEF Processes
  <2>3. Only(d) /\ proc'[d] = q
    BY <2>1, <2>2, OnlyOne
  <2> QED BY <1>0, <2>3 DEF Processes, After
<1>6. ASSUME NEW c \in Clients, CloseClient(d, c) PROVE Moves(d, "loop")
  <2> DEFINE q == [proc[d] EXCEPT !.main = "loop", !.alarm = proc[d].alarm]
  <2>1. proc' = [proc EXCEPT ![d] = q]
    BY <1>6 DEF CloseClient, AlarmGoesOn, TypeOK
  <2>2. q \in Processes
    BY <1>0 DEF Processes
  <2>3. Only(d) /\ proc'[d] = q
    BY <2>1, <2>2, OnlyOne
  <2> QED BY <1>0, <2>3 DEF Processes, Moves, After
<1> QED BY <1>1, <1>2, <1>3, <1>4, <1>5, <1>6

LEMMA AtExitMoves ==
  ASSUME TypeOK, NEW d \in Daemons, NEW thread \in {"main", "signal"},
         NEW step, NEW next \in {"removePid", "exit"},
         AtExitStep(d, thread, step, next)
  PROVE  /\ Only(d)
         /\ proc'[d].main = IF thread = "main" THEN next ELSE proc[d].main
         /\ proc'[d].signal = IF thread = "signal" THEN next
                                                   ELSE proc[d].signal
         /\ proc'[d].contextsList = proc[d].contextsList
         /\ proc'[d].pid = proc[d].pid
<1>0. proc[d] \in Processes
  BY DEF TypeOK
<1>1. CASE thread = "main"
  <2> DEFINE q == [proc[d] EXCEPT !.main = next]
  <2>1. proc' = [proc EXCEPT ![d] = q]
    BY <1>1 DEF AtExitStep, TypeOK
  <2>2. q \in Processes
    BY <1>0 DEF Processes, Steps, Leaving
  <2>3. Only(d) /\ proc'[d] = q
    BY <2>1, <2>2, OnlyOne
  <2> QED BY <1>0, <1>1, <2>3 DEF Processes
<1>2. CASE thread = "signal"
  <2> DEFINE q == [proc[d] EXCEPT !.signal = next]
  <2>1. proc' = [proc EXCEPT ![d] = q]
    BY <1>2 DEF AtExitStep, TypeOK
  <2>2. q \in Processes
    BY <1>0 DEF Processes
  <2>3. Only(d) /\ proc'[d] = q
    BY <2>1, <2>2, OnlyOne
  <2> QED BY <1>0, <1>2, <2>3 DEF Processes
<1> QED BY <1>1, <1>2

\* A process that has ended has no context, and nothing changes for the others.
LEMMA EndMoves ==
  ASSUME TypeOK, NEW d \in Daemons, NEW m \in Steps,
         proc' = [proc EXCEPT ![d] = [NewProcess EXCEPT !.main = m]]
  PROVE  /\ Only(d)
         /\ proc'[d].main = m
         /\ proc'[d].contextsList = {}
<1> DEFINE q == [NewProcess EXCEPT !.main = m]
<1>1. q \in Processes
  BY NewProcessType
<1>2. Only(d) /\ proc'[d] = q
  BY <1>1, OnlyOne
<1> QED BY <1>2 DEF NewProcess

\* A signal interrupts select(), and an alarm that has fired no longer runs.
LEMMA DeliverMoves ==
  ASSUME TypeOK, NEW d \in Daemons, NEW signal \in Signals,
         Deliver(d, signal)
  PROVE  /\ Only(d)
         /\ proc'[d].main = Interrupted(d)
         /\ proc'[d].signal = proc[d].signal
         /\ proc'[d].contextsList = proc[d].contextsList
         /\ proc'[d].pid = proc[d].pid
         /\ proc'[d].MustExit = proc[d].MustExit
         /\ proc'[d].pipe = Append(proc[d].pipe, signal)
         /\ signal # "SIGALRM" => proc'[d].alarm = proc[d].alarm
<1> DEFINE b == proc[d].alarm /\ signal # "SIGALRM"
           q == [proc[d] EXCEPT !.pipe = Append(@, signal),
                                !.main = Interrupted(d), !.alarm = b]
<1>1. /\ proc[d] \in Processes
      /\ Append(proc[d].pipe, signal) \in Seq(Signals)
      /\ Interrupted(d) \in Steps
      /\ b \in BOOLEAN
  BY DEF TypeOK, Processes, Interrupted, Steps, Looping
<1>2. q \in Processes
  BY <1>1 DEF Processes
<1>3. proc' = [proc EXCEPT ![d] = q]
  BY DEF Deliver, TypeOK
<1>4. Only(d) /\ proc'[d] = q
  BY <1>2, <1>3, OnlyOne
<1>5. signal # "SIGALRM" => b = proc[d].alarm
  BY <1>1 DEF Processes
<1> HIDE DEF b
<1> QED BY <1>1, <1>4, <1>5 DEF Processes

LEMMA HandleMoves ==
  ASSUME TypeOK, NEW d \in Daemons, HandleSignal(d)
  PROVE  /\ Only(d)
         /\ Handled(d, proc'[d])
         /\ proc[d].pipe # <<>>
<1>1. PICK q : Handled(d, q) /\ proc' = [proc EXCEPT ![d] = q]
  BY HandleSignalSets
<1>2. proc[d].pipe # <<>> /\ q \in Processes
  BY <1>1, HandleSignalSets, HandledFields
<1>3. Only(d) /\ proc'[d] = q
  BY <1>1, <1>2, OnlyOne
<1> QED BY <1>1, <1>2, <1>3

LEMMA ClientMoves ==
  ASSUME BaseInv, NEW c \in Clients, RemoveFromList(c) \/ StartAlarm(c)
  PROVE  LET d == client[c].daemon
         IN /\ d \in Daemons
            /\ RemoveFromList(c) =>
                 After(d, proc[d].main, proc[d].alarm,
                       proc[d].contextsList \ {c}, proc[d].pid)
            /\ StartAlarm(c) =>
                 After(d, proc[d].main,
                       proc[d].alarm \/ StartsAlarm(client[c].listSize),
                       proc[d].contextsList, proc[d].pid)
<1> DEFINE d == client[c].daemon
<1>0. TypeOK /\ d \in Daemons
  BY DEF BaseInv, ClientsOK, RemoveFromList, StartAlarm
<1>1. proc[d] \in Processes
  BY <1>0 DEF TypeOK
<1> HIDE DEF d
<1>2. ASSUME RemoveFromList(c)
      PROVE  After(d, proc[d].main, proc[d].alarm,
                   proc[d].contextsList \ {c}, proc[d].pid)
  <2> DEFINE q == [proc[d] EXCEPT !.contextsList = @ \ {c}]
  <2>1. proc' = [proc EXCEPT ![d] = q]
    BY <1>0, <1>2 DEF RemoveFromList, TypeOK, d
  <2>2. q \in Processes
    BY <1>1 DEF Processes
  <2>3. Only(d) /\ proc'[d] = q
    BY <1>0, <2>1, <2>2, OnlyOne
  <2> QED BY <1>1, <2>3 DEF Processes, After
<1>3. ASSUME StartAlarm(c)
      PROVE  After(d, proc[d].main,
                   proc[d].alarm \/ StartsAlarm(client[c].listSize),
                   proc[d].contextsList, proc[d].pid)
  <2> DEFINE b == proc[d].alarm \/ StartsAlarm(client[c].listSize)
             q == [proc[d] EXCEPT !.alarm = b]
  <2>1. proc' = [proc EXCEPT ![d] = q]
    BY <1>0, <1>3 DEF StartAlarm, TypeOK, d
  <2>2. b \in BOOLEAN
    OBVIOUS
  <2> HIDE DEF b
  <2>3. q \in Processes
    BY <1>1, <2>2 DEF Processes
  <2>4. Only(d) /\ proc'[d] = q
    BY <1>0, <2>1, <2>3, OnlyOne
  <2> QED BY <1>1, <2>4 DEF Processes, After, b
<1> QED BY <1>0, <1>2, <1>3 DEF d

\* Every process is well formed after every step.
LEMMA ProcStep ==
  ASSUME BaseInv, Step
  PROVE  proc' \in [Daemons -> Processes]
<1> USE DEF Steps, Over, Checking, Starting, Looping, Leaving
<1>0. TypeOK
  BY DEF BaseInv
<1>1. ASSUME NEW d \in Daemons, NEW step \in Steps, Main(d, step)
      PROVE  proc' \in [Daemons -> Processes]
  BY <1>0, <1>1, MainMoves DEF Moves, After, Only
<1>2. ASSUME NEW d \in Daemons,
             ReadPid(d) \/ WritePid(d) \/ Ready(d) \/ Select(d)
               \/ DisableAlarm(d) \/ ContextsDeinitialize(d)
      PROVE  proc' \in [Daemons -> Processes]
  BY <1>0, <1>2, ReadPidMoves, WritePidMoves, LoopMoves
     DEF Moves, After, Only
<1>3. ASSUME NEW d \in Daemons, NEW c \in Clients,
             AcceptClient(d, c) \/ CloseClient(d, c)
      PROVE  proc' \in [Daemons -> Processes]
  BY <1>0, <1>3, LoopMoves DEF Moves, After, Only
<1>4. ASSUME NEW d \in Daemons, NEW thread \in {"main", "signal"},
             AtExitSocket(d, thread) \/ AtExitPid(d, thread)
      PROVE  proc' \in [Daemons -> Processes]
  BY <1>0, <1>4, AtExitMoves DEF AtExitSocket, AtExitPid, Only
<1>5. ASSUME NEW d \in Daemons,
             Kill(d) \/ \E thread \in {"main", "signal"} : AtExit(d, thread)
      PROVE  proc' \in [Daemons -> Processes]
  BY <1>0, <1>5, EndMoves DEF Kill, AtExit, Only
<1>6. ASSUME NEW d \in Daemons, NEW signal \in Signals, Deliver(d, signal)
      PROVE  proc' \in [Daemons -> Processes]
  BY <1>0, <1>6, DeliverMoves DEF Only
<1>7. ASSUME NEW d \in Daemons, HandleSignal(d)
      PROVE  proc' \in [Daemons -> Processes]
  BY <1>0, <1>7, HandleMoves DEF Only
<1>8. ASSUME NEW c \in Clients, RemoveFromList(c) \/ StartAlarm(c)
      PROVE  proc' \in [Daemons -> Processes]
  BY <1>8, ClientMoves DEF After, Only
<1>9. CASE UNCHANGED proc
  BY <1>0, <1>9 DEF TypeOK
<1>10. CASE \E d \in Daemons :
              \/ Start(d) \/ CheckPid(d) \/ CleanSocket(d) \/ CleanPid(d)
              \/ StartSerialReaders(d) \/ InitializeSocket(d)
              \/ StartHotplug(d) \/ RunLoop(d) \/ TryAgain(d)
              \/ StopHotplug(d) \/ CleanupReaders(d)
  BY <1>1, <1>10
     DEF Start, CheckPid, CleanSocket, CleanPid, StartSerialReaders,
         InitializeSocket, StartHotplug, RunLoop, TryAgain, StopHotplug,
         CleanupReaders
<1>11. CASE SendHotplugSignal \/ \E d \in Daemons :
              \/ AlarmFires(d)
              \/ \E signal \in {"SIGTERM", "SIGINT"} : SendSignal(d, signal)
  BY <1>6, <1>11 DEF SendHotplugSignal, AlarmFires, SendSignal, Signals
<1>12. CASE (\E d \in Daemons : RecyclePid(d)) \/ \E c \in Clients : Connect(c)
  BY <1>9, <1>12 DEF RecyclePid, Connect
<1> QED
  BY <1>2, <1>3, <1>4, <1>5, <1>7, <1>8, <1>10, <1>11, <1>12
     DEF Step, MainThread, SignalThread, ExitOf, ContextThread

LEMMA OptionsStay ==
  ASSUME Step
  PROVE  UNCHANGED <<AutoExit, SocketActivated>>
BY DEF options, Step, MainThread, SignalThread, ExitOf, ContextThread, Start,
       ReadPid, CheckPid, CleanSocket, CleanPid, StartSerialReaders,
       WritePid, InitializeSocket, StartHotplug, Ready, RunLoop, Select,
       TryAgain, AcceptClient, CloseClient, DisableAlarm, StopHotplug,
       ContextsDeinitialize, CleanupReaders, AtExitSocket,
       AtExitPid, AtExit, Kill, RecyclePid, SendSignal,
       SendHotplugSignal, AlarmFires, HandleSignal, Connect,
       RemoveFromList, StartAlarm

\* The clients and the files are well formed after every step.
LEMMA TypeStep ==
  ASSUME BaseInv, Step
  PROVE  TypeOK'
<1>0. TypeOK /\ NoClient \in ClientStates
  BY NewProcessType DEF BaseInv
<1>1. ASSUME NEW c \in Clients, NEW n \in ClientStates,
             client' = [client EXCEPT ![c] = n]
      PROVE  client' \in [Clients -> ClientStates]
  BY <1>0, <1>1 DEF TypeOK
<1>2. client' \in [Clients -> ClientStates]
  <2>1. ASSUME NEW d, NEW c \in Clients,
               AcceptClient(d, c) \/ CloseClient(d, c), d \in Daemons
        PROVE  client' \in [Clients -> ClientStates]
    <3>1. [NoClient EXCEPT !.state = "served", !.daemon = d] \in ClientStates
      BY <2>1 DEF NoClient, ClientStates
    <3> QED BY <1>0, <1>1, <2>1, <3>1 DEF AcceptClient, CloseClient
  <2>2. ASSUME NEW c \in Clients, Connect(c)
        PROVE  client' \in [Clients -> ClientStates]
    <3>1. [NoClient EXCEPT !.state = "connecting", !.daemon = socketFile]
            \in ClientStates
      BY <1>0, <2>2 DEF NoClient, ClientStates, TypeOK
    <3> QED BY <1>1, <2>2, <3>1 DEF Connect
  <2>3. ASSUME NEW c \in Clients, RemoveFromList(c)
        PROVE  client' \in [Clients -> ClientStates]
    <3> DEFINE left == proc[client[c].daemon].contextsList \ {c}
               n == [client[c] EXCEPT !.state = "leaving",
                                      !.listSize = Cardinality(left)]
    <3>1. client[c].daemon \in Daemons
      BY <2>3, ClientMoves
    <3>2. Cardinality(left) \in Nat
      BY <3>1, FS_Subset, FS_CardinalityType DEF BaseInv, ClientsOK
    <3> HIDE DEF left
    <3>3. n \in ClientStates
      BY <1>0, <3>2 DEF TypeOK, ClientStates
    <3>4. client' = [client EXCEPT ![c] = n]
      BY <1>0, <2>3 DEF RemoveFromList, TypeOK, left
    <3> QED BY <1>1, <3>3, <3>4
  <2>4. ASSUME NEW c \in Clients, StartAlarm(c)
        PROVE  client' \in [Clients -> ClientStates]
    BY <1>0, <1>1, <2>4 DEF StartAlarm
  <2>5. ASSUME NEW d \in Daemons,
               CloseAll(d) \/ ContextsDeinitialize(d)
        PROVE  client' \in [Clients -> ClientStates]
    BY <1>0, <2>5 DEF CloseAll, ContextsDeinitialize, TypeOK
  <2>6. CASE UNCHANGED client
    BY <1>0, <2>6 DEF TypeOK
  <2> QED
    BY <2>1, <2>2, <2>3, <2>4, <2>5, <2>6
       DEF Step, MainThread, SignalThread, ExitOf, ContextThread, Start,
           ReadPid, CheckPid, CleanSocket, CleanPid, StartSerialReaders,
           WritePid, InitializeSocket, StartHotplug, Ready, RunLoop, Select,
           TryAgain, DisableAlarm, StopHotplug, CleanupReaders, AtExitSocket,
           AtExitPid, AtExit, Kill, RecyclePid, SendSignal,
           SendHotplugSignal, AlarmFires, HandleSignal
<1>3. /\ socketFile' \in Daemons \cup {"none", "systemd"}
      /\ pidFile' \in Pids
      /\ recycled' \in SUBSET Daemons
  <2>1. socketFile' \in Daemons \cup {"none", "systemd"}
    <3>1. \/ socketFile' = socketFile \/ RemoveSocket
          \/ \E d \in Daemons : BindSocket(d)
      BY DEF files,
           Step, MainThread, SignalThread, ExitOf, ContextThread, Start,
           ReadPid, CheckPid, CleanSocket, CleanPid, StartSerialReaders,
           WritePid, InitializeSocket, StartHotplug, Ready, RunLoop, Select,
           TryAgain, AcceptClient, CloseClient, DisableAlarm, StopHotplug,
           ContextsDeinitialize, CleanupReaders, AtExitSocket,
           AtExitPid, AtExit, Kill, RecyclePid, SendSignal,
           SendHotplugSignal, AlarmFires, HandleSignal, Connect,
           RemoveFromList, StartAlarm
    <3> QED BY <1>0, <3>1 DEF TypeOK, RemoveSocket, BindSocket
  <2>2. pidFile' \in Pids
    <3>1. pidFile' = pidFile \/ pidFile' \in Pids
      BY DEF files, Pids,
           Step, MainThread, SignalThread, ExitOf, ContextThread, Start,
           ReadPid, CheckPid, CleanSocket, CleanPid, StartSerialReaders,
           WritePid, InitializeSocket, StartHotplug, Ready, RunLoop, Select,
           TryAgain, AcceptClient, CloseClient, DisableAlarm, StopHotplug,
           ContextsDeinitialize, CleanupReaders, AtExitSocket,
           AtExitPid, AtExit, Kill, RecyclePid, SendSignal,
           SendHotplugSignal, AlarmFires, HandleSignal, Connect,
           RemoveFromList, StartAlarm
    <3> QED BY <1>0, <3>1 DEF TypeOK
  <2>3. recycled' \in SUBSET Daemons
    <3>1. \/ recycled' = recycled
          \/ \E d \in Daemons : recycled' = recycled \cup {d}
      BY DEF files,
           Step, MainThread, SignalThread, ExitOf, ContextThread, Start,
           ReadPid, CheckPid, CleanSocket, CleanPid, StartSerialReaders,
           WritePid, InitializeSocket, StartHotplug, Ready, RunLoop, Select,
           TryAgain, AcceptClient, CloseClient, DisableAlarm, StopHotplug,
           ContextsDeinitialize, CleanupReaders, AtExitSocket,
           AtExitPid, AtExit, Kill, RecyclePid, SendSignal,
           SendHotplugSignal, AlarmFires, HandleSignal, Connect,
           RemoveFromList, StartAlarm
    <3> QED BY <1>0, <3>1 DEF TypeOK
  <2> QED BY <2>1, <2>2, <2>3
<1>4. proc' \in [Daemons -> Processes]
  BY ProcStep
<1> QED BY <1>0, <1>2, <1>3, <1>4, OptionsStay DEF TypeOK

\* The actions that have nothing to do with clients.
Elsewhere(d) ==
  \/ Start(d) \/ ReadPid(d) \/ CheckPid(d) \/ CleanSocket(d) \/ CleanPid(d)
  \/ StartSerialReaders(d) \/ WritePid(d) \/ InitializeSocket(d)
  \/ StartHotplug(d) \/ Ready(d) \/ RunLoop(d) \/ Select(d) \/ TryAgain(d)
  \/ DisableAlarm(d) \/ StopHotplug(d) \/ CleanupReaders(d)
  \/ \E thread \in {"main", "signal"} : AtExitSocket(d, thread)
                                          \/ AtExitPid(d, thread)
  \/ HandleSignal(d) \/ RecyclePid(d)
  \/ \E signal \in Signals : /\ Deliver(d, signal)
                              /\ \/ proc[d].alarm \/ pidFile = d
                                 \/ Alive(d) /\ proc[d].main \notin Checking
                              /\ UNCHANGED <<files, client>>

LEMMA ListsStay ==
  ASSUME TypeOK, NEW d \in Daemons, Elsewhere(d)
  PROVE  /\ UNCHANGED client
         /\ \A e \in Daemons : proc'[e].contextsList = proc[e].contextsList
<1> USE DEF Steps, Over, Checking, Starting, Looping, Leaving
<1> DEFINE Stay == \A e \in Daemons :
                     proc'[e].contextsList = proc[e].contextsList
<1>1. ASSUME Only(d), proc'[d].contextsList = proc[d].contextsList PROVE Stay
  BY <1>1 DEF Only
<1>2. ASSUME NEW step \in Steps, Main(d, step) PROVE Stay
  BY <1>1, <1>2, MainMoves DEF Moves, After
<1>3. CASE ReadPid(d) \/ WritePid(d) \/ Ready(d) \/ Select(d) \/ DisableAlarm(d)
  <2>1. Stay
    BY <1>1, <1>3, ReadPidMoves, WritePidMoves, LoopMoves DEF Moves, After
  <2> QED BY <1>3, <2>1 DEF ReadPid, WritePid, Ready, Select, DisableAlarm
<1>4. CASE \E thread \in {"main", "signal"} : AtExitSocket(d, thread)
                                                \/ AtExitPid(d, thread)
  BY <1>1, <1>4, AtExitMoves DEF AtExitSocket, AtExitPid
<1>5. CASE HandleSignal(d)
  BY <1>1, <1>5, HandleMoves, HandledFields DEF HandleSignal
<1>6. CASE \E signal \in Signals : Deliver(d, signal) /\ UNCHANGED client
  BY <1>1, <1>6, DeliverMoves
<1>7. CASE RecyclePid(d)
  BY <1>7 DEF RecyclePid
<1>8. CASE \/ Start(d) \/ CheckPid(d) \/ CleanSocket(d) \/ CleanPid(d)
           \/ StartSerialReaders(d) \/ InitializeSocket(d)
           \/ StartHotplug(d) \/ RunLoop(d) \/ TryAgain(d)
           \/ StopHotplug(d) \/ CleanupReaders(d)
  <2> HIDE DEF Stay
  <2>1. Stay /\ UNCHANGED client
    BY <1>2, <1>8
       DEF Start, CheckPid, CleanSocket, CleanPid, StartSerialReaders,
           InitializeSocket, StartHotplug, RunLoop, TryAgain, StopHotplug,
           CleanupReaders
  <2> QED BY <2>1 DEF Stay
<1> QED BY <1>3, <1>4, <1>5, <1>6, <1>7, <1>8 DEF Elsewhere

\* All steps but those are about clients, or end a process.
LEMMA StepKinds ==
  ASSUME TypeOK, Step
  PROVE  \/ \E d \in Daemons : Elsewhere(d)
         \/ \E d \in Daemons : ContextsDeinitialize(d)
         \/ \E d \in Daemons, c \in Clients : AcceptClient(d, c)
                                                \/ CloseClient(d, c)
         \/ \E d \in Daemons, m \in {"exited", "killed"} :
              /\ Alive(d)
              /\ proc' = [proc EXCEPT ![d] = [NewProcess EXCEPT !.main = m]]
              /\ CloseAll(d)
              /\ UNCHANGED <<options, files>>
         \/ \E c \in Clients : Connect(c) \/ RemoveFromList(c) \/ StartAlarm(c)
<1>1. CASE SendHotplugSignal
  BY <1>1 DEF SendHotplugSignal, Elsewhere, Signals
<1>2. CASE \E d \in Daemons :
             AlarmFires(d) \/ \E signal \in {"SIGTERM", "SIGINT"} :
                                SendSignal(d, signal)
  BY <1>2 DEF AlarmFires, SendSignal, Elsewhere, Signals
<1>3. CASE \E d \in Daemons :
             Kill(d) \/ \E thread \in {"main", "signal"} : AtExit(d, thread)
  BY <1>3 DEF Kill, AtExit
<1> QED
  BY <1>1, <1>2, <1>3
     DEF Step, MainThread, SignalThread, ExitOf, ContextThread, Elsewhere

\* Lists that change for one process only.
LEMMA ListChanges ==
  ASSUME BaseInv, NEW d \in Daemons,
         \A e \in Daemons \ {d} : proc'[e] = proc[e],
         IsFiniteSet(proc'[d].contextsList),
         \A c \in Clients :
           \/ client'[c] = client[c]
           \/ client'[c].state \notin {"served", "leaving"}
           \/ client'[c].daemon \in Daemons,
         \A c \in proc'[d].contextsList :
           client'[c].state = "served" /\ client'[c].daemon = d,
         \A c \in Clients : client[c].state = "served" /\ client[c].daemon # d
                              => client'[c] = client[c]
  PROVE  ClientsOK'
<1>1. \A e \in Daemons : proc[e].contextsList \subseteq Clients
  BY DEF BaseInv, TypeOK, Processes
<1>2. ASSUME NEW e \in Daemons \ {d}
      PROVE  /\ IsFiniteSet(proc'[e].contextsList)
             /\ \A c \in proc'[e].contextsList :
                  client'[c].state = "served" /\ client'[c].daemon = e
  BY <1>1 DEF BaseInv, ClientsOK
<1>3. ASSUME NEW c \in Clients, client'[c].state \in {"served", "leaving"}
      PROVE  client'[c].daemon \in Daemons
  BY <1>3 DEF BaseInv, ClientsOK
<1> QED BY <1>2, <1>3 DEF ClientsOK

LEMMA ClientsStep ==
  ASSUME BaseInv, Step
  PROVE  ClientsOK'
<1>0. TypeOK /\ ClientsOK
  BY DEF BaseInv
<1>1. CASE \E d \in Daemons : Elsewhere(d)
  BY <1>0, <1>1, ListsStay DEF ClientsOK
<1>2. ASSUME NEW d \in Daemons, ContextsDeinitialize(d) PROVE ClientsOK'
  <2>1. /\ proc'[d].contextsList = {}
        /\ \A e \in Daemons \ {d} : proc'[e] = proc[e]
    BY <1>0, <1>2, LoopMoves DEF After, Only
  <2>2. \A c \in Clients :
          client'[c] = IF c \in proc[d].contextsList THEN NoClient
                                                     ELSE client[c]
    BY <1>2 DEF ContextsDeinitialize
  <2>3. \A c \in proc[d].contextsList : client[c].daemon = d
    BY <1>0 DEF ClientsOK
  <2>4. NoClient.state = "none"
    BY DEF NoClient
  <2> QED BY <2>1, <2>2, <2>3, <2>4, FS_EmptySet, ListChanges
<1>3. ASSUME NEW d \in Daemons, NEW c \in Clients, AcceptClient(d, c)
      PROVE  ClientsOK'
  <2>1. /\ proc'[d].contextsList = proc[d].contextsList \cup {c}
        /\ \A e \in Daemons \ {d} : proc'[e] = proc[e]
    BY <1>0, <1>3, LoopMoves DEF After, Only
  <2>2. /\ client'[c].state = "served" /\ client'[c].daemon = d
        /\ \A e \in Clients \ {c} : client'[e] = client[e]
    BY <1>0, <1>3 DEF AcceptClient, NoClient, TypeOK
  <2>3. client[c].state = "connecting"
    BY <1>3 DEF AcceptClient, Backlog
  <2>4. IsFiniteSet(proc[d].contextsList \cup {c})
    BY <1>0, FS_AddElement DEF ClientsOK
  <2>5. /\ proc[d].contextsList \subseteq Clients
        /\ \A e \in proc[d].contextsList :
             client[e].state = "served" /\ client[e].daemon = d
    BY <1>0 DEF TypeOK, Processes, ClientsOK
  <2>6. \A e \in proc'[d].contextsList :
          client'[e].state = "served" /\ client'[e].daemon = d
    BY <2>1, <2>2, <2>5
  <2> QED BY <2>1, <2>2, <2>3, <2>4, <2>6, ListChanges
<1>4. ASSUME NEW d \in Daemons, NEW c \in Clients, CloseClient(d, c)
      PROVE  ClientsOK'
  <2>1. \A e \in Daemons : proc'[e].contextsList = proc[e].contextsList
    BY <1>0, <1>4, LoopMoves DEF Moves, After, Only
  <2>2. /\ client'[c] = NoClient /\ client[c].state = "connecting"
        /\ \A e \in Clients \ {c} : client'[e] = client[e]
    BY <1>0, <1>4 DEF CloseClient, Backlog, TypeOK
  <2>3. \A e \in Daemons : proc[e].contextsList \subseteq Clients
    BY <1>0 DEF TypeOK, Processes
  <2> QED BY <1>0, <2>1, <2>2, <2>3 DEF ClientsOK, NoClient
<1>5. ASSUME NEW d \in Daemons, NEW m \in {"exited", "killed"},
             proc' = [proc EXCEPT ![d] = [NewProcess EXCEPT !.main = m]],
             CloseAll(d)
      PROVE  ClientsOK'
  <2>1. /\ proc'[d].contextsList = {}
        /\ \A e \in Daemons \ {d} : proc'[e] = proc[e]
    BY <1>0, <1>5, EndMoves DEF Only, Steps, Over
  <2>2. \A c \in Clients :
          client'[c] = IF client[c].daemon = d THEN NoClient ELSE client[c]
    BY <1>5 DEF CloseAll
  <2>4. NoClient.state = "none"
    BY DEF NoClient
  <2> QED BY <2>1, <2>2, <2>4, FS_EmptySet, ListChanges
<1>6. ASSUME NEW c \in Clients, Connect(c) PROVE ClientsOK'
  <2>1. /\ client'[c].state = "connecting" /\ client[c].state = "none"
        /\ \A e \in Clients \ {c} : client'[e] = client[e]
    BY <1>0, <1>6 DEF Connect, NoClient, TypeOK
  <2>2. \A e \in Daemons : proc[e].contextsList \subseteq Clients
    BY <1>0 DEF TypeOK, Processes
  <2> QED BY <1>0, <1>6, <2>1, <2>2 DEF ClientsOK, Connect
<1>7. ASSUME NEW c \in Clients, RemoveFromList(c) PROVE ClientsOK'
  <2>0. PICK d \in Daemons : d = client[c].daemon
    BY <1>7, ClientMoves
  <2>1. /\ proc'[d].contextsList = proc[d].contextsList \ {c}
        /\ \A e \in Daemons \ {d} : proc'[e] = proc[e]
    BY <1>7, <2>0, ClientMoves DEF After, Only
  <2>2. /\ client'[c].daemon = d
        /\ \A e \in Clients \ {c} : client'[e] = client[e]
    BY <1>0, <1>7, <2>0 DEF RemoveFromList, TypeOK, ClientStates
  <2>3. IsFiniteSet(proc[d].contextsList \ {c})
    BY <1>0, FS_Subset DEF ClientsOK
  <2>4. /\ proc[d].contextsList \subseteq Clients
        /\ \A e \in proc[d].contextsList :
             client[e].state = "served" /\ client[e].daemon = d
    BY <1>0 DEF TypeOK, Processes, ClientsOK
  <2>5. \A e \in proc'[d].contextsList :
          client'[e].state = "served" /\ client'[e].daemon = d
    BY <2>1, <2>2, <2>4
  <2> QED BY <2>0, <2>1, <2>2, <2>3, <2>5, ListChanges
<1>8. ASSUME NEW c \in Clients, StartAlarm(c) PROVE ClientsOK'
  <2>1. \A e \in Daemons : proc'[e].contextsList = proc[e].contextsList
    BY <1>8, ClientMoves DEF After, Only
  <2>2. /\ client'[c] = NoClient /\ client[c].state = "leaving"
        /\ \A e \in Clients \ {c} : client'[e] = client[e]
    BY <1>0, <1>8 DEF StartAlarm, TypeOK
  <2>3. \A e \in Daemons : proc[e].contextsList \subseteq Clients
    BY <1>0 DEF TypeOK, Processes
  <2> QED BY <1>0, <2>1, <2>2, <2>3 DEF ClientsOK, NoClient
<1> QED
  BY <1>0, <1>1, <1>2, <1>3, <1>4, <1>5, <1>6, <1>7, <1>8, StepKinds

LEMMA BaseInit ==
  ASSUME Init
  PROVE  BaseInv
<1>1. TypeOK
  BY NewProcessType, DaemonAssumption DEF Init, TypeOK, Pids
<1>2. /\ \A d \in Daemons : proc[d].contextsList = {}
      /\ \A c \in Clients : client[c].state = "none"
  BY DEF Init, NewProcess, NoClient
<1> QED BY <1>1, <1>2, FS_EmptySet DEF BaseInv, ClientsOK

\* Every variable has its type, and a context is in the list of the process
\* whose thread serves its client and of no other.
THEOREM BaseInvariance == Spec => []BaseInv
<1>1. Init => BaseInv
  BY BaseInit
<1>2. BaseInv /\ [Next]_vars => BaseInv'
  <2>1. ASSUME BaseInv, UNCHANGED vars PROVE BaseInv'
    BY <2>1 DEF BaseInv, TypeOK, ClientsOK, vars, state, options, files
  <2>2. ASSUME BaseInv, Next PROVE BaseInv'
    BY <2>2, TypeStep, ClientsStep DEF Next, BaseInv
  <2> QED BY <2>1, <2>2
<1> QED BY <1>1, <1>2, PTL DEF Spec

-----------------------------------------------------------------------------
\* The exit alarm

\* The thread of a client of d is about to start the alarm.
Starts(d) == \E c \in Clients : /\ client[c].state = "leaving"
                                /\ client[c].daemon = d
                                /\ StartsAlarm(client[c].listSize)

Armed(d) == proc[d].alarm \/ ToldToExit(proc[d]) \/ Starts(d)

Idle(d) ==
  /\ proc[d].main = "disarm" => proc[d].contextsList # {}
  /\ AutoExit /\ Serving(d) /\ proc[d].contextsList = {} => Armed(d)

IdleInv == \A d \in Daemons : Idle(d)

\* The pipe of d after another signal, and without its first one.
LEMMA ToldStays ==
  ASSUME NEW p, NEW q, NEW signal \in Signals, p.pipe \in Seq(Signals),
         ToldToExit(p),
         p.MustExit => q.MustExit,
         \/ q.pipe = p.pipe
         \/ q.pipe = Append(p.pipe, signal)
         \/ /\ p.pipe # <<>> /\ Head(p.pipe) = "SIGUSR1"
            /\ q.pipe = Tail(p.pipe)
  PROVE  ToldToExit(q)
<1>1. CASE p.MustExit
  BY <1>1 DEF ToldToExit
<1>2. CASE \E i \in DOMAIN p.pipe : p.pipe[i] # "SIGUSR1"
  <2>1. PICK i \in DOMAIN p.pipe : p.pipe[i] # "SIGUSR1"
    BY <1>2
  <2>2. i \in 1 .. Len(p.pipe)
    OBVIOUS
  <2>3. CASE q.pipe = p.pipe
    BY <2>1, <2>3 DEF ToldToExit
  <2>4. CASE q.pipe = Append(p.pipe, signal)
    <3>1. i \in DOMAIN q.pipe /\ q.pipe[i] = p.pipe[i]
      BY <2>2, <2>4
    <3> QED BY <2>1, <3>1 DEF ToldToExit
  <2>5. CASE /\ p.pipe # <<>> /\ Head(p.pipe) = "SIGUSR1"
             /\ q.pipe = Tail(p.pipe)
    <3>1. i # 1
      BY <2>1, <2>5
    <3>2. i - 1 \in DOMAIN q.pipe /\ q.pipe[i - 1] = p.pipe[i]
      BY <2>2, <2>5, <3>1
    <3> QED BY <2>1, <3>2 DEF ToldToExit
  <2> QED BY <2>3, <2>4, <2>5
<1> QED BY <1>1, <1>2 DEF ToldToExit

\* An action of a thread of d that has nothing to do with clients.
LEMMA IdleElsewhere ==
  ASSUME BaseInv, NEW d \in Daemons, Idle(d), Elsewhere(d), UNCHANGED AutoExit
  PROVE  Idle(d)'
<1> USE DEF Steps, Over, Checking, Starting, Looping, Leaving
<1>0. /\ TypeOK /\ AutoExit \in BOOLEAN
      /\ proc[d] \in Processes /\ proc[d].pipe \in Seq(Signals)
  BY DEF BaseInv, TypeOK, Processes
<1>a. /\ UNCHANGED client
      /\ proc'[d].contextsList = proc[d].contextsList
  BY <1>0, ListsStay
<1>b. Starts(d)' = Starts(d)
  BY <1>a DEF Starts, StartsAlarm
<1>1. ASSUME proc'[d].main \notin Looping PROVE Idle(d)'
  BY <1>1 DEF Idle, Serving
<1>2. ASSUME proc[d].main \in Looping, proc'[d].main \in Looping \ {"disarm"},
             proc'[d].signal = proc[d].signal, proc'[d].alarm = proc[d].alarm,
             proc'[d].pipe = proc[d].pipe,
             proc'[d].MustExit = proc[d].MustExit
      PROVE  Idle(d)'
  <2>1. Serving(d)' => Serving(d)
    BY <1>2 DEF Serving, Ending
  <2>2. ToldToExit(proc[d]) => ToldToExit(proc'[d])
    BY <1>2 DEF ToldToExit
  <2> HIDE DEF Looping
  <2>3. Armed(d) => Armed(d)'
    BY <1>2, <1>b, <2>2 DEF Armed
  <2> QED BY <1>2, <1>a, <2>1, <2>3 DEF Idle
<1>3. CASE \/ Start(d) \/ CheckPid(d) \/ CleanSocket(d) \/ CleanPid(d)
           \/ StartSerialReaders(d) \/ InitializeSocket(d)
           \/ StartHotplug(d) \/ StopHotplug(d) \/ CleanupReaders(d)
  <2>1. PICK step \in Steps \ Looping : Main(d, step)
    BY <1>3 DEF Start, CheckPid, CleanSocket, CleanPid, StartSerialReaders,
                InitializeSocket, StartHotplug, StopHotplug, CleanupReaders
  <2>2. proc'[d].main = step
    BY <1>0, <2>1, MainMoves DEF Moves, After
  <2> QED BY <1>1, <2>2
<1>4. CASE ReadPid(d) \/ WritePid(d)
  <2>1. proc'[d].main \notin Looping
    BY <1>0, <1>4, ReadPidMoves, WritePidMoves DEF Moves, After
  <2> QED BY <1>1, <2>1
<1>5. CASE Ready(d)
  <2>1. proc'[d].main = "loop" /\ proc'[d].alarm = AutoExit
    BY <1>0, <1>5, LoopMoves DEF After
  <2> QED BY <2>1 DEF Idle, Armed
<1>6. CASE RunLoop(d) \/ TryAgain(d)
  <2>1. PICK step \in {"stop", "call", "loop"} : Main(d, step)
    BY <1>6 DEF RunLoop, TryAgain
  <2>2. proc[d].main \in Looping
    BY <1>6 DEF RunLoop, TryAgain
  <2>3. Moves(d, step)
    BY <1>0, <2>1, MainMoves
  <2> QED BY <1>1, <1>2, <2>2, <2>3 DEF Moves, After
<1>7. CASE Select(d)
  <2>1. proc[d].main \in Looping /\ Moves(d, "select")
    BY <1>0, <1>7, LoopMoves DEF Select
  <2> QED BY <1>2, <2>1 DEF Moves, After
<1>8. CASE DisableAlarm(d)
  <2>1. proc[d].main = "disarm" /\ proc'[d].main = "loop"
    BY <1>0, <1>8, LoopMoves DEF DisableAlarm, After
  <2> QED BY <1>a, <2>1 DEF Idle
<1>9. CASE \E thread \in {"main", "signal"} : AtExitSocket(d, thread)
                                                \/ AtExitPid(d, thread)
  <2>1. /\ proc'[d].main \in Leaving \cup {proc[d].main}
        /\ proc'[d].main \notin Leaving => proc'[d].signal # "read"
    BY <1>0, <1>9, AtExitMoves DEF AtExitSocket, AtExitPid
  <2>2. ~Serving(d)'
    BY <2>1 DEF Serving, Ending
  <2> QED BY <1>a, <2>1, <2>2 DEF Idle
<1>10. CASE HandleSignal(d)
  <2>1. /\ proc[d].pipe # <<>> /\ Handled(d, proc'[d])
        /\ proc[d].signal = "read"
    BY <1>0, <1>10, HandleMoves DEF HandleSignal
  <2>2. /\ proc'[d].main = proc[d].main /\ proc'[d].alarm = proc[d].alarm
        /\ \/ proc'[d].MustExit \/ proc'[d].signal = "remove"
           \/ /\ proc'[d].pipe = Tail(proc[d].pipe)
              /\ Head(proc[d].pipe) = "SIGUSR1"
              /\ proc'[d].MustExit = proc[d].MustExit
    BY <1>0, <2>1, HandledFields
  <2>3. CASE proc'[d].MustExit
    BY <1>a, <2>2, <2>3 DEF Idle, Armed, ToldToExit
  <2>4. CASE proc'[d].signal = "remove"
    BY <1>a, <2>2, <2>4 DEF Idle, Serving, Ending
  <2>5. CASE /\ proc'[d].pipe = Tail(proc[d].pipe)
             /\ Head(proc[d].pipe) = "SIGUSR1"
             /\ proc'[d].MustExit = proc[d].MustExit
    <3>1. ToldToExit(proc[d]) => ToldToExit(proc'[d])
      <4> HIDE DEF Steps, Over, Checking, Starting, Looping, Leaving
      <4>1. PICK p, q : p = proc[d] /\ q = proc'[d]
        OBVIOUS
      <4>2. "SIGINT" \in Signals
        BY DEF Signals
      <4> QED BY <1>0, <2>1, <2>5, <4>1, <4>2, ToldStays
    <3>2. Serving(d)' => Serving(d)
      BY <2>1, <2>2 DEF Serving, Ending
    <3> QED BY <1>a, <1>b, <2>2, <3>1, <3>2 DEF Idle, Armed
  <2> QED BY <2>2, <2>3, <2>4, <2>5
<1>11. CASE RecyclePid(d)
  BY <1>11, <1>a, <1>b DEF RecyclePid, Idle, Armed, Serving, Ending
<1>12. ASSUME NEW signal \in Signals, Deliver(d, signal) PROVE Idle(d)'
  <2>1. /\ proc'[d].main = Interrupted(d)
        /\ proc'[d].signal = proc[d].signal
        /\ proc'[d].pipe = Append(proc[d].pipe, signal)
        /\ proc'[d].MustExit = proc[d].MustExit
        /\ signal # "SIGALRM" => proc'[d].alarm = proc[d].alarm
    BY <1>0, <1>12, DeliverMoves
  <2>2. ToldToExit(proc[d]) => ToldToExit(proc'[d])
    <3> HIDE DEF Steps, Over, Checking, Starting, Looping, Leaving
    <3>1. PICK p, q : p = proc[d] /\ q = proc'[d]
      OBVIOUS
    <3> QED BY <1>0, <2>1, <3>1, ToldStays
  <2>3. signal = "SIGALRM" => ToldToExit(proc'[d])
    <3>1. /\ Len(proc[d].pipe) + 1 \in DOMAIN Append(proc[d].pipe, signal)
          /\ Append(proc[d].pipe, signal)[Len(proc[d].pipe) + 1] = signal
      BY <1>0
    <3> QED BY <2>1, <3>1 DEF ToldToExit
  <2>4. /\ Serving(d)' => Serving(d)
        /\ proc'[d].main = "disarm" => proc[d].main = "disarm"
    BY <2>1 DEF Serving, Ending, Interrupted
  <2> QED BY <1>a, <1>b, <2>1, <2>2, <2>3, <2>4 DEF Idle, Armed
<1> QED
  BY <1>3, <1>4, <1>5, <1>6, <1>7, <1>8, <1>9, <1>10, <1>11, <1>12
     DEF Elsewhere

LEMMA OnlyElsewhere ==
  ASSUME TypeOK, NEW d \in Daemons, Elsewhere(d)
  PROVE  \A e \in Daemons \ {d} : proc'[e] = proc[e]
<1>1. ASSUME NEW step, Main(d, step)
      PROVE  \A e \in Daemons \ {d} : proc'[e] = proc[e]
  BY <1>1 DEF Main, TypeOK
<1>2. CASE ReadPid(d) \/ WritePid(d)
  BY <1>2, ReadPidMoves, WritePidMoves DEF Moves, After, Only
<1>3. CASE Ready(d) \/ Select(d) \/ DisableAlarm(d)
  BY <1>3, LoopMoves DEF Moves, After, Only
<1>4. CASE \E thread \in {"main", "signal"} : AtExitSocket(d, thread)
                                                \/ AtExitPid(d, thread)
  BY <1>4, AtExitMoves DEF AtExitSocket, AtExitPid, Only
<1>5. CASE HandleSignal(d)
  BY <1>5, HandleMoves DEF Only
<1>6. CASE \E signal \in Signals : Deliver(d, signal)
  BY <1>6, DeliverMoves DEF Only
<1>7. CASE RecyclePid(d)
  BY <1>7 DEF RecyclePid
<1> QED
  BY <1>1, <1>2, <1>3, <1>4, <1>5, <1>6, <1>7
     DEF Elsewhere, Start, CheckPid, CleanSocket, CleanPid,
         StartSerialReaders, InitializeSocket, StartHotplug, RunLoop,
         TryAgain, StopHotplug, CleanupReaders

\* A step that leaves a process and the threads of its clients alone.
LEMMA IdleOther ==
  ASSUME NEW e \in Daemons, Idle(e), proc'[e] = proc[e], UNCHANGED AutoExit,
         \A c \in Clients : client[c].state = "leaving" /\ client[c].daemon = e
                              => client'[c] = client[c]
  PROVE  Idle(e)'
<1>1. Serving(e)' => Serving(e)
  BY DEF Serving, Ending
<1>2. ToldToExit(proc[e]) => ToldToExit(proc'[e])
  OBVIOUS
<1>3. Starts(e) => Starts(e)'
  BY DEF Starts, StartsAlarm
<1> QED BY <1>1, <1>2, <1>3 DEF Idle, Armed

\* A thread whose list is empty starts the alarm.
LEMMA IdleLeaving ==
  ASSUME BaseInv, NEW c \in Clients, RemoveFromList(c) \/ StartAlarm(c),
         UNCHANGED AutoExit, IdleInv, NEW d \in Daemons, d = client[c].daemon
  PROVE  Idle(d)'
<1>1. d = client[c].daemon
  OBVIOUS
<1>2. TypeOK /\ Idle(d) /\ proc[d] \in Processes
  BY DEF BaseInv, IdleInv, TypeOK
<1>3. CASE RemoveFromList(c)
  <2>1. After(d, proc[d].main, proc[d].alarm, proc[d].contextsList \ {c},
              proc[d].pid)
    BY <1>1, <1>3, ClientMoves
  <2>2. proc[d].main # "disarm"
    BY <1>1, <1>3 DEF RemoveFromList
  <2>3. ASSUME AutoExit, proc'[d].contextsList = {} PROVE Starts(d)'
    <3>1. /\ client'[c].state = "leaving" /\ client'[c].daemon = d
          /\ client'[c].listSize = Cardinality(proc[d].contextsList \ {c})
      BY <1>1, <1>2, <1>3 DEF RemoveFromList, TypeOK, ClientStates
    <3>2. Cardinality(proc[d].contextsList \ {c}) = 0
      BY <2>1, <2>3, FS_EmptySet DEF After
    <3> QED BY <2>3, <3>1, <3>2 DEF Starts, StartsAlarm
  <2> QED BY <1>1, <2>1, <2>2, <2>3 DEF Idle, Armed, After
<1>4. CASE StartAlarm(c)
  <2>1. After(d, proc[d].main,
              proc[d].alarm \/ StartsAlarm(client[c].listSize),
              proc[d].contextsList, proc[d].pid)
    BY <1>1, <1>4, ClientMoves
  <2>2. \A b \in Clients \ {c} : client'[b] = client[b]
    BY <1>2, <1>4 DEF StartAlarm, TypeOK
  <2>3. Serving(d)' => Serving(d)
    BY <2>1 DEF After, Serving, Ending
  <2>4. ToldToExit(proc[d]) => ToldToExit(proc'[d])
    BY <2>1 DEF After, ToldToExit
  <2>5. ASSUME Starts(d) PROVE Starts(d)' \/ StartsAlarm(client[c].listSize)
    <3>1. PICK b \in Clients : /\ client[b].state = "leaving"
                               /\ client[b].daemon = d
                               /\ StartsAlarm(client[b].listSize)
      BY <2>5 DEF Starts
    <3>2. CASE b = c
      BY <3>1, <3>2
    <3>3. CASE b # c
      BY <2>2, <3>1, <3>3 DEF Starts, StartsAlarm
    <3> QED BY <3>2, <3>3
  <2>6. Armed(d) => Armed(d)'
    BY <2>1, <2>4, <2>5 DEF Armed, After
  <2> QED BY <1>1, <1>2, <2>1, <2>3, <2>6 DEF Idle, After
<1> QED BY <1>3, <1>4

LEMMA IdleStep ==
  ASSUME BaseInv, IdleInv, Step, UNCHANGED AutoExit
  PROVE  IdleInv'
<1>0. TypeOK /\ \A d \in Daemons : Idle(d)
  BY DEF BaseInv, IdleInv
<1>1. ASSUME NEW d \in Daemons, Elsewhere(d) PROVE IdleInv'
  <2>1. /\ Idle(d)' /\ UNCHANGED client
        /\ \A e \in Daemons \ {d} : proc'[e] = proc[e]
    BY <1>0, <1>1, IdleElsewhere, ListsStay, OnlyElsewhere
  <2>2. \A e \in Daemons \ {d} : Idle(e)'
    BY <1>0, <2>1, IdleOther
  <2> QED BY <2>1, <2>2 DEF IdleInv
<1>2. ASSUME NEW d \in Daemons, ContextsDeinitialize(d) PROVE IdleInv'
  <2>1. /\ proc'[d].main = "cleanup"
        /\ \A e \in Daemons \ {d} : proc'[e] = proc[e]
    BY <1>0, <1>2, LoopMoves DEF After, Only
  <2>2. Idle(d)'
    BY <2>1 DEF Idle, Serving, Looping
  <2>3. \A c \in Clients : client[c].state = "leaving" => client'[c] = client[c]
    BY <1>2 DEF ContextsDeinitialize, BaseInv, ClientsOK
  <2>4. \A e \in Daemons \ {d} : Idle(e)'
    BY <1>0, <2>1, <2>3, IdleOther
  <2> QED BY <2>2, <2>4 DEF IdleInv
<1>3. ASSUME NEW d \in Daemons, NEW c \in Clients,
             AcceptClient(d, c) \/ CloseClient(d, c)
      PROVE  IdleInv'
  <2>1. /\ proc[d].main = "select"
        /\ client[c].state = "connecting"
        /\ \A b \in Clients \ {c} : client'[b] = client[b]
    BY <1>0, <1>3 DEF AcceptClient, CloseClient, Backlog, TypeOK
  <2>2. \A e \in Daemons \ {d} : proc'[e] = proc[e]
    BY <1>0, <1>3, LoopMoves DEF Moves, After, Only
  <2>3. \A e \in Daemons \ {d} : Idle(e)'
    BY <1>0, <2>1, <2>2, IdleOther
  <2>4. CASE AcceptClient(d, c)
    <3>1. c \in proc'[d].contextsList
      BY <1>0, <2>4, LoopMoves DEF After
    <3> QED BY <2>3, <3>1 DEF IdleInv, Idle
  <2>5. CASE CloseClient(d, c)
    <3>1. Moves(d, "loop")
      BY <1>0, <2>5, LoopMoves
    <3>2. Serving(d)' => Serving(d)
      BY <2>1, <3>1 DEF Moves, After, Serving, Ending, Looping
    <3>3. ToldToExit(proc[d]) => ToldToExit(proc'[d])
      BY <3>1 DEF Moves, After, ToldToExit
    <3>4. Starts(d) => Starts(d)'
      BY <2>1 DEF Starts, StartsAlarm
    <3>5. Idle(d)'
      BY <1>0, <3>1, <3>2, <3>3, <3>4 DEF Idle, Armed, Moves, After
    <3> QED BY <2>3, <3>5 DEF IdleInv
  <2> QED BY <1>3, <2>4, <2>5
<1>4. ASSUME NEW d \in Daemons, NEW m \in {"exited", "killed"},
             proc' = [proc EXCEPT ![d] = [NewProcess EXCEPT !.main = m]],
             CloseAll(d)
      PROVE  IdleInv'
  <2>1. /\ proc'[d].main = m
        /\ \A e \in Daemons \ {d} : proc'[e] = proc[e]
    BY <1>0, <1>4, EndMoves DEF Only, Steps, Over
  <2>2. \A c \in Clients : client[c].daemon # d => client'[c] = client[c]
    BY <1>4 DEF CloseAll
  <2>3. Idle(d)'
    BY <2>1 DEF Idle, Serving, Looping
  <2>4. \A e \in Daemons \ {d} : Idle(e)'
    BY <1>0, <2>1, <2>2, IdleOther
  <2> QED BY <2>3, <2>4 DEF IdleInv
<1>5. ASSUME NEW c \in Clients, Connect(c) PROVE IdleInv'
  <2>1. /\ UNCHANGED proc /\ client[c].state = "none"
        /\ \A b \in Clients \ {c} : client'[b] = client[b]
    BY <1>0, <1>5 DEF Connect, TypeOK
  <2>2. \A e \in Daemons : Idle(e)'
    BY <1>0, <2>1, IdleOther
  <2> QED BY <2>2 DEF IdleInv
<1>6. ASSUME NEW c \in Clients, RemoveFromList(c) \/ StartAlarm(c)
      PROVE  IdleInv'
  <2>0. PICK d \in Daemons : d = client[c].daemon
    BY <1>6, ClientMoves
  <2>1. \A e \in Daemons \ {d} : proc'[e] = proc[e]
    BY <1>6, <2>0, ClientMoves DEF After, Only
  <2>2. \A b \in Clients \ {c} : client'[b] = client[b]
    BY <1>0, <1>6 DEF RemoveFromList, StartAlarm, TypeOK
  <2>3. \A e \in Daemons \ {d} : Idle(e)'
    BY <1>0, <2>0, <2>1, <2>2, IdleOther
  <2>4. Idle(d)'
    BY <1>6, <2>0, IdleLeaving
  <2> QED BY <2>0, <2>3, <2>4 DEF IdleInv
<1> QED BY <1>0, <1>1, <1>2, <1>3, <1>4, <1>5, <1>6, StepKinds


\* IdleAlarm holds at every step: pcscd --auto-exit that has no client has its
\* exit alarm running, or it has gone off, or the thread of the last client is
\* about to start it, for any number of clients that come, are turned away and
\* leave in any order.
THEOREM IdleAlarmRuns == Spec => []IdleAlarm
<1>1. Init => IdleInv
  BY DEF Init, IdleInv, Idle, NewProcess, Serving, Looping
<1>2. BaseInv /\ IdleInv /\ [Next]_vars => IdleInv'
  <2>1. ASSUME IdleInv, UNCHANGED vars PROVE IdleInv'
    BY <2>1 DEF IdleInv, Idle, Armed, Starts, StartsAlarm, Serving, Ending,
                vars, state, options
  <2>2. ASSUME BaseInv, IdleInv, Next PROVE IdleInv'
    <3>1. UNCHANGED AutoExit
      BY <2>2, OptionsStay DEF Next, BaseInv
    <3> QED BY <2>2, <3>1, IdleStep DEF Next
  <2> QED BY <2>1, <2>2
<1>3. IdleInv => IdleAlarm
  BY DEF IdleInv, Idle, Armed, Starts, IdleAlarm
<1> QED BY <1>1, <1>2, <1>3, BaseInvariance, PTL DEF Spec


-----------------------------------------------------------------------------
\* Processes that have not yet got past the check

NotYet == Checking \cup {"none"}

\* Nothing leads to a process that has not finished looking for another one.
Fresh(d) ==
  proc[d].main \in NotYet =>
    /\ pidFile # d /\ socketFile # d
    /\ proc[d].signal = "read" /\ proc[d].pipe = <<>> /\ ~proc[d].alarm
    /\ \A c \in Clients : client[c].daemon # d

FreshInv == \A d \in Daemons : Fresh(d)

\* What a step of d does to the files and the clients.
Leads(d) ==
  /\ pidFile' \in {pidFile, "none", "empty", d}
  /\ socketFile' \in {socketFile, "none", d}
  /\ \A c \in Clients :
       client'[c].daemon \in {client[c].daemon, socketFile, "none", d}

LEMMA FreshKeeps ==
  ASSUME FreshInv, NEW d \in Daemons,
         \A e \in Daemons \ {d} : proc'[e] = proc[e],
         Leads(d), proc'[d].main \notin NotYet
  PROVE  FreshInv'
<1>1. ASSUME NEW e \in Daemons \ {d} PROVE Fresh(e)'
  <2>1. e # "none" /\ e # "empty" /\ e # d /\ Fresh(e)
    BY DaemonAssumption DEF FreshInv
  <2> QED BY <2>1 DEF Fresh, Leads
<1>2. Fresh(d)'
  BY DEF Fresh
<1> QED BY <1>1, <1>2 DEF FreshInv

LEMMA FreshChecks ==
  ASSUME FreshInv, NEW d \in Daemons, proc[d].main \in NotYet,
         \A e \in Daemons \ {d} : proc'[e] = proc[e],
         proc'[d].signal = proc[d].signal, proc'[d].pipe = proc[d].pipe,
         proc'[d].alarm = proc[d].alarm,
         UNCHANGED client, pidFile' \in {pidFile, "none"},
         socketFile' \in {socketFile, "none"}
  PROVE  FreshInv'
<1>1. ASSUME NEW e \in Daemons PROVE Fresh(e)'
  <2>1. e # "none" /\ Fresh(e) /\ Fresh(d)
    BY DaemonAssumption DEF FreshInv
  <2> QED BY <2>1 DEF Fresh
<1> QED BY <1>1 DEF FreshInv

\* A process at one of the later steps, or to which something leads.
LEMMA NotFresh ==
  ASSUME TypeOK, FreshInv, NEW d \in Daemons,
         \/ Alive(d) /\ proc[d].main \notin Checking
         \/ pidFile = d \/ proc[d].alarm
         \/ proc[d].pipe # <<>> \/ proc[d].signal # "read"
         \/ \E c \in Clients : client[c].daemon = d
  PROVE  proc[d].main \notin NotYet
BY DEF FreshInv, Fresh, NotYet, Alive, Over

LEMMA FreshStep ==
  ASSUME BaseInv, FreshInv, Step
  PROVE  FreshInv'
<1>0. TypeOK
  BY DEF BaseInv
<1> DEFINE Others(d) == \A e \in Daemons \ {d} : proc'[e] = proc[e]
<1>1. ASSUME NEW d \in Daemons, Elsewhere(d) PROVE FreshInv'
  <2>0. UNCHANGED client /\ Others(d)
    BY <1>0, <1>1, ListsStay, OnlyElsewhere
  <2>1. ASSUME Leads(d), proc'[d].main \notin NotYet PROVE FreshInv'
    BY <2>0, <2>1, FreshKeeps
  <2>2. ASSUME NEW step \in Steps, Main(d, step), proc[d].main \in NotYet,
               pidFile' \in {pidFile, "none"},
               socketFile' \in {socketFile, "none"}
        PROVE  FreshInv'
    BY <1>0, <2>0, <2>2, MainMoves, FreshChecks DEF Moves, After
  <2>3. CASE Start(d) \/ CheckPid(d) \/ CleanSocket(d) \/ CleanPid(d)
    <3>1. PICK step \in Steps : Main(d, step)
      BY <2>3 DEF Start, CheckPid, CleanSocket, CleanPid, Steps, Over,
                  Checking, Starting
    <3>2. /\ proc[d].main \in NotYet
          /\ pidFile' \in {pidFile, "none"}
          /\ socketFile' \in {socketFile, "none"}
      BY <2>3 DEF Start, MayStart, CheckPid, CleanSocket, CleanPid, NotYet,
                  Checking, files, RemoveSocket
    <3> QED BY <2>2, <3>1, <3>2
  <2>4. CASE ReadPid(d)
    <3>1. proc[d].main \in NotYet /\ UNCHANGED files
      BY <2>4 DEF ReadPid, NotYet, Checking
    <3>2. /\ proc'[d].signal = proc[d].signal /\ proc'[d].pipe = proc[d].pipe
          /\ proc'[d].alarm = proc[d].alarm
      BY <1>0, <2>4, ReadPidMoves DEF Moves, After
    <3> QED BY <2>0, <3>1, <3>2, FreshChecks DEF files
  <2>5. CASE WritePid(d)
    <3>1. proc'[d].main = "socket"
      BY <1>0, <2>5, WritePidMoves DEF Moves, After
    <3>2. Leads(d)
      BY <2>0, <2>5 DEF Leads, WritePid
    <3> QED BY <2>1, <3>1, <3>2 DEF NotYet, Checking
  <2>6. CASE \/ StartSerialReaders(d) \/ InitializeSocket(d)
             \/ StartHotplug(d) \/ RunLoop(d) \/ TryAgain(d)
             \/ StopHotplug(d) \/ CleanupReaders(d)
    <3>1. PICK step \in Steps \ NotYet : Main(d, step)
      BY <2>6 DEF StartSerialReaders, InitializeSocket, StartHotplug,
                  RunLoop, TryAgain, StopHotplug, CleanupReaders, Steps,
                  NotYet, Checking, Starting, Looping, Leaving
    <3>2. proc'[d].main \notin NotYet
      BY <1>0, <3>1, MainMoves DEF Moves, After
    <3>3. Leads(d)
      BY <2>0, <2>6 DEF Leads, StartSerialReaders, InitializeSocket,
            StartHotplug, RunLoop, TryAgain, StopHotplug, CleanupReaders,
            files, BindSocket
    <3> QED BY <2>1, <3>2, <3>3
  <2>7. CASE Ready(d) \/ Select(d) \/ DisableAlarm(d)
    <3>1. proc'[d].main \in {"loop", "select"}
      BY <1>0, <2>7, LoopMoves DEF Moves, After
    <3>2. Leads(d)
      BY <2>0, <2>7 DEF Leads, Ready, Select, DisableAlarm, files
    <3> QED BY <2>1, <3>1, <3>2 DEF NotYet, Checking
  <2>8. CASE \E thread \in {"main", "signal"} : AtExitSocket(d, thread)
                                                  \/ AtExitPid(d, thread)
    <3>1. PICK thread \in {"main", "signal"}, step \in {"remove", "removePid"},
               next \in {"removePid", "exit"} :
            AtExitStep(d, thread, step, next)
      BY <2>8 DEF AtExitSocket, AtExitPid
    <3>2. proc[d].main \notin NotYet
      BY <1>0, <3>1, NotFresh DEF AtExitStep, NotYet, Checking
    <3>3. proc'[d].main \notin NotYet
      BY <1>0, <3>1, <3>2, AtExitMoves DEF NotYet, Checking
    <3>4. Leads(d)
      BY <2>0, <2>8 DEF Leads, AtExitSocket, AtExitPid, RemoveSocket
    <3> QED BY <2>1, <3>3, <3>4
  <2>9. CASE HandleSignal(d)
    <3>1. proc[d].pipe # <<>> /\ Handled(d, proc'[d])
      BY <1>0, <2>9, HandleMoves
    <3>2. proc[d].main \notin NotYet /\ proc'[d].main = proc[d].main
      BY <1>0, <3>1, NotFresh, HandledFields
    <3>3. Leads(d)
      BY <2>0, <2>9 DEF Leads, HandleSignal, files
    <3> QED BY <2>1, <3>2, <3>3
  <2>10. CASE RecyclePid(d)
    BY <2>0, <2>10 DEF RecyclePid, FreshInv, Fresh, files
  <2>11. ASSUME NEW signal \in Signals, Deliver(d, signal), UNCHANGED files,
                \/ proc[d].alarm \/ pidFile = d
                \/ Alive(d) /\ proc[d].main \notin Checking
         PROVE  FreshInv'
    <3>1. proc[d].main \notin NotYet
      BY <1>0, <2>11, NotFresh
    <3>2. proc'[d].main \notin NotYet
      BY <1>0, <2>11, <3>1, DeliverMoves DEF Interrupted, NotYet, Checking
    <3>3. Leads(d)
      BY <2>0, <2>11 DEF Leads, files
    <3> QED BY <2>1, <3>2, <3>3
  <2> QED
    BY <1>1, <2>3, <2>4, <2>5, <2>6, <2>7, <2>8, <2>9, <2>10, <2>11
       DEF Elsewhere
<1>2. ASSUME NEW d \in Daemons, ContextsDeinitialize(d) PROVE FreshInv'
  <2>1. Others(d) /\ proc'[d].main = "cleanup"
    BY <1>0, <1>2, LoopMoves DEF After, Only
  <2>2. Leads(d)
    BY <1>2 DEF Leads, ContextsDeinitialize, files, NoClient
  <2> QED BY <2>1, <2>2, FreshKeeps DEF NotYet, Checking
<1>3. ASSUME NEW d \in Daemons, NEW c \in Clients,
             AcceptClient(d, c) \/ CloseClient(d, c)
      PROVE  FreshInv'
  <2>1. Others(d) /\ proc'[d].main \in {"disarm", "loop"}
    BY <1>0, <1>3, LoopMoves DEF Moves, After, Only
  <2>2. PICK n : client' = [client EXCEPT ![c] = n] /\ n.daemon \in {d, "none"}
    <3> DEFINE n1 == [NoClient EXCEPT !.state = "served", !.daemon = d]
    <3>1. n1.daemon = d /\ NoClient.daemon = "none"
      BY DEF NoClient
    <3> HIDE DEF n1
    <3> QED BY <1>3, <3>1 DEF AcceptClient, CloseClient, n1
  <2>3. \A b \in Clients : client'[b] = client[b] \/ client'[b] = n
    BY <1>0, <2>2 DEF TypeOK
  <2>4. UNCHANGED files
    BY <1>3 DEF AcceptClient, CloseClient
  <2>5. Leads(d)
    BY <2>2, <2>3, <2>4 DEF Leads, files
  <2> QED BY <2>1, <2>5, FreshKeeps DEF NotYet, Checking
<1>4. ASSUME NEW d \in Daemons, NEW m \in {"exited", "killed"},
             proc' = [proc EXCEPT ![d] = [NewProcess EXCEPT !.main = m]],
             CloseAll(d), UNCHANGED files
      PROVE  FreshInv'
  <2>1. Others(d) /\ proc'[d].main = m
    BY <1>0, <1>4, EndMoves DEF Only, Steps, Over
  <2>2. Leads(d)
    BY <1>4 DEF Leads, CloseAll, files, NoClient
  <2> QED BY <2>1, <2>2, FreshKeeps DEF NotYet, Checking
<1>5. ASSUME NEW c \in Clients, Connect(c) PROVE FreshInv'
  <2>1. \A b \in Clients : client'[b].daemon \in {client[b].daemon, socketFile}
    BY <1>0, <1>5 DEF Connect, NoClient, TypeOK
  <2> QED BY <1>5, <2>1 DEF Connect, FreshInv, Fresh, files
<1>6. ASSUME NEW c \in Clients, RemoveFromList(c) \/ StartAlarm(c)
      PROVE  FreshInv'
  <2>0. PICK d \in Daemons : d = client[c].daemon
    BY <1>6, ClientMoves
  <2>1. Others(d) /\ proc'[d].main = proc[d].main
    BY <1>6, <2>0, ClientMoves DEF After, Only
  <2>2. proc[d].main \notin NotYet
    BY <1>0, <2>0, NotFresh
  <2>3. Leads(d)
    BY <1>0, <1>6 DEF Leads, RemoveFromList, StartAlarm, files, NoClient,
                      TypeOK, ClientStates
  <2> QED BY <2>1, <2>2, <2>3, FreshKeeps
<1> QED BY <1>0, <1>1, <1>2, <1>3, <1>4, <1>5, <1>6, StepKinds


-----------------------------------------------------------------------------
\* The files and the processes they lead to

\* A process that has found no other pcscd.
Past(d) == Alive(d) /\ proc[d].main \notin Checking

\* The processes whose files must be there.
NeedsPid(d) == /\ Past(d) /\ ~Ending(d)
               /\ proc[d].main \notin {"init", "pid"}

NeedsSocket(d) == NeedsPid(d) /\ proc[d].main # "socket"

\* What a process that looks for another one knows of e, which is serving.
Finds(d, e) ==
  /\ proc[d].main = "checkPid" => proc[d].pid = e
  /\ proc[d].main \notin {"cleanSocket", "cleanPid"}

NoEmpty ==
  /\ pidFile # "empty"
  /\ \A d \in Daemons : proc[d].main = "checkPid" => proc[d].pid # "empty"

OnePast ==
  \A d, e \in Daemons : d # e => /\ ~(Past(d) /\ Past(e))
                                 /\ Serving(e) => Finds(d, e)

FilesThere ==
  \A d \in Daemons : /\ NeedsPid(d) => pidFile = d
                     /\ NeedsSocket(d) => socketFile \in {d, "systemd"}

FilesOK == NoEmpty /\ OnePast /\ FilesThere /\ ~Overlapping

\* The socket is the one of systemd when there is one.
SocketOK == SocketActivated <=> socketFile = "systemd"

LEMMA PastKinds ==
  ASSUME TypeOK, NEW d \in Daemons
  PROVE  /\ Past(d) => proc[d].main \in Starting \/ Serving(d) \/ Ending(d)
         /\ Serving(d) => NeedsSocket(d)
         /\ NeedsPid(d) => proc[d].main \in Starting \/ Serving(d)
         /\ proc[d].main \in Starting => Past(d)
         /\ Past(d) => proc[d].main \notin NotYet
<1>1. proc[d].main \in Steps
  BY DEF TypeOK, Processes
<1> QED
  BY <1>1 DEF Steps, Over, Checking, Starting, Looping, Leaving, Past, Alive,
              Serving, Ending, NeedsPid, NeedsSocket, NotYet

\* Only one process looks for another one or is being started.
LEMMA Apart ==
  ASSUME FilesOK, NEW d \in Daemons, NEW e \in Daemons, d # e,
         proc[d].main \in Checking \cup Starting
  PROVE  proc[e].main \notin Checking \cup Starting
BY DEF FilesOK, Overlapping

\* What is said of the other processes does not change.
LEMMA OthersStay ==
  ASSUME NEW d \in Daemons, NEW e \in Daemons, proc'[e] = proc[e]
  PROVE  /\ Past(e)' = Past(e) /\ Serving(e)' = Serving(e)
         /\ Ending(e)' = Ending(e)
         /\ NeedsPid(e)' = NeedsPid(e) /\ NeedsSocket(e)' = NeedsSocket(e)
         /\ Finds(e, d)' = Finds(e, d)
BY DEF Past, Alive, Serving, Ending, NeedsPid, NeedsSocket, Finds

\* A step of a process that has found no other one.
LEMMA PastStep ==
  ASSUME TypeOK, FilesOK, NEW d \in Daemons, Past(d), ~Overlapping',
         \A e \in Daemons \ {d} : proc'[e] = proc[e],
         proc'[d].main \notin Checking, pidFile' # "empty",
         NeedsPid(d)' => pidFile' = d,
         NeedsSocket(d)' => socketFile' \in {d, "systemd"},
         Serving(d)' => Serving(d) \/ proc[d].main \in Starting
  PROVE  FilesOK'
<1>1. \A e \in Daemons \ {d} : ~Past(e)
  BY DEF FilesOK, OnePast
<1>2. \A e \in Daemons \ {d} : /\ ~Past(e)' /\ ~Serving(e)'
                               /\ ~NeedsPid(e)' /\ ~NeedsSocket(e)'
  BY <1>1, OthersStay, PastKinds DEF NeedsSocket, NeedsPid
<1>3. ASSUME NEW e \in Daemons \ {d}, Serving(d)' PROVE Finds(e, d)'
  <2>1. CASE Serving(d)
    BY <1>3, <2>1, OthersStay DEF FilesOK, OnePast
  <2>2. CASE proc[d].main \in Starting
    <3>1. proc'[e].main \notin Checking
      BY <2>2, Apart
    <3> QED BY <3>1 DEF Finds, Checking
  <2> QED BY <1>3, <2>1, <2>2
<1>4. NoEmpty'
  BY DEF FilesOK, NoEmpty, Checking
<1>5. OnePast'
  BY <1>2, <1>3 DEF OnePast
<1>6. FilesThere'
  BY <1>2 DEF FilesThere
<1> QED BY <1>4, <1>5, <1>6 DEF FilesOK

\* The steps of such a process that leave the files alone.
Proceeds(d) ==
  LET m == proc[d].main
      n == proc'[d].main
  IN \/ n = m \/ n \in Leaving
     \/ m \in Looping /\ n \in Looping
     \/ m = "init" /\ n = "pid"
     \/ m = "hotplug" /\ n = "ready"
     \/ m = "ready" /\ n = "loop"

LEMMA ProceedStep ==
  ASSUME TypeOK, FilesOK, NEW d \in Daemons, Past(d), ~Overlapping',
         \A e \in Daemons \ {d} : proc'[e] = proc[e],
         UNCHANGED files, Proceeds(d),
         proc'[d].signal = "read" => proc[d].signal = "read"
  PROVE  FilesOK'
<1>1. /\ proc'[d].main \notin Checking
      /\ NeedsPid(d)' => NeedsPid(d)
      /\ NeedsSocket(d)' => NeedsSocket(d)
      /\ Serving(d)' => Serving(d) \/ proc[d].main \in Starting
  BY DEF Proceeds, Past, Alive, Over, Checking, Starting, Looping, Leaving,
         NeedsPid, NeedsSocket, Serving, Ending
<1>2. pidFile' # "empty" /\ (NeedsPid(d) => pidFile' = d)
      /\ (NeedsSocket(d) => socketFile' \in {d, "systemd"})
  BY DEF FilesOK, NoEmpty, FilesThere, files
<1> QED BY <1>1, <1>2, PastStep

\* The end of a process.
LEMMA EndStep ==
  ASSUME TypeOK, FilesOK, NEW d \in Daemons, ~Overlapping',
         \A e \in Daemons \ {d} : proc'[e] = proc[e],
         UNCHANGED files, proc'[d].main \in Over
  PROVE  FilesOK'
<1>1. ~Past(d)' /\ ~Serving(d)' /\ ~NeedsPid(d)' /\ ~NeedsSocket(d)'
  BY DEF Past, Alive, Serving, Over, Looping, NeedsPid, NeedsSocket
<1>2. \A e \in Daemons : Finds(d, e)'
  BY DEF Finds, Over
<1>3. NoEmpty'
  BY DEF FilesOK, NoEmpty, files, Over
<1>4. OnePast'
  BY <1>1, <1>2, OthersStay DEF FilesOK, OnePast
<1>5. FilesThere'
  BY <1>1, OthersStay DEF FilesOK, FilesThere, files
<1> QED BY <1>3, <1>4, <1>5 DEF FilesOK

\* A process has found no other one: there is none, unless it is about to end.
LEMMA FreshStart ==
  ASSUME TypeOK, FilesOK, NEW d \in Daemons, ~Overlapping',
         \A e \in Daemons \ {d} : proc'[e] = proc[e],
         proc'[d].main = "init", pidFile' # "empty",
         \A e \in Daemons \ {d} : ~Serving(e)
  PROVE  FilesOK'
<1>1. ASSUME NEW e \in Daemons \ {d} PROVE ~Past(e) /\ ~Past(e)'
  <2>1. proc'[e].main \notin Starting /\ ~(Alive(e)' /\ Ending(e)')
    BY DEF Overlapping, Starting
  <2>2. Past(e)' = Past(e) /\ Ending(e)' = Ending(e)
    BY OthersStay
  <2>3. Past(e) => Alive(e)'
    BY DEF Past, Alive
  <2> QED BY <2>1, <2>2, <2>3, PastKinds
<1>2. \A e \in Daemons \ {d} : ~Serving(e)' /\ ~NeedsPid(e)' /\ ~NeedsSocket(e)'
  BY <1>1, OthersStay, PastKinds DEF NeedsSocket, NeedsPid
<1>3. ~Serving(d)' /\ ~NeedsPid(d)' /\ ~NeedsSocket(d)'
  BY DEF Serving, Looping, NeedsPid, NeedsSocket
<1>4. NoEmpty'
  BY DEF FilesOK, NoEmpty
<1>5. OnePast'
  BY <1>1, <1>2, <1>3 DEF OnePast
<1>6. FilesThere'
  BY <1>2, <1>3 DEF FilesThere
<1> QED BY <1>4, <1>5, <1>6 DEF FilesOK

\* A process goes on looking.
LEMMA CheckStep ==
  ASSUME TypeOK, FilesOK, NEW d \in Daemons, ~Overlapping',
         \A e \in Daemons \ {d} : proc'[e] = proc[e],
         proc'[d].main \in Checking, UNCHANGED pidFile,
         socketFile' = socketFile \/ \A e \in Daemons \ {d} : ~NeedsSocket(e),
         proc'[d].main = "checkPid" => proc'[d].pid # "empty",
         \A e \in Daemons \ {d} : Serving(e) => Finds(d, e)'
  PROVE  FilesOK'
<1>1. ~Past(d)' /\ ~Serving(d)' /\ ~NeedsPid(d)' /\ ~NeedsSocket(d)'
  BY DEF Past, Serving, Checking, Looping, NeedsPid, NeedsSocket
<1>2. NoEmpty'
  BY DEF FilesOK, NoEmpty
<1>3. OnePast'
  BY <1>1, OthersStay DEF FilesOK, OnePast
<1>4. FilesThere'
  BY <1>1, OthersStay DEF FilesOK, FilesThere
<1> QED BY <1>2, <1>3, <1>4 DEF FilesOK


LEMMA SocketStep ==
  ASSUME TypeOK, SocketOK, Step, UNCHANGED SocketActivated
  PROVE  SocketOK'
<1>1. \A d \in Daemons : d # "systemd"
  BY DaemonAssumption
<1> QED
  BY <1>1
     DEF SocketOK, files, RemoveSocket, BindSocket,
         Step, MainThread, SignalThread, ExitOf, ContextThread, Start,
         ReadPid, CheckPid, CleanSocket, CleanPid, StartSerialReaders,
         WritePid, InitializeSocket, StartHotplug, Ready, RunLoop, Select,
         TryAgain, AcceptClient, CloseClient, DisableAlarm, StopHotplug,
         ContextsDeinitialize, CleanupReaders, AtExitSocket,
         AtExitPid, AtExit, Kill, RecyclePid, SendSignal,
         SendHotplugSignal, AlarmFires, HandleSignal, Connect,
         RemoveFromList, StartAlarm

\* The start of a process, up to where it knows that it is alone.
LEMMA FilesCheck ==
  ASSUME TypeOK, FilesOK, FreshInv, SocketOK, NEW d \in Daemons, ~Overlapping',
         Start(d) \/ ReadPid(d) \/ CheckPid(d) \/ CleanSocket(d) \/ CleanPid(d)
  PROVE  FilesOK'
<1>0. \A e \in Daemons \ {d} : proc'[e] = proc[e]
  BY OnlyElsewhere DEF Elsewhere
<1>a. NoEmpty /\ \A e \in Daemons : e # "none" /\ e # "empty" /\ e # "systemd"
  BY DaemonAssumption DEF FilesOK
<1>b. ASSUME NEW e \in Daemons \ {d}, Serving(e)
      PROVE  pidFile = e /\ socketFile \in {e, "systemd"} /\ Finds(d, e)
  BY <1>b, PastKinds DEF FilesOK, OnePast, FilesThere, NeedsSocket
<1>1. CASE Start(d)
  <2>1. CASE socketFile # "none" /\ ~SocketActivated
    <3>1. proc'[d].main = "readPid" /\ UNCHANGED files
      BY <1>1, <2>1, MainMoves DEF Start, Moves, After, Steps, Checking
    <3>2. \A e \in Daemons : Finds(d, e)'
      BY <3>1 DEF Finds
    <3> QED BY <1>0, <3>1, <3>2, CheckStep DEF files, Checking
  <2>2. CASE ~(socketFile # "none" /\ ~SocketActivated)
    <3>1. proc'[d].main = "init" /\ UNCHANGED files
      BY <1>1, <2>2, MainMoves DEF Start, Moves, After, Steps, Starting
    <3>2. ASSUME NEW e \in Daemons \ {d}, Serving(e) PROVE FALSE
      <4>1. Alive(e)
        BY <3>2 DEF Serving, Looping, Alive, Over
      <4>2. ~SocketActivated /\ socketFile = "none"
        BY <1>1, <2>2, <4>1 DEF Start, MayStart
      <4> QED BY <1>a, <1>b, <3>2, <4>2
    <3> QED BY <1>0, <1>a, <3>1, <3>2, FreshStart DEF files, NoEmpty
  <2> QED BY <2>1, <2>2
<1>2. CASE ReadPid(d)
  <2>0. UNCHANGED files
    BY <1>2 DEF ReadPid
  <2>1. CASE pidFile \in {"none", "empty"} /\ Moves(d, "init")
    <3>1. \A e \in Daemons \ {d} : ~Serving(e)
      BY <1>a, <1>b, <2>1
    <3> QED BY <1>0, <1>a, <2>0, <2>1, <3>1, FreshStart
            DEF files, NoEmpty, Moves, After
  <2>2. CASE After(d, "checkPid", proc[d].alarm, proc[d].contextsList, pidFile)
    <3>1. proc'[d].main = "checkPid" /\ proc'[d].pid = pidFile
      BY <2>2 DEF After
    <3>2. \A e \in Daemons \ {d} : Serving(e) => Finds(d, e)'
      BY <1>b, <3>1 DEF Finds
    <3> QED BY <1>0, <1>a, <2>0, <3>1, <3>2, CheckStep
            DEF files, Checking, NoEmpty
  <2> QED BY <1>2, <2>1, <2>2, ReadPidMoves
<1>3. CASE CheckPid(d)
  <2>0. UNCHANGED files /\ proc[d].main = "checkPid" /\ proc[d].pid # "empty"
    BY <1>3, <1>a DEF CheckPid, NoEmpty
  <2>1. CASE Main(d, "refused")
    <3>1. proc'[d].main = "refused"
      BY <2>1, MainMoves DEF Moves, After, Steps, Over
    <3> QED BY <1>0, <2>0, <3>1, EndStep DEF Over
  <2>2. CASE ~PidExists(proc[d].pid) /\ Main(d, "cleanSocket")
    <3>1. proc'[d].main = "cleanSocket"
      BY <2>2, MainMoves DEF Moves, After, Steps, Checking
    <3>2. ASSUME NEW e \in Daemons \ {d}, Serving(e) PROVE FALSE
      <4>1. proc[d].pid = e
        BY <1>b, <2>0, <3>2 DEF Finds
      <4>2. Alive(e)
        BY <3>2 DEF Serving, Looping, Alive, Over
      <4> QED BY <2>2, <4>1, <4>2 DEF PidExists
    <3> QED BY <1>0, <2>0, <3>1, <3>2, CheckStep DEF files, Checking
  <2> QED BY <1>3, <2>0, <2>1, <2>2 DEF CheckPid
<1>4. CASE CleanSocket(d)
  <2>1. /\ proc'[d].main = "cleanPid" /\ UNCHANGED pidFile
        /\ proc[d].main = "cleanSocket"
    BY <1>4, MainMoves DEF CleanSocket, Moves, After, Steps, Checking
  <2>2. \A e \in Daemons \ {d} : ~Serving(e)
    BY <1>b, <2>1 DEF Finds
  <2>3. \A e \in Daemons \ {d} : proc[e].main \notin Starting
    BY <2>1, Apart DEF Checking
  <2>4. \A e \in Daemons \ {d} : ~NeedsSocket(e)
    BY <2>2, <2>3, PastKinds DEF NeedsSocket
  <2> QED BY <1>0, <2>1, <2>2, <2>4, CheckStep DEF Checking
<1>5. CASE CleanPid(d)
  <2>1. /\ proc'[d].main = "init" /\ pidFile' = "none"
        /\ proc[d].main = "cleanPid"
    BY <1>5, MainMoves DEF CleanPid, Moves, After, Steps, Starting
  <2>2. \A e \in Daemons \ {d} : ~Serving(e)
    BY <1>b, <2>1 DEF Finds
  <2> QED BY <1>0, <2>1, <2>2, FreshStart
<1> QED BY <1>1, <1>2, <1>3, <1>4, <1>5

\* Everything a process does afterwards.
LEMMA FilesElsewhere ==
  ASSUME TypeOK, FilesOK, FreshInv, SocketOK, NEW d \in Daemons, ~Overlapping',
         ~proc'[d].unrecorded, Elsewhere(d)
  PROVE  FilesOK'
<1>0. \A e \in Daemons \ {d} : proc'[e] = proc[e]
  BY OnlyElsewhere
<1>a. NoEmpty /\ proc[d].main \in Steps
  BY DEF FilesOK, TypeOK, Processes
<1>b. ASSUME proc[d].main \notin NotYet, Alive(d) PROVE Past(d)
  BY <1>b DEF Past, NotYet, Alive, Over
<1>1. CASE \/ StartSerialReaders(d) \/ StartHotplug(d) \/ RunLoop(d)
           \/ TryAgain(d) \/ StopHotplug(d) \/ CleanupReaders(d)
  <2>1. PICK step \in Steps : /\ Main(d, step)
                              /\ \/ step \in Leaving
                                 \/ proc[d].main \in Looping /\ step \in Looping
                                 \/ proc[d].main = "init" /\ step = "pid"
                                 \/ proc[d].main = "hotplug" /\ step = "ready"
    BY <1>1 DEF StartSerialReaders, StartHotplug, RunLoop, TryAgain,
                StopHotplug, CleanupReaders, Steps, Starting, Looping, Leaving
  <2>2. UNCHANGED files /\ Past(d)
    BY <1>1 DEF StartSerialReaders, StartHotplug, RunLoop, TryAgain,
                StopHotplug, CleanupReaders, Past, Alive, Over, Checking
  <2>3. Moves(d, step)
    BY <2>1, MainMoves
  <2>4. Proceeds(d)
    BY <2>1, <2>3 DEF Proceeds, Moves, After
  <2> QED BY <1>0, <2>2, <2>3, <2>4, ProceedStep DEF Moves, After
<1>2. CASE Ready(d) \/ Select(d) \/ DisableAlarm(d)
  <2>1. UNCHANGED files /\ Past(d)
    BY <1>2 DEF Ready, Select, DisableAlarm, Past, Alive, Over, Checking
  <2>2. Proceeds(d) /\ proc'[d].signal = proc[d].signal
    BY <1>2, LoopMoves DEF Ready, Select, DisableAlarm, Proceeds, Moves, After,
                           Looping
  <2> QED BY <1>0, <2>1, <2>2, ProceedStep
<1>3. CASE WritePid(d)
  <2>1. /\ proc'[d].main = "socket" /\ proc[d].main = "pid"
        /\ pidFile' = d
    BY <1>3, WritePidMoves DEF WritePid, Moves, After
  <2>2. Past(d) /\ pidFile' # "empty"
    BY <2>1, DaemonAssumption DEF Past, Alive, Over, Checking
  <2>3. ~Serving(d)' /\ ~NeedsSocket(d)'
    BY <2>1 DEF Serving, Looping, NeedsSocket
  <2> QED BY <1>0, <2>1, <2>2, <2>3, PastStep DEF Checking
<1>4. CASE InitializeSocket(d)
  <2>0. proc[d].main = "socket" /\ Past(d) /\ UNCHANGED pidFile
    BY <1>4 DEF InitializeSocket, Past, Alive, Over, Checking
  <2>1. CASE BindSocket(d) /\ Main(d, "hotplug")
    <3>1. Moves(d, "hotplug")
      BY <2>1, MainMoves DEF Steps, Starting
    <3>2. ~Serving(d)' /\ (NeedsPid(d)' => NeedsPid(d))
      BY <2>0, <3>1 DEF Moves, After, Serving, Looping, NeedsPid, Past, Alive,
                        Ending
    <3>3. NeedsPid(d) => pidFile' = d
      BY <2>0 DEF FilesOK, FilesThere
    <3>4. socketFile' \in {d, "systemd"}
      BY <2>1 DEF BindSocket, SocketOK
    <3> QED BY <1>0, <1>a, <2>0, <3>1, <3>2, <3>3, <3>4, PastStep
            DEF NoEmpty, Moves, After, Checking
  <2>2. CASE Main(d, "remove") /\ UNCHANGED socketFile
    <3>1. Moves(d, "remove")
      BY <2>2, MainMoves DEF Steps, Leaving
    <3> QED BY <1>0, <2>0, <2>2, <3>1, ProceedStep
            DEF Moves, After, Proceeds, Leaving, files
  <2> QED BY <1>4, <2>1, <2>2 DEF InitializeSocket
<1>5. CASE \E thread \in {"main", "signal"} : AtExitSocket(d, thread)
                                                \/ AtExitPid(d, thread)
  <2>1. PICK thread \in {"main", "signal"}, step \in {"remove", "removePid"},
             next \in {"removePid", "exit"} :
          AtExitStep(d, thread, step, next)
    BY <1>5 DEF AtExitSocket, AtExitPid
  <2>2. proc[d].main \notin NotYet /\ Alive(d)
    BY <2>1, NotFresh DEF AtExitStep, NotYet, Checking
  <2>3. /\ proc'[d].main \in Leaving \cup {proc[d].main}
        /\ proc'[d].main \notin Leaving => proc'[d].signal # "read"
    BY <2>1, AtExitMoves DEF Leaving
  <2>4. /\ proc'[d].main \notin Checking
        /\ ~Serving(d)' /\ ~NeedsPid(d)' /\ ~NeedsSocket(d)'
    BY <2>2, <2>3 DEF NotYet, Checking, Leaving, Serving, NeedsPid,
                      NeedsSocket, Ending
  <2>5. pidFile' # "empty"
    BY <1>5, <1>a DEF AtExitSocket, AtExitPid, NoEmpty
  <2> QED BY <1>0, <1>b, <2>2, <2>4, <2>5, PastStep
<1>6. CASE HandleSignal(d)
  <2>1. /\ proc[d].pipe # <<>> /\ Handled(d, proc'[d])
        /\ proc[d].signal = "read" /\ Alive(d) /\ UNCHANGED files
    BY <1>6, HandleMoves DEF HandleSignal
  <2>2. proc[d].main \notin NotYet /\ proc'[d].main = proc[d].main
    BY <2>1, NotFresh, HandledFields
  <2> QED BY <1>0, <1>b, <2>1, <2>2, ProceedStep DEF Proceeds
<1>7. CASE RecyclePid(d)
  BY <1>7 DEF RecyclePid, FilesOK, NoEmpty, OnePast, FilesThere, Past, Alive,
              Serving, Ending, NeedsPid, NeedsSocket, Finds, files
<1>8. ASSUME NEW signal \in Signals, Deliver(d, signal), UNCHANGED files
      PROVE  FilesOK'
  <2>1. proc'[d].main = Interrupted(d) /\ proc'[d].signal = proc[d].signal
    BY <1>8, DeliverMoves
  <2>2. CASE Past(d)
    <3>1. Proceeds(d)
      BY <2>1 DEF Proceeds, Interrupted, Looping
    <3> QED BY <1>0, <1>8, <2>1, <2>2, <3>1, ProceedStep
  <2>3. CASE proc[d].main \in Over
    <3>1. proc'[d].main \in Over
      BY <2>1, <2>3 DEF Interrupted, Over
    <3> QED BY <1>0, <1>8, <3>1, EndStep
  <2>4. CASE proc[d].main \in Checking
    <3>1. /\ proc'[d].main = proc[d].main /\ proc'[d].pid = proc[d].pid
      BY <1>8, <2>1, <2>4, DeliverMoves DEF Interrupted, Checking
    <3>2. \A e \in Daemons \ {d} : Serving(e) => Finds(d, e)'
      BY <3>1 DEF FilesOK, OnePast, Finds
    <3> QED BY <1>0, <1>8, <1>a, <2>4, <3>1, <3>2, CheckStep
            DEF NoEmpty, files
  <2> QED BY <2>2, <2>3, <2>4 DEF Past, Alive
<1> QED
  BY <1>1, <1>2, <1>3, <1>4, <1>5, <1>6, <1>7, <1>8, FilesCheck DEF Elsewhere

LEMMA FilesStep ==
  ASSUME BaseInv, FilesOK, FreshInv, SocketOK, Step, ~Overlapping',
         \A d \in Daemons : ~proc'[d].unrecorded
  PROVE  FilesOK'
<1>0. TypeOK
  BY DEF BaseInv
<1>1. ASSUME NEW d \in Daemons, Elsewhere(d) PROVE FilesOK'
  BY <1>0, <1>1, FilesElsewhere
<1>2. ASSUME NEW d \in Daemons, ContextsDeinitialize(d) PROVE FilesOK'
  <2>1. After(d, "cleanup", proc[d].alarm, {}, proc[d].pid)
    BY <1>0, <1>2, LoopMoves
  <2>2. Past(d) /\ UNCHANGED files
    BY <1>2 DEF ContextsDeinitialize, Past, Alive, Over, Checking
  <2> QED BY <1>0, <2>1, <2>2, ProceedStep
          DEF After, Only, Proceeds, Leaving
<1>3. ASSUME NEW d \in Daemons, NEW c \in Clients,
             AcceptClient(d, c) \/ CloseClient(d, c)
      PROVE  FilesOK'
  <2>1. /\ proc'[d].main \in {"disarm", "loop"}
        /\ proc'[d].signal = proc[d].signal
        /\ \A e \in Daemons \ {d} : proc'[e] = proc[e]
    BY <1>0, <1>3, LoopMoves DEF Moves, After, Only
  <2>2. proc[d].main = "select" /\ Past(d) /\ UNCHANGED files
    BY <1>3 DEF AcceptClient, CloseClient, Past, Alive, Over, Checking
  <2> QED BY <1>0, <2>1, <2>2, ProceedStep DEF Proceeds, Looping
<1>4. ASSUME NEW d \in Daemons, NEW m \in {"exited", "killed"},
             proc' = [proc EXCEPT ![d] = [NewProcess EXCEPT !.main = m]],
             UNCHANGED files
      PROVE  FilesOK'
  <2>1. /\ proc'[d].main = m
        /\ \A e \in Daemons \ {d} : proc'[e] = proc[e]
    BY <1>0, <1>4, EndMoves DEF Only, Steps, Over
  <2> QED BY <1>0, <1>4, <2>1, EndStep DEF Over
<1>5. ASSUME NEW c \in Clients, Connect(c) PROVE FilesOK'
  BY <1>5 DEF Connect, FilesOK, NoEmpty, OnePast, FilesThere, Past, Alive,
              Serving, Ending, NeedsPid, NeedsSocket, Finds, files
<1>6. ASSUME NEW c \in Clients, RemoveFromList(c) \/ StartAlarm(c)
      PROVE  FilesOK'
  <2>0. PICK d \in Daemons : d = client[c].daemon
    BY <1>6, ClientMoves
  <2>1. /\ proc'[d].main = proc[d].main /\ proc'[d].signal = proc[d].signal
        /\ \A e \in Daemons \ {d} : proc'[e] = proc[e]
    BY <1>6, <2>0, ClientMoves DEF After, Only
  <2>2. UNCHANGED files /\ proc[d].main \notin NotYet
    BY <1>0, <1>6, <2>0, NotFresh DEF RemoveFromList, StartAlarm
  <2>3. CASE Alive(d)
    <3>1. Past(d)
      BY <2>2, <2>3 DEF Past, NotYet
    <3> QED BY <1>0, <2>1, <2>2, <3>1, ProceedStep DEF Proceeds
  <2>4. CASE ~Alive(d)
    BY <1>0, <2>1, <2>2, <2>4, EndStep DEF Alive
  <2> QED BY <2>3, <2>4
<1> QED BY <1>0, <1>1, <1>2, <1>3, <1>4, <1>5, <1>6, StepKinds

-----------------------------------------------------------------------------
\* Everything the start of pcscd relies on.
StartInv ==
  /\ BaseInv /\ FreshInv /\ SocketOK
  /\ orderly => FilesOK

\* The invariant behind the next two theorems holds at every step.
THEOREM StartInvariance == Spec => []StartInv
<1>1. Init => StartInv
  <2> SUFFICES ASSUME Init PROVE FreshInv /\ SocketOK /\ FilesOK
    BY BaseInit DEF StartInv
  <2>1. /\ \A d \in Daemons : /\ proc[d] = NewProcess
                              /\ proc[d].main = "none"
        /\ \A c \in Clients : client[c].daemon = "none"
        /\ \A d \in Daemons : d # "none" /\ d # "systemd"
    BY DaemonAssumption DEF Init, NewProcess, NoClient
  <2>2. FreshInv
    BY <2>1 DEF Init, FreshInv, Fresh, NewProcess
  <2>3. SocketOK
    BY DEF Init, SocketOK
  <2>4. FilesOK
    BY <2>1 DEF Init, FilesOK, NoEmpty, OnePast, FilesThere, Past, Alive, Over,
                Serving, Looping, NeedsPid, NeedsSocket, Overlapping, Starting,
                Checking
  <2> QED BY <2>2, <2>3, <2>4
<1>2. StartInv /\ [Next]_vars => StartInv'
  <2>1. ASSUME StartInv, UNCHANGED vars PROVE StartInv'
    BY <2>1 DEF StartInv, BaseInv, TypeOK, ClientsOK, FreshInv, Fresh,
                SocketOK, FilesOK, NoEmpty, OnePast, FilesThere, Past, Alive,
                Serving, Ending, NeedsPid, NeedsSocket, Finds, Overlapping,
                vars, state, options, files
  <2>2. ASSUME StartInv, Next PROVE StartInv'
    <3>1. /\ Step /\ UNCHANGED SocketActivated
          /\ orderly' => /\ orderly /\ ~Overlapping'
                         /\ \A d \in Daemons : ~proc'[d].unrecorded
      BY <2>2, OptionsStay DEF Next
    <3>2. BaseInv'
      BY <2>2, <3>1, TypeStep, ClientsStep DEF StartInv, BaseInv
    <3>3. FreshInv' /\ SocketOK'
      BY <2>2, <3>1, FreshStep, SocketStep DEF StartInv, BaseInv
    <3>4. orderly' => FilesOK'
      BY <2>2, <3>1, FilesStep DEF StartInv
    <3> QED BY <3>2, <3>3, <3>4 DEF StartInv
  <2> QED BY <2>1, <2>2
<1> QED BY <1>1, <1>2, PTL DEF Spec

\* FilesLeadToDaemon holds at every step: while pcscd serves its clients the
\* socket and the file with the pid are its own, although any number of others
\* were killed, were told to end or found it running.
THEOREM FilesLead == Spec => []FilesLeadToDaemon
<1>1. StartInv => FilesLeadToDaemon
  BY PastKinds
     DEF StartInv, BaseInv, FilesOK, FilesThere, FilesLeadToDaemon, NeedsSocket
<1> QED BY <1>1, StartInvariance, PTL

\* OneDaemon holds at every step: no pcscd is started or works beside one that
\* serves its clients, whatever files and recycled pids it finds.
THEOREM AloneOnReaders == Spec => []OneDaemon
<1>1. StartInv => OneDaemon
  <2> SUFFICES ASSUME StartInv, orderly, NEW d \in Daemons, NEW e \in Daemons,
                      d # e, proc[d].main \in Starting \cup Looping, Serving(e)
               PROVE  FALSE
    BY DEF OneDaemon
  <2>1. Past(d) /\ Past(e)
    BY DEF Past, Alive, Over, Checking, Starting, Looping, Serving
  <2> QED BY <2>1 DEF StartInv, FilesOK, OnePast
<1> QED BY <1>1, StartInvariance, PTL


=============================================================================
