------------------------------- MODULE Daemon -------------------------------
(***************************************************************************)
(* The pcscd process: pcscdaemon.c with its start, its main loop, the      *)
(* thread that handles the signals and its end; winscard_msg_srv.c, which  *)
(* accepts the clients; and the part of winscard_svc.c that keeps the list *)
(* of contexts and starts and stops the exit alarm.                        *)
(*                                                                         *)
(* Daemons are processes, any of which is started after or beside another; *)
(* a process may be killed at any step, and what it leaves in              *)
(* PCSCLITE_IPC_DIR is what the next one finds.  The files are modelled by *)
(* the process they belong to; the kernel may give the pid of a process    *)
(* that has ended to another program.                                      *)
(***************************************************************************)
EXTENDS Integers, Sequences, FiniteSets

CONSTANTS
  Daemons,          \* processes that run pcscd, by pid
  Clients,          \* applications, one connection each
  MaxContexts,      \* contextMaxThreadCounter
  AutoExits,        \* values of AutoExit
  SocketActivations,\* values of SocketActivated
  Faults,           \* what may go wrong: "init" a step of the start, "record"
                    \*   the pid file, "thread" a context, "driver" the end of
                    \*   a reader, "kill" the process, "recycle" pids are
                    \*   used again
  MaxSignals        \* bound: signals sent to all processes, and signals the
                    \*   signal thread has not read when the alarm fires

ASSUME DaemonAssumption ==
  /\ Daemons # {} /\ {"none", "empty", "systemd"} \cap Daemons = {}
  /\ MaxContexts \in Nat \ {0}
  /\ AutoExits \subseteq BOOLEAN /\ SocketActivations \subseteq BOOLEAN
  /\ Faults \subseteq {"init", "record", "thread", "driver", "kill", "recycle"}
  /\ MaxSignals \in Nat

VARIABLES
  AutoExit, SocketActivated,  \* how pcscd is started
  proc,                       \* the processes
  socketFile,                 \* PCSCLITE_CSOCK_NAME
  pidFile,                    \* PCSCLITE_RUN_PID
  recycled,                   \* pids that belong to other programs now
  client,                     \* the clients and their threads in pcscd
  sent,                       \* number of signals sent
  orderly                     \* history: no start beside a start or an end,
                              \*   and every pid has been recorded

options == <<AutoExit, SocketActivated>>
files == <<socketFile, pidFile>>
state == <<options, proc, files, recycled, client, sent>>
vars == <<state, orderly>>

\* main is the step of the main thread, signal the one of signal_thread(), pid
\* what GetDaemonPid() has returned.  Two fields are history: unrecorded, the
\* pid could not be written, and missed, the main thread has gone to sleep
\* although it was told to end.
NewProcess ==
  [main |-> "none", signal |-> "read", pipe |-> <<>>, MustExit |-> FALSE,
   Init |-> TRUE, lives |-> 2, alarm |-> FALSE, contextsList |-> {},
   pid |-> "none", unrecorded |-> FALSE, missed |-> FALSE]

NoClient == [state |-> "none", daemon |-> "none", listSize |-> 0]

Over == {"none", "refused", "exited", "killed"}

\* Before and after main() has made sure that no other pcscd is running.
Checking == {"readPid", "checkPid", "cleanSocket", "cleanPid"}

Starting == {"init", "pid", "socket", "hotplug", "ready"}

Looping == {"loop", "call", "select", "disarm", "pause"}

Alive(d) == proc[d].main \notin Over

Ending(d) ==
  \/ proc[d].main \in {"stop", "deinitialize", "cleanup", "blocked", "remove",
                       "removePid", "exit"}
  \/ proc[d].signal # "read"

Serving(d) == proc[d].main \in Looping /\ ~Ending(d)

Main(d, step) == proc' = [proc EXCEPT ![d].main = step]

-----------------------------------------------------------------------------
\* main()

\* systemd starts one pcscd at a time.
MayStart(d) ==
  /\ proc[d].main = "none"
  /\ SocketActivated => \A e \in Daemons : ~Alive(e)

\* stat(PCSCLITE_CSOCK_NAME)
Start(d) ==
  /\ MayStart(d)
  /\ Main(d, IF socketFile # "none" /\ ~SocketActivated THEN "readPid"
                                                        ELSE "init")
  /\ UNCHANGED <<options, files, recycled, client, sent>>

\* GetDaemonPid().  A socket file without a pid file does not stop pcscd.  The
\* buffer is not initialized, and what atoi() makes of it is any number, when
\* the file is empty.
ReadPid(d) ==
  /\ proc[d].main = "readPid"
  /\ \/ pidFile \in {"none", "empty"} /\ Main(d, "init")
     \/ /\ pidFile # "none"
        /\ proc' = [proc EXCEPT ![d].main = "checkPid", ![d].pid = pidFile]
  /\ UNCHANGED <<options, files, recycled, client, sent>>

\* Mutant: a pid that is not the one of a pcscd is no reason to stop, and
\* neither is one of a pcscd.
NoPidExists(pid) == FALSE

\* kill(pid, 0) finds a process, whether it may send it a signal or not.
PidExists(pid) == pid \in {"empty"} \cup recycled \cup {e \in Daemons : Alive(e)}

CheckPid(d) ==
  /\ proc[d].main = "checkPid"
  /\ \/ PidExists(proc[d].pid) /\ Main(d, "refused")
     \/ /\ proc[d].pid = "empty" \/ ~PidExists(proc[d].pid)
        /\ Main(d, "cleanSocket")
  /\ UNCHANGED <<options, files, recycled, client, sent>>

\* clean_temp_files(), the socket and then the file with the pid
RemoveSocket == socketFile' = IF SocketActivated THEN socketFile ELSE "none"

CleanSocket(d) ==
  /\ proc[d].main = "cleanSocket"
  /\ RemoveSocket
  /\ Main(d, "cleanPid")
  /\ UNCHANGED <<options, pidFile, recycled, client, sent>>

CleanPid(d) ==
  /\ proc[d].main = "cleanPid"
  /\ pidFile' = "none"
  /\ Main(d, "init")
  /\ UNCHANGED <<options, socketFile, recycled, client, sent>>

\* RFAllocateReaderSpace() and RFStartSerialReaders()
StartSerialReaders(d) ==
  /\ proc[d].main = "init"
  /\ \/ Main(d, "pid")
     \/ "init" \in Faults /\ Main(d, "remove")
  /\ UNCHANGED <<options, files, recycled, client, sent>>

\* Records the pid and ends the initialization.  When the file cannot be
\* opened or written, an old one keeps what it says, a new one stays empty and
\* pcscd goes on.
WritePid(d) ==
  /\ proc[d].main = "pid"
  /\ \/ /\ pidFile' = d
        /\ proc' = [proc EXCEPT ![d].main = "socket", ![d].Init = FALSE]
     \/ /\ "record" \in Faults
        /\ pidFile' = pidFile \/ (pidFile = "none" /\ pidFile' = "empty")
        /\ proc' = [proc EXCEPT ![d].main = "socket", ![d].Init = FALSE,
                                ![d].unrecorded = TRUE]
  /\ UNCHANGED <<options, socketFile, recycled, client, sent>>

\* Mutant: the file that is there is not removed.
KeepSocket(d) ==
  socketFile' = IF socketFile # "none" THEN socketFile ELSE d

\* InitializeSocket() removes what is there, ListenExistingSocket() takes the
\* socket of systemd.
BindSocket(d) == socketFile' = IF SocketActivated THEN socketFile ELSE d

InitializeSocket(d) ==
  /\ proc[d].main = "socket"
  /\ \/ /\ BindSocket(d)
        /\ Main(d, "hotplug")
     \/ /\ "init" \in Faults
        /\ Main(d, "remove")
        /\ UNCHANGED socketFile
  /\ UNCHANGED <<options, pidFile, recycled, client, sent>>

\* ContextsInitialize(), HPSearchHotPluggables(), HPRegisterForHotplugEvents()
StartHotplug(d) ==
  /\ proc[d].main = "hotplug"
  /\ \/ Main(d, "ready")
     \/ "init" \in Faults /\ Main(d, "remove")
  /\ UNCHANGED <<options, files, recycled, client, sent>>

\* Mutant: the alarm waits for a first client.
NoFirstAlarm == FALSE

\* The exit alarm before the first client.
FirstAlarm == AutoExit

\* The father is told of the success.
Ready(d) ==
  /\ proc[d].main = "ready"
  /\ proc' = [proc EXCEPT ![d].main = "loop",
                          ![d].alarm = FirstAlarm]
  /\ UNCHANGED <<options, files, recycled, client, sent>>

-----------------------------------------------------------------------------
\* SVCServiceRunLoop()

RunLoop(d) ==
  /\ proc[d].main = "loop"
  /\ Main(d, IF proc[d].MustExit THEN "stop" ELSE "call")
  /\ UNCHANGED <<options, files, recycled, client, sent>>

\* The signal thread has been told to end pcscd, or is about to be.
ToldToExit(p) ==
  p.MustExit \/ \E i \in DOMAIN p.pipe : p.pipe[i] # "SIGUSR1"

\* ProcessEventsServer() calls select(), which has no time-out.
Select(d) ==
  /\ proc[d].main = "call"
  /\ proc' = [proc EXCEPT ![d].main = "select",
                          ![d].missed = @ \/ ToldToExit(proc[d])]
  /\ UNCHANGED <<options, files, recycled, client, sent>>

\* select() was interrupted; we wait a bit and try again.
TryAgain(d) ==
  /\ proc[d].main = "pause"
  /\ Main(d, "loop")
  /\ UNCHANGED <<options, files, recycled, client, sent>>

\* The clients whose connection waits to be accepted by d.
Backlog(d) ==
  {c \in Clients : client[c].state = "connecting"
                     /\ client[c].daemon \in {d, "systemd"}}

\* The list of contexts is full.
TooMany(d) == Cardinality(proc[d].contextsList) >= MaxContexts

\* ProcessEventsServer() and CreateContextThread(): the context and its
\* thread, under contextsList_lock.
AcceptClient(d, c) ==
  /\ proc[d].main = "select"
  /\ c \in Backlog(d)
  /\ ~TooMany(d)
  /\ proc' = [proc EXCEPT ![d].main = "disarm",
                          ![d].contextsList = @ \cup {c}]
  /\ client' = [client EXCEPT ![c] = [NoClient EXCEPT !.state = "served",
                                                      !.daemon = d]]
  /\ UNCHANGED <<options, files, recycled, sent>>

\* alarm(0), the last thing done under contextsList_lock
DisableAlarm(d) ==
  /\ proc[d].main = "disarm"
  /\ proc' = [proc EXCEPT ![d].main = "loop", ![d].alarm = @ /\ ~AutoExit]
  /\ UNCHANGED <<options, files, recycled, client, sent>>

\* Mutant: the exit alarm is switched off for every client.
AlarmOff(d) == FALSE

\* A client that is turned away does not stop the exit alarm.
AlarmGoesOn(d) == proc[d].alarm

\* Too many contexts, or no memory or thread for this one.
CloseClient(d, c) ==
  /\ proc[d].main = "select"
  /\ c \in Backlog(d)
  /\ TooMany(d) \/ "thread" \in Faults
  /\ proc' = [proc EXCEPT ![d].main = "loop", ![d].alarm = AlarmGoesOn(d)]
  /\ client' = [client EXCEPT ![c] = NoClient]
  /\ UNCHANGED <<options, files, recycled, sent>>

\* HPStopHotPluggables()
StopHotplug(d) ==
  /\ proc[d].main = "stop"
  /\ Main(d, "deinitialize")
  /\ UNCHANGED <<options, files, recycled, client, sent>>

\* ContextsDeinitialize() closes the connections.  The threads are detached,
\* so that pthread_join() does not wait for them.
ContextsDeinitialize(d) ==
  /\ proc[d].main = "deinitialize"
  /\ proc' = [proc EXCEPT ![d].main = "cleanup", ![d].contextsList = {}]
  /\ client' = [c \in Clients |->
                  IF c \in proc[d].contextsList THEN NoClient ELSE client[c]]
  /\ UNCHANGED <<options, files, recycled, sent>>

\* RFCleanupReaders() and EHDeinitializeEventStructures().  A driver may keep
\* the event thread of its reader for ever, for which the main thread waits.
CleanupReaders(d) ==
  /\ proc[d].main = "cleanup"
  /\ \/ Main(d, "remove")
     \/ "driver" \in Faults /\ Main(d, "blocked")
  /\ UNCHANGED <<options, files, recycled, client, sent>>

-----------------------------------------------------------------------------
\* at_exit(), by the main thread or by the signal thread

AtExitStep(d, thread, step, next) ==
  /\ Alive(d)
  /\ proc[d][thread] = step
  /\ proc' = [proc EXCEPT ![d][thread] = next]

AtExitSocket(d, thread) ==
  /\ AtExitStep(d, thread, "remove", "removePid")
  /\ RemoveSocket
  /\ UNCHANGED <<options, pidFile, recycled, client, sent>>

AtExitPid(d, thread) ==
  /\ AtExitStep(d, thread, "removePid", "exit")
  /\ pidFile' = "none"
  /\ UNCHANGED <<options, socketFile, recycled, client, sent>>

\* The kernel closes the connections of d, and its socket, unless that is the
\* one of systemd.
CloseAll(d) ==
  client' = [c \in Clients |->
               IF client[c].daemon = d THEN NoClient ELSE client[c]]

\* The code the father hears of is left out.
AtExit(d, thread) ==
  /\ Alive(d)
  /\ proc[d][thread] = "exit"
  /\ proc' = [proc EXCEPT ![d] = [NewProcess EXCEPT !.main = "exited"]]
  /\ CloseAll(d)
  /\ UNCHANGED <<options, files, recycled, sent>>

\* A process that is killed, or crashes, leaves its files.
Kill(d) ==
  /\ "kill" \in Faults
  /\ Alive(d)
  /\ proc' = [proc EXCEPT ![d] = [NewProcess EXCEPT !.main = "killed"]]
  /\ CloseAll(d)
  /\ UNCHANGED <<options, files, recycled, sent>>

\* The kernel gives the pid of d to another program.
RecyclePid(d) ==
  /\ "recycle" \in Faults
  /\ proc[d].main \in Over \ {"none"}
  /\ recycled' = recycled \cup {d}
  /\ UNCHANGED <<options, proc, files, client, sent>>

-----------------------------------------------------------------------------
\* signal_trap() and signal_thread()

\* Mutant: the main thread is not woken up.
StayAsleep(d) == proc[d].main

\* select() of the main thread is interrupted.
Interrupted(d) == IF proc[d].main = "select" THEN "pause" ELSE proc[d].main

Deliver(d, signal) ==
  proc' = [proc EXCEPT ![d].pipe = Append(@, signal),
                       ![d].main = Interrupted(d),
                       ![d].alarm = @ /\ signal # "SIGALRM"]

\* Somebody sends a signal.  Before pcscd has installed its handlers it would
\* just be killed.
SendSignal(d, signal) ==
  /\ sent < MaxSignals
  /\ sent' = sent + 1
  /\ Alive(d) /\ proc[d].main \notin Checking
  /\ Deliver(d, signal)
  /\ UNCHANGED <<options, files, recycled, client>>

\* pcscd --hotplug: SendHotplugSignal() of a process that ends at once.  The
\* handler is installed right after the pid has been written.
SendHotplugSignal ==
  /\ socketFile # "none" /\ pidFile \in Daemons
  /\ sent < MaxSignals
  /\ sent' = sent + 1
  /\ Alive(pidFile)
  /\ Deliver(pidFile, "SIGUSR1")
  /\ UNCHANGED <<options, files, recycled, client>>

\* TIME_BEFORE_SUICIDE seconds have passed; by then the signal thread has read
\* all but MaxSignals of the earlier signals.
AlarmFires(d) ==
  /\ Alive(d)
  /\ Len(proc[d].pipe) <= MaxSignals
  /\ proc[d].alarm
  /\ Deliver(d, "SIGALRM")
  /\ UNCHANGED <<options, files, recycled, client, sent>>

\* A signal tells pcscd to end: at once while it is being started, from the
\* main loop later, and at once again when it does not.
PrepareForExit(p) ==
  IF ~p.MustExit
  THEN [p EXCEPT !.MustExit = TRUE,
                 !.signal = IF p.Init THEN "remove" ELSE "read"]
  ELSE [p EXCEPT !.lives = p.lives - 1,
                 !.signal = IF p.lives = 1 THEN "remove" ELSE "read"]

HandleSignal(d) ==
  LET sig == Head(proc[d].pipe)
      p == [proc[d] EXCEPT !.pipe = Tail(@)]
  IN /\ Alive(d)
     /\ proc[d].signal = "read"
     /\ proc[d].pipe # <<>>
     /\ \/ /\ sig = "SIGUSR1"
           /\ proc' = [proc EXCEPT ![d] = p]
        \/ /\ sig = "SIGTERM"
           /\ proc' = [proc EXCEPT ![d] = [p EXCEPT !.signal = "remove"]]
        \/ /\ sig \in {"SIGINT", "SIGALRM"}
           /\ proc' = [proc EXCEPT ![d] = PrepareForExit(p)]
     /\ UNCHANGED <<options, files, recycled, client, sent>>

-----------------------------------------------------------------------------
\* The clients and their threads

\* A client finds the socket and somebody who listens.
Connect(c) ==
  /\ client[c].state = "none"
  /\ socketFile # "none"
  /\ socketFile # "systemd" => Alive(socketFile)
  /\ client' = [client EXCEPT ![c] = [NoClient EXCEPT !.state = "connecting",
                                                      !.daemon = socketFile]]
  /\ UNCHANGED <<options, proc, files, recycled, sent>>

\* The client has gone.  MSGCleanupClient() removes the context, under
\* contextsList_lock, and remembers how many are left.
RemoveFromList(c) ==
  LET d == client[c].daemon
      left == proc[d].contextsList \ {c}
  IN /\ client[c].state = "served"
     /\ proc[d].main # "disarm"
     /\ proc' = [proc EXCEPT ![d].contextsList = left]
     /\ client' = [client EXCEPT ![c].state = "leaving",
                                 ![c].listSize = Cardinality(left)]
     /\ UNCHANGED <<options, files, recycled, sent>>

\* The last client has gone.
StartsAlarm(listSize) == AutoExit /\ listSize < 1

StartAlarm(c) ==
  LET d == client[c].daemon
  IN /\ client[c].state = "leaving"
     /\ proc' = [proc EXCEPT ![d].alarm = @ \/ StartsAlarm(client[c].listSize)]
     /\ client' = [client EXCEPT ![c] = NoClient]
     /\ UNCHANGED <<options, files, recycled, sent>>

-----------------------------------------------------------------------------
Init ==
  /\ AutoExit \in AutoExits
  /\ SocketActivated \in SocketActivations
  /\ proc = [d \in Daemons |-> NewProcess]
  /\ socketFile = IF SocketActivated THEN "systemd" ELSE "none"
  /\ pidFile = "none"
  /\ recycled = {}
  /\ client = [c \in Clients |-> NoClient]
  /\ sent = 0
  /\ orderly = TRUE

MainThread(d) ==
  \/ ReadPid(d) \/ CheckPid(d) \/ CleanSocket(d) \/ CleanPid(d)
  \/ StartSerialReaders(d) \/ WritePid(d)
  \/ InitializeSocket(d) \/ StartHotplug(d) \/ Ready(d)
  \/ RunLoop(d) \/ Select(d) \/ TryAgain(d)
  \/ \E c \in Clients : AcceptClient(d, c) \/ CloseClient(d, c)
  \/ DisableAlarm(d)
  \/ StopHotplug(d) \/ ContextsDeinitialize(d) \/ CleanupReaders(d)

SignalThread(d) == HandleSignal(d)

ExitOf(d) ==
  \E thread \in {"main", "signal"} :
    AtExitSocket(d, thread) \/ AtExitPid(d, thread) \/ AtExit(d, thread)

ContextThread(c) == StartAlarm(c)

Step ==
  \/ \E d \in Daemons :
       \/ Start(d) \/ MainThread(d) \/ SignalThread(d) \/ ExitOf(d) \/ Kill(d)
       \/ RecyclePid(d) \/ AlarmFires(d)
       \/ \E signal \in {"SIGTERM", "SIGINT"} : SendSignal(d, signal)
  \/ SendHotplugSignal
  \/ \E c \in Clients : Connect(c) \/ RemoveFromList(c) \/ ContextThread(c)

\* A pcscd is being started beside one that is being started, or has found no
\* other pcscd beside one that is about to end.
Overlapping ==
  \E d, e \in Daemons :
    /\ d # e
    /\ \/ /\ proc[d].main \in Checking \cup Starting
          /\ proc[e].main \in Checking \cup Starting
       \/ /\ proc[d].main \in Starting
          /\ Alive(e) /\ Ending(e)

Next ==
  /\ Step
  /\ orderly' = (/\ orderly
                 /\ ~Overlapping'
                 /\ \A d \in Daemons : ~proc'[d].unrecorded)

Spec == Init /\ [][Next]_vars

\* The threads go on, and the time passes.
Fairness ==
  /\ \A d \in Daemons : /\ WF_state(MainThread(d))
                        /\ WF_state(SignalThread(d))
                        /\ WF_state(ExitOf(d))
                        /\ WF_state(AlarmFires(d))
  /\ \A c \in Clients : WF_state(ContextThread(c))

LiveSpec == Spec /\ Fairness

-----------------------------------------------------------------------------
\* Properties

\* Two pcscd never work on the readers at the same time: main() finds the other
\* one, whatever files processes that were killed at any step have left and
\* whoever has their pids now.
OneDaemon ==
  \A d, e \in Daemons :
    d # e /\ orderly =>
      ~(proc[d].main \in Starting \cup Looping /\ Serving(e))

\* While pcscd serves its clients, the files of PCSCLITE_IPC_DIR lead to it:
\* nothing another process did or left, and no signal during the start, has
\* taken them away.
FilesLeadToDaemon ==
  \A d \in Daemons :
    orderly /\ Serving(d) => /\ pidFile = d
                             /\ socketFile \in {d, "systemd"}

\* --auto-exit: a pcscd that has no client has its exit alarm running, or it
\* has gone off, or the thread of the last client is about to start it,
\* whatever clients are accepted, turned away or leave at the same time.
IdleAlarm ==
  \A d \in Daemons :
    AutoExit /\ Serving(d) /\ proc[d].contextsList = {} =>
      \/ proc[d].alarm
      \/ ToldToExit(proc[d])
      \/ \E c \in Clients : /\ client[c].state = "leaving"
                            /\ client[c].daemon = d
                            /\ StartsAlarm(client[c].listSize)

\* The main thread missed that it should end, or waits for a driver.
Hangs(d) == proc[d].missed \/ proc[d].main = "blocked"

\* --auto-exit: pcscd ends when no client uses it, also when none ever did.
InactiveDaemonQuits ==
  \A d \in Daemons :
    (AutoExit /\ Serving(d) /\ proc[d].contextsList = {})
      ~> (~Alive(d) \/ proc[d].contextsList # {} \/ Hangs(d))

\* Once it has been told to, pcscd ends: its main thread is woken up and sees
\* MustExit, or a second and a third signal end it.
ExitFollows ==
  \A d \in Daemons : proc[d].MustExit ~> (~Alive(d) \/ Hangs(d))

\* What SVCServiceRunLoop() says of its pause, which lets the signal thread
\* set MustExit: pcscd ends when it has been told to.
PauseIsEnough ==
  \A d \in Daemons : proc[d].MustExit ~> ~Alive(d)

\* What the manual says of --auto-exit: the alarm goes off when there is no
\* client.
QuitsWhenInactive ==
  [][\A d \in Daemons : AlarmFires(d) => proc[d].contextsList = {}]_vars

\* What main() tells the user who starts a second pcscd.
AnotherIsFound ==
  \A d, e \in Daemons : Serving(d) /\ Serving(e) => d = e

=============================================================================
