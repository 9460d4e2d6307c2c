------------------------------ MODULE MCDaemon ------------------------------
(***************************************************************************)
(* Daemon for model checking: either several processes and no client, or   *)
(* the clients of one pcscd that ends by itself.                           *)
(***************************************************************************)
EXTENDS Daemon

\* The one pcscd that has clients.
Server == CHOOSE d \in Daemons : TRUE

\* Bounds the states that are explored.  What it cuts off are steps nothing
\* has to take: a process is started, a client connects, a pid is used again
\* or cannot be recorded.
Apart ==
  \/ /\ ~AutoExit
     /\ \A c \in Clients : client[c] = NoClient
  \/ /\ AutoExit /\ ~SocketActivated
     /\ orderly /\ recycled = {}
     /\ \A d \in Daemons \ {Server} : proc[d].main = "none"

=============================================================================
