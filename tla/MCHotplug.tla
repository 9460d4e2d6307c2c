----------------------------- MODULE MCHotplug -----------------------------
(***************************************************************************)
(* Hotplug with places and clients that are interchangeable, and with      *)
(* drivers of four kinds.                                                  *)
(***************************************************************************)
EXTENDS Hotplug, TLC

Symmetry == Permutations(Places) \cup Permutations(Clients)

\* A driver that is not thread safe, for several readers of one slot.
Serial ==
  [threadSafe |-> FALSE, slotThreadSafe |-> FALSE, killable |-> FALSE,
   channels |-> MaxReaders, slots |-> 1, fails |-> {"open"}]

\* After a race nothing is claimed.
NotRaced == ~raced

OneDriver == {[Serial EXCEPT !.fails = {}]}

\* One for two slots that share a mutex.
TwoSlots == {[Serial EXCEPT !.slots = 2, !.fails = {}]}

\* One whose library cannot be loaded.
Unloadable == {[Serial EXCEPT !.fails = {"load"}]}

\* Also one that is thread safe and lets its event threads be cancelled, and
\* one for a single reader with two slots that have a mutex each.
AllDrivers ==
  {Serial,
   [Serial EXCEPT !.threadSafe = TRUE, !.killable = TRUE,
                  !.fails = {"load", "spawn"}],
   [Serial EXCEPT !.slots = 2, !.slotThreadSafe = TRUE, !.channels = 1,
                  !.fails = {}]}
  \cup TwoSlots

=============================================================================
