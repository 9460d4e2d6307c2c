------------------------------ MODULE ListSpec ------------------------------
(***************************************************************************)
(* What pcscd relies on when it keeps its clients, handles and waiting     *)
(* threads in the lists of simclist.c: a list is a sequence, its functions *)
(* do what their names say and return what its documentation promises, and *)
(* a list that is being iterated over does not change.                     *)
(***************************************************************************)
EXTENDS Integers, Sequences, SequencesExt

CONSTANTS Values, MaxElements, MemoryFails

VARIABLES
  seq,   \* the elements
  iter,  \* -1, or the number of elements an iteration has returned
  ret    \* what the last function returned

vars == <<seq, iter, ret>>

NULL == 0
Positions == 0..MaxElements

Init == seq = <<>> /\ iter = -1 /\ ret = 0

Idle == iter = -1

Fails == ret' = -1 /\ UNCHANGED <<seq, iter>>

Returns(value) == ret' = value /\ UNCHANGED <<seq, iter>>

Insert(pos, v) ==
  \/ /\ Idle /\ pos <= Len(seq)
     /\ seq' = InsertAt(seq, pos + 1, v)
     /\ ret' = 1
     /\ UNCHANGED iter
  \/ (MemoryFails \/ ~Idle \/ pos > Len(seq)) /\ Fails

\* Positions are those of C, from 0.
First(v) == IF Contains(seq, v)
            THEN SelectInSeq(seq, LAMBDA w : w = v) - 1 ELSE -1

Removes(from, to, value) ==
  /\ Idle
  /\ seq' = SubSeq(seq, 1, from) \o SubSeq(seq, to + 2, Len(seq))
  /\ ret' = value
  /\ UNCHANGED iter

DeleteAt(pos) ==
  \/ pos < Len(seq) /\ Removes(pos, pos, 0)
  \/ (~Idle \/ pos >= Len(seq)) /\ Fails

Delete(v) ==
  \/ First(v) >= 0 /\ Removes(First(v), First(v), 0)
  \/ (~Idle \/ First(v) < 0) /\ Fails

Extract(pos) ==
  \/ pos < Len(seq) /\ Removes(pos, pos, seq[pos + 1])
  \/ (~Idle \/ pos >= Len(seq)) /\ Returns(NULL)

DeleteRange(from, to) ==
  \/ from <= to /\ to < Len(seq) /\ Removes(from, to, to - from + 1)
  \/ (~Idle \/ to < from \/ to >= Len(seq)) /\ Fails

Clear ==
  \/ Removes(0, Len(seq) - 1, Len(seq))
  \/ ~Idle /\ Fails

GetAt(pos) == Returns(IF pos < Len(seq) THEN seq[pos + 1] ELSE NULL)

Locate(v) == Returns(First(v))

Seek(v) == Returns(IF Contains(seq, v) THEN v ELSE NULL)

IteratorStart ==
  \/ Idle /\ iter' = 0 /\ ret' = 1 /\ UNCHANGED seq
  \/ ~Idle /\ Returns(0)

\* Each element once and in order.
IteratorNext ==
  \/ /\ ~Idle /\ iter < Len(seq)
     /\ ret' = seq[iter + 1]
     /\ iter' = iter + 1
     /\ UNCHANGED seq
  \/ (Idle \/ iter >= Len(seq)) /\ Returns(NULL)

IteratorStop ==
  \/ ~Idle /\ iter' = -1 /\ ret' = 1 /\ UNCHANGED seq
  \/ Idle /\ Returns(0)

Next ==
  \/ \E pos \in Positions :
       \/ DeleteAt(pos) \/ Extract(pos) \/ GetAt(pos)
       \/ \E v \in Values : Insert(pos, v)
       \/ \E to \in Positions : DeleteRange(pos, to)
  \/ \E v \in Values : Delete(v) \/ Locate(v) \/ Seek(v)
  \/ Clear \/ IteratorStart \/ IteratorNext \/ IteratorStop

Spec == Init /\ [][Next]_vars

=============================================================================
