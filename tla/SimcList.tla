------------------------------ MODULE SimcList ------------------------------
(***************************************************************************)
(* simclist.c: a doubly linked list with two sentinels, a pointer to the   *)
(* middle that halves the way to an element, spare entries that save calls *)
(* of malloc(), and one iteration at a time.  Its functions are called     *)
(* with the mutex of the list held, so that each is one step.              *)
(*                                                                         *)
(* The list is shown to implement ListSpec.  list_sort(), list_concat(),   *)
(* the hashes and the dumps, which pcscd does not use, are left out.       *)
(***************************************************************************)
EXTENDS Integers, Sequences, FiniteSets, FiniteSetsExt

CONSTANTS
  Values,          \* the data
  CopyModes,       \* values of attrs.copy_data
  MaxSpares,       \* SIMCLIST_MAX_SPARE_ELEMS
  MaxElements,     \* bound: elements in the list
  MemoryFails      \* malloc() may fail

ASSUME ListAssumption ==
  /\ Values \subseteq Nat \ {0}
  /\ CopyModes \subseteq BOOLEAN
  /\ MaxSpares \in Nat /\ MaxElements \in Nat
  /\ MemoryFails \in BOOLEAN

VARIABLES
  l,    \* the list_t
  ret   \* what the last function returned

vars == <<l, ret>>

\* Addresses
NULL == 0
head_sentinel == 1
tail_sentinel == 2
Entries == 3 .. MaxElements + MaxSpares + 2
Addresses == {NULL, head_sentinel, tail_sentinel} \cup Entries

Positions == 0..MaxElements

\* list_init() and list_attributes_copy().  heap is the set of entries that
\* have been allocated, copies the number of copies of data.
NewList(copy) ==
  [numels |-> 0, mid |-> NULL, spareels |-> <<>>, copy_data |-> copy,
   next |-> [a \in Addresses |->
               IF a = head_sentinel THEN tail_sentinel ELSE NULL],
   prev |-> [a \in Addresses |->
               IF a = tail_sentinel THEN head_sentinel ELSE NULL],
   data |-> [a \in Addresses |-> NULL],
   iter_active |-> FALSE, iter_pos |-> 0, iter_curentry |-> NULL,
   heap |-> {}, copies |-> 0]

\* k steps along the pointers of f from p.
Walk(f, p, k) ==
  LET at[i \in 0..k] == IF i = 0 THEN p ELSE f[at[i - 1]] IN at[k]

MidPos(n) == (n - 1) \div 2

\* Mutant: the middle is taken to be one further.
MidTooFar(pos) ==
  Walk(l.next, l.mid, pos - MidPos(l.numels) + 1)

\* The third quarter, from mid.
FromMid(pos) == Walk(l.next, l.mid, pos - MidPos(l.numels))

\* list_findpos(): from the head, from mid to the left or to the right, or
\* from the tail.
list_findpos(pos) ==
  LET n == l.numels
  IN CASE n # 0 /\ 4 * (pos + 1) <= n -> Walk(l.next, head_sentinel, pos + 1)
       [] n # 0 /\ 4 * (pos + 1) > n /\ 2 * (pos + 1) < n ->
            Walk(l.prev, l.mid, MidPos(n) - pos)
       [] n # 0 /\ 2 * (pos + 1) >= n /\ 4 * (pos + 1) <= 3 * n ->
            FromMid(pos)
       [] OTHER -> Walk(l.prev, tail_sentinel, n - pos)

-----------------------------------------------------------------------------
\* Insertion

\* The entry that is used next.
NewEntry ==
  IF l.spareels # <<>> THEN l.spareels[Len(l.spareels)]
  ELSE Min(Entries \ l.heap)

\* Mutant: mid stays when an element is inserted next to it.
MidIgnoresBorder(n, pos, next, prev, e) ==
  CASE n = 1 -> e
    [] n # 1 /\ n % 2 = 1 -> IF pos > MidPos(n) THEN next[l.mid] ELSE l.mid
    [] OTHER -> IF pos <= MidPos(n) THEN prev[l.mid] ELSE l.mid

\* The new mid pointer, for n elements, the new one e at pos among them.  The
\* pointers of the list have been changed already.
MidAfterInsert(n, pos, next, prev, e) ==
  CASE n = 1 -> e
    [] n # 1 /\ n % 2 = 1 -> IF pos >= MidPos(n) THEN next[l.mid] ELSE l.mid
    [] OTHER -> IF pos <= MidPos(n) THEN prev[l.mid] ELSE l.mid

Inserted(pos, v) ==
  LET e == NewEntry
      n == l.numels + 1
      prec == list_findpos(pos - 1)
      succ == l.next[prec]
      next == [l.next EXCEPT ![prec] = e, ![e] = succ]
      prev == [l.prev EXCEPT ![succ] = e, ![e] = prec]
  IN [l EXCEPT
        !.next = next, !.prev = prev, !.data[e] = v, !.numels = n,
        !.mid = MidAfterInsert(n, pos, next, prev, e),
        !.spareels = IF l.spareels = <<>> THEN <<>>
                     ELSE SubSeq(l.spareels, 1, Len(l.spareels) - 1),
        !.heap = @ \cup {e},
        !.copies = IF l.copy_data THEN @ + 1 ELSE @]

\* There is no memory for the copy of the data: the entry is freed, also when
\* it was a spare one.
EntryFreed ==
  IF l.spareels = <<>> THEN l
  ELSE [l EXCEPT !.spareels = SubSeq(@, 1, Len(@) - 1),
                 !.heap = @ \ {NewEntry}]

list_insert_at(pos, v) ==
  \/ /\ ~l.iter_active /\ pos <= l.numels
     /\ l.numels < MaxElements
     /\ l' = Inserted(pos, v)
     /\ ret' = 1
  \/ /\ l.iter_active \/ pos > l.numels
     /\ ret' = -1
     /\ UNCHANGED l
  \/ /\ MemoryFails /\ ~l.iter_active /\ pos <= l.numels
     /\ l.copy_data \/ l.spareels = <<>>
     /\ l' = IF l.copy_data THEN EntryFreed ELSE l
     /\ ret' = -1

-----------------------------------------------------------------------------
\* Removal

\* Mutant: an entry that no longer fits among the spare ones is not freed.
KeepEntry(list, e) ==
  [list EXCEPT !.spareels = IF Len(@) < MaxSpares THEN Append(@, e) ELSE @]

\* The entry becomes a spare one or is freed.
Release(list, e) ==
  IF Len(list.spareels) < MaxSpares
  THEN [list EXCEPT !.spareels = Append(@, e)]
  ELSE [list EXCEPT !.heap = @ \ {e}]

\* Nobody reads the pointers of an entry that is not in the list.
Forget(list, e) ==
  [list EXCEPT !.next[e] = NULL, !.prev[e] = NULL, !.data[e] = NULL,
               !.copies = IF list.copy_data THEN @ - 1 ELSE @]

\* The new mid pointer when the element at pos goes, with respect to the
\* list as it was.
MidAfterDrop(pos) ==
  LET n == l.numels
  IN CASE n = 1 -> NULL
       [] n # 1 /\ n % 2 = 1 ->
            IF pos >= n \div 2 THEN l.prev[l.mid] ELSE l.mid
       [] OTHER -> IF pos < n \div 2 THEN l.next[l.mid] ELSE l.mid

\* list_drop_elem() and the decrement that follows it.
Dropped(pos) ==
  LET e == list_findpos(pos)
      unlinked == [l EXCEPT !.next[l.prev[e]] = l.next[e],
                            !.prev[l.next[e]] = l.prev[e],
                            !.mid = MidAfterDrop(pos),
                            !.numels = @ - 1]
  IN Forget(Release(unlinked, e), e)

list_delete_at(pos) ==
  \/ /\ ~l.iter_active /\ pos < l.numels
     /\ l' = Dropped(pos)
     /\ ret' = 0
  \/ /\ l.iter_active \/ pos >= l.numels
     /\ ret' = -1
     /\ UNCHANGED l

\* The caller takes over the copy of the data.
list_extract_at(pos) ==
  \/ /\ ~l.iter_active /\ pos < l.numels
     /\ l' = Dropped(pos)
     /\ ret' = l.data[list_findpos(pos)]
  \/ /\ l.iter_active \/ pos >= l.numels
     /\ ret' = NULL
     /\ UNCHANGED l

\* The n entries from e on, in their order.
EntriesFrom(e, n) == [i \in 1..n |-> Walk(l.next, e, i - 1)]

\* The loops that release one entry after the other.
ReleaseAll(list, es) ==
  LET after[i \in 0..Len(es)] ==
        IF i = 0 THEN list ELSE Forget(Release(after[i - 1], es[i]), es[i])
  IN after[Len(es)]

Cleared ==
  LET all == EntriesFrom(l.next[head_sentinel], l.numels)
      list == ReleaseAll(l, all)
  IN [list EXCEPT !.next[head_sentinel] = tail_sentinel,
                  !.prev[tail_sentinel] = head_sentinel,
                  !.numels = 0, !.mid = NULL]

list_clear ==
  \/ ~l.iter_active /\ l' = Cleared /\ ret' = l.numels
  \/ l.iter_active /\ ret' = -1 /\ UNCHANGED l

\* Where mid has to go before the elements are removed.
MidAfterRange(from, numdel) ==
  LET after == (l.numels - 1 - numdel) \div 2
      pos == IF after < from THEN after ELSE after + numdel
      movedx == pos - MidPos(l.numels)
  IN IF movedx > 0 THEN Walk(l.next, l.mid, movedx)
                   ELSE Walk(l.prev, l.mid, -movedx)

RangeDeleted(from, to) ==
  LET numdel == to - from + 1
      tmp == list_findpos(from)
      lastvalid == l.prev[tmp]
      gone == EntriesFrom(tmp, numdel)
      beyond == l.next[gone[numdel]]
      list == ReleaseAll([l EXCEPT !.mid = MidAfterRange(from, numdel)], gone)
  IN [list EXCEPT !.next[lastvalid] = beyond, !.prev[beyond] = lastvalid,
                  !.numels = @ - numdel]

list_delete_range(from, to) ==
  \/ /\ ~l.iter_active /\ from <= to /\ to < l.numels
     /\ l' = IF to - from + 1 = l.numels THEN Cleared
                                         ELSE RangeDeleted(from, to)
     /\ ret' = to - from + 1
  \/ /\ l.iter_active \/ to < from \/ to >= l.numels
     /\ ret' = -1
     /\ UNCHANGED l

-----------------------------------------------------------------------------
\* Search

\* The position of the first element that is v, from the head on.
LocatePos(v) ==
  LET all == EntriesFrom(l.next[head_sentinel], l.numels)
      found == {i \in 1..l.numels : l.data[all[i]] = v}
  IN IF found = {} THEN -1 ELSE Min(found) - 1

list_locate(v) == ret' = LocatePos(v) /\ UNCHANGED l

list_seek(v) ==
  ret' = (IF LocatePos(v) >= 0 THEN v ELSE NULL) /\ UNCHANGED l

list_delete(v) ==
  \/ LocatePos(v) >= 0 /\ list_delete_at(LocatePos(v))
  \/ LocatePos(v) < 0 /\ ret' = -1 /\ UNCHANGED l

\* One position behind the last is the tail sentinel, without data.
list_get_at(pos) ==
  /\ ret' = IF pos > l.numels THEN NULL ELSE l.data[list_findpos(pos)]
  /\ UNCHANGED l

-----------------------------------------------------------------------------
\* Iteration

list_iterator_start ==
  \/ /\ ~l.iter_active
     /\ l' = [l EXCEPT !.iter_pos = 0, !.iter_active = TRUE,
                       !.iter_curentry = l.next[head_sentinel]]
     /\ ret' = 1
  \/ /\ l.iter_active
     /\ ret' = 0
     /\ UNCHANGED l

\* Called while list_iterator_hasnext().
list_iterator_next ==
  \/ /\ l.iter_active /\ l.iter_pos < l.numels
     /\ ret' = l.data[l.iter_curentry]
     /\ l' = [l EXCEPT !.iter_curentry = l.next[l.iter_curentry],
                       !.iter_pos = @ + 1]
  \/ /\ ~l.iter_active
     /\ ret' = NULL
     /\ UNCHANGED l

list_iterator_stop ==
  \/ /\ l.iter_active
     /\ l' = [l EXCEPT !.iter_pos = 0, !.iter_active = FALSE,
                       !.iter_curentry = NULL]
     /\ ret' = 1
  \/ /\ ~l.iter_active
     /\ ret' = 0
     /\ UNCHANGED l

-----------------------------------------------------------------------------
Init ==
  /\ \E copy \in CopyModes : l = NewList(copy)
  /\ ret = 0

Next ==
  \/ \E pos \in Positions :
       \/ list_delete_at(pos) \/ list_extract_at(pos) \/ list_get_at(pos)
       \/ \E v \in Values : list_insert_at(pos, v)
       \/ \E to \in Positions : list_delete_range(pos, to)
  \/ \E v \in Values : list_delete(v) \/ list_locate(v) \/ list_seek(v)
  \/ list_clear
  \/ list_iterator_start \/ list_iterator_next \/ list_iterator_stop

Spec == Init /\ [][Next]_vars

-----------------------------------------------------------------------------
\* Properties

InList == EntriesFrom(l.next[head_sentinel], l.numels)

\* What list_repOk() asserts after each function, whatever the order of the
\* calls and the failures of malloc(): the pointers agree in both directions,
\* mid is in the middle, and the tail follows the last element.
list_repOk ==
  /\ l.numels = 0 => l.mid = NULL
  /\ l.numels > 0 => l.mid = Walk(l.next, head_sentinel, MidPos(l.numels) + 1)
  /\ Walk(l.next, head_sentinel, l.numels + 1) = tail_sentinel
  /\ \A i \in 0..l.numels :
       LET s == Walk(l.next, head_sentinel, i) IN l.prev[l.next[s]] = s
  /\ Len(l.spareels) <= MaxSpares

\* Every entry and every copy of data that has been allocated is in the list
\* or, an entry, among the spare ones, once: nothing is lost, and nothing is
\* used that has been freed.
NothingLost ==
  LET spares == {l.spareels[i] : i \in 1..Len(l.spareels)}
      used == {InList[i] : i \in 1..l.numels}
  IN /\ l.heap = used \cup spares
     /\ Cardinality(used) = l.numels
     /\ Cardinality(spares) = Len(l.spareels)
     /\ used \cap spares = {}
     /\ l.copies = IF l.copy_data THEN l.numels ELSE 0

List ==
  INSTANCE ListSpec WITH
    seq <- [i \in 1..l.numels |-> l.data[InList[i]]],
    iter <- IF l.iter_active THEN l.iter_pos ELSE -1

\* The list implements the sequence of ListSpec: each function finds, adds or
\* removes the element it names, from whichever side it walks to it, and
\* returns what it should.
ImplementsListSpec == List!Spec

=============================================================================
