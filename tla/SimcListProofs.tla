--------------------------- MODULE SimcListProofs ---------------------------
(***************************************************************************)
(* Proofs about the list of simclist.c, for every number of elements and   *)
(* of spare entries.                                                       *)
(*                                                                         *)
(* The invariant says that there is a sequence of entries es, from the     *)
(* head sentinel es[0] to the tail sentinel es[numels + 1], along which    *)
(* the pointers lead in both directions.  mid, the iteration, the memory   *)
(* and the elements are described by es.  A function changes es:           *)
(* WithEntry() and WithoutEntries() say how, and the lemmas show that the  *)
(* pointers it sets are those of the new es.  From the same facts the      *)
(* elements are those that ListSpec has after the step.                    *)
(*                                                                         *)
(* Walk() and ReleaseAll() are recursive functions over 0..k; what they    *)
(* compute is proved with the least number for which it would be wrong     *)
(* (lemma Induction).                                                      *)
(***************************************************************************)
EXTENDS SimcList, FiniteSetTheorems, WellFoundedInduction, SequenceTheorems,
        TLAPS

-----------------------------------------------------------------------------
\* The entries es[0], es[1], ..., from the head to the tail sentinel, along
\* which the pointers lead in both directions.
Chain(next, prev, n, es) ==
  /\ n \in Nat
  /\ es \in [0 .. n + 1 -> Addresses]
  /\ next \in [Addresses -> Addresses]
  /\ prev \in [Addresses -> Addresses]
  /\ es[0] = head_sentinel /\ es[n + 1] = tail_sentinel
  /\ \A i \in 1..n : es[i] \in Entries
  /\ \A i, j \in 0 .. n + 1 : es[i] = es[j] => i = j
  /\ \A i \in 0..n : next[es[i]] = es[i + 1] /\ prev[es[i + 1]] = es[i]

\* mid is the entry in the middle.
MidOK(mid, n, es) ==
  IF n = 0 THEN mid = NULL ELSE mid = es[MidPos(n) + 1]

\* The spare entries.
Spares(spareels) == {spareels[i] : i \in 1..Len(spareels)}

\* The entries that hold an element.
Elements(n, es) == {es[i] : i \in 1..n}

\* The positions up to n hold different entries.
Distinct(f, n) == \A i, j \in 1..n : f[i] = f[j] => i = j

\* What has been allocated is in use or spare.
Memory(spareels, heap, used) ==
  /\ spareels \in Seq(Entries)
  /\ Len(spareels) <= MaxSpares
  /\ Distinct(spareels, Len(spareels))
  /\ heap = used \cup Spares(spareels)
  /\ used \cap Spares(spareels) = {}

\* The iteration is at the entry of the element it returns next.
IterOK(list, es) ==
  list.iter_active => /\ list.iter_pos \in 0..list.numels
                      /\ list.iter_curentry = es[list.iter_pos + 1]

\* The type of l.
ListRecords ==
  [numels : Nat, mid : Addresses, spareels : Seq(Entries), copy_data : BOOLEAN,
   next : [Addresses -> Addresses], prev : [Addresses -> Addresses],
   data : [Addresses -> Nat], iter_active : BOOLEAN, iter_pos : Nat,
   iter_curentry : Addresses, heap : SUBSET Entries, copies : Int]

\* The list is made of the entries es.
ListOK(list, es) ==
  /\ list \in ListRecords
  /\ Chain(list.next, list.prev, list.numels, es)
  /\ MidOK(list.mid, list.numels, es)
  /\ Memory(list.spareels, list.heap, Elements(list.numels, es))
  /\ list.data[tail_sentinel] = NULL
  /\ list.copies = IF list.copy_data THEN list.numels ELSE 0
  /\ IterOK(list, es)

\* The inductive invariant.
Inv == \E es : ListOK(l, es)

-----------------------------------------------------------------------------
\* The least of some natural numbers is one of them.
LEMMA MinNat ==
  ASSUME NEW S, S \subseteq Nat, S # {}
  PROVE  Min(S) \in S /\ \A x \in S : Min(S) <= x
<1>1. \E x \in S : \A y \in S : ~(<<y, x>> \in OpToRel(<, Nat))
  BY NatLessThanWellFounded, WFMin
<1>2. ASSUME NEW x \in Nat, NEW y \in Nat, y < x
      PROVE  <<y, x>> \in OpToRel(<, Nat)
  BY <1>2 DEF OpToRel
<1>3. \E x \in S : \A y \in S : x <= y
  <2>1. PICK x \in S : \A y \in S : ~(<<y, x>> \in OpToRel(<, Nat))
    BY <1>1
  <2>2. \A y \in S : ~(y < x)
    BY <1>2, <2>1
  <2>3. \A y \in S : x <= y
    BY <2>2
  <2> QED BY <2>3
<1> QED BY <1>3 DEF Min

\* Induction: numbers up to k without a first exception have none.
LEMMA Induction ==
  ASSUME NEW k \in Nat, NEW S, 0 \in S,
         \A i \in 0..k : i > 0 /\ i - 1 \in S => i \in S
  PROVE  \A i \in 0..k : i \in S
<1> DEFINE T == {i \in 0..k : i \notin S}
<1>1. SUFFICES ASSUME T # {} PROVE FALSE
  OBVIOUS
<1>2. PICK i \in T : \A x \in T : i <= x
  <2>1. T \subseteq Nat
    OBVIOUS
  <2> HIDE DEF T
  <2> QED BY <1>1, <2>1, MinNat
<1>3. i > 0 /\ i - 1 \in 0..k /\ i - 1 \notin T
  BY <1>2
<1> QED BY <1>3

-----------------------------------------------------------------------------
\* Walking along the pointers

\* Walk() goes along any sequence of entries that follows the pointers.
LEMMA WalkAlong ==
  ASSUME NEW f, NEW p, NEW k \in Nat, NEW g,
         g = [i \in 0..k |-> IF i = 0 THEN p ELSE f[g[i - 1]]]
  PROVE  Walk(f, p, k) = g[k]
<1> DEFINE at == CHOOSE h : h = [i \in 0..k |-> IF i = 0 THEN p ELSE f[h[i - 1]]]
<1>1. Walk(f, p, k) = at[k]
  BY DEF Walk
<1>2. at = [i \in 0..k |-> IF i = 0 THEN p ELSE f[at[i - 1]]]
  OBVIOUS
<1> HIDE DEF at
<1> DEFINE S == {i \in 0..k : at[i] = g[i]}
<1>3. 0 \in S
  BY <1>2
<1>4. \A i \in 0..k : i > 0 /\ i - 1 \in S => i \in S
  <2> TAKE i \in 0..k
  <2> HAVE i > 0 /\ i - 1 \in S
  <2>1. at[i] = f[at[i - 1]] /\ g[i] = f[g[i - 1]]
    BY <1>2
  <2> QED BY <2>1
<1>5. k \in S
  <2> HIDE DEF S
  <2> QED BY <1>3, <1>4, Induction
<1> QED BY <1>1, <1>5

\* k entries to the right of the one at a.
LEMMA WalkNext ==
  ASSUME NEW next, NEW prev, NEW n, NEW es, Chain(next, prev, n, es),
         NEW a \in 0 .. n + 1, NEW k \in Nat, a + k <= n + 1
  PROVE  Walk(next, es[a], k) = es[a + k]
<1> DEFINE g == [i \in 0..k |-> es[a + i]]
<1>0. n \in Nat /\ \A i \in 0..n : next[es[i]] = es[i + 1]
  BY DEF Chain
<1>1. g = [i \in 0..k |-> IF i = 0 THEN es[a] ELSE next[g[i - 1]]]
  <2>1. ASSUME NEW i \in 0..k
        PROVE  es[a + i] = IF i = 0 THEN es[a] ELSE next[g[i - 1]]
    <3>1. CASE i = 0
      BY <3>1
    <3>2. CASE i # 0
      <4>1. g[i - 1] = es[a + (i - 1)] /\ a + (i - 1) \in 0..n
                /\ a + (i - 1) + 1 = a + i
        BY <1>0, <3>2
      <4> HIDE DEF g
      <4> QED BY <1>0, <3>2, <4>1
    <3> QED BY <3>1, <3>2
  <2> QED BY <2>1
<1>2. g[k] = es[a + k]
  OBVIOUS
<1> HIDE DEF g
<1>3. Walk(next, es[a], k) = g[k]
  BY <1>1, WalkAlong
<1> QED BY <1>2, <1>3

\* k entries to the left of the one at a.
LEMMA WalkPrev ==
  ASSUME NEW next, NEW prev, NEW n, NEW es, Chain(next, prev, n, es),
         NEW a \in 0 .. n + 1, NEW k \in Nat, k <= a
  PROVE  Walk(prev, es[a], k) = es[a - k]
<1> DEFINE g == [i \in 0..k |-> es[a - i]]
<1>0. n \in Nat /\ \A i \in 0..n : prev[es[i + 1]] = es[i]
  BY DEF Chain
<1>1. g = [i \in 0..k |-> IF i = 0 THEN es[a] ELSE prev[g[i - 1]]]
  <2>1. ASSUME NEW i \in 0..k
        PROVE  es[a - i] = IF i = 0 THEN es[a] ELSE prev[g[i - 1]]
    <3>1. CASE i = 0
      BY <3>1
    <3>2. CASE i # 0
      <4>1. g[i - 1] = es[(a - i) + 1] /\ a - i \in 0..n
        <5>1. a - (i - 1) = (a - i) + 1
          OBVIOUS
        <5> QED BY <1>0, <3>2, <5>1
      <4> HIDE DEF g
      <4> QED BY <1>0, <3>2, <4>1
    <3> QED BY <3>1, <3>2
  <2> QED BY <2>1
<1>2. g[k] = es[a - k]
  OBVIOUS
<1> HIDE DEF g
<1>3. Walk(prev, es[a], k) = g[k]
  BY <1>1, WalkAlong
<1> QED BY <1>2, <1>3

\* The middle is in the list, as near to both ends.
LEMMA MidPosBounds ==
  ASSUME NEW n \in Nat, n > 0
  PROVE  \E m \in Nat : MidPos(n) = m /\ (n = 2 * m + 1 \/ n = 2 * m + 2)
BY DEF MidPos

\* list_findpos() finds the entry at a position, from whichever side it walks.
LEMMA FindPos ==
  ASSUME NEW es, Chain(l.next, l.prev, l.numels, es),
         MidOK(l.mid, l.numels, es), NEW pos \in -1 .. l.numels
  PROVE  list_findpos(pos) = es[pos + 1]
<1> DEFINE n == l.numels
<1>0. n \in Nat /\ es[0] = head_sentinel /\ es[n + 1] = tail_sentinel
  BY DEF Chain
<1>c. Chain(l.next, l.prev, n, es)
  OBVIOUS
<1> HIDE DEF n
<1>1. CASE n # 0 /\ 4 * (pos + 1) <= n
  <2>1. Walk(l.next, es[0], pos + 1) = es[0 + (pos + 1)]
    BY <1>0, WalkNext DEF n
  <2> QED BY <1>0, <1>1, <2>1 DEF list_findpos, n
<1>2. CASE n # 0 /\ 4 * (pos + 1) > n /\ 2 * (pos + 1) < n
  <2>1. PICK m \in Nat : MidPos(n) = m /\ (n = 2 * m + 1 \/ n = 2 * m + 2)
    BY <1>0, <1>2, MidPosBounds
  <2>2. m + 1 \in 0 .. n + 1 /\ m - pos \in Nat /\ m - pos <= m + 1
        /\ m + 1 - (m - pos) = pos + 1
    BY <1>0, <1>2, <2>1 DEF n
  <2>3. Walk(l.prev, es[m + 1], m - pos) = es[m + 1 - (m - pos)]
    BY <1>c, <2>2, WalkPrev
  <2>4. l.mid = es[m + 1]
    BY <1>2, <2>1 DEF MidOK, n
  <2>5. list_findpos(pos) = Walk(l.prev, l.mid, MidPos(n) - pos)
    <3>1. ~(4 * (pos + 1) <= n)
      BY <1>0, <1>2
    <3>2. ~(2 * (pos + 1) >= n)
      BY <1>0, <1>2
    <3> QED BY <1>2, <3>1, <3>2, Zenon DEF list_findpos, n
  <2> QED BY <2>1, <2>2, <2>3, <2>4, <2>5
<1>3. CASE n # 0 /\ 2 * (pos + 1) >= n /\ 4 * (pos + 1) <= 3 * n
  <2>1. PICK m \in Nat : MidPos(n) = m /\ (n = 2 * m + 1 \/ n = 2 * m + 2)
    BY <1>0, <1>3, MidPosBounds
  <2>2. m + 1 \in 0 .. n + 1 /\ pos - m \in Nat /\ m + 1 + (pos - m) <= n + 1
        /\ m + 1 + (pos - m) = pos + 1
    BY <1>0, <1>3, <2>1 DEF n
  <2>3. Walk(l.next, es[m + 1], pos - m) = es[m + 1 + (pos - m)]
    BY <1>c, <2>2, WalkNext
  <2>4. l.mid = es[m + 1]
    BY <1>3, <2>1 DEF MidOK, n
  <2>5. CASE 4 * (pos + 1) <= n
    BY <1>1, <1>3, <2>5
  <2>6. CASE ~(4 * (pos + 1) <= n)
    <3>1. list_findpos(pos) = Walk(l.next, l.mid, pos - MidPos(n))
      BY <1>3, <1>0, <2>6 DEF list_findpos, FromMid, n
    <3> QED BY <2>1, <2>2, <2>3, <2>4, <3>1
  <2> QED BY <2>5, <2>6
<1>4. CASE ~(n # 0 /\ 4 * (pos + 1) <= 3 * n)
  <2>1. PICK a, k : a = n + 1 /\ k = n - pos
    OBVIOUS
  <2>2. a \in 0 .. n + 1 /\ k \in Nat /\ k <= a /\ a - k = pos + 1
    BY <1>0, <2>1 DEF n
  <2>3. Walk(l.prev, es[a], k) = es[a - k]
    BY <1>c, <2>2, WalkPrev
  <2>4. list_findpos(pos) = Walk(l.prev, tail_sentinel, n - pos)
    BY <1>0, <1>4 DEF list_findpos, n
  <2> QED BY <1>0, <2>1, <2>2, <2>3, <2>4
<1> QED BY <1>0, <1>1, <1>2, <1>3, <1>4 DEF n

\* The entries from the one at a + 1 on.
LEMMA EntriesAlong ==
  ASSUME NEW es, Chain(l.next, l.prev, l.numels, es),
         NEW a \in 0..l.numels, NEW k \in Nat, a + k <= l.numels
  PROVE  EntriesFrom(es[a + 1], k) = [i \in 1..k |-> es[a + i]]
<1>1. l.numels \in Nat
  BY DEF Chain
<1>2. ASSUME NEW i \in 1..k PROVE Walk(l.next, es[a + 1], i - 1) = es[a + i]
  <2>1. PICK b, c : b = a + 1 /\ c = i - 1
    OBVIOUS
  <2>2. b \in 0 .. l.numels + 1 /\ c \in Nat /\ b + c <= l.numels + 1
        /\ b + c = a + i
    BY <1>1, <2>1
  <2>3. Walk(l.next, es[b], c) = es[b + c]
    BY <2>2, WalkNext
  <2> QED BY <2>1, <2>2, <2>3
<1> QED BY <1>2 DEF EntriesFrom

\* The entries in the list.
LEMMA InListAlong ==
  ASSUME NEW es, Chain(l.next, l.prev, l.numels, es)
  PROVE  /\ EntriesFrom(l.next[head_sentinel], l.numels) =
              [i \in 1..l.numels |-> es[i]]
         /\ InList = [i \in 1..l.numels |-> es[i]]
<1>1. l.numels \in Nat /\ l.next[head_sentinel] = es[1]
  BY DEF Chain
<1>2. EntriesFrom(es[0 + 1], l.numels) = [i \in 1..l.numels |-> es[0 + i]]
  BY <1>1, EntriesAlong
<1>3. [i \in 1..l.numels |-> es[0 + i]] = [i \in 1..l.numels |-> es[i]]
  OBVIOUS
<1>4. EntriesFrom(l.next[head_sentinel], l.numels)
        = [i \in 1..l.numels |-> es[i]]
  BY <1>1, <1>2, <1>3
<1> QED BY <1>4 DEF InList

-----------------------------------------------------------------------------
\* Pointers that change

\* The entries after e has been inserted at pos.
WithEntry(es, n, pos, e) ==
  [i \in 0 .. n + 2 |-> IF i <= pos THEN es[i]
                        ELSE IF i = pos + 1 THEN e ELSE es[i - 1]]

\* The entries after k of them, the first at from, have been removed.
WithoutEntries(es, n, from, k) ==
  [i \in 0 .. n - k + 1 |-> IF i <= from THEN es[i] ELSE es[i + k]]

\* Setting the four pointers inserts an entry.
LEMMA InsertChain ==
  ASSUME NEW next, NEW prev, NEW n, NEW es, Chain(next, prev, n, es),
         NEW pos \in 0..n, NEW e \in Entries, e \notin Elements(n, es),
         NEW next2, next2 = [next EXCEPT ![es[pos]] = e, ![e] = es[pos + 1]],
         NEW prev2, prev2 = [prev EXCEPT ![es[pos + 1]] = e, ![e] = es[pos]]
  PROVE  Chain(next2, prev2, n + 1, WithEntry(es, n, pos, e))
<1> DEFINE fs == WithEntry(es, n, pos, e)
<1>n. n \in Nat
  BY DEF Chain
<1>0. /\ es \in [0 .. n + 1 -> Addresses]
      /\ next \in [Addresses -> Addresses] /\ prev \in [Addresses -> Addresses]
      /\ es[0] = head_sentinel /\ es[n + 1] = tail_sentinel
      /\ e \in Addresses
  BY DEF Chain, Addresses
<1>d. \A i, j \in 0 .. n + 1 : es[i] = es[j] => i = j
  BY DEF Chain
<1>l. \A i \in 0..n : next[es[i]] = es[i + 1] /\ prev[es[i + 1]] = es[i]
  BY DEF Chain
<1>e. \A i \in 0 .. n + 1 : es[i] # e
  <2> TAKE i \in 0 .. n + 1
  <2>1. CASE i = 0
    BY <1>0, <2>1 DEF Entries, head_sentinel
  <2>2. CASE i = n + 1
    BY <1>0, <2>2 DEF Entries, tail_sentinel
  <2>3. CASE i \in 1..n
    BY <2>3 DEF Elements
  <2> QED BY <1>n, <2>1, <2>2, <2>3
<1>1. /\ \A i \in 0..pos : fs[i] = es[i]
      /\ fs[pos + 1] = e
      /\ \A i \in pos + 2 .. n + 2 : fs[i] = es[i - 1]
  BY <1>n DEF WithEntry
<1>2. fs \in [0 .. n + 2 -> Addresses]
  <2>1. ASSUME NEW i \in 0 .. n + 2
        PROVE  (IF i <= pos THEN es[i]
                ELSE IF i = pos + 1 THEN e ELSE es[i - 1]) \in Addresses
    BY <1>n, <1>0
  <2> QED BY <2>1 DEF WithEntry
<1>3. next2 \in [Addresses -> Addresses] /\ prev2 \in [Addresses -> Addresses]
  <2>1. es[pos] \in Addresses /\ es[pos + 1] \in Addresses
    BY <1>n, <1>0
  <2> QED BY <1>0, <2>1
<1>4. fs[0] = head_sentinel /\ fs[n + 2] = tail_sentinel
  <2>1. n + 2 \in pos + 2 .. n + 2 /\ n + 2 - 1 = n + 1
    BY <1>n
  <2> QED BY <1>n, <1>0, <1>1, <2>1
<1>5. ASSUME NEW i \in 1 .. n + 1 PROVE fs[i] \in Entries
  <2>1. \A k \in 1..n : es[k] \in Entries
    BY DEF Chain
  <2>2. CASE i <= pos
    BY <1>n, <1>1, <2>1, <2>2
  <2>3. CASE i = pos + 1
    BY <1>1, <2>3
  <2>4. CASE i > pos + 1
    <3>1. i \in pos + 2 .. n + 2 /\ i - 1 \in 1..n
      BY <1>n, <2>4
    <3> QED BY <1>1, <2>1, <3>1
  <2> QED BY <1>n, <2>2, <2>3, <2>4
<1>6. ASSUME NEW i \in 0 .. n + 2, NEW j \in 0 .. n + 2, fs[i] = fs[j]
      PROVE  i = j
  <2>1. \A k \in 0 .. n + 2 :
          \/ k \in 0..pos /\ fs[k] = es[k]
          \/ k = pos + 1 /\ fs[k] = e
          \/ k \in pos + 2 .. n + 2 /\ fs[k] = es[k - 1]
    BY <1>n, <1>1
  <2> QED BY <1>n, <1>d, <1>e, <1>6, <2>1
<1>7. ASSUME NEW i \in 0 .. n + 1
      PROVE  next2[fs[i]] = fs[i + 1] /\ prev2[fs[i + 1]] = fs[i]
  <2>0. /\ es[pos] \in Addresses /\ es[pos + 1] \in Addresses
        /\ es[pos] # e /\ es[pos + 1] # e
    BY <1>n, <1>0, <1>e
  <2>1. /\ next2[e] = es[pos + 1] /\ next2[es[pos]] = e
        /\ prev2[e] = es[pos] /\ prev2[es[pos + 1]] = e
    BY <1>0, <2>0
  <2>2. \A a \in Addresses : /\ a # e /\ a # es[pos] => next2[a] = next[a]
                             /\ a # e /\ a # es[pos + 1] => prev2[a] = prev[a]
    BY <1>0
  <2>3. CASE i < pos
    <3>1. i \in 0..pos /\ i + 1 \in 0..pos /\ i \in 0..n /\ i \in 0 .. n + 1
          /\ i + 1 \in 0 .. n + 1 /\ pos \in 0 .. n + 1 /\ pos + 1 \in 0 .. n + 1
      BY <1>n, <2>3
    <3>2. es[i] # es[pos] /\ es[i + 1] # es[pos + 1] /\ es[i] # e /\ es[i + 1] # e
      BY <1>n, <1>d, <1>e, <2>3, <3>1
    <3>3. next2[es[i]] = es[i + 1] /\ prev2[es[i + 1]] = es[i]
      BY <1>0, <1>l, <2>2, <3>1, <3>2
    <3> QED BY <1>1, <3>1, <3>3
  <2>4. CASE i = pos
    BY <1>1, <2>1, <2>4
  <2>5. CASE i = pos + 1
    <3>1. fs[pos + 2] = es[pos + 1]
      BY <1>n, <1>1, <2>5
    <3> QED BY <1>1, <2>1, <2>5, <3>1
  <2>6. CASE i > pos + 1
    <3>1. PICK k \in 0..n : k = i - 1
      BY <1>n, <2>6
    <3>2. k > pos /\ i = k + 1 /\ i + 1 - 1 = k + 1 /\ i \in pos + 2 .. n + 2
          /\ i + 1 \in pos + 2 .. n + 2
      BY <1>n, <2>6, <3>1
    <3>3. fs[i] = es[k] /\ fs[i + 1] = es[k + 1]
      BY <1>1, <3>1, <3>2
    <3>4. k \in 0 .. n + 1 /\ k + 1 \in 0 .. n + 1 /\ pos \in 0 .. n + 1
          /\ pos + 1 \in 0 .. n + 1 /\ k # pos /\ k + 1 # pos + 1
      BY <1>n, <3>2
    <3>5. es[k] # es[pos] /\ es[k + 1] # es[pos + 1] /\ es[k] # e /\ es[k + 1] # e
      BY <1>d, <1>e, <3>4
    <3>6. next2[es[k]] = es[k + 1] /\ prev2[es[k + 1]] = es[k]
      BY <1>0, <1>l, <2>2, <3>4, <3>5
    <3> QED BY <3>3, <3>6
  <2> QED BY <1>n, <2>3, <2>4, <2>5, <2>6
<1>8. n + 1 \in Nat /\ n + 1 + 1 = n + 2
  BY <1>n
<1> HIDE DEF fs
<1>9. Chain(next2, prev2, n + 1, fs)
  BY <1>2, <1>3, <1>4, <1>5, <1>6, <1>7, <1>8 DEF Chain
<1> QED BY <1>9 DEF fs

\* The pointers next2 and prev2 lead around the k entries behind the one at
\* from.
LeadAround(next2, prev2, next, prev, n, es, from, k) ==
  /\ from \in 0..n /\ k \in Nat /\ from + k <= n
  /\ next2 \in [Addresses -> Addresses]
  /\ prev2 \in [Addresses -> Addresses]
  /\ next2[es[from]] = es[from + k + 1]
  /\ prev2[es[from + k + 1]] = es[from]
  /\ \A i \in 0..n : i < from \/ i > from + k => next2[es[i]] = next[es[i]]
  /\ \A i \in 1 .. n + 1 : i <= from \/ i > from + k + 1 =>
                             prev2[es[i]] = prev[es[i]]

\* Pointers that lead around k entries, and are the old ones elsewhere, remove
\* them.
LEMMA RemoveChain ==
  ASSUME NEW next, NEW prev, NEW n, NEW es, Chain(next, prev, n, es),
         NEW from, NEW k, NEW next2, NEW prev2,
         LeadAround(next2, prev2, next, prev, n, es, from, k)
  PROVE  Chain(next2, prev2, n - k, WithoutEntries(es, n, from, k))
<1> SUFFICES
      ASSUME from \in 0..n, k \in Nat, from + k <= n,
             next2 \in [Addresses -> Addresses],
             prev2 \in [Addresses -> Addresses],
             next2[es[from]] = es[from + k + 1],
             prev2[es[from + k + 1]] = es[from],
             \A i \in 0..n :
               i < from \/ i > from + k => next2[es[i]] = next[es[i]],
             \A i \in 1 .. n + 1 :
               i <= from \/ i > from + k + 1 => prev2[es[i]] = prev[es[i]]
      PROVE  Chain(next2, prev2, n - k, WithoutEntries(es, n, from, k))
  BY DEF LeadAround
<1> DEFINE fs == WithoutEntries(es, n, from, k)
<1>n. n \in Nat
  BY DEF Chain
<1>0. /\ es \in [0 .. n + 1 -> Addresses]
      /\ es[0] = head_sentinel /\ es[n + 1] = tail_sentinel
  BY DEF Chain
<1>d. \A i, j \in 0 .. n + 1 : es[i] = es[j] => i = j
  BY DEF Chain
<1>l. \A i \in 0..n : next[es[i]] = es[i + 1] /\ prev[es[i + 1]] = es[i]
  BY DEF Chain
<1>1. /\ \A i \in 0..from : fs[i] = es[i]
      /\ \A i \in from + 1 .. n - k + 1 : fs[i] = es[i + k]
  BY <1>n DEF WithoutEntries
<1>2. fs \in [0 .. n - k + 1 -> Addresses]
  <2>1. ASSUME NEW i \in 0 .. n - k + 1
        PROVE  (IF i <= from THEN es[i] ELSE es[i + k]) \in Addresses
    BY <1>n, <1>0
  <2> QED BY <2>1 DEF WithoutEntries
<1>4. fs[0] = head_sentinel /\ fs[n - k + 1] = tail_sentinel
  <2>1. n - k + 1 \in from + 1 .. n - k + 1 /\ n - k + 1 + k = n + 1
    BY <1>n
  <2> QED BY <1>n, <1>0, <1>1, <2>1
<1>5. ASSUME NEW i \in 1 .. n - k PROVE fs[i] \in Entries
  <2>1. \A j \in 1..n : es[j] \in Entries
    BY DEF Chain
  <2>2. CASE i <= from
    BY <1>n, <1>1, <2>1, <2>2
  <2>3. CASE i > from
    <3>1. i \in from + 1 .. n - k + 1 /\ i + k \in 1..n
      BY <1>n, <2>3
    <3> QED BY <1>1, <2>1, <3>1
  <2> QED BY <1>n, <2>2, <2>3
<1>6. ASSUME NEW i \in 0 .. n - k + 1, NEW j \in 0 .. n - k + 1, fs[i] = fs[j]
      PROVE  i = j
  <2>1. \A m \in 0 .. n - k + 1 :
          \/ m \in 0..from /\ fs[m] = es[m]
          \/ m \in from + 1 .. n - k + 1 /\ fs[m] = es[m + k]
    BY <1>n, <1>1
  <2> QED BY <1>n, <1>d, <1>6, <2>1
<1>7. ASSUME NEW i \in 0 .. n - k
      PROVE  next2[fs[i]] = fs[i + 1] /\ prev2[fs[i + 1]] = fs[i]
  <2>1. CASE i < from
    <3>1. i \in 0..from /\ i + 1 \in 0..from /\ i \in 0..n
          /\ i + 1 \in 1 .. n + 1 /\ i + 1 <= from
      BY <1>n, <2>1
    <3>2. next2[es[i]] = es[i + 1] /\ prev2[es[i + 1]] = es[i]
      BY <1>l, <2>1, <3>1
    <3> QED BY <1>1, <3>1, <3>2
  <2>2. CASE i = from
    <3>1. from \in 0..from /\ from + 1 \in from + 1 .. n - k + 1
          /\ from + 1 + k = from + k + 1
      BY <1>n
    <3> QED BY <1>1, <2>2, <3>1
  <2>3. CASE i > from
    <3>1. PICK j \in 0..n : j = i + k
      BY <1>n, <2>3
    <3>2. i \in from + 1 .. n - k + 1 /\ i + 1 \in from + 1 .. n - k + 1
          /\ i + 1 + k = j + 1 /\ j > from + k /\ j + 1 \in 1 .. n + 1
          /\ j + 1 > from + k + 1
      BY <1>n, <2>3, <3>1
    <3>3. next2[es[j]] = es[j + 1] /\ prev2[es[j + 1]] = es[j]
      BY <1>l, <3>2
    <3>4. fs[i] = es[j] /\ fs[i + 1] = es[j + 1]
      BY <1>1, <3>1, <3>2
    <3> QED BY <3>3, <3>4
  <2> QED BY <1>n, <2>1, <2>2, <2>3
<1>8. n - k \in Nat
  BY <1>n
<1> HIDE DEF fs
<1>9. Chain(next2, prev2, n - k, fs)
  BY <1>2, <1>4, <1>5, <1>6, <1>7, <1>8 DEF Chain
<1> QED BY <1>9 DEF fs

-----------------------------------------------------------------------------
\* The middle

\* The middle after an insertion.
LEMMA InsertMid ==
  ASSUME NEW es, Chain(l.next, l.prev, l.numels, es),
         MidOK(l.mid, l.numels, es), NEW pos \in 0..l.numels,
         NEW e, NEW next2, NEW prev2,
         Chain(next2, prev2, l.numels + 1, WithEntry(es, l.numels, pos, e))
  PROVE  MidOK(MidAfterInsert(l.numels + 1, pos, next2, prev2, e),
               l.numels + 1, WithEntry(es, l.numels, pos, e))
<1>1. PICK n, fs : n = l.numels /\ fs = WithEntry(es, l.numels, pos, e)
  OBVIOUS
<1>n. n \in Nat /\ pos \in 0..n
  BY <1>1 DEF Chain
<1>2. /\ \A i \in 0..pos : fs[i] = es[i]
      /\ fs[pos + 1] = e
      /\ \A i \in pos + 2 .. n + 2 : fs[i] = es[i - 1]
  BY <1>1, <1>n DEF WithEntry
<1>3. \A i \in 0 .. n + 1 : next2[fs[i]] = fs[i + 1] /\ prev2[fs[i + 1]] = fs[i]
  BY <1>1, <1>n DEF Chain
<1>4. PICK mid : mid = l.mid
  OBVIOUS
<1>5. SUFFICES MidOK(MidAfterInsert(n + 1, pos, next2, prev2, e), n + 1, fs)
  BY <1>1
<1>6. CASE n = 0
  BY <1>n, <1>2, <1>6 DEF MidOK, MidAfterInsert, MidPos
<1>7. CASE n # 0
  <2>1. PICK m \in Nat : MidPos(n) = m /\ (n = 2 * m + 1 \/ n = 2 * m + 2)
    BY <1>n, <1>7, MidPosBounds
  <2>2. mid = es[m + 1]
    BY <1>1, <1>4, <1>7, <2>1 DEF MidOK
  <2>3. CASE n = 2 * m + 1
    <3>1. MidPos(n + 1) = m /\ (n + 1) % 2 = 0 /\ n + 1 # 1
      BY <1>n, <2>3 DEF MidPos
    <3>2. MidAfterInsert(n + 1, pos, next2, prev2, e)
            = IF pos <= m THEN prev2[mid] ELSE mid
      BY <1>4, <3>1 DEF MidAfterInsert
    <3>3. (IF pos <= m THEN prev2[mid] ELSE mid) = fs[m + 1]
      <4>1. CASE pos <= m
        <5>1. m + 2 \in pos + 2 .. n + 2 /\ m + 2 - 1 = m + 1
              /\ m + 1 \in 0 .. n + 1 /\ m + 1 + 1 = m + 2
          BY <1>n, <2>3, <4>1
        <5>2. fs[m + 2] = mid
          BY <1>2, <2>2, <5>1
        <5>3. prev2[fs[m + 2]] = fs[m + 1]
          BY <1>3, <5>1
        <5> QED BY <4>1, <5>2, <5>3
      <4>2. CASE ~(pos <= m)
        <5>1. m + 1 \in 0..pos
          BY <1>n, <4>2
        <5> QED BY <1>2, <2>2, <4>2, <5>1
      <4> QED BY <4>1, <4>2
    <3> QED BY <1>n, <3>1, <3>2, <3>3 DEF MidOK
  <2>4. CASE n = 2 * m + 2
    <3>1. MidPos(n + 1) = m + 1 /\ (n + 1) % 2 = 1 /\ n + 1 # 1
      BY <1>n, <2>4 DEF MidPos
    <3>2. MidAfterInsert(n + 1, pos, next2, prev2, e)
            = IF pos >= m + 1 THEN next2[mid] ELSE mid
      BY <1>4, <3>1 DEF MidAfterInsert
    <3>3. (IF pos >= m + 1 THEN next2[mid] ELSE mid) = fs[m + 2]
      <4>1. CASE pos >= m + 1
        <5>1. m + 1 \in 0..pos /\ m + 1 \in 0 .. n + 1 /\ m + 1 + 1 = m + 2
          BY <1>n, <2>4, <4>1
        <5>2. fs[m + 1] = mid
          BY <1>2, <2>2, <5>1
        <5>3. next2[fs[m + 1]] = fs[m + 2]
          BY <1>3, <5>1
        <5> QED BY <4>1, <5>2, <5>3
      <4>2. CASE ~(pos >= m + 1)
        <5>1. m + 2 \in pos + 2 .. n + 2 /\ m + 2 - 1 = m + 1
          BY <1>n, <2>4, <4>2
        <5> QED BY <1>2, <2>2, <4>2, <5>1
      <4> QED BY <4>1, <4>2
    <3>4. m + 1 + 1 = m + 2
      OBVIOUS
    <3> QED BY <1>n, <3>1, <3>2, <3>3, <3>4 DEF MidOK
  <2> QED BY <2>1, <2>3, <2>4
<1> QED BY <1>6, <1>7

\* The middle after a removal.
LEMMA DropMid ==
  ASSUME NEW es, Chain(l.next, l.prev, l.numels, es),
         MidOK(l.mid, l.numels, es), NEW pos \in Nat, pos < l.numels
  PROVE  MidOK(MidAfterDrop(pos), l.numels - 1,
               WithoutEntries(es, l.numels, pos, 1))
<1>1. PICK n, fs : n = l.numels /\ fs = WithoutEntries(es, l.numels, pos, 1)
  OBVIOUS
<1>n. n \in Nat /\ pos < n
  BY <1>1 DEF Chain
<1>2. /\ \A i \in 0..pos : fs[i] = es[i]
      /\ \A i \in pos + 1 .. n : fs[i] = es[i + 1]
  BY <1>1, <1>n DEF WithoutEntries
<1>3. \A i \in 0..n : l.next[es[i]] = es[i + 1] /\ l.prev[es[i + 1]] = es[i]
  BY <1>1, <1>n DEF Chain
<1>4. PICK mid, next, prev : mid = l.mid /\ next = l.next /\ prev = l.prev
  OBVIOUS
<1>5. SUFFICES MidOK(MidAfterDrop(pos), n - 1, fs)
  BY <1>1
<1>6. CASE n = 1
  BY <1>1, <1>n, <1>6 DEF MidOK, MidAfterDrop
<1>7. CASE n # 1
  <2>1. PICK m \in Nat : MidPos(n) = m /\ (n = 2 * m + 1 \/ n = 2 * m + 2)
    BY <1>n, MidPosBounds
  <2>2. mid = es[m + 1]
    BY <1>1, <1>n, <1>4, <2>1 DEF MidOK
  <2>3. CASE n = 2 * m + 1
    <3>1. MidPos(n - 1) = m - 1 /\ n % 2 = 1 /\ n \div 2 = m /\ n - 1 # 0
      BY <1>n, <1>7, <2>3 DEF MidPos
    <3>2. MidAfterDrop(pos) = IF pos >= m THEN prev[mid] ELSE mid
      BY <1>1, <1>4, <1>7, <3>1 DEF MidAfterDrop
    <3>3. (IF pos >= m THEN prev[mid] ELSE mid) = fs[m]
      <4>1. CASE pos >= m
        <5>1. m \in 0..pos /\ m \in 0..n
          BY <1>n, <2>3, <4>1
        <5>2. prev[es[m + 1]] = es[m]
          BY <1>3, <1>4, <5>1
        <5> QED BY <1>2, <2>2, <4>1, <5>1, <5>2
      <4>2. CASE ~(pos >= m)
        <5>1. m \in pos + 1 .. n
          BY <1>n, <2>3, <4>2
        <5> QED BY <1>2, <2>2, <4>2, <5>1
      <4> QED BY <4>1, <4>2
    <3>4. m - 1 + 1 = m
      OBVIOUS
    <3> QED BY <1>n, <3>1, <3>2, <3>3, <3>4 DEF MidOK
  <2>4. CASE n = 2 * m + 2
    <3>1. MidPos(n - 1) = m /\ n % 2 = 0 /\ n \div 2 = m + 1 /\ n - 1 # 0
      BY <1>n, <1>7, <2>4 DEF MidPos
    <3>2. MidAfterDrop(pos) = IF pos < m + 1 THEN next[mid] ELSE mid
      BY <1>1, <1>4, <1>7, <3>1 DEF MidAfterDrop
    <3>3. (IF pos < m + 1 THEN next[mid] ELSE mid) = fs[m + 1]
      <4>1. CASE pos < m + 1
        <5>1. m + 1 \in pos + 1 .. n /\ m + 1 \in 0..n
          BY <1>n, <2>4, <4>1
        <5>2. next[es[m + 1]] = es[m + 1 + 1]
          BY <1>3, <1>4, <5>1
        <5> QED BY <1>2, <2>2, <4>1, <5>1, <5>2
      <4>2. CASE ~(pos < m + 1)
        <5>1. m + 1 \in 0..pos
          BY <1>n, <4>2
        <5> QED BY <1>2, <2>2, <4>2, <5>1
      <4> QED BY <4>1, <4>2
    <3> QED BY <1>n, <3>1, <3>2, <3>3 DEF MidOK
  <2> QED BY <2>1, <2>3, <2>4
<1> QED BY <1>6, <1>7

\* The middle after some, not all, of the elements have been removed.
LEMMA RangeMid ==
  ASSUME NEW es, Chain(l.next, l.prev, l.numels, es),
         MidOK(l.mid, l.numels, es), NEW from \in Nat, NEW k \in Nat,
         k > 0, from + k <= l.numels, k < l.numels
  PROVE  /\ MidOK(MidAfterRange(from, k), l.numels - k,
                  WithoutEntries(es, l.numels, from, k))
         /\ MidAfterRange(from, k) \in Addresses
<1>1. PICK n, fs : n = l.numels /\ fs = WithoutEntries(es, l.numels, from, k)
  OBVIOUS
<1>n. n \in Nat /\ from + k <= n /\ k < n /\ es \in [0 .. n + 1 -> Addresses]
  BY <1>1 DEF Chain
<1>2. /\ \A i \in 0..from : fs[i] = es[i]
      /\ \A i \in from + 1 .. n - k + 1 : fs[i] = es[i + k]
  BY <1>1, <1>n DEF WithoutEntries
<1>3. PICK m \in Nat : MidPos(n) = m /\ (n = 2 * m + 1 \/ n = 2 * m + 2)
  BY <1>n, MidPosBounds
<1>4. l.mid = es[m + 1]
  BY <1>1, <1>n, <1>3 DEF MidOK
<1>5. PICK after \in Nat : /\ after = (n - 1 - k) \div 2
                           /\ after = MidPos(n - k)
                           /\ after < n - k
  BY <1>n DEF MidPos
<1>6. PICK pos \in Nat : pos = IF after < from THEN after ELSE after + k
  BY <1>5
<1>7. pos < n
  BY <1>n, <1>5, <1>6
<1>8. MidAfterRange(from, k) =
        IF pos - m > 0 THEN Walk(l.next, l.mid, pos - m)
                       ELSE Walk(l.prev, l.mid, -(pos - m))
  BY <1>1, <1>3, <1>5, <1>6 DEF MidAfterRange
<1>9. MidAfterRange(from, k) = es[pos + 1]
  <2>1. CASE pos - m > 0
    <3>1. PICK a, b : a = m + 1 /\ b = pos - m
      OBVIOUS
    <3>2. a \in 0 .. n + 1 /\ b \in Nat /\ a + b <= n + 1 /\ a + b = pos + 1
      BY <1>n, <1>3, <1>7, <2>1, <3>1
    <3>3. Walk(l.next, es[a], b) = es[a + b]
      BY <1>1, <3>2, WalkNext
    <3> QED BY <1>4, <1>8, <2>1, <3>1, <3>2, <3>3
  <2>2. CASE ~(pos - m > 0)
    <3>1. PICK a, b : a = m + 1 /\ b = -(pos - m)
      OBVIOUS
    <3>2. a \in 0 .. n + 1 /\ b \in Nat /\ b <= a /\ a - b = pos + 1
      BY <1>n, <1>3, <1>7, <2>2, <3>1
    <3>3. Walk(l.prev, es[a], b) = es[a - b]
      BY <1>1, <3>2, WalkPrev
    <3> QED BY <1>4, <1>8, <2>2, <3>1, <3>2, <3>3
  <2> QED BY <2>1, <2>2
<1>10. es[pos + 1] = fs[after + 1]
  <2>1. CASE after < from
    <3>1. after + 1 \in 0..from
      BY <2>1
    <3> QED BY <1>2, <1>6, <2>1, <3>1
  <2>2. CASE ~(after < from)
    <3>1. after + 1 \in from + 1 .. n - k + 1 /\ after + 1 + k = pos + 1
      BY <1>n, <1>5, <1>6, <2>2
    <3> QED BY <1>2, <3>1
  <2> QED BY <2>1, <2>2
<1>11. n - k # 0 /\ es[pos + 1] \in Addresses
  BY <1>n, <1>7
<1> QED BY <1>1, <1>5, <1>9, <1>10, <1>11 DEF MidOK

-----------------------------------------------------------------------------
\* Memory

\* The entries of an array without repetition, after the last one has been
\* taken.
LEMMA LastTaken ==
  ASSUME NEW S, NEW s \in Seq(S), s # <<>>,
         Distinct(s, Len(s)),
         NEW t, t = SubSeq(s, 1, Len(s) - 1)
  PROVE  /\ t \in Seq(S) /\ Len(t) = Len(s) - 1
         /\ Distinct(t, Len(t))
         /\ Spares(t) = Spares(s) \ {s[Len(s)]}
         /\ s[Len(s)] \in Spares(s)
<1>1. PICK k \in Nat : k = Len(s) /\ k > 0
  BY EmptySeq
<1>2. \A i \in 1..k : s[i] \in S
  BY <1>1
<1>3. t = SubSeq(s, 1, k - 1)
  BY <1>1
<1>4. t \in Seq(S) /\ Len(t) = k - 1 /\ \A i \in 1 .. k - 1 : t[i] = s[i]
  <2>1. \A i \in 1 .. k - 1 : s[i] \in S
    BY <1>1, <1>2
  <2>2. /\ t \in Seq(S)
        /\ Len(t) = IF 1 <= k - 1 THEN k - 1 - 1 + 1 ELSE 0
        /\ \A i \in 1 .. k - 1 - 1 + 1 : t[i] = s[1 + i - 1]
    BY <1>1, <1>3, <2>1, SubSeqProperties
  <2> QED BY <1>1, <2>2
<1>5. \A i, j \in 1..k : s[i] = s[j] => i = j
  BY <1>1 DEF Distinct
<1>d. Distinct(t, k - 1)
  BY <1>1, <1>4, <1>5 DEF Distinct
<1>6. Spares(t) = Spares(s) \ {s[k]}
  <2>1. ASSUME NEW x \in Spares(t) PROVE x \in Spares(s) \ {s[k]}
    <3>1. PICK i \in 1 .. k - 1 : x = s[i]
      BY <1>4 DEF Spares
    <3>2. i \in 1..k /\ i # k /\ k \in 1..k
      BY <1>1
    <3> QED BY <1>1, <1>5, <3>1, <3>2 DEF Spares
  <2>2. ASSUME NEW x \in Spares(s) \ {s[k]} PROVE x \in Spares(t)
    <3>1. PICK i \in 1..k : x = s[i]
      BY <1>1 DEF Spares
    <3>2. i \in 1 .. k - 1
      BY <1>1, <3>1
    <3> QED BY <1>4, <3>1, <3>2 DEF Spares
  <2> QED BY <2>1, <2>2
<1>7. s[k] \in Spares(s)
  BY <1>1 DEF Spares
<1> QED BY <1>1, <1>4, <1>d, <1>6, <1>7

\* The entries of an array without repetition, after another has been put
\* into it.
LEMMA EntryPut ==
  ASSUME NEW S, NEW s \in Seq(S), NEW e \in S, e \notin Spares(s),
         Distinct(s, Len(s))
  PROVE  /\ Append(s, e) \in Seq(S) /\ Len(Append(s, e)) = Len(s) + 1
         /\ Distinct(Append(s, e), Len(Append(s, e)))
         /\ Spares(Append(s, e)) = Spares(s) \cup {e}
<1>0. PICK t : t = Append(s, e)
  OBVIOUS
<1>1. PICK k \in Nat : k = Len(s)
  OBVIOUS
<1>2. /\ t \in Seq(S) /\ Len(t) = k + 1 /\ t[k + 1] = e
      /\ \A i \in 1..k : t[i] = s[i]
  BY <1>0, <1>1, AppendProperties
<1>3. \A i, j \in 1..k : s[i] = s[j] => i = j
  BY <1>1 DEF Distinct
<1>4. \A i \in 1..k : s[i] # e
  BY <1>1 DEF Spares
<1>5. Distinct(t, k + 1)
  <2>1. \A i \in 1 .. k + 1 : i \in 1..k \/ i = k + 1
    BY <1>1
  <2> QED BY <1>2, <1>3, <1>4, <2>1 DEF Distinct
<1>6. Spares(t) = Spares(s) \cup {e}
  <2>1. ASSUME NEW x \in Spares(t) PROVE x \in Spares(s) \cup {e}
    <3>1. PICK i \in 1 .. k + 1 : x = t[i]
      BY <1>2 DEF Spares
    <3>2. i \in 1..k \/ i = k + 1
      OBVIOUS
    <3> QED BY <1>1, <1>2, <3>1, <3>2 DEF Spares
  <2>2. ASSUME NEW x \in Spares(s) PROVE x \in Spares(t)
    <3>1. PICK i \in 1..k : x = s[i]
      BY <1>1 DEF Spares
    <3>2. i \in 1 .. k + 1
      OBVIOUS
    <3> QED BY <1>2, <3>1, <3>2 DEF Spares
  <2>3. e \in Spares(t)
    <3>1. k + 1 \in 1 .. k + 1
      OBVIOUS
    <3> QED BY <1>2, <3>1 DEF Spares
  <2> QED BY <2>1, <2>2, <2>3
<1> QED BY <1>0, <1>1, <1>2, <1>5, <1>6

\* As many different entries as positions.
LEMMA CountPositions ==
  ASSUME NEW n \in Nat, NEW f, Distinct(f, n),
         NEW T, T = {f[i] : i \in 1..n}
  PROVE  IsFiniteSet(T) /\ Cardinality(T) = n
<1> DEFINE g == [i \in 1..n |-> f[i]]
<1>1. g \in Bijection(1..n, T)
  <2>1. g \in [1..n -> T]
    OBVIOUS
  <2>2. \A i, j \in 1..n : g[i] = g[j] => i = j
    BY DEF Distinct
  <2>3. \A x \in T : \E i \in 1..n : g[i] = x
    OBVIOUS
  <2> HIDE DEF g
  <2>4. g \in Injection(1..n, T)
    BY <2>1, <2>2 DEF Injection, IsInjective
  <2>5. g \in Surjection(1..n, T)
    BY <2>1, <2>3, Zenon DEF Surjection
  <2> QED BY <2>4, <2>5 DEF Bijection
<1> HIDE DEF g
<1>2. ExistsBijection(1..n, T)
  BY <1>1 DEF ExistsBijection
<1>3. IsFiniteSet(1..n)
  BY FS_Interval
<1> QED BY <1>2, <1>3, FS_Bijection, FS_CountingElements

\* There is an entry for a new element: the last spare one, or one that has not
\* been allocated.
LEMMA NewEntryIsNew ==
  ASSUME NEW es, ListOK(l, es), l.spareels # <<>> \/ l.numels < MaxElements
  PROVE  NewEntry \in Entries /\ NewEntry \notin Elements(l.numels, es)
<1>0. Memory(l.spareels, l.heap, Elements(l.numels, es))
  BY DEF ListOK
<1>1. CASE l.spareels # <<>>
  <2>1. l.spareels[Len(l.spareels)] \in Spares(l.spareels)
    BY <1>0, <1>1, LastTaken DEF Memory
  <2>2. Spares(l.spareels) \subseteq Entries
    BY <1>0 DEF Memory, Spares
  <2> QED BY <1>0, <1>1, <2>1, <2>2 DEF Memory, NewEntry
<1>2. CASE l.spareels = <<>>
  <2>1. Spares(l.spareels) = {}
    BY <1>2 DEF Spares
  <2>2. l.heap = Elements(l.numels, es)
    BY <1>0, <2>1 DEF Memory
  <2>3. PICK n : n = l.numels
    OBVIOUS
  <2>4. n \in Nat /\ n < MaxElements /\ Distinct(es, n)
    BY <1>2, <2>3 DEF ListOK, Chain, Distinct
  <2>5. IsFiniteSet(l.heap) /\ Cardinality(l.heap) = n
    BY <2>2, <2>3, <2>4, CountPositions DEF Elements
  <2>6. Cardinality(Entries) = MaxElements + MaxSpares
    <3>1. 3 \in Int /\ MaxElements + MaxSpares + 2 \in Int
      BY ListAssumption
    <3>2. PICK top \in Int : top = MaxElements + MaxSpares + 2
      BY <3>1
    <3>3. \A a, b \in Int : Cardinality(a..b) = IF a > b THEN 0 ELSE b - a + 1
      BY FS_Interval
    <3>4. Entries = 3..top
      BY <3>2 DEF Entries
    <3>5. top - 3 + 1 = MaxElements + MaxSpares /\ ~(3 > top)
      BY <2>4, <3>2, ListAssumption
    <3> QED BY <3>3, <3>4, <3>5
  <2>7. Entries \ l.heap # {}
    <3>1. SUFFICES ASSUME Entries \subseteq l.heap PROVE FALSE
      OBVIOUS
    <3>2. Cardinality(Entries) <= Cardinality(l.heap)
      BY <2>5, <3>1, FS_Subset
    <3> QED BY <2>4, <2>5, <2>6, <3>2, ListAssumption
  <2>8. Entries \ l.heap \subseteq Nat
    BY ListAssumption DEF Entries
  <2>9. Min(Entries \ l.heap) \in Entries \ l.heap
    BY <2>7, <2>8, MinNat
  <2> QED BY <1>2, <2>2, <2>9 DEF NewEntry
<1> QED BY <1>1, <1>2

\* The memory after an entry has been taken for a new element.
LEMMA TakeMemory ==
  ASSUME NEW used, Memory(l.spareels, l.heap, used),
         NEW e, e = NewEntry, e \in Entries, e \notin used,
         NEW s, s = IF l.spareels = <<>> THEN <<>>
                    ELSE SubSeq(l.spareels, 1, Len(l.spareels) - 1)
  PROVE  Memory(s, l.heap \cup {e}, used \cup {e})
<1>0. PICK t, h : t = l.spareels /\ h = l.heap
  OBVIOUS
<1>m. /\ t \in Seq(Entries) /\ Len(t) <= MaxSpares
      /\ Distinct(t, Len(t))
      /\ h = used \cup Spares(t)
      /\ used \cap Spares(t) = {}
  BY <1>0 DEF Memory
<1>1. CASE t = <<>>
  <2>1. s = <<>> /\ Spares(t) = {} /\ Spares(s) = {} /\ Len(s) <= MaxSpares
    BY <1>0, <1>1, <1>m DEF Spares
  <2>2. s = t
    BY <1>1, <2>1
  <2> QED BY <1>0, <1>m, <2>1, <2>2 DEF Memory
<1>2. CASE t # <<>>
  <2>1. s = SubSeq(t, 1, Len(t) - 1) /\ e = t[Len(t)]
    BY <1>0, <1>2 DEF NewEntry
  <2>2. /\ s \in Seq(Entries) /\ Len(s) = Len(t) - 1
        /\ Distinct(s, Len(s))
        /\ Spares(s) = Spares(t) \ {e}
        /\ e \in Spares(t)
    BY <1>m, <1>2, <2>1, LastTaken
  <2>3. Len(s) <= MaxSpares
    <3>1. PICK a, b : a = Len(s) /\ b = Len(t)
      OBVIOUS
    <3>2. a = b - 1 /\ b <= MaxSpares /\ b \in Nat
      BY <1>m, <2>2, <3>1
    <3> QED BY <3>1, <3>2, ListAssumption
  <2>4. h \cup {e} = (used \cup {e}) \cup Spares(s)
        /\ (used \cup {e}) \cap Spares(s) = {}
    BY <1>m, <2>2
  <2> QED BY <1>0, <2>2, <2>3, <2>4 DEF Memory
<1> QED BY <1>1, <1>2

\* The memory after a spare entry has been freed.
LEMMA FreeMemory ==
  ASSUME NEW used, Memory(l.spareels, l.heap, used), l.spareels # <<>>
  PROVE  Memory(SubSeq(l.spareels, 1, Len(l.spareels) - 1),
                l.heap \ {NewEntry}, used)
<1>0. PICK t, h, s, e : /\ t = l.spareels /\ h = l.heap
                        /\ s = SubSeq(t, 1, Len(t) - 1) /\ e = NewEntry
  OBVIOUS
<1>m. /\ t \in Seq(Entries) /\ Len(t) <= MaxSpares
      /\ Distinct(t, Len(t))
      /\ h = used \cup Spares(t)
      /\ used \cap Spares(t) = {}
  BY <1>0 DEF Memory
<1>1. e = t[Len(t)]
  BY <1>0 DEF NewEntry
<1>2. /\ s \in Seq(Entries) /\ Len(s) = Len(t) - 1
      /\ Distinct(s, Len(s))
      /\ Spares(s) = Spares(t) \ {e}
      /\ e \in Spares(t)
  BY <1>0, <1>m, <1>1, LastTaken
<1>3. Len(s) <= MaxSpares
  <2>1. PICK a, b : a = Len(s) /\ b = Len(t)
    OBVIOUS
  <2>2. a = b - 1 /\ b <= MaxSpares /\ b \in Nat
    BY <1>m, <1>2, <2>1
  <2> QED BY <2>1, <2>2, ListAssumption
<1>4. h \ {e} = used \cup Spares(s) /\ used \cap Spares(s) = {}
  BY <1>m, <1>2
<1> QED BY <1>0, <1>2, <1>3, <1>4 DEF Memory

\* The memory after the entry of an element has become spare or been freed.
LEMMA ReleaseMemory ==
  ASSUME NEW list \in ListRecords, NEW used, used \subseteq Entries,
         Memory(list.spareels, list.heap, used), NEW e \in used
  PROVE  Memory(Release(list, e).spareels, Release(list, e).heap, used \ {e})
<1>0. PICK t, h : t = list.spareels /\ h = list.heap
  OBVIOUS
<1>m. /\ t \in Seq(Entries) /\ Len(t) <= MaxSpares
      /\ Distinct(t, Len(t))
      /\ h = used \cup Spares(t)
      /\ used \cap Spares(t) = {}
  BY <1>0 DEF Memory
<1>1. CASE Len(t) < MaxSpares
  <2>1. PICK s : s = Append(t, e)
    OBVIOUS
  <2>2. Release(list, e).spareels = s /\ Release(list, e).heap = h
    BY <1>0, <1>1, <2>1 DEF Release, ListRecords
  <2>3. /\ s \in Seq(Entries) /\ Len(s) = Len(t) + 1
        /\ Distinct(s, Len(s))
        /\ Spares(s) = Spares(t) \cup {e}
    <3>1. e \in Entries /\ e \notin Spares(t)
      BY <1>m
    <3>2. t \in Seq(Entries) /\ Distinct(t, Len(t))
      BY <1>m
    <3> QED BY <2>1, <3>1, <3>2, EntryPut
  <2>4. Len(s) <= MaxSpares
    <3>1. PICK a, b : a = Len(s) /\ b = Len(t)
      OBVIOUS
    <3>2. a = b + 1 /\ b < MaxSpares /\ b \in Nat
      BY <1>1, <1>m, <2>3, <3>1
    <3> QED BY <3>1, <3>2, ListAssumption
  <2>5. h = (used \ {e}) \cup Spares(s) /\ (used \ {e}) \cap Spares(s) = {}
    BY <1>m, <2>3
  <2> QED BY <2>2, <2>3, <2>4, <2>5 DEF Memory
<1>2. CASE ~(Len(t) < MaxSpares)
  <2>1. Release(list, e).spareels = t /\ Release(list, e).heap = h \ {e}
    BY <1>0, <1>2 DEF Release, ListRecords
  <2>2. /\ h \ {e} = (used \ {e}) \cup Spares(t)
        /\ (used \ {e}) \cap Spares(t) = {}
    BY <1>m
  <2> QED BY <1>m, <2>1, <2>2 DEF Memory
<1> QED BY <1>1, <1>2

-----------------------------------------------------------------------------
\* Releasing entries

\* The fields no entry that is released changes.
Same(list, r) ==
  /\ r.numels = list.numels /\ r.mid = list.mid
  /\ r.copy_data = list.copy_data
  /\ r.iter_active = list.iter_active /\ r.iter_pos = list.iter_pos
  /\ r.iter_curentry = list.iter_curentry

\* r is what becomes of a list, whose elements are in the entries used, when
\* the first k of the entries gone have been released.
Released(list, gone, k, used, r) ==
  /\ r \in ListRecords
  /\ Same(list, r)
  /\ \A a \in Addresses \ Elements(k, gone) :
       /\ r.next[a] = list.next[a] /\ r.prev[a] = list.prev[a]
       /\ r.data[a] = list.data[a]
  /\ r.copies = IF list.copy_data THEN list.copies - k ELSE list.copies
  /\ Memory(r.spareels, r.heap, used \ Elements(k, gone))

\* Release() changes the memory only.
LEMMA ReleaseFields ==
  ASSUME NEW list \in ListRecords, NEW e \in Entries
  PROVE  LET r == Release(list, e)
         IN /\ r \in ListRecords
            /\ Same(list, r)
            /\ r.next = list.next /\ r.prev = list.prev /\ r.data = list.data
            /\ r.copies = list.copies
<1>1. list.spareels \in Seq(Entries) /\ list.heap \in SUBSET Entries
  BY DEF ListRecords
<1>2. Append(list.spareels, e) \in Seq(Entries)
  BY <1>1, AppendProperties
<1>3. list.heap \ {e} \in SUBSET Entries
  BY <1>1
<1>4. CASE Len(list.spareels) < MaxSpares
  <2>1. PICK s \in Seq(Entries) : s = Append(list.spareels, e)
    BY <1>2
  <2>2. Release(list, e) = [list EXCEPT !.spareels = s]
    BY <1>4, <2>1 DEF Release
  <2> QED BY <2>2 DEF ListRecords, Same
<1>5. CASE ~(Len(list.spareels) < MaxSpares)
  <2>1. PICK h \in SUBSET Entries : h = list.heap \ {e}
    BY <1>3
  <2>2. Release(list, e) = [list EXCEPT !.heap = h]
    BY <1>5, <2>1 DEF Release
  <2> QED BY <2>2 DEF ListRecords, Same
<1> QED BY <1>4, <1>5

\* Forget() changes the entry and the number of copies only.
LEMMA ForgetFields ==
  ASSUME NEW list \in ListRecords, NEW e \in Entries
  PROVE  LET r == Forget(list, e)
         IN /\ r \in ListRecords
            /\ Same(list, r)
            /\ \A a \in Addresses : a # e =>
                 /\ r.next[a] = list.next[a] /\ r.prev[a] = list.prev[a]
                 /\ r.data[a] = list.data[a]
            /\ r.copies = IF list.copy_data THEN list.copies - 1 ELSE list.copies
            /\ r.spareels = list.spareels /\ r.heap = list.heap
<1>1. e \in Addresses /\ NULL \in Addresses /\ NULL \in Nat
  BY DEF Addresses, NULL
<1>2. PICK nx \in [Addresses -> Addresses], pv \in [Addresses -> Addresses],
           dt \in [Addresses -> Nat], c \in Int :
        /\ nx = [list.next EXCEPT ![e] = NULL]
        /\ pv = [list.prev EXCEPT ![e] = NULL]
        /\ dt = [list.data EXCEPT ![e] = NULL]
        /\ c = IF list.copy_data THEN list.copies - 1 ELSE list.copies
  <2>1. /\ list.next \in [Addresses -> Addresses]
        /\ list.prev \in [Addresses -> Addresses]
        /\ list.data \in [Addresses -> Nat] /\ list.copies \in Int
    BY DEF ListRecords
  <2>2. /\ [list.next EXCEPT ![e] = NULL] \in [Addresses -> Addresses]
        /\ [list.prev EXCEPT ![e] = NULL] \in [Addresses -> Addresses]
        /\ [list.data EXCEPT ![e] = NULL] \in [Addresses -> Nat]
    BY <1>1, <2>1
  <2>3. (IF list.copy_data THEN list.copies - 1 ELSE list.copies) \in Int
    BY <2>1
  <2> QED BY <2>2, <2>3, Zenon
<1>3. Forget(list, e) = [list EXCEPT !.next = nx, !.prev = pv, !.data = dt,
                                     !.copies = c]
  BY <1>2 DEF Forget, ListRecords
<1>4. \A a \in Addresses : a # e => /\ nx[a] = list.next[a]
                                    /\ pv[a] = list.prev[a]
                                    /\ dt[a] = list.data[a]
  BY <1>2 DEF ListRecords
<1>5. PICK r : r = [list EXCEPT !.next = nx, !.prev = pv, !.data = dt,
                                !.copies = c]
  OBVIOUS
<1>6. /\ r \in ListRecords
      /\ r.next = nx /\ r.prev = pv /\ r.data = dt /\ r.copies = c
      /\ r.spareels = list.spareels /\ r.heap = list.heap
      /\ Same(list, r)
  BY <1>5 DEF ListRecords, Same
<1>7. /\ \A a \in Addresses : a # e =>
           /\ r.next[a] = list.next[a] /\ r.prev[a] = list.prev[a]
           /\ r.data[a] = list.data[a]
      /\ r.copies = IF list.copy_data THEN list.copies - 1 ELSE list.copies
  BY <1>2, <1>4, <1>6
<1>8. Forget(list, e) = r
  BY <1>3, <1>5
<1> QED BY <1>6, <1>7, <1>8

\* Nothing has been released.
LEMMA ReleaseNone ==
  ASSUME NEW list \in ListRecords, NEW used,
         Memory(list.spareels, list.heap, used), NEW gone
  PROVE  Released(list, gone, 0, used, list)
<1>1. Elements(0, gone) = {}
  BY DEF Elements
<1>2. list.copies - 0 = list.copies
  BY DEF ListRecords
<1>3. used \ Elements(0, gone) = used
  BY <1>1
<1>4. Same(list, list)
  BY DEF Same
<1>5. list.copies = IF list.copy_data THEN list.copies - 0 ELSE list.copies
  BY <1>2
<1> QED BY <1>3, <1>4, <1>5 DEF Released

\* One more entry is released.
LEMMA ReleaseStep ==
  ASSUME NEW list, NEW gone, NEW k \in Nat, NEW used, used \subseteq Entries,
         NEW r, Released(list, gone, k, used, r), list.copies \in Int,
         NEW e, e = gone[k + 1], e \in used, e \notin Elements(k, gone)
  PROVE  Released(list, gone, k + 1, used, Forget(Release(r, e), e))
<1>0. r \in ListRecords /\ e \in Entries
  BY DEF Released
<1>1. PICK q : q = Release(r, e)
  OBVIOUS
<1>2. /\ q \in ListRecords /\ Same(r, q)
      /\ q.next = r.next /\ q.prev = r.prev /\ q.data = r.data
      /\ q.copies = r.copies
  BY <1>0, <1>1, ReleaseFields
<1>3. PICK f : f = Forget(q, e)
  OBVIOUS
<1>4. /\ f \in ListRecords /\ Same(q, f)
      /\ \A a \in Addresses : a # e =>
           /\ f.next[a] = q.next[a] /\ f.prev[a] = q.prev[a]
           /\ f.data[a] = q.data[a]
      /\ f.copies = IF q.copy_data THEN q.copies - 1 ELSE q.copies
      /\ f.spareels = q.spareels /\ f.heap = q.heap
  BY <1>0, <1>2, <1>3, ForgetFields
<1>5. Elements(k + 1, gone) = Elements(k, gone) \cup {e}
  <2>1. \A i \in 1 .. k + 1 : i \in 1..k \/ i = k + 1
    OBVIOUS
  <2>2. \A i \in 1..k : i \in 1 .. k + 1
    OBVIOUS
  <2>3. k + 1 \in 1 .. k + 1
    OBVIOUS
  <2> QED BY <2>1, <2>2, <2>3 DEF Elements
<1>6. Same(list, f)
  BY <1>2, <1>4 DEF Same, Released
<1>7. \A a \in Addresses \ Elements(k + 1, gone) :
        /\ f.next[a] = list.next[a] /\ f.prev[a] = list.prev[a]
        /\ f.data[a] = list.data[a]
  BY <1>2, <1>4, <1>5 DEF Released
<1>8. f.copies = IF list.copy_data THEN list.copies - (k + 1) ELSE list.copies
  <2>1. PICK c \in Int : c = list.copies
    OBVIOUS
  <2>2. q.copy_data = list.copy_data
    BY <1>2 DEF Same, Released
  <2>3. q.copies = IF list.copy_data THEN c - k ELSE c
    BY <1>2, <2>1 DEF Released
  <2>4. f.copies = IF list.copy_data THEN c - k - 1 ELSE c
    BY <1>4, <2>2, <2>3
  <2> QED BY <2>1, <2>4
<1>9. Memory(f.spareels, f.heap, used \ Elements(k + 1, gone))
  <2>1. PICK u : u = used \ Elements(k, gone)
    OBVIOUS
  <2>2. u \subseteq Entries /\ e \in u /\ Memory(r.spareels, r.heap, u)
    BY <2>1 DEF Released
  <2>3. Memory(q.spareels, q.heap, u \ {e})
    BY <1>0, <1>1, <2>2, ReleaseMemory
  <2>4. u \ {e} = used \ Elements(k + 1, gone)
    BY <1>5, <2>1
  <2> QED BY <1>4, <2>3, <2>4
<1> QED BY <1>1, <1>3, <1>4, <1>6, <1>7, <1>8, <1>9 DEF Released

\* The loops release all the entries gone.
LEMMA ReleaseAllOK ==
  ASSUME NEW list \in ListRecords, NEW used, used \subseteq Entries,
         Memory(list.spareels, list.heap, used),
         NEW k \in Nat, NEW gone, gone \in [1..k -> used], Distinct(gone, k)
  PROVE  Released(list, gone, k, used, ReleaseAll(list, gone))
<1> DEFINE Def(h) == [i \in 0..k |->
                        IF i = 0 THEN list
                        ELSE Forget(Release(h[i - 1], gone[i]), gone[i])]
           after == CHOOSE h : h = Def(h)
<1>l. Len(gone) = k
  OBVIOUS
<1>1. ReleaseAll(list, gone) = after[k]
  BY <1>l DEF ReleaseAll
<1>2. \E h : h = Def(h)
  <2> DEFINE D(m, h) == [i \in 0..m |->
                           IF i = 0 THEN list
                           ELSE Forget(Release(h[i - 1], gone[i]), gone[i])]
             S == {m \in 0..k : \E h : h = D(m, h)}
  <2>1. 0 \in S
    <3>1. PICK h : h = [i \in 0..0 |-> list]
      OBVIOUS
    <3>2. h = D(0, h)
      BY <3>1
    <3> QED BY <3>2
  <2>2. \A m \in 0..k : m > 0 /\ m - 1 \in S => m \in S
    <3> TAKE m \in 0..k
    <3> HAVE m > 0 /\ m - 1 \in S
    <3>1. PICK h : h = D(m - 1, h)
      OBVIOUS
    <3>2. PICK g : g = [i \in 0..m |->
                          IF i < m THEN h[i]
                          ELSE Forget(Release(h[m - 1], gone[m]), gone[m])]
      OBVIOUS
    <3>3. ASSUME NEW i \in 0..m
          PROVE  g[i] = IF i = 0 THEN list
                        ELSE Forget(Release(g[i - 1], gone[i]), gone[i])
      <4>1. CASE i = m
        <5>1. g[i] = Forget(Release(h[m - 1], gone[m]), gone[m])
              /\ g[i - 1] = h[m - 1]
          BY <3>2, <4>1
        <5> QED BY <4>1, <5>1
      <4>2. CASE i < m
        <5>1. i \in 0 .. m - 1
          BY <4>2
        <5>2. h[i] = IF i = 0 THEN list
                     ELSE Forget(Release(h[i - 1], gone[i]), gone[i])
          BY <3>1, <5>1
        <5>3. g[i] = h[i] /\ (i # 0 => g[i - 1] = h[i - 1])
          BY <3>2, <4>2
        <5> QED BY <5>2, <5>3
      <4> QED BY <4>1, <4>2
    <3>4. g = D(m, g)
      BY <3>2, <3>3
    <3> QED BY <3>4
  <2>3. k \in S
    <3> HIDE DEF S
    <3> QED BY <2>1, <2>2, Induction
  <2> QED BY <2>3
<1>3. after = Def(after)
  BY <1>2
<1> HIDE DEF after
<1>4. /\ after[0] = list
      /\ \A i \in 1..k :
           after[i] = Forget(Release(after[i - 1], gone[i]), gone[i])
  BY <1>3
<1> HIDE DEF Def
<1> DEFINE S == {i \in 0..k : Released(list, gone, i, used, after[i])}
<1>5. 0 \in S
  <2>1. Released(list, gone, 0, used, list)
    BY ReleaseNone
  <2> QED BY <1>4, <2>1
<1>6. \A i \in 0..k : i > 0 /\ i - 1 \in S => i \in S
  <2> TAKE i \in 0..k
  <2> HAVE i > 0 /\ i - 1 \in S
  <2>1. PICK j \in Nat : j = i - 1 /\ i = j + 1
    OBVIOUS
  <2>2. Released(list, gone, j, used, after[j])
    BY <2>1
  <2>3. after[i] = Forget(Release(after[j], gone[j + 1]), gone[j + 1])
    BY <1>4, <2>1
  <2>4. gone[j + 1] \in used /\ gone[j + 1] \notin Elements(j, gone)
    <3>1. i \in 1..k /\ \A m \in 1..j : m \in 1..k /\ m # i
      BY <2>1
    <3> QED BY <2>1, <3>1 DEF Elements, Distinct
  <2>5. list.copies \in Int
    BY DEF ListRecords
  <2>6. Released(list, gone, j + 1, used, after[i])
    BY <2>2, <2>3, <2>4, <2>5, ReleaseStep
  <2> QED BY <2>1, <2>6
<1>7. k \in S
  <2> HIDE DEF S
  <2> QED BY <1>5, <1>6, Induction
<1> QED BY <1>1, <1>7

-----------------------------------------------------------------------------
\* The elements as a sequence

\* The data of the entries es.
Content(list, es) == [i \in 1..list.numels |-> list.data[es[i]]]

\* t is s, of n elements, with v behind the first p.
HasMore(t, s, n, p, v) ==
  /\ s \in Seq(Nat) /\ t \in Seq(Nat) /\ v \in Nat
  /\ n \in Nat /\ Len(s) = n /\ Len(t) = n + 1 /\ p \in 0..n
  /\ \A i \in 1..p : t[i] = s[i]
  /\ t[p + 1] = v
  /\ \A i \in p + 2 .. n + 1 : t[i] = s[i - 1]

\* t is s, of n elements, without the k behind the first from.
HasLess(t, s, n, from, k) ==
  /\ s \in Seq(Nat) /\ t \in Seq(Nat)
  /\ n \in Nat /\ Len(s) = n /\ k \in Nat /\ from \in 0..n
  /\ from + k <= n /\ Len(t) = n - k
  /\ \A i \in 1..from : t[i] = s[i]
  /\ \A i \in from + 1 .. n - k : t[i] = s[i + k]

\* A sequence with v inserted at p.
LEMMA SequenceInsert ==
  ASSUME NEW s, NEW t, NEW v, NEW n, NEW p, HasMore(t, s, n, p, v)
  PROVE  t = List!InsertAt(s, p + 1, v)
<1> DEFINE S == Nat
<1> SUFFICES ASSUME s \in Seq(S), t \in Seq(S), v \in S, n \in Nat, Len(s) = n,
                    Len(t) = n + 1, p \in 0..n,
                    \A i \in 1..p : t[i] = s[i], t[p + 1] = v,
                    \A i \in p + 2 .. n + 1 : t[i] = s[i - 1]
             PROVE  t = List!InsertAt(s, p + 1, v)
  BY DEF HasMore
<1> HIDE DEF S
<1>0. \A i \in 1..n : s[i] \in S
  OBVIOUS
<1>1. PICK a, b, c : a = SubSeq(s, 1, p) /\ b = <<v>> /\ c = SubSeq(s, p + 1, n)
  OBVIOUS
<1>2. a \in Seq(S) /\ Len(a) = p /\ \A i \in 1..p : a[i] = s[i]
  <2>1. \A i \in 1..p : s[i] \in S
    BY <1>0
  <2>2. /\ a \in Seq(S)
        /\ Len(a) = IF 1 <= p THEN p - 1 + 1 ELSE 0
        /\ \A i \in 1 .. p - 1 + 1 : a[i] = s[1 + i - 1]
    BY <1>1, <2>1, SubSeqProperties
  <2> QED BY <2>2
<1>3. b \in Seq(S) /\ Len(b) = 1 /\ b[1] = v
  BY <1>1
<1>4. c \in Seq(S) /\ Len(c) = n - p /\ \A i \in 1 .. n - p : c[i] = s[p + i]
  <2>1. PICK q \in Int : q = p + 1
    OBVIOUS
  <2>2. \A i \in q..n : s[i] \in S
    BY <1>0, <2>1
  <2>3. /\ c \in Seq(S)
        /\ Len(c) = IF q <= n THEN n - q + 1 ELSE 0
        /\ \A i \in 1 .. n - q + 1 : c[i] = s[q + i - 1]
    BY <1>1, <2>1, <2>2, SubSeqProperties
  <2> QED BY <2>1, <2>3
<1>5. PICK d : d = a \o b
  OBVIOUS
<1>6. /\ d \in Seq(S) /\ Len(d) = p + 1
      /\ \A i \in 1..p : d[i] = s[i]
      /\ d[p + 1] = v
  <2>1. /\ d \in Seq(S) /\ Len(d) = Len(a) + Len(b)
        /\ \A i \in 1 .. Len(a) + Len(b) :
             d[i] = IF i <= Len(a) THEN a[i] ELSE b[i - Len(a)]
    BY <1>2, <1>3, <1>5, ConcatProperties
  <2>2. /\ d \in Seq(S) /\ Len(d) = p + 1
        /\ \A i \in 1 .. p + 1 : d[i] = IF i <= p THEN a[i] ELSE b[i - p]
    BY <1>2, <1>3, <2>1
  <2> QED BY <1>2, <1>3, <2>2
<1>7. PICK u : u = d \o c
  OBVIOUS
<1>8. /\ u \in Seq(S) /\ Len(u) = n + 1
      /\ \A i \in 1 .. n + 1 : u[i] = IF i <= p + 1 THEN d[i] ELSE c[i - (p + 1)]
  <2>1. /\ u \in Seq(S) /\ Len(u) = Len(d) + Len(c)
        /\ \A i \in 1 .. Len(d) + Len(c) :
             u[i] = IF i <= Len(d) THEN d[i] ELSE c[i - Len(d)]
    <3>1. d \in Seq(S) /\ c \in Seq(S)
      BY <1>4, <1>6
    <3> QED BY <1>7, <3>1, ConcatProperties
  <2>2. Len(d) + Len(c) = n + 1
    BY <1>4, <1>6
  <2> QED BY <1>6, <2>1, <2>2
<1>9. \A i \in 1 .. n + 1 : u[i] = t[i]
  <2> TAKE i \in 1 .. n + 1
  <2>1. CASE i <= p
    BY <1>6, <1>8, <2>1
  <2>2. CASE i = p + 1
    BY <1>6, <1>8, <2>2
  <2>3. CASE i > p + 1
    <3>1. PICK j \in 1 .. n - p : j = i - (p + 1)
      BY <2>3
    <3>2. u[i] = c[j] /\ i \in p + 2 .. n + 1 /\ p + j = i - 1
      BY <1>8, <2>3, <3>1
    <3> QED BY <1>4, <3>2
  <2> QED BY <2>1, <2>2, <2>3
<1>10. u = t
  BY <1>8, <1>9, SeqEqual
<1>11. \A q : List!InsertAt(s, q, v)
               = SubSeq(s, 1, q - 1) \o <<v>> \o SubSeq(s, q, Len(s))
  BY DEF List!InsertAt
<1>13. PICK q : q = p + 1
  OBVIOUS
<1>14. q - 1 = p
  BY <1>13
<1>15. List!InsertAt(s, q, v)
         = SubSeq(s, 1, q - 1) \o <<v>> \o SubSeq(s, q, Len(s))
  BY <1>11
<1>16. List!InsertAt(s, q, v) = SubSeq(s, 1, p) \o <<v>> \o SubSeq(s, q, n)
  BY <1>14, <1>15, Zenon
<1>17. List!InsertAt(s, q, v) = u
  BY <1>1, <1>5, <1>7, <1>13, <1>16, Zenon
<1> QED BY <1>10, <1>13, <1>17, Zenon

\* A sequence without the k elements behind the first from.
LEMMA SequenceRemove ==
  ASSUME NEW s, NEW t, NEW n, NEW k, NEW from, HasLess(t, s, n, from, k)
  PROVE  t = SubSeq(s, 1, from) \o SubSeq(s, from + k + 1, Len(s))
<1> DEFINE S == Nat
<1> SUFFICES ASSUME s \in Seq(S), t \in Seq(S), n \in Nat, Len(s) = n,
                    k \in Nat, from \in 0..n, from + k <= n, Len(t) = n - k,
                    \A i \in 1..from : t[i] = s[i],
                    \A i \in from + 1 .. n - k : t[i] = s[i + k]
             PROVE  t = SubSeq(s, 1, from) \o SubSeq(s, from + k + 1, Len(s))
  BY DEF HasLess
<1> HIDE DEF S
<1>0. \A i \in 1..n : s[i] \in S
  OBVIOUS
<1>1. PICK a, c : a = SubSeq(s, 1, from) /\ c = SubSeq(s, from + k + 1, n)
  OBVIOUS
<1>2. a \in Seq(S) /\ Len(a) = from /\ \A i \in 1..from : a[i] = s[i]
  <2>1. \A i \in 1..from : s[i] \in S
    BY <1>0
  <2>2. /\ a \in Seq(S)
        /\ Len(a) = IF 1 <= from THEN from - 1 + 1 ELSE 0
        /\ \A i \in 1 .. from - 1 + 1 : a[i] = s[1 + i - 1]
    BY <1>1, <2>1, SubSeqProperties
  <2> QED BY <2>2
<1>4. /\ c \in Seq(S) /\ Len(c) = n - (from + k)
      /\ \A i \in 1 .. n - (from + k) : c[i] = s[from + k + i]
  <2>1. PICK q \in Int : q = from + k + 1
    OBVIOUS
  <2>2. \A i \in q..n : s[i] \in S
    BY <1>0, <2>1
  <2>3. /\ c \in Seq(S)
        /\ Len(c) = IF q <= n THEN n - q + 1 ELSE 0
        /\ \A i \in 1 .. n - q + 1 : c[i] = s[q + i - 1]
    BY <1>1, <2>1, <2>2, SubSeqProperties
  <2>4. q = from + k + 1
    BY <2>1
  <2> QED BY <2>3, <2>4
<1>7. PICK u : u = a \o c
  OBVIOUS
<1>8. /\ u \in Seq(S) /\ Len(u) = n - k
      /\ \A i \in 1 .. n - k : u[i] = IF i <= from THEN a[i] ELSE c[i - from]
  <2>1. /\ u \in Seq(S) /\ Len(u) = Len(a) + Len(c)
        /\ \A i \in 1 .. Len(a) + Len(c) :
             u[i] = IF i <= Len(a) THEN a[i] ELSE c[i - Len(a)]
    <3>1. a \in Seq(S) /\ c \in Seq(S)
      BY <1>2, <1>4
    <3> QED BY <1>7, <3>1, ConcatProperties
  <2>2. Len(a) + Len(c) = n - k
    BY <1>2, <1>4
  <2> QED BY <1>2, <2>1, <2>2
<1>9. \A i \in 1 .. n - k : u[i] = t[i]
  <2> TAKE i \in 1 .. n - k
  <2>1. CASE i <= from
    BY <1>2, <1>8, <2>1
  <2>3. CASE i > from
    <3>1. PICK j \in 1 .. n - (from + k) : j = i - from
      BY <2>3
    <3>2. u[i] = c[j] /\ i \in from + 1 .. n - k /\ from + k + j = i + k
      BY <1>8, <2>3, <3>1
    <3> QED BY <1>4, <3>2
  <2> QED BY <2>1, <2>3
<1>10. u = t
  BY <1>8, <1>9, SeqEqual
<1> QED BY <1>1, <1>7, <1>10

\* The content is a sequence.
LEMMA ContentIsSeq ==
  ASSUME NEW list, NEW es, ListOK(list, es)
  PROVE  /\ Content(list, es) \in Seq(Nat)
         /\ Len(Content(list, es)) = list.numels
         /\ \A i \in 1..list.numels : Content(list, es)[i] = list.data[es[i]]
         /\ list.numels \in Nat
<1>1. PICK n, d : n = list.numels /\ d = list.data
  OBVIOUS
<1>2. n \in Nat /\ d \in [Addresses -> Nat] /\ es \in [0 .. n + 1 -> Addresses]
  BY <1>1 DEF ListOK, ListRecords, Chain
<1>3. [i \in 1..n |-> d[es[i]]] \in [1..n -> Nat]
  BY <1>2
<1>4. PICK c : c = [i \in 1..n |-> d[es[i]]]
  OBVIOUS
<1>5. c \in Seq(Nat) /\ Len(c) = n
  BY <1>2, <1>3, <1>4
<1> QED BY <1>1, <1>2, <1>4, <1>5 DEF Content

-----------------------------------------------------------------------------
\* Insertion

\* What list_insert_at() does to the list: v is at pos among its elements.
LEMMA InsertedOK ==
  ASSUME NEW es, ListOK(l, es), NEW pos \in 0..l.numels, NEW v \in Values,
         ~l.iter_active, l.numels < MaxElements
  PROVE  \E fs : /\ ListOK(Inserted(pos, v), fs)
                 /\ Content(Inserted(pos, v), fs)
                      = List!InsertAt(Content(l, es), pos + 1, v)
                 /\ Inserted(pos, v).iter_active = l.iter_active
                 /\ Inserted(pos, v).iter_pos = l.iter_pos
<1>v. v \in Nat
  BY ListAssumption
<1>1. PICK n, next, prev : n = l.numels /\ next = l.next /\ prev = l.prev
  OBVIOUS
<1>c. /\ l \in ListRecords /\ Chain(next, prev, n, es)
      /\ MidOK(l.mid, n, es)
      /\ Memory(l.spareels, l.heap, Elements(n, es))
      /\ l.data[tail_sentinel] = NULL
      /\ l.copies = IF l.copy_data THEN n ELSE 0
  BY <1>1 DEF ListOK
<1>n. n \in Nat /\ n = l.numels /\ pos \in 0..n /\ es \in [0 .. n + 1 -> Addresses]
  BY <1>1, <1>c DEF Chain
<1>t. /\ next \in [Addresses -> Addresses] /\ prev \in [Addresses -> Addresses]
      /\ l.data \in [Addresses -> Nat]
  BY <1>1, <1>c DEF ListRecords
<1>2. PICK e : e = NewEntry
  OBVIOUS
<1>3. e \in Entries /\ e \notin Elements(n, es)
  BY <1>n, <1>2, NewEntryIsNew
<1>4. list_findpos(pos - 1) = es[pos]
  <2>1. PICK q : q = pos - 1
    OBVIOUS
  <2>2. q \in -1 .. l.numels /\ q + 1 = pos
    BY <1>n, <2>1
  <2>3. list_findpos(q) = es[q + 1]
    BY <1>1, <1>c, <2>2, FindPos
  <2> QED BY <2>1, <2>2, <2>3
<1>5. next[es[pos]] = es[pos + 1]
  BY <1>c, <1>n DEF Chain
<1>6. PICK nx, pv, s, fs :
        /\ nx = [next EXCEPT ![es[pos]] = e, ![e] = es[pos + 1]]
        /\ pv = [prev EXCEPT ![es[pos + 1]] = e, ![e] = es[pos]]
        /\ s = IF l.spareels = <<>> THEN <<>>
               ELSE SubSeq(l.spareels, 1, Len(l.spareels) - 1)
        /\ fs = WithEntry(es, n, pos, e)
  OBVIOUS
<1>7. Chain(nx, pv, n + 1, fs)
  BY <1>c, <1>n, <1>3, <1>6, InsertChain
<1>8. PICK mid : mid = MidAfterInsert(n + 1, pos, nx, pv, e)
  OBVIOUS
<1>9. MidOK(mid, n + 1, fs)
  BY <1>1, <1>c, <1>n, <1>6, <1>7, <1>8, InsertMid
<1>10. Memory(s, l.heap \cup {e}, Elements(n, es) \cup {e})
  BY <1>c, <1>2, <1>3, <1>6, TakeMemory
<1>f. /\ \A i \in 0..pos : fs[i] = es[i]
      /\ fs[pos + 1] = e
      /\ \A i \in pos + 2 .. n + 2 : fs[i] = es[i - 1]
  BY <1>n, <1>6 DEF WithEntry
<1>11. Elements(n + 1, fs) = Elements(n, es) \cup {e}
  <2>1. ASSUME NEW x \in Elements(n + 1, fs) PROVE x \in Elements(n, es) \cup {e}
    <3>1. PICK i \in 1 .. n + 1 : x = fs[i]
      BY DEF Elements
    <3>2. CASE i <= pos
      BY <1>n, <1>f, <3>1, <3>2 DEF Elements
    <3>3. CASE i = pos + 1
      BY <1>f, <3>1, <3>3
    <3>4. CASE i > pos + 1
      <4>1. i \in pos + 2 .. n + 2 /\ i - 1 \in 1..n
        BY <1>n, <3>4
      <4> QED BY <1>f, <3>1, <4>1 DEF Elements
    <3> QED BY <1>n, <3>2, <3>3, <3>4
  <2>2. ASSUME NEW x \in Elements(n, es) PROVE x \in Elements(n + 1, fs)
    <3>1. PICK i \in 1..n : x = es[i]
      BY DEF Elements
    <3>2. CASE i <= pos
      BY <1>n, <1>f, <3>1, <3>2 DEF Elements
    <3>3. CASE i > pos
      <4>1. i + 1 \in pos + 2 .. n + 2 /\ i + 1 \in 1 .. n + 1 /\ i + 1 - 1 = i
        BY <1>n, <3>3
      <4> QED BY <1>f, <3>1, <4>1 DEF Elements
    <3> QED BY <1>n, <3>2, <3>3
  <2>3. e \in Elements(n + 1, fs)
    <3>1. pos + 1 \in 1 .. n + 1
      BY <1>n
    <3> QED BY <1>f, <3>1 DEF Elements
  <2> QED BY <2>1, <2>2, <2>3
<1>12. mid \in Addresses
  <2>1. PICK m \in Nat : MidPos(n + 1) = m
                         /\ (n + 1 = 2 * m + 1 \/ n + 1 = 2 * m + 2)
    <3>1. PICK k \in Nat : k = n + 1 /\ k > 0
      BY <1>n
    <3>2. \E m \in Nat : MidPos(k) = m /\ (k = 2 * m + 1 \/ k = 2 * m + 2)
      BY <3>1, MidPosBounds
    <3> QED BY <3>1, <3>2
  <2>2. n + 1 # 0 /\ m + 1 \in 0 .. n + 1 + 1
    BY <1>n, <2>1
  <2>3. mid = fs[m + 1]
    BY <1>9, <2>1, <2>2 DEF MidOK
  <2> QED BY <1>7, <2>2, <2>3 DEF Chain
<1>13. PICK dt \in [Addresses -> Nat] : dt = [l.data EXCEPT ![e] = v]
  BY <1>v, <1>t
<1>14. PICK h \in SUBSET Entries : h = l.heap \cup {e}
  BY <1>c, <1>3 DEF ListRecords
<1>15. PICK c \in Int : c = IF l.copy_data THEN l.copies + 1 ELSE l.copies
  <2>1. l.copies \in Int
    BY <1>c DEF ListRecords
  <2> QED BY <2>1
<1>16. Inserted(pos, v) =
         [l EXCEPT !.next = nx, !.prev = pv, !.data = dt, !.numels = n + 1,
                   !.mid = mid, !.spareels = s, !.heap = h, !.copies = c]
  <2>1. Inserted(pos, v) =
          [l EXCEPT !.next = nx, !.prev = pv, !.data[e] = v, !.numels = n + 1,
                    !.mid = mid, !.spareels = s, !.heap = @ \cup {e},
                    !.copies = IF l.copy_data THEN @ + 1 ELSE @]
    BY <1>1, <1>2, <1>4, <1>5, <1>6, <1>8 DEF Inserted
  <2> QED BY <1>c, <1>13, <1>14, <1>15, <2>1 DEF ListRecords
<1>17. PICK r : r = Inserted(pos, v)
  OBVIOUS
<1>18. /\ nx \in [Addresses -> Addresses] /\ pv \in [Addresses -> Addresses]
       /\ s \in Seq(Entries) /\ n + 1 \in Nat
  BY <1>7, <1>10 DEF Chain, Memory
<1>19. /\ r \in ListRecords
       /\ r.next = nx /\ r.prev = pv /\ r.data = dt /\ r.numels = n + 1
       /\ r.mid = mid /\ r.spareels = s /\ r.heap = h /\ r.copies = c
       /\ r.copy_data = l.copy_data /\ r.iter_active = l.iter_active
       /\ r.iter_pos = l.iter_pos
  <2>1. l \in ListRecords
    BY <1>c
  <2>2. r = [l EXCEPT !.next = nx, !.prev = pv, !.data = dt, !.numels = n + 1,
                      !.mid = mid, !.spareels = s, !.heap = h, !.copies = c]
    BY <1>16, <1>17
  <2>3. r \in ListRecords
    BY <1>12, <1>18, <2>1, <2>2 DEF ListRecords
  <2> QED BY <2>1, <2>2, <2>3 DEF ListRecords
<1>20. r.data[tail_sentinel] = NULL
  <2>1. tail_sentinel \in Addresses /\ tail_sentinel # e
    BY <1>3 DEF Addresses, Entries, tail_sentinel
  <2> QED BY <1>c, <1>t, <1>13, <1>19, <2>1
<1>21. r.copies = IF r.copy_data THEN r.numels ELSE 0
  <2>1. c = IF l.copy_data THEN n + 1 ELSE 0
    BY <1>c, <1>15
  <2> QED BY <1>19, <2>1
<1>22. IterOK(r, fs)
  BY <1>19 DEF IterOK
<1>23. Memory(r.spareels, r.heap, Elements(r.numels, fs))
  BY <1>10, <1>11, <1>14, <1>19
<1>24. ListOK(r, fs)
  BY <1>7, <1>9, <1>19, <1>20, <1>21, <1>22, <1>23 DEF ListOK
<1>25. Content(r, fs) = List!InsertAt(Content(l, es), pos + 1, v)
  <2>1. PICK u, w : u = Content(l, es) /\ w = Content(r, fs)
    OBVIOUS
  <2>2. /\ u \in Seq(Nat) /\ Len(u) = n
        /\ \A i \in 1..n : u[i] = l.data[es[i]]
    <3>1. /\ u \in Seq(Nat) /\ Len(u) = l.numels
          /\ \A i \in 1..l.numels : u[i] = l.data[es[i]]
      BY <2>1, ContentIsSeq
    <3> QED BY <1>n, <3>1
  <2>3. /\ w \in Seq(Nat) /\ Len(w) = n + 1
        /\ \A i \in 1 .. n + 1 : w[i] = dt[fs[i]]
    BY <1>19, <1>24, <2>1, ContentIsSeq
  <2>4. \A i \in 1..n : es[i] # e /\ es[i] \in Addresses
    BY <1>n, <1>3 DEF Elements
  <2>5. \A i \in 1..n : dt[es[i]] = u[i]
    BY <1>t, <1>13, <2>2, <2>4
  <2>6. \A i \in 1..pos : w[i] = u[i]
    <3> TAKE i \in 1..pos
    <3>1. i \in 1..n /\ i \in 1 .. n + 1 /\ i \in 0..pos
      BY <1>n
    <3> QED BY <1>f, <2>3, <2>5, <3>1
  <2>7. w[pos + 1] = v
    <3>1. pos + 1 \in 1 .. n + 1 /\ e \in Addresses
      BY <1>n, <1>3 DEF Addresses
    <3> QED BY <1>f, <1>t, <1>13, <2>3, <3>1
  <2>8. \A i \in pos + 2 .. n + 1 : w[i] = u[i - 1]
    <3> TAKE i \in pos + 2 .. n + 1
    <3>1. i \in 1 .. n + 1 /\ i - 1 \in 1..n /\ i \in pos + 2 .. n + 2
      BY <1>n
    <3> QED BY <1>f, <2>3, <2>5, <3>1
  <2>9. w = List!InsertAt(u, pos + 1, v)
    <3>1. HasMore(w, u, n, pos, v)
      BY <1>n, <1>v, <2>2, <2>3, <2>6, <2>7, <2>8 DEF HasMore
    <3> QED BY <3>1, SequenceInsert
  <2> QED BY <2>1, <2>9
<1> QED BY <1>17, <1>19, <1>24, <1>25

-----------------------------------------------------------------------------
\* Removal

\* The k entries behind the first from.
Gone(es, from, k) == [i \in 1..k |-> es[from + i]]

\* r is the list without the k elements behind the first from.
IsRemoval(r, es, from, k) ==
  /\ r \in ListRecords
  /\ r.numels = l.numels - k
  /\ MidOK(r.mid, l.numels - k, WithoutEntries(es, l.numels, from, k))
  /\ r.next[es[from]] = es[from + k + 1]
  /\ r.prev[es[from + k + 1]] = es[from]
  /\ \A i \in 0..l.numels :
       i < from \/ i > from + k => r.next[es[i]] = l.next[es[i]]
  /\ \A i \in 1 .. l.numels + 1 :
       i <= from \/ i > from + k + 1 => r.prev[es[i]] = l.prev[es[i]]
  /\ \A i \in 1 .. l.numels + 1 :
       i <= from \/ i > from + k => r.data[es[i]] = l.data[es[i]]
  /\ r.copy_data = l.copy_data
  /\ r.copies = IF l.copy_data THEN l.copies - k ELSE l.copies
  /\ r.iter_active = l.iter_active /\ r.iter_pos = l.iter_pos
  /\ Memory(r.spareels, r.heap,
            Elements(l.numels, es) \ Elements(k, Gone(es, from, k)))

\* What is left when elements have been removed is a list of the others.
LEMMA RemovalOK ==
  ASSUME NEW es, ListOK(l, es), ~l.iter_active, NEW from \in Nat, NEW k \in Nat,
         from + k <= l.numels, NEW r, IsRemoval(r, es, from, k)
  PROVE  LET fs == WithoutEntries(es, l.numels, from, k)
         IN /\ ListOK(r, fs)
            /\ HasLess(Content(r, fs), Content(l, es), l.numels, from, k)
<1>1. PICK n, fs : n = l.numels /\ fs = WithoutEntries(es, n, from, k)
  OBVIOUS
<1>c. /\ l \in ListRecords /\ Chain(l.next, l.prev, n, es)
      /\ l.data[tail_sentinel] = NULL
      /\ l.copies = IF l.copy_data THEN n ELSE 0
  BY <1>1 DEF ListOK
<1>n. n \in Nat /\ from + k <= n /\ from \in 0..n
      /\ es \in [0 .. n + 1 -> Addresses] /\ es[n + 1] = tail_sentinel
  BY <1>1, <1>c DEF Chain
<1>d. \A i, j \in 0 .. n + 1 : es[i] = es[j] => i = j
  BY <1>c DEF Chain
<1>f. /\ \A i \in 0..from : fs[i] = es[i]
      /\ \A i \in from + 1 .. n - k + 1 : fs[i] = es[i + k]
  BY <1>1, <1>n DEF WithoutEntries
<1>r. r \in ListRecords /\ r.numels = n - k /\ MidOK(r.mid, n - k, fs)
  BY <1>1 DEF IsRemoval
<1>2. Chain(r.next, r.prev, n - k, fs)
  <2>1. PICK nx, pv : nx = r.next /\ pv = r.prev
    OBVIOUS
  <2>2. LeadAround(nx, pv, l.next, l.prev, n, es, from, k)
    BY <1>1, <1>n, <2>1 DEF IsRemoval, ListRecords, LeadAround
  <2>3. Chain(nx, pv, n - k, fs)
    BY <1>1, <1>c, <2>2, RemoveChain
  <2> QED BY <2>1, <2>3
<1>3. Elements(n - k, fs) = Elements(n, es) \ Elements(k, Gone(es, from, k))
  <2>0. Elements(k, Gone(es, from, k)) = {es[from + i] : i \in 1..k}
    BY DEF Elements, Gone
  <2>1. ASSUME NEW x \in Elements(n - k, fs)
        PROVE  x \in Elements(n, es) \ Elements(k, Gone(es, from, k))
    <3>1. PICK i \in 1 .. n - k : x = fs[i]
      BY DEF Elements
    <3>2. PICK j \in 1..n : x = es[j] /\ (j <= from \/ j > from + k)
      <4>1. CASE i <= from
        <5>1. i \in 0..from /\ i \in 1..n
          BY <1>n, <4>1
        <5> QED BY <1>f, <3>1, <4>1, <5>1
      <4>2. CASE i > from
        <5>1. i \in from + 1 .. n - k + 1 /\ i + k \in 1..n /\ i + k > from + k
          BY <1>n, <4>2
        <5> QED BY <1>f, <3>1, <5>1
      <4> QED BY <4>1, <4>2
    <3>3. ASSUME NEW m \in 1..k PROVE x # es[from + m]
      <4>1. from + m \in 0 .. n + 1 /\ j \in 0 .. n + 1 /\ j # from + m
        BY <1>n, <3>2
      <4> QED BY <1>d, <3>2, <4>1
    <3> QED BY <2>0, <3>2, <3>3 DEF Elements
  <2>2. ASSUME NEW x \in Elements(n, es) \ Elements(k, Gone(es, from, k))
        PROVE  x \in Elements(n - k, fs)
    <3>1. PICK j \in 1..n : x = es[j]
      BY DEF Elements
    <3>2. j <= from \/ j > from + k
      <4>1. SUFFICES ASSUME j > from, j <= from + k PROVE FALSE
        BY <1>n
      <4>2. j - from \in 1..k /\ from + (j - from) = j
        BY <4>1
      <4> QED BY <2>0, <3>1, <4>2
    <3>3. CASE j <= from
      <4>1. j \in 0..from /\ j \in 1 .. n - k
        BY <1>n, <3>3
      <4> QED BY <1>f, <3>1, <4>1 DEF Elements
    <3>4. CASE j > from + k
      <4>1. PICK i \in 1 .. n - k : i = j - k
        BY <1>n, <3>4
      <4>2. i \in from + 1 .. n - k + 1 /\ i + k = j
        BY <1>n, <3>4, <4>1
      <4>3. fs[i] = x
        BY <1>f, <3>1, <4>2
      <4> QED BY <4>3 DEF Elements
    <3> QED BY <3>2, <3>3, <3>4
  <2> QED BY <2>1, <2>2
<1>4. \A i \in 1 .. n + 1 : i <= from \/ i > from + k =>
                              r.data[es[i]] = l.data[es[i]]
  BY <1>1 DEF IsRemoval
<1>5. r.data[tail_sentinel] = NULL
  <2>1. n + 1 \in 1 .. n + 1 /\ n + 1 > from + k
    BY <1>n
  <2> QED BY <1>c, <1>n, <1>4, <2>1
<1>6. r.copies = IF r.copy_data THEN r.numels ELSE 0
  <2>1. r.copy_data = l.copy_data
        /\ r.copies = IF l.copy_data THEN l.copies - k ELSE l.copies
    BY DEF IsRemoval
  <2> QED BY <1>c, <1>n, <1>r, <2>1
<1>7. IterOK(r, fs)
  BY DEF IterOK, IsRemoval
<1>8. Memory(r.spareels, r.heap, Elements(n - k, fs))
  BY <1>1, <1>3 DEF IsRemoval
<1>9. ListOK(r, fs)
  BY <1>r, <1>2, <1>5, <1>6, <1>7, <1>8 DEF ListOK
<1>10. HasLess(Content(r, fs), Content(l, es), n, from, k)
  <2>1. PICK u, w : u = Content(l, es) /\ w = Content(r, fs)
    OBVIOUS
  <2>2. u \in Seq(Nat) /\ Len(u) = n /\ \A i \in 1..n : u[i] = l.data[es[i]]
    <3>1. /\ u \in Seq(Nat) /\ Len(u) = l.numels
          /\ \A i \in 1..l.numels : u[i] = l.data[es[i]]
      BY <2>1, ContentIsSeq
    <3> QED BY <1>1, <3>1
  <2>3. /\ w \in Seq(Nat) /\ Len(w) = n - k
        /\ \A i \in 1 .. n - k : w[i] = r.data[fs[i]]
    BY <1>9, <1>r, <2>1, ContentIsSeq
  <2>4. \A i \in 1..from : w[i] = u[i]
    <3> TAKE i \in 1..from
    <3>1. i \in 1..n /\ i \in 1 .. n - k /\ i \in 0..from /\ i \in 1 .. n + 1
      BY <1>n
    <3>2. w[i] = r.data[es[i]]
      BY <1>f, <2>3, <3>1
    <3>3. u[i] = l.data[es[i]]
      BY <2>2, <3>1
    <3>4. i <= from
      OBVIOUS
    <3> QED BY <1>4, <3>1, <3>2, <3>3, <3>4
  <2>5. \A i \in from + 1 .. n - k : w[i] = u[i + k]
    <3> TAKE i \in from + 1 .. n - k
    <3>1. PICK j \in 1..n : j = i + k
      BY <1>n
    <3>2. /\ i \in 1 .. n - k /\ i \in from + 1 .. n - k + 1
          /\ j \in 1 .. n + 1 /\ j > from + k
      BY <1>n, <3>1
    <3>3. w[i] = r.data[es[j]]
      BY <1>f, <2>3, <3>1, <3>2
    <3>4. u[j] = l.data[es[j]]
      BY <2>2
    <3> QED BY <1>4, <3>1, <3>2, <3>3, <3>4
  <2> QED BY <1>n, <2>1, <2>2, <2>3, <2>4, <2>5 DEF HasLess
<1> QED BY <1>1, <1>9, <1>10

\* The entries that go are elements, the others are not among them.
LEMMA GoneOK ==
  ASSUME NEW next, NEW prev, NEW n, NEW es, Chain(next, prev, n, es),
         NEW from \in Nat, NEW k \in Nat, from + k <= n
  PROVE  /\ Gone(es, from, k) \in [1..k -> Elements(n, es)]
         /\ Distinct(Gone(es, from, k), k)
         /\ \A i \in 0 .. n + 1 : i <= from \/ i > from + k =>
              es[i] \in Addresses \ Elements(k, Gone(es, from, k))
<1>n. n \in Nat /\ es \in [0 .. n + 1 -> Addresses]
  BY DEF Chain
<1>d. \A i, j \in 0 .. n + 1 : es[i] = es[j] => i = j
  BY DEF Chain
<1>1. \A i \in 1..k : from + i \in 1..n /\ from + i \in 0 .. n + 1
  BY <1>n
<1>2. Gone(es, from, k) \in [1..k -> Elements(n, es)]
  BY <1>1 DEF Gone, Elements
<1>3. Distinct(Gone(es, from, k), k)
  <2>1. ASSUME NEW i \in 1..k, NEW j \in 1..k, es[from + i] = es[from + j]
        PROVE  i = j
    <3>1. from + i = from + j
      BY <1>d, <1>1, <2>1
    <3> QED BY <3>1
  <2> QED BY <2>1 DEF Gone, Distinct
<1>4. ASSUME NEW i \in 0 .. n + 1, i <= from \/ i > from + k
      PROVE  es[i] \in Addresses \ Elements(k, Gone(es, from, k))
  <2>1. ASSUME NEW j \in 1..k PROVE es[i] # es[from + j]
    <3>1. i # from + j
      BY <1>n, <1>4
    <3> QED BY <1>d, <1>1, <3>1
  <2>2. Elements(k, Gone(es, from, k)) = {es[from + j] : j \in 1..k}
    BY DEF Elements, Gone
  <2> QED BY <1>n, <2>1, <2>2
<1> QED BY <1>2, <1>3, <1>4

\* list_drop_elem() and the decrement remove one element.
LEMMA DroppedOK ==
  ASSUME NEW es, ListOK(l, es), ~l.iter_active, NEW pos \in Nat, pos < l.numels
  PROVE  IsRemoval(Dropped(pos), es, pos, 1)
<1>1. PICK n, next, prev : n = l.numels /\ next = l.next /\ prev = l.prev
  OBVIOUS
<1>c. /\ l \in ListRecords /\ Chain(next, prev, n, es)
      /\ MidOK(l.mid, n, es)
      /\ Memory(l.spareels, l.heap, Elements(n, es))
  BY <1>1 DEF ListOK
<1>n. n \in Nat /\ n = l.numels /\ pos < n /\ es \in [0 .. n + 1 -> Addresses]
  BY <1>1, <1>c DEF Chain
<1>d. \A i, j \in 0 .. n + 1 : es[i] = es[j] => i = j
  BY <1>c DEF Chain
<1>t. next \in [Addresses -> Addresses] /\ prev \in [Addresses -> Addresses]
  BY <1>c DEF Chain
<1>2. PICK e, a, b : e = es[pos + 1] /\ a = es[pos] /\ b = es[pos + 2]
  OBVIOUS
<1>3. list_findpos(pos) = e
  <2>1. pos \in -1 .. l.numels
    BY <1>n
  <2> QED BY <1>1, <1>c, <1>2, <2>1, FindPos
<1>4. prev[e] = a /\ next[e] = b
  <2>1. pos \in 0..n /\ pos + 1 \in 0..n /\ pos + 1 + 1 = pos + 2
    BY <1>n
  <2> QED BY <1>c, <1>2, <2>1 DEF Chain
<1>5. a \in Addresses /\ b \in Addresses /\ e \in Entries
  <2>1. pos \in 0 .. n + 1 /\ pos + 2 \in 0 .. n + 1 /\ pos + 1 \in 1..n
    BY <1>n
  <2> QED BY <1>c, <1>n, <1>2, <2>1 DEF Chain
<1>6. PICK nx \in [Addresses -> Addresses], pv \in [Addresses -> Addresses] :
        nx = [next EXCEPT ![a] = b] /\ pv = [prev EXCEPT ![b] = a]
  BY <1>t, <1>5
<1>7. PICK mid : mid = MidAfterDrop(pos)
  OBVIOUS
<1>8. MidOK(mid, n - 1, WithoutEntries(es, n, pos, 1))
  BY <1>1, <1>c, <1>n, <1>7, DropMid
<1>9. mid \in Addresses
  <2>1. l.mid \in Addresses /\ NULL \in Addresses
    BY <1>c DEF ListRecords, Addresses
  <2>2. next[l.mid] \in Addresses /\ prev[l.mid] \in Addresses
    BY <1>t, <2>1
  <2> QED BY <1>1, <1>7, <2>1, <2>2 DEF MidAfterDrop
<1>10. PICK u : u = [l EXCEPT !.next = nx, !.prev = pv, !.mid = mid,
                              !.numels = n - 1]
  OBVIOUS
<1>11. Dropped(pos) = Forget(Release(u, e), e)
  <2>1. u = [l EXCEPT !.next[l.prev[e]] = l.next[e],
                      !.prev[l.next[e]] = l.prev[e],
                      !.mid = MidAfterDrop(pos), !.numels = @ - 1]
    BY <1>1, <1>c, <1>4, <1>6, <1>7, <1>10 DEF ListRecords
  <2> QED BY <1>3, <2>1 DEF Dropped
<1>12. n - 1 \in Nat
  BY <1>n
<1>13. /\ u \in ListRecords /\ u.next = nx /\ u.prev = pv /\ u.mid = mid
       /\ u.numels = n - 1 /\ u.data = l.data /\ u.spareels = l.spareels
       /\ u.heap = l.heap /\ u.copies = l.copies /\ u.copy_data = l.copy_data
       /\ u.iter_active = l.iter_active /\ u.iter_pos = l.iter_pos
  BY <1>c, <1>9, <1>10, <1>12 DEF ListRecords
<1>14. PICK used, gone : used = Elements(n, es) /\ gone = Gone(es, pos, 1)
  OBVIOUS
<1>15. Released(u, gone, 0, used, u)
  BY <1>c, <1>13, <1>14, ReleaseNone
<1>16. used \subseteq Entries
  BY <1>c, <1>14 DEF Chain, Elements
<1>17. gone[0 + 1] = e /\ e \in used /\ e \notin Elements(0, gone)
  <2>1. 1 \in 1..1 /\ pos + 1 \in 1..n
    BY <1>n
  <2> QED BY <1>2, <1>14, <2>1 DEF Gone, Elements
<1>18. PICK r : r = Dropped(pos)
  OBVIOUS
<1>19. Released(u, gone, 1, used, r)
  <2>1. u.copies \in Int
    BY <1>13 DEF ListRecords
  <2>2. Released(u, gone, 0 + 1, used, Forget(Release(u, e), e))
    BY <1>15, <1>16, <1>17, <2>1, ReleaseStep
  <2> QED BY <1>11, <1>18, <2>2
<1>20. /\ r \in ListRecords /\ r.numels = n - 1 /\ r.mid = mid
       /\ r.copy_data = l.copy_data
       /\ r.iter_active = l.iter_active /\ r.iter_pos = l.iter_pos
       /\ r.copies = IF l.copy_data THEN l.copies - 1 ELSE l.copies
       /\ Memory(r.spareels, r.heap, used \ Elements(1, gone))
  BY <1>13, <1>19 DEF Released, Same
<1>21. \A x \in Addresses \ Elements(1, gone) :
         /\ r.next[x] = nx[x] /\ r.prev[x] = pv[x] /\ r.data[x] = l.data[x]
  BY <1>13, <1>19 DEF Released
<1>22. \A i \in 0 .. n + 1 : i # pos + 1 => es[i] \in Addresses \ Elements(1, gone)
  <2>1. PICK k \in Nat : k = 1
    OBVIOUS
  <2>2. pos + k <= n
    BY <1>n, <2>1
  <2>3. \A i \in 0 .. n + 1 : i <= pos \/ i > pos + k =>
          es[i] \in Addresses \ Elements(k, Gone(es, pos, k))
    BY <1>c, <2>2, GoneOK
  <2>4. \A i \in 0 .. n + 1 : i # pos + 1 => i <= pos \/ i > pos + k
    BY <1>n, <2>1
  <2>5. Elements(k, Gone(es, pos, k)) = Elements(1, gone)
    BY <1>14, <2>1
  <2> QED BY <2>3, <2>4, <2>5
<1>23. r.next[es[pos]] = es[pos + 2] /\ r.prev[es[pos + 2]] = es[pos]
  <2>1. pos \in 0 .. n + 1 /\ pos + 2 \in 0 .. n + 1
        /\ pos # pos + 1 /\ pos + 2 # pos + 1
    BY <1>n
  <2>2. es[pos] \in Addresses \ Elements(1, gone)
        /\ es[pos + 2] \in Addresses \ Elements(1, gone)
    BY <1>22, <2>1
  <2>3. r.next[a] = nx[a] /\ r.prev[b] = pv[b]
    BY <1>2, <1>21, <2>2
  <2>4. nx[a] = b /\ pv[b] = a
    BY <1>t, <1>5, <1>6
  <2> QED BY <1>2, <2>3, <2>4
<1>24. ASSUME NEW i \in 0..n, i < pos \/ i > pos + 1
       PROVE  r.next[es[i]] = next[es[i]]
  <2>1. i \in 0 .. n + 1 /\ i # pos + 1 /\ i # pos /\ pos \in 0 .. n + 1
    BY <1>n, <1>24
  <2>2. es[i] # a /\ es[i] \in Addresses
    BY <1>d, <1>n, <1>2, <2>1
  <2>3. r.next[es[i]] = nx[es[i]]
    BY <1>21, <1>22, <2>1
  <2> QED BY <1>t, <1>6, <2>2, <2>3
<1>25. ASSUME NEW i \in 1 .. n + 1, i <= pos \/ i > pos + 2
       PROVE  r.prev[es[i]] = prev[es[i]]
  <2>1. i \in 0 .. n + 1 /\ i # pos + 1 /\ i # pos + 2 /\ pos + 2 \in 0 .. n + 1
    BY <1>n, <1>25
  <2>2. es[i] # b /\ es[i] \in Addresses
    BY <1>d, <1>n, <1>2, <2>1
  <2>3. r.prev[es[i]] = pv[es[i]]
    BY <1>21, <1>22, <2>1
  <2> QED BY <1>t, <1>6, <2>2, <2>3
<1>26. ASSUME NEW i \in 1 .. n + 1, i <= pos \/ i > pos + 1
       PROVE  r.data[es[i]] = l.data[es[i]]
  <2>1. i \in 0 .. n + 1 /\ i # pos + 1
    BY <1>n, <1>26
  <2> QED BY <1>21, <1>22, <2>1
<1>27. pos + 1 + 1 = pos + 2
  OBVIOUS
<1>28. IsRemoval(r, es, pos, 1)
  BY <1>1, <1>8, <1>14, <1>20, <1>23, <1>24, <1>25, <1>26, <1>27 DEF IsRemoval
<1> QED BY <1>18, <1>28

\* r is the list whose entries have been released as list, after its pointers
\* have been led around them and its other fields set.
Relinked(r, list, es, n, from, k, mid) ==
  r = [list EXCEPT !.next = [list.next EXCEPT ![es[from]] = es[from + k + 1]],
                   !.prev = [list.prev EXCEPT ![es[from + k + 1]] = es[from]],
                   !.numels = n - k, !.mid = mid]

\* Releasing entries and leading the pointers around them removes them,
\* whatever mid was in between.
LEMMA RelinkedOK ==
  ASSUME NEW es, ListOK(l, es), NEW from \in Nat, NEW k \in Nat,
         NEW n, n = l.numels, from + k <= n, NEW mid, mid \in Addresses,
         MidOK(mid, n - k, WithoutEntries(es, n, from, k)),
         NEW m0, m0 \in Addresses, NEW list,
         Released([l EXCEPT !.mid = m0], Gone(es, from, k), k,
                  Elements(n, es), list),
         NEW r, Relinked(r, list, es, n, from, k, mid)
  PROVE  IsRemoval(r, es, from, k)
<1>c. l \in ListRecords /\ Chain(l.next, l.prev, n, es)
  BY DEF ListOK
<1>n. n \in Nat /\ es \in [0 .. n + 1 -> Addresses]
  BY <1>c DEF Chain
<1>d. \A i, j \in 0 .. n + 1 : es[i] = es[j] => i = j
  BY <1>c DEF Chain
<1>1. PICK u, gone : u = [l EXCEPT !.mid = m0] /\ gone = Gone(es, from, k)
  OBVIOUS
<1>2. /\ u.next = l.next /\ u.prev = l.prev /\ u.data = l.data
      /\ u.copies = l.copies /\ u.copy_data = l.copy_data
      /\ u.iter_active = l.iter_active /\ u.iter_pos = l.iter_pos
  BY <1>c, <1>1 DEF ListRecords
<1>3. /\ list \in ListRecords
      /\ list.copy_data = l.copy_data
      /\ list.iter_active = l.iter_active /\ list.iter_pos = l.iter_pos
      /\ list.copies = IF l.copy_data THEN l.copies - k ELSE l.copies
      /\ Memory(list.spareels, list.heap, Elements(n, es) \ Elements(k, gone))
  BY <1>1, <1>2 DEF Released, Same
<1>4. \A x \in Addresses \ Elements(k, gone) :
        /\ list.next[x] = l.next[x] /\ list.prev[x] = l.prev[x]
        /\ list.data[x] = l.data[x]
  BY <1>1, <1>2 DEF Released
<1>5. \A i \in 0 .. n + 1 : i <= from \/ i > from + k =>
        es[i] \in Addresses \ Elements(k, gone)
  BY <1>c, <1>1, GoneOK
<1>6. PICK a, b : a = es[from] /\ b = es[from + k + 1]
  OBVIOUS
<1>7. a \in Addresses /\ b \in Addresses
  <2>1. from \in 0 .. n + 1 /\ from + k + 1 \in 0 .. n + 1
    BY <1>n
  <2> QED BY <1>n, <1>6, <2>1
<1>t. list.next \in [Addresses -> Addresses]
      /\ list.prev \in [Addresses -> Addresses]
  BY <1>3 DEF ListRecords
<1>8. PICK nx \in [Addresses -> Addresses], pv \in [Addresses -> Addresses] :
        /\ nx = [list.next EXCEPT ![a] = b]
        /\ pv = [list.prev EXCEPT ![b] = a]
  BY <1>t, <1>7
<1>9. n - k \in Nat
  BY <1>n
<1>10. r = [list EXCEPT !.next = nx, !.prev = pv, !.numels = n - k, !.mid = mid]
  BY <1>6, <1>8 DEF Relinked
<1>11. /\ r \in ListRecords /\ r.next = nx /\ r.prev = pv
       /\ r.numels = n - k /\ r.mid = mid /\ r.data = list.data
       /\ r.copy_data = list.copy_data /\ r.copies = list.copies
       /\ r.iter_active = list.iter_active /\ r.iter_pos = list.iter_pos
       /\ r.spareels = list.spareels /\ r.heap = list.heap
  BY <1>3, <1>9, <1>10 DEF ListRecords
<1>12. nx[a] = b /\ pv[b] = a
  BY <1>t, <1>7, <1>8
<1>13. ASSUME NEW i \in 0..n, i < from \/ i > from + k
       PROVE  r.next[es[i]] = l.next[es[i]]
  <2>1. i \in 0 .. n + 1 /\ from \in 0 .. n + 1 /\ i # from
        /\ (i <= from \/ i > from + k)
    BY <1>n, <1>13
  <2>2. es[i] # a /\ es[i] \in Addresses
    BY <1>d, <1>n, <1>6, <2>1
  <2>3. list.next[es[i]] = l.next[es[i]]
    BY <1>4, <1>5, <2>1
  <2> QED BY <1>t, <1>8, <1>11, <2>2, <2>3
<1>14. ASSUME NEW i \in 1 .. n + 1, i <= from \/ i > from + k + 1
       PROVE  r.prev[es[i]] = l.prev[es[i]]
  <2>1. i \in 0 .. n + 1 /\ from + k + 1 \in 0 .. n + 1 /\ i # from + k + 1
        /\ (i <= from \/ i > from + k)
    BY <1>n, <1>14
  <2>2. es[i] # b /\ es[i] \in Addresses
    BY <1>d, <1>n, <1>6, <2>1
  <2>3. list.prev[es[i]] = l.prev[es[i]]
    BY <1>4, <1>5, <2>1
  <2> QED BY <1>t, <1>8, <1>11, <2>2, <2>3
<1>15. ASSUME NEW i \in 1 .. n + 1, i <= from \/ i > from + k
       PROVE  r.data[es[i]] = l.data[es[i]]
  <2>1. i \in 0 .. n + 1
    BY <1>n
  <2> QED BY <1>4, <1>5, <1>11, <1>15, <2>1
<1>16. r.next[es[from]] = es[from + k + 1] /\ r.prev[es[from + k + 1]] = es[from]
  BY <1>6, <1>11, <1>12
<1> QED BY <1>1, <1>3, <1>11, <1>13, <1>14, <1>15, <1>16 DEF IsRemoval

\* list_clear() removes all elements.
LEMMA ClearedOK ==
  ASSUME NEW es, ListOK(l, es)
  PROVE  IsRemoval(Cleared, es, 0, l.numels)
<1>1. PICK n, all : n = l.numels /\ all = Gone(es, 0, n)
  OBVIOUS
<1>c. /\ l \in ListRecords /\ Chain(l.next, l.prev, n, es)
      /\ Memory(l.spareels, l.heap, Elements(n, es))
  BY <1>1 DEF ListOK
<1>n. /\ n \in Nat /\ n = l.numels /\ es \in [0 .. n + 1 -> Addresses]
      /\ es[0] = head_sentinel /\ es[n + 1] = tail_sentinel
  BY <1>1, <1>c DEF Chain
<1>2. EntriesFrom(l.next[head_sentinel], l.numels) = all
  <2>1. EntriesFrom(l.next[head_sentinel], l.numels)
          = [i \in 1..l.numels |-> es[i]]
    BY <1>c, <1>n, InListAlong
  <2>2. \A i \in 1..n : 0 + i = i
    BY <1>n
  <2>3. all = [i \in 1..n |-> es[i]]
    BY <1>1, <2>2 DEF Gone
  <2> QED BY <1>n, <2>1, <2>3
<1>3. all \in [1..n -> Elements(n, es)] /\ Distinct(all, n)
  <2>1. PICK from \in Nat : from = 0
    OBVIOUS
  <2>2. from + n <= n
    BY <1>n, <2>1
  <2>3. Gone(es, from, n) \in [1..n -> Elements(n, es)]
        /\ Distinct(Gone(es, from, n), n)
    BY <1>c, <1>n, <2>2, GoneOK
  <2> QED BY <1>1, <2>1, <2>3
<1>4. Elements(n, es) \subseteq Entries
  BY <1>c DEF Chain, Elements
<1>5. PICK list : list = ReleaseAll(l, all)
  OBVIOUS
<1>6. Released(l, all, n, Elements(n, es), list)
  BY <1>c, <1>n, <1>3, <1>4, <1>5, ReleaseAllOK
<1>7. l = [l EXCEPT !.mid = l.mid] /\ l.mid \in Addresses
  BY <1>c DEF ListRecords
<1>8. PICK r : r = Cleared
  OBVIOUS
<1>9. /\ 0 \in Nat /\ NULL \in Addresses /\ 0 + n <= n
      /\ 0 + n + 1 = n + 1 /\ n - n = 0
  BY <1>n DEF Addresses
<1>10. MidOK(NULL, n - n, WithoutEntries(es, n, 0, n))
  BY <1>9 DEF MidOK
<1>11. Relinked(r, list, es, n, 0, n, NULL)
  <2>1. r = [list EXCEPT !.next[head_sentinel] = tail_sentinel,
                         !.prev[tail_sentinel] = head_sentinel,
                         !.numels = 0, !.mid = NULL]
    BY <1>2, <1>5, <1>8 DEF Cleared
  <2>2. list \in ListRecords
    BY <1>6 DEF Released
  <2> QED BY <1>n, <1>9, <2>1, <2>2 DEF Relinked, ListRecords
<1>12. Released([l EXCEPT !.mid = l.mid], Gone(es, 0, n), n, Elements(n, es),
                list)
  BY <1>1, <1>6, <1>7
<1>13. IsRemoval(r, es, 0, n)
  BY <1>n, <1>7, <1>9, <1>10, <1>11, <1>12, RelinkedOK
<1> QED BY <1>1, <1>8, <1>13

\* list_delete_range() removes the elements from one position to another.
LEMMA RangeDeletedOK ==
  ASSUME NEW es, ListOK(l, es), NEW from \in Nat, NEW to \in Nat,
         from <= to, to < l.numels, NEW k, k = to - from + 1, k # l.numels
  PROVE  IsRemoval(RangeDeleted(from, to), es, from, k)
<1>1. PICK n, gone : n = l.numels /\ gone = Gone(es, from, k)
  OBVIOUS
<1>c. /\ l \in ListRecords /\ Chain(l.next, l.prev, n, es)
      /\ MidOK(l.mid, n, es)
      /\ Memory(l.spareels, l.heap, Elements(n, es))
  BY <1>1 DEF ListOK
<1>n. /\ n \in Nat /\ n = l.numels /\ es \in [0 .. n + 1 -> Addresses]
  BY <1>1, <1>c DEF Chain
<1>k. k \in Nat /\ k > 0 /\ from + k <= n /\ k < n /\ from + k \in 0..n
      /\ from \in 0..n
  BY <1>n
<1>2. list_findpos(from) = es[from + 1]
  <2>1. from \in -1 .. l.numels
    BY <1>n
  <2> QED BY <1>c, <1>n, <2>1, FindPos
<1>3. l.prev[es[from + 1]] = es[from]
  BY <1>c, <1>k DEF Chain
<1>4. EntriesFrom(es[from + 1], k) = gone
  <2>1. Chain(l.next, l.prev, l.numels, es) /\ from \in 0..l.numels
        /\ from + k <= l.numels /\ k \in Nat
    BY <1>c, <1>n, <1>k
  <2>2. EntriesFrom(es[from + 1], k) = [i \in 1..k |-> es[from + i]]
    BY <2>1, EntriesAlong
  <2> QED BY <1>1, <2>2 DEF Gone
<1>5. l.next[gone[k]] = es[from + k + 1]
  <2>1. gone[k] = es[from + k]
    BY <1>1, <1>k DEF Gone
  <2> QED BY <1>c, <1>k, <2>1 DEF Chain
<1>6. PICK m : m = MidAfterRange(from, k)
  OBVIOUS
<1>7. MidOK(m, n - k, WithoutEntries(es, n, from, k)) /\ m \in Addresses
  BY <1>c, <1>n, <1>k, <1>6, RangeMid
<1>8. PICK u : u = [l EXCEPT !.mid = m]
  OBVIOUS
<1>9. u \in ListRecords /\ u.spareels = l.spareels /\ u.heap = l.heap
      /\ u.numels = n
  BY <1>c, <1>n, <1>7, <1>8 DEF ListRecords
<1>10. gone \in [1..k -> Elements(n, es)] /\ Distinct(gone, k)
  BY <1>c, <1>k, <1>1, GoneOK
<1>11. Elements(n, es) \subseteq Entries
  BY <1>c DEF Chain, Elements
<1>12. PICK list : list = ReleaseAll(u, gone)
  OBVIOUS
<1>13. Memory(u.spareels, u.heap, Elements(n, es))
  BY <1>c, <1>9
<1>14. Released(u, gone, k, Elements(n, es), list)
  BY <1>k, <1>9, <1>10, <1>11, <1>12, <1>13, ReleaseAllOK
<1>15. list \in ListRecords /\ list.numels = n /\ list.mid = m
  <2>1. u.mid = m
    BY <1>c, <1>7, <1>8 DEF ListRecords
  <2> QED BY <1>9, <1>14, <2>1 DEF Released, Same
<1>16. PICK r : r = RangeDeleted(from, to)
  OBVIOUS
<1>17. r = [list EXCEPT !.next[es[from]] = es[from + k + 1],
                        !.prev[es[from + k + 1]] = es[from],
                        !.numels = @ - k]
  <2> DEFINE res(a, b, q) ==
               LET lst == ReleaseAll([l EXCEPT !.mid = MidAfterRange(from, q)], a)
               IN [lst EXCEPT !.next[b] = l.next[a[q]],
                              !.prev[l.next[a[q]]] = b, !.numels = @ - q]
  <2>1. RangeDeleted(from, to)
          = res(EntriesFrom(list_findpos(from), to - from + 1),
                l.prev[list_findpos(from)], to - from + 1)
    BY DEF RangeDeleted
  <2> HIDE DEF res
  <2>2. RangeDeleted(from, to) = res(gone, es[from], k)
    BY <1>2, <1>3, <1>4, <2>1
  <2> USE DEF res
  <2> QED BY <1>5, <1>6, <1>8, <1>12, <1>16, <2>2
<1>18. Relinked(r, list, es, n, from, k, m)
  BY <1>15, <1>17 DEF Relinked, ListRecords
<1>19. Released([l EXCEPT !.mid = m], Gone(es, from, k), k, Elements(n, es), list)
  BY <1>1, <1>8, <1>14
<1>20. IsRemoval(r, es, from, k)
  BY <1>n, <1>k, <1>7, <1>18, <1>19, RelinkedOK
<1> QED BY <1>16, <1>20

-----------------------------------------------------------------------------
\* The abstract list

\* The entries that the pointers of a list lead to.
EntriesOf(list) ==
  [i \in 1..list.numels |-> Walk(list.next, list.next[head_sentinel], i - 1)]

\* What SimcList substitutes for the variables of ListSpec.
Abs == [i \in 1..l.numels |-> l.data[InList[i]]]
Iter == IF l.iter_active THEN l.iter_pos ELSE -1

\* The pointers of a list lead to its entries.
LEMMA EntriesOfList ==
  ASSUME NEW list, NEW es, ListOK(list, es)
  PROVE  EntriesOf(list) = [i \in 1..list.numels |-> es[i]]
<1>1. PICK n, next, prev :
        n = list.numels /\ next = list.next /\ prev = list.prev
  OBVIOUS
<1>2. Chain(next, prev, n, es)
  BY <1>1 DEF ListOK
<1>3. n \in Nat /\ next[head_sentinel] = es[1]
  BY <1>2 DEF Chain
<1>4. ASSUME NEW i \in 1..n PROVE Walk(next, es[1], i - 1) = es[i]
  <2>1. PICK a, k : a = 1 /\ k = i - 1
    OBVIOUS
  <2>2. a \in 0 .. n + 1 /\ k \in Nat /\ a + k <= n + 1 /\ a + k = i
    BY <1>3, <2>1
  <2>3. Walk(next, es[a], k) = es[a + k]
    BY <1>2, <2>2, WalkNext
  <2> QED BY <2>1, <2>2, <2>3
<1> QED BY <1>1, <1>3, <1>4 DEF EntriesOf

\* The sequence is the content.
LEMMA AbsIsContent ==
  ASSUME NEW es, ListOK(l, es)
  PROVE  Abs = Content(l, es)
<1>1. InList = EntriesOf(l)
  BY DEF InList, EntriesFrom, EntriesOf
<1>2. InList = [i \in 1..l.numels |-> es[i]]
  BY <1>1, EntriesOfList
<1> QED BY <1>2 DEF Abs, Content

\* It is the content after a step, too.
LEMMA AbsIsContentNext ==
  ASSUME NEW es, ListOK(l', es)
  PROVE  Abs' = Content(l', es)
<1>1. PICK r : r = l'
  OBVIOUS
<1>2. Abs' = [i \in 1..r.numels |-> r.data[EntriesOf(r)[i]]]
  BY <1>1 DEF Abs, InList, EntriesFrom, EntriesOf
<1>3. EntriesOf(r) = [i \in 1..r.numels |-> es[i]]
  BY <1>1, EntriesOfList
<1> QED BY <1>1, <1>2, <1>3 DEF Content

\* The sequence has the elements of the list.
LEMMA AbsSeq ==
  ASSUME NEW es, ListOK(l, es)
  PROVE  /\ Abs \in Seq(Nat) /\ Len(Abs) = l.numels /\ l.numels \in Nat
         /\ \A i \in 1..l.numels : Abs[i] = l.data[es[i]]
BY AbsIsContent, ContentIsSeq

\* An iteration is on exactly when the abstract one is.
LEMMA IterIdle ==
  ASSUME NEW es, ListOK(l, es)
  PROVE  /\ List!Idle <=> ~l.iter_active
         /\ l.iter_active \in BOOLEAN /\ l.iter_pos \in Nat
<1>1. l.iter_active \in BOOLEAN /\ l.iter_pos \in Nat
  BY DEF ListOK, ListRecords
<1> QED BY <1>1 DEF List!Idle

-----------------------------------------------------------------------------
\* The functions

\* Nothing changes but the value that is returned.
LEMMA OnlyReturns ==
  ASSUME NEW es, ListOK(l, es), UNCHANGED l
  PROVE  /\ ListOK(l', es)
         /\ List!Returns(ret')
         /\ ret' = -1 => List!Fails
<1>1. Abs' = Abs /\ Iter' = Iter
  BY DEF Abs, Iter, InList, EntriesFrom
<1>2. List!Returns(ret')
  BY <1>1 DEF List!Returns, Abs, Iter
<1>3. ret' = -1 => List!Fails
  BY <1>1 DEF List!Fails, Abs, Iter
<1> QED BY <1>2, <1>3

\* Elements are removed.
LEMMA RemovesOK ==
  ASSUME NEW es, ListOK(l, es), ~l.iter_active, NEW from \in Nat, NEW k \in Nat,
         from + k <= l.numels, IsRemoval(l', es, from, k),
         NEW to, to = from + k - 1, NEW value, ret' = value
  PROVE  Inv' /\ List!Removes(from, to, value)
<1>1. PICK r, fs : r = l' /\ fs = WithoutEntries(es, l.numels, from, k)
  OBVIOUS
<1>2. IsRemoval(r, es, from, k)
  BY <1>1
<1>3. /\ ListOK(r, fs)
      /\ HasLess(Content(r, fs), Content(l, es), l.numels, from, k)
  BY <1>1, <1>2, RemovalOK
<1>4. Content(r, fs) = SubSeq(Content(l, es), 1, from)
                         \o SubSeq(Content(l, es), to + 2, Len(Content(l, es)))
  <2>1. PICK t, s, n :
          t = Content(r, fs) /\ s = Content(l, es) /\ n = l.numels
    OBVIOUS
  <2>2. HasLess(t, s, n, from, k)
    BY <1>3, <2>1
  <2>3. t = SubSeq(s, 1, from) \o SubSeq(s, from + k + 1, Len(s))
    BY <2>2, SequenceRemove
  <2>4. from + k + 1 = to + 2
    OBVIOUS
  <2> QED BY <2>1, <2>3, <2>4
<1>5. Abs' = Content(r, fs) /\ Abs = Content(l, es)
  BY <1>1, <1>3, AbsIsContent, AbsIsContentNext
<1>6. Abs' = SubSeq(Abs, 1, from) \o SubSeq(Abs, to + 2, Len(Abs))
  BY <1>4, <1>5
<1>7. r.iter_active = l.iter_active
  BY <1>2 DEF IsRemoval
<1>8. Iter = -1 /\ Iter' = -1
  BY <1>1, <1>7 DEF Iter
<1>9. List!Removes(from, to, value)
  BY <1>6, <1>8 DEF List!Removes, List!Idle, Abs, Iter
<1>10. Inv'
  BY <1>1, <1>3 DEF Inv
<1> QED BY <1>9, <1>10

\* The entry of a failed insertion is freed.
LEMMA EntryFreedOK ==
  ASSUME NEW es, ListOK(l, es), NEW r, r = EntryFreed
  PROVE  /\ ListOK(r, es) /\ Content(r, es) = Content(l, es)
         /\ r.iter_active = l.iter_active /\ r.iter_pos = l.iter_pos
<1>1. CASE l.spareels = <<>>
  BY <1>1 DEF EntryFreed
<1>2. CASE l.spareels # <<>>
  <2>1. PICK sp, h : /\ sp = SubSeq(l.spareels, 1, Len(l.spareels) - 1)
                     /\ h = l.heap \ {NewEntry}
    OBVIOUS
  <2>2. l \in ListRecords /\ Memory(l.spareels, l.heap, Elements(l.numels, es))
    BY DEF ListOK
  <2>3. Memory(sp, h, Elements(l.numels, es))
    BY <1>2, <2>1, <2>2, FreeMemory
  <2>4. sp \in Seq(Entries) /\ h \subseteq Entries
    BY <2>1, <2>2, <2>3 DEF Memory, ListRecords
  <2>5. r = [l EXCEPT !.spareels = sp, !.heap = h]
    BY <1>2, <2>1, <2>2 DEF EntryFreed, ListRecords
  <2>6. /\ r \in ListRecords /\ r.spareels = sp /\ r.heap = h
        /\ r.numels = l.numels /\ r.mid = l.mid /\ r.next = l.next
        /\ r.prev = l.prev /\ r.data = l.data /\ r.copies = l.copies
        /\ r.copy_data = l.copy_data
        /\ r.iter_active = l.iter_active /\ r.iter_pos = l.iter_pos
        /\ r.iter_curentry = l.iter_curentry
    BY <2>2, <2>4, <2>5 DEF ListRecords
  <2>7. IterOK(r, es)
    BY <2>6 DEF ListOK, IterOK
  <2>8. ListOK(r, es)
    BY <2>3, <2>6, <2>7 DEF ListOK
  <2> QED BY <2>6, <2>8 DEF Content
<1> QED BY <1>1, <1>2

\* list_insert_at() inserts the element, or returns -1.
LEMMA InsertStep ==
  ASSUME Inv, NEW pos \in Positions, NEW v \in Values, list_insert_at(pos, v)
  PROVE  Inv' /\ List!Insert(pos, v)
<1>1. PICK es : ListOK(l, es)
  BY DEF Inv
<1>2. /\ Len(Abs) = l.numels /\ l.numels \in Nat
      /\ List!Idle <=> ~l.iter_active
  BY <1>1, AbsSeq, IterIdle
<1>p. pos \in Nat
  BY DEF Positions
<1>d. List!Insert(pos, v) <=>
        \/ /\ List!Idle /\ pos <= Len(Abs)
           /\ Abs' = List!InsertAt(Abs, pos + 1, v)
           /\ ret' = 1
           /\ Iter' = Iter
        \/ (MemoryFails \/ ~List!Idle \/ pos > Len(Abs)) /\ List!Fails
  BY DEF List!Insert, Abs, Iter
<1>3. CASE /\ ~l.iter_active /\ pos <= l.numels /\ l.numels < MaxElements
           /\ l' = Inserted(pos, v) /\ ret' = 1
  <2>1. PICK r : r = Inserted(pos, v)
    OBVIOUS
  <2>2. pos \in 0..l.numels
    BY <1>2, <1>3, <1>p
  <2>3. PICK fs : /\ ListOK(r, fs)
                  /\ Content(r, fs) = List!InsertAt(Content(l, es), pos + 1, v)
                  /\ r.iter_active = l.iter_active /\ r.iter_pos = l.iter_pos
    BY <1>1, <1>3, <2>1, <2>2, InsertedOK
  <2>4. r = l'
    BY <1>3, <2>1
  <2>5. Abs = Content(l, es) /\ Abs' = Content(r, fs)
    BY <1>1, <2>3, <2>4, AbsIsContent, AbsIsContentNext
  <2>6. Abs' = List!InsertAt(Abs, pos + 1, v)
    BY <2>3, <2>5
  <2>7. Iter' = Iter
    BY <2>3, <2>4 DEF Iter
  <2>8. Inv'
    BY <2>3, <2>4 DEF Inv
  <2> QED BY <1>2, <1>3, <1>d, <2>6, <2>7, <2>8
<1>4. CASE (l.iter_active \/ pos > l.numels) /\ ret' = -1 /\ UNCHANGED l
  <2>1. ListOK(l', es) /\ List!Fails
    BY <1>1, <1>4, OnlyReturns
  <2> QED BY <1>2, <1>4, <1>d, <2>1 DEF Inv
<1>5. CASE /\ MemoryFails
           /\ l' = IF l.copy_data THEN EntryFreed ELSE l
           /\ ret' = -1
  <2>1. CASE l.copy_data
    <3>1. PICK r : r = EntryFreed
      OBVIOUS
    <3>2. /\ ListOK(r, es) /\ Content(r, es) = Content(l, es)
          /\ r.iter_active = l.iter_active /\ r.iter_pos = l.iter_pos
      BY <1>1, <3>1, EntryFreedOK
    <3>3. r = l'
      BY <1>5, <2>1, <3>1
    <3>4. Abs' = Abs
      BY <1>1, <3>2, <3>3, AbsIsContent, AbsIsContentNext
    <3>5. Iter' = Iter
      BY <3>2, <3>3 DEF Iter
    <3>6. List!Fails
      BY <1>5, <3>4, <3>5 DEF List!Fails, Abs, Iter
    <3>7. Inv'
      BY <3>2, <3>3 DEF Inv
    <3> QED BY <1>5, <1>d, <3>6, <3>7
  <2>2. CASE ~l.copy_data
    <3>1. ListOK(l', es) /\ List!Fails
      BY <1>1, <1>5, <2>2, OnlyReturns
    <3> QED BY <1>5, <1>d, <3>1 DEF Inv
  <2> QED BY <2>1, <2>2
<1> QED BY <1>3, <1>4, <1>5 DEF list_insert_at

\* Removing the element at a position.
LEMMA DropStep ==
  ASSUME NEW es, ListOK(l, es), ~l.iter_active, NEW pos \in Nat, pos < l.numels,
         l' = Dropped(pos), NEW value, ret' = value
  PROVE  Inv' /\ List!Removes(pos, pos, value)
<1>1. PICK k \in Nat : k = 1
  OBVIOUS
<1>2. IsRemoval(l', es, pos, k)
  <2>1. IsRemoval(Dropped(pos), es, pos, 1)
    BY DroppedOK
  <2> QED BY <1>1, <2>1
<1>3. l.numels \in Nat
  BY AbsSeq
<1>4. pos + k <= l.numels /\ pos = pos + k - 1
  BY <1>1, <1>3
<1> QED BY <1>2, <1>4, RemovesOK

\* list_delete_at() removes the element at pos, or returns -1.
LEMMA DeleteAtStep ==
  ASSUME Inv, NEW pos \in Nat, list_delete_at(pos)
  PROVE  Inv' /\ List!DeleteAt(pos)
<1>1. PICK es : ListOK(l, es)
  BY DEF Inv
<1>2. /\ Len(Abs) = l.numels /\ l.numels \in Nat
      /\ List!Idle <=> ~l.iter_active
  BY <1>1, AbsSeq, IterIdle
<1>d. List!DeleteAt(pos) <=>
        \/ pos < Len(Abs) /\ List!Removes(pos, pos, 0)
        \/ (~List!Idle \/ pos >= Len(Abs)) /\ List!Fails
  BY DEF List!DeleteAt, Abs
<1>3. CASE ~l.iter_active /\ pos < l.numels /\ l' = Dropped(pos) /\ ret' = 0
  <2>1. Inv' /\ List!Removes(pos, pos, 0)
    BY <1>1, <1>3, DropStep
  <2> QED BY <1>2, <1>3, <1>d, <2>1
<1>4. CASE (l.iter_active \/ pos >= l.numels) /\ ret' = -1 /\ UNCHANGED l
  <2>1. ListOK(l', es) /\ List!Fails
    BY <1>1, <1>4, OnlyReturns
  <2> QED BY <1>2, <1>4, <1>d, <2>1 DEF Inv
<1> QED BY <1>3, <1>4 DEF list_delete_at

\* list_extract_at() removes the element at pos and returns it, or NULL.
LEMMA ExtractStep ==
  ASSUME Inv, NEW pos \in Nat, list_extract_at(pos)
  PROVE  Inv' /\ List!Extract(pos)
<1>1. PICK es : ListOK(l, es)
  BY DEF Inv
<1>2. /\ Len(Abs) = l.numels /\ l.numels \in Nat
      /\ List!Idle <=> ~l.iter_active
      /\ \A i \in 1..l.numels : Abs[i] = l.data[es[i]]
  BY <1>1, AbsSeq, IterIdle
<1>d. List!Extract(pos) <=>
        \/ pos < Len(Abs) /\ List!Removes(pos, pos, Abs[pos + 1])
        \/ (~List!Idle \/ pos >= Len(Abs)) /\ List!Returns(0)
  BY DEF List!Extract, List!NULL, Abs
<1>3. CASE /\ ~l.iter_active /\ pos < l.numels /\ l' = Dropped(pos)
           /\ ret' = l.data[list_findpos(pos)]
  <2>2. pos \in -1 .. l.numels /\ pos + 1 \in 1..l.numels
    BY <1>2, <1>3
  <2>3. list_findpos(pos) = es[pos + 1]
    BY <1>1, <2>2, FindPos DEF ListOK
  <2>4. ret' = Abs[pos + 1]
    BY <1>2, <1>3, <2>2, <2>3
  <2>5. PICK value : value = Abs[pos + 1]
    OBVIOUS
  <2>6. Inv' /\ List!Removes(pos, pos, value)
    BY <1>1, <1>3, <2>4, <2>5, DropStep
  <2>7. List!Removes(pos, pos, Abs[pos + 1])
    BY <2>5, <2>6 DEF List!Removes
  <2> QED BY <1>2, <1>3, <1>d, <2>6, <2>7
<1>4. CASE (l.iter_active \/ pos >= l.numels) /\ ret' = NULL /\ UNCHANGED l
  <2>1. ListOK(l', es) /\ List!Returns(ret')
    BY <1>1, <1>4, OnlyReturns
  <2>2. List!Returns(0)
    BY <1>4, <2>1 DEF NULL
  <2> QED BY <1>2, <1>4, <1>d, <2>1, <2>2 DEF Inv
<1> QED BY <1>3, <1>4 DEF list_extract_at

\* Removing all elements.
LEMMA ClearedStep ==
  ASSUME NEW es, ListOK(l, es), ~l.iter_active, l' = Cleared,
         NEW to, to = l.numels - 1, NEW value, ret' = value
  PROVE  Inv' /\ List!Removes(0, to, value)
<1>1. PICK from, k : from = 0 /\ k = l.numels
  OBVIOUS
<1>2. l.numels \in Nat
  BY AbsSeq
<1>3. IsRemoval(l', es, from, k)
  <2>1. IsRemoval(Cleared, es, 0, l.numels)
    BY ClearedOK
  <2> QED BY <1>1, <2>1
<1>4. from \in Nat /\ k \in Nat /\ from + k <= l.numels /\ to = from + k - 1
  BY <1>1, <1>2
<1>5. Inv' /\ List!Removes(from, to, value)
  BY <1>3, <1>4, RemovesOK
<1> QED BY <1>1, <1>5 DEF List!Removes

\* list_clear() removes all elements and returns their number, or returns -1.
LEMMA ClearStep ==
  ASSUME Inv, list_clear
  PROVE  Inv' /\ List!Clear
<1>1. PICK es : ListOK(l, es)
  BY DEF Inv
<1>2. /\ Len(Abs) = l.numels /\ l.numels \in Nat
      /\ List!Idle <=> ~l.iter_active
  BY <1>1, AbsSeq, IterIdle
<1>d. List!Clear <=> \/ List!Removes(0, Len(Abs) - 1, Len(Abs))
                     \/ ~List!Idle /\ List!Fails
  BY DEF List!Clear, Abs
<1>3. CASE ~l.iter_active /\ l' = Cleared /\ ret' = l.numels
  <2>1. PICK to, value : to = l.numels - 1 /\ value = l.numels
    OBVIOUS
  <2>2. Inv' /\ List!Removes(0, to, value)
    BY <1>1, <1>3, <2>1, ClearedStep
  <2>3. List!Removes(0, Len(Abs) - 1, Len(Abs))
    BY <1>2, <2>1, <2>2 DEF List!Removes
  <2> QED BY <1>d, <2>2, <2>3
<1>4. CASE l.iter_active /\ ret' = -1 /\ UNCHANGED l
  <2>1. ListOK(l', es) /\ List!Fails
    BY <1>1, <1>4, OnlyReturns
  <2> QED BY <1>2, <1>4, <1>d, <2>1 DEF Inv
<1> QED BY <1>3, <1>4 DEF list_clear

\* list_delete_range() removes the elements from one position to another, all
\* of them or some, or returns -1.
LEMMA DeleteRangeStep ==
  ASSUME Inv, NEW from \in Nat, NEW to \in Nat, list_delete_range(from, to)
  PROVE  Inv' /\ List!DeleteRange(from, to)
<1>1. PICK es : ListOK(l, es)
  BY DEF Inv
<1>2. /\ Len(Abs) = l.numels /\ l.numels \in Nat
      /\ List!Idle <=> ~l.iter_active
  BY <1>1, AbsSeq, IterIdle
<1>d. List!DeleteRange(from, to) <=>
        \/ from <= to /\ to < Len(Abs) /\ List!Removes(from, to, to - from + 1)
        \/ (~List!Idle \/ to < from \/ to >= Len(Abs)) /\ List!Fails
  BY DEF List!DeleteRange, Abs
<1>3. CASE /\ ~l.iter_active /\ from <= to /\ to < l.numels
           /\ l' = IF to - from + 1 = l.numels THEN Cleared
                                               ELSE RangeDeleted(from, to)
           /\ ret' = to - from + 1
  <2>1. PICK k : k = to - from + 1
    OBVIOUS
  <2>2. Inv' /\ List!Removes(from, to, k)
    <3>1. CASE k = l.numels
      <4>1. from = 0 /\ to = l.numels - 1
        BY <1>2, <1>3, <2>1, <3>1
      <4>2. Inv' /\ List!Removes(0, to, k)
        BY <1>1, <1>3, <2>1, <3>1, <4>1, ClearedStep
      <4> QED BY <4>1, <4>2 DEF List!Removes
    <3>2. CASE k # l.numels
      <4>1. IsRemoval(RangeDeleted(from, to), es, from, k)
        BY <1>1, <1>3, <2>1, <3>2, RangeDeletedOK
      <4>2. IsRemoval(l', es, from, k)
        BY <1>3, <2>1, <3>2, <4>1
      <4>3. k \in Nat /\ from + k <= l.numels /\ to = from + k - 1
        BY <1>2, <1>3, <2>1
      <4> QED BY <1>1, <1>3, <2>1, <4>2, <4>3, RemovesOK
    <3> QED BY <3>1, <3>2
  <2>3. List!Removes(from, to, to - from + 1)
    BY <2>1, <2>2 DEF List!Removes
  <2> QED BY <1>2, <1>3, <1>d, <2>2, <2>3
<1>4. CASE /\ l.iter_active \/ to < from \/ to >= l.numels
           /\ ret' = -1 /\ UNCHANGED l
  <2>1. ListOK(l', es) /\ List!Fails
    BY <1>1, <1>4, OnlyReturns
  <2> QED BY <1>2, <1>4, <1>d, <2>1 DEF Inv
<1> QED BY <1>3, <1>4 DEF list_delete_range

\* The search finds the first position, or none.
LEMMA LocateFirst ==
  ASSUME Inv, NEW v
  PROVE  /\ LocatePos(v) = List!First(v)
         /\ LocatePos(v) \in -1 .. l.numels - 1
         /\ LocatePos(v) >= 0 <=> List!Contains(Abs, v)
<1>1. PICK es : ListOK(l, es)
  BY DEF Inv
<1>2. /\ Len(Abs) = l.numels /\ l.numels \in Nat
      /\ \A i \in 1..l.numels : Abs[i] = l.data[es[i]]
  BY <1>1, AbsSeq
<1>3. PICK found : found = {i \in 1..l.numels : Abs[i] = v}
  OBVIOUS
<1>4. List!First(v) = IF found = {} THEN -1 ELSE Min(found) - 1
  <2>1. List!First(v) =
          LET I == {i \in 1..Len(Abs) : Abs[i] = v}
          IN IF \E i \in 1..Len(Abs) : Abs[i] = v
             THEN (IF I # {} THEN Min(I) ELSE 0) - 1 ELSE -1
    BY DEF List!First, List!Contains, List!SelectInSeq, List!Min, Min, Abs
  <2> QED BY <1>2, <1>3, <2>1
<1>5. LocatePos(v) = IF found = {} THEN -1 ELSE Min(found) - 1
  <2>1. EntriesFrom(l.next[head_sentinel], l.numels)
          = [i \in 1..l.numels |-> es[i]]
    BY <1>1, InListAlong DEF ListOK
  <2>2. found = {i \in 1..l.numels :
                   l.data[EntriesFrom(l.next[head_sentinel], l.numels)[i]] = v}
    BY <1>2, <1>3, <2>1
  <2> QED BY <2>2 DEF LocatePos
<1>6. found # {} => Min(found) \in 1..l.numels
  <2>1. found \subseteq Nat /\ found \subseteq 1..l.numels
    BY <1>2, <1>3
  <2> QED BY <2>1, MinNat
<1>7. List!Contains(Abs, v) <=> found # {}
  BY <1>2, <1>3 DEF List!Contains
<1>8. LocatePos(v) \in -1 .. l.numels - 1
      /\ (LocatePos(v) >= 0 <=> found # {})
  <2>1. CASE found = {}
    BY <1>2, <1>5, <2>1
  <2>2. CASE found # {}
    <3>1. PICK m \in 1..l.numels : m = Min(found)
      BY <1>6, <2>2
    <3>2. LocatePos(v) = m - 1
      BY <1>5, <2>2, <3>1
    <3> QED BY <1>2, <2>2, <3>2
  <2> QED BY <2>1, <2>2
<1> QED BY <1>4, <1>5, <1>7, <1>8

\* list_locate() returns the first position.
LEMMA LocateStep ==
  ASSUME Inv, NEW v, list_locate(v)
  PROVE  Inv' /\ List!Locate(v)
<1>1. PICK es : ListOK(l, es)
  BY DEF Inv
<1>2. ret' = List!First(v) /\ UNCHANGED l
  BY LocateFirst DEF list_locate
<1>3. ListOK(l', es) /\ List!Returns(ret')
  BY <1>1, <1>2, OnlyReturns
<1>4. List!Locate(v)
  BY <1>2, <1>3 DEF List!Locate, List!Returns
<1> QED BY <1>3, <1>4 DEF Inv

\* list_seek() returns the element when it is in the list.
LEMMA SeekStep ==
  ASSUME Inv, NEW v, list_seek(v)
  PROVE  Inv' /\ List!Seek(v)
<1>1. PICK es : ListOK(l, es)
  BY DEF Inv
<1>2. /\ ret' = IF List!Contains(Abs, v) THEN v ELSE 0
      /\ UNCHANGED l
  BY LocateFirst DEF list_seek, NULL
<1>3. ListOK(l', es) /\ List!Returns(ret')
  BY <1>1, <1>2, OnlyReturns
<1>4. List!Seek(v) <=> List!Returns(IF List!Contains(Abs, v) THEN v ELSE 0)
  BY DEF List!Seek, List!NULL, Abs
<1>5. List!Returns(IF List!Contains(Abs, v) THEN v ELSE 0)
  BY <1>2, <1>3 DEF List!Returns
<1> QED BY <1>3, <1>4, <1>5 DEF Inv

\* list_delete() removes the first element that is v, or returns -1.
LEMMA DeleteStep ==
  ASSUME Inv, NEW v, list_delete(v)
  PROVE  Inv' /\ List!Delete(v)
<1>1. PICK es : ListOK(l, es)
  BY DEF Inv
<1>2. l.numels \in Nat /\ (List!Idle <=> ~l.iter_active)
  BY <1>1, AbsSeq, IterIdle
<1>3. PICK pos : pos = LocatePos(v)
  OBVIOUS
<1>4. pos = List!First(v) /\ pos \in -1 .. l.numels - 1
  BY <1>3, LocateFirst
<1>d. List!Delete(v) <=>
        \/ List!First(v) >= 0 /\ List!Removes(List!First(v), List!First(v), 0)
        \/ (~List!Idle \/ List!First(v) < 0) /\ List!Fails
  BY DEF List!Delete
<1>5. CASE /\ pos >= 0 /\ ~l.iter_active /\ pos < l.numels
           /\ l' = Dropped(pos) /\ ret' = 0
  <2>1. pos \in Nat
    BY <1>2, <1>4, <1>5
  <2>2. Inv' /\ List!Removes(pos, pos, 0)
    BY <1>1, <1>5, <2>1, DropStep
  <2>3. List!Removes(List!First(v), List!First(v), 0)
    BY <1>4, <2>2 DEF List!Removes
  <2> QED BY <1>4, <1>5, <1>d, <2>2, <2>3
<1>6. CASE pos >= 0 /\ l.iter_active /\ ret' = -1 /\ UNCHANGED l
  <2>1. ListOK(l', es) /\ List!Fails
    BY <1>1, <1>6, OnlyReturns
  <2> QED BY <1>2, <1>6, <1>d, <2>1 DEF Inv
<1>7. CASE pos < 0 /\ ret' = -1 /\ UNCHANGED l
  <2>1. ListOK(l', es) /\ List!Fails
    BY <1>1, <1>7, OnlyReturns
  <2> QED BY <1>4, <1>7, <1>d, <2>1 DEF Inv
<1>8. \/ pos >= 0 /\ list_delete_at(pos)
      \/ pos < 0 /\ ret' = -1 /\ UNCHANGED l
  BY <1>3 DEF list_delete, list_delete_at
<1> QED BY <1>2, <1>4, <1>5, <1>6, <1>7, <1>8 DEF list_delete_at

\* list_get_at() returns the element at pos, and NULL behind the last one.
LEMMA GetAtStep ==
  ASSUME Inv, NEW pos \in Nat, list_get_at(pos)
  PROVE  Inv' /\ List!GetAt(pos)
<1>1. PICK es : ListOK(l, es)
  BY DEF Inv
<1>2. /\ Len(Abs) = l.numels /\ l.numels \in Nat
      /\ \A i \in 1..l.numels : Abs[i] = l.data[es[i]]
  BY <1>1, AbsSeq
<1>3. ret' = IF pos < Len(Abs) THEN Abs[pos + 1] ELSE 0
  <2>1. CASE pos > l.numels
    BY <1>2, <2>1 DEF list_get_at, NULL
  <2>2. CASE ~(pos > l.numels)
    <3>1. pos \in -1 .. l.numels
      BY <1>2, <2>2
    <3>2. list_findpos(pos) = es[pos + 1]
      BY <1>1, <3>1, FindPos DEF ListOK
    <3>3. ret' = l.data[es[pos + 1]]
      BY <2>2, <3>2 DEF list_get_at
    <3>4. CASE pos = l.numels
      <4>1. es[pos + 1] = tail_sentinel /\ l.data[tail_sentinel] = NULL
        BY <1>1, <3>4 DEF ListOK, Chain
      <4> QED BY <1>2, <3>3, <3>4, <4>1 DEF NULL
    <3>5. CASE pos < l.numels
      <4>1. pos + 1 \in 1..l.numels
        BY <1>2, <3>5
      <4> QED BY <1>2, <3>3, <3>5, <4>1
    <3> QED BY <1>2, <2>2, <3>4, <3>5
  <2> QED BY <2>1, <2>2
<1>4. ListOK(l', es) /\ List!Returns(ret')
  BY <1>1, OnlyReturns DEF list_get_at
<1>5. List!Returns(IF pos < Len(Abs) THEN Abs[pos + 1] ELSE 0)
  BY <1>3, <1>4 DEF List!Returns
<1>6. List!GetAt(pos)
      <=> List!Returns(IF pos < Len(Abs) THEN Abs[pos + 1] ELSE 0)
  BY DEF List!GetAt, List!NULL, Abs
<1> QED BY <1>4, <1>5, <1>6 DEF Inv

-----------------------------------------------------------------------------
\* Iteration

\* r is the list whose iteration has been moved to the entry cur at pos.
Moved(r, es, active, pos, cur) ==
  /\ active \in BOOLEAN /\ pos \in Nat /\ cur \in Addresses
  /\ active => pos \in 0..l.numels /\ cur = es[pos + 1]
  /\ r = [l EXCEPT !.iter_pos = pos, !.iter_active = active,
                   !.iter_curentry = cur]

\* Only the iteration moves.
LEMMA IterMoves ==
  ASSUME NEW es, ListOK(l, es), NEW active, NEW pos, NEW cur, NEW r,
         Moved(r, es, active, pos, cur)
  PROVE  /\ ListOK(r, es) /\ Content(r, es) = Content(l, es)
         /\ r.iter_active = active /\ r.iter_pos = pos
<1>1. l \in ListRecords
  BY DEF ListOK
<1>2. /\ r \in ListRecords /\ r.spareels = l.spareels /\ r.heap = l.heap
      /\ r.numels = l.numels /\ r.mid = l.mid /\ r.next = l.next
      /\ r.prev = l.prev /\ r.data = l.data /\ r.copies = l.copies
      /\ r.copy_data = l.copy_data
      /\ r.iter_active = active /\ r.iter_pos = pos /\ r.iter_curentry = cur
  BY <1>1 DEF ListRecords, Moved
<1>3. IterOK(r, es)
  BY <1>2 DEF IterOK, Moved
<1>4. ListOK(r, es)
  BY <1>2, <1>3 DEF ListOK
<1> QED BY <1>2, <1>4 DEF Content

\* list_iterator_start() starts at the first element.
LEMMA IteratorStartStep ==
  ASSUME Inv, list_iterator_start
  PROVE  Inv' /\ List!IteratorStart
<1>1. PICK es : ListOK(l, es)
  BY DEF Inv
<1>2. l.numels \in Nat /\ (List!Idle <=> ~l.iter_active)
      /\ l.iter_active \in BOOLEAN
  BY <1>1, AbsSeq, IterIdle
<1>d. List!IteratorStart <=>
        \/ List!Idle /\ Iter' = 0 /\ ret' = 1 /\ Abs' = Abs
        \/ ~List!Idle /\ List!Returns(0)
  BY DEF List!IteratorStart, Iter, Abs
<1>3. CASE /\ ~l.iter_active /\ ret' = 1
           /\ l' = [l EXCEPT !.iter_pos = 0, !.iter_active = TRUE,
                             !.iter_curentry = l.next[head_sentinel]]
  <2>1. PICK r, cur, pos, active :
          /\ r = l' /\ cur = l.next[head_sentinel] /\ pos = 0 /\ active = TRUE
    OBVIOUS
  <2>2. cur = es[pos + 1] /\ cur \in Addresses
    <3>1. 0 \in 0..l.numels /\ 0 + 1 \in 0 .. l.numels + 1
      BY <1>2
    <3> QED BY <1>1, <2>1, <3>1 DEF ListOK, Chain
  <2>3. pos \in Nat /\ pos \in 0..l.numels /\ active \in BOOLEAN
    BY <1>2, <2>1
  <2>4. r = [l EXCEPT !.iter_pos = pos, !.iter_active = active,
                      !.iter_curentry = cur]
    BY <1>3, <2>1
  <2>5. /\ ListOK(r, es) /\ Content(r, es) = Content(l, es)
        /\ r.iter_active = active /\ r.iter_pos = pos
    <3>1. Moved(r, es, active, pos, cur)
      BY <2>2, <2>3, <2>4 DEF Moved
    <3> QED BY <1>1, <3>1, IterMoves
  <2>6. Abs' = Abs
    BY <1>1, <2>1, <2>5, AbsIsContent, AbsIsContentNext
  <2>7. Iter' = 0
    BY <2>1, <2>5 DEF Iter
  <2>8. Inv'
    BY <2>1, <2>5 DEF Inv
  <2> QED BY <1>2, <1>3, <1>d, <2>6, <2>7, <2>8
<1>4. CASE l.iter_active /\ ret' = 0 /\ UNCHANGED l
  <2>1. ListOK(l', es) /\ List!Returns(ret')
    BY <1>1, <1>4, OnlyReturns
  <2>2. List!Returns(0)
    BY <1>4, <2>1 DEF List!Returns
  <2> QED BY <1>2, <1>4, <1>d, <2>1, <2>2 DEF Inv
<1> QED BY <1>3, <1>4 DEF list_iterator_start

\* list_iterator_next() returns the next element.
LEMMA IteratorNextStep ==
  ASSUME Inv, list_iterator_next
  PROVE  Inv' /\ List!IteratorNext
<1>1. PICK es : ListOK(l, es)
  BY DEF Inv
<1>2. /\ Len(Abs) = l.numels /\ l.numels \in Nat
      /\ (List!Idle <=> ~l.iter_active)
      /\ l.iter_active \in BOOLEAN /\ l.iter_pos \in Nat
      /\ \A i \in 1..l.numels : Abs[i] = l.data[es[i]]
  BY <1>1, AbsSeq, IterIdle
<1>d. List!IteratorNext <=>
        \/ /\ ~List!Idle /\ Iter < Len(Abs)
           /\ ret' = Abs[Iter + 1]
           /\ Iter' = Iter + 1
           /\ Abs' = Abs
        \/ (List!Idle \/ Iter >= Len(Abs)) /\ List!Returns(0)
  BY DEF List!IteratorNext, List!NULL, Iter, Abs
<1>3. CASE /\ l.iter_active /\ l.iter_pos < l.numels
           /\ ret' = l.data[l.iter_curentry]
           /\ l' = [l EXCEPT !.iter_curentry = l.next[l.iter_curentry],
                             !.iter_pos = @ + 1]
  <2>1. PICK p \in Nat : p = l.iter_pos
    BY <1>2
  <2>2. p < l.numels /\ l.iter_curentry = es[p + 1]
    BY <1>1, <1>3, <2>1 DEF ListOK, IterOK
  <2>3. PICK r, cur, pos, active :
          /\ r = l' /\ cur = l.next[l.iter_curentry] /\ pos = p + 1
          /\ active = TRUE
    OBVIOUS
  <2>4. pos \in Nat /\ pos \in 0..l.numels /\ active \in BOOLEAN
    BY <1>2, <2>2, <2>3
  <2>5. cur = es[pos + 1] /\ cur \in Addresses
    <3>1. pos + 1 \in 0 .. l.numels + 1
      BY <1>2, <2>4
    <3>2. es[pos + 1] \in Addresses /\ l.next[es[pos]] = es[pos + 1]
      BY <1>1, <2>4, <3>1 DEF ListOK, Chain
    <3> QED BY <2>2, <2>3, <3>2
  <2>6. r = [l EXCEPT !.iter_pos = pos, !.iter_active = active,
                      !.iter_curentry = cur]
    BY <1>1, <1>3, <2>1, <2>3 DEF ListOK, ListRecords
  <2>7. /\ ListOK(r, es) /\ Content(r, es) = Content(l, es)
        /\ r.iter_active = active /\ r.iter_pos = pos
    <3>1. Moved(r, es, active, pos, cur)
      BY <2>4, <2>5, <2>6 DEF Moved
    <3> QED BY <1>1, <3>1, IterMoves
  <2>8. Abs' = Abs
    BY <1>1, <2>3, <2>7, AbsIsContent, AbsIsContentNext
  <2>9. Iter = p /\ Iter' = p + 1
    BY <1>3, <2>1, <2>3, <2>7 DEF Iter
  <2>10. ret' = Abs[p + 1]
    <3>1. p + 1 \in 1..l.numels
      BY <1>2, <2>2
    <3> QED BY <1>2, <1>3, <2>2, <3>1
  <2>11. Inv'
    BY <2>3, <2>7 DEF Inv
  <2> QED BY <1>2, <1>3, <1>d, <2>2, <2>8, <2>9, <2>10, <2>11
<1>4. CASE ~l.iter_active /\ ret' = NULL /\ UNCHANGED l
  <2>1. ListOK(l', es) /\ List!Returns(ret')
    BY <1>1, <1>4, OnlyReturns
  <2>2. List!Returns(0)
    BY <1>4, <2>1 DEF List!Returns, NULL
  <2> QED BY <1>2, <1>4, <1>d, <2>1, <2>2 DEF Inv
<1> QED BY <1>3, <1>4 DEF list_iterator_next

\* list_iterator_stop() ends the iteration.
LEMMA IteratorStopStep ==
  ASSUME Inv, list_iterator_stop
  PROVE  Inv' /\ List!IteratorStop
<1>1. PICK es : ListOK(l, es)
  BY DEF Inv
<1>2. l.numels \in Nat /\ (List!Idle <=> ~l.iter_active)
      /\ l.iter_active \in BOOLEAN
  BY <1>1, AbsSeq, IterIdle
<1>d. List!IteratorStop <=>
        \/ ~List!Idle /\ Iter' = -1 /\ ret' = 1 /\ Abs' = Abs
        \/ List!Idle /\ List!Returns(0)
  BY DEF List!IteratorStop, Iter, Abs
<1>3. CASE /\ l.iter_active /\ ret' = 1
           /\ l' = [l EXCEPT !.iter_pos = 0, !.iter_active = FALSE,
                             !.iter_curentry = NULL]
  <2>1. PICK r, cur, pos, active :
          r = l' /\ cur = NULL /\ pos = 0 /\ active = FALSE
    OBVIOUS
  <2>2. cur \in Addresses /\ pos \in Nat /\ active \in BOOLEAN
    BY <2>1 DEF Addresses
  <2>3. r = [l EXCEPT !.iter_pos = pos, !.iter_active = active,
                      !.iter_curentry = cur]
    BY <1>3, <2>1
  <2>4. /\ ListOK(r, es) /\ Content(r, es) = Content(l, es)
        /\ r.iter_active = active /\ r.iter_pos = pos
    <3>1. active => pos \in 0..l.numels /\ cur = es[pos + 1]
      BY <2>1
    <3>2. Moved(r, es, active, pos, cur)
      BY <2>2, <2>3, <3>1 DEF Moved
    <3> QED BY <1>1, <3>2, IterMoves
  <2>5. Abs' = Abs
    BY <1>1, <2>1, <2>4, AbsIsContent, AbsIsContentNext
  <2>6. Iter' = -1
    BY <2>1, <2>4 DEF Iter
  <2>7. Inv'
    BY <2>1, <2>4 DEF Inv
  <2> QED BY <1>2, <1>3, <1>d, <2>5, <2>6, <2>7
<1>4. CASE ~l.iter_active /\ ret' = 0 /\ UNCHANGED l
  <2>1. ListOK(l', es) /\ List!Returns(ret')
    BY <1>1, <1>4, OnlyReturns
  <2>2. List!Returns(0)
    BY <1>4, <2>1 DEF List!Returns
  <2> QED BY <1>2, <1>4, <1>d, <2>1, <2>2 DEF Inv
<1> QED BY <1>3, <1>4 DEF list_iterator_stop

-----------------------------------------------------------------------------
\* Theorems

\* A new list has no entry.
LEMMA InitInv ==
  ASSUME Init
  PROVE  Inv /\ List!Init
<1>1. PICK copy \in BOOLEAN : l = NewList(copy)
  BY ListAssumption DEF Init
<1>2. PICK es : es = [i \in 0..1 |-> IF i = 0 THEN head_sentinel
                                     ELSE tail_sentinel]
  OBVIOUS
<1>3. /\ l.numels = 0 /\ l.mid = NULL /\ l.spareels = <<>>
      /\ l.copy_data = copy /\ l.iter_active = FALSE
      /\ l.heap = {} /\ l.copies = 0
      /\ l.next = [a \in Addresses |->
                     IF a = head_sentinel THEN tail_sentinel ELSE NULL]
      /\ l.prev = [a \in Addresses |->
                     IF a = tail_sentinel THEN head_sentinel ELSE NULL]
      /\ l.data = [a \in Addresses |-> NULL]
  BY <1>1 DEF NewList
<1>4. NULL \in Addresses /\ head_sentinel \in Addresses
      /\ tail_sentinel \in Addresses /\ NULL \in Nat
      /\ head_sentinel # tail_sentinel
  BY DEF Addresses, NULL, head_sentinel, tail_sentinel
<1>5. l \in ListRecords
  <2>1. PICK nx \in [Addresses -> Addresses], pv \in [Addresses -> Addresses],
             dt \in [Addresses -> Nat] :
          /\ nx = [a \in Addresses |->
                     IF a = head_sentinel THEN tail_sentinel ELSE NULL]
          /\ pv = [a \in Addresses |->
                     IF a = tail_sentinel THEN head_sentinel ELSE NULL]
          /\ dt = [a \in Addresses |-> NULL]
    BY <1>4
  <2>2. l = [numels |-> 0, mid |-> NULL, spareels |-> <<>>, copy_data |-> copy,
             next |-> nx, prev |-> pv, data |-> dt,
             iter_active |-> FALSE, iter_pos |-> 0, iter_curentry |-> NULL,
             heap |-> {}, copies |-> 0]
    BY <1>1, <2>1 DEF NewList
  <2>3. <<>> \in Seq(Entries) /\ {} \in SUBSET Entries /\ 0 \in Nat /\ 0 \in Int
    OBVIOUS
  <2> QED BY <1>4, <2>2, <2>3 DEF ListRecords
<1>6. Chain(l.next, l.prev, 0, es)
  <2>1. es[0] = head_sentinel /\ es[0 + 1] = tail_sentinel
        /\ es \in [0 .. 0 + 1 -> Addresses]
    BY <1>2, <1>4
  <2>2. \A i, j \in 0 .. 0 + 1 : es[i] = es[j] => i = j
    <3>1. \A i \in 0 .. 0 + 1 : i = 0 \/ i = 1
      OBVIOUS
    <3> QED BY <1>2, <1>4, <3>1
  <2>3. \A i \in 0..0 : i = 0
    OBVIOUS
  <2>4. \A i \in 0..0 : l.next[es[i]] = es[i + 1] /\ l.prev[es[i + 1]] = es[i]
    BY <1>3, <1>4, <2>1, <2>3
  <2>5. l.next \in [Addresses -> Addresses] /\ l.prev \in [Addresses -> Addresses]
    BY <1>5 DEF ListRecords
  <2>6. \A i \in 1..0 : es[i] \in Entries
    OBVIOUS
  <2> QED BY <2>1, <2>2, <2>4, <2>5, <2>6 DEF Chain
<1>7. Memory(l.spareels, l.heap, Elements(0, es))
  <2>1. Elements(0, es) = {} /\ Spares(<<>>) = {}
    BY DEF Elements, Spares
  <2>2. Distinct(<<>>, 0) /\ Len(<<>>) = 0 /\ <<>> \in Seq(Entries)
    BY DEF Distinct
  <2>3. 0 <= MaxSpares
    BY ListAssumption
  <2> QED BY <1>3, <2>1, <2>2, <2>3 DEF Memory
<1>8. ListOK(l, es)
  BY <1>3, <1>4, <1>5, <1>6, <1>7 DEF ListOK, MidOK, IterOK
<1>9. List!Init
  <2>1. Abs = <<>>
    BY <1>3 DEF Abs
  <2>2. Iter = -1 /\ ret = 0
    BY <1>3 DEF Iter, Init
  <2> QED BY <2>1, <2>2 DEF List!Init, Abs, Iter
<1> QED BY <1>8, <1>9 DEF Inv

\* Every function keeps the invariant and is a step of the abstract list.
LEMMA NextStep ==
  ASSUME Inv, [Next]_vars
  PROVE  Inv' /\ [List!Next]_(List!vars)
<1>p. \A pos \in Positions : pos \in Nat
  BY DEF Positions
<1>n. List!Next <=>
        \/ \E pos \in Positions :
             \/ List!DeleteAt(pos) \/ List!Extract(pos) \/ List!GetAt(pos)
             \/ \E v \in Values : List!Insert(pos, v)
             \/ \E to \in Positions : List!DeleteRange(pos, to)
        \/ \E v \in Values : List!Delete(v) \/ List!Locate(v) \/ List!Seek(v)
        \/ List!Clear \/ List!IteratorStart \/ List!IteratorNext
        \/ List!IteratorStop
  BY DEF List!Next, List!Positions, Positions
<1>1. ASSUME NEW pos \in Positions, list_delete_at(pos)
      PROVE  Inv' /\ List!Next
  BY <1>1, <1>n, <1>p, DeleteAtStep
<1>2. ASSUME NEW pos \in Positions, list_extract_at(pos)
      PROVE  Inv' /\ List!Next
  BY <1>2, <1>n, <1>p, ExtractStep
<1>3. ASSUME NEW pos \in Positions, list_get_at(pos)
      PROVE  Inv' /\ List!Next
  BY <1>3, <1>n, <1>p, GetAtStep
<1>4. ASSUME NEW pos \in Positions, NEW v \in Values, list_insert_at(pos, v)
      PROVE  Inv' /\ List!Next
  BY <1>4, <1>n, InsertStep
<1>5. ASSUME NEW pos \in Positions, NEW to \in Positions,
             list_delete_range(pos, to)
      PROVE  Inv' /\ List!Next
  BY <1>5, <1>n, <1>p, DeleteRangeStep
<1>6. ASSUME NEW v \in Values, list_delete(v) PROVE Inv' /\ List!Next
  BY <1>6, <1>n, DeleteStep
<1>7. ASSUME NEW v \in Values, list_locate(v) PROVE Inv' /\ List!Next
  BY <1>7, <1>n, LocateStep
<1>8. ASSUME NEW v \in Values, list_seek(v) PROVE Inv' /\ List!Next
  BY <1>8, <1>n, SeekStep
<1>9. ASSUME list_clear PROVE Inv' /\ List!Next
  BY <1>9, <1>n, ClearStep
<1>10. ASSUME list_iterator_start PROVE Inv' /\ List!Next
  BY <1>10, <1>n, IteratorStartStep
<1>11. ASSUME list_iterator_next PROVE Inv' /\ List!Next
  BY <1>11, <1>n, IteratorNextStep
<1>12. ASSUME list_iterator_stop PROVE Inv' /\ List!Next
  BY <1>12, <1>n, IteratorStopStep
<1>13. ASSUME UNCHANGED vars PROVE Inv' /\ UNCHANGED List!vars
  <2>1. l' = l /\ ret' = ret
    BY <1>13 DEF vars
  <2>2. Abs' = Abs /\ Iter' = Iter
    BY <2>1 DEF Abs, Iter, InList, EntriesFrom
  <2>3. UNCHANGED List!vars
    BY <2>1, <2>2 DEF List!vars, Abs, Iter
  <2> QED BY <2>1, <2>3 DEF Inv
<1> QED BY <1>1, <1>2, <1>3, <1>4, <1>5, <1>6, <1>7, <1>8, <1>9, <1>10, <1>11,
           <1>12, <1>13 DEF Next

\* The structure of the list: in every state there are entries that its
\* pointers lead through in both directions, from one sentinel to the other,
\* with mid in the middle of them, the iteration at one of them, and all
\* memory in use or spare.
THEOREM ListInvariance == Spec => []Inv
<1>1. Init => Inv
  BY InitInv
<1>2. Inv /\ [Next]_vars => Inv'
  BY NextStep
<1> QED BY <1>1, <1>2, PTL DEF Spec

\* list_repOk() never fails: the pointers agree in both directions, mid is in
\* the middle and the tail follows the last element, after every function,
\* for any number of elements and of spare entries.
THEOREM RepresentationOK == Spec => []list_repOk
<1>1. Inv => list_repOk
  <2> SUFFICES ASSUME Inv PROVE list_repOk
    OBVIOUS
  <2>1. PICK es : ListOK(l, es)
    BY DEF Inv
  <2>2. PICK n, next, prev : n = l.numels /\ next = l.next /\ prev = l.prev
    OBVIOUS
  <2>3. Chain(next, prev, n, es) /\ MidOK(l.mid, n, es)
        /\ Len(l.spareels) <= MaxSpares
    BY <2>1, <2>2 DEF ListOK, Memory
  <2>4. n \in Nat /\ es[0] = head_sentinel /\ es[n + 1] = tail_sentinel
    BY <2>3 DEF Chain
  <2>5. \A i \in 0 .. n + 1 : Walk(next, head_sentinel, i) = es[i]
    <3> TAKE i \in 0 .. n + 1
    <3>1. PICK a : a = 0
      OBVIOUS
    <3>2. a \in 0 .. n + 1 /\ i \in Nat /\ a + i <= n + 1 /\ a + i = i
      BY <2>4, <3>1
    <3>3. Walk(next, es[a], i) = es[a + i]
      BY <2>3, <3>2, WalkNext
    <3> QED BY <2>4, <3>1, <3>2, <3>3
  <2>6. n > 0 => l.mid = Walk(next, head_sentinel, MidPos(n) + 1)
    <3> HAVE n > 0
    <3>1. PICK m \in Nat : MidPos(n) = m /\ (n = 2 * m + 1 \/ n = 2 * m + 2)
      BY <2>4, MidPosBounds
    <3>2. m + 1 \in 0 .. n + 1
      BY <2>4, <3>1
    <3> QED BY <2>3, <2>4, <2>5, <3>1, <3>2 DEF MidOK
  <2>7. Walk(next, head_sentinel, n + 1) = tail_sentinel
    <3>1. n + 1 \in 0 .. n + 1
      BY <2>4
    <3> QED BY <2>4, <2>5, <3>1
  <2>8. ASSUME NEW i \in 0..n
        PROVE  prev[next[Walk(next, head_sentinel, i)]]
                 = Walk(next, head_sentinel, i)
    <3>1. i \in 0 .. n + 1
      BY <2>4
    <3>2. next[es[i]] = es[i + 1] /\ prev[es[i + 1]] = es[i]
      BY <2>3 DEF Chain
    <3> QED BY <2>5, <3>1, <3>2
  <2>9. n = 0 => l.mid = NULL
    BY <2>3 DEF MidOK
  <2> QED BY <2>2, <2>3, <2>6, <2>7, <2>8, <2>9 DEF list_repOk
<1> QED BY <1>1, ListInvariance, PTL

\* Every entry and every copy of data that has been allocated is in the list
\* or among the spare entries, once: list_insert_at(), list_delete_at(),
\* list_delete_range(), list_clear() and a malloc() that fails leak nothing
\* and use nothing that has been freed.
THEOREM NoMemoryLost == Spec => []NothingLost
<1>1. Inv => NothingLost
  <2> SUFFICES ASSUME Inv PROVE NothingLost
    OBVIOUS
  <2>1. PICK es : ListOK(l, es)
    BY DEF Inv
  <2>2. PICK n, sp : n = l.numels /\ sp = l.spareels
    OBVIOUS
  <2>3. /\ Chain(l.next, l.prev, n, es)
        /\ Memory(sp, l.heap, Elements(n, es))
        /\ l.copies = IF l.copy_data THEN n ELSE 0
    BY <2>1, <2>2 DEF ListOK
  <2>4. n \in Nat /\ Distinct(es, n)
    <3>1. n \in Nat /\ \A i, j \in 0 .. n + 1 : es[i] = es[j] => i = j
      BY <2>3 DEF Chain
    <3>2. \A i \in 1..n : i \in 0 .. n + 1
      BY <3>1
    <3> QED BY <3>1, <3>2 DEF Distinct
  <2>5. PICK used, spares : used = Elements(n, es) /\ spares = Spares(sp)
    OBVIOUS
  <2>6. InList = [i \in 1..n |-> es[i]]
    BY <2>2, <2>3, InListAlong
  <2>7. {InList[i] : i \in 1..n} = used
    BY <2>5, <2>6 DEF Elements
  <2>8. Cardinality(used) = n
    BY <2>4, <2>5, CountPositions DEF Elements
  <2>9. Cardinality(spares) = Len(sp)
    <3>1. PICK k \in Nat : k = Len(sp)
      BY <2>3 DEF Memory
    <3>2. Distinct(sp, k) /\ spares = {sp[i] : i \in 1..k}
      BY <2>3, <2>5, <3>1 DEF Memory, Spares
    <3> QED BY <3>1, <3>2, CountPositions
  <2>10. l.heap = used \cup spares /\ used \cap spares = {}
    BY <2>3, <2>5 DEF Memory
  <2>11. {l.spareels[i] : i \in 1..Len(l.spareels)} = spares
    BY <2>2, <2>5 DEF Spares
  <2> QED BY <2>2, <2>3, <2>7, <2>8, <2>9, <2>10, <2>11 DEF NothingLost
<1> QED BY <1>1, ListInvariance, PTL

\* simclist.c implements the sequence of ListSpec: every function of the
\* linked list is the step of the same name on the sequence, or changes
\* nothing.
THEOREM ListIsASequence == Spec => ImplementsListSpec
<1>1. Init => List!Init
  BY InitInv
<1>2. Inv /\ [Next]_vars => [List!Next]_(List!vars)
  BY NextStep
<1>3. Spec => List!Init /\ [][List!Next]_(List!vars)
  BY <1>1, <1>2, ListInvariance, PTL DEF Spec
<1> QED BY <1>3 DEF ImplementsListSpec, List!Spec

=============================================================================
