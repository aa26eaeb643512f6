----------------------------- MODULE QueueProofs ----------------------------
(***************************************************************************)
(* Theorems about the linked lists of queue.c, for every number of slots   *)
(* and queues: they implement the sequences of QueueSpec, which module     *)
(* Mlfq schedules with, and erasequeue never meets a damaged list.         *)
(***************************************************************************)
EXTENDS ProcQueue, SequencesExt, FiniteSetTheorems, SequenceTheorems,
        WellFoundedInduction, TLAPS

(* The list of queue l is w: both chains of links and the ends spell it,   *)
(* and its members are the processes whose p->queue is l.                  *)
Listed(l, w) ==
    /\ w \in Seq(Proc)
    /\ \A i, j \in 1..Len(w) : w[i] = w[j] => i = j
    /\ \A p \in Proc : inq[p] = l <=> \E i \in 1..Len(w) : w[i] = p
    /\ front[l] = IF Len(w) = 0 THEN NULL ELSE w[1]
    /\ back[l] = IF Len(w) = 0 THEN NULL ELSE w[Len(w)]
    /\ \A i \in 1..Len(w) : prev[w[i]] = IF i = 1 THEN NULL ELSE w[i - 1]
    /\ \A i \in 1..Len(w) : next[w[i]] = IF i = Len(w) THEN NULL ELSE w[i + 1]
    /\ size[l] <= Len(w)

Cleared == \A p \in Proc : inq[p] = NULL => prev[p] = NULL /\ next[p] = NULL

ListInv ==
    /\ TypeOK /\ Cleared /\ NoListPanic
    /\ \A l \in Level : \E w \in Seq(Proc) : Listed(l, w)

(* A step turns the list w of q into v and leaves the others alone.        *)
Turns(q, w, v) ==
    /\ Listed(q, w) /\ Listed(q, v)'
    /\ \A m \in Level \ {q} : \A u \in Seq(Proc) : Listed(m, u) => Listed(m, u)'

----------------------------------------------------------------------------
(* Walking along the links.                                                *)

(* NULL is no process and no queue.                                        *)
LEMMA NullOutside ==
    ASSUME QueueSizeAssumption
    PROVE  /\ NULL \notin Proc /\ NULL \notin Level
           /\ NPROC \in Nat \ {0} /\ Proc = 1..NPROC
BY DEF QueueSizeAssumption, NULL, Proc, Level

(* No list is longer than the process table.                               *)
LEMMA ListFits ==
    ASSUME QueueSizeAssumption, NEW w \in Seq(Proc),
           \A i, j \in 1..Len(w) : w[i] = w[j] => i = j
    PROVE  Len(w) <= NPROC
<1>1. PICK n \in Nat : n = Len(w)
  OBVIOUS
<1>2. IsFiniteSet(1..n) /\ Cardinality(1..n) = n
  BY FS_Interval
<1>3. IsFiniteSet(Proc) /\ Cardinality(Proc) = NPROC /\ NPROC \in Nat
  <2>1. NPROC \in Nat \ {0} /\ Proc = 1..NPROC
    BY NullOutside
  <2> QED
    BY <2>1, FS_Interval
<1>4. w \in [1..n -> Proc]
  BY <1>1
<1>5. ~(NPROC < n)
  BY <1>1, <1>2, <1>3, <1>4, FS_PigeonHole
<1> QED
  BY <1>1, <1>3, <1>5

(* Where a walk that starts at f and follows nx is after each step.        *)
IsTrace(at, f, nx) ==
    at = [i \in 1..NPROC |-> IF i = 1 THEN f
            ELSE IF at[i - 1] = NULL THEN NULL ELSE nx[at[i - 1]]]
Trace(f, nx) == CHOOSE at : IsTrace(at, f, nx)
Path(f, nx) == SubSeq(Trace(f, nx), 1, Cardinality({i \in 1..NPROC : Trace(f, nx)[i] # NULL}))

(* Walk is such a path, before and after a step.                           *)
LEMMA WalkIsPath ==
    ASSUME NEW l
    PROVE  Walk(l) = Path(front[l], next) /\ Walk(l)' = Path(front'[l], next')
<1>1. Walked(l) = Trace(front[l], next)
  BY DEF Walked, Trace, IsTrace
<1>2. Walked(l)' = Trace(front'[l], next')
  BY DEF Walked, Trace, IsTrace
<1> QED
  BY <1>1, <1>2 DEF Walk, Path

(* The links determine the walk: the first step at which two walks differ  *)
(* would have a step before it.                                            *)
LEMMA TraceUnique ==
    ASSUME NEW f, NEW nx, NPROC \in Nat, NEW g, IsTrace(g, f, nx), NEW h, IsTrace(h, f, nx)
    PROVE  g = h
<1> DEFINE S == {i \in 1..NPROC : g[i] # h[i]}
<1> SUFFICES ASSUME g # h PROVE FALSE
  OBVIOUS
<1>1. S # {} /\ S \subseteq Nat
  <2>1. DOMAIN g = 1..NPROC /\ DOMAIN h = 1..NPROC
    BY DEF IsTrace
  <2>2. g = [i \in 1..NPROC |-> g[i]] /\ h = [i \in 1..NPROC |-> h[i]]
    BY <2>1 DEF IsTrace
  <2>3. \E i \in 1..NPROC : g[i] # h[i]
    BY <2>2, Zenon
  <2>4. S \subseteq Nat
    OBVIOUS
  <2> QED
    BY <2>3, <2>4, Zenon
<1>2. PICK m \in S : \A n \in S : ~(<<n, m>> \in OpToRel(<, Nat))
  <2> HIDE DEF S
  <2> QED
    BY <1>1, NatLessThanWellFounded, WFMin
<1>3. \A n \in S : ~(n < m)
  <2> HIDE DEF S
  <2> QED
    BY <1>1, <1>2 DEF OpToRel
<1>4. m \in 1..NPROC /\ g[m] # h[m]
  BY <1>2
<1>5. CASE m = 1
  BY <1>4, <1>5 DEF IsTrace
<1>6. CASE m # 1
  <2>1. m - 1 \in 1..NPROC /\ m - 1 < m
    BY <1>4, <1>6
  <2>2. g[m - 1] = h[m - 1]
    BY <1>3, <2>1
  <2>3. g[m] = IF g[m - 1] = NULL THEN NULL ELSE nx[g[m - 1]]
    BY <1>4, <1>6 DEF IsTrace
  <2>4. h[m] = IF h[m - 1] = NULL THEN NULL ELSE nx[h[m - 1]]
    BY <1>4, <1>6 DEF IsTrace
  <2> QED
    BY <1>4, <2>2, <2>3, <2>4
<1> QED
  BY <1>5, <1>6

(* The links nx spell w from f on.                                         *)
Spells(f, nx, w) ==
    /\ \A i, j \in 1..Len(w) : w[i] = w[j] => i = j
    /\ f = IF Len(w) = 0 THEN NULL ELSE w[1]
    /\ \A i \in 1..Len(w) : nx[w[i]] = IF i = Len(w) THEN NULL ELSE w[i + 1]

(* The path along the links of a list is the list.                         *)
LEMMA PathIs ==
    ASSUME QueueSizeAssumption, NEW w \in Seq(Proc), NEW f, NEW nx, Spells(f, nx, w)
    PROVE  Path(f, nx) = w
<1> USE DEF Spells
<1>1. NPROC \in Nat \ {0} /\ NULL \notin Proc
  BY NullOutside
<1>2. PICK n \in Nat : n = Len(w) /\ n <= NPROC
  BY ListFits
<1>3. \A i \in 1..n : w[i] \in Proc
  BY <1>2
<1>4. PICK g : g = [i \in 1..NPROC |-> IF i <= n THEN w[i] ELSE NULL]
  OBVIOUS
<1>5. ASSUME NEW i \in 1..NPROC
      PROVE  g[i] = IF i = 1 THEN f ELSE IF g[i - 1] = NULL THEN NULL ELSE nx[g[i - 1]]
  <2>1. CASE i = 1
    BY <1>2, <1>4, <2>1
  <2>2. CASE i # 1
    <3>1. i - 1 \in 1..NPROC /\ g[i - 1] = IF i - 1 <= n THEN w[i - 1] ELSE NULL
      BY <1>1, <1>4, <2>2
    <3>2. CASE i - 1 <= n
      <4>1. i - 1 \in 1..n /\ (i - 1) + 1 = i
        BY <1>2, <2>2, <3>2
      <4>2. g[i - 1] = w[i - 1] /\ g[i - 1] # NULL
        BY <1>1, <1>3, <3>1, <3>2, <4>1
      <4>3. nx[w[i - 1]] = IF i - 1 = n THEN NULL ELSE w[(i - 1) + 1]
        BY <1>2, <4>1
      <4>4. g[i] = IF i <= n THEN w[i] ELSE NULL
        BY <1>4
      <4> QED
        BY <1>2, <2>2, <3>2, <4>1, <4>2, <4>3, <4>4
    <3>3. CASE ~(i - 1 <= n)
      BY <1>2, <1>4, <2>2, <3>1, <3>3
    <3> QED
      BY <3>2, <3>3
  <2> QED
    BY <2>1, <2>2
<1>6. IsTrace(g, f, nx)
  BY <1>4, <1>5 DEF IsTrace
<1>7. Trace(f, nx) = g
  <2>1. PICK t : t = Trace(f, nx)
    OBVIOUS
  <2>2. IsTrace(t, f, nx)
    BY <1>6, <2>1 DEF Trace
  <2>3. NPROC \in Nat
    BY <1>1
  <2>4. t = g
    BY <1>6, <2>2, <2>3, TraceUnique
  <2> QED
    BY <2>1, <2>4
<1>8. {i \in 1..NPROC : g[i] # NULL} = 1..n
  BY <1>1, <1>2, <1>3, <1>4
<1>9. Cardinality(1..n) = n
  <2>1. 1 \in Int /\ n \in Int
    OBVIOUS
  <2>2. Cardinality(1..n) = IF 1 > n THEN 0 ELSE n - 1 + 1
    BY <2>1, FS_Interval, Zenon
  <2> QED
    BY <2>2
<1>10. Path(f, nx) = SubSeq(g, 1, n)
  BY <1>7, <1>8, <1>9 DEF Path
<1>11. SubSeq(g, 1, n) = [i \in 1..n |-> g[i]]
  BY <1>1, <1>2, <1>4
<1>12. w = [i \in 1..n |-> w[i]] /\ \A i \in 1..n : g[i] = w[i]
  BY <1>1, <1>2, <1>4
<1> QED
  BY <1>10, <1>11, <1>12

(* Walk finds the list, before and after a step.                           *)
LEMMA WalkIs ==
    ASSUME QueueSizeAssumption, NEW l, NEW w \in Seq(Proc)
    PROVE  (Listed(l, w) => Walk(l) = w) /\ (Listed(l, w)' => Walk(l)' = w)
<1>1. ASSUME Listed(l, w) PROVE Walk(l) = w
  <2>1. Spells(front[l], next, w)
    BY <1>1 DEF Listed, Spells
  <2>2. Path(front[l], next) = w
    BY <2>1, PathIs
  <2> QED
    BY <2>2, WalkIsPath
<1>2. ASSUME Listed(l, w)' PROVE Walk(l)' = w
  <2>1. Spells(front'[l], next', w)
    BY <1>2 DEF Listed, Spells
  <2>2. Path(front'[l], next') = w
    BY <2>1, PathIs
  <2> QED
    BY <2>2, WalkIsPath
<1> QED
  BY <1>1, <1>2

(* The loop of erasequeue finds every member of the list: the first member *)
(* it does not visit would come after one that it visits.                  *)
LEMMA MembersVisited ==
    ASSUME QueueSizeAssumption, NEW l \in Level, NEW w \in Seq(Proc), Listed(l, w),
           NEW z \in 1..Len(w)
    PROVE  Visits(l, w[z])
<1> SUFFICES ASSUME NEW S \in SUBSET Proc, front[l] # NULL => front[l] \in S,
                    \A r \in S : next[r] # NULL => next[r] \in S
             PROVE  w[z] \in S
  BY DEF Visits
<1>1. PICK n \in Nat : n = Len(w)
  OBVIOUS
<1>2. /\ front[l] = IF n = 0 THEN NULL ELSE w[1]
      /\ \A i \in 1..n : next[w[i]] = IF i = n THEN NULL ELSE w[i + 1]
  BY <1>1 DEF Listed
<1>3. \A i \in 1..n : w[i] \in Proc /\ w[i] # NULL
  BY <1>1, NullOutside
<1> DEFINE T == {i \in 1..n : w[i] \notin S}
<1> SUFFICES ASSUME T # {} PROVE FALSE
  BY <1>1
<1>4. T \subseteq Nat
  OBVIOUS
<1>5. PICK m \in T : \A k \in T : ~(<<k, m>> \in OpToRel(<, Nat))
  <2> HIDE DEF T
  <2> QED
    BY <1>4, NatLessThanWellFounded, WFMin
<1>6. \A k \in T : ~(k < m)
  <2> HIDE DEF T
  <2> QED
    BY <1>4, <1>5 DEF OpToRel
<1>7. m \in 1..n /\ w[m] \notin S
  BY <1>5
<1>8. CASE m = 1
  BY <1>2, <1>3, <1>7, <1>8
<1>9. CASE m # 1
  <2>1. m - 1 \in 1..n /\ m - 1 < m /\ (m - 1) + 1 = m /\ m - 1 # n
    BY <1>7, <1>9
  <2>2. w[m - 1] \in S
    BY <1>6, <2>1
  <2>3. next[w[m - 1]] = w[m]
    BY <1>2, <2>1
  <2> QED
    BY <1>3, <1>7, <2>2, <2>3
<1> QED
  BY <1>8, <1>9

----------------------------------------------------------------------------
(* Steps on the lists.                                                     *)

(* A list none of whose members is touched stays as it is.                 *)
LEMMA UntouchedListed ==
    ASSUME NEW m, NEW u \in Seq(Proc), Listed(m, u),
           front'[m] = front[m], back'[m] = back[m], size'[m] = size[m],
           \A r \in Proc : inq'[r] = m <=> inq[r] = m,
           \A r \in Proc : inq[r] = m => prev'[r] = prev[r] /\ next'[r] = next[r]
    PROVE  Listed(m, u)'
<1>1. \A i \in 1..Len(u) : u[i] \in Proc /\ inq[u[i]] = m
  BY DEF Listed
<1>2. \A i \in 1..Len(u) : prev'[u[i]] = prev[u[i]] /\ next'[u[i]] = next[u[i]]
  BY <1>1
<1>3. /\ \A i \in 1..Len(u) : prev'[u[i]] = IF i = 1 THEN NULL ELSE u[i - 1]
      /\ \A i \in 1..Len(u) : next'[u[i]] = IF i = Len(u) THEN NULL ELSE u[i + 1]
  BY <1>2 DEF Listed
<1>4. /\ \A i, j \in 1..Len(u) : u[i] = u[j] => i = j
      /\ \A r \in Proc : inq'[r] = m <=> \E i \in 1..Len(u) : u[i] = r
      /\ front'[m] = IF Len(u) = 0 THEN NULL ELSE u[1]
      /\ back'[m] = IF Len(u) = 0 THEN NULL ELSE u[Len(u)]
      /\ size'[m] <= Len(u)
  BY DEF Listed
<1> QED
  BY <1>3, <1>4 DEF Listed

(* A step that turns one list into another keeps the invariant.            *)
LEMMA TurnsKeeps ==
    ASSUME ListInv, NEW q \in Level, NEW w \in Seq(Proc), NEW v \in Seq(Proc), Turns(q, w, v),
           TypeOK', Cleared', NoListPanic'
    PROVE  ListInv'
<1>1. ASSUME NEW l \in Level PROVE \E u \in Seq(Proc) : Listed(l, u)'
  <2>1. CASE l = q
    BY <2>1 DEF Turns
  <2>2. CASE l # q
    <3>1. PICK u \in Seq(Proc) : Listed(l, u)
      BY DEF ListInv
    <3>2. Listed(l, u)'
      BY <2>2, <3>1 DEF Turns
    <3> QED
      BY <3>2
  <2> QED
    BY <2>1, <2>2
<1> QED
  BY <1>1 DEF ListInv

(* And it turns one sequence of the abstract queues into another.          *)
LEMMA TurnsWalks ==
    ASSUME QueueSizeAssumption, ListInv, NEW q \in Level, NEW w \in Seq(Proc),
           NEW v \in Seq(Proc), Turns(q, w, v)
    PROVE  /\ Walks[q] = w /\ Walks' = [Walks EXCEPT ![q] = v]
           /\ \A p \in Proc : inq[p] = NULL => ~Q!Queued(p)
<1>1. Walk(q) = w /\ Walk(q)' = v
  BY WalkIs DEF Turns
<1>2. ASSUME NEW m \in Level, m # q PROVE Walk(m)' = Walk(m)
  <2>1. PICK u \in Seq(Proc) : Listed(m, u)
    BY DEF ListInv
  <2>2. Listed(m, u)'
    BY <1>2, <2>1 DEF Turns
  <2> QED
    BY <2>1, <2>2, WalkIs
<1>3. Walks' = [m \in Level |-> Walk(m)'] /\ Walks = [m \in Level |-> Walk(m)]
  BY DEF Walks
<1>4. Walks' = [Walks EXCEPT ![q] = v]
  <2>1. \A m \in Level : Walk(m)' = IF m = q THEN v ELSE Walk(m)
    BY <1>1, <1>2
  <2> QED
    BY <1>3, <2>1
<1>5. ASSUME NEW p \in Proc, inq[p] = NULL PROVE ~Q!Queued(p)
  <2> SUFFICES ASSUME NEW l \in Level, p \in Range(Walks[l]) PROVE FALSE
    BY DEF Q!Queued, Q!Range, Range
  <2>1. PICK u \in Seq(Proc) : Listed(l, u)
    BY DEF ListInv
  <2>2. Walks[l] = u
    BY <1>3, <2>1, WalkIs
  <2>3. PICK i \in 1..Len(u) : u[i] = p
    BY <2>2 DEF Range
  <2>4. inq[p] = l
    BY <2>1, <2>3 DEF Listed
  <2> QED
    BY <1>5, <2>4, NullOutside
<1> QED
  BY <1>1, <1>3, <1>4, <1>5

----------------------------------------------------------------------------
(* erasequeue and popqueue.                                                *)

(* The step takes p, the z-th of the n members of w, out of the links of q *)
(* and joins its neighbours.                                               *)
Joins(q, w, n, z, p) ==
    /\ front' \in [Level -> Proc \cup {NULL}] /\ back' \in [Level -> Proc \cup {NULL}]
    /\ prev' \in [Proc -> Proc \cup {NULL}] /\ next' \in [Proc -> Proc \cup {NULL}]
    /\ panic' = panic
    /\ \A m \in Level : m # q => front'[m] = front[m] /\ back'[m] = back[m]
    /\ front'[q] = IF z # 1 THEN w[1] ELSE IF n = 1 THEN NULL ELSE w[2]
    /\ back'[q] = IF z # n THEN w[n] ELSE IF n = 1 THEN NULL ELSE w[n - 1]
    /\ next'[p] = NULL /\ prev'[p] = NULL
    /\ \A r \in Proc \ {p} :
         next'[r] = IF z > 1 /\ r = w[z - 1]
                    THEN IF z = n THEN NULL ELSE w[z + 1] ELSE next[r]
    /\ \A r \in Proc \ {p} :
         prev'[r] = IF z < n /\ r = w[z + 1]
                    THEN IF z = 1 THEN NULL ELSE w[z - 1] ELSE prev[r]

(* Whatever case unlinks the z-th of n members, its neighbours are joined. *)
LEMMA UnlinkFacts ==
    ASSUME QueueSizeAssumption, TypeOK, NEW q \in Level, NEW w \in Seq(Proc), Listed(q, w),
           NEW n \in Nat, n = Len(w), NEW z \in 1..n, NEW p, p = w[z],
           \/ UnlinkOnly(q, p) \/ UnlinkFront(q, p) \/ UnlinkBack(q, p) \/ UnlinkMiddle(q, p)
    PROVE  Joins(q, w, n, z, p)
<1>1. /\ front \in [Level -> Proc \cup {NULL}] /\ back \in [Level -> Proc \cup {NULL}]
      /\ prev \in [Proc -> Proc \cup {NULL}] /\ next \in [Proc -> Proc \cup {NULL}]
  BY DEF TypeOK
<1>2. /\ \A i, j \in 1..n : w[i] = w[j] => i = j
      /\ \A i \in 1..n : w[i] \in Proc /\ w[i] # NULL
      /\ front[q] = w[1] /\ back[q] = w[n]
      /\ prev[p] = IF z = 1 THEN NULL ELSE w[z - 1]
      /\ next[p] = IF z = n THEN NULL ELSE w[z + 1]
  <2>1. /\ \A i, j \in 1..n : w[i] = w[j] => i = j
        /\ front[q] = IF n = 0 THEN NULL ELSE w[1]
        /\ back[q] = IF n = 0 THEN NULL ELSE w[n]
        /\ \A i \in 1..n : prev[w[i]] = IF i = 1 THEN NULL ELSE w[i - 1]
        /\ \A i \in 1..n : next[w[i]] = IF i = n THEN NULL ELSE w[i + 1]
    BY DEF Listed
  <2>2. \A i \in 1..n : w[i] \in Proc /\ w[i] # NULL
    BY NullOutside
  <2>3. n # 0
    OBVIOUS
  <2> QED
    BY <2>1, <2>2, <2>3
<1>3. front[q] = back[q] <=> n = 1
  BY <1>2
<1>4. front[q] = p <=> z = 1
  BY <1>2
<1>5. back[q] = p <=> z = n
  BY <1>2
<1>6. p \in Proc
  BY <1>2
<1>7. CASE UnlinkOnly(q, p)
  <2>1. n = 1 /\ z = 1
    <3>1. front[q] = back[q]
      BY <1>7 DEF UnlinkOnly
    <3>2. n = 1
      BY <1>3, <3>1
    <3>3. z \in 1..1
      BY <3>2
    <3> QED
      BY <3>2, <3>3
  <2> QED
    BY <1>1, <1>6, <1>7, <2>1 DEF UnlinkOnly, Joins
<1>8. CASE UnlinkFront(q, p)
  <2>1. n > 1 /\ z = 1
    BY <1>3, <1>4, <1>8 DEF UnlinkFront
  <2>2. PICK right \in Proc : right = w[2] /\ right = w[z + 1] /\ right # p /\ next[p] = right
    BY <1>2, <2>1
  <2>3. /\ front' = [front EXCEPT ![q] = right] /\ next' = [next EXCEPT ![p] = NULL]
        /\ prev' = [prev EXCEPT ![right] = NULL, ![p] = NULL]
        /\ UNCHANGED <<back, panic>>
    BY <1>8, <2>2 DEF UnlinkFront
  <2> QED
    BY <1>1, <1>2, <1>6, <2>1, <2>2, <2>3 DEF Joins
<1>9. CASE UnlinkBack(q, p)
  <2>1. n > 1 /\ z = n
    BY <1>3, <1>5, <1>9 DEF UnlinkBack
  <2>2. PICK left \in Proc : left = w[n - 1] /\ left = w[z - 1] /\ left # p /\ prev[p] = left
    BY <1>2, <2>1
  <2>3. /\ back' = [back EXCEPT ![q] = left] /\ prev' = [prev EXCEPT ![p] = NULL]
        /\ next' = [next EXCEPT ![left] = NULL, ![p] = NULL]
        /\ UNCHANGED <<front, panic>>
    BY <1>9, <2>2 DEF UnlinkBack
  <2>4. /\ next' \in [Proc -> Proc \cup {NULL}] /\ next'[p] = NULL
        /\ \A r \in Proc \ {p} : next'[r] = IF r = left THEN NULL ELSE next[r]
    BY <1>1, <1>6, <2>2, <2>3
  <2>5. /\ prev' \in [Proc -> Proc \cup {NULL}] /\ prev'[p] = NULL
        /\ \A r \in Proc \ {p} : prev'[r] = prev[r]
    BY <1>1, <1>6, <2>3
  <2>6. /\ back' \in [Level -> Proc \cup {NULL}] /\ back'[q] = left
        /\ \A m \in Level : m # q => back'[m] = back[m]
    BY <1>1, <2>2, <2>3
  <2> QED
    BY <1>1, <1>2, <2>1, <2>2, <2>3, <2>4, <2>5, <2>6 DEF Joins
<1>10. CASE UnlinkMiddle(q, p)
  <2>1. z # 1 /\ z # n /\ z > 1 /\ z < n /\ z - 1 \in 1..n /\ z + 1 \in 1..n
    BY <1>4, <1>5, <1>10 DEF UnlinkMiddle
  <2>2. PICK left \in Proc : left = w[z - 1] /\ left # p /\ prev[p] = left
    BY <1>2, <2>1
  <2>3. PICK right \in Proc : right = w[z + 1] /\ right # p /\ next[p] = right
    BY <1>2, <2>1
  <2>4. /\ next' = [next EXCEPT ![left] = right, ![p] = NULL]
        /\ prev' = [prev EXCEPT ![right] = left, ![p] = NULL]
        /\ UNCHANGED <<front, back, panic>>
    BY <1>10, <2>2, <2>3 DEF UnlinkMiddle
  <2> QED
    <3>1. /\ next' \in [Proc -> Proc \cup {NULL}] /\ next'[p] = NULL
          /\ \A r \in Proc \ {p} : next'[r] = IF r = left THEN right ELSE next[r]
      BY <1>1, <1>6, <2>2, <2>3, <2>4
    <3>2. /\ prev' \in [Proc -> Proc \cup {NULL}] /\ prev'[p] = NULL
          /\ \A r \in Proc \ {p} : prev'[r] = IF r = right THEN left ELSE prev[r]
      BY <1>1, <1>6, <2>2, <2>3, <2>4
    <3> QED
      BY <1>1, <1>2, <2>1, <2>2, <2>3, <2>4, <3>1, <3>2 DEF Joins
<1> QED
  BY <1>7, <1>8, <1>9, <1>10

(* The elements of a sequence without its z-th one.                        *)
LEMMA RemoveElements ==
    ASSUME NEW S, NEW s \in Seq(S), NEW z \in 1..Len(s)
    PROVE  /\ RemoveAt(s, z) \in Seq(S) /\ Len(RemoveAt(s, z)) = Len(s) - 1
           /\ \A i \in 1..(Len(s) - 1) :
                RemoveAt(s, z)[i] = IF i < z THEN s[i] ELSE s[i + 1]
<1> SUFFICES ASSUME NEW n \in Nat, n = Len(s), z \in 1..n
             PROVE  /\ RemoveAt(s, z) \in Seq(S) /\ Len(RemoveAt(s, z)) = n - 1
                    /\ \A i \in 1..(n - 1) :
                         RemoveAt(s, z)[i] = IF i < z THEN s[i] ELSE s[i + 1]
  OBVIOUS
<1> DEFINE left == SubSeq(s, 1, z - 1)
           right == SubSeq(s, z + 1, Len(s))
<1>1. \A i \in 1..n : s[i] \in S
  OBVIOUS
<1>2. left \in Seq(S) /\ Len(left) = z - 1 /\ \A i \in 1..(z - 1) : left[i] = s[i]
  <2>1. z - 1 \in Int /\ \A i \in 1..(z - 1) : s[i] \in S
    BY <1>1
  <2>2. /\ left \in Seq(S)
        /\ Len(left) = IF 1 <= z - 1 THEN (z - 1) - 1 + 1 ELSE 0
        /\ \A i \in 1..((z - 1) - 1 + 1) : left[i] = s[1 + i - 1]
    BY <2>1, SubSeqProperties, 1 \in Int
  <2> QED
    BY <2>2
<1>3. right \in Seq(S) /\ Len(right) = n - z /\ \A i \in 1..(n - z) : right[i] = s[i + z]
  <2>1. z + 1 \in Int /\ Len(s) \in Int /\ \A i \in (z + 1)..Len(s) : s[i] \in S
    BY <1>1
  <2>2. /\ right \in Seq(S)
        /\ Len(right) = IF z + 1 <= Len(s) THEN Len(s) - (z + 1) + 1 ELSE 0
        /\ \A i \in 1..(Len(s) - (z + 1) + 1) : right[i] = s[(z + 1) + i - 1]
    BY <2>1, SubSeqProperties
  <2> HIDE DEF right
  <2>3. ASSUME NEW i \in 1..(n - z) PROVE right[i] = s[i + z]
    <3>1. i \in 1..(Len(s) - (z + 1) + 1) /\ (z + 1) + i - 1 = i + z
      OBVIOUS
    <3> QED
      BY <2>2, <3>1
  <2>4. PICK m : m = Len(right)
    OBVIOUS
  <2>5. m = IF z + 1 <= n THEN n - (z + 1) + 1 ELSE 0
    BY <2>2, <2>4
  <2>6. m = n - z
    BY <2>5
  <2> QED
    BY <2>2, <2>3, <2>4, <2>6
<1>4. RemoveAt(s, z) = left \o right
  BY DEF RemoveAt
<1> HIDE DEF left, right
<1>5. /\ left \o right \in Seq(S) /\ Len(left \o right) = n - 1
      /\ \A i \in 1..(n - 1) : (left \o right)[i] =
           IF i <= z - 1 THEN left[i] ELSE right[i - (z - 1)]
  <2>1. /\ left \o right \in Seq(S)
        /\ Len(left \o right) = Len(left) + Len(right)
        /\ \A i \in 1..(Len(left) + Len(right)) : (left \o right)[i] =
             IF i <= Len(left) THEN left[i] ELSE right[i - Len(left)]
    BY <1>2, <1>3, ConcatProperties
  <2>2. Len(left) + Len(right) = n - 1
    BY <1>2, <1>3
  <2> QED
    BY <1>2, <2>1, <2>2
<1>6. ASSUME NEW i \in 1..(n - 1)
      PROVE  (left \o right)[i] = IF i < z THEN s[i] ELSE s[i + 1]
  <2>1. CASE i < z
    BY <1>2, <1>5, <2>1
  <2>2. CASE ~(i < z)
    <3>1. i - (z - 1) \in 1..(n - z) /\ (i - (z - 1)) + z = i + 1
      BY <2>2
    <3> QED
      BY <1>3, <1>5, <2>2, <3>1
  <2> QED
    BY <2>1, <2>2
<1> QED
  BY <1>4, <1>5, <1>6

(* The links after unlinking spell the list without p.                     *)
LEMMA UnlinkListed ==
    ASSUME QueueSizeAssumption, TypeOK, NEW q \in Level, NEW w \in Seq(Proc), Listed(q, w),
           NEW n \in Nat, n = Len(w), NEW z \in 1..n, NEW p, p = w[z],
           UnlinkOnly(q, p) \/ UnlinkFront(q, p) \/ UnlinkBack(q, p) \/ UnlinkMiddle(q, p),
           inq' = [inq EXCEPT ![p] = NULL], size' = [size EXCEPT ![q] = @ - 1],
           NEW v \in Seq(Proc), Len(v) = n - 1,
           \A i \in 1..(n - 1) : v[i] = IF i < z THEN w[i] ELSE w[i + 1]
    PROVE  Listed(q, v)'
<1>0. Joins(q, w, n, z, p)
  BY UnlinkFacts
<1>1. /\ front'[q] = IF z # 1 THEN w[1] ELSE IF n = 1 THEN NULL ELSE w[2]
      /\ back'[q] = IF z # n THEN w[n] ELSE IF n = 1 THEN NULL ELSE w[n - 1]
  BY <1>0 DEF Joins
<1>2. \A r \in Proc \ {p} :
        next'[r] = IF z > 1 /\ r = w[z - 1] THEN IF z = n THEN NULL ELSE w[z + 1] ELSE next[r]
  BY <1>0 DEF Joins
<1>3. \A r \in Proc \ {p} :
        prev'[r] = IF z < n /\ r = w[z + 1] THEN IF z = 1 THEN NULL ELSE w[z - 1] ELSE prev[r]
  BY <1>0 DEF Joins
<1>4. /\ \A i, j \in 1..n : w[i] = w[j] => i = j
      /\ \A i \in 1..n : w[i] \in Proc
      /\ \A i \in 1..n : prev[w[i]] = IF i = 1 THEN NULL ELSE w[i - 1]
      /\ \A i \in 1..n : next[w[i]] = IF i = n THEN NULL ELSE w[i + 1]
  BY DEF Listed
<1>5. /\ \A r \in Proc : inq[r] = q <=> \E i \in 1..n : w[i] = r
      /\ \A r \in Proc : inq'[r] = IF r = p THEN NULL ELSE inq[r]
      /\ size'[q] <= n - 1 /\ p \in Proc
  <2>1. size[q] <= n /\ \A r \in Proc : inq[r] = q <=> \E i \in 1..n : w[i] = r
    BY DEF Listed
  <2>2. size[q] \in Int /\ size'[q] = size[q] - 1
    BY DEF TypeOK
  <2>3. p \in Proc
    BY <1>4
  <2>4. \A r \in Proc : inq'[r] = IF r = p THEN NULL ELSE inq[r]
    BY <2>3 DEF TypeOK
  <2> QED
    BY <2>1, <2>2, <2>3, <2>4
<1>6. ASSUME NEW i \in 1..(n - 1)
      PROVE  /\ i \in 1..n /\ i + 1 \in 1..n
             /\ i < z => v[i] = w[i] /\ i # z
             /\ ~(i < z) => v[i] = w[i + 1] /\ i + 1 # z
             /\ v[i] \in Proc \ {p}
  <2>1. i \in 1..n /\ i + 1 \in 1..n
    OBVIOUS
  <2>2. CASE i < z
    BY <1>4, <2>1, <2>2
  <2>3. CASE ~(i < z)
    BY <1>4, <2>1, <2>3
  <2> QED
    BY <2>1, <2>2, <2>3
<1>7. ASSUME NEW i \in 1..(n - 1), NEW j \in 1..(n - 1), v[i] = v[j] PROVE i = j
  BY <1>4, <1>6, <1>7
<1>8. ASSUME NEW r \in Proc PROVE inq'[r] = q <=> \E i \in 1..(n - 1) : v[i] = r
  <2>1. CASE r = p
    <3>1. inq'[r] # q
      BY <1>5, <2>1, NullOutside
    <3>2. \A i \in 1..(n - 1) : v[i] # r
      BY <1>6, <2>1
    <3> QED
      BY <3>1, <3>2
  <2>2. CASE r # p
    <3>1. ASSUME NEW i \in 1..n, w[i] = r PROVE \E j \in 1..(n - 1) : v[j] = r
      <4>1. i # z
        BY <2>2, <3>1
      <4>2. CASE i < z
        <5>1. i \in 1..(n - 1)
          BY <4>2
        <5> QED
          BY <1>6, <3>1, <4>2, <5>1
      <4>3. CASE i > z
        <5>1. i - 1 \in 1..(n - 1) /\ ~(i - 1 < z) /\ (i - 1) + 1 = i
          BY <4>3
        <5>2. v[i - 1] = w[(i - 1) + 1]
          BY <1>6, <5>1
        <5> QED
          BY <3>1, <5>1, <5>2
      <4> QED
        BY <4>1, <4>2, <4>3
    <3>2. ASSUME NEW j \in 1..(n - 1), v[j] = r PROVE \E i \in 1..n : w[i] = r
      BY <1>6, <3>2
    <3> QED
      BY <1>5, <2>2, <3>1, <3>2
  <2> QED
    BY <2>1, <2>2
<1>9. front'[q] = IF n - 1 = 0 THEN NULL ELSE v[1]
  <2>1. CASE n = 1
    BY <1>1, <2>1
  <2>2. CASE n # 1
    <3>1. 1 \in 1..(n - 1) /\ (z # 1 <=> 1 < z)
      BY <2>2
    <3>2. v[1] = IF 1 < z THEN w[1] ELSE w[1 + 1]
      BY <3>1
    <3> QED
      BY <1>1, <2>2, <3>1, <3>2
  <2> QED
    BY <2>1, <2>2
<1>10. back'[q] = IF n - 1 = 0 THEN NULL ELSE v[n - 1]
  <2>1. CASE n = 1
    BY <1>1, <2>1
  <2>2. CASE n # 1
    <3>1. n - 1 \in 1..(n - 1) /\ (z = n <=> n - 1 < z) /\ (n - 1) + 1 = n
      BY <2>2
    <3>2. v[n - 1] = IF n - 1 < z THEN w[n - 1] ELSE w[(n - 1) + 1]
      BY <3>1
    <3> QED
      BY <1>1, <2>2, <3>1, <3>2
  <2> QED
    BY <2>1, <2>2
<1>11. ASSUME NEW i \in 1..(n - 1)
       PROVE  next'[v[i]] = IF i = n - 1 THEN NULL ELSE v[i + 1]
  <2>1. CASE i < z - 1
    <3>1. i + 1 \in 1..(n - 1) /\ i + 1 < z /\ i # n - 1 /\ i < z /\ i # n
      BY <2>1
    <3>2. v[i] = w[i] /\ v[i + 1] = w[i + 1] /\ w[i] \in Proc \ {p}
      BY <1>6, <3>1
    <3>3. z - 1 \in 1..n /\ i # z - 1 /\ i \in 1..n
      BY <2>1
    <3>4. w[i] # w[z - 1]
      BY <1>4, <3>3
    <3>5. next'[w[i]] = next[w[i]]
      BY <1>2, <3>2, <3>4
    <3> QED
      BY <1>4, <3>1, <3>2, <3>3, <3>5
  <2>2. CASE i = z - 1
    <3>1. v[i] = w[z - 1] /\ v[i] \in Proc \ {p} /\ z > 1
      BY <1>6, <2>2
    <3>2. next'[v[i]] = IF z = n THEN NULL ELSE w[z + 1]
      BY <1>2, <3>1
    <3>3. i + 1 = z /\ (i = n - 1 <=> z = n)
      BY <2>2
    <3>4. z # n => v[z] = w[z + 1]
      BY <1>6
    <3> QED
      BY <3>2, <3>3, <3>4
  <2>3. CASE ~(i < z)
    <3>1. v[i] = w[i + 1] /\ i + 1 \in 1..n /\ w[i + 1] \in Proc \ {p}
      BY <1>6, <2>3
    <3>2. w[i + 1] # w[z - 1] \/ ~(z > 1)
      <4>1. z > 1 => z - 1 \in 1..n /\ i + 1 # z - 1
        BY <2>3
      <4> QED
        BY <1>4, <3>1, <4>1
    <3>3. next'[w[i + 1]] = next[w[i + 1]]
      BY <1>2, <3>1, <3>2
    <3>4. next[w[i + 1]] = IF i + 1 = n THEN NULL ELSE w[(i + 1) + 1]
      BY <1>4, <3>1
    <3>5. i # n - 1 => i + 1 \in 1..(n - 1) /\ ~(i + 1 < z)
      BY <2>3
    <3>6. i # n - 1 => v[i + 1] = w[(i + 1) + 1]
      BY <1>6, <3>5
    <3>7. i = n - 1 <=> i + 1 = n
      OBVIOUS
    <3> QED
      BY <3>1, <3>3, <3>4, <3>6, <3>7
  <2>4. i < z - 1 \/ i = z - 1 \/ ~(i < z)
    OBVIOUS
  <2> QED
    BY <2>1, <2>2, <2>3, <2>4
<1>12. ASSUME NEW i \in 1..(n - 1)
       PROVE  prev'[v[i]] = IF i = 1 THEN NULL ELSE v[i - 1]
  <2>1. CASE i < z
    <3>1. v[i] = w[i] /\ i \in 1..n /\ w[i] \in Proc \ {p}
      BY <1>6, <2>1
    <3>2. w[i] # w[z + 1] \/ ~(z < n)
      <4>1. z < n => z + 1 \in 1..n /\ i # z + 1
        BY <2>1
      <4> QED
        BY <1>4, <3>1, <4>1
    <3>3. prev'[w[i]] = prev[w[i]]
      BY <1>3, <3>1, <3>2
    <3>4. i # 1 => i - 1 \in 1..(n - 1) /\ i - 1 < z
      BY <2>1
    <3>5. i # 1 => v[i - 1] = w[i - 1]
      BY <1>6, <3>4
    <3> QED
      BY <1>4, <3>1, <3>3, <3>5
  <2>2. CASE i = z
    <3>1. v[i] = w[z + 1] /\ v[i] \in Proc \ {p} /\ z < n
      BY <1>6, <2>2
    <3>2. prev'[v[i]] = IF z = 1 THEN NULL ELSE w[z - 1]
      BY <1>3, <3>1
    <3>3. i # 1 => i - 1 \in 1..(n - 1) /\ i - 1 < z
      BY <2>2
    <3>4. i # 1 => v[i - 1] = w[i - 1]
      BY <1>6, <3>3
    <3> QED
      BY <2>2, <3>2, <3>4
  <2>3. CASE i > z
    <3>1. v[i] = w[i + 1] /\ i + 1 \in 1..n /\ w[i + 1] \in Proc \ {p}
      BY <1>6, <2>3
    <3>2. w[i + 1] # w[z + 1]
      <4>1. z + 1 \in 1..n /\ i + 1 # z + 1
        BY <2>3
      <4> QED
        BY <1>4, <3>1, <4>1
    <3>3. prev'[w[i + 1]] = prev[w[i + 1]]
      BY <1>3, <3>1, <3>2
    <3>4. prev[w[i + 1]] = IF i + 1 = 1 THEN NULL ELSE w[(i + 1) - 1]
      BY <1>4, <3>1
    <3>5. i - 1 \in 1..(n - 1) /\ ~(i - 1 < z) /\ (i - 1) + 1 = i /\ (i + 1) - 1 = i
          /\ i + 1 # 1 /\ i # 1
      BY <2>3
    <3>6. v[i - 1] = w[(i - 1) + 1]
      BY <1>6, <3>5
    <3> QED
      BY <3>1, <3>3, <3>4, <3>5, <3>6
  <2> QED
    BY <2>1, <2>2, <2>3
<1> QED
  BY <1>5, <1>7, <1>8, <1>9, <1>10, <1>11, <1>12 DEF Listed

(* Unlinking a member turns its list into the list without it.             *)
LEMMA UnlinkTurns ==
    ASSUME QueueSizeAssumption, ListInv, NEW q \in Level, NEW w \in Seq(Proc), Listed(q, w),
           NEW z \in 1..Len(w), NEW p, p = w[z],
           UnlinkOnly(q, p) \/ UnlinkFront(q, p) \/ UnlinkBack(q, p) \/ UnlinkMiddle(q, p),
           inq' = [inq EXCEPT ![p] = NULL], size' = [size EXCEPT ![q] = @ - 1]
    PROVE  ListInv' /\ RemoveAt(w, z) \in Seq(Proc) /\ Turns(q, w, RemoveAt(w, z))
<1>1. PICK n \in Nat : n = Len(w)
  OBVIOUS
<1>2. PICK v : v = RemoveAt(w, z)
  OBVIOUS
<1>3. /\ v \in Seq(Proc) /\ Len(v) = n - 1
      /\ \A i \in 1..(n - 1) : v[i] = IF i < z THEN w[i] ELSE w[i + 1]
  <2>1. /\ RemoveAt(w, z) \in Seq(Proc) /\ Len(RemoveAt(w, z)) = Len(w) - 1
        /\ \A i \in 1..(Len(w) - 1) :
             RemoveAt(w, z)[i] = IF i < z THEN w[i] ELSE w[i + 1]
    BY RemoveElements
  <2> QED
    BY <1>1, <1>2, <2>1
<1>4. TypeOK /\ Cleared /\ NoListPanic
  BY DEF ListInv
<1>0. Joins(q, w, n, z, p)
  BY <1>1, <1>4, UnlinkFacts
<1>5. /\ front' \in [Level -> Proc \cup {NULL}] /\ back' \in [Level -> Proc \cup {NULL}]
      /\ prev' \in [Proc -> Proc \cup {NULL}] /\ next' \in [Proc -> Proc \cup {NULL}]
      /\ panic' = panic
      /\ \A m \in Level : m # q => front'[m] = front[m] /\ back'[m] = back[m]
      /\ next'[p] = NULL /\ prev'[p] = NULL
  BY <1>0 DEF Joins
<1>6. \A r \in Proc : r # p /\ inq[r] # q => next'[r] = next[r] /\ prev'[r] = prev[r]
  <2> SUFFICES ASSUME NEW r \in Proc, r # p, inq[r] # q
               PROVE  next'[r] = next[r] /\ prev'[r] = prev[r]
    OBVIOUS
  <2>1. \A i \in 1..n : w[i] # r
    BY <1>1 DEF Listed
  <2>2. /\ \A x \in Proc \ {p} :
             next'[x] = IF z > 1 /\ x = w[z - 1]
                        THEN IF z = n THEN NULL ELSE w[z + 1] ELSE next[x]
        /\ \A x \in Proc \ {p} :
             prev'[x] = IF z < n /\ x = w[z + 1]
                        THEN IF z = 1 THEN NULL ELSE w[z - 1] ELSE prev[x]
    BY <1>0 DEF Joins
  <2>3. ~(z > 1 /\ r = w[z - 1]) /\ ~(z < n /\ r = w[z + 1])
    <3>1. (z > 1 => z - 1 \in 1..n) /\ (z < n => z + 1 \in 1..n)
      BY <1>1
    <3> QED
      BY <2>1, <3>1
  <2> QED
    BY <2>2, <2>3
<1>7. p \in Proc /\ inq[p] = q
  BY DEF Listed
<1>8. /\ inq' \in [Proc -> Level \cup {NULL}] /\ inq'[p] = NULL
      /\ \A r \in Proc : r # p => inq'[r] = inq[r]
  BY <1>4, <1>7 DEF TypeOK
<1>9. size' \in [Level -> Int] /\ \A m \in Level : m # q => size'[m] = size[m]
  BY <1>4 DEF TypeOK
<1>10. Listed(q, v)'
  BY <1>1, <1>3, <1>4, UnlinkListed
<1>11. ASSUME NEW m \in Level \ {q}, NEW u \in Seq(Proc), Listed(m, u) PROVE Listed(m, u)'
  <2>1. \A r \in Proc : inq'[r] = m <=> inq[r] = m
    BY <1>7, <1>8, NullOutside
  <2>2. \A r \in Proc : inq[r] = m => prev'[r] = prev[r] /\ next'[r] = next[r]
    BY <1>6, <1>7
  <2> QED
    BY <1>5, <1>9, <1>11, <2>1, <2>2, UntouchedListed
<1>12. Turns(q, w, v)
  BY <1>10, <1>11 DEF Turns
<1>13. TypeOK' /\ NoListPanic'
  BY <1>4, <1>5, <1>8, <1>9 DEF TypeOK, NoListPanic
<1>14. Cleared'
  <2> SUFFICES ASSUME NEW r \in Proc, inq'[r] = NULL PROVE prev'[r] = NULL /\ next'[r] = NULL
    BY DEF Cleared
  <2>1. CASE r = p
    BY <1>5, <2>1
  <2>2. CASE r # p
    <3>1. inq[r] = NULL /\ inq[r] # q
      BY <1>8, <2>2, NullOutside
    <3> QED
      BY <1>4, <1>6, <2>2, <3>1 DEF Cleared
  <2> QED
    BY <2>1, <2>2
<1> QED
  BY <1>2, <1>3, <1>12, <1>13, <1>14, TurnsKeeps

(* erasequeue finds its process and unlinks it: no list is damaged.        *)
LEMMA EraseStep ==
    ASSUME QueueSizeAssumption, ListInv, NEW p \in Proc, erasequeue(p)
    PROVE  ListInv' /\ Q!Erase(inq[p], p)
<1>1. PICK q \in Level : q = inq[p] /\ (EraseFound(q, p) \/ EraseMissing(q, p))
  BY DEF erasequeue, ListInv, TypeOK
<1>2. PICK w \in Seq(Proc) : Listed(q, w)
  BY DEF ListInv
<1>3. PICK z \in 1..Len(w) : w[z] = p
  BY <1>1, <1>2 DEF Listed
<1>4. EraseFound(q, p)
  <2>1. Visits(q, p)
    BY <1>2, <1>3, MembersVisited
  <2> QED
    BY <1>1, <2>1 DEF EraseMissing
<1>5. ~UnlinkBroken(q, p)
  <2> SUFFICES ASSUME front[q] # p, back[q] # p, prev[p] = NULL \/ next[p] = NULL PROVE FALSE
    BY DEF UnlinkBroken
  <2>1. PICK n \in Nat : n = Len(w)
    OBVIOUS
  <2>2. /\ front[q] = (IF n = 0 THEN NULL ELSE w[1])
        /\ back[q] = (IF n = 0 THEN NULL ELSE w[n])
        /\ prev[p] = (IF z = 1 THEN NULL ELSE w[z - 1])
        /\ next[p] = (IF z = n THEN NULL ELSE w[z + 1])
    BY <1>2, <1>3, <2>1 DEF Listed
  <2>3. n # 0 /\ z # 1 /\ z # n
    BY <1>3, <2>1, <2>2
  <2>4. z - 1 \in 1..n /\ z + 1 \in 1..n
    BY <2>1, <2>3
  <2>5. w[z - 1] # NULL /\ w[z + 1] # NULL
    BY <2>1, <2>4, NullOutside
  <2> QED
    BY <2>2, <2>3, <2>5
<1>6. /\ UnlinkOnly(q, p) \/ UnlinkFront(q, p) \/ UnlinkBack(q, p) \/ UnlinkMiddle(q, p)
      /\ inq' = [inq EXCEPT ![p] = NULL] /\ size' = [size EXCEPT ![q] = @ - 1]
  BY <1>4, <1>5 DEF EraseFound
<1>7. ListInv' /\ RemoveAt(w, z) \in Seq(Proc) /\ Turns(q, w, RemoveAt(w, z))
  BY <1>2, <1>3, <1>6, UnlinkTurns
<1>8. Walks[q] = w /\ Walks' = [Walks EXCEPT ![q] = RemoveAt(w, z)]
  BY <1>7, TurnsWalks
<1>9. z \in DOMAIN Walks[q] /\ Walks[q][z] = p
  BY <1>3, <1>8
<1> QED
  BY <1>1, <1>7, <1>8, <1>9 DEF Q!Erase, Q!RemoveAt, RemoveAt

(* popqueue unlinks the first member.                                      *)
LEMMA PopStep ==
    ASSUME QueueSizeAssumption, ListInv, NEW q \in Level, popqueue(q)
    PROVE  ListInv' /\ front[q] \in Proc /\ Q!Erase(q, front[q])
<1>1. PICK p : p = front[q] /\ p # NULL
  BY DEF popqueue
<1>2. PICK w \in Seq(Proc) : Listed(q, w)
  BY DEF ListInv
<1>3. 1 \in 1..Len(w) /\ w[1] = p /\ p \in Proc
  <2>1. PICK n \in Nat : n = Len(w)
    OBVIOUS
  <2>2. front[q] = IF n = 0 THEN NULL ELSE w[1]
    BY <1>2, <2>1 DEF Listed
  <2>3. n # 0
    BY <1>1, <2>2
  <2>4. 1 \in 1..n
    BY <2>3
  <2> QED
    BY <1>1, <2>1, <2>2, <2>3, <2>4
<1>4. /\ UnlinkOnly(q, p) \/ UnlinkFront(q, p)
      /\ inq' = [inq EXCEPT ![p] = NULL] /\ size' = [size EXCEPT ![q] = @ - 1]
  BY <1>1 DEF popqueue
<1>5. ListInv' /\ RemoveAt(w, 1) \in Seq(Proc) /\ Turns(q, w, RemoveAt(w, 1))
  BY <1>2, <1>3, <1>4, UnlinkTurns
<1>6. Walks[q] = w /\ Walks' = [Walks EXCEPT ![q] = RemoveAt(w, 1)]
  BY <1>5, TurnsWalks
<1>7. 1 \in DOMAIN Walks[q] /\ Walks[q][1] = p
  BY <1>3, <1>6
<1> QED
  BY <1>1, <1>3, <1>5, <1>6, <1>7 DEF Q!Erase, Q!RemoveAt, RemoveAt

----------------------------------------------------------------------------
(* pushqueue and pushfrontqueue.                                           *)

(* A process outside the queues is put in one of them: what holds whatever *)
(* its place there.                                                        *)
LEMMA PushTurns ==
    ASSUME QueueSizeAssumption, ListInv, NEW q \in Level, NEW p \in Proc, inq[p] = NULL,
           inq' = [inq EXCEPT ![p] = q], panic' = panic,
           NEW w \in Seq(Proc), NEW v \in Seq(Proc), Listed(q, w), Listed(q, v)',
           front' \in [Level -> Proc \cup {NULL}], back' \in [Level -> Proc \cup {NULL}],
           prev' \in [Proc -> Proc \cup {NULL}], next' \in [Proc -> Proc \cup {NULL}],
           size' \in [Level -> Int],
           \A m \in Level : m # q => /\ front'[m] = front[m] /\ back'[m] = back[m]
                                     /\ size'[m] = size[m],
           \A r \in Proc : r # p /\ inq[r] # q => next'[r] = next[r] /\ prev'[r] = prev[r]
    PROVE  ListInv' /\ Turns(q, w, v) /\ ~Q!Queued(p)
<1>1. TypeOK /\ Cleared /\ NoListPanic
  BY DEF ListInv
<1>2. /\ inq' \in [Proc -> Level \cup {NULL}] /\ inq'[p] = q
      /\ \A r \in Proc : r # p => inq'[r] = inq[r]
  BY <1>1 DEF TypeOK
<1>3. ASSUME NEW m \in Level \ {q}, NEW u \in Seq(Proc), Listed(m, u) PROVE Listed(m, u)'
  <2>1. \A r \in Proc : inq'[r] = m <=> inq[r] = m
    BY <1>2, NullOutside
  <2>2. \A r \in Proc : inq[r] = m => prev'[r] = prev[r] /\ next'[r] = next[r]
    BY NullOutside
  <2> QED
    BY <1>3, <2>1, <2>2, UntouchedListed
<1>4. Turns(q, w, v)
  BY <1>3 DEF Turns
<1>5. TypeOK' /\ NoListPanic'
  BY <1>1, <1>2 DEF TypeOK, NoListPanic
<1>6. Cleared'
  <2> SUFFICES ASSUME NEW r \in Proc, inq'[r] = NULL PROVE prev'[r] = NULL /\ next'[r] = NULL
    BY DEF Cleared
  <2>1. r # p /\ inq[r] = NULL /\ inq[r] # q
    BY <1>2, NullOutside
  <2> QED
    BY <1>1, <2>1 DEF Cleared
<1>7. ListInv'
  BY <1>4, <1>5, <1>6, TurnsKeeps
<1> QED
  BY <1>4, <1>7, TurnsWalks

(* What is known of the list w of n members and of p before a push.        *)
BeforePush(q, p, w, n) ==
    /\ \A i, j \in 1..n : w[i] = w[j] => i = j
    /\ \A i \in 1..n : w[i] \in Proc /\ w[i] # p /\ w[i] # NULL /\ inq[w[i]] = q
    /\ \A r \in Proc : inq[r] = q <=> \E i \in 1..n : w[i] = r
    /\ front[q] = IF n = 0 THEN NULL ELSE w[1]
    /\ back[q] = IF n = 0 THEN NULL ELSE w[n]
    /\ \A i \in 1..n : prev[w[i]] = IF i = 1 THEN NULL ELSE w[i - 1]
    /\ \A i \in 1..n : next[w[i]] = IF i = n THEN NULL ELSE w[i + 1]
    /\ size[q] \in Int /\ size[q] <= n
    /\ front[q] = NULL <=> n = 0
    /\ back[q] = NULL <=> n = 0

(* It follows from the invariant.                                          *)
LEMMA PushFacts ==
    ASSUME QueueSizeAssumption, ListInv, NEW q \in Level, NEW p \in Proc, inq[p] = NULL,
           NEW w \in Seq(Proc), Listed(q, w), NEW n \in Nat, n = Len(w)
    PROVE  BeforePush(q, p, w, n)
<1>1. /\ \A i, j \in 1..n : w[i] = w[j] => i = j
      /\ \A r \in Proc : inq[r] = q <=> \E i \in 1..n : w[i] = r
      /\ front[q] = IF n = 0 THEN NULL ELSE w[1]
      /\ back[q] = IF n = 0 THEN NULL ELSE w[n]
      /\ \A i \in 1..n : prev[w[i]] = IF i = 1 THEN NULL ELSE w[i - 1]
      /\ \A i \in 1..n : next[w[i]] = IF i = n THEN NULL ELSE w[i + 1]
      /\ size[q] <= n
  BY DEF Listed
<1>2. \A i \in 1..n : w[i] \in Proc /\ w[i] # NULL
  BY NullOutside
<1>3. \A i \in 1..n : inq[w[i]] = q /\ w[i] # p
  BY <1>1, <1>2, NullOutside
<1>4. size[q] \in Int
  BY DEF ListInv, TypeOK
<1>5. (front[q] = NULL <=> n = 0) /\ (back[q] = NULL <=> n = 0)
  <2>1. n # 0 => w[1] # NULL /\ w[n] # NULL
    BY <1>2
  <2> QED
    BY <1>1, <2>1
<1> QED
  BY <1>1, <1>2, <1>3, <1>4, <1>5 DEF BeforePush

(* pushqueue appends a process, or panics because it is queued already.    *)
LEMMA PushBackStep ==
    ASSUME QueueSizeAssumption, ListInv, NEW q \in Level, NEW p \in Proc, inq[p] = NULL,
           inq' = [inq EXCEPT ![p] = q], size' = [size EXCEPT ![q] = @ + 1],
           LinkBack(q, p), panic' = panic
    PROVE  ListInv' /\ Q!PushBack(q, p)
<1>1. PICK w \in Seq(Proc) : Listed(q, w)
  BY DEF ListInv
<1>2. PICK n \in Nat : n = Len(w)
  OBVIOUS
<1>3. /\ \A i, j \in 1..n : w[i] = w[j] => i = j
      /\ \A i \in 1..n : w[i] \in Proc /\ w[i] # p /\ w[i] # NULL /\ inq[w[i]] = q
      /\ \A r \in Proc : inq[r] = q <=> \E i \in 1..n : w[i] = r
      /\ front[q] = IF n = 0 THEN NULL ELSE w[1]
      /\ back[q] = IF n = 0 THEN NULL ELSE w[n]
      /\ \A i \in 1..n : prev[w[i]] = IF i = 1 THEN NULL ELSE w[i - 1]
      /\ \A i \in 1..n : next[w[i]] = IF i = n THEN NULL ELSE w[i + 1]
      /\ size[q] \in Int /\ size[q] <= n
      /\ front[q] = NULL <=> n = 0
      /\ back[q] = NULL <=> n = 0
  <2>1. BeforePush(q, p, w, n)
    BY <1>1, <1>2, PushFacts
  <2> QED
    BY <2>1 DEF BeforePush
<1>4. /\ front \in [Level -> Proc \cup {NULL}] /\ back \in [Level -> Proc \cup {NULL}]
      /\ prev \in [Proc -> Proc \cup {NULL}] /\ next \in [Proc -> Proc \cup {NULL}]
      /\ inq \in [Proc -> Level \cup {NULL}] /\ size \in [Level -> Int]
  BY DEF ListInv, TypeOK
<1>5. PICK v : v = Append(w, p)
  OBVIOUS
<1>6. /\ v \in Seq(Proc) /\ Len(v) = n + 1 /\ v[n + 1] = p
      /\ \A i \in 1..n : v[i] = w[i]
  BY <1>2, <1>5
<1>7. /\ back' \in [Level -> Proc \cup {NULL}] /\ back'[q] = p
      /\ prev' \in [Proc -> Proc \cup {NULL}] /\ prev'[p] = back[q]
      /\ \A m \in Level : m # q => back'[m] = back[m]
      /\ \A r \in Proc : r # p => prev'[r] = prev[r]
  BY <1>4 DEF LinkBack
<1>8. /\ front' \in [Level -> Proc \cup {NULL}] /\ front'[q] = IF n = 0 THEN p ELSE w[1]
      /\ next' \in [Proc -> Proc \cup {NULL}] /\ next'[p] = NULL
      /\ \A m \in Level : m # q => front'[m] = front[m]
      /\ \A r \in Proc \ {p} : next'[r] = IF n > 0 /\ r = w[n] THEN p ELSE next[r]
  <2>1. CASE n = 0
    <3>1. front' = [front EXCEPT ![q] = p] /\ next' = [next EXCEPT ![p] = NULL]
      BY <1>3, <2>1 DEF LinkBack
    <3> QED
      BY <1>4, <2>1, <3>1
  <2>2. CASE n # 0
    <3>1. n \in 1..n /\ n > 0
      BY <2>2
    <3>2. PICK last \in Proc : last = w[n] /\ last # p /\ back[q] = last /\ front[q] = w[1]
      BY <1>3, <2>2, <3>1
    <3>3. front' = front /\ next' = [next EXCEPT ![last] = p, ![p] = NULL]
      BY <1>3, <2>2, <3>2 DEF LinkBack
    <3> QED
      BY <1>4, <2>2, <3>1, <3>2, <3>3
  <2> QED
    BY <2>1, <2>2
<1>9. /\ size' \in [Level -> Int] /\ size'[q] = size[q] + 1
      /\ \A m \in Level : m # q => size'[m] = size[m]
  BY <1>3, <1>4
<1>10. \A r \in Proc : inq'[r] = IF r = p THEN q ELSE inq[r]
  BY <1>4
<1>11. Listed(q, v)'
  <2>1. ASSUME NEW i \in 1..(n + 1), NEW j \in 1..(n + 1), v[i] = v[j] PROVE i = j
    <3>1. (i = n + 1 \/ i \in 1..n) /\ (j = n + 1 \/ j \in 1..n)
      OBVIOUS
    <3>2. \A k \in 1..n : v[k] = w[k] /\ w[k] # p
      BY <1>3, <1>6
    <3>3. CASE i \in 1..n /\ j \in 1..n
      BY <1>3, <2>1, <3>2, <3>3
    <3>4. CASE i = n + 1 \/ j = n + 1
      BY <1>6, <2>1, <3>1, <3>2, <3>4
    <3> QED
      BY <3>1, <3>3, <3>4
  <2>2. ASSUME NEW r \in Proc PROVE inq'[r] = q <=> \E i \in 1..(n + 1) : v[i] = r
    <3>1. n + 1 \in 1..(n + 1) /\ \A i \in 1..n : i \in 1..(n + 1)
      OBVIOUS
    <3>2. CASE r = p
      BY <1>6, <1>10, <3>1, <3>2
    <3>3. CASE r # p
      <4>1. ASSUME NEW i \in 1..(n + 1), v[i] = r PROVE i \in 1..n /\ w[i] = r
        <5>1. i # n + 1
          BY <1>6, <3>3, <4>1
        <5>2. i \in 1..n
          BY <5>1
        <5> QED
          BY <1>6, <4>1, <5>2
      <4>2. ASSUME NEW i \in 1..n, w[i] = r PROVE \E j \in 1..(n + 1) : v[j] = r
        BY <1>6, <3>1, <4>2
      <4> QED
        BY <1>3, <1>10, <3>3, <4>1, <4>2
    <3> QED
      BY <3>2, <3>3
  <2>3. front'[q] = IF n + 1 = 0 THEN NULL ELSE v[1]
    <3>1. n # 0 => 1 \in 1..n
      OBVIOUS
    <3> QED
      BY <1>6, <1>8, <3>1
  <2>4. back'[q] = IF n + 1 = 0 THEN NULL ELSE v[n + 1]
    BY <1>6, <1>7
  <2>5. ASSUME NEW i \in 1..(n + 1) PROVE prev'[v[i]] = IF i = 1 THEN NULL ELSE v[i - 1]
    <3>1. CASE i = n + 1
      <4>1. prev'[v[i]] = IF n = 0 THEN NULL ELSE w[n]
        BY <1>3, <1>6, <1>7, <3>1
      <4>2. n # 0 => n \in 1..n /\ i - 1 = n
        BY <3>1
      <4> QED
        BY <1>6, <3>1, <4>1, <4>2
    <3>2. CASE i # n + 1
      <4>1. i \in 1..n /\ (i # 1 => i - 1 \in 1..n)
        BY <3>2
      <4>2. v[i] = w[i] /\ w[i] \in Proc /\ w[i] # p /\ (i # 1 => v[i - 1] = w[i - 1])
        BY <1>3, <1>6, <4>1
      <4> QED
        BY <1>3, <1>7, <4>1, <4>2
    <3> QED
      BY <3>1, <3>2
  <2>6. ASSUME NEW i \in 1..(n + 1) PROVE next'[v[i]] = IF i = n + 1 THEN NULL ELSE v[i + 1]
    <3>1. CASE i = n + 1
      BY <1>6, <1>8, <3>1
    <3>2. CASE i # n + 1
      <4>1. i \in 1..n /\ n \in 1..n /\ n > 0 /\ (i # n => i + 1 \in 1..n)
        BY <3>2
      <4>2. v[i] = w[i] /\ w[i] \in Proc \ {p} /\ (i # n => v[i + 1] = w[i + 1])
        BY <1>3, <1>6, <4>1
      <4>3. next'[w[i]] = IF w[i] = w[n] THEN p ELSE next[w[i]]
        BY <1>8, <4>1, <4>2
      <4>4. w[i] = w[n] <=> i = n
        BY <1>3, <4>1
      <4> QED
        BY <1>3, <1>6, <3>2, <4>1, <4>2, <4>3, <4>4
    <3> QED
      BY <3>1, <3>2
  <2>7. size'[q] <= n + 1
    BY <1>3, <1>9
  <2> QED
    BY <1>6, <2>1, <2>2, <2>3, <2>4, <2>5, <2>6, <2>7 DEF Listed
<1>12. \A r \in Proc : r # p /\ inq[r] # q => next'[r] = next[r] /\ prev'[r] = prev[r]
  <2>1. n > 0 => n \in 1..n
    OBVIOUS
  <2> QED
    BY <1>3, <1>7, <1>8, <2>1
<1>13. ListInv' /\ Turns(q, w, v) /\ ~Q!Queued(p)
  <2>1. /\ front' \in [Level -> Proc \cup {NULL}] /\ back' \in [Level -> Proc \cup {NULL}]
        /\ prev' \in [Proc -> Proc \cup {NULL}] /\ next' \in [Proc -> Proc \cup {NULL}]
        /\ size' \in [Level -> Int]
    BY <1>7, <1>8, <1>9
  <2>2. \A m \in Level :
          m # q => front'[m] = front[m] /\ back'[m] = back[m] /\ size'[m] = size[m]
    BY <1>7, <1>8, <1>9
  <2>3. v \in Seq(Proc)
    BY <1>6
  <2> QED
    BY <1>1, <1>11, <1>12, <2>1, <2>2, <2>3, PushTurns
<1>14. Walks[q] = w /\ Walks' = [Walks EXCEPT ![q] = v]
  BY <1>6, <1>13, TurnsWalks
<1> QED
  BY <1>5, <1>13, <1>14 DEF Q!PushBack

(* pushfrontqueue puts a process first, whether the queue was empty or not.*)
LEMMA PushFrontStep ==
    ASSUME QueueSizeAssumption, ListInv, NEW q \in Level, NEW p \in Proc, inq[p] = NULL,
           inq' = [inq EXCEPT ![p] = q], LinkFirst(q, p) \/ LinkFront(q, p), panic' = panic
    PROVE  ListInv' /\ Q!PushFront(q, p)
<1>1. PICK w \in Seq(Proc) : Listed(q, w)
  BY DEF ListInv
<1>2. PICK n \in Nat : n = Len(w)
  OBVIOUS
<1>3. /\ \A i, j \in 1..n : w[i] = w[j] => i = j
      /\ \A i \in 1..n : w[i] \in Proc /\ w[i] # p /\ w[i] # NULL /\ inq[w[i]] = q
      /\ \A r \in Proc : inq[r] = q <=> \E i \in 1..n : w[i] = r
      /\ front[q] = IF n = 0 THEN NULL ELSE w[1]
      /\ back[q] = IF n = 0 THEN NULL ELSE w[n]
      /\ \A i \in 1..n : prev[w[i]] = IF i = 1 THEN NULL ELSE w[i - 1]
      /\ \A i \in 1..n : next[w[i]] = IF i = n THEN NULL ELSE w[i + 1]
      /\ size[q] \in Int /\ size[q] <= n
      /\ front[q] = NULL <=> n = 0
      /\ back[q] = NULL <=> n = 0
  <2>1. BeforePush(q, p, w, n)
    BY <1>1, <1>2, PushFacts
  <2> QED
    BY <2>1 DEF BeforePush
<1>4. /\ front \in [Level -> Proc \cup {NULL}] /\ back \in [Level -> Proc \cup {NULL}]
      /\ prev \in [Proc -> Proc \cup {NULL}] /\ next \in [Proc -> Proc \cup {NULL}]
      /\ inq \in [Proc -> Level \cup {NULL}] /\ size \in [Level -> Int]
  BY DEF ListInv, TypeOK
<1>5. PICK v : v = <<p>> \o w
  OBVIOUS
<1>6. /\ v \in Seq(Proc) /\ Len(v) = n + 1 /\ v[1] = p
      /\ \A i \in 1..n : v[i + 1] = w[i]
  <2>1. <<p>> \in Seq(Proc) /\ Len(<<p>>) = 1 /\ <<p>>[1] = p
    OBVIOUS
  <2>2. /\ <<p>> \o w \in Seq(Proc)
        /\ Len(<<p>> \o w) = Len(<<p>>) + Len(w)
        /\ \A i \in 1..(Len(<<p>>) + Len(w)) : (<<p>> \o w)[i] =
             IF i <= Len(<<p>>) THEN <<p>>[i] ELSE w[i - Len(<<p>>)]
    BY <2>1, ConcatProperties
  <2>3. /\ v \in Seq(Proc) /\ Len(v) = 1 + n
        /\ \A i \in 1..(1 + n) : v[i] = IF i <= 1 THEN <<p>>[i] ELSE w[i - 1]
    BY <1>2, <1>5, <2>1, <2>2
  <2>4. ASSUME NEW i \in 1..n PROVE v[i + 1] = w[i]
    <3>1. i + 1 \in 1..(1 + n) /\ ~(i + 1 <= 1) /\ (i + 1) - 1 = i
      OBVIOUS
    <3>2. v[i + 1] = w[(i + 1) - 1]
      BY <2>3, <3>1
    <3> QED
      BY <3>1, <3>2
  <2>5. v[1] = p
    BY <2>1, <2>3
  <2> QED
    BY <2>3, <2>4, <2>5
<1>7. /\ front' \in [Level -> Proc \cup {NULL}] /\ front'[q] = p
      /\ back' \in [Level -> Proc \cup {NULL}] /\ back'[q] = IF n = 0 THEN p ELSE w[n]
      /\ prev' \in [Proc -> Proc \cup {NULL}] /\ prev'[p] = NULL
      /\ next' \in [Proc -> Proc \cup {NULL}] /\ next'[p] = IF n = 0 THEN NULL ELSE w[1]
      /\ \A m \in Level : m # q => front'[m] = front[m] /\ back'[m] = back[m]
      /\ \A r \in Proc \ {p} : prev'[r] = IF n > 0 /\ r = w[1] THEN p ELSE prev[r]
      /\ \A r \in Proc \ {p} : next'[r] = next[r]
      /\ size' \in [Level -> Int] /\ size'[q] <= n + 1
      /\ \A m \in Level : m # q => size'[m] = size[m]
  <2>1. CASE LinkFirst(q, p)
    <3>1. n = 0 /\ size' = size
      BY <1>3, <2>1 DEF LinkFirst
    <3>2. size'[q] <= n + 1 /\ size' \in [Level -> Int]
      BY <1>3, <1>4, <3>1
    <3> QED
      BY <1>4, <2>1, <3>1, <3>2 DEF LinkFirst
  <2>2. CASE LinkFront(q, p)
    <3>1. n # 0 /\ n > 0 /\ 1 \in 1..n
      BY <1>3, <2>2 DEF LinkFront
    <3>2. PICK first \in Proc : first = w[1] /\ front[q] = first /\ first # p
      BY <1>3, <3>1
    <3>3. PICK x : x = IF front[q] = back[q] THEN NULL ELSE next[first]
      OBVIOUS
    <3>4. x = next[first]
      <4>1. front[q] = back[q] => n = 1
        BY <1>3, <3>1
      <4>2. n = 1 => next[first] = NULL
        BY <1>3, <3>1, <3>2
      <4> QED
        BY <3>3, <4>1, <4>2
    <3>5. /\ front' = [front EXCEPT ![q] = p] /\ back' = back
          /\ prev' = [prev EXCEPT ![first] = p, ![p] = NULL]
          /\ next' = [next EXCEPT ![first] = x, ![p] = first]
          /\ size' = [size EXCEPT ![q] = @ + 1]
      BY <1>4, <2>2, <3>2, <3>3 DEF LinkFront
    <3>6. /\ size' \in [Level -> Int] /\ size'[q] <= n + 1
          /\ \A m \in Level : m # q => size'[m] = size[m]
      BY <1>3, <1>4, <3>5
    <3>7. /\ next' \in [Proc -> Proc \cup {NULL}] /\ next'[p] = first
          /\ \A r \in Proc \ {p} : next'[r] = next[r]
      BY <1>4, <3>2, <3>4, <3>5
    <3>8. /\ prev' \in [Proc -> Proc \cup {NULL}] /\ prev'[p] = NULL
          /\ \A r \in Proc \ {p} : prev'[r] = IF n > 0 /\ r = w[1] THEN p ELSE prev[r]
      BY <1>4, <3>1, <3>2, <3>5
    <3>9. /\ front' \in [Level -> Proc \cup {NULL}] /\ front'[q] = p
          /\ back' \in [Level -> Proc \cup {NULL}] /\ back'[q] = w[n]
          /\ \A m \in Level : m # q => front'[m] = front[m] /\ back'[m] = back[m]
      BY <1>3, <1>4, <3>1, <3>5
    <3> QED
      BY <3>1, <3>2, <3>6, <3>7, <3>8, <3>9
  <2> QED
    BY <2>1, <2>2
<1>8. \A r \in Proc : inq'[r] = IF r = p THEN q ELSE inq[r]
  BY <1>4
<1>9. ASSUME NEW i \in 1..(n + 1)
      PROVE  \/ i = 1 /\ v[i] = p
             \/ /\ i # 1 /\ i - 1 \in 1..n /\ (i - 1) + 1 = i
                /\ v[i] = w[i - 1] /\ v[i] \in Proc \ {p}
  <2>1. CASE i = 1
    BY <1>6, <2>1
  <2>2. CASE i # 1
    <3>1. i - 1 \in 1..n /\ (i - 1) + 1 = i
      BY <2>2
    <3>2. v[(i - 1) + 1] = w[i - 1] /\ w[i - 1] \in Proc \ {p}
      BY <1>3, <1>6, <3>1
    <3> QED
      BY <2>2, <3>1, <3>2
  <2> QED
    BY <2>1, <2>2
<1>10. Listed(q, v)'
  <2>1. ASSUME NEW i \in 1..(n + 1), NEW j \in 1..(n + 1), v[i] = v[j] PROVE i = j
    <3>1. CASE i = 1 \/ j = 1
      BY <1>9, <2>1, <3>1
    <3>2. CASE i # 1 /\ j # 1
      <4>1. i - 1 \in 1..n /\ j - 1 \in 1..n /\ w[i - 1] = w[j - 1]
        BY <1>9, <2>1, <3>2
      <4>2. i - 1 = j - 1
        BY <1>3, <4>1
      <4> QED
        BY <4>2
    <3> QED
      BY <3>1, <3>2
  <2>2. ASSUME NEW r \in Proc PROVE inq'[r] = q <=> \E i \in 1..(n + 1) : v[i] = r
    <3>1. 1 \in 1..(n + 1) /\ \A i \in 1..n : i + 1 \in 1..(n + 1)
      OBVIOUS
    <3>2. CASE r = p
      BY <1>6, <1>8, <3>1, <3>2
    <3>3. CASE r # p
      <4>1. ASSUME NEW i \in 1..(n + 1), v[i] = r PROVE \E j \in 1..n : w[j] = r
        BY <1>9, <3>3, <4>1
      <4>2. ASSUME NEW i \in 1..n, w[i] = r PROVE \E j \in 1..(n + 1) : v[j] = r
        BY <1>6, <3>1, <4>2
      <4> QED
        BY <1>3, <1>8, <3>3, <4>1, <4>2
    <3> QED
      BY <3>2, <3>3
  <2>3. front'[q] = IF n + 1 = 0 THEN NULL ELSE v[1]
    BY <1>6, <1>7
  <2>4. back'[q] = IF n + 1 = 0 THEN NULL ELSE v[n + 1]
    <3>1. n # 0 => n \in 1..n
      OBVIOUS
    <3>2. n # 0 => v[n + 1] = w[n]
      BY <1>6, <3>1
    <3>3. n + 1 # 0 /\ (n = 0 => n + 1 = 1)
      OBVIOUS
    <3> QED
      BY <1>6, <1>7, <3>2, <3>3
  <2>5. ASSUME NEW i \in 1..(n + 1) PROVE prev'[v[i]] = IF i = 1 THEN NULL ELSE v[i - 1]
    <3>1. CASE i = 1
      BY <1>6, <1>7, <3>1
    <3>2. CASE i # 1
      <4>1. /\ i - 1 \in 1..n /\ v[i] = w[i - 1] /\ v[i] \in Proc \ {p} /\ n > 0
            /\ i - 1 \in 1..(n + 1) /\ 1 \in 1..n
        BY <1>9, <3>2
      <4>2. prev'[v[i]] = IF w[i - 1] = w[1] THEN p ELSE prev[w[i - 1]]
        BY <1>7, <4>1
      <4>3. w[i - 1] = w[1] <=> i - 1 = 1
        BY <1>3, <4>1
      <4>4. CASE i - 1 = 1
        BY <1>6, <3>2, <4>2, <4>3, <4>4
      <4>5. CASE i - 1 # 1
        <5>1. prev[w[i - 1]] = w[(i - 1) - 1]
          BY <1>3, <4>1, <4>5
        <5>2. v[i - 1] = w[(i - 1) - 1]
          BY <1>9, <4>1, <4>5
        <5> QED
          BY <3>2, <4>2, <4>3, <4>5, <5>1, <5>2
      <4> QED
        BY <4>4, <4>5
    <3> QED
      BY <3>1, <3>2
  <2>6. ASSUME NEW i \in 1..(n + 1) PROVE next'[v[i]] = IF i = n + 1 THEN NULL ELSE v[i + 1]
    <3>1. CASE i = 1
      <4>1. next'[v[i]] = IF n = 0 THEN NULL ELSE w[1]
        BY <1>6, <1>7, <3>1
      <4>2. n # 0 => 1 \in 1..n
        OBVIOUS
      <4>3. n # 0 => v[1 + 1] = w[1]
        BY <1>6, <4>2
      <4>4. i = n + 1 <=> n = 0
        BY <3>1
      <4> QED
        BY <3>1, <4>1, <4>3, <4>4
    <3>2. CASE i # 1
      <4>1. i - 1 \in 1..n /\ v[i] = w[i - 1] /\ v[i] \in Proc \ {p} /\ (i - 1) + 1 = i
        BY <1>9, <3>2
      <4>2. next'[v[i]] = IF i - 1 = n THEN NULL ELSE w[(i - 1) + 1]
        <5>1. next'[v[i]] = next[v[i]]
          BY <1>7, <4>1
        <5>2. next[w[i - 1]] = IF i - 1 = n THEN NULL ELSE w[(i - 1) + 1]
          BY <1>3, <4>1
        <5> QED
          BY <4>1, <5>1, <5>2
      <4>3. (i - 1 = n <=> i = n + 1) /\ (i # n + 1 => i \in 1..n)
        BY <4>1
      <4>4. i # n + 1 => v[i + 1] = w[i]
        BY <1>6, <4>3
      <4> QED
        BY <4>1, <4>2, <4>3, <4>4
    <3> QED
      BY <3>1, <3>2
  <2>7. size'[q] <= n + 1
    BY <1>7
  <2> QED
    BY <1>6, <2>1, <2>2, <2>3, <2>4, <2>5, <2>6, <2>7 DEF Listed
<1>11. \A r \in Proc : r # p /\ inq[r] # q => next'[r] = next[r] /\ prev'[r] = prev[r]
  <2>1. n > 0 => 1 \in 1..n
    OBVIOUS
  <2> QED
    BY <1>3, <1>7, <2>1
<1>12. ListInv' /\ Turns(q, w, v) /\ ~Q!Queued(p)
  <2>1. /\ front' \in [Level -> Proc \cup {NULL}] /\ back' \in [Level -> Proc \cup {NULL}]
        /\ prev' \in [Proc -> Proc \cup {NULL}] /\ next' \in [Proc -> Proc \cup {NULL}]
        /\ size' \in [Level -> Int]
    BY <1>7
  <2>2. \A m \in Level :
          m # q => front'[m] = front[m] /\ back'[m] = back[m] /\ size'[m] = size[m]
    BY <1>7
  <2>3. v \in Seq(Proc)
    BY <1>6
  <2> QED
    BY <1>1, <1>10, <1>11, <2>1, <2>2, <2>3, PushTurns
<1>13. Walks[q] = w /\ Walks' = [Walks EXCEPT ![q] = v]
  BY <1>6, <1>12, TurnsWalks
<1> QED
  BY <1>5, <1>12, <1>13 DEF Q!PushFront

----------------------------------------------------------------------------
(* The theorems.                                                           *)

(* The empty queues of pinit.                                              *)
LEMMA ListInit ==
    ASSUME QueueSizeAssumption, Init
    PROVE  ListInv /\ Q!Init
<1>1. /\ front = [l \in Level |-> NULL] /\ back = [l \in Level |-> NULL]
      /\ size = [l \in Level |-> 0]
      /\ prev = [p \in Proc |-> NULL] /\ next = [p \in Proc |-> NULL]
      /\ inq = [p \in Proc |-> NULL] /\ panic = "none"
  BY DEF Init
<1>2. TypeOK /\ Cleared /\ NoListPanic
  BY <1>1 DEF TypeOK, Cleared, NoListPanic, Panics
<1>3. <<>> \in Seq(Proc) /\ Len(<<>>) = 0
  OBVIOUS
<1>4. ASSUME NEW l \in Level PROVE Listed(l, <<>>)
  <2>1. front[l] = NULL /\ back[l] = NULL /\ size[l] <= 0 /\ \A p \in Proc : inq[p] # l
    BY <1>1, NullOutside
  <2>2. 1..Len(<<>>) = {}
    BY <1>3
  <2> QED
    BY <1>3, <2>1, <2>2 DEF Listed
<1>5. ListInv
  BY <1>2, <1>3, <1>4 DEF ListInv
<1>6. \A l \in Level : Walk(l) = <<>>
  BY <1>3, <1>4, WalkIs
<1> QED
  BY <1>5, <1>6 DEF Q!Init, Walks

(* A step that only panics changes no list.                                *)
LEMMA PanicStep ==
    ASSUME QueueSizeAssumption, ListInv, UNCHANGED <<listVars, size, inq>>,
           panic' \in {panic, "pushqueue", "pushfrontqueue"}
    PROVE  ListInv' /\ UNCHANGED Walks
<1>1. UNCHANGED <<front, back, prev, next, size, inq>>
  BY DEF listVars
<1>2. TypeOK' /\ Cleared' /\ NoListPanic'
  BY <1>1 DEF ListInv, TypeOK, Cleared, NoListPanic, Panics
<1>3. ASSUME NEW l \in Level
      PROVE  Walk(l)' = Walk(l) /\ \E w \in Seq(Proc) : Listed(l, w)'
  <2>1. PICK w \in Seq(Proc) : Listed(l, w)
    BY DEF ListInv
  <2>2. Listed(l, w)'
    BY <1>1, <2>1 DEF Listed
  <2> QED
    BY <2>1, <2>2, WalkIs
<1>4. ListInv'
  BY <1>2, <1>3 DEF ListInv
<1>5. UNCHANGED Walks
  BY <1>3 DEF Walks
<1> QED
  BY <1>4, <1>5

(* Every step keeps the invariant and is a step of the abstract queues, or *)
(* changes none of them.                                                   *)
LEMMA ListNext ==
    ASSUME QueueSizeAssumption, ListInv, [Next]_vars
    PROVE  ListInv' /\ [Q!Next]_Walks
<1>1. CASE UNCHANGED vars
  <2>1. ListInv' /\ UNCHANGED Walks
    BY <1>1, PanicStep DEF vars
  <2> QED
    BY <2>1
<1>2. ASSUME NEW p \in Proc, erasequeue(p) PROVE ListInv' /\ Q!Next
  <2>1. ListInv' /\ Q!Erase(inq[p], p) /\ inq[p] \in Level
    BY <1>2, EraseStep DEF erasequeue, ListInv, TypeOK
  <2> QED
    BY <2>1 DEF Q!Next
<1>3. ASSUME NEW q \in Level, popqueue(q) PROVE ListInv' /\ Q!Next
  <2>1. ListInv' /\ front[q] \in Proc /\ Q!Erase(q, front[q])
    BY <1>3, PopStep
  <2> QED
    BY <2>1 DEF Q!Next
<1>4. ASSUME NEW q \in Level, NEW p \in Proc, pushqueue(q, p) \/ pushfrontqueue(q, p)
      PROVE  ListInv' /\ [Q!Next]_Walks
  <2>1. CASE PushPanic(p, "pushqueue") \/ PushPanic(p, "pushfrontqueue")
    <3>1. ListInv' /\ UNCHANGED Walks
      BY <2>1, PanicStep DEF PushPanic
    <3> QED
      BY <3>1
  <2>2. CASE /\ inq[p] = NULL /\ inq' = [inq EXCEPT ![p] = q]
             /\ size' = [size EXCEPT ![q] = @ + 1] /\ LinkBack(q, p) /\ UNCHANGED panic
    <3>1. ListInv' /\ Q!PushBack(q, p)
      BY <2>2, PushBackStep
    <3> QED
      BY <3>1 DEF Q!Next
  <2>3. CASE /\ inq[p] = NULL /\ inq' = [inq EXCEPT ![p] = q]
             /\ LinkFirst(q, p) \/ LinkFront(q, p)
             /\ UNCHANGED panic
    <3>1. ListInv' /\ Q!PushFront(q, p)
      BY <2>3, PushFrontStep
    <3> QED
      BY <3>1 DEF Q!Next
  <2> QED
    BY <1>4, <2>1, <2>2, <2>3 DEF pushqueue, pushfrontqueue
<1> QED
  BY <1>1, <1>2, <1>3, <1>4 DEF Next

(* The inductive invariant: in every reachable state each queue is a list  *)
(* whose forward links, backward links, ends and back pointers agree.      *)
THEOREM ListsCorrect ==
    ASSUME QueueSizeAssumption
    PROVE  Spec => []ListInv
<1>1. Init => ListInv
  BY ListInit
<1>2. ListInv /\ [Next]_vars => ListInv'
  BY ListNext
<1> QED
  BY <1>1, <1>2, PTL DEF Spec

(* queue.c implements sequences: pushqueue appends, pushfrontqueue puts    *)
(* first, erasequeue and popqueue take one member out, and none of them    *)
(* touches another queue or another member.                                *)
THEOREM QueuesImplemented ==
    ASSUME QueueSizeAssumption
    PROVE  Spec => ImplementsQueues
<1>1. Init => ListInv /\ Q!Init
  BY ListInit
<1>2. ListInv /\ [Next]_vars => ListInv' /\ [Q!Next]_Walks
  BY ListNext
<1> QED
  BY <1>1, <1>2, PTL DEF Spec, ImplementsQueues, Q!Spec

(* Walking back from q->back visits what walking forward visits, p->queue  *)
(* names the list a process is on, and erasequeue leaves no link behind.   *)
THEOREM LinksCorrect ==
    ASSUME QueueSizeAssumption
    PROVE  Spec => [](ListsDoublyLinked /\ SizeNotAbove)
<1>1. ListInv => ListsDoublyLinked /\ SizeNotAbove
  <2> SUFFICES ASSUME ListInv PROVE ListsDoublyLinked /\ SizeNotAbove
    OBVIOUS
  <2>1. ASSUME NEW l \in Level
        PROVE  /\ Range(Walk(l)) = {p \in Proc : inq[p] = l}
               /\ back[l] = (IF Walk(l) = <<>> THEN NULL ELSE Walk(l)[Len(Walk(l))])
               /\ \A i \in DOMAIN Walk(l) :
                    /\ prev[Walk(l)[i]] = (IF i = 1 THEN NULL ELSE Walk(l)[i - 1])
                    /\ next[Walk(l)[i]] =
                         (IF i = Len(Walk(l)) THEN NULL ELSE Walk(l)[i + 1])
               /\ size[l] <= Len(Walk(l))
    <3>1. PICK w \in Seq(Proc) : Listed(l, w)
      BY DEF ListInv
    <3>2. Walk(l) = w
      BY <3>1, WalkIs
    <3>3. DOMAIN w = 1..Len(w) /\ (w = <<>> <=> Len(w) = 0)
      BY EmptySeq
    <3>4. Range(w) = {p \in Proc : inq[p] = l}
      <4>1. \A p \in Proc : inq[p] = l <=> \E i \in DOMAIN w : w[i] = p
        BY <3>1, <3>3 DEF Listed
      <4>2. Range(w) = {w[i] : i \in DOMAIN w} /\ \A i \in DOMAIN w : w[i] \in Proc
        BY <3>3 DEF Range
      <4> QED
        BY <4>1, <4>2
    <3>5. back[l] = (IF w = <<>> THEN NULL ELSE w[Len(w)])
      BY <3>1, <3>3 DEF Listed
    <3>6. \A i \in DOMAIN w : /\ prev[w[i]] = (IF i = 1 THEN NULL ELSE w[i - 1])
                              /\ next[w[i]] = (IF i = Len(w) THEN NULL ELSE w[i + 1])
      BY <3>1, <3>3 DEF Listed
    <3>7. size[l] <= Len(w)
      BY <3>1 DEF Listed
    <3> QED
      BY <3>2, <3>4, <3>5, <3>6, <3>7
  <2>2. \A p \in Proc : inq[p] = NULL => prev[p] = NULL /\ next[p] = NULL
    BY DEF ListInv, Cleared
  <2> QED
    BY <2>1, <2>2 DEF ListsDoublyLinked, SizeNotAbove
<1> QED
  BY <1>1, ListsCorrect, PTL

(* The panics with which erasequeue reports a damaged list are never       *)
(* reached.                                                                *)
THEOREM NoDamage ==
    ASSUME QueueSizeAssumption
    PROVE  Spec => []NoListPanic
<1>1. ListInv => NoListPanic
  BY DEF ListInv
<1> QED
  BY <1>1, ListsCorrect, PTL
=============================================================================
