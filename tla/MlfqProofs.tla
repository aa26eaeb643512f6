----------------------------- MODULE MlfqProofs -----------------------------
(***************************************************************************)
(* Theorems about the MLFQ scheduler, for every number of slots, CPUs,     *)
(* queues, quanta and calls.                                               *)
(***************************************************************************)
EXTENDS Mlfq, SequenceTheorems, TLAPS

(* A process between the two halves of fork() owns one EMBRYO slot.        *)
ForkChild ==
    /\ \A p \in Proc : pc[p] = "fork" =>
         /\ state[p] \in {"RUNNABLE", "RUNNING"}
         /\ child[p] \in Proc /\ state[child[p]] = "EMBRYO"
    /\ \A p, q \in Proc :
         pc[p] = "fork" /\ pc[q] = "fork" /\ child[p] = child[q] => p = q

(* A CPU runs a process exactly when its scheduler() has switched to one.  *)
SwitchedOut == \A c \in Cpu : running[c] = NoProc <=> spc[c] # "run"

TableInv ==
    /\ TypeOK /\ QueuesExact /\ OneCpuPerProcess /\ ForkChild /\ SwitchedOut
    /\ \A p \in Proc : state[p] # "UNUSED" => priority[p] >= 0

----------------------------------------------------------------------------
(* The queue operations on one sequence.                                   *)

(* Erasing the position of p: the sequence without that index.             *)
LEMMA EraseElements ==
    ASSUME NEW S, NEW s \in Seq(S), NEW p, NEW k \in 1..Len(s), s[k] = p,
           IsInjective(s)
    PROVE  /\ Erase(s, p) \in Seq(S)
           /\ Len(Erase(s, p)) = Len(s) - 1
           /\ \A i \in 1..(Len(s) - 1) :
                Erase(s, p)[i] = IF i < k THEN s[i] ELSE s[i + 1]
<1> DEFINE left == SubSeq(s, 1, k - 1)
           right == SubSeq(s, k + 1, Len(s))
<1>1. Len(s) \in Nat /\ \A i \in 1..Len(s) : s[i] \in S
  OBVIOUS
<1>2. (CHOOSE i \in 1..Len(s) : s[i] = p) = k
  BY DEF IsInjective
<1>3. left \in Seq(S) /\ Len(left) = k - 1 /\ \A i \in 1..(k - 1) : left[i] = s[i]
  <2>1. k - 1 \in Int /\ \A i \in 1..(k - 1) : s[i] \in S
    BY <1>1
  <2>2. /\ left \in Seq(S)
        /\ Len(left) = IF 1 <= k - 1 THEN (k - 1) - 1 + 1 ELSE 0
        /\ \A i \in 1..((k - 1) - 1 + 1) : left[i] = s[1 + i - 1]
    BY <2>1, SubSeqProperties, 1 \in Int
  <2> QED
    BY <2>2
<1>4. right \in Seq(S) /\ Len(right) = Len(s) - k
      /\ \A i \in 1..(Len(s) - k) : right[i] = s[i + k]
  <2>1. k + 1 \in Int /\ Len(s) \in Int /\ \A i \in (k + 1)..Len(s) : s[i] \in S
    BY <1>1
  <2>2. /\ right \in Seq(S)
        /\ Len(right) = IF k + 1 <= Len(s) THEN Len(s) - (k + 1) + 1 ELSE 0
        /\ \A i \in 1..(Len(s) - (k + 1) + 1) : right[i] = s[(k + 1) + i - 1]
    BY <2>1, SubSeqProperties
  <2> HIDE DEF right
  <2>3. ASSUME NEW i \in 1..(Len(s) - k) PROVE right[i] = s[i + k]
    <3>1. i \in 1..(Len(s) - (k + 1) + 1) /\ (k + 1) + i - 1 = i + k
      BY <1>1
    <3> QED
      BY <2>2, <3>1
  <2> QED
    BY <1>1, <2>2, <2>3
<1>5. Erase(s, p) = left \o right
  BY <1>2 DEF Erase
<1> HIDE DEF left, right
<1>6. /\ left \o right \in Seq(S)
      /\ Len(left \o right) = Len(s) - 1
      /\ \A i \in 1..(Len(s) - 1) : (left \o right)[i] =
           IF i <= Len(left) THEN left[i] ELSE right[i - Len(left)]
  <2>1. Len(left) + Len(right) = Len(s) - 1
    BY <1>1, <1>3, <1>4
  <2>2. /\ left \o right \in Seq(S)
        /\ Len(left \o right) = Len(left) + Len(right)
        /\ \A i \in 1..(Len(left) + Len(right)) : (left \o right)[i] =
             IF i <= Len(left) THEN left[i] ELSE right[i - Len(left)]
    BY <1>3, <1>4, ConcatProperties
  <2> QED
    BY <2>1, <2>2
<1>7. ASSUME NEW i \in 1..(Len(s) - 1)
      PROVE  (left \o right)[i] = IF i < k THEN s[i] ELSE s[i + 1]
  <2>1. CASE i < k
    BY <1>3, <1>6, <2>1
  <2>2. CASE ~(i < k)
    <3>1. i - Len(left) \in 1..(Len(s) - k) /\ (i - Len(left)) + k = i + 1
      BY <1>3, <2>2
    <3> QED
      BY <3>1, <1>3, <1>4, <1>6, <2>2
  <2> QED
    BY <2>1, <2>2
<1> QED
  BY <1>5, <1>6, <1>7

(* erasequeue removes p, keeps everyone else, and makes no duplicates.     *)
LEMMA EraseFacts ==
    ASSUME NEW S, NEW s \in Seq(S), NEW p \in Range(s), IsInjective(s)
    PROVE  /\ Erase(s, p) \in Seq(S)
           /\ IsInjective(Erase(s, p))
           /\ \A x : x \in Range(Erase(s, p)) <=> x \in Range(s) /\ x # p
<1> DEFINE t == Erase(s, p)
<1>1. PICK k \in 1..Len(s) : s[k] = p
  BY DEF Range
<1>2. /\ t \in Seq(S) /\ Len(t) = Len(s) - 1
      /\ \A i \in 1..(Len(s) - 1) : t[i] = IF i < k THEN s[i] ELSE s[i + 1]
  BY <1>1, EraseElements
<1> HIDE DEF t
<1>3. IsInjective(t)
  <2> SUFFICES ASSUME NEW a \in 1..(Len(s) - 1), NEW b \in 1..(Len(s) - 1),
                      t[a] = t[b]
               PROVE  a = b
    BY <1>2 DEF IsInjective
  <2> DEFINE at(i) == IF i < k THEN i ELSE i + 1
  <2>1. \A i \in 1..(Len(s) - 1) : at(i) \in 1..Len(s)
    OBVIOUS
  <2>2. \A i \in 1..(Len(s) - 1) : t[i] = s[at(i)]
    BY <1>2
  <2>3. s[at(a)] = s[at(b)] /\ at(a) \in 1..Len(s) /\ at(b) \in 1..Len(s)
    BY <2>1, <2>2
  <2>4. at(a) = at(b)
    <3> HIDE DEF at
    <3> QED
      BY <2>3 DEF IsInjective
  <2> QED
    BY <2>4
<1>4. ASSUME NEW x, x \in Range(t) PROVE x \in Range(s) /\ x # p
  <2>1. PICK i \in 1..(Len(s) - 1) : x = t[i]
    BY <1>2, <1>4 DEF Range
  <2>2. PICK j \in 1..Len(s) : x = s[j] /\ j # k
    BY <2>1, <1>2
  <2> QED
    BY <2>2, <1>1 DEF Range, IsInjective
<1>5. ASSUME NEW x, x \in Range(s), x # p PROVE x \in Range(t)
  <2>1. PICK i \in 1..Len(s) : x = s[i]
    BY <1>5 DEF Range
  <2>2. i # k
    BY <2>1, <1>1, <1>5
  <2>3. CASE i < k
    <3>1. i \in 1..Len(t) /\ t[i] = x
      BY <2>1, <2>3, <1>2
    <3> QED
      BY <3>1, <1>2 DEF Range
  <2>4. CASE i > k
    <3>1. i - 1 \in 1..Len(t) /\ t[i - 1] = x
      BY <2>1, <2>4, <1>2
    <3> QED
      BY <3>1, <1>2 DEF Range
  <2> QED
    BY <2>2, <2>3, <2>4
<1> QED
  BY <1>2, <1>3, <1>4, <1>5 DEF t

(* pushqueue on a queue that does not hold p.                              *)
LEMMA PushFacts ==
    ASSUME NEW S, NEW s \in Seq(S), NEW p \in S, p \notin Range(s),
           IsInjective(s)
    PROVE  /\ Append(s, p) \in Seq(S)
           /\ IsInjective(Append(s, p))
           /\ \A x : x \in Range(Append(s, p)) <=> x \in Range(s) \/ x = p
<1> DEFINE t == Append(s, p)
<1>1. /\ t \in Seq(S) /\ Len(t) = Len(s) + 1
      /\ \A i \in 1..Len(s) : t[i] = s[i]
      /\ t[Len(s) + 1] = p
  OBVIOUS
<1> HIDE DEF t
<1>2. IsInjective(t)
  <2> SUFFICES ASSUME NEW a \in 1..Len(t), NEW b \in 1..Len(t), t[a] = t[b]
               PROVE  a = b
    BY <1>1 DEF IsInjective
  <2>1. \A i \in 1..Len(s) : s[i] # p
    BY DEF Range
  <2> QED
    BY <1>1, <2>1 DEF IsInjective
<1>3. ASSUME NEW x, x \in Range(t) PROVE x \in Range(s) \/ x = p
  <2>1. PICK i \in 1..(Len(s) + 1) : x = t[i]
    BY <1>1, <1>3 DEF Range
  <2> QED
    BY <2>1, <1>1 DEF Range
<1>4. ASSUME NEW x, x \in Range(s) \/ x = p PROVE x \in Range(t)
  <2>1. CASE x = p
    BY <2>1, <1>1 DEF Range
  <2>2. CASE x \in Range(s)
    <3>1. PICK i \in 1..Len(s) : x = s[i]
      BY <2>2 DEF Range
    <3>2. i \in 1..Len(t) /\ t[i] = x
      BY <3>1, <1>1
    <3> QED
      BY <3>2, <1>1 DEF Range
  <2> QED
    BY <1>4, <2>1, <2>2
<1> QED
  BY <1>1, <1>2, <1>3, <1>4 DEF t

(* pushfrontqueue on a queue that does not hold p.                         *)
LEMMA PushFrontFacts ==
    ASSUME NEW S, NEW s \in Seq(S), NEW p \in S, p \notin Range(s),
           IsInjective(s)
    PROVE  /\ <<p>> \o s \in Seq(S)
           /\ IsInjective(<<p>> \o s)
           /\ \A x : x \in Range(<<p>> \o s) <=> x \in Range(s) \/ x = p
<1> DEFINE t == <<p>> \o s
<1>1. /\ t \in Seq(S) /\ Len(t) = Len(s) + 1
      /\ t[1] = p
      /\ \A i \in 1..Len(s) : t[i + 1] = s[i]
  OBVIOUS
<1> HIDE DEF t
<1>5. \A i \in 2..Len(t) : t[i] = s[i - 1] /\ i - 1 \in 1..Len(s)
  <2> SUFFICES ASSUME NEW i \in 2..Len(t)
               PROVE  t[i] = s[i - 1] /\ i - 1 \in 1..Len(s)
    OBVIOUS
  <2>1. i - 1 \in 1..Len(s) /\ (i - 1) + 1 = i
    BY <1>1
  <2> QED
    BY <2>1, <1>1
<1>2. IsInjective(t)
  <2> SUFFICES ASSUME NEW a \in 1..Len(t), NEW b \in 1..Len(t), t[a] = t[b]
               PROVE  a = b
    BY <1>1 DEF IsInjective
  <2>1. \A i \in 1..Len(s) : s[i] # p
    BY DEF Range
  <2>2. \A i, j \in 1..Len(s) : s[i] = s[j] => i = j
    BY DEF IsInjective
  <2>3. CASE a = 1 \/ b = 1
    BY <1>1, <1>5, <2>1, <2>3
  <2>4. CASE a \in 2..Len(t) /\ b \in 2..Len(t)
    <3>1. a - 1 = b - 1
      BY <1>5, <2>2, <2>4
    <3> QED
      BY <3>1
  <2> QED
    BY <1>1, <2>3, <2>4
<1>3. ASSUME NEW x, x \in Range(t) PROVE x \in Range(s) \/ x = p
  <2>1. PICK i \in 1..Len(t) : x = t[i]
    BY <1>1, <1>3 DEF Range
  <2> QED
    BY <2>1, <1>1, <1>5 DEF Range
<1>4. ASSUME NEW x, x \in Range(s) \/ x = p PROVE x \in Range(t)
  <2>1. CASE x = p
    BY <2>1, <1>1 DEF Range
  <2>2. CASE x \in Range(s)
    <3>1. PICK i \in 1..Len(s) : x = s[i]
      BY <2>2 DEF Range
    <3>2. i + 1 \in 1..Len(t) /\ t[i + 1] = x
      BY <3>1, <1>1
    <3> QED
      BY <3>2, <1>1 DEF Range
  <2> QED
    BY <1>4, <2>1, <2>2
<1> QED
  BY <1>1, <1>2, <1>3, <1>4 DEF t

----------------------------------------------------------------------------
(* The queue operations on the table.                                      *)

(* Queues qq and back pointers lv have their types and agree.              *)
QueuesAgree(qq, lv) ==
    /\ qq \in [Level -> Seq(Proc)]
    /\ lv \in [Proc -> Level \cup {NoQueue}]
    /\ \A l \in Level : IsInjective(qq[l])
    /\ \A l \in Level, p \in Proc : p \in Range(qq[l]) <=> lv[p] = l

(* Replacing one queue, given its new elements.                            *)
LEMMA ReplaceQueue ==
    ASSUME NEW qq, NEW lv, QueuesAgree(qq, lv), NEW p \in Proc, NEW l \in Level,
           NEW s \in Seq(Proc), IsInjective(s), NEW new \in Level \cup {NoQueue},
           \/ lv[p] = NoQueue /\ new = l /\ \A x : x \in Range(s) <=> x \in Range(qq[l]) \/ x = p
           \/ lv[p] = l /\ new = NoQueue /\ \A x : x \in Range(s) <=> x \in Range(qq[l]) /\ x # p
    PROVE  QueuesAgree([qq EXCEPT ![l] = s], [lv EXCEPT ![p] = new])
<1> DEFINE q2 == [qq EXCEPT ![l] = s]
           lv2 == [lv EXCEPT ![p] = new]
<1>1. q2 \in [Level -> Seq(Proc)] /\ lv2 \in [Proc -> Level \cup {NoQueue}]
  BY DEF QueuesAgree
<1>2. ASSUME NEW m \in Level PROVE IsInjective(q2[m])
  BY DEF QueuesAgree
<1>3. ASSUME NEW m \in Level, NEW x \in Proc
      PROVE  x \in Range(q2[m]) <=> lv2[x] = m
  <2>1. (x \in Range(qq[m]) <=> lv[x] = m) /\ m # NoQueue
    BY SizeAssumption DEF QueuesAgree, Level, NoQueue
  <2>2. lv2[x] = IF x = p THEN new ELSE lv[x]
    BY DEF QueuesAgree
  <2>3. CASE m = l
    <3>1. q2[m] = s
      BY <2>3 DEF QueuesAgree
    <3> HIDE DEF q2, lv2
    <3> QED
      BY <2>1, <2>2, <2>3, <3>1
  <2>4. CASE m # l
    <3>1. q2[m] = qq[m]
      BY <2>4 DEF QueuesAgree
    <3> HIDE DEF q2, lv2
    <3> QED
      BY <2>1, <2>2, <2>4, <3>1
  <2> QED
    BY <2>3, <2>4
<1> QED
  BY <1>1, <1>2, <1>3 DEF QueuesAgree

(* pushqueue and pushfrontqueue of a process that is in no queue.          *)
LEMMA PushKeepsQueues ==
    ASSUME NEW qq, NEW lv, QueuesAgree(qq, lv), NEW p \in Proc, NEW l \in Level,
           lv[p] = NoQueue
    PROVE  /\ QueuesAgree([qq EXCEPT ![l] = Append(qq[l], p)], [lv EXCEPT ![p] = l])
           /\ QueuesAgree([qq EXCEPT ![l] = <<p>> \o qq[l]], [lv EXCEPT ![p] = l])
<1>1. p \notin Range(qq[l]) /\ IsInjective(qq[l]) /\ qq[l] \in Seq(Proc)
  BY SizeAssumption DEF QueuesAgree, Level, NoQueue
<1>2. QueuesAgree([qq EXCEPT ![l] = Append(qq[l], p)], [lv EXCEPT ![p] = l])
  <2>1. /\ Append(qq[l], p) \in Seq(Proc)
        /\ IsInjective(Append(qq[l], p))
        /\ \A x : x \in Range(Append(qq[l], p)) <=> x \in Range(qq[l]) \/ x = p
    BY <1>1, PushFacts
  <2> QED
    BY <2>1, ReplaceQueue
<1>3. QueuesAgree([qq EXCEPT ![l] = <<p>> \o qq[l]], [lv EXCEPT ![p] = l])
  <2>1. /\ <<p>> \o qq[l] \in Seq(Proc)
        /\ IsInjective(<<p>> \o qq[l])
        /\ \A x : x \in Range(<<p>> \o qq[l]) <=> x \in Range(qq[l]) \/ x = p
    BY <1>1, PushFrontFacts
  <2> QED
    BY <2>1, ReplaceQueue
<1> QED
  BY <1>2, <1>3

(* erasequeue(p->queue, p).                                                *)
LEMMA EraseKeepsQueues ==
    ASSUME NEW qq, NEW lv, QueuesAgree(qq, lv), NEW p \in Proc, lv[p] # NoQueue
    PROVE  QueuesAgree([qq EXCEPT ![lv[p]] = Erase(qq[lv[p]], p)],
                       [lv EXCEPT ![p] = NoQueue])
<1>1. lv[p] \in Level /\ p \in Range(qq[lv[p]]) /\ IsInjective(qq[lv[p]])
      /\ qq[lv[p]] \in Seq(Proc)
  BY DEF QueuesAgree
<1>2. /\ Erase(qq[lv[p]], p) \in Seq(Proc)
      /\ IsInjective(Erase(qq[lv[p]], p))
      /\ \A x : x \in Range(Erase(qq[lv[p]], p)) <=> x \in Range(qq[lv[p]]) /\ x # p
  BY <1>1, EraseFacts
<1> QED
  BY <1>1, <1>2, ReplaceQueue

(* The two moves: out of the process's queue, into another.                *)
LEMMA MoveKeepsQueues ==
    ASSUME QueuesAgree(queue, level), NEW p \in Proc, level[p] # NoQueue,
           NEW l \in Level
    PROVE  /\ MoveToBack(p, l) => QueuesAgree(queue', level')
           /\ MoveToFront(p) => QueuesAgree(queue', level')
<1> DEFINE rest == [queue EXCEPT ![level[p]] = Erase(queue[level[p]], p)]
           out == [level EXCEPT ![p] = NoQueue]
<1>1. QueuesAgree(rest, out)
  BY EraseKeepsQueues
<1>2. level[p] \in Level /\ 0 \in Level /\ out[p] = NoQueue
  BY SizeAssumption DEF QueuesAgree, Level
<1>3. rest = [queue EXCEPT ![level[p]] = Erase(@, p)]
  BY DEF QueuesAgree
<1>4. \A m \in Level : [out EXCEPT ![p] = m] = [level EXCEPT ![p] = m]
  BY DEF QueuesAgree
<1> HIDE DEF rest, out
<1>5. ASSUME MoveToBack(p, l) PROVE QueuesAgree(queue', level')
  <2>1. queue' = [rest EXCEPT ![l] = Append(rest[l], p)]
    BY <1>1, <1>3, <1>5 DEF MoveToBack, QueuesAgree
  <2>2. level' = [out EXCEPT ![p] = l]
    BY <1>4, <1>5 DEF MoveToBack
  <2> QED
    BY <1>1, <1>2, <2>1, <2>2, PushKeepsQueues
<1>6. ASSUME MoveToFront(p) PROVE QueuesAgree(queue', level')
  <2>1. queue' = [rest EXCEPT ![0] = <<p>> \o rest[0]]
    BY <1>1, <1>2, <1>3, <1>6 DEF MoveToFront, QueuesAgree
  <2>2. level' = [out EXCEPT ![p] = 0]
    BY <1>2, <1>4, <1>6 DEF MoveToFront
  <2> QED
    BY <1>1, <1>2, <2>1, <2>2, PushKeepsQueues
<1> QED
  BY <1>5, <1>6
----------------------------------------------------------------------------
(* Every step keeps TableInv.                                              *)

(* The special values are outside the sets they extend.                    *)
LEMMA ConstFacts ==
    /\ NoProc \notin Proc /\ InitProc \in Proc /\ 0 \in Level
    /\ NoQueue \notin Level /\ NoCpu \notin Cpu /\ Level \subseteq Nat
    /\ Proc \subseteq Nat \ {0} /\ NPROC \in Proc
    /\ TicksChan \notin Proc /\ NoChan \notin Proc
BY SizeAssumption DEF Proc, Cpu, Level, NoProc, InitProc, NoQueue, NoCpu,
   TicksChan, NoChan

(* A process that is not UNUSED is in a queue and has a priority.          *)
LiveQueued ==
    \A p \in Proc : state[p] # "UNUSED" => level[p] # NoQueue /\ priority[p] >= 0

(* What TableInv says beyond the types and the queues.                     *)
StatesInv == LiveQueued /\ OneCpuPerProcess /\ ForkChild

(* TableInv and its primed form as the conjunctions of their named parts.  *)
LEMMA TableInvParts ==
    /\ TableInv <=> TypeOK /\ QueuesAgree(queue, level) /\ StatesInv /\ SwitchedOut
    /\ TableInv' <=> TypeOK' /\ QueuesAgree(queue', level') /\ StatesInv' /\ SwitchedOut'
<1>1. TableInv <=> TypeOK /\ QueuesAgree(queue, level) /\ StatesInv /\ SwitchedOut
  BY DEF TableInv, TypeOK, QueuesExact, QueuesAgree, LiveQueued, StatesInv
<1>2. TableInv' <=> TypeOK' /\ QueuesAgree(queue', level') /\ StatesInv' /\ SwitchedOut'
  BY DEF TableInv, TypeOK, QueuesExact, QueuesAgree, LiveQueued, StatesInv
<1> QED
  BY <1>1, <1>2

(* Four ways a step changes the states of the processes.  Processes other  *)
(* than those in S are only woken up, and stay where they are in fork().   *)
OthersWoken(S) ==
    \A q \in Proc \ S :
      /\ state'[q] = state[q] \/ (state[q] = "SLEEPING" /\ state'[q] = "RUNNABLE")
      /\ level[q] # NoQueue => level'[q] # NoQueue
      /\ priority[q] >= 0 => priority'[q] >= 0
      /\ pc'[q] = "fork" => pc[q] = "fork"
      /\ child'[q] = child[q]

(* The four variables this is about, with their types.                     *)
StateTypes ==
    /\ state \in [Proc -> States] /\ running \in [Cpu -> Proc \cup {NoProc}]
    /\ pc \in [Proc -> KernelPoints] /\ child \in [Proc -> Proc \cup {NoProc}]

(* A step that changes no process state, no CPU and no fork child keeps    *)
(* the part of the invariant about states.                                 *)
LEMMA QuietStep ==
    ASSUME StateTypes, StateTypes', StatesInv, OthersWoken({}), running' = running
    PROVE  StatesInv'
<1>1. LiveQueued'
  BY DEF LiveQueued, StatesInv, OthersWoken
<1>2. OneCpuPerProcess'
  <2>1. \A q \in Proc : state'[q] = "RUNNING" <=> state[q] = "RUNNING"
    BY DEF OthersWoken
  <2> QED
    BY <2>1 DEF OneCpuPerProcess, StatesInv, StateTypes
<1>3. ForkChild'
  <2>1. ASSUME NEW q \in Proc, pc'[q] = "fork"
        PROVE  /\ state'[q] \in {"RUNNABLE", "RUNNING"} /\ child'[q] \in Proc
               /\ state'[child'[q]] = "EMBRYO" /\ pc[q] = "fork"
               /\ child'[q] = child[q]
    BY <2>1 DEF ForkChild, StatesInv, OthersWoken
  <2> QED
    BY <2>1 DEF ForkChild, StatesInv
<1> QED
  BY <1>1, <1>2, <1>3 DEF StatesInv

(* A process gives its CPU up: yield, sleep, wait, exit.                   *)
LEMMA LeaveStep ==
    ASSUME StateTypes, StateTypes', StatesInv, NEW c \in Cpu, NEW p \in Proc,
           running[c] = p, running' = [running EXCEPT ![c] = NoProc],
           OthersWoken({p}), level'[p] = level[p], priority'[p] = priority[p],
           child'[p] = child[p],
           \/ state'[p] = "RUNNABLE" /\ pc'[p] = pc[p]
           \/ state'[p] \in {"SLEEPING", "ZOMBIE"} /\ pc'[p] # "fork" /\ pc[p] # "fork"
    PROVE  StatesInv'
<1>1. state[p] = "RUNNING" /\ p # NoProc
  BY ConstFacts DEF StatesInv, OneCpuPerProcess
<1>2. LiveQueued'
  BY <1>1 DEF LiveQueued, StatesInv, OthersWoken
<1>3. OneCpuPerProcess'
  <2>1. \A q \in Proc : state'[q] = "RUNNING" <=> state[q] = "RUNNING" /\ q # p
    BY DEF OthersWoken
  <2>2. \A d \in Cpu : running'[d] = IF d = c THEN NoProc ELSE running[d]
    BY DEF StateTypes
  <2>3. \A d \in Cpu : d # c => running[d] # p
    BY <1>1 DEF OneCpuPerProcess, StatesInv
  <2>4. ASSUME NEW d \in Cpu, running'[d] # NoProc
        PROVE  state'[running'[d]] = "RUNNING"
    BY <2>1, <2>2, <2>3, <2>4 DEF OneCpuPerProcess, StatesInv, StateTypes
  <2>5. ASSUME NEW q \in Proc, state'[q] = "RUNNING"
        PROVE  \E d \in Cpu : running'[d] = q
    <3>1. PICK d \in Cpu : running[d] = q
      BY <2>1, <2>5 DEF OneCpuPerProcess, StatesInv
    <3> QED
      BY <2>1, <2>2, <2>5, <3>1
  <2>6. ASSUME NEW d \in Cpu, NEW e \in Cpu, running'[d] = running'[e], running'[d] # NoProc
        PROVE  d = e
    BY <2>2, <2>6 DEF OneCpuPerProcess, StatesInv
  <2> QED
    BY <2>4, <2>5, <2>6 DEF OneCpuPerProcess
<1>4. ForkChild'
  <2>1. ASSUME NEW q \in Proc, pc'[q] = "fork"
        PROVE  /\ state'[q] \in {"RUNNABLE", "RUNNING"} /\ pc[q] = "fork"
               /\ child'[q] = child[q]
    <3>1. CASE q = p
      BY <2>1, <3>1
    <3>2. CASE q # p
      BY <2>1, <3>2 DEF ForkChild, StatesInv, OthersWoken
    <3> QED
      BY <3>1, <3>2
  <2>2. ASSUME NEW q \in Proc, pc'[q] = "fork"
        PROVE  child'[q] \in Proc /\ state'[child'[q]] = "EMBRYO"
    <3>1. child[q] \in Proc /\ state[child[q]] = "EMBRYO"
      BY <2>1, <2>2 DEF ForkChild, StatesInv
    <3> QED
      BY <1>1, <2>1, <2>2, <3>1 DEF OthersWoken
  <2> QED
    BY <2>1, <2>2 DEF ForkChild, StatesInv
<1> QED
  BY <1>2, <1>3, <1>4 DEF StatesInv

(* A scheduler dispatches a process.                                       *)
LEMMA EnterStep ==
    ASSUME StateTypes, StateTypes', StatesInv, NEW c \in Cpu, NEW p \in Proc,
           running[c] = NoProc, running' = [running EXCEPT ![c] = p],
           state[p] = "RUNNABLE", state' = [state EXCEPT ![p] = "RUNNING"],
           \A q \in Proc : level[q] # NoQueue => level'[q] # NoQueue,
           UNCHANGED <<priority, pc, child>>
    PROVE  StatesInv'
<1>1. \A q \in Proc : state'[q] = IF q = p THEN "RUNNING" ELSE state[q]
  BY DEF StateTypes
<1>2. LiveQueued'
  BY <1>1 DEF LiveQueued, StatesInv
<1>3. OneCpuPerProcess'
  <2>1. \A d \in Cpu : running'[d] = IF d = c THEN p ELSE running[d]
    BY DEF StateTypes
  <2>2. p # NoProc
    BY ConstFacts
  <2>3. \A d \in Cpu : running[d] # p
    BY <2>2 DEF OneCpuPerProcess, StatesInv
  <2>4. ASSUME NEW d \in Cpu, running'[d] # NoProc
        PROVE  state'[running'[d]] = "RUNNING"
    BY <1>1, <2>1, <2>4 DEF OneCpuPerProcess, StatesInv, StateTypes
  <2>5. ASSUME NEW q \in Proc, state'[q] = "RUNNING"
        PROVE  \E d \in Cpu : running'[d] = q
    <3>1. CASE q = p
      BY <2>1, <3>1
    <3>2. CASE q # p
      <4>1. PICK d \in Cpu : running[d] = q
        BY <1>1, <2>5, <3>2 DEF OneCpuPerProcess, StatesInv
      <4>2. q # NoProc
        BY ConstFacts
      <4> QED
        BY <2>1, <4>1, <4>2
    <3> QED
      BY <3>1, <3>2
  <2>6. ASSUME NEW d \in Cpu, NEW e \in Cpu, running'[d] = running'[e], running'[d] # NoProc
        PROVE  d = e
    BY <2>1, <2>3, <2>6 DEF OneCpuPerProcess, StatesInv
  <2> QED
    BY <2>4, <2>5, <2>6 DEF OneCpuPerProcess
<1>4. ForkChild'
  <2>1. ASSUME NEW q \in Proc, pc[q] = "fork"
        PROVE  /\ state'[q] \in {"RUNNABLE", "RUNNING"}
               /\ child[q] \in Proc /\ state'[child[q]] = "EMBRYO"
    <3>1. /\ state[q] \in {"RUNNABLE", "RUNNING"}
          /\ child[q] \in Proc /\ state[child[q]] = "EMBRYO"
      BY <2>1 DEF ForkChild, StatesInv
    <3> QED
      BY <1>1, <3>1
  <2> QED
    BY <2>1 DEF ForkChild, StatesInv
<1> QED
  BY <1>2, <1>3, <1>4 DEF StatesInv

(* One slot, not running anywhere and nobody's fork child afterwards,      *)
(* changes its state: the end of fork() and wait()'s reaping.              *)
LEMMA SlotStep ==
    ASSUME StateTypes, StateTypes', StatesInv, NEW q \in Proc, NEW p \in Proc,
           NEW new \in {"RUNNABLE", "UNUSED"},
           state[q] \in {"EMBRYO", "ZOMBIE"}, state' = [state EXCEPT ![q] = new],
           new # "UNUSED" => level'[q] = level[q] /\ priority'[q] = priority[q],
           \A r \in Proc \ {q} : level'[r] = level[r] /\ priority'[r] = priority[r],
           running' = running, pc'[p] # "fork",
           \A r \in Proc \ {p} : pc'[r] = pc[r] /\ child'[r] = child[r],
           state[q] = "EMBRYO" => pc[p] = "fork" /\ child[p] = q
    PROVE  StatesInv'
<1>1. \A r \in Proc : state'[r] = IF r = q THEN new ELSE state[r]
  BY DEF StateTypes
<1>2. LiveQueued'
  BY <1>1 DEF LiveQueued, StatesInv
<1>3. OneCpuPerProcess'
  <2>1. \A r \in Proc : state'[r] = "RUNNING" <=> state[r] = "RUNNING"
    BY <1>1
  <2> QED
    BY <2>1 DEF OneCpuPerProcess, StatesInv, StateTypes
<1>4. ForkChild'
  <2>1. ASSUME NEW r \in Proc, pc'[r] = "fork"
        PROVE  /\ r # p /\ pc[r] = "fork" /\ child'[r] = child[r]
               /\ state[r] \in {"RUNNABLE", "RUNNING"}
               /\ child[r] \in Proc /\ state[child[r]] = "EMBRYO"
    BY <2>1 DEF ForkChild, StatesInv
  <2>2. ASSUME NEW r \in Proc, pc'[r] = "fork" PROVE child[r] # q
    BY <2>1, <2>2 DEF ForkChild, StatesInv
  <2>3. ASSUME NEW r \in Proc, pc'[r] = "fork"
        PROVE  /\ state'[r] \in {"RUNNABLE", "RUNNING"}
               /\ child'[r] \in Proc /\ state'[child'[r]] = "EMBRYO"
    BY <1>1, <2>1, <2>2, <2>3
  <2> QED
    BY <2>1, <2>3 DEF ForkChild, StatesInv
<1> QED
  BY <1>2, <1>3, <1>4 DEF StatesInv
----------------------------------------------------------------------------
(* The actions, by the kind of step they are.                              *)

(* A step that may move processes between queues and leaves states, CPUs   *)
(* and children alone keeps TableInv.                                      *)
LEMMA MovedKeeps ==
    ASSUME TableInv, TypeOK', QueuesAgree(queue', level'), OthersWoken({}),
           running' = running, \A d \in Cpu : spc'[d] = "run" <=> spc[d] = "run"
    PROVE  TableInv'
<1>1. TypeOK /\ StatesInv /\ SwitchedOut
  BY TableInvParts
<1>2. StateTypes /\ StateTypes'
  BY <1>1 DEF TypeOK, StateTypes
<1>3. StatesInv'
  BY <1>1, <1>2, QuietStep
<1>4. SwitchedOut'
  BY <1>1 DEF SwitchedOut
<1> QED
  BY <1>3, <1>4, TableInvParts

(* A step that leaves the queues, states, CPUs and children alone keeps    *)
(* TableInv.                                                               *)
LEMMA QuietKeeps ==
    ASSUME TableInv, TypeOK', UNCHANGED <<queue, level, running>>, OthersWoken({}),
           \A d \in Cpu : spc'[d] = "run" <=> spc[d] = "run"
    PROVE  TableInv'
<1>1. QueuesAgree(queue', level')
  BY TableInvParts
<1> QED
  BY <1>1, MovedKeeps

(* A step in which a process gives up its CPU and the queues stay keeps    *)
(* TableInv.                                                               *)
LEMMA LeaveKeeps ==
    ASSUME TableInv, TypeOK', NEW c \in Cpu, NEW p \in Proc, running[c] = p,
           BackToScheduler(c), UNCHANGED <<queue, level, priority, child>>,
           OthersWoken({p}),
           \/ state'[p] = "RUNNABLE" /\ pc'[p] = pc[p]
           \/ state'[p] \in {"SLEEPING", "ZOMBIE"} /\ pc'[p] # "fork" /\ pc[p] # "fork"
    PROVE  TableInv'
<1>1. TypeOK /\ QueuesAgree(queue, level) /\ StatesInv /\ SwitchedOut
  BY TableInvParts
<1>2. StateTypes /\ StateTypes'
  BY <1>1 DEF TypeOK, StateTypes
<1>3. StatesInv'
  BY <1>1, <1>2, LeaveStep DEF BackToScheduler
<1>4. QueuesAgree(queue', level')
  BY <1>1
<1>5. SwitchedOut'
  BY <1>1 DEF SwitchedOut, BackToScheduler, TypeOK
<1> QED
  BY <1>3, <1>4, <1>5, TableInvParts

(* getProcessToRun releasing ptable.lock to unlock the scheduler keeps     *)
(* TableInv.                                                               *)
LEMMA GiveUpLockKeeps ==
    ASSUME TableInv, NEW c \in Cpu, GiveUpLock(c)
    PROVE  TableInv'
<1>1. TypeOK
  BY TableInvParts
<1>2. TypeOK'
  BY <1>1, SizeAssumption, CallAssumption DEF GiveUpLock, InPickLoop,
     TypeOK, States, SchedulerPoints, KernelPoints, tableVars, queueVars, kernelVars, cpuVars
<1>3. /\ UNCHANGED <<queue, level, running>> /\ OthersWoken({})
      /\ \A d \in Cpu : spc'[d] = "run" <=> spc[d] = "run"
  BY <1>1 DEF GiveUpLock, InPickLoop, OthersWoken, tableVars, queueVars, kernelVars, cpuVars, TypeOK
<1> QED
  BY <1>2, <1>3, QuietKeeps

(* schedulerUnlock called by the scheduler itself keeps TableInv.          *)
LEMMA SchedulerSideUnlockKeeps ==
    ASSUME TableInv, NEW c \in Cpu, SchedulerSideUnlock(c)
    PROVE  TableInv'
<1>1. TypeOK
  BY TableInvParts
<1>2. TypeOK'
  BY <1>1, SizeAssumption, CallAssumption DEF SchedulerSideUnlock,
     TypeOK, States, SchedulerPoints, KernelPoints, tableVars, queueVars, kernelVars, cpuVars
<1>3. /\ UNCHANGED <<queue, level, running>> /\ OthersWoken({})
      /\ \A d \in Cpu : spc'[d] = "run" <=> spc[d] = "run"
  BY <1>1 DEF SchedulerSideUnlock, OthersWoken, tableVars, queueVars, kernelVars, cpuVars, TypeOK
<1> QED
  BY <1>2, <1>3, QuietKeeps

(* A pass of scheduler() that finds nobody RUNNABLE keeps TableInv.        *)
LEMMA NothingToRunKeeps ==
    ASSUME TableInv, NEW c \in Cpu, NothingToRun(c)
    PROVE  TableInv'
<1>1. TypeOK
  BY TableInvParts
<1>2. TypeOK'
  BY <1>1, SizeAssumption, CallAssumption DEF NothingToRun, InPickLoop,
     TypeOK, States, SchedulerPoints, KernelPoints, tableVars, queueVars, kernelVars, cpuVars
<1>3. /\ UNCHANGED <<queue, level, running>> /\ OthersWoken({})
      /\ \A d \in Cpu : spc'[d] = "run" <=> spc[d] = "run"
  BY <1>1 DEF NothingToRun, InPickLoop, OthersWoken, tableVars, queueVars, kernelVars, cpuVars, TypeOK
<1> QED
  BY <1>2, <1>3, QuietKeeps

(* scheduler() reading ticks before the boost test keeps TableInv.         *)
LEMMA ReadTicksKeeps ==
    ASSUME TableInv, NEW c \in Cpu, ReadTicks(c)
    PROVE  TableInv'
<1>1. TypeOK
  BY TableInvParts
<1>2. TypeOK'
  BY <1>1, SizeAssumption, CallAssumption DEF ReadTicks,
     TypeOK, States, SchedulerPoints, KernelPoints, tableVars, queueVars, kernelVars, cpuVars
<1>3. /\ UNCHANGED <<queue, level, running>> /\ OthersWoken({})
      /\ \A d \in Cpu : spc'[d] = "run" <=> spc[d] = "run"
  BY <1>1 DEF ReadTicks, OthersWoken, tableVars, queueVars, kernelVars, cpuVars, TypeOK
<1> QED
  BY <1>2, <1>3, QuietKeeps

(* The boost resetting ticks keeps TableInv.                               *)
LEMMA BoostResetTicksKeeps ==
    ASSUME TableInv, NEW c \in Cpu, BoostResetTicks(c)
    PROVE  TableInv'
<1>1. TypeOK
  BY TableInvParts
<1>2. TypeOK'
  BY <1>1, SizeAssumption, CallAssumption DEF BoostResetTicks,
     TypeOK, States, SchedulerPoints, KernelPoints, tableVars, queueVars, kernelVars, cpuVars
<1>3. /\ UNCHANGED <<queue, level, running>> /\ OthersWoken({})
      /\ \A d \in Cpu : spc'[d] = "run" <=> spc[d] = "run"
  BY <1>1 DEF BoostResetTicks, OthersWoken, tableVars, queueVars, kernelVars, cpuVars, TypeOK
<1> QED
  BY <1>2, <1>3, QuietKeeps

(* boostPriority taking ptable.lock, or going to unlock the scheduler      *)
(* first, keeps TableInv.                                                  *)
LEMMA BoostTakeLockKeeps ==
    ASSUME TableInv, NEW c \in Cpu, BoostTakeLock(c)
    PROVE  TableInv'
<1>1. TypeOK
  BY TableInvParts
<1>2. TypeOK'
  BY <1>1, SizeAssumption, CallAssumption DEF BoostTakeLock,
     TypeOK, States, SchedulerPoints, KernelPoints, tableVars, queueVars, kernelVars, cpuVars
<1>3. /\ UNCHANGED <<queue, level, running>> /\ OthersWoken({})
      /\ \A d \in Cpu : spc'[d] = "run" <=> spc[d] = "run"
  BY <1>1 DEF BoostTakeLock, OthersWoken, tableVars, queueVars, kernelVars, cpuVars, TypeOK
<1> QED
  BY <1>2, <1>3, QuietKeeps

(* A killed process turning into exit() at a trap keeps TableInv.          *)
LEMMA KilledExitKeeps ==
    ASSUME TableInv, NEW c \in Cpu, NEW p \in Proc, KilledExit(c, p)
    PROVE  TableInv'
<1>1. TypeOK
  BY TableInvParts
<1>2. TypeOK'
  BY <1>1, SizeAssumption, CallAssumption DEF KilledExit, On,
     TypeOK, States, SchedulerPoints, KernelPoints, tableVars, queueVars, kernelVars, cpuVars
<1>3. /\ UNCHANGED <<queue, level, running>> /\ OthersWoken({})
      /\ \A d \in Cpu : spc'[d] = "run" <=> spc[d] = "run"
  BY <1>1 DEF KilledExit, On, OthersWoken, tableVars, queueVars, kernelVars, cpuVars, TypeOK
<1> QED
  BY <1>2, <1>3, QuietKeeps

(* The call of exit() keeps TableInv.                                      *)
LEMMA sys_exitKeeps ==
    ASSUME TableInv, NEW c \in Cpu, NEW p \in Proc, sys_exit(c, p)
    PROVE  TableInv'
<1>1. TypeOK
  BY TableInvParts
<1>2. TypeOK'
  BY <1>1, SizeAssumption, CallAssumption DEF sys_exit, Calling, On,
     TypeOK, States, SchedulerPoints, KernelPoints, tableVars, queueVars, kernelVars, cpuVars
<1>3. /\ UNCHANGED <<queue, level, running>> /\ OthersWoken({})
      /\ \A d \in Cpu : spc'[d] = "run" <=> spc[d] = "run"
  BY <1>1 DEF sys_exit, Calling, On, OthersWoken, tableVars, queueVars, kernelVars, cpuVars, TypeOK
<1> QED
  BY <1>2, <1>3, QuietKeeps

(* fork() failing because the table is full keeps TableInv.                *)
LEMMA ForkNoSlotKeeps ==
    ASSUME TableInv, NEW c \in Cpu, NEW p \in Proc, ForkNoSlot(c, p)
    PROVE  TableInv'
<1>1. TypeOK
  BY TableInvParts
<1>2. TypeOK'
  BY <1>1, SizeAssumption, CallAssumption DEF ForkNoSlot, Calling, On,
     TypeOK, States, SchedulerPoints, KernelPoints, tableVars, queueVars, kernelVars, cpuVars
<1>3. /\ UNCHANGED <<queue, level, running>> /\ OthersWoken({})
      /\ \A d \in Cpu : spc'[d] = "run" <=> spc[d] = "run"
  BY <1>1 DEF ForkNoSlot, Calling, On, OthersWoken, tableVars, queueVars, kernelVars, cpuVars, TypeOK
<1> QED
  BY <1>2, <1>3, QuietKeeps

(* The panic of exit() called by init keeps TableInv.                      *)
LEMMA InitExitingKeeps ==
    ASSUME TableInv, NEW c \in Cpu, NEW p \in Proc, InitExiting(c, p)
    PROVE  TableInv'
<1>1. TypeOK
  BY TableInvParts
<1>2. TypeOK'
  BY <1>1, SizeAssumption, CallAssumption DEF InitExiting, Faults, On,
     TypeOK, States, SchedulerPoints, KernelPoints, tableVars, queueVars, kernelVars, cpuVars
<1>3. /\ UNCHANGED <<queue, level, running>> /\ OthersWoken({})
      /\ \A d \in Cpu : spc'[d] = "run" <=> spc[d] = "run"
  BY <1>1 DEF InitExiting, On, OthersWoken, tableVars, queueVars, kernelVars, cpuVars, TypeOK
<1> QED
  BY <1>2, <1>3, QuietKeeps

(* exit() by the holder of the scheduler lock, up to the unlock, keeps     *)
(* TableInv.                                                               *)
LEMMA ExitHoldsLockKeeps ==
    ASSUME TableInv, NEW c \in Cpu, NEW p \in Proc, ExitHoldsLock(c, p)
    PROVE  TableInv'
<1>1. TypeOK
  BY TableInvParts
<1>2. TypeOK'
  BY <1>1, SizeAssumption, CallAssumption DEF ExitHoldsLock, On,
     TypeOK, States, SchedulerPoints, KernelPoints, tableVars, queueVars, kernelVars, cpuVars
<1>3. /\ UNCHANGED <<queue, level, running>> /\ OthersWoken({})
      /\ \A d \in Cpu : spc'[d] = "run" <=> spc[d] = "run"
  BY <1>1 DEF ExitHoldsLock, On, OthersWoken, tableVars, queueVars, kernelVars, cpuVars, TypeOK
<1> QED
  BY <1>2, <1>3, QuietKeeps

(* The call of sleep() keeps TableInv.                                     *)
LEMMA sys_sleepKeeps ==
    ASSUME TableInv, NEW c \in Cpu, NEW p \in Proc, sys_sleep(c, p)
    PROVE  TableInv'
<1>1. TypeOK
  BY TableInvParts
<1>2. TypeOK'
  <2>1. PICK n \in SleepTimes :
          /\ ticks0' = [ticks0 EXCEPT ![p] = ticks] /\ nap' = [nap EXCEPT ![p] = n]
          /\ pc' = [pc EXCEPT ![p] = IF n = 0 THEN "user" ELSE "tsleep"]
    BY DEF sys_sleep
  <2>2. n \in Nat
    BY CallAssumption
  <2>3. /\ ticks0' \in [Proc -> Nat] /\ nap' \in [Proc -> Nat]
        /\ pc' \in [Proc -> KernelPoints]
    BY <1>1, <2>1, <2>2 DEF TypeOK, KernelPoints
  <2> QED
    BY <1>1, <2>3 DEF sys_sleep, TypeOK, tableVars, queueVars, kernelVars, cpuVars
<1>3. /\ UNCHANGED <<queue, level, running>> /\ OthersWoken({})
      /\ \A d \in Cpu : spc'[d] = "run" <=> spc[d] = "run"
  BY <1>1 DEF sys_sleep, Calling, On, OthersWoken, tableVars, queueVars, kernelVars, cpuVars, TypeOK
<1> QED
  BY <1>2, <1>3, QuietKeeps

(* The test of sys_sleep's loop keeps TableInv.                            *)
LEMMA SleepTestKeeps ==
    ASSUME TableInv, NEW c \in Cpu, NEW p \in Proc, SleepTest(c, p)
    PROVE  TableInv'
<1>1. TypeOK
  BY TableInvParts
<1>2. TypeOK'
  BY <1>1, SizeAssumption, CallAssumption DEF SleepTest, On,
     TypeOK, States, SchedulerPoints, KernelPoints, tableVars, queueVars, kernelVars, cpuVars
<1>3. /\ UNCHANGED <<queue, level, running>> /\ OthersWoken({})
      /\ \A d \in Cpu : spc'[d] = "run" <=> spc[d] = "run"
  BY <1>1 DEF SleepTest, On, OthersWoken, tableVars, queueVars, kernelVars, cpuVars, TypeOK
<1> QED
  BY <1>2, <1>3, QuietKeeps

(* schedulerLock() keeps TableInv.                                         *)
LEMMA schedulerLockKeeps ==
    ASSUME TableInv, NEW c \in Cpu, NEW p \in Proc, schedulerLock(c, p)
    PROVE  TableInv'
<1>1. TypeOK
  BY TableInvParts
<1>2. TypeOK'
  <2>1. lockpid' \in Nat /\ lockCalls' \in Nat /\ pc' \in [Proc -> KernelPoints]
    BY <1>1, SizeAssumption, CallAssumption DEF schedulerLock, Calling, On,
       TypeOK, States, SchedulerPoints, KernelPoints
  <2> QED
    BY <1>1, <2>1 DEF schedulerLock, Calling, On, TypeOK, tableVars, queueVars, kernelVars, cpuVars
<1>3. /\ UNCHANGED <<queue, level, running>> /\ OthersWoken({})
      /\ \A d \in Cpu : spc'[d] = "run" <=> spc[d] = "run"
  BY <1>1 DEF schedulerLock, Calling, On, OthersWoken, tableVars, queueVars, kernelVars, cpuVars, TypeOK
<1> QED
  BY <1>2, <1>3, QuietKeeps

(* schedulerLock() resetting ticks after the lock is taken keeps           *)
(* TableInv.                                                               *)
LEMMA LockResetsTicksKeeps ==
    ASSUME TableInv, NEW c \in Cpu, NEW p \in Proc, LockResetsTicks(c, p)
    PROVE  TableInv'
<1>1. TypeOK
  BY TableInvParts
<1>2. TypeOK'
  BY <1>1, SizeAssumption, CallAssumption DEF LockResetsTicks, On,
     TypeOK, States, SchedulerPoints, KernelPoints, tableVars, queueVars, kernelVars, cpuVars
<1>3. /\ UNCHANGED <<queue, level, running>> /\ OthersWoken({})
      /\ \A d \in Cpu : spc'[d] = "run" <=> spc[d] = "run"
  BY <1>1 DEF LockResetsTicks, On, OthersWoken, tableVars, queueVars, kernelVars, cpuVars, TypeOK
<1> QED
  BY <1>2, <1>3, QuietKeeps

(* setPriority() keeps TableInv: it never touches the queues.              *)
LEMMA setPriorityKeeps ==
    ASSUME TableInv, NEW c \in Cpu, NEW p \in Proc, setPriority(c, p)
    PROVE  TableInv'
<1>1. TypeOK
  BY TableInvParts
<1>2. TypeOK'
  <2>1. priority' \in [Proc -> -1..MaxPriority]
    BY <1>1, SizeAssumption, CallAssumption DEF setPriority, Calling, On,
       TypeOK, States, SchedulerPoints, KernelPoints
  <2> QED
    BY <1>1, <2>1 DEF setPriority, Calling, On, TypeOK, tableVars, queueVars, kernelVars, cpuVars
<1>3. /\ UNCHANGED <<queue, level, running>> /\ OthersWoken({})
      /\ \A d \in Cpu : spc'[d] = "run" <=> spc[d] = "run"
  BY <1>1, CallAssumption DEF setPriority, Calling, On, OthersWoken, tableVars, queueVars, kernelVars, cpuVars, TypeOK
<1> QED
  BY <1>2, <1>3, QuietKeeps

(* kill() keeps TableInv: a SLEEPING victim becomes RUNNABLE in its        *)
(* queue.                                                                  *)
LEMMA killKeeps ==
    ASSUME TableInv, NEW c \in Cpu, NEW p \in Proc, kill(c, p)
    PROVE  TableInv'
<1>1. TypeOK
  BY TableInvParts
<1>2. TypeOK'
  <2>1. PICK q \in Proc :
          /\ killed' = [killed EXCEPT ![q] = TRUE]
          /\ state' = [state EXCEPT ![q] = IF @ = "SLEEPING" THEN "RUNNABLE" ELSE @]
    BY DEF kill
  <2>2. killed' \in [Proc -> BOOLEAN]
    BY <1>1, <2>1 DEF TypeOK
  <2>3. state' \in [Proc -> States]
    BY <1>1, <2>1 DEF TypeOK, States
  <2> QED
    BY <1>1, <2>2, <2>3 DEF kill, TypeOK, tableVars, queueVars, kernelVars, cpuVars
<1>3. /\ UNCHANGED <<queue, level, running>> /\ OthersWoken({})
      /\ \A d \in Cpu : spc'[d] = "run" <=> spc[d] = "run"
  BY <1>1 DEF kill, Calling, On, OthersWoken, tableVars, queueVars, kernelVars, cpuVars, TypeOK
<1> QED
  BY <1>2, <1>3, QuietKeeps

(* A wrong password, or a lock another process holds, only marks the       *)
(* caller killed; TableInv is kept.                                        *)
LEMMA LockRefusedKeeps ==
    ASSUME TableInv, NEW c \in Cpu, NEW p \in Proc, LockRefused(c, p)
    PROVE  TableInv'
<1>1. TypeOK
  BY TableInvParts
<1>2. TypeOK'
  BY <1>1, SizeAssumption, CallAssumption DEF LockRefused, Calling, On,
     TypeOK, States, SchedulerPoints, KernelPoints, tableVars, queueVars, kernelVars, cpuVars
<1>3. /\ UNCHANGED <<queue, level, running>> /\ OthersWoken({})
      /\ \A d \in Cpu : spc'[d] = "run" <=> spc[d] = "run"
  BY <1>1 DEF LockRefused, Calling, On, OthersWoken, tableVars, queueVars, kernelVars, cpuVars, TypeOK
<1> QED
  BY <1>2, <1>3, QuietKeeps

(* The timer interrupt, which wakes the sleepers on ticks, keeps           *)
(* TableInv.                                                               *)
LEMMA TimerKeeps ==
    ASSUME TableInv, NEW c \in Cpu, Timer(c)
    PROVE  TableInv'
<1>1. TypeOK
  BY TableInvParts
<1>2. TypeOK'
  <2>1. ticks' \in Nat
    <3>1. (ticks + 1) % TickMod \in Nat
      BY <1>1, SizeAssumption DEF TypeOK
    <3> QED
      BY <1>1, <3>1 DEF Timer, TypeOK
  <2>2. state' \in [Proc -> States]
    BY <1>1 DEF Timer, Woken, TypeOK, States
  <2>3. irq' \in [Cpu -> BOOLEAN]
    BY <1>1 DEF Timer, TypeOK
  <2> QED
    BY <1>1, <2>1, <2>2, <2>3 DEF Timer, TypeOK, queueVars, kernelVars
<1>3. /\ UNCHANGED <<queue, level, running>> /\ OthersWoken({})
      /\ \A d \in Cpu : spc'[d] = "run" <=> spc[d] = "run"
  BY <1>1 DEF Timer, Woken, OthersWoken, tableVars, queueVars, kernelVars, cpuVars, TypeOK
<1> QED
  BY <1>2, <1>3, QuietKeeps

(* yield() keeps TableInv.                                                 *)
LEMMA sys_yieldKeeps ==
    ASSUME TableInv, NEW c \in Cpu, NEW p \in Proc, sys_yield(c, p)
    PROVE  TableInv'
<1>1. TypeOK
  BY TableInvParts
<1>2. TypeOK'
  BY <1>1, ConstFacts DEF sys_yield, BackToScheduler, TypeOK, States, SchedulerPoints,
     queueVars, kernelVars
<1>3. /\ running[c] = p /\ BackToScheduler(c)
      /\ UNCHANGED <<queue, level, priority, child>>
      /\ OthersWoken({p}) /\ state'[p] = "RUNNABLE" /\ pc'[p] = pc[p]
  BY <1>1 DEF sys_yield, Calling, On, OthersWoken, queueVars, kernelVars, TypeOK
<1> QED
  BY <1>2, <1>3, LeaveKeeps

(* The return from the timer interrupt, with or without a yield, keeps     *)
(* TableInv.                                                               *)
LEMMA TimerReturnKeeps ==
    ASSUME TableInv, NEW c \in Cpu, NEW p \in Proc, TimerReturn(c, p)
    PROVE  TableInv'
<1>1. TypeOK
  BY TableInvParts
<1>2. irq' \in [Cpu -> BOOLEAN]
  BY <1>1 DEF TimerReturn, TypeOK
<1>3. CASE killed[p] /\ pc[p] = "user"
  <2>1. TypeOK'
    BY <1>1, <1>2, <1>3 DEF TimerReturn, TypeOK, KernelPoints, queueVars
  <2>2. /\ UNCHANGED <<queue, level, running>> /\ OthersWoken({})
        /\ \A d \in Cpu : spc'[d] = "run" <=> spc[d] = "run"
    BY <1>1, <1>3 DEF TimerReturn, OthersWoken, queueVars, TypeOK
  <2> QED
    BY <2>1, <2>2, QuietKeeps
<1>4. CASE ~(killed[p] /\ pc[p] = "user")
  <2>1. /\ state' = [state EXCEPT ![p] = "RUNNABLE"]
        /\ BackToScheduler(c) /\ UNCHANGED pc
    BY <1>4 DEF TimerReturn
  <2>2. TypeOK'
    BY <1>1, <1>2, <2>1, ConstFacts DEF TimerReturn, BackToScheduler, TypeOK, States,
       SchedulerPoints, queueVars
  <2>3. /\ running[c] = p /\ UNCHANGED <<queue, level, priority, child>>
        /\ OthersWoken({p}) /\ state'[p] = "RUNNABLE" /\ pc'[p] = pc[p]
    BY <1>1, <2>1 DEF TimerReturn, OthersWoken, queueVars, TypeOK
  <2> QED
    BY <2>1, <2>2, <2>3, LeaveKeeps
<1> QED
  BY <1>3, <1>4

(* sleep(&ticks) inside sys_sleep keeps TableInv.                          *)
LEMMA SleepOnTicksKeeps ==
    ASSUME TableInv, NEW c \in Cpu, NEW p \in Proc, SleepOnTicks(c, p)
    PROVE  TableInv'
<1>1. TypeOK
  BY TableInvParts
<1>2. TypeOK'
  BY <1>1, ConstFacts DEF SleepOnTicks, BackToScheduler, TypeOK, States,
     SchedulerPoints, KernelPoints, queueVars
<1>3. /\ running[c] = p /\ BackToScheduler(c)
      /\ UNCHANGED <<queue, level, priority, child>>
      /\ OthersWoken({p}) /\ state'[p] = "SLEEPING"
      /\ pc'[p] # "fork" /\ pc[p] # "fork"
  BY <1>1 DEF SleepOnTicks, On, OthersWoken, queueVars, TypeOK
<1> QED
  BY <1>2, <1>3, LeaveKeeps

(* The second half of exit(), which ends in a ZOMBIE, keeps TableInv.      *)
LEMMA ExitFinishKeeps ==
    ASSUME TableInv, NEW c \in Cpu, NEW p \in Proc, ExitFinish(c, p)
    PROVE  TableInv'
<1>1. TypeOK
  BY TableInvParts
<1>2. /\ state' \in [Proc -> States] /\ state'[p] = "ZOMBIE"
      /\ \A q \in Proc \ {p} : state'[q] = state[q]
           \/ (state[q] = "SLEEPING" /\ state'[q] = "RUNNABLE")
  BY <1>1 DEF ExitFinish, ExitWakes, TypeOK, States
<1>3. parent' \in [Proc -> Proc \cup {NoProc}]
  BY <1>1, ConstFacts DEF ExitFinish, Reparented, TypeOK
<1>4. TypeOK'
  BY <1>1, <1>2, <1>3, ConstFacts DEF ExitFinish, BackToScheduler, TypeOK,
     SchedulerPoints, KernelPoints, queueVars
<1>5. /\ running[c] = p /\ BackToScheduler(c)
      /\ UNCHANGED <<queue, level, priority, child>>
      /\ pc'[p] # "fork" /\ pc[p] # "fork" /\ \A q \in Proc \ {p} : pc'[q] = pc[q]
  BY <1>1 DEF ExitFinish, On, queueVars, TypeOK
<1>6. OthersWoken({p})
  BY <1>2, <1>5 DEF OthersWoken
<1> QED
  BY <1>2, <1>4, <1>5, <1>6, LeaveKeeps

----------------------------------------------------------------------------
(* The actions that move processes between queues.                         *)

(* A move leaves nobody outside the queues.                                *)
LEMMA MoveFacts ==
    ASSUME TypeOK, QueuesAgree(queue, level), NEW p \in Proc, level[p] # NoQueue,
           NEW l \in Level, MoveToBack(p, l) \/ MoveToFront(p)
    PROVE  /\ QueuesAgree(queue', level')
           /\ queue' \in [Level -> Seq(Proc)]
           /\ level' \in [Proc -> Level \cup {NoQueue}]
           /\ \A q \in Proc : level[q] # NoQueue => level'[q] # NoQueue
<1>1. QueuesAgree(queue', level')
  BY MoveKeepsQueues
<1>2. \A q \in Proc : level[q] # NoQueue => level'[q] # NoQueue
  <2>1. PICK m \in Level : level' = [level EXCEPT ![p] = m]
    BY ConstFacts DEF MoveToBack, MoveToFront
  <2> QED
    BY <2>1, ConstFacts DEF TypeOK
<1> QED
  BY <1>1, <1>2 DEF QueuesAgree

(* getProcessToRun returns a RUNNABLE process.                             *)
LEMMA ChosenRunnable ==
    ASSUME TableInv, NEW c \in Cpu, NEW p \in Proc, getProcessToRun(c, p)
    PROVE  state[p] = "RUNNABLE" /\ level[p] \in Level /\ priority[p] >= 0
<1>1. TypeOK /\ StatesInv
  BY TableInvParts
<1>2. state[p] = "RUNNABLE"
  <2>1. CASE FromQueues(p)
    BY <2>1 DEF FromQueues, FirstRunnable, BestPriority, RunnableAt
  <2> QED
    BY <2>1 DEF getProcessToRun
<1> QED
  BY <1>1, <1>2 DEF StatesInv, LiveQueued, TypeOK

(* A process whose quantum is used up moves one level down; TableInv is    *)
(* kept.                                                                   *)
LEMMA ExpireTimeQuantumKeeps ==
    ASSUME TableInv, NEW c \in Cpu, NEW p \in Proc, ExpireTimeQuantum(c, p)
    PROVE  TableInv'
<1>1. TypeOK /\ QueuesAgree(queue, level)
  BY TableInvParts
<1>2. state[p] = "RUNNABLE" /\ level[p] \in Level /\ priority[p] >= 0
  BY ChosenRunnable DEF ExpireTimeQuantum
<1>3. level[p] # NoQueue
  BY <1>2, ConstFacts
<1>4. tq' \in [Proc -> Nat \cup {-1}] /\ spc' \in [Cpu -> SchedulerPoints]
      /\ \A d \in Cpu : spc'[d] = "run" <=> spc[d] = "run"
  BY <1>1 DEF ExpireTimeQuantum, InPickLoop, TypeOK, SchedulerPoints
<1>5. /\ QueuesAgree(queue', level') /\ queue' \in [Level -> Seq(Proc)]
      /\ level' \in [Proc -> Level \cup {NoQueue}]
      /\ priority' \in [Proc -> -1..MaxPriority]
      /\ \A q \in Proc : level[q] # NoQueue => level'[q] # NoQueue
      /\ \A q \in Proc : priority[q] >= 0 => priority'[q] >= 0
  <2>1. CASE level[p] < NQUEUE - 1
    <3>1. level[p] + 1 \in Level
      BY <1>2, <2>1, SizeAssumption DEF Level
    <3>2. MoveToBack(p, level[p] + 1) /\ UNCHANGED priority
      BY <2>1 DEF ExpireTimeQuantum
    <3> QED
      BY <1>1, <1>3, <3>1, <3>2, MoveFacts DEF TypeOK
  <2>2. CASE ~(level[p] < NQUEUE - 1)
    <3>1. /\ priority' = [priority EXCEPT ![p] = IF @ = 0 THEN 0 ELSE @ - 1]
          /\ UNCHANGED <<queue, level>>
      BY <2>2 DEF ExpireTimeQuantum
    <3>2. priority' \in [Proc -> -1..MaxPriority]
      <4>1. priority \in [Proc -> -1..MaxPriority] /\ MaxPriority \in Nat
        BY <1>1, SizeAssumption DEF TypeOK
      <4>2. (IF priority[p] = 0 THEN 0 ELSE priority[p] - 1) \in -1..MaxPriority
        BY <1>2, <4>1
      <4> QED
        BY <3>1, <4>1, <4>2
    <3>3. \A q \in Proc : priority[q] >= 0 => priority'[q] >= 0
      <4>1. priority \in [Proc -> -1..MaxPriority] /\ MaxPriority \in Nat
        BY <1>1, SizeAssumption DEF TypeOK
      <4>2. priority[p] >= 0 => (IF priority[p] = 0 THEN 0 ELSE priority[p] - 1) >= 0
        BY <4>1
      <4>3. priority'[p] = (IF priority[p] = 0 THEN 0 ELSE priority[p] - 1)
        BY <3>1, <4>1
      <4>4. \A q \in Proc \ {p} : priority'[q] = priority[q]
        BY <3>1, <4>1
      <4> QED
        BY <4>2, <4>3, <4>4
    <3> QED
      BY <1>1, <3>1, <3>2, <3>3 DEF TypeOK
  <2> QED
    BY <2>1, <2>2
<1>6. TypeOK'
  BY <1>1, <1>4, <1>5 DEF ExpireTimeQuantum, TypeOK, tableVars, kernelVars
<1>7. OthersWoken({}) /\ running' = running
  BY <1>5 DEF ExpireTimeQuantum, OthersWoken, tableVars, kernelVars
<1> QED
  BY <1>4, <1>5, <1>6, <1>7, MovedKeeps

(* scheduler() choosing and running a process keeps TableInv.              *)
LEMMA DispatchKeeps ==
    ASSUME TableInv, NEW c \in Cpu, NEW p \in Proc, Dispatch(c, p)
    PROVE  TableInv'
<1>1. TypeOK /\ QueuesAgree(queue, level) /\ StatesInv /\ SwitchedOut
  BY TableInvParts
<1>2. state[p] = "RUNNABLE" /\ level[p] \in Level
  BY ChosenRunnable DEF Dispatch
<1>3. level[p] # NoQueue
  BY <1>2, ConstFacts
<1>4. running[c] = NoProc
  BY <1>1 DEF Dispatch, InPickLoop, SwitchedOut
<1>5. /\ QueuesAgree(queue', level') /\ queue' \in [Level -> Seq(Proc)]
      /\ level' \in [Proc -> Level \cup {NoQueue}]
      /\ \A q \in Proc : level[q] # NoQueue => level'[q] # NoQueue
  <2>1. CASE level[p] < NQUEUE - 1
    <3>1. MoveToBack(p, level[p])
      BY <2>1 DEF Dispatch
    <3> QED
      BY <1>1, <1>2, <1>3, <3>1, MoveFacts
  <2>2. CASE ~(level[p] < NQUEUE - 1)
    BY <1>1, <2>2 DEF Dispatch, TypeOK
  <2> QED
    BY <2>1, <2>2
<1>6. /\ tq' \in [Proc -> Nat \cup {-1}] /\ state' \in [Proc -> States]
      /\ chan' \in [Proc -> Proc \cup {NoChan, TicksChan}]
      /\ running' \in [Cpu -> Proc \cup {NoProc}]
      /\ spc' \in [Cpu -> SchedulerPoints] /\ ptlock' \in Cpu \cup {NoCpu}
  <2>1. tq' \in [Proc -> Nat \cup {-1}]
    <3>1. tq[p] + 1 \in Nat
      <4>1. tq[p] \in Nat \/ tq[p] = -1
        BY <1>1 DEF TypeOK
      <4> QED
        BY <4>1
    <3>2. tq' = [tq EXCEPT ![p] = tq[p] + 1]
      BY <1>1 DEF Dispatch, TypeOK
    <3> QED
      BY <1>1, <3>1, <3>2 DEF TypeOK
  <2>2. state' \in [Proc -> States] /\ chan' \in [Proc -> Proc \cup {NoChan, TicksChan}]
    BY <1>1 DEF Dispatch, TypeOK, States
  <2>3. running' \in [Cpu -> Proc \cup {NoProc}] /\ spc' \in [Cpu -> SchedulerPoints]
    BY <1>1 DEF Dispatch, TypeOK, SchedulerPoints
  <2>4. ptlock' \in Cpu \cup {NoCpu}
    BY DEF Dispatch
  <2> QED
    BY <2>1, <2>2, <2>3, <2>4
<1>7. TypeOK'
  BY <1>1, <1>5, <1>6 DEF Dispatch, TypeOK, kernelVars
<1>8. StatesInv'
  <2>1. StateTypes /\ StateTypes'
    BY <1>1, <1>7 DEF TypeOK, StateTypes
  <2> QED
    BY <1>1, <1>2, <1>4, <1>5, <2>1, EnterStep DEF Dispatch, kernelVars
<1>9. SwitchedOut'
  BY <1>1, ConstFacts DEF Dispatch, SwitchedOut, TypeOK
<1> QED
  BY <1>5, <1>7, <1>8, <1>9, TableInvParts

(* One move of the priority boost keeps TableInv.                          *)
LEMMA BoostStepKeeps ==
    ASSUME TableInv, NEW c \in Cpu, BoostStep(c)
    PROVE  TableInv'
<1> DEFINE p == bptr[c]
<1>1. TypeOK /\ QueuesAgree(queue, level) /\ StatesInv
  BY TableInvParts
<1>2. p \in Proc /\ clearProc(p)
  BY <1>1 DEF BoostStep, TypeOK
<1>3. /\ QueuesAgree(queue', level') /\ queue' \in [Level -> Seq(Proc)]
      /\ level' \in [Proc -> Level \cup {NoQueue}]
      /\ priority' \in [Proc -> -1..MaxPriority] /\ tq' \in [Proc -> Nat \cup {-1}]
      /\ \A q \in Proc : level[q] # NoQueue => level'[q] # NoQueue
      /\ \A q \in Proc : priority[q] >= 0 => priority'[q] >= 0
  <2> HIDE DEF p
  <2>1. CASE state[p] = "UNUSED"
    BY <1>1, <1>2, <2>1 DEF clearProc, queueVars, TypeOK
  <2>2. CASE state[p] # "UNUSED"
    <3>1. /\ priority' = [priority EXCEPT ![p] = MaxPriority]
          /\ tq' = [tq EXCEPT ![p] = 0] /\ MoveToBack(p, 0)
      BY <1>2, <2>2 DEF clearProc
    <3>2. level[p] # NoQueue
      BY <1>1, <1>2, <2>2 DEF StatesInv, LiveQueued
    <3>3. /\ QueuesAgree(queue', level') /\ queue' \in [Level -> Seq(Proc)]
          /\ level' \in [Proc -> Level \cup {NoQueue}]
          /\ \A q \in Proc : level[q] # NoQueue => level'[q] # NoQueue
      BY <1>1, <1>2, <3>1, <3>2, ConstFacts, MoveFacts
    <3>4. /\ priority' \in [Proc -> -1..MaxPriority] /\ tq' \in [Proc -> Nat \cup {-1}]
          /\ \A q \in Proc : priority[q] >= 0 => priority'[q] >= 0
      <4>1. tq' \in [Proc -> Nat \cup {-1}]
        BY <1>1, <3>1 DEF TypeOK
      <4>2. MaxPriority \in -1..MaxPriority /\ MaxPriority >= 0
        BY SizeAssumption
      <4>3. priority' \in [Proc -> -1..MaxPriority]
        BY <1>1, <3>1, <4>2 DEF TypeOK
      <4>4. \A q \in Proc : priority[q] >= 0 => priority'[q] >= 0
        BY <1>1, <3>1, <4>2 DEF TypeOK
      <4> QED
        BY <4>1, <4>3, <4>4
    <3> QED
      BY <3>3, <3>4
  <2> QED
    BY <2>1, <2>2
<1>4. /\ bptr' \in [Cpu -> Proc] /\ bround' \in [Cpu -> Proc]
      /\ spc' \in [Cpu -> SchedulerPoints] /\ ptlock' \in Cpu \cup {NoCpu}
  <2>1. \A n \in Proc : n # NPROC => n + 1 \in Proc
    BY SizeAssumption DEF Proc
  <2>2. 1 \in Proc
    BY SizeAssumption DEF Proc
  <2>3. bptr' \in [Cpu -> Proc]
    BY <1>1, <2>1, <2>2 DEF BoostStep, NextSlot, TypeOK
  <2>4. bround' \in [Cpu -> Proc]
    BY <1>1, <2>1, <2>2 DEF BoostStep, NextSlot, TypeOK
  <2>5. spc' \in [Cpu -> SchedulerPoints] /\ ptlock' \in Cpu \cup {NoCpu}
    BY <1>1 DEF BoostStep, TypeOK, SchedulerPoints
  <2> QED
    BY <2>3, <2>4, <2>5
<1>5. TypeOK'
  BY <1>1, <1>3, <1>4 DEF BoostStep, TypeOK, tableVars, kernelVars
<1>6. OthersWoken({}) /\ running' = running
  BY <1>3 DEF BoostStep, OthersWoken, tableVars, kernelVars
<1>7. \A d \in Cpu : spc'[d] = "run" <=> spc[d] = "run"
  BY <1>1 DEF BoostStep, TypeOK
<1> QED
  BY <1>3, <1>5, <1>6, <1>7, MovedKeeps
(* schedulerUnlock by the running process, as a call and inside exit().    *)
LEMMA UnlockByFacts ==
    ASSUME TableInv, NEW c \in Cpu, NEW p \in Proc, running[c] = p, UnlockBy(p)
    PROVE  /\ QueuesAgree(queue', level') /\ queue' \in [Level -> Seq(Proc)]
           /\ level' \in [Proc -> Level \cup {NoQueue}]
           /\ priority' \in [Proc -> -1..MaxPriority]
           /\ tq' \in [Proc -> Nat \cup {-1}] /\ lockpid' \in Nat
           /\ \A q \in Proc : level[q] # NoQueue => level'[q] # NoQueue
           /\ \A q \in Proc : priority[q] >= 0 => priority'[q] >= 0
<1>1. TypeOK /\ QueuesAgree(queue, level) /\ StatesInv
  BY TableInvParts
<1>2. CASE lockpid = pid[p]
  <2>1. /\ MoveToFront(p) /\ priority' = [priority EXCEPT ![p] = MaxPriority]
        /\ tq' = [tq EXCEPT ![p] = 0] /\ lockpid' = 0
    BY <1>2 DEF UnlockBy
  <2>2. level[p] # NoQueue
    BY <1>1, ConstFacts DEF StatesInv, LiveQueued, OneCpuPerProcess
  <2>3. /\ QueuesAgree(queue', level') /\ queue' \in [Level -> Seq(Proc)]
        /\ level' \in [Proc -> Level \cup {NoQueue}]
        /\ \A q \in Proc : level[q] # NoQueue => level'[q] # NoQueue
    BY <1>1, <2>1, <2>2, ConstFacts, MoveFacts
  <2>4. MaxPriority \in -1..MaxPriority /\ MaxPriority >= 0
    BY SizeAssumption
  <2>5. priority' \in [Proc -> -1..MaxPriority]
        /\ \A q \in Proc : priority[q] >= 0 => priority'[q] >= 0
    BY <1>1, <2>1, <2>4 DEF TypeOK
  <2>6. tq' \in [Proc -> Nat \cup {-1}] /\ lockpid' \in Nat
    BY <1>1, <2>1 DEF TypeOK
  <2> QED
    BY <2>3, <2>5, <2>6
<1>3. CASE lockpid # pid[p]
  BY <1>1, <1>3 DEF UnlockBy, queueVars, TypeOK
<1> QED
  BY <1>2, <1>3

(* schedulerUnlock() by the holder keeps TableInv.                         *)
LEMMA schedulerUnlockKeeps ==
    ASSUME TableInv, NEW c \in Cpu, NEW p \in Proc, schedulerUnlock(c, p)
    PROVE  TableInv'
<1>1. TypeOK
  BY TableInvParts
<1>2. /\ QueuesAgree(queue', level') /\ queue' \in [Level -> Seq(Proc)]
      /\ level' \in [Proc -> Level \cup {NoQueue}]
      /\ priority' \in [Proc -> -1..MaxPriority]
      /\ tq' \in [Proc -> Nat \cup {-1}] /\ lockpid' \in Nat
      /\ \A q \in Proc : level[q] # NoQueue => level'[q] # NoQueue
      /\ \A q \in Proc : priority[q] >= 0 => priority'[q] >= 0
  BY UnlockByFacts DEF schedulerUnlock, Calling, On
<1>3. TypeOK'
  BY <1>1, <1>2 DEF schedulerUnlock, TypeOK, tableVars, kernelVars, cpuVars
<1>4. OthersWoken({}) /\ running' = running /\ spc' = spc
  BY <1>2 DEF schedulerUnlock, OthersWoken, tableVars, kernelVars, cpuVars
<1> QED
  BY <1>2, <1>3, <1>4, MovedKeeps

(* exit() giving up the scheduler lock keeps TableInv.                     *)
LEMMA ExitUnlocksKeeps ==
    ASSUME TableInv, NEW c \in Cpu, NEW p \in Proc, ExitUnlocks(c, p)
    PROVE  TableInv'
<1>1. TypeOK
  BY TableInvParts
<1>2. /\ QueuesAgree(queue', level') /\ queue' \in [Level -> Seq(Proc)]
      /\ level' \in [Proc -> Level \cup {NoQueue}]
      /\ priority' \in [Proc -> -1..MaxPriority]
      /\ tq' \in [Proc -> Nat \cup {-1}] /\ lockpid' \in Nat
      /\ \A q \in Proc : level[q] # NoQueue => level'[q] # NoQueue
      /\ \A q \in Proc : priority[q] >= 0 => priority'[q] >= 0
  BY UnlockByFacts DEF ExitUnlocks, On
<1>3. pc' \in [Proc -> KernelPoints]
      /\ \A q \in Proc : pc'[q] = "fork" => pc[q] = "fork"
  BY <1>1 DEF ExitUnlocks, TypeOK, KernelPoints
<1>4. TypeOK'
  BY <1>1, <1>2, <1>3 DEF ExitUnlocks, TypeOK, tableVars, cpuVars
<1>5. OthersWoken({}) /\ running' = running /\ spc' = spc
  BY <1>2, <1>3 DEF ExitUnlocks, OthersWoken, tableVars, cpuVars
<1> QED
  BY <1>2, <1>4, <1>5, MovedKeeps

(* setLevel() keeps TableInv.                                              *)
LEMMA setLevelKeeps ==
    ASSUME TableInv, NEW c \in Cpu, NEW p \in Proc, setLevel(c, p)
    PROVE  TableInv'
<1>1. TypeOK /\ QueuesAgree(queue, level) /\ StatesInv
  BY TableInvParts
<1>2. PICK q \in Proc, l \in SetLevels :
        /\ l <= NQUEUE /\ state[q] # "UNUSED"
        /\ IF l < NQUEUE
           THEN MoveToBack(q, l) /\ UNCHANGED fault
           ELSE fault' = "wild" /\ UNCHANGED <<queue, level>>
  BY DEF setLevel
<1>3. /\ QueuesAgree(queue', level') /\ queue' \in [Level -> Seq(Proc)]
      /\ level' \in [Proc -> Level \cup {NoQueue}]
      /\ \A r \in Proc : level[r] # NoQueue => level'[r] # NoQueue
      /\ fault' \in Faults
  <2>1. CASE l < NQUEUE
    <3>1. l \in Level
      BY <2>1, SizeAssumption, CallAssumption DEF Level
    <3>2. level[q] # NoQueue
      BY <1>1, <1>2 DEF StatesInv, LiveQueued
    <3>3. MoveToBack(q, l) /\ UNCHANGED fault
      BY <1>2, <2>1
    <3> QED
      BY <1>1, <3>1, <3>2, <3>3, MoveFacts DEF TypeOK
  <2>2. CASE ~(l < NQUEUE)
    BY <1>1, <1>2, <2>2 DEF TypeOK, Faults
  <2> QED
    BY <2>1, <2>2
<1>4. TypeOK'
  BY <1>1, <1>3 DEF setLevel, TypeOK, tableVars, kernelVars, cpuVars
<1>5. OthersWoken({}) /\ running' = running /\ spc' = spc
  BY <1>3 DEF setLevel, OthersWoken, tableVars, kernelVars, cpuVars
<1> QED
  BY <1>3, <1>4, <1>5, MovedKeeps

----------------------------------------------------------------------------
(* fork() and wait().                                                      *)

(* allocproc(), which queues the new slot, keeps TableInv.                 *)
LEMMA allocprocKeeps ==
    ASSUME TableInv, NEW c \in Cpu, NEW p \in Proc, allocproc(c, p)
    PROVE  TableInv'
<1>1. TypeOK /\ QueuesAgree(queue, level) /\ StatesInv /\ SwitchedOut
  BY TableInvParts
<1>2. running[c] = p /\ pc[p] = "user" /\ state[p] = "RUNNING"
  BY <1>1, ConstFacts DEF allocproc, Calling, On, StatesInv, OneCpuPerProcess
<1>3. PICK q \in Proc :
        /\ FirstUnused(q)
        /\ state' = [state EXCEPT ![q] = "EMBRYO"]
        /\ pid' = [pid EXCEPT ![q] = nextpid]
        /\ nextpid' = nextpid + 1
        /\ priority' = [priority EXCEPT ![q] = MaxPriority]
        /\ tq' = [tq EXCEPT ![q] = 0]
        /\ IF level[q] # NoQueue
           THEN fault' = "pushqueue" /\ UNCHANGED <<queue, level, pc, child>>
           ELSE /\ queue' = [queue EXCEPT ![0] = Append(@, q)]
                /\ level' = [level EXCEPT ![q] = 0]
                /\ pc' = [pc EXCEPT ![p] = "fork", ![q] = "user"]
                /\ child' = [child EXCEPT ![p] = q]
                /\ UNCHANGED fault
  BY DEF allocproc
<1>4. state[q] = "UNUSED" /\ q # p
  BY <1>2, <1>3 DEF FirstUnused
<1>5. /\ QueuesAgree(queue', level') /\ level'[q] # NoQueue
      /\ queue' \in [Level -> Seq(Proc)]
      /\ level' \in [Proc -> Level \cup {NoQueue}]
      /\ \A r \in Proc \ {q} : level'[r] = level[r]
  <2>1. CASE level[q] # NoQueue
    BY <1>1, <1>3, <2>1 DEF TypeOK
  <2>2. CASE level[q] = NoQueue
    <3>1. /\ queue' = [queue EXCEPT ![0] = Append(queue[0], q)]
          /\ level' = [level EXCEPT ![q] = 0]
      BY <1>1, <1>3, <2>2, ConstFacts DEF TypeOK
    <3>2. QueuesAgree(queue', level')
      BY <1>1, <2>2, <3>1, ConstFacts, PushKeepsQueues
    <3>3. level'[q] # NoQueue /\ \A r \in Proc \ {q} : level'[r] = level[r]
      BY <1>1, <3>1, ConstFacts DEF TypeOK
    <3> QED
      BY <3>2, <3>3 DEF QueuesAgree
  <2> QED
    BY <2>1, <2>2
<1>6. \/ level[q] # NoQueue /\ UNCHANGED <<pc, child>> /\ fault' = "pushqueue"
      \/ /\ pc' = [pc EXCEPT ![p] = "fork", ![q] = "user"]
         /\ child' = [child EXCEPT ![p] = q] /\ fault' = fault
  BY <1>3
<1>7. TypeOK'
  <2>1. state' \in [Proc -> States] /\ pid' \in [Proc -> Nat] /\ nextpid' \in Nat
    <3>1. nextpid \in Nat /\ nextpid + 1 \in Nat
      BY <1>1 DEF TypeOK
    <3>2. state' \in [Proc -> States]
      BY <1>1, <1>3 DEF TypeOK, States
    <3>3. pid' \in [Proc -> Nat]
      BY <1>1, <1>3, <3>1 DEF TypeOK
    <3> QED
      BY <1>3, <3>1, <3>2, <3>3
  <2>2. MaxPriority \in -1..MaxPriority
    BY SizeAssumption
  <2>3. priority' \in [Proc -> -1..MaxPriority] /\ tq' \in [Proc -> Nat \cup {-1}]
    BY <1>1, <1>3, <2>2 DEF TypeOK
  <2>4. /\ pc' \in [Proc -> KernelPoints] /\ child' \in [Proc -> Proc \cup {NoProc}]
        /\ fault' \in Faults
    <3>1. CASE UNCHANGED <<pc, child>> /\ fault' = "pushqueue"
      BY <1>1, <3>1 DEF TypeOK, Faults
    <3>2. CASE /\ pc' = [pc EXCEPT ![p] = "fork", ![q] = "user"]
               /\ child' = [child EXCEPT ![p] = q] /\ fault' = fault
      <4>1. pc' \in [Proc -> KernelPoints]
        BY <1>1, <3>2 DEF TypeOK, KernelPoints
      <4>2. child' \in [Proc -> Proc \cup {NoProc}]
        BY <1>1, <3>2 DEF TypeOK
      <4> QED
        BY <1>1, <3>2, <4>1, <4>2 DEF TypeOK
    <3> QED
      BY <1>6, <3>1, <3>2
  <2> QED
    BY <1>1, <1>5, <2>1, <2>3, <2>4 DEF allocproc, TypeOK, cpuVars
<1>8. \A r \in Proc : state'[r] = IF r = q THEN "EMBRYO" ELSE state[r]
  BY <1>1, <1>3 DEF TypeOK
<1>9. LiveQueued'
  <2>1. \A r \in Proc \ {q} : priority'[r] = priority[r]
    BY <1>1, <1>3 DEF TypeOK
  <2>2. priority'[q] >= 0
    BY <1>1, <1>3, SizeAssumption DEF TypeOK
  <2> QED
    BY <1>1, <1>5, <1>8, <2>1, <2>2 DEF StatesInv, LiveQueued
<1>10. OneCpuPerProcess'
  <2>1. running' = running
    BY DEF allocproc, cpuVars
  <2>2. \A r \in Proc : state'[r] = "RUNNING" <=> state[r] = "RUNNING"
    BY <1>4, <1>8
  <2> QED
    <3>1. running \in [Cpu -> Proc \cup {NoProc}]
      BY <1>1 DEF TypeOK
    <3> QED
      BY <1>1, <2>1, <2>2, <3>1 DEF StatesInv, OneCpuPerProcess
<1>11. ForkChild'
  <2>1. ASSUME NEW r \in Proc, pc'[r] = "fork"
        PROVE  \/ r = p /\ child'[r] = q
               \/ pc[r] = "fork" /\ child'[r] = child[r]
    BY <1>1, <1>6, <2>1 DEF TypeOK
  <2>2. ASSUME NEW r \in Proc, pc[r] = "fork"
        PROVE  /\ state[r] \in {"RUNNABLE", "RUNNING"} /\ r # p
               /\ child[r] \in Proc /\ state[child[r]] = "EMBRYO" /\ child[r] # q
    BY <1>1, <1>2, <1>4, <2>2 DEF StatesInv, ForkChild
  <2>3. ASSUME NEW r \in Proc, pc'[r] = "fork"
        PROVE  /\ state'[r] \in {"RUNNABLE", "RUNNING"}
               /\ child'[r] \in Proc /\ state'[child'[r]] = "EMBRYO"
    BY <1>2, <1>4, <1>8, <2>1, <2>2, <2>3
  <2>4. ASSUME NEW r \in Proc, NEW t \in Proc, pc'[r] = "fork", pc'[t] = "fork",
               child'[r] = child'[t]
        PROVE  r = t
    BY <1>1, <2>1, <2>2, <2>4 DEF StatesInv, ForkChild
  <2> QED
    BY <2>3, <2>4 DEF ForkChild
<1>12. SwitchedOut'
  BY <1>1 DEF allocproc, cpuVars, SwitchedOut
<1> QED
  BY <1>5, <1>7, <1>9, <1>10, <1>11, <1>12, TableInvParts DEF StatesInv

(* The end of fork(), which makes the child RUNNABLE, keeps TableInv.      *)
LEMMA ForkDoneKeeps ==
    ASSUME TableInv, NEW c \in Cpu, NEW p \in Proc, ForkDone(c, p) \/ ForkFail(c, p)
    PROVE  TableInv'
<1>1. TypeOK /\ QueuesAgree(queue, level) /\ StatesInv /\ SwitchedOut
  BY TableInvParts
<1> DEFINE q == child[p]
<1>2. pc[p] = "fork" /\ q \in Proc /\ state[q] = "EMBRYO"
  BY <1>1 DEF ForkDone, ForkFail, StatesInv, ForkChild
<1>3. PICK new \in {"RUNNABLE", "UNUSED"} : state' = [state EXCEPT ![q] = new]
  BY DEF ForkDone, ForkFail
<1>4. PICK next \in {"user", "exit"} : pc' = [pc EXCEPT ![p] = next]
  BY DEF ForkDone, ForkFail
<1>5. /\ child' = [child EXCEPT ![p] = NoProc]
      /\ parent' \in [Proc -> Proc \cup {NoProc}]
      /\ UNCHANGED <<queueVars, cpuVars, pid, chan, killed, ticks0, nap, lockpid,
                     nextpid, ticks, ptlock, lockCalls, fault>>
  <2>1. CASE ForkDone(c, p)
    <3>1. parent' = [parent EXCEPT ![q] = p]
      BY <2>1 DEF ForkDone
    <3>2. parent' \in [Proc -> Proc \cup {NoProc}]
      BY <1>1, <1>2, <3>1 DEF TypeOK
    <3> QED
      BY <2>1, <3>2 DEF ForkDone
  <2>2. CASE ForkFail(c, p)
    <3>1. parent' = parent
      BY <2>2 DEF ForkFail
    <3> QED
      BY <1>1, <2>2, <3>1 DEF ForkFail, TypeOK
  <2> QED
    BY <2>1, <2>2
<1> HIDE DEF q
<1>6. TypeOK'
  BY <1>1, <1>2, <1>3, <1>4, <1>5 DEF TypeOK, States, KernelPoints, queueVars, cpuVars
<1>7. StatesInv'
  <2>1. StateTypes /\ StateTypes'
    BY <1>1, <1>6 DEF TypeOK, StateTypes
  <2>2. /\ pc'[p] # "fork"
        /\ \A r \in Proc \ {p} : pc'[r] = pc[r] /\ child'[r] = child[r]
    BY <1>1, <1>4, <1>5 DEF TypeOK
  <2>3. UNCHANGED <<level, priority, running>>
    BY <1>5 DEF queueVars, cpuVars
  <2>4. pc[p] = "fork" /\ child[p] = q
    BY <1>2 DEF q
  <2> QED
    BY <1>1, <1>2, <1>3, <2>1, <2>2, <2>3, <2>4, SlotStep
<1>8. SwitchedOut' /\ QueuesAgree(queue', level')
  BY <1>1, <1>5 DEF SwitchedOut, queueVars, cpuVars
<1> QED
  BY <1>6, <1>7, <1>8, TableInvParts

(* wait() freeing a ZOMBIE and erasing it from its queue keeps TableInv.   *)
LEMMA ReapKeeps ==
    ASSUME TableInv, NEW c \in Cpu, NEW p \in Proc, NEW q \in Proc, Reap(c, p, q),
           UNCHANGED <<child, ticks0, nap, lockpid, nextpid, ticks, lockCalls, fault>>
    PROVE  TableInv'
<1>1. TypeOK /\ QueuesAgree(queue, level) /\ StatesInv /\ SwitchedOut
  BY TableInvParts
<1>2. state[q] = "ZOMBIE"
  BY DEF Reap, FirstZombieChild
<1>3. level[q] # NoQueue
  BY <1>1, <1>2 DEF StatesInv, LiveQueued
<1>4. QueuesAgree(queue', level')
  <2>1. queue' = [queue EXCEPT ![level[q]] = Erase(queue[level[q]], q)]
        /\ level' = [level EXCEPT ![q] = NoQueue]
    BY <1>1, <1>3 DEF Reap, LeaveQueue, TypeOK
  <2> QED
    BY <1>1, <1>3, <2>1, EraseKeepsQueues
<1>5. queue' \in [Level -> Seq(Proc)] /\ level' \in [Proc -> Level \cup {NoQueue}]
  BY <1>4 DEF QueuesAgree
<1>6. TypeOK'
  <2>1. -1 \in -1..MaxPriority
    BY SizeAssumption
  <2>2. priority' \in [Proc -> -1..MaxPriority] /\ tq' \in [Proc -> Nat \cup {-1}]
    BY <1>1, <2>1 DEF Reap, TypeOK
  <2>3. pid' \in [Proc -> Nat] /\ parent' \in [Proc -> Proc \cup {NoProc}]
        /\ state' \in [Proc -> States]
    BY <1>1 DEF Reap, TypeOK, States
  <2>4. killed' \in [Proc -> BOOLEAN]
    BY <1>1 DEF Reap, TypeOK
  <2>5. pc' \in [Proc -> KernelPoints] /\ ptlock' \in Cpu \cup {NoCpu}
    BY <1>1 DEF Reap, TypeOK, KernelPoints
  <2> QED
    BY <1>1, <1>5, <2>2, <2>3, <2>4, <2>5 DEF Reap, TypeOK, cpuVars
<1>7. StatesInv'
  <2>1. StateTypes /\ StateTypes'
    BY <1>1, <1>6 DEF TypeOK, StateTypes
  <2>2. /\ pc'[p] # "fork"
        /\ \A r \in Proc \ {p} : pc'[r] = pc[r] /\ child'[r] = child[r]
        /\ \A r \in Proc \ {q} : level'[r] = level[r] /\ priority'[r] = priority[r]
        /\ state' = [state EXCEPT ![q] = "UNUSED"] /\ running' = running
    BY <1>1 DEF Reap, LeaveQueue, TypeOK, cpuVars
  <2> QED
    BY <1>1, <1>2, <2>1, <2>2, SlotStep
<1>8. SwitchedOut'
  BY <1>1 DEF Reap, SwitchedOut, cpuVars
<1> QED
  BY <1>4, <1>6, <1>7, <1>8, TableInvParts

(* wait(), in each of its three outcomes, keeps TableInv.                  *)
LEMMA waitKeeps ==
    ASSUME TableInv, NEW c \in Cpu, NEW p \in Proc, wait(c, p)
    PROVE  TableInv'
<1>1. TypeOK
  BY TableInvParts
<1>2. running[c] = p /\ pc[p] # "fork"
  BY DEF wait, Calling, On
<1>3. UNCHANGED <<child, ticks0, nap, lockpid, nextpid, ticks, lockCalls, fault>>
  BY DEF wait
<1>4. CASE \E q \in Proc : Reap(c, p, q)
  BY <1>3, <1>4, ReapKeeps
<1>5. CASE WaitFails(p)
  <2>1. TypeOK'
    BY <1>1, <1>3, <1>5 DEF WaitFails, TypeOK, KernelPoints, tableVars, queueVars, cpuVars
  <2>2. /\ UNCHANGED <<queue, level, running>> /\ OthersWoken({}) /\ spc' = spc
    BY <1>1, <1>3, <1>5 DEF WaitFails, OthersWoken, TypeOK, tableVars, queueVars, cpuVars
  <2> QED
    BY <2>1, <2>2, QuietKeeps
<1>6. CASE WaitSleeps(c, p)
  <2>1. TypeOK'
    BY <1>1, <1>3, <1>6, ConstFacts DEF WaitSleeps, BackToScheduler, TypeOK, States,
       SchedulerPoints, KernelPoints, queueVars
  <2>2. /\ BackToScheduler(c) /\ UNCHANGED <<queue, level, priority, child>>
        /\ OthersWoken({p}) /\ state'[p] = "SLEEPING" /\ pc'[p] # "fork"
    BY <1>1, <1>3, <1>6 DEF WaitSleeps, OthersWoken, queueVars, TypeOK
  <2> QED
    BY <1>2, <2>1, <2>2, LeaveKeeps
<1> QED
  BY <1>4, <1>5, <1>6 DEF wait

----------------------------------------------------------------------------
(* userinit() establishes TableInv.                                        *)
LEMMA InitTable == Init => TableInv
<1> SUFFICES ASSUME Init PROVE TableInv
  OBVIOUS
<1>1. InitProc \in Proc /\ NoProc \notin Proc /\ 0 \in Level /\ NoQueue \notin Level
      /\ 1 \in Proc
  BY ConstFacts DEF InitProc
<1>2. queue \in [Level -> Seq(Proc)]
  BY <1>1 DEF Init
<1>3. priority \in [Proc -> -1..MaxPriority]
      /\ \A p \in Proc : state[p] # "UNUSED" => priority[p] >= 0
  BY SizeAssumption DEF Init
<1>4. TypeOK
  BY <1>1, <1>2, <1>3 DEF Init, Faults, TypeOK, States, KernelPoints, SchedulerPoints
<1>5. QueuesExact
  <2>1. ASSUME NEW l \in Level PROVE IsInjective(queue[l])
    BY DEF Init, IsInjective
  <2>2. ASSUME NEW l \in Level, NEW p \in Proc
        PROVE  p \in Range(queue[l]) <=> level[p] = l
    <3>1. Range(<<InitProc>>) = {InitProc} /\ Range(<<>>) = {}
      BY DEF Range
    <3> QED
      BY <1>1, <3>1 DEF Init
  <2> QED
    BY <1>1, <2>1, <2>2 DEF Init, QueuesExact
<1>6. OneCpuPerProcess /\ ForkChild /\ SwitchedOut
  BY DEF Init, OneCpuPerProcess, ForkChild, SwitchedOut
<1> QED
  BY <1>3, <1>4, <1>5, <1>6 DEF TableInv

(* Every step keeps TableInv: one case per action.                         *)
LEMMA NextTable == TableInv /\ [Next]_vars => TableInv'
<1> SUFFICES ASSUME TableInv, [Next]_vars PROVE TableInv'
  OBVIOUS
<1>1. CASE UNCHANGED vars
  BY <1>1 DEF vars, TableInv, TypeOK, QueuesExact, OneCpuPerProcess, ForkChild,
     SwitchedOut, tableVars, queueVars, kernelVars, cpuVars
<1>2. ASSUME NEW c \in Cpu, SchedulerStep(c) PROVE TableInv'
  BY <1>2, ExpireTimeQuantumKeeps, DispatchKeeps, GiveUpLockKeeps,
     SchedulerSideUnlockKeeps, NothingToRunKeeps, ReadTicksKeeps,
     BoostResetTicksKeeps, BoostTakeLockKeeps, BoostStepKeeps DEF SchedulerStep
<1>3. ASSUME NEW c \in Cpu, Timer(c) PROVE TableInv'
  BY <1>3, TimerKeeps
<1>4. ASSUME NEW c \in Cpu, NEW p \in Proc, TimerReturn(c, p) \/ KernelStep(c, p)
      PROVE  TableInv'
  BY <1>4, TimerReturnKeeps, KilledExitKeeps, ForkDoneKeeps, InitExitingKeeps,
     ExitHoldsLockKeeps, ExitUnlocksKeeps, ExitFinishKeeps, SleepOnTicksKeeps,
     SleepTestKeeps, LockResetsTicksKeeps, waitKeeps DEF KernelStep
<1>5. ASSUME NEW c \in Cpu, NEW p \in Proc, UserStep(c, p) PROVE TableInv'
  BY <1>5, sys_yieldKeeps, allocprocKeeps, ForkDoneKeeps, sys_exitKeeps, ForkNoSlotKeeps, waitKeeps,
     killKeeps, sys_sleepKeeps, LockRefusedKeeps, schedulerLockKeeps,
     schedulerUnlockKeeps, setPriorityKeeps, setLevelKeeps DEF UserStep
<1> QED
  BY <1>1, <1>2, <1>3, <1>4, <1>5 DEF Next

(* The process table, the queues and the CPUs agree in every reachable     *)
(* state, for any number of slots, CPUs, queues and calls, fork failures   *)
(* included.                                                               *)
THEOREM TableCorrect == Spec => []TableInv
BY InitTable, NextTable, PTL DEF Spec

(* Every variable keeps its type.                                          *)
THEOREM TypeCorrect == Spec => []TypeOK
<1>1. TableInv => TypeOK
  BY DEF TableInv
<1> QED
  BY <1>1, TableCorrect, PTL

(* erasequeue finds the process it is asked to erase, nobody is queued     *)
(* twice, and every process in the table is in a queue: none of the panics *)
(* of erasequeue can happen.                                               *)
THEOREM QueuesCorrect == Spec => []QueuesExact
<1>1. TableInv => QueuesExact
  BY DEF TableInv
<1> QED
  BY <1>1, TableCorrect, PTL

(* No two CPUs run one process, and a RUNNING process is on a CPU.         *)
THEOREM CpusCorrect == Spec => []OneCpuPerProcess
<1>1. TableInv => OneCpuPerProcess
  BY DEF TableInv
<1> QED
  BY <1>1, TableCorrect, PTL

----------------------------------------------------------------------------
(* Time quanta.                                                            *)

(* What the proofs below use of the types.                                 *)
QueueTypes ==
    /\ tq \in [Proc -> Nat \cup {-1}] /\ level \in [Proc -> Level \cup {NoQueue}]

(* A quantum is a number of ticks.                                         *)
LEMMA QuantumFacts == \A l \in Level : getTimeQuantum(l) \in Nat \ {0}
<1> SUFFICES ASSUME NEW l \in Level PROVE getTimeQuantum(l) \in Nat \ {0}
  OBVIOUS
<1>1. l \in Nat /\ QuantumStep \in Nat /\ QuantumBase \in Nat \ {0}
  BY QuantumAssumption, SizeAssumption DEF Level
<1>2. QuantumStep * l \in Nat
  BY <1>1
<1> QED
  BY <1>1, <1>2 DEF getTimeQuantum

(* A step that leaves every process in its queue with its ticks, or        *)
(* starts it afresh, or takes it out of the queues.                        *)
LEMMA TicksKept ==
    ASSUME QueueTypes, QueueTypes', TqWithinQuantum,
           \A p \in Proc : \/ tq'[p] = tq[p] /\ level'[p] = level[p]
                           \/ tq'[p] = 0
                           \/ level'[p] = NoQueue
    PROVE  TqWithinQuantum'
<1> SUFFICES ASSUME NEW p \in Proc, level'[p] # NoQueue
             PROVE  tq'[p] <= getTimeQuantum(level'[p])
  BY DEF TqWithinQuantum, getTimeQuantum
<1>1. level'[p] \in Level
  BY DEF QueueTypes
<1>2. getTimeQuantum(level'[p]) \in Nat \ {0}
  BY <1>1, QuantumFacts
<1>3. CASE tq'[p] = 0
  BY <1>2, <1>3
<1>4. CASE tq'[p] = tq[p] /\ level'[p] = level[p]
  BY <1>4 DEF TqWithinQuantum
<1> QED
  BY <1>3, <1>4

(* Without setLevel every step keeps tq within the quantum: an action either *)
(* leaves tq and level of a process alone, or resets tq, or is the dispatch  *)
(* that has just found tq below the quantum.                                 *)
LEMMA QuantumStepKept ==
    ASSUME "setLevel" \notin Calls, TableInv, TableInv', TqWithinQuantum, [Next]_vars
    PROVE  TqWithinQuantum'
<1>1. QueueTypes /\ QueueTypes'
  BY DEF QueueTypes, TableInv, TypeOK
<1> DEFINE Kept == \A p \in Proc : \/ tq'[p] = tq[p] /\ level'[p] = level[p]
                                  \/ tq'[p] = 0
                                  \/ level'[p] = NoQueue
<1>2. CASE UNCHANGED queueVars
  BY <1>1, <1>2, TicksKept DEF queueVars
<1>3. ASSUME NEW c \in Cpu, NEW p \in Proc, ExpireTimeQuantum(c, p) PROVE Kept
  BY <1>1, <1>3 DEF ExpireTimeQuantum, MoveToBack, QueueTypes
<1>4. ASSUME NEW c \in Cpu, NEW p \in Proc, Dispatch(c, p) PROVE TqWithinQuantum'
  <2>1. level[p] \in Level
    <3>1. state[p] = "RUNNABLE"
      BY <1>4, ChosenRunnable DEF Dispatch
    <3> QED
      BY <1>1, <3>1 DEF TableInv, QueuesExact, QueueTypes
  <2>2. tq[p] <= getTimeQuantum(level[p]) /\ tq[p] # getTimeQuantum(level[p])
    BY <1>4, <2>1, ConstFacts DEF Dispatch, TqWithinQuantum
  <2>3. tq[p] + 1 <= getTimeQuantum(level[p])
    <3>1. tq[p] \in Int /\ getTimeQuantum(level[p]) \in Int
      BY <1>1, <2>1, QuantumFacts DEF QueueTypes
    <3> QED
      BY <2>2, <3>1
  <2>4. /\ \A q \in Proc : tq'[q] = IF q = p THEN tq[p] + 1 ELSE tq[q]
        /\ \A q \in Proc : level'[q] = level[q]
    BY <1>1, <1>4 DEF Dispatch, MoveToBack, QueueTypes
  <2> QED
    BY <2>3, <2>4 DEF TqWithinQuantum, getTimeQuantum
<1>5. ASSUME NEW c \in Cpu, BoostStep(c) PROVE Kept
  <2>1. bptr[c] \in Proc
    BY DEF TableInv, TypeOK
  <2> QED
    BY <1>1, <1>5, <2>1 DEF BoostStep, clearProc, MoveToBack, QueueTypes, queueVars
<1>6. ASSUME NEW p \in Proc, UnlockBy(p) PROVE Kept
  BY <1>1, <1>6 DEF UnlockBy, MoveToFront, QueueTypes, queueVars
<1>7. ASSUME NEW c \in Cpu, NEW p \in Proc, allocproc(c, p) PROVE Kept
  BY <1>1, <1>7 DEF allocproc, QueueTypes
<1>8. ASSUME NEW c \in Cpu, NEW p \in Proc, NEW q \in Proc, Reap(c, p, q) PROVE Kept
  BY <1>1, <1>8 DEF Reap, LeaveQueue, QueueTypes
<1>9. ASSUME NEW c \in Cpu, NEW p \in Proc, wait(c, p)
      PROVE  Kept \/ UNCHANGED queueVars
  <2>1. CASE \E q \in Proc : Reap(c, p, q)
    BY <1>8, <2>1
  <2>2. CASE WaitFails(p) \/ WaitSleeps(c, p)
    BY <2>2 DEF WaitFails, WaitSleeps
  <2> QED
    BY <1>9, <2>1, <2>2 DEF wait
<1>10. ASSUME NEW c \in Cpu, NEW p \in Proc, setPriority(c, p) PROVE Kept
  BY <1>10 DEF setPriority
<1>11. ASSUME NEW c \in Cpu, NEW p \in Proc PROVE ~setLevel(c, p)
  BY DEF setLevel, Calling
<1>12. ASSUME NEW c \in Cpu, SchedulerStep(c) \/ Timer(c) PROVE TqWithinQuantum'
  <2>1. CASE GiveUpLock(c) \/ SchedulerSideUnlock(c) \/ NothingToRun(c) \/ ReadTicks(c)
             \/ BoostResetTicks(c) \/ BoostTakeLock(c) \/ Timer(c)
    BY <1>2, <2>1 DEF GiveUpLock, SchedulerSideUnlock, NothingToRun, ReadTicks,
       BoostResetTicks, BoostTakeLock, Timer
  <2> QED
    BY <1>1, <1>3, <1>4, <1>5, <1>12, <2>1, TicksKept DEF SchedulerStep
<1>13. ASSUME NEW c \in Cpu, NEW p \in Proc,
              TimerReturn(c, p) \/ KernelStep(c, p) \/ UserStep(c, p)
       PROVE  TqWithinQuantum'
  <2>1. CASE \/ TimerReturn(c, p) \/ KilledExit(c, p) \/ ForkDone(c, p) \/ ForkFail(c, p)
             \/ InitExiting(c, p) \/ ExitHoldsLock(c, p) \/ ExitFinish(c, p)
             \/ SleepOnTicks(c, p) \/ SleepTest(c, p) \/ LockResetsTicks(c, p)
             \/ sys_yield(c, p) \/ sys_exit(c, p) \/ ForkNoSlot(c, p) \/ kill(c, p) \/ sys_sleep(c, p)
             \/ LockRefused(c, p) \/ schedulerLock(c, p)
    BY <1>2, <2>1 DEF TimerReturn, KilledExit, ForkDone, ForkFail, InitExiting,
       ExitHoldsLock, ExitFinish, SleepOnTicks, SleepTest, LockResetsTicks, sys_yield,
       sys_exit, ForkNoSlot, kill, sys_sleep, LockRefused, schedulerLock
  <2>2. CASE schedulerUnlock(c, p) \/ ExitUnlocks(c, p)
    BY <1>1, <1>6, <2>2, TicksKept DEF schedulerUnlock, ExitUnlocks
  <2>3. CASE wait(c, p)
    BY <1>1, <1>2, <1>9, <2>3, TicksKept
  <2>4. CASE allocproc(c, p) \/ setPriority(c, p)
    BY <1>1, <1>7, <1>10, <2>4, TicksKept
  <2> QED
    BY <1>11, <1>13, <2>1, <2>2, <2>3, <2>4 DEF KernelStep, UserStep
<1> QED
  BY <1>2, <1>12, <1>13 DEF Next, vars

(* Unless processes move themselves with setLevel, no process ever uses    *)
(* more ticks than the quantum of its queue, so the equality test of       *)
(* scheduler() misses no expired quantum.  (With setLevel it does: see the *)
(* README.)                                                                *)
THEOREM QuantaCorrect ==
    ASSUME "setLevel" \notin Calls
    PROVE  Spec => []TqWithinQuantum
<1>1. Init => TqWithinQuantum
  <2> SUFFICES ASSUME Init, NEW p \in Proc, level[p] # NoQueue
               PROVE  tq[p] <= getTimeQuantum(level[p])
    BY DEF TqWithinQuantum
  <2>1. tq[p] = 0 /\ level[p] = 0 /\ 0 \in Level
    BY ConstFacts DEF Init
  <2> QED
    BY <2>1, QuantumFacts
<1>2. TableInv /\ TableInv' /\ TqWithinQuantum /\ [Next]_vars => TqWithinQuantum'
  BY QuantumStepKept
<1> QED
  BY <1>1, <1>2, TableCorrect, PTL DEF Spec

-----------------------------------------------------------------------------
(* The scheduler lock, exit() and wait(), resting on the invariant of the  *)
(* process table.                                                          *)

Live == {"SLEEPING", "RUNNABLE", "RUNNING"}

(* The holder is alive and has not passed the unlock of exit().            *)
HolderNotExiting ==
    lockpid # 0 =>
      \E p \in Proc : pid[p] = lockpid /\ pc[p] # "exit2" /\ state[p] \in Live

(* With one CPU, a scheduler that has just given a lock up cannot find it  *)
(* taken again before it dispatches: only a running process takes it.      *)
NoLockBehind == \A c \in Cpu : spc[c] = "repick" => lockpid = 0

(* What the proofs below use of the types.                                 *)
ProcTypes ==
    /\ state \in [Proc -> States] /\ pid \in [Proc -> Nat]
    /\ parent \in [Proc -> Proc \cup {NoProc}]
    /\ chan \in [Proc -> Proc \cup {NoChan, TicksChan}]
    /\ pc \in [Proc -> KernelPoints]
    /\ running \in [Cpu -> Proc \cup {NoProc}]
    /\ spc \in [Cpu -> SchedulerPoints]

(* A step that neither kills the holder nor lets it pass the unlock of     *)
(* exit(), and takes no lock.                                              *)
HolderStays ==
    \/ lockpid' = 0
    \/ /\ lockpid' = lockpid
       /\ \A w \in Proc : state[w] \in Live /\ pc[w] # "exit2" /\ pid[w] = lockpid =>
            state'[w] \in Live /\ pc'[w] # "exit2" /\ pid'[w] = pid[w]

(* A step that leaves the holder of the scheduler lock where it is keeps   *)
(* HolderNotExiting.                                                       *)
LEMMA HolderStaysKeeps ==
    ASSUME HolderNotExiting, HolderStays
    PROVE  HolderNotExiting'
BY DEF HolderNotExiting, HolderStays

(* What the lock proofs use of TableInv.                                   *)
LEMMA TableFacts ==
    ASSUME TableInv
    PROVE  /\ ProcTypes /\ OneCpuPerProcess /\ SwitchedOut /\ ForkChild
           /\ NoProc \notin Proc
BY ConstFacts DEF TableInv, TypeOK, ProcTypes

(* The scheduler, the timer and boostPriority leave the holder alive.      *)
LEMMA SchedulerHolder ==
    ASSUME TableInv, NEW c \in Cpu, SchedulerStep(c) \/ Timer(c)
    PROVE  HolderStays
<1>1. ProcTypes
  BY TableFacts
<1>2. ASSUME NEW p \in Proc, ExpireTimeQuantum(c, p) PROVE HolderStays
  BY <1>2 DEF ExpireTimeQuantum, HolderStays, tableVars, kernelVars
<1>3. ASSUME NEW p \in Proc, Dispatch(c, p) PROVE HolderStays
  BY <1>1, <1>3 DEF Dispatch, HolderStays, kernelVars, ProcTypes, Live
<1>4. CASE GiveUpLock(c) \/ NothingToRun(c) \/ ReadTicks(c) \/ BoostResetTicks(c)
           \/ BoostTakeLock(c) \/ BoostStep(c) \/ SchedulerSideUnlock(c)
  BY <1>4 DEF GiveUpLock, NothingToRun, ReadTicks, BoostResetTicks, BoostTakeLock,
     BoostStep, SchedulerSideUnlock, HolderStays, tableVars, kernelVars
<1>5. CASE Timer(c)
  BY <1>1, <1>5 DEF Timer, HolderStays, kernelVars, ProcTypes, Live, Woken
<1> QED
  BY <1>2, <1>3, <1>4, <1>5 DEF SchedulerStep

(* Of a process's own steps only schedulerLock takes the lock, and exit()  *)
(* is past the unlock before the holder can become a ZOMBIE.               *)
LEMMA ProcessHolder ==
    ASSUME TableInv, NEW c \in Cpu, NEW p \in Proc,
           TimerReturn(c, p) \/ KernelStep(c, p) \/ UserStep(c, p),
           ~schedulerLock(c, p)
    PROVE  HolderStays
<1>1. ProcTypes /\ ForkChild
  BY TableFacts
<1>2. CASE TimerReturn(c, p)
  BY <1>1, <1>2 DEF TimerReturn, BackToScheduler, HolderStays, ProcTypes, Live
<1>3. CASE KilledExit(c, p) \/ sys_exit(c, p) \/ ForkNoSlot(c, p) \/ ExitHoldsLock(c, p) \/ SleepTest(c, p)
           \/ LockResetsTicks(c, p) \/ InitExiting(c, p) \/ sys_sleep(c, p)
           \/ setPriority(c, p) \/ setLevel(c, p) \/ LockRefused(c, p)
  BY <1>1, <1>3 DEF KilledExit, sys_exit, ForkNoSlot, ExitHoldsLock, SleepTest, LockResetsTicks,
     InitExiting, sys_sleep, setPriority, setLevel, LockRefused, HolderStays,
     ProcTypes, tableVars, kernelVars
<1>4. CASE ForkDone(c, p) \/ ForkFail(c, p)
  <2>1. child[p] \in Proc /\ state[child[p]] = "EMBRYO"
    BY <1>1, <1>4 DEF ForkDone, ForkFail, ForkChild
  <2>2. PICK new \in {"RUNNABLE", "UNUSED"} : state' = [state EXCEPT ![child[p]] = new]
    BY <1>4 DEF ForkDone, ForkFail
  <2>3. PICK next \in {"user", "exit"} : pc' = [pc EXCEPT ![p] = next]
    BY <1>4 DEF ForkDone, ForkFail
  <2>4. pid' = pid /\ lockpid' = lockpid
    BY <1>4 DEF ForkDone, ForkFail
  <2> QED
    BY <1>1, <2>1, <2>2, <2>3, <2>4 DEF HolderStays, ProcTypes, Live
<1>5. CASE schedulerUnlock(c, p) \/ ExitUnlocks(c, p)
  BY <1>1, <1>5 DEF schedulerUnlock, ExitUnlocks, UnlockBy, HolderStays, ProcTypes,
     tableVars, kernelVars
<1>6. CASE ExitFinish(c, p)
  BY <1>1, <1>6 DEF ExitFinish, HoldsLock, HolderStays, ProcTypes, Live
<1>7. CASE SleepOnTicks(c, p) \/ sys_yield(c, p)
  BY <1>1, <1>7 DEF SleepOnTicks, sys_yield, HolderStays, ProcTypes, Live, kernelVars
<1>8. CASE wait(c, p)
  <2>1. lockpid' = lockpid
    BY <1>8 DEF wait
  <2>2. ASSUME NEW q \in Proc, Reap(c, p, q) PROVE HolderStays
    BY <1>1, <2>1, <2>2 DEF Reap, FirstZombieChild, HolderStays, ProcTypes, Live
  <2>3. CASE WaitFails(p) \/ WaitSleeps(c, p)
    BY <1>1, <2>1, <2>3 DEF WaitFails, WaitSleeps, HolderStays, ProcTypes, Live, tableVars
  <2> QED
    BY <1>8, <2>2, <2>3 DEF wait
<1>9. CASE kill(c, p)
  BY <1>1, <1>9 DEF kill, HolderStays, ProcTypes, Live, kernelVars
<1>10. CASE allocproc(c, p)
  <2>1. PICK q \in Proc : /\ FirstUnused(q)
                          /\ state' = [state EXCEPT ![q] = "EMBRYO"]
                          /\ pid' = [pid EXCEPT ![q] = nextpid]
                          /\ \/ pc' = pc
                             \/ pc' = [pc EXCEPT ![p] = "fork", ![q] = "user"]
    BY <1>10 DEF allocproc
  <2>2. lockpid' = lockpid /\ state[q] = "UNUSED"
    BY <1>10, <2>1 DEF allocproc, FirstUnused
  <2> QED
    BY <1>1, <2>1, <2>2 DEF HolderStays, ProcTypes, Live
<1> QED
  BY <1>2, <1>3, <1>4, <1>5, <1>6, <1>7, <1>8, <1>9, <1>10 DEF KernelStep, UserStep

(* Every step keeps HolderNotExiting: one case per action.                 *)
LEMMA LockHolder ==
    ASSUME TableInv, HolderNotExiting, [Next]_vars
    PROVE  HolderNotExiting'
<1>1. CASE UNCHANGED vars
  BY <1>1 DEF vars, HolderNotExiting, tableVars, kernelVars
<1>2. ASSUME NEW c \in Cpu, SchedulerStep(c) \/ Timer(c) PROVE HolderNotExiting'
  BY <1>2, SchedulerHolder, HolderStaysKeeps
<1>3. ASSUME NEW c \in Cpu, NEW p \in Proc, schedulerLock(c, p)
      PROVE  HolderNotExiting'
  <2>1. ProcTypes /\ state[p] = "RUNNING"
    BY <1>3, TableFacts DEF schedulerLock, Calling, On, OneCpuPerProcess
  <2>2. pc'[p] # "exit2" /\ lockpid' = pid'[p] /\ state'[p] = "RUNNING"
    BY <1>3, <2>1 DEF schedulerLock, tableVars, ProcTypes
  <2> QED
    BY <2>2 DEF HolderNotExiting, Live
<1>4. ASSUME NEW c \in Cpu, NEW p \in Proc,
             TimerReturn(c, p) \/ KernelStep(c, p) \/ UserStep(c, p)
      PROVE  HolderNotExiting'
  BY <1>3, <1>4, ProcessHolder, HolderStaysKeeps
<1> QED
  BY <1>1, <1>2, <1>4 DEF Next

(* Whoever locks the scheduler can still unlock it: getProcessToRun finds  *)
(* a process under lockpid, and no lock outlives its holder, on any number *)
(* of CPUs.                                                                *)
THEOREM LockHolderCorrect == Spec => []LockHolderLive
<1>1. Init => HolderNotExiting
  BY DEF Init, HolderNotExiting
<1>2. TableInv /\ HolderNotExiting /\ [Next]_vars => HolderNotExiting'
  BY LockHolder
<1>3. HolderNotExiting => LockHolderLive
  BY DEF HolderNotExiting, LockHolderLive, Live
<1> QED
  BY <1>1, <1>2, <1>3, TableCorrect, PTL DEF Spec

----------------------------------------------------------------------------
(* Exclusion on one CPU.                                                   *)

LockExcludes == SchedulerLockExclusive /\ NoLockBehind

(* A step that takes no lock and gives no CPU to a process.                *)
LEMMA NobodyEnters ==
    ASSUME LockExcludes, lockpid' \in {lockpid, 0},
           \A c \in Cpu : running'[c] # NoProc =>
             running'[c] = running[c] /\ pid'[running[c]] = pid[running[c]],
           \A c \in Cpu : spc'[c] = "repick" => spc[c] = "repick" \/ lockpid' = 0
    PROVE  LockExcludes'
BY DEF LockExcludes, SchedulerLockExclusive, NoLockBehind

(* On one CPU every step keeps LockExcludes: one case per action.          *)
LEMMA LockExclusion ==
    ASSUME NCPU = 1, TableInv, LockExcludes, [Next]_vars
    PROVE  LockExcludes'
<1>1. Cpu = {0}
  BY DEF Cpu
<1>2. /\ ProcTypes /\ OneCpuPerProcess /\ SwitchedOut /\ ForkChild
      /\ NoProc \notin Proc
  BY TableFacts
<1>3. CASE UNCHANGED vars
  BY <1>3 DEF vars, LockExcludes, SchedulerLockExclusive, NoLockBehind, tableVars, cpuVars
<1>4. ASSUME NEW c \in Cpu, NEW p \in Proc, Dispatch(c, p)
      PROVE  LockExcludes'
  <2>1. lockpid # 0 => pid[p] = lockpid
    BY <1>4 DEF Dispatch, getProcessToRun, LockExcludes, NoLockBehind, IsGetProc
  <2>2. running' = [running EXCEPT ![c] = p] /\ spc' = [spc EXCEPT ![c] = "run"]
        /\ pid' = pid /\ lockpid' = lockpid
    BY <1>4 DEF Dispatch
  <2> QED
    BY <1>1, <1>2, <2>1, <2>2 DEF LockExcludes, SchedulerLockExclusive, NoLockBehind,
       ProcTypes
<1>5. ASSUME NEW c \in Cpu, SchedulerStep(c) \/ Timer(c),
             ~ \E p \in Proc : Dispatch(c, p)
      PROVE  LockExcludes'
  <2>1. lockpid' \in {lockpid, 0} /\ pid' = pid /\ running' = running
        /\ \A d \in Cpu : spc'[d] = "repick" => spc[d] = "repick" \/ lockpid' = 0
    BY <1>2, <1>5 DEF SchedulerStep, ExpireTimeQuantum, GiveUpLock, SchedulerSideUnlock,
       NothingToRun, ReadTicks, BoostResetTicks, BoostTakeLock, BoostStep, Timer,
       tableVars, ProcTypes
  <2> QED
    BY <2>1, NobodyEnters
<1>6. ASSUME NEW c \in Cpu, NEW p \in Proc, schedulerLock(c, p)
      PROVE  LockExcludes'
  <2>1. running[c] = p /\ spc[c] = "run"
    BY <1>2, <1>6 DEF schedulerLock, Calling, On, SwitchedOut
  <2>2. pid' = pid /\ running' = running /\ spc' = spc /\ lockpid' = pid[p]
    BY <1>6 DEF schedulerLock, tableVars, cpuVars
  <2> QED
    BY <1>1, <2>1, <2>2 DEF LockExcludes, SchedulerLockExclusive, NoLockBehind
<1>7. ASSUME NEW c \in Cpu, NEW p \in Proc, ~schedulerLock(c, p),
             TimerReturn(c, p) \/ KernelStep(c, p) \/ UserStep(c, p)
      PROVE  LockExcludes'
  <2>1. lockpid' \in {lockpid, 0}
    BY <1>7 DEF TimerReturn, KernelStep, UserStep, KilledExit, ForkDone, ForkFail,
       InitExiting, ExitHoldsLock, ExitUnlocks, ExitFinish, SleepOnTicks, SleepTest,
       LockResetsTicks, wait, sys_yield, allocproc, sys_exit, ForkNoSlot, kill, sys_sleep,
       LockRefused, schedulerUnlock, UnlockBy, setPriority, setLevel
  <2>2. \/ UNCHANGED <<running, spc>>
        \/ BackToScheduler(c)
    BY <1>7 DEF TimerReturn, KernelStep, UserStep, KilledExit, ForkDone, ForkFail,
       InitExiting, ExitHoldsLock, ExitUnlocks, ExitFinish, SleepOnTicks, SleepTest,
       LockResetsTicks, wait, Reap, WaitFails, WaitSleeps, sys_yield, allocproc, sys_exit, ForkNoSlot,
       kill, sys_sleep, LockRefused, schedulerUnlock, setPriority, setLevel, cpuVars
  <2>3. \/ pid' = pid
        \/ \E q \in Proc : /\ state[q] \in {"ZOMBIE", "UNUSED"}
                           /\ \A r \in Proc \ {q} : pid'[r] = pid[r]
    BY <1>2, <1>7 DEF TimerReturn, KernelStep, UserStep, KilledExit, ForkDone, ForkFail,
       InitExiting, ExitHoldsLock, ExitUnlocks, ExitFinish, SleepOnTicks, SleepTest,
       LockResetsTicks, wait, Reap, FirstZombieChild, WaitFails, WaitSleeps, sys_yield,
       allocproc, FirstUnused, sys_exit, ForkNoSlot, kill, sys_sleep, LockRefused, schedulerUnlock,
       setPriority, setLevel, tableVars, ProcTypes
  <2>4. \A d \in Cpu : running'[d] # NoProc =>
          running'[d] = running[d] /\ pid'[running[d]] = pid[running[d]]
    BY <1>2, <2>2, <2>3 DEF BackToScheduler, ProcTypes, OneCpuPerProcess
  <2>5. \A d \in Cpu : spc'[d] = "repick" => spc[d] = "repick"
    BY <1>2, <2>2 DEF BackToScheduler, ProcTypes
  <2> QED
    BY <2>1, <2>4, <2>5, NobodyEnters
<1> QED
  BY <1>3, <1>4, <1>5, <1>6, <1>7 DEF Next

(* On one CPU the scheduler lock is exclusive: while it is held no process *)
(* but its holder runs, through every unlock, boost, sleep and exit.  (On  *)
(* two CPUs it is not: see the README.)                                    *)
THEOREM LockExclusionCorrect ==
    ASSUME NCPU = 1
    PROVE  Spec => []SchedulerLockExclusive
<1>1. Init => LockExcludes
  BY DEF Init, LockExcludes, SchedulerLockExclusive, NoLockBehind
<1>2. TableInv /\ LockExcludes /\ [Next]_vars => LockExcludes'
  BY LockExclusion
<1>3. LockExcludes => SchedulerLockExclusive
  BY DEF LockExcludes
<1> QED
  BY <1>1, <1>2, <1>3, TableCorrect, PTL DEF Spec

----------------------------------------------------------------------------
(* exit() and wait().                                                      *)

(* init never exits and has no parent, and nobody is his own parent.       *)
FamilyTree ==
    /\ state[InitProc] \in Live /\ parent[InitProc] = NoProc
    /\ \A p \in Proc : parent[p] # p

(* Every step keeps FamilyTree: one case per kind of step.                 *)
LEMMA TreeKept ==
    ASSUME TableInv, FamilyTree, [Next]_vars
    PROVE  FamilyTree'
<1>1. ProcTypes /\ ForkChild /\ OneCpuPerProcess /\ NoProc \notin Proc
  BY TableFacts
<1>2. InitProc \in Proc
  BY ConstFacts
<1> DEFINE InitLives == state[InitProc] \in Live => state'[InitProc] \in Live
<1>3. CASE UNCHANGED vars
  BY <1>3 DEF vars, FamilyTree, tableVars
<1>4. ASSUME NEW c \in Cpu, SchedulerStep(c) \/ Timer(c) PROVE InitLives /\ parent' = parent
  <2>1. ASSUME NEW p \in Proc, Dispatch(c, p) PROVE InitLives /\ parent' = parent
    BY <1>1, <1>2, <2>1 DEF Dispatch, ProcTypes, Live
  <2>2. CASE Timer(c)
    BY <1>1, <1>2, <2>2 DEF Timer, Woken, ProcTypes, Live
  <2> QED
    BY <1>4, <2>1, <2>2 DEF SchedulerStep, ExpireTimeQuantum, GiveUpLock,
       SchedulerSideUnlock, NothingToRun, ReadTicks, BoostResetTicks, BoostTakeLock,
       BoostStep, tableVars
<1>5. ASSUME NEW c \in Cpu, NEW p \in Proc, ForkDone(c, p) \/ ForkFail(c, p)
      PROVE  FamilyTree'
  <2>1. child[p] \in Proc /\ state[child[p]] = "EMBRYO" /\ state[p] = "RUNNING"
    BY <1>1, <1>5 DEF ForkDone, ForkFail, On, ForkChild, OneCpuPerProcess
  <2>2. child[p] # p /\ child[p] # InitProc
    BY <2>1 DEF FamilyTree, Live
  <2>3. state'[InitProc] \in Live
    BY <1>1, <1>2, <1>5, <2>1, <2>2 DEF ForkDone, ForkFail, FamilyTree, ProcTypes
  <2>4. parent' = parent \/ parent' = [parent EXCEPT ![child[p]] = p]
    BY <1>5 DEF ForkDone, ForkFail
  <2>5. \A r \in Proc : parent'[r] = parent[r] \/ (r = child[p] /\ parent'[r] = p)
    BY <1>1, <2>1, <2>4 DEF ProcTypes
  <2> QED
    BY <1>2, <2>2, <2>3, <2>5 DEF FamilyTree
<1>6. ASSUME NEW c \in Cpu, NEW p \in Proc, ExitFinish(c, p) PROVE FamilyTree'
  <2>1. p # InitProc /\ parent' = Reparented(p)
    BY <1>6 DEF ExitFinish
  <2>2. state'[InitProc] \in Live
    BY <1>2, <1>6, <2>1 DEF ExitFinish, FamilyTree, Live
  <2> QED
    BY <1>1, <1>2, <2>1, <2>2 DEF Reparented, FamilyTree
<1>7. ASSUME NEW c \in Cpu, NEW p \in Proc, wait(c, p) PROVE FamilyTree'
  <2>1. ASSUME NEW q \in Proc, Reap(c, p, q) PROVE FamilyTree'
    <3>1. q # InitProc
      BY <2>1 DEF Reap, FirstZombieChild, FamilyTree, Live
    <3> QED
      BY <1>1, <1>2, <2>1, <3>1 DEF Reap, FamilyTree, ProcTypes
  <2>2. CASE WaitFails(p) \/ WaitSleeps(c, p)
    BY <1>1, <1>2, <2>2 DEF WaitFails, WaitSleeps, FamilyTree, ProcTypes, Live, tableVars
  <2>3. (\E q \in Proc : Reap(c, p, q)) \/ WaitFails(p) \/ WaitSleeps(c, p)
    BY <1>7 DEF wait
  <2> QED
    BY <2>1, <2>2, <2>3
<1>8. ASSUME NEW c \in Cpu, NEW p \in Proc,
             SleepOnTicks(c, p) \/ TimerReturn(c, p) \/ sys_yield(c, p)
             \/ kill(c, p) \/ allocproc(c, p)
      PROVE  InitLives /\ parent' = parent
  <2>1. CASE SleepOnTicks(c, p) \/ TimerReturn(c, p) \/ sys_yield(c, p)
    BY <1>1, <1>2, <2>1 DEF SleepOnTicks, TimerReturn, sys_yield, ProcTypes, Live
  <2>2. CASE kill(c, p)
    BY <1>1, <1>2, <2>2 DEF kill, ProcTypes, Live
  <2>3. CASE allocproc(c, p)
    BY <1>1, <1>2, <2>3 DEF allocproc, FirstUnused, ProcTypes, Live
  <2> QED
    BY <1>8, <2>1, <2>2, <2>3
<1>9. ASSUME NEW c \in Cpu, NEW p \in Proc,
             \/ KilledExit(c, p) \/ InitExiting(c, p) \/ ExitHoldsLock(c, p)
             \/ ExitUnlocks(c, p) \/ SleepTest(c, p) \/ LockResetsTicks(c, p)
             \/ sys_exit(c, p) \/ ForkNoSlot(c, p) \/ sys_sleep(c, p) \/ LockRefused(c, p)
             \/ schedulerLock(c, p) \/ schedulerUnlock(c, p) \/ setPriority(c, p)
             \/ setLevel(c, p)
      PROVE  InitLives /\ parent' = parent
  BY <1>9 DEF KilledExit, InitExiting, ExitHoldsLock, ExitUnlocks, SleepTest,
     LockResetsTicks, sys_exit, ForkNoSlot, sys_sleep, LockRefused, schedulerLock, schedulerUnlock,
     setPriority, setLevel, tableVars
<1>10. InitLives /\ parent' = parent => FamilyTree'
  BY DEF FamilyTree
<1> HIDE DEF InitLives
<1> QED
  BY <1>3, <1>4, <1>5, <1>6, <1>7, <1>8, <1>9, <1>10 DEF Next, KernelStep, UserStep

(* A step that makes no ZOMBIE, moves no child and puts nobody to sleep.   *)
FamilyStays ==
    \A p \in Proc :
      /\ state'[p] = "ZOMBIE" => state[p] = "ZOMBIE"
      /\ state'[p] = "SLEEPING" => state[p] = "SLEEPING" /\ chan'[p] = chan[p]
      /\ parent'[p] # parent[p] => state'[p] # "ZOMBIE"

(* A step that leaves a family's states, parents and channels alone keeps  *)
(* NoLostChildWakeup.                                                      *)
LEMMA FamilyStaysKeeps ==
    ASSUME NoLostChildWakeup, FamilyStays
    PROVE  NoLostChildWakeup'
BY DEF NoLostChildWakeup, FamilyStays

(* Every step keeps NoLostChildWakeup: one case per kind of step.          *)
LEMMA ChildWakeup ==
    ASSUME TableInv, FamilyTree, NoLostChildWakeup, [Next]_vars
    PROVE  NoLostChildWakeup'
<1>1. ProcTypes /\ ForkChild /\ OneCpuPerProcess
  BY TableFacts
<1>2. CASE UNCHANGED vars
  BY <1>2 DEF vars, NoLostChildWakeup, tableVars
<1>3. ASSUME NEW c \in Cpu, SchedulerStep(c) \/ Timer(c) PROVE FamilyStays
  <2>1. ASSUME NEW p \in Proc, Dispatch(c, p) PROVE FamilyStays
    BY <1>1, <2>1 DEF Dispatch, FamilyStays, ProcTypes
  <2>2. CASE Timer(c)
    BY <1>1, <2>2 DEF Timer, Woken, FamilyStays, ProcTypes
  <2>3. CASE UNCHANGED tableVars
    BY <2>3 DEF tableVars, FamilyStays
  <2> QED
    BY <1>3, <2>1, <2>2, <2>3 DEF SchedulerStep, ExpireTimeQuantum, GiveUpLock,
       SchedulerSideUnlock, NothingToRun, ReadTicks, BoostResetTicks, BoostTakeLock,
       BoostStep
<1>4. ASSUME NEW c \in Cpu, NEW p \in Proc, ExitFinish(c, p)
      PROVE  NoLostChildWakeup'
  <2>1. /\ state' = [q \in Proc |-> IF q = p THEN "ZOMBIE"
                                    ELSE IF ExitWakes(p, q) THEN "RUNNABLE"
                                    ELSE state[q]]
        /\ parent' = Reparented(p) /\ chan' = chan
    BY <1>4 DEF ExitFinish
  <2> SUFFICES ASSUME NEW r \in Proc, NEW q \in Proc, state'[r] = "SLEEPING",
                      chan'[r] = r, parent'[q] = r, state'[q] = "ZOMBIE"
               PROVE  FALSE
    BY DEF NoLostChildWakeup
  <2>2. r # p /\ state[r] = "SLEEPING" /\ chan[r] = r /\ ~ExitWakes(p, r)
    BY <2>1
  <2>3. CASE q = p
    <3>1. parent[p] = r
      BY <2>1, <2>3 DEF Reparented, FamilyTree
    <3> QED
      BY <2>2, <3>1 DEF ExitWakes
  <2>4. CASE q # p
    <3>1. state[q] = "ZOMBIE"
      BY <2>1, <2>4
    <3>2. parent[q] = r \/ (parent[q] = p /\ r = InitProc)
      BY <2>1 DEF Reparented
    <3> QED
      BY <2>2, <3>1, <3>2 DEF ExitWakes, NoLostChildWakeup
  <2> QED
    BY <2>3, <2>4
<1>5. ASSUME NEW c \in Cpu, NEW p \in Proc, wait(c, p) PROVE NoLostChildWakeup'
  <2>1. ASSUME NEW q \in Proc, Reap(c, p, q) PROVE FamilyStays
    BY <1>1, <2>1 DEF Reap, FamilyStays, ProcTypes
  <2>2. CASE WaitFails(p)
    BY <2>2, FamilyStaysKeeps DEF WaitFails, FamilyStays, tableVars
  <2>3. CASE WaitSleeps(c, p)
    <3>1. /\ \A r \in Proc : state'[r] = IF r = p THEN "SLEEPING" ELSE state[r]
          /\ \A r \in Proc \ {p} : chan'[r] = chan[r]
          /\ parent' = parent
      BY <1>1, <2>3 DEF WaitSleeps, ProcTypes
    <3>2. \A q \in Proc : parent[q] = p => state[q] # "ZOMBIE"
      BY <2>3 DEF WaitSleeps, NoZombieChild, Children
    <3> QED
      BY <3>1, <3>2 DEF NoLostChildWakeup
  <2>4. (\E q \in Proc : Reap(c, p, q)) \/ WaitFails(p) \/ WaitSleeps(c, p)
    BY <1>5 DEF wait
  <2> QED
    BY <2>1, <2>2, <2>3, <2>4, FamilyStaysKeeps
<1>6. ASSUME NEW c \in Cpu, NEW p \in Proc, SleepOnTicks(c, p)
      PROVE  NoLostChildWakeup'
  <2>1. TicksChan \notin Proc
    BY SizeAssumption DEF TicksChan, Proc
  <2> QED
    BY <1>1, <1>6, <2>1 DEF SleepOnTicks, NoLostChildWakeup, ProcTypes
<1>7. ASSUME NEW c \in Cpu, NEW p \in Proc,
             ForkDone(c, p) \/ ForkFail(c, p) \/ TimerReturn(c, p) \/ sys_yield(c, p)
             \/ kill(c, p) \/ allocproc(c, p)
      PROVE  FamilyStays
  <2>1. CASE ForkDone(c, p) \/ ForkFail(c, p)
    <3>1. child[p] \in Proc
      BY <1>1, <2>1 DEF ForkDone, ForkFail, ForkChild
    <3> QED
      BY <1>1, <2>1, <3>1 DEF ForkDone, ForkFail, FamilyStays, ProcTypes
  <2>2. CASE TimerReturn(c, p) \/ sys_yield(c, p)
    BY <1>1, <2>2 DEF TimerReturn, sys_yield, FamilyStays, ProcTypes
  <2>3. CASE kill(c, p)
    BY <1>1, <2>3 DEF kill, FamilyStays, ProcTypes
  <2>4. CASE allocproc(c, p)
    BY <1>1, <2>4 DEF allocproc, FamilyStays, ProcTypes
  <2> QED
    BY <1>7, <2>1, <2>2, <2>3, <2>4
<1>8. ASSUME NEW c \in Cpu, NEW p \in Proc,
             \/ KilledExit(c, p) \/ InitExiting(c, p) \/ ExitHoldsLock(c, p)
             \/ ExitUnlocks(c, p) \/ SleepTest(c, p) \/ LockResetsTicks(c, p)
             \/ sys_exit(c, p) \/ ForkNoSlot(c, p) \/ sys_sleep(c, p) \/ LockRefused(c, p)
             \/ schedulerLock(c, p) \/ schedulerUnlock(c, p) \/ setPriority(c, p)
             \/ setLevel(c, p)
      PROVE  FamilyStays
  BY <1>8 DEF KilledExit, InitExiting, ExitHoldsLock, ExitUnlocks, SleepTest,
     LockResetsTicks, sys_exit, ForkNoSlot, sys_sleep, LockRefused, schedulerLock, schedulerUnlock,
     setPriority, setLevel, FamilyStays, tableVars
<1> QED
  BY <1>2, <1>3, <1>4, <1>5, <1>6, <1>7, <1>8, FamilyStaysKeeps DEF Next, KernelStep,
     UserStep

(* No exit is lost: a parent asleep in wait() has no ZOMBIE child, its own *)
(* or inherited from a parent that exited.                                 *)
THEOREM ChildWakeupCorrect == Spec => []NoLostChildWakeup
<1>1. Init => NoLostChildWakeup /\ FamilyTree
  BY ConstFacts DEF Init, NoLostChildWakeup, FamilyTree, Live
<1>2. TableInv /\ FamilyTree /\ NoLostChildWakeup /\ [Next]_vars
        => FamilyTree' /\ NoLostChildWakeup'
  BY TreeKept, ChildWakeup
<1> QED
  BY <1>1, <1>2, TableCorrect, PTL DEF Spec
=============================================================================
