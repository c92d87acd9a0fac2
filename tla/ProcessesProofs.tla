------------------------ MODULE ProcessesProofs ------------------------
(***************************************************************************)
(* Theorems about the processes that the application counts: the slots of  *)
(* AgentStreams are counted right for every number of runs and slots, and  *)
(* every run is watched from its start to its end; the pool of             *)
(* OfficeWatchPool knows what it serves and to whom, for every number of   *)
(* calls, files and stops and any limit, and what it has stopped stays so; *)
(* the slots, timeouts and outputs of ProjectRunner are right for every    *)
(* number of jobs, configurations and snapshots.                           *)
(***************************************************************************)
EXTENDS AgentStreams, OfficeWatchPool, ProjectRunner, FiniteSetTheorems, SequenceTheorems, TLAPS
-----------------------------------------------------------------------------
(***************************************************************************)
(* The slots of headless agent runs, and who listens to them.              *)
(***************************************************************************)

Holders == {r \in Runs : HoldsSlot(r)}

\* The queue lists the queued runs, each once.
QueueExact ==
  /\ \A r \in Runs : pc[r] = "queued" <=> \E i \in DOMAIN queue : queue[i] = r
  /\ \A i, j \in DOMAIN queue : queue[i] = queue[j] => i = j

\* Only the variables the slots depend on.
SlotTypes ==
  /\ pc \in [Runs -> {"idle", "queued", "resolving", "live", "closed", "rejected"}]
  /\ queue \in Seq(Runs)
  /\ running \in Nat

\* The inductive invariant: a run that is queued is so once and holds no slot,
\* and it waits only while all are taken, so a release admits at most one.
SlotInv == SlotTypes /\ QueueExact /\ SlotAccounting /\ NoIdleSlot

slotVars == <<pc, queue, running>>

\* The set of holders is finite, so that it can be counted.
LEMMA HoldersFinite == IsFiniteSet(Holders) /\ Cardinality(Holders) \in Nat
BY SlotsAssumption, FS_Subset, FS_CardinalityType DEF Holders

\* A run that takes a slot adds one to the holders.
LEMMA TakeSlot ==
  ASSUME SlotInv, NEW r \in Runs, ~HoldsSlot(r),
         pc' = [pc EXCEPT ![r] = "resolving"]
  PROVE  Cardinality(Holders') = running + 1
<1>1. Holders' = Holders \cup {r} /\ r \notin Holders
  BY DEF Holders, HoldsSlot, SlotInv, SlotTypes
<1>2. Cardinality(Holders) = running
  BY DEF SlotInv, SlotAccounting, Holders
<1>3. QED BY <1>1, <1>2, HoldersFinite, FS_AddElement

\* Steps that change neither the slots nor the queue.
LEMMA SlotFrame ==
  ASSUME SlotInv, UNCHANGED <<queue, running>>,
         pc' \in [Runs -> {"idle", "queued", "resolving", "live", "closed",
                           "rejected"}],
         \A r \in Runs : (pc'[r] = "queued" <=> pc[r] = "queued")
                         /\ (HoldsSlot(r)' <=> HoldsSlot(r))
  PROVE  SlotInv'
<1>1. {r \in Runs : HoldsSlot(r)}' = {r \in Runs : HoldsSlot(r)}
  OBVIOUS
<1>2. SlotAccounting'
  BY <1>1 DEF SlotInv, SlotAccounting
<1>3. QED BY <1>2 DEF SlotInv, SlotTypes, QueueExact, NoIdleSlot

\* A release with nobody waiting.
LEMMA ReleaseAlone ==
  ASSUME SlotInv, NEW r \in Runs, HoldsSlot(r), queue = <<>>,
         NEW how \in {"closed", "rejected"}, Release(r, how)
  PROVE  SlotInv'
<1>1. Cardinality(Holders) = running /\ running <= MaxConcurrency /\ r \in Holders
  BY DEF SlotInv, SlotAccounting, Holders
<1>2. running >= 1 /\ Cardinality(Holders \ {r}) = running - 1
  BY <1>1, HoldersFinite, FS_RemoveElement, FS_EmptySet DEF SlotInv, SlotTypes
<1>3. Admitted(running - 1) = 0
  BY <1>1, SlotsAssumption DEF Admitted, SlotInv, SlotTypes
<1>4. running' = running - 1 /\ queue' = <<>> /\ pc' = [pc EXCEPT ![r] = how]
  <2>1. running' = running - 1
    BY <1>3 DEF Release, SlotInv, SlotTypes
  <2>2. queue' = SubSeq(<<>>, 1, 0)
    BY <1>3 DEF Release
  <2>3. queue' = <<>>
    BY <2>2, SubSeqEmpty
  <2>4. pc' = [x \in Runs |-> IF x = r THEN how
                             ELSE IF \E i \in 1..0 : queue[i] = x
                                  THEN "resolving" ELSE pc[x]]
    BY <1>3 DEF Release
  <2>5. \A x \in Runs : ~ \E i \in 1..0 : queue[i] = x
    OBVIOUS
  <2>6. pc' = [x \in Runs |-> IF x = r THEN how ELSE pc[x]]
    BY <2>4, <2>5
  <2>7. pc' = [pc EXCEPT ![r] = how]
    BY <2>6 DEF SlotInv, SlotTypes
  <2>8. QED BY <2>1, <2>3, <2>7
<1>5. Holders' = Holders \ {r}
  BY <1>4 DEF Holders, HoldsSlot, SlotInv, SlotTypes
<1>6. SlotAccounting'
  BY SMTT(30), <1>1, <1>2, <1>4, <1>5, SlotsAssumption DEF SlotAccounting, Holders, SlotInv, SlotTypes
<1>7. SlotTypes' /\ NoIdleSlot'
  BY <1>2, <1>4 DEF SlotInv, SlotTypes, NoIdleSlot
<1>8. QueueExact'
  BY <1>4 DEF SlotInv, SlotTypes, QueueExact, HoldsSlot
<1>9. QED BY <1>6, <1>7, <1>8 DEF SlotInv

\* The rest of a queue that lists runs once.
LEMMA TailExact ==
  ASSUME NEW S, NEW q \in Seq(S), q # <<>>
  PROVE  /\ SubSeq(q, 2, Len(q)) \in Seq(S)
         /\ Len(SubSeq(q, 2, Len(q))) = Len(q) - 1
         /\ \A i \in 1..(Len(q) - 1) : SubSeq(q, 2, Len(q))[i] = q[i + 1]
<1> DEFINE n == Len(q)
           b == SubSeq(q, 2, n)
<1>1. n \in Nat /\ n >= 1 /\ \A i \in 2..n : q[i] \in S
  BY LenProperties, EmptySeq
<1>2. /\ b \in Seq(S) /\ Len(b) = IF 2 <= n THEN n - 2 + 1 ELSE 0
      /\ \A i \in 1..(n - 2 + 1) : b[i] = q[2 + i - 1]
  BY <1>1, SubSeqProperties
<1> HIDE DEF n, b
<1>3. Len(b) = n - 1
  BY <1>1, <1>2
<1>4. ASSUME NEW i \in 1..(n - 1)
      PROVE  b[i] = q[i + 1]
  <2>1. i \in 1..(n - 2 + 1) /\ 2 + i - 1 = i + 1
    BY <1>1
  <2>2. QED BY <1>2, <2>1
<1>5. b \in Seq(S) /\ Len(b) = n - 1 /\ \A i \in 1..(n - 1) : b[i] = q[i + 1]
  BY <1>2, <1>3, <1>4
<1>6. QED BY <1>5 DEF n, b

\* A release with somebody waiting hands the slot to the first in the queue.
LEMMA ReleaseToNext ==
  ASSUME SlotInv, NEW r \in Runs, HoldsSlot(r), queue # <<>>,
         NEW how \in {"closed", "rejected"}, Release(r, how)
  PROVE  SlotInv'
<1> DEFINE h == queue[1]
<1>1. Cardinality(Holders) = running /\ running = MaxConcurrency /\ r \in Holders
  BY DEF SlotInv, SlotAccounting, Holders, NoIdleSlot
<1>2. running \in Nat /\ running >= 1 /\ Cardinality(Holders \ {r}) = running - 1
  <2>1. Cardinality(Holders \ {r}) = Cardinality(Holders) - 1
    BY <1>1, HoldersFinite, FS_RemoveElement
  <2>2. MaxConcurrency \in Nat /\ MaxConcurrency >= 1
    BY SlotsAssumption
  <2>3. QED BY <1>1, <2>1, <2>2
<1>3. Len(queue) >= 1 /\ h \in Runs /\ pc[h] = "queued" /\ h # r
  BY DEF SlotInv, SlotTypes, QueueExact, HoldsSlot
<1>4. Admitted(running - 1) = 1
  <2>1. MaxConcurrency - (running - 1) = 1
    BY <1>1, <1>2
  <2> DEFINE n == Len(queue)
  <2>2. n \in Nat /\ n >= 1
    BY <1>3, LenProperties DEF SlotInv, SlotTypes
  <2>3. Admitted(running - 1) = IF 1 >= n THEN n ELSE 1
    BY <2>1 DEF Admitted
  <2> HIDE DEF n
  <2>4. QED BY <2>2, <2>3
<1>5. /\ running' = running
      /\ queue' = SubSeq(queue, 2, Len(queue))
      /\ pc' = [x \in Runs |-> IF x = r THEN how
                               ELSE IF x = h THEN "resolving" ELSE pc[x]]
  <2>1. /\ running' = running - 1 + 1
        /\ queue' = SubSeq(queue, 1 + 1, Len(queue))
        /\ pc' = [x \in Runs |-> IF x = r THEN how
                                 ELSE IF \E i \in 1..1 : queue[i] = x
                                      THEN "resolving" ELSE pc[x]]
    BY <1>4 DEF Release
  <2>2. \A x \in Runs : (\E i \in 1..1 : queue[i] = x) <=> x = h
    OBVIOUS
  <2>3. QED BY <1>2, <2>1, <2>2
<1>6. Holders' = (Holders \ {r}) \cup {h} /\ h \notin Holders \ {r}
  BY <1>3, <1>5 DEF Holders, HoldsSlot
<1>7. Cardinality(Holders') = running
  <2>1. IsFiniteSet(Holders \ {r})
    BY HoldersFinite, FS_RemoveElement
  <2>2. Cardinality((Holders \ {r}) \cup {h}) = Cardinality(Holders \ {r}) + 1
    BY <1>6, <2>1, FS_AddElement
  <2>3. QED BY <1>2, <1>6, <2>2
<1>8. SlotAccounting'
  BY <1>1, <1>5, <1>7, SlotsAssumption DEF SlotAccounting, Holders
<1>9. SlotTypes' /\ NoIdleSlot'
  BY <1>1, <1>5, TailExact DEF SlotInv, SlotTypes, NoIdleSlot
<1>10. /\ DOMAIN queue' = 1..(Len(queue) - 1)
       /\ \A i \in DOMAIN queue' : queue'[i] = queue[i + 1]
       /\ DOMAIN queue = 1..Len(queue)
  BY <1>5, TailExact DEF SlotInv, SlotTypes
<1>11. ASSUME NEW i \in DOMAIN queue', NEW j \in DOMAIN queue',
              queue'[i] = queue'[j]
       PROVE  i = j
  <2>1. queue[i + 1] = queue[j + 1] /\ i + 1 \in DOMAIN queue /\ j + 1 \in DOMAIN queue
    BY <1>10, <1>11, <1>3
  <2>2. i + 1 = j + 1
    BY <2>1 DEF SlotInv, QueueExact
  <2> QED
    BY <1>10, <2>2
<1>12. ASSUME NEW x \in Runs, pc'[x] = "queued"
       PROVE  \E i \in DOMAIN queue' : queue'[i] = x
  <2>1. x # h /\ pc[x] = "queued"
    BY <1>5, <1>12
  <2>2. PICK i \in DOMAIN queue : queue[i] = x
    BY <2>1 DEF SlotInv, QueueExact
  <2>3. i - 1 \in DOMAIN queue' /\ queue'[i - 1] = x
    BY <1>3, <1>10, <2>1, <2>2
  <2>4. QED BY <2>3
<1>13. ASSUME NEW i \in DOMAIN queue'
       PROVE  queue'[i] \in Runs /\ pc'[queue'[i]] = "queued"
  <2>1. i + 1 \in DOMAIN queue /\ queue'[i] = queue[i + 1] /\ 1 \in DOMAIN queue
        /\ i + 1 # 1
    BY <1>3, <1>10 DEF SlotInv, SlotTypes
  <2>2. queue[i + 1] \in Runs /\ pc[queue[i + 1]] = "queued"
    BY <2>1 DEF SlotInv, SlotTypes, QueueExact
  <2>3. queue[i + 1] # h /\ queue[i + 1] # r
    BY <2>1, <2>2 DEF SlotInv, QueueExact, HoldsSlot
  <2>4. QED BY <1>5, <2>1, <2>2, <2>3
<1>14. QueueExact'
  BY <1>11, <1>12, <1>13 DEF QueueExact
<1>15. QED BY <1>8, <1>9, <1>14 DEF SlotInv

\* Whoever ends, the slots stay right.
LEMMA ReleaseKeeps ==
  ASSUME SlotInv, NEW r \in Runs, HoldsSlot(r),
         NEW how \in {"closed", "rejected"}, Release(r, how)
  PROVE  SlotInv'
BY ReleaseAlone, ReleaseToNext

\* A start that waits: the queue grows at its end, and every slot is taken.
LEMMA StartQueued ==
  ASSUME SlotInv, NEW r \in Runs, pc[r] = "idle", running >= MaxConcurrency,
         pc' = [pc EXCEPT ![r] = "queued"], queue' = Append(queue, r),
         running' = running
  PROVE  SlotInv'
<1>1. Holders' = Holders
  BY DEF Holders, HoldsSlot, SlotInv, SlotTypes
<1>2. SlotAccounting'
  BY <1>1 DEF SlotInv, SlotAccounting, Holders
<1>3. SlotTypes' /\ NoIdleSlot'
  BY SlotsAssumption DEF SlotInv, SlotTypes, SlotAccounting, NoIdleSlot
<1>4. /\ DOMAIN queue' = 1..(Len(queue) + 1) /\ DOMAIN queue = 1..Len(queue)
      /\ queue'[Len(queue) + 1] = r
      /\ \A i \in 1..Len(queue) : queue'[i] = queue[i]
      /\ Len(queue) \in Nat
  BY DEF SlotInv, SlotTypes
<1>5. \A i \in DOMAIN queue : pc[queue[i]] = "queued" /\ queue[i] # r
  BY DEF SlotInv, SlotTypes, QueueExact
<1>6. ASSUME NEW i \in DOMAIN queue', NEW j \in DOMAIN queue',
             queue'[i] = queue'[j]
      PROVE  i = j
  BY <1>4, <1>5, <1>6 DEF SlotInv, QueueExact
<1>7. ASSUME NEW x \in Runs
      PROVE  pc'[x] = "queued" <=> \E i \in DOMAIN queue' : queue'[i] = x
  <2>1. CASE x = r
    BY <1>4, <2>1 DEF SlotInv, SlotTypes
  <2>2. CASE x # r
    <3>1. pc'[x] = "queued" <=> pc[x] = "queued"
      BY <2>2 DEF SlotInv, SlotTypes
    <3>2. (\E i \in DOMAIN queue' : queue'[i] = x)
            <=> (\E i \in DOMAIN queue : queue[i] = x)
      BY <1>4, <2>2
    <3>3. QED BY <3>1, <3>2 DEF SlotInv, QueueExact
  <2>3. QED BY <2>1, <2>2
<1>8. QueueExact'
  BY <1>6, <1>7 DEF QueueExact
<1>9. QED BY <1>2, <1>3, <1>8 DEF SlotInv

\* A start that gets a slot at once: then nobody waits.
LEMMA StartAtOnce ==
  ASSUME SlotInv, NEW r \in Runs, pc[r] = "idle", running < MaxConcurrency,
         pc' = [pc EXCEPT ![r] = "resolving"], queue' = queue,
         running' = running + 1
  PROVE  SlotInv'
<1>1. Cardinality(Holders') = running + 1
  BY TakeSlot DEF HoldsSlot
<1>2. queue = <<>>
  BY SlotsAssumption DEF SlotInv, SlotTypes, NoIdleSlot
<1>3. SlotAccounting'
  BY <1>1, SlotsAssumption DEF SlotAccounting, Holders, SlotInv, SlotTypes
<1>4. SlotTypes' /\ NoIdleSlot' /\ QueueExact'
  BY <1>2 DEF SlotInv, SlotTypes, NoIdleSlot, QueueExact
<1>5. QED BY <1>3, <1>4 DEF SlotInv

\* Taking one run out of the queue by its position keeps the rest in order.
LEMMA RemoveAtProperties ==
  ASSUME NEW S, NEW q \in Seq(S), NEW i \in 1..Len(q)
  PROVE  /\ RemoveAt(q, i) \in Seq(S)
         /\ Len(RemoveAt(q, i)) = Len(q) - 1
         /\ \A j \in 1..(Len(q) - 1) :
              RemoveAt(q, i)[j] = IF j < i THEN q[j] ELSE q[j + 1]
<1> DEFINE n == Len(q)
           a == SubSeq(q, 1, i - 1)
           b == SubSeq(q, i + 1, n)
<1>1. n \in Nat /\ i \in Nat /\ i >= 1 /\ i <= n
      /\ \A j \in 1..n : q[j] \in S
  BY LenProperties
<1>2. /\ a \in Seq(S) /\ Len(a) = IF 1 <= i - 1 THEN i - 1 - 1 + 1 ELSE 0
      /\ \A j \in 1..(i - 1 - 1 + 1) : a[j] = q[1 + j - 1]
  BY <1>1, SubSeqProperties
<1>3. /\ b \in Seq(S) /\ Len(b) = IF i + 1 <= n THEN n - (i + 1) + 1 ELSE 0
      /\ \A j \in 1..(n - (i + 1) + 1) : b[j] = q[i + 1 + j - 1]
  BY <1>1, SubSeqProperties
<1>4. /\ a \o b \in Seq(S) /\ Len(a \o b) = Len(a) + Len(b)
      /\ \A j \in 1..(Len(a) + Len(b)) :
           (a \o b)[j] = IF j <= Len(a) THEN a[j] ELSE b[j - Len(a)]
  BY <1>2, <1>3, ConcatProperties
<1>5. RemoveAt(q, i) = a \o b
  BY DEF RemoveAt
<1> HIDE DEF n, a, b
<1>6. Len(a) = i - 1 /\ Len(b) = n - i
  BY <1>1, <1>2, <1>3
<1>7. ASSUME NEW j \in 1..(n - 1)
      PROVE  (a \o b)[j] = IF j < i THEN q[j] ELSE q[j + 1]
  <2>1. CASE j < i
    <3>1. j \in 1..(i - 1 - 1 + 1) /\ 1 + j - 1 = j /\ j <= i - 1
          /\ j \in 1..(Len(a) + Len(b))
      BY <1>1, <1>6, <2>1
    <3>2. QED BY <1>2, <1>4, <1>6, <2>1, <3>1
  <2>2. CASE ~(j < i)
    <3>1. /\ j - (i - 1) \in 1..(n - (i + 1) + 1) /\ ~(j <= i - 1)
          /\ i + 1 + (j - (i - 1)) - 1 = j + 1
          /\ j \in 1..(Len(a) + Len(b))
      BY <1>1, <1>6, <2>2
    <3>2. b[j - (i - 1)] = q[i + 1 + (j - (i - 1)) - 1]
      BY <1>3, <3>1
    <3>3. QED BY <1>4, <1>6, <2>2, <3>1, <3>2
  <2>3. QED BY <2>1, <2>2
<1>8. Len(a \o b) = n - 1
  BY <1>1, <1>4, <1>6
<1>9. /\ RemoveAt(q, i) \in Seq(S) /\ Len(RemoveAt(q, i)) = n - 1
      /\ \A j \in 1..(n - 1) : RemoveAt(q, i)[j] = IF j < i THEN q[j] ELSE q[j + 1]
  BY <1>4, <1>5, <1>7, <1>8
<1>10. QED BY <1>9 DEF n

\* A cancel of a queued run takes its entry, and only it, out of the queue.
LEMMA CancelQueued ==
  ASSUME SlotInv, NEW r \in Runs, NEW k \in DOMAIN queue, queue[k] = r,
         queue' = RemoveAt(queue, k), running' = running,
         pc' = [pc EXCEPT ![r] = "rejected"]
  PROVE  SlotInv'
<1>1. pc[r] = "queued" /\ queue # <<>>
  BY DEF SlotInv, SlotTypes, QueueExact
<1>2. /\ DOMAIN queue = 1..Len(queue) /\ DOMAIN queue' = 1..(Len(queue) - 1)
      /\ queue' \in Seq(Runs) /\ Len(queue) \in Nat
      /\ \A j \in 1..(Len(queue) - 1) :
           queue'[j] = IF j < k THEN queue[j] ELSE queue[j + 1]
  BY SMTT(30), RemoveAtProperties DEF SlotInv, SlotTypes
<1> DEFINE n == Len(queue)
<1>3. n \in Nat /\ k \in 1..n /\ DOMAIN queue = 1..n
      /\ DOMAIN queue' = 1..(n - 1)
      /\ \A j \in 1..(n - 1) : queue'[j] = IF j < k THEN queue[j] ELSE queue[j + 1]
  BY <1>2
<1> HIDE DEF n
<1>4. Holders' = Holders
  BY <1>1 DEF Holders, HoldsSlot, SlotInv, SlotTypes
<1>5. SlotAccounting'
  BY <1>4 DEF SlotInv, SlotAccounting, Holders
<1>6. SlotTypes' /\ NoIdleSlot'
  BY <1>1, <1>2 DEF SlotInv, SlotTypes, NoIdleSlot
<1>7. ASSUME NEW i \in DOMAIN queue', NEW j \in DOMAIN queue',
             queue'[i] = queue'[j]
      PROVE  i = j
  <2>1. \A x, y \in 1..n : queue[x] = queue[y] => x = y
    BY <1>3 DEF SlotInv, QueueExact
  <2>2. QED BY <1>3, <1>7, <2>1
<1>8. ASSUME NEW x \in Runs, pc'[x] = "queued"
      PROVE  \E i \in DOMAIN queue' : queue'[i] = x
  <2>1. x # r /\ pc[x] = "queued"
    BY <1>8 DEF SlotInv, SlotTypes
  <2>2. PICK i \in 1..n : queue[i] = x
    BY <1>3, <2>1 DEF SlotInv, QueueExact
  <2>3. i # k
    BY <2>1, <2>2
  <2>4. CASE i < k
    <3>1. i \in 1..(n - 1) /\ queue'[i] = x
      BY <1>3, <2>2, <2>4
    <3>2. QED BY <1>3, <3>1
  <2>5. CASE i > k
    <3>1. i - 1 \in 1..(n - 1) /\ queue'[i - 1] = x
      BY <1>3, <2>2, <2>5
    <3>2. QED BY <1>3, <3>1
  <2>6. QED BY <1>3, <2>3, <2>4, <2>5
<1>9. ASSUME NEW i \in DOMAIN queue'
      PROVE  pc'[queue'[i]] = "queued"
  <2>1. PICK j \in 1..n : queue'[i] = queue[j] /\ j # k
    BY <1>3
  <2>2. queue[j] \in Runs /\ pc[queue[j]] = "queued"
    BY <1>3, <2>1 DEF SlotInv, SlotTypes, QueueExact
  <2>3. queue[j] # r
    BY <1>3, <2>1 DEF SlotInv, QueueExact
  <2>4. QED BY <2>1, <2>2, <2>3 DEF SlotInv, SlotTypes
<1>10. QueueExact'
  BY <1>7, <1>8, <1>9 DEF QueueExact
<1>11. QED BY <1>5, <1>6, <1>10 DEF SlotInv

\* cancelAll and killAll empty the queue.
LEMMA DropKeeps ==
  ASSUME SlotInv, DropAll, running' = running
  PROVE  SlotInv'
<1>1. /\ queue' = <<>>
      /\ pc' = [r \in Runs |-> IF pc[r] = "queued" THEN "rejected" ELSE pc[r]]
  BY DEF DropAll
<1>2. Holders' = Holders
  BY <1>1 DEF Holders, HoldsSlot
<1>3. SlotAccounting'
  BY <1>2 DEF SlotInv, SlotAccounting, Holders
<1>4. SlotTypes' /\ NoIdleSlot'
  BY <1>1 DEF SlotInv, SlotTypes, NoIdleSlot
<1>5. QueueExact'
  BY <1>1 DEF SlotInv, SlotTypes, QueueExact
<1>6. QED BY <1>3, <1>4, <1>5 DEF SlotInv

\* Initially nobody holds a slot.
LEMMA SlotInvInit == Init => SlotInv
<1> SUFFICES ASSUME Init PROVE SlotInv
  OBVIOUS
<1>1. {r \in Runs : HoldsSlot(r)} = {}
  BY DEF Init, HoldsSlot
<1>2. SlotAccounting
  BY <1>1, FS_EmptySet, SlotsAssumption DEF Init, SlotAccounting
<1>3. SlotTypes /\ NoIdleSlot /\ QueueExact
  BY DEF Init, SlotTypes, NoIdleSlot, QueueExact
<1>4. QED BY <1>2, <1>3 DEF SlotInv

\* Every step keeps the slots right.
LEMMA SlotInvNext == SlotInv /\ [Next]_vars => SlotInv'
<1> SUFFICES ASSUME SlotInv, [Next]_vars PROVE SlotInv'
  OBVIOUS
<1>1. CASE UNCHANGED slotVars
  BY <1>1, SlotFrame DEF slotVars, SlotInv, SlotTypes, HoldsSlot
<1>2. CASE CancelAll \/ KillAll
  BY <1>2, DropKeeps DEF CancelAll, KillAll
<1>3. ASSUME NEW r \in Runs, Start(r)
      PROVE  SlotInv'
  <2>1. pc[r] = "idle"
    BY <1>3 DEF Start
  <2>2. CASE running >= MaxConcurrency /\ pc' = [pc EXCEPT ![r] = "queued"]
             /\ queue' = Append(queue, r) /\ running' = running
    BY <2>1, <2>2, StartQueued
  <2>3. CASE running < MaxConcurrency /\ pc' = [pc EXCEPT ![r] = "resolving"]
             /\ running' = running + 1 /\ queue' = queue
    BY <2>1, <2>3, StartAtOnce
  <2>4. QED BY <1>3, <2>2, <2>3 DEF Start
<1>4. ASSUME NEW r \in Runs, Spawn(r)
      PROVE  SlotInv'
  <2>1. /\ pc[r] = "resolving" /\ pc' = [pc EXCEPT ![r] = "live"]
        /\ UNCHANGED <<queue, running>>
    BY <1>4 DEF Spawn
  <2>2. QED BY <2>1, SlotFrame DEF SlotInv, SlotTypes, HoldsSlot
<1>5. ASSUME NEW r \in Runs, FailToSpawn(r)
      PROVE  SlotInv'
  BY <1>5, ReleaseKeeps DEF FailToSpawn, HoldsSlot
<1>6. ASSUME NEW r \in Runs, Close(r)
      PROVE  SlotInv'
  BY <1>6, ReleaseKeeps DEF Close, HoldsSlot
<1>7. ASSUME NEW r \in Runs, Cancel(r)
      PROVE  SlotInv'
  <2>1. CASE UNCHANGED slotVars
    BY <1>1, <2>1
  <2>2. CASE \E k \in DOMAIN queue :
               /\ queue[k] = r /\ queue' = RemoveAt(queue, k)
               /\ running' = running /\ pc' = [pc EXCEPT ![r] = "rejected"]
    BY <2>2, CancelQueued
  <2>3. QED BY <1>7, <2>1, <2>2 DEF Cancel, slotVars
<1>8. ASSUME NEW r \in Runs, Output(r) \/ TimeOut(r)
      PROVE  UNCHANGED slotVars
  BY <1>8 DEF Output, TimeOut, slotVars
<1>9. CASE React \/ UNCHANGED vars
  BY <1>1, <1>9 DEF React, vars, slotVars
<1>10. QED
  BY <1>1, <1>2, <1>3, <1>4, <1>5, <1>6, <1>7, <1>8, <1>9 DEF Next

\* The counter of slots equals the number of runs that resolve or are live, and
\* never exceeds maxConcurrency, for any runs and any limit: no end of a run is
\* counted twice or not at all.
THEOREM SlotsCounted == Spec => []SlotAccounting
<1>1. SlotInv => SlotAccounting
  BY DEF SlotInv
<1>2. QED BY <1>1, SlotInvInit, SlotInvNext, PTL DEF Spec

\* For any runs and any limit, a run waits only while every slot is taken.
THEOREM NobodyWaitsBesideASlot == Spec => []NoIdleSlot
<1>1. SlotInv => NoIdleSlot
  BY DEF SlotInv
<1>2. QED BY <1>1, SlotInvInit, SlotInvNext, PTL DEF Spec
-----------------------------------------------------------------------------
(***************************************************************************)
(* Every run is watched from its start to its end.                         *)
(***************************************************************************)

\* A run that has not ended has its listener.
Heard == \A r \in Runs : pc[r] \in {"queued", "resolving", "live"} => r \in listening

\* A reaction reports what its run came to.
Reported ==
  \A i \in DOMAIN micro :
    pc[micro[i][1]] = IF micro[i][2] = "running" THEN "live" ELSE "rejected"

\* A run that ended is finished in the registry, or a reaction will have it so.
Due ==
  \A r \in Runs : pc[r] \in {"closed", "rejected"} =>
    status[r] \in Finished \/ \E i \in DOMAIN micro : micro[i] = <<r, "failed">>

WatchInv == TypeOK /\ HandlesAreLive /\ Heard /\ Reported /\ Due

LEMMA WatchInit == Init => WatchInv
BY DEF Init, WatchInv, TypeOK, HandlesAreLive, Heard, Reported, Due

\* A report reaches the registry as long as somebody listens, and leaves the others alone.
LEMMA ReportProperties ==
  ASSUME TypeOK, NEW r \in Runs, NEW s \in {"running"} \cup Finished, Report(r, s)
  PROVE /\ status' \in [Runs -> {"none", "queued", "running"} \cup Finished]
        /\ \A x \in Runs : x # r => status'[x] = status[x]
        /\ r \in listening => status'[r] = s
BY DEF Report, TypeOK

\* A run that gives back its slot is the only one to end, and only queued ones go on.
LEMMA ReleaseProperties ==
  ASSUME SlotInv, NEW r \in Runs, HoldsSlot(r),
         NEW how \in {"closed", "rejected"}, Release(r, how)
  PROVE /\ pc'[r] = how /\ queue' \in Seq(Runs) /\ running' \in Nat
        /\ pc' \in [Runs -> {"idle", "queued", "resolving", "live", "closed", "rejected"}]
        /\ \A x \in Runs : x # r =>
             pc'[x] = pc[x] \/ (pc[x] = "queued" /\ pc'[x] = "resolving")
        /\ session' = [session EXCEPT ![r] = "none"]
        /\ listening' = listening \ {r}
<1> DEFINE n == Admitted(running - 1)
<1>1. SlotInv'
  BY ReleaseKeeps
<1>2. n \in Int /\ n <= Len(queue)
  <2> DEFINE m == Len(queue)
  <2>1. m \in Nat /\ running \in Nat /\ MaxConcurrency \in Nat
    BY SlotsAssumption, LenProperties DEF SlotInv, SlotTypes
  <2>2. n = IF MaxConcurrency - (running - 1) >= m THEN m ELSE MaxConcurrency - (running - 1)
    BY DEF Admitted
  <2> HIDE DEF n, m
  <2>3. n \in Int /\ n <= m
    BY <2>1, <2>2
  <2> QED
    BY <2>3 DEF m
<1>3. /\ pc' = [x \in Runs |-> IF x = r THEN how
                               ELSE IF \E i \in 1..n : queue[i] = x THEN "resolving" ELSE pc[x]]
      /\ session' = [session EXCEPT ![r] = "none"] /\ listening' = listening \ {r}
  BY DEF Release
<1> HIDE DEF n
<1>4. ASSUME NEW x \in Runs, NEW i \in 1..n, queue[i] = x PROVE pc[x] = "queued"
  <2>1. i \in DOMAIN queue
    <3> DEFINE m == Len(queue)
    <3>1. m \in Nat /\ DOMAIN queue = 1..m
      BY LenProperties DEF SlotInv, SlotTypes
    <3> HIDE DEF m
    <3>2. n <= m
      BY <1>2 DEF m
    <3> QED
      BY <1>2, <3>1, <3>2
  <2> QED
    BY <1>4, <2>1 DEF SlotInv, QueueExact
<1> QED
  BY <1>1, <1>3, <1>4 DEF SlotInv, SlotTypes

\* The invariant after a run gave its slot back, whatever its registry entry.
LEMMA ReleaseWatched ==
  ASSUME SlotInv, WatchInv, Quiet, NEW r \in Runs, HoldsSlot(r),
         NEW how \in {"closed", "rejected"}, Release(r, how),
         timer' = timer \ {r}, UNCHANGED aborted,
         status' \in [Runs -> {"none", "queued", "running"} \cup Finished],
         \A x \in Runs : x # r => status'[x] = status[x],
         \/ UNCHANGED micro /\ status'[r] \in Finished
         \/ how = "rejected" /\ Later(r, "failed")
  PROVE WatchInv'
<1> USE DEF WatchInv
<1>1. /\ pc'[r] = how /\ queue' \in Seq(Runs) /\ running' \in Nat
      /\ pc' \in [Runs -> {"idle", "queued", "resolving", "live", "closed", "rejected"}]
      /\ \A x \in Runs : x # r =>
           pc'[x] = pc[x] \/ (pc[x] = "queued" /\ pc'[x] = "resolving")
      /\ session' = [session EXCEPT ![r] = "none"]
      /\ listening' = listening \ {r}
  BY ReleaseProperties
<1>2. \/ micro' = <<>> /\ status'[r] \in Finished
      \/ how = "rejected" /\ micro' = <<<<r, "failed">>>>
  BY DEF Quiet, Later
<1>3. micro' \in Seq(Runs \X {"running", "failed"})
  <2> DEFINE e == <<r, "failed">>
  <2>1. e \in Runs \X {"running", "failed"}
    OBVIOUS
  <2> HIDE DEF e
  <2>2. <<e>> \in Seq(Runs \X {"running", "failed"})
    BY <2>1
  <2>3. <<>> \in Seq(Runs \X {"running", "failed"})
    BY EmptySeq
  <2>4. micro' = <<>> \/ micro' = <<e>>
    BY <1>2 DEF e
  <2> QED
    BY <2>2, <2>3, <2>4
<1>4. TypeOK'
  BY <1>1, <1>3 DEF TypeOK
<1>5. HandlesAreLive'
  BY <1>1 DEF HandlesAreLive, TypeOK
<1>6. Heard'
  BY <1>1 DEF Heard
<1>7. \A i \in DOMAIN micro' : micro'[i] = <<r, "failed">> /\ how = "rejected"
  BY <1>2
<1>8. Reported'
  BY <1>1, <1>7 DEF Reported
<1>9. status'[r] \in Finished \/ \E i \in DOMAIN micro' : micro'[i] = <<r, "failed">>
  BY <1>2
<1>10. Due'
  <2> SUFFICES ASSUME NEW x \in Runs, pc'[x] \in {"closed", "rejected"}, x # r
               PROVE status'[x] \in Finished
    BY <1>9 DEF Due
  <2>1. pc[x] \in {"closed", "rejected"}
    BY <1>1
  <2> QED
    BY <2>1 DEF Due, Quiet
<1> QED
  BY <1>4, <1>5, <1>6, <1>8, <1>10

\* Reactions run in order, each telling the registry what it reports.
LEMMA ReactWatched ==
  ASSUME WatchInv, React
  PROVE WatchInv'
<1> USE DEF WatchInv
<1> DEFINE h == micro[1]
           n == Len(micro)
<1>1. /\ micro # <<>> /\ micro \in Seq(Runs \X {"running", "failed"})
      /\ status' = [status EXCEPT ![Head(micro)[1]] = Head(micro)[2]] /\ micro' = Tail(micro)
      /\ UNCHANGED <<pc, queue, running, session, timer, aborted, listening>>
  BY DEF React, Quiet, TypeOK
<1>2. /\ n \in Nat /\ n >= 1 /\ DOMAIN micro = 1..n /\ Head(micro) = h
      /\ micro' \in Seq(Runs \X {"running", "failed"}) /\ DOMAIN micro' = 1..(n - 1)
      /\ \A i \in 1..(n - 1) : micro'[i] = micro[i + 1]
  BY <1>1
<1>3. h \in Runs \X {"running", "failed"} /\ 1 \in DOMAIN micro
  BY <1>2 DEF TypeOK
<1>4. pc[h[1]] = IF h[2] = "running" THEN "live" ELSE "rejected"
  BY <1>3 DEF Reported
<1> HIDE DEF h, n
<1>5. status' = [status EXCEPT ![h[1]] = h[2]]
  BY <1>1, <1>2
<1>6. h[1] \in Runs /\ h[2] \in {"running", "failed"}
  BY <1>3
<1>7. TypeOK'
  BY <1>1, <1>2, <1>5, <1>6 DEF TypeOK, Finished
<1>8. HandlesAreLive' /\ Heard'
  BY <1>1 DEF HandlesAreLive, Heard
<1>9. \A i \in DOMAIN micro' : i + 1 \in DOMAIN micro /\ micro'[i] = micro[i + 1]
  BY <1>2
<1>10. Reported'
  BY <1>1, <1>9 DEF Reported
<1>11. Due'
  <2> SUFFICES ASSUME NEW x \in Runs, pc[x] \in {"closed", "rejected"}
               PROVE status'[x] \in Finished \/ \E i \in DOMAIN micro' : micro'[i] = <<x, "failed">>
    BY <1>1 DEF Due
  <2>1. CASE h[1] = x
    <3>1. h[2] = "failed"
      BY <1>4, <1>6, <2>1
    <3> QED
      BY <1>5, <2>1, <3>1 DEF TypeOK, Finished
  <2>2. CASE h[1] # x
    <3>1. status'[x] = status[x]
      BY <1>5, <2>2 DEF TypeOK
    <3>2. ASSUME NEW i \in DOMAIN micro, micro[i] = <<x, "failed">>
          PROVE \E j \in DOMAIN micro' : micro'[j] = <<x, "failed">>
      <4>1. i # 1
        BY <2>2, <3>2 DEF h
      <4>2. i - 1 \in 1..(n - 1) /\ i - 1 + 1 = i
        BY <1>2, <4>1
      <4>3. i - 1 \in DOMAIN micro' /\ micro'[i - 1] = micro[i]
        BY <1>2, <4>2
      <4> QED
        BY <3>2, <4>3
    <3> QED
      BY <3>1, <3>2 DEF Due
  <2> QED
    BY <2>1, <2>2
<1> QED
  BY <1>7, <1>8, <1>10, <1>11

\* Dropping all rejects the queued runs, in order, and takes the timers away.
LEMMA DropWatched ==
  ASSUME SlotInv, SlotInv', WatchInv, Quiet, DropAll, UNCHANGED running,
         status' \in [Runs -> {"none", "queued", "running"} \cup Finished],
         \A x \in Runs : status[x] \in Finished => status'[x] = status[x]
  PROVE WatchInv'
<1> USE DEF WatchInv
<1> DEFINE told == [i \in DOMAIN queue |-> <<queue[i], "failed">>]
<1>1. /\ queue \in Seq(Runs) /\ queue' = <<>>
      /\ pc' = [r \in Runs |-> IF pc[r] = "queued" THEN "rejected" ELSE pc[r]]
      /\ micro' = micro \o told
      /\ aborted' = aborted \cup Abortable /\ timer' = timer \ Abortable
      /\ session' = [r \in Runs |-> IF r \in Abortable THEN "cancelled" ELSE session[r]]
      /\ listening' = listening \ {queue[i] : i \in DOMAIN queue}
  BY DEF DropAll, TypeOK
<1>2. told \in Seq(Runs \X {"running", "failed"}) /\ DOMAIN told = DOMAIN queue
  <2> DEFINE n == Len(queue)
  <2>1. n \in Nat /\ DOMAIN queue = 1..n /\ \A i \in 1..n : queue[i] \in Runs
    BY <1>1, LenProperties
  <2> HIDE DEF n
  <2>2. told \in [1..n -> Runs \X {"running", "failed"}]
    BY <2>1
  <2>3. told \in Seq(Runs \X {"running", "failed"})
    BY <2>1, <2>2, SeqDef
  <2> QED
    BY <2>3
<1>3. micro' = told
  <2> HIDE DEF told
  <2>1. micro' = <<>> \o told
    BY <1>1 DEF Quiet
  <2> QED
    BY <1>2, <2>1, ConcatEmptySeq
<1>4. \A i \in DOMAIN micro' : micro'[i] = <<queue[i], "failed">> /\ i \in DOMAIN queue
  BY <1>2, <1>3
<1>5. \A i \in DOMAIN queue : queue[i] \in Runs /\ pc[queue[i]] = "queued"
  BY DEF SlotInv, QueueExact, SlotTypes
<1>6. micro' \in Seq(Runs \X {"running", "failed"})
  BY <1>2, <1>3
<1> HIDE DEF told
<1>7. TypeOK'
  BY <1>1, <1>6 DEF TypeOK, Abortable
<1>8. HandlesAreLive'
  BY <1>1 DEF HandlesAreLive, Abortable, TypeOK
<1>9. Heard'
  BY <1>1, <1>5 DEF Heard
<1>10. Reported'
  <2> SUFFICES ASSUME NEW i \in DOMAIN micro' PROVE pc'[queue[i]] = "rejected" /\ micro'[i] = <<queue[i], "failed">>
    BY DEF Reported
  <2> QED
    BY <1>1, <1>4, <1>5
<1>11. Due'
  <2> SUFFICES ASSUME NEW x \in Runs, pc'[x] \in {"closed", "rejected"}
               PROVE status'[x] \in Finished \/ \E i \in DOMAIN micro' : micro'[i] = <<x, "failed">>
    BY DEF Due
  <2>1. CASE pc[x] = "queued"
    <3>1. PICK i \in DOMAIN queue : queue[i] = x
      BY <2>1 DEF SlotInv, QueueExact
    <3> QED
      BY <1>2, <1>3, <1>4, <3>1
  <2>2. CASE pc[x] # "queued"
    BY <1>1, <2>2 DEF Due, Quiet
  <2> QED
    BY <2>1, <2>2
<1> QED
  BY <1>7, <1>8, <1>9, <1>10, <1>11

\* A cancel tells the registry, whatever it finds.
LEMMA CancelWatched ==
  ASSUME SlotInv, SlotInv', WatchInv, NEW r \in Runs, Cancel(r)
  PROVE WatchInv'
<1> USE DEF WatchInv
<1>1. Quiet /\ pc[r] # "idle" /\ running' = running /\ status' = [status EXCEPT ![r] = "cancelled"]
  BY DEF Cancel
<1>2. /\ status' \in [Runs -> {"none", "queued", "running"} \cup Finished]
      /\ \A x \in Runs : status'[x] = IF x = r THEN "cancelled" ELSE status[x]
  BY <1>1 DEF TypeOK, Finished
<1>3. CASE /\ pc[r] = "queued" /\ pc' = [pc EXCEPT ![r] = "rejected"]
           /\ listening' = listening \ {r} /\ Later(r, "failed")
           /\ UNCHANGED <<session, timer, aborted>>
  <2>1. micro' = <<<<r, "failed">>>>
    BY <1>1, <1>3 DEF Later, Quiet
  <2>2. micro' \in Seq(Runs \X {"running", "failed"})
    <3> DEFINE e == <<r, "failed">>
    <3>1. e \in Runs \X {"running", "failed"}
      OBVIOUS
    <3> HIDE DEF e
    <3>2. <<e>> \in Seq(Runs \X {"running", "failed"})
      BY <3>1
    <3> QED
      BY <2>1, <3>2 DEF e
  <2>3. \A i \in DOMAIN micro' : micro'[i] = <<r, "failed">>
    BY <2>1
  <2>4. TypeOK'
    BY <1>1, <1>2, <1>3, <2>2 DEF TypeOK, SlotInv, SlotTypes
  <2>5. HandlesAreLive' /\ Heard'
    BY <1>3 DEF HandlesAreLive, Heard, TypeOK
  <2>6. Reported'
    BY <1>3, <2>3 DEF Reported, TypeOK
  <2>7. Due'
    BY <1>1, <1>2, <1>3 DEF Due, Quiet, Finished, TypeOK
  <2> QED
    BY <2>4, <2>5, <2>6, <2>7
<1>4. CASE UNCHANGED <<pc, queue, listening, micro>> /\
           \/ /\ r \in Abortable /\ aborted' = aborted \cup {r} /\ timer' = timer \ {r}
              /\ session' = [session EXCEPT ![r] = "cancelled"]
           \/ UNCHANGED <<session, timer, aborted>>
  <2>1. TypeOK'
    BY <1>1, <1>2, <1>4 DEF TypeOK
  <2>2. HandlesAreLive' /\ Heard'
    BY <1>4 DEF HandlesAreLive, Heard, TypeOK, Abortable
  <2>3. Reported'
    BY <1>4 DEF Reported
  <2>4. Due'
    BY <1>1, <1>2, <1>4 DEF Due, Quiet, Finished
  <2> QED
    BY <2>1, <2>2, <2>3, <2>4
<1> QED
  BY <1>3, <1>4 DEF Cancel

LEMMA WatchNext == SlotInv /\ WatchInv /\ [Next]_vars => WatchInv'
<1> SUFFICES ASSUME SlotInv, WatchInv, [Next]_vars PROVE WatchInv'
  OBVIOUS
<1>0. SlotInv'
  BY SlotInvNext
<1> USE DEF WatchInv
<1>1. ASSUME NEW r \in Runs, Start(r) PROVE WatchInv'
  <2>1. /\ Quiet /\ pc[r] = "idle" /\ status' = [status EXCEPT ![r] = "queued"]
        /\ listening' = listening \cup {r} /\ UNCHANGED <<session, timer, aborted, micro>>
        /\ \E to \in {"queued", "resolving"} : pc' = [pc EXCEPT ![r] = to]
    BY <1>1 DEF Start
  <2>2. TypeOK'
    BY <1>0, <2>1 DEF TypeOK, SlotInv, SlotTypes
  <2>3. HandlesAreLive' /\ Heard'
    BY <2>1 DEF HandlesAreLive, Heard, TypeOK
  <2>4. Reported'
    BY <2>1 DEF Reported, Quiet
  <2>5. Due'
    BY <2>1 DEF Due, Quiet, TypeOK
  <2> QED
    BY <2>2, <2>3, <2>4, <2>5
<1>2. ASSUME NEW r \in Runs, Spawn(r) PROVE WatchInv'
  <2>1. /\ Quiet /\ pc[r] = "resolving" /\ pc' = [pc EXCEPT ![r] = "live"]
        /\ session' = [session EXCEPT ![r] = "running"] /\ timer' = timer \cup {r}
        /\ UNCHANGED <<queue, running, aborted, listening, status>>
    BY <1>2 DEF Spawn
  <2>2. micro' = <<<<r, "running">>>>
    BY <1>2 DEF Spawn, Later, Quiet
  <2>3. micro' \in Seq(Runs \X {"running", "failed"})
    <3> DEFINE e == <<r, "running">>
    <3>1. e \in Runs \X {"running", "failed"}
      OBVIOUS
    <3> HIDE DEF e
    <3>2. <<e>> \in Seq(Runs \X {"running", "failed"})
      BY <3>1
    <3> QED
      BY <2>2, <3>2 DEF e
  <2>4. \A i \in DOMAIN micro' : micro'[i] = <<r, "running">>
    BY <2>2
  <2>5. TypeOK'
    BY <2>1, <2>3 DEF TypeOK
  <2>6. HandlesAreLive' /\ Heard'
    BY <2>1 DEF HandlesAreLive, Heard, TypeOK
  <2>7. Reported'
    BY <2>1, <2>4 DEF Reported, TypeOK
  <2>8. Due'
    BY <2>1 DEF Due, Quiet, TypeOK
  <2> QED
    BY <2>5, <2>6, <2>7, <2>8
<1>3. ASSUME NEW r \in Runs, FailToSpawn(r) PROVE WatchInv'
  <2>1. Quiet /\ HoldsSlot(r) /\ Release(r, "rejected") /\ Later(r, "failed") /\ UNCHANGED <<timer, aborted, status>>
    BY <1>3 DEF FailToSpawn, HoldsSlot
  <2>2. timer' = timer \ {r}
    BY <1>3, <2>1 DEF FailToSpawn, HandlesAreLive
  <2> QED
    BY <2>1, <2>2, ReleaseWatched DEF TypeOK
<1>4. ASSUME NEW r \in Runs, Output(r) \/ TimeOut(r) PROVE WatchInv'
  <2>1. /\ Quiet /\ pc[r] = "live" /\ timer' \subseteq timer
        /\ UNCHANGED <<pc, queue, running, session, listening, micro>>
        /\ aborted' \subseteq aborted \cup {r}
    BY <1>4 DEF Output, TimeOut, HandlesAreLive, TypeOK
  <2>2. PICK s \in {"running"} \cup Finished : Report(r, s)
    BY <1>4 DEF Output, TimeOut, Finished
  <2>3. /\ status' \in [Runs -> {"none", "queued", "running"} \cup Finished]
        /\ \A x \in Runs : x # r => status'[x] = status[x]
    BY <2>2, ReportProperties
  <2>4. TypeOK'
    BY <2>1, <2>3 DEF TypeOK
  <2>5. HandlesAreLive' /\ Heard' /\ Reported'
    BY <2>1 DEF HandlesAreLive, Heard, Reported
  <2>6. Due'
    BY <2>1, <2>3 DEF Due, Quiet
  <2> QED
    BY <2>4, <2>5, <2>6
<1>5. ASSUME NEW r \in Runs, Close(r) PROVE WatchInv'
  <2>1. Quiet /\ HoldsSlot(r) /\ Release(r, "closed") /\ timer' = timer \ {r} /\ UNCHANGED <<aborted, micro>>
    BY <1>5 DEF Close, HoldsSlot
  <2>2. PICK s \in {"done", "failed"} : Report(r, s)
    BY <1>5 DEF Close
  <2>3. r \in listening /\ s \in {"running"} \cup Finished
    BY <1>5 DEF Close, Heard, Finished
  <2>4. /\ status' \in [Runs -> {"none", "queued", "running"} \cup Finished]
        /\ \A x \in Runs : x # r => status'[x] = status[x]
        /\ status'[r] \in Finished
    BY <2>2, <2>3, ReportProperties DEF Finished
  <2> QED
    BY <2>1, <2>4, ReleaseWatched
<1>6. ASSUME NEW r \in Runs, Cancel(r) PROVE WatchInv'
  BY <1>0, <1>6, CancelWatched
<1>7. CASE CancelAll
  <2>1. /\ Quiet /\ DropAll /\ running' = running
        /\ status' = [r \in Runs |-> IF status[r] \in {"queued", "running"} THEN "cancelled" ELSE status[r]]
    BY <1>7 DEF CancelAll
  <2>2. /\ status' \in [Runs -> {"none", "queued", "running"} \cup Finished]
        /\ \A x \in Runs : status[x] \in Finished => status'[x] = status[x]
    BY <2>1 DEF TypeOK, Finished
  <2> QED
    BY <1>0, <2>1, <2>2, DropWatched
<1>8. CASE KillAll
  BY <1>0, <1>8, DropWatched DEF KillAll, TypeOK
<1>9. CASE UNCHANGED vars
  BY <1>9 DEF vars, TypeOK, HandlesAreLive, Heard, Reported, Due
<1> QED
  BY <1>1, <1>2, <1>3, <1>4, <1>5, <1>6, <1>7, <1>8, <1>9, ReactWatched DEF Next

\* For any runs and any limit, the manager holds a handle on exactly the live processes, a
\* timeout is armed only for one of them, and the registry has every run that ended
\* finished once its promise was handled (stream-manager.ts, janus-runner-handlers.ts).
THEOREM AgentsAlwaysWatched == Spec => []AgentsWatched
<1>1. Init => SlotInv /\ WatchInv
  BY SlotInvInit, WatchInit
<1>2. SlotInv /\ WatchInv /\ [Next]_vars => (SlotInv /\ WatchInv)'
  BY SlotInvNext, WatchNext
<1>3. WatchInv => AgentsWatched
  BY DEF WatchInv, AgentsWatched, HandlesAreLive, EndIsReported, Due, Quiet
<1>4. QED
  BY <1>1, <1>2, <1>3, PTL DEF Spec
-----------------------------------------------------------------------------
(***************************************************************************)
(* The pool of office previews. The invariant says what serves a file,     *)
(* what a process that lives belongs to, and what a reload or a stop, once *)
(* begun, has let go for good.                                             *)
(***************************************************************************)

Lives == {"new", "resolving", "waiting", "decorating", "failing", "superseded", "ready", "rejected"}
Stages == {"none", "releasing", "acquiring", "undoing", "ok", "failed"}

\* A call that was not made has begun nothing; who holds a lease has minted it.
CallsOK ==
  \A c \in Calls :
    /\ call[c].pc = "idle" => life[c] = "new" /\ reload[c].stage = "none"
    /\ call[c].pc # "idle" => KeyOf(c) \in Keys
    /\ call[c].pc = "waiting" => call[c].watch \in Calls
    /\ leaseKey[c] # None => call[c].pc = "minted"
    /\ leases[c] # {} => life[c] = "ready"

\* What a file is started or served by is a watch of that file, and only one of the two.
ServesOK ==
  \A k \in Keys :
    /\ starting[k] # None =>
         KeyOf(starting[k]) = k /\ life[starting[k]] \in {"resolving", "waiting", "decorating", "failing"}
    /\ ready[k] # None => KeyOf(ready[k]) = k /\ life[ready[k]] = "ready"
    /\ startingChild[k] # None => KeyOf(startingChild[k]) = k /\ life[startingChild[k]] # "new"
    /\ starting[k] = None \/ ready[k] = None

\* Where a start is tells whether it has a process, and whether that was told to stop.
LifeOK ==
  \A w \in Calls :
    /\ w \in alive => life[w] \in {"waiting", "decorating", "failing", "superseded", "ready"}
    /\ w \in alive \ stopped =>
         life[w] \in {"waiting", "decorating"} \/ (life[w] = "ready" /\ ready[KeyOf(w)] = w)
    /\ life[w] = "new" => tries[w] = 0
    /\ life[w] = "resolving" => tries[w] < MaxTries

Busy == {k \in Keys : starting[k] # None \/ ready[k] # None}
LimitOK == IsFiniteSet(Busy) /\ Cardinality(Busy) <= MaxConcurrent

\* What a stop found is not the current start of its file any more, and will not be.
StopsOK ==
  \A t \in Stops : \A w \in stop[t].starts \cup stop[t].children :
    /\ life[w] # "new" /\ ~Current(w)
    /\ w \in stop[t].starts => life[w] # "ready"
    /\ stop[t].pc = "done" => w \notin alive

\* A reload has let its lease go, and its replacement when it is cancelled; the epoch of its
\* file is not forgotten while it is on.
ReloadOK(l) ==
  LET n == reload[l].next IN
  /\ reload[l].stage # "none" => leaseKey[l] = None /\ call[l].pc = "minted"
  /\ reload[l].stage = "releasing" => n = None
  /\ reload[l].stage \in {"acquiring", "undoing"} => n # None
  /\ n # None => call[n].pc # "idle"
  /\ reload[l].stage = "undoing" \/ (reload[l].stage = "failed" /\ n # None) =>
       call[n].pc \in {"minted", "failed"} /\ leaseKey[n] = None
  /\ l \in Reloading => reload[l].epoch <= epoch[KeyOf(l)]
  /\ l \in cancelled =>
       reload[l].stage \notin {"none", "ok"} /\ (l \in Reloading => reload[l].epoch < epoch[KeyOf(l)])
ReloadsOK == \A l \in Calls : ReloadOK(l)

PoolInv ==
  PoolTypeOK /\ CallsOK /\ ServesOK /\ LifeOK /\ LeasesMatch /\ LimitOK /\ StopsOK /\ ReloadsOK
-----------------------------------------------------------------------------
LEMMA PoolInvInit == PoolInit => PoolInv
<1> SUFFICES ASSUME PoolInit PROVE PoolInv
  OBVIOUS
<1> USE PoolAssumption DEF PoolInit
<1>1. PoolTypeOK
  BY DEF PoolTypeOK, MaxTries
<1>2. CallsOK
  BY DEF CallsOK
<1>3. ServesOK
  BY DEF ServesOK
<1>4. LifeOK
  BY DEF LifeOK
<1>5. LeasesMatch
  BY DEF LeasesMatch
<1>6. LimitOK
  <2>1. Busy = {}
    BY DEF Busy
  <2> QED
    BY <2>1, FS_EmptySet DEF LimitOK
<1>7. StopsOK
  BY DEF StopsOK
<1>8. ReloadsOK
  BY DEF ReloadsOK, ReloadOK, Reloading
<1> QED
  BY <1>1, <1>2, <1>3, <1>4, <1>5, <1>6, <1>7, <1>8 DEF PoolInv

LEMMA CallFacts ==
  /\ Calls \subseteq Nat /\ None \notin Calls /\ None \notin Keys /\ MaxConcurrent \in Nat \ {0}
  /\ \A s : ScopeKeys(s) \subseteq Keys
  BY PoolAssumption DEF Calls, ScopeKeys

\* Fewer files in use are within the limit.
LEMMA LimitKept == ASSUME LimitOK, Busy' \subseteq Busy PROVE LimitOK'
<1>1. /\ IsFiniteSet(Busy') /\ Cardinality(Busy') <= Cardinality(Busy)
      /\ Cardinality(Busy) \in Nat /\ Cardinality(Busy') \in Nat
  BY FS_Subset, FS_CardinalityType DEF LimitOK
<1> QED
  BY <1>1, PoolAssumption DEF LimitOK

\* One more is, if there were fewer than the limit allows.
LEMMA LimitReached ==
  ASSUME LimitOK, ServesOK, Load < MaxConcurrent, NEW k, Busy' = Busy \cup {k} PROVE LimitOK'
<1> DEFINE A == {j \in Keys : starting[j] # None}
           B == {j \in Keys : ready[j] # None}
<1>1. Busy = A \cup B /\ A \cap B = {} /\ A \subseteq Busy /\ B \subseteq Busy
  BY DEF Busy, ServesOK
<1>2. IsFiniteSet(A) /\ IsFiniteSet(B)
  BY <1>1, FS_Subset DEF LimitOK
<1>3. Cardinality(A \cap B) = 0
  BY <1>1, FS_EmptySet
<1>4. Cardinality(Busy) = Cardinality(A) + Cardinality(B) - Cardinality(A \cap B)
  BY <1>1, <1>2, FS_Union
<1>5. Load = Cardinality(A) + Cardinality(B)
  BY DEF Load
<1>6. /\ Cardinality(A) \in Nat /\ Cardinality(B) \in Nat /\ Cardinality(Busy) \in Nat
  BY <1>2, FS_CardinalityType DEF LimitOK
<1> HIDE DEF A, B
<1>7. Cardinality(Busy) < MaxConcurrent
  BY <1>3, <1>4, <1>5, <1>6
<1>8. IsFiniteSet(Busy') /\ (Cardinality(Busy') = Cardinality(Busy) \/ Cardinality(Busy') = Cardinality(Busy) + 1)
  BY FS_AddElement DEF LimitOK
<1> QED
  BY <1>6, <1>7, <1>8, PoolAssumption DEF LimitOK
-----------------------------------------------------------------------------
(* Starts.                                                                *)
\* A start moves on: calls, leases and reloads are not touched.
LEMMA StartMoves ==
  ASSUME PoolInv, NEW w \in Calls, life[w] \notin {"new", "ready"}, NEW p \in Lives \ {"new"}, Phase(w, p),
         UNCHANGED Others, UNCHANGED <<leaseKey, leases, epoch>>
  PROVE  /\ CallsOK' /\ ReloadsOK' /\ call' = call /\ life' \in [Calls -> Lives]
         /\ \A v \in Calls : life'[v] = IF v = w THEN p ELSE life[v]
         /\ KeyOf(w) \in Keys /\ \A v : KeyOf(v)' = KeyOf(v)
<1>1. /\ call' = call /\ reload' = reload /\ cancelled' = cancelled /\ leaseKey' = leaseKey /\ epoch' = epoch
      /\ life \in [Calls -> Lives]
  BY DEF Others, PoolInv, PoolTypeOK, Lives
<1>2. life' \in [Calls -> Lives] /\ \A v \in Calls : life'[v] = IF v = w THEN p ELSE life[v]
  BY <1>1 DEF Phase
<1>3. KeyOf(w) \in Keys /\ \A v : KeyOf(v)' = KeyOf(v)
  BY <1>1 DEF PoolInv, CallsOK, KeyOf
<1>4. CallsOK'
  BY <1>1, <1>2, <1>3 DEF PoolInv, CallsOK
<1>5. ReloadsOK'
  BY <1>1, <1>3 DEF PoolInv, ReloadsOK, ReloadOK, Reloading
<1> QED
  BY <1>1, <1>2, <1>3, <1>4, <1>5

\* Nothing that a stop found comes back.
LEMMA StopsKept ==
  ASSUME PoolInv, UNCHANGED stop, \A v \in Calls : KeyOf(v)' = KeyOf(v),
         \A v \in Calls : life[v] # "new" /\ ~Current(v) => ~Current(v)' /\ life'[v] # "new",
         \A v \in Calls : ~Current(v) /\ life[v] # "ready" => life'[v] # "ready",
         \A v \in alive' : v \in alive \/ Current(v)
  PROVE  StopsOK'
<1> SUFFICES ASSUME NEW t \in Stops, NEW w \in stop[t].starts \cup stop[t].children
             PROVE  /\ life'[w] # "new" /\ ~Current(w)'
                    /\ w \in stop[t].starts => life'[w] # "ready"
                    /\ stop[t].pc = "done" => w \notin alive'
  BY DEF StopsOK
<1>1. w \in Calls
  BY DEF PoolInv, PoolTypeOK
<1> QED
  BY <1>1 DEF PoolInv, StopsOK

Starting == {"resolving", "waiting", "decorating", "failing"}

\* A start moves on, and is not published.
LEMMA StartKeeps ==
  ASSUME PoolInv, NEW w \in Calls, life[w] \notin {"new", "ready"},
         NEW p \in Lives \ {"new", "ready"}, Phase(w, p),
         UNCHANGED Others, UNCHANGED <<ready, leaseKey, leases, epoch>>,
         tries' \in [Calls -> 0..MaxTries], alive' \subseteq Calls, stopped' \subseteq alive',
         starting' \in [Keys -> Calls \cup {None}], startingChild' \in [Keys -> Calls \cup {None}],
         \A k \in Keys : starting'[k] \in {starting[k], None},
         \A k \in Keys : starting'[k] = w => p \in Starting,
         \A k \in Keys : startingChild'[k] \in {startingChild[k], None} \/ (k = KeyOf(w) /\ startingChild'[k] = w),
         \A v \in alive' : v \in alive \/ (v = w /\ Current(w)),
         LifeOK'
  PROVE  PoolInv'
<1>1. UNCHANGED <<barred, call, releasing, reload, stop, cancelled>>
  BY DEF Others
<1>2. /\ CallsOK' /\ ReloadsOK' /\ life' \in [Calls -> Lives]
      /\ \A v \in Calls : life'[v] = IF v = w THEN p ELSE life[v]
      /\ KeyOf(w) \in Keys /\ \A v : KeyOf(v)' = KeyOf(v)
  BY StartMoves
<1>3. PoolTypeOK'
  BY <1>1, <1>2 DEF PoolInv, PoolTypeOK, Lives
<1>4. ServesOK'
  <2> SUFFICES ASSUME NEW k \in Keys
               PROVE  /\ starting'[k] # None => call[starting'[k]].key = k /\ life'[starting'[k]] \in Starting
                      /\ ready'[k] # None => call[ready'[k]].key = k /\ life'[ready'[k]] = "ready"
                      /\ startingChild'[k] # None =>
                           call[startingChild'[k]].key = k /\ life'[startingChild'[k]] # "new"
                      /\ starting'[k] = None \/ ready'[k] = None
    BY <1>1 DEF ServesOK, KeyOf, Starting
  <2>1. /\ starting[k] \in Calls \cup {None} /\ ready[k] \in Calls \cup {None} /\ startingChild[k] \in Calls \cup {None}
    BY DEF PoolInv, PoolTypeOK
  <2>2. /\ starting[k] # None => call[starting[k]].key = k /\ life[starting[k]] \in Starting
        /\ ready[k] # None => call[ready[k]].key = k /\ life[ready[k]] = "ready"
        /\ startingChild[k] # None => call[startingChild[k]].key = k /\ life[startingChild[k]] # "new"
        /\ starting[k] = None \/ ready[k] = None
    BY DEF PoolInv, ServesOK, KeyOf, Starting
  <2>3. starting'[k] # None => call[starting'[k]].key = k /\ life'[starting'[k]] \in Starting
    BY <1>2, <2>1, <2>2
  <2>4. ready'[k] # None => call[ready'[k]].key = k /\ life'[ready'[k]] = "ready"
    BY <1>2, <2>1, <2>2
  <2>5. startingChild'[k] # None => call[startingChild'[k]].key = k /\ life'[startingChild'[k]] # "new"
    <3>1. CASE startingChild'[k] = w /\ k = KeyOf(w)
      BY <3>1, <1>2 DEF KeyOf
    <3>2. CASE startingChild'[k] \in {startingChild[k], None}
      BY <3>2, <1>2, <2>1, <2>2
    <3> QED
      BY <3>1, <3>2
  <2> QED
    BY <2>2, <2>3, <2>4, <2>5
<1>5. LeasesMatch'
  BY <1>1, <1>2 DEF PoolInv, LeasesMatch
<1>6. LimitOK'
  <2>1. Busy' \subseteq Busy
    BY DEF Busy
  <2> QED
    BY <2>1, LimitKept DEF PoolInv
<1>7. StopsOK'
  <2>1. \A v \in Calls : life[v] # "new" /\ ~Current(v) => ~Current(v)' /\ life'[v] # "new"
    <3> SUFFICES ASSUME NEW v \in Calls, life[v] # "new", ~Current(v) PROVE ~Current(v)' /\ life'[v] # "new"
      OBVIOUS
    <3>1. call[v].key \in Keys /\ starting[call[v].key] # v /\ v # None
      BY CallFacts DEF Current, KeyOf, PoolInv, CallsOK
    <3>2. starting'[call[v].key] # v
      BY <3>1
    <3> QED
      BY <3>2, <1>1, <1>2 DEF Current, KeyOf
  <2>2. \A v \in Calls : ~Current(v) /\ life[v] # "ready" => life'[v] # "ready"
    BY <1>2
  <2>3. \A v \in alive' : v \in alive \/ Current(v)
    OBVIOUS
  <2>4. UNCHANGED stop /\ \A v \in Calls : KeyOf(v)' = KeyOf(v)
    BY <1>1, <1>2
  <2> QED
    BY <2>1, <2>2, <2>3, <2>4, StopsKept
<1> QED
  BY <1>2, <1>3, <1>4, <1>5, <1>6, <1>7, Zenon DEF PoolInv

\* What Reject leaves of the indexes.
LEMMA RejectFacts ==
  ASSUME PoolInv, NEW w \in Calls, Reject(w), KeyOf(w) \in Keys
  PROVE  /\ Phase(w, "rejected")
         /\ starting' \in [Keys -> Calls \cup {None}] /\ startingChild' \in [Keys -> Calls \cup {None}]
         /\ \A k \in Keys : starting'[k] \in {starting[k], None} /\ startingChild'[k] \in {startingChild[k], None}
         /\ \A k \in Keys : starting'[k] # w
<1>1. Phase(w, "rejected")
  BY DEF Reject
<1>2. /\ starting' \in [Keys -> Calls \cup {None}] /\ startingChild' \in [Keys -> Calls \cup {None}]
      /\ \A k \in Keys : starting'[k] \in {starting[k], None} /\ startingChild'[k] \in {startingChild[k], None}
  BY DEF Reject, PoolInv, PoolTypeOK
<1>3. ASSUME NEW k \in Keys PROVE starting'[k] # w
  <2>1. starting[k] = w => KeyOf(w) = k
    BY CallFacts DEF PoolInv, ServesOK
  <2>2. Current(w) => starting'[KeyOf(w)] = None
    BY DEF Reject, PoolInv, PoolTypeOK
  <2> QED
    BY <2>1, <2>2, <1>2, CallFacts DEF Current
<1> QED
  BY <1>1, <1>2, <1>3

\* What LifeOK says of the starts that a step leaves alone.
LEMMA LifeKept ==
  ASSUME PoolInv, NEW w \in Calls, UNCHANGED <<call, ready>>,
         \A v \in Calls \ {w} : life'[v] = life[v] /\ tries'[v] = tries[v] /\ (v \in alive' => v \in alive)
                                /\ (v \in alive' \ stopped' => v \in alive \ stopped),
         /\ w \in alive' => life'[w] \in {"waiting", "decorating", "failing", "superseded", "ready"}
         /\ w \in alive' \ stopped' =>
              life'[w] \in {"waiting", "decorating"} \/ (life'[w] = "ready" /\ ready'[KeyOf(w)] = w)
         /\ life'[w] = "new" => tries'[w] = 0
         /\ life'[w] = "resolving" => tries'[w] < MaxTries
  PROVE  LifeOK'
<1> SUFFICES ASSUME NEW v \in Calls
             PROVE  /\ v \in alive' => life'[v] \in {"waiting", "decorating", "failing", "superseded", "ready"}
                    /\ v \in alive' \ stopped' =>
                         life'[v] \in {"waiting", "decorating"} \/ (life'[v] = "ready" /\ ready'[KeyOf(v)] = v)
                    /\ life'[v] = "new" => tries'[v] = 0
                    /\ life'[v] = "resolving" => tries'[v] < MaxTries
  BY DEF LifeOK, KeyOf
<1>1. CASE v = w
  BY <1>1
<1>2. CASE v # w
  <2>1. /\ v \in alive => life[v] \in {"waiting", "decorating", "failing", "superseded", "ready"}
        /\ v \in alive \ stopped =>
             life[v] \in {"waiting", "decorating"} \/ (life[v] = "ready" /\ ready[KeyOf(v)] = v)
        /\ life[v] = "new" => tries[v] = 0
        /\ life[v] = "resolving" => tries[v] < MaxTries
    BY DEF PoolInv, LifeOK
  <2> QED
    BY <2>1, <1>2
<1> QED
  BY <1>1, <1>2

LEMMA GiveUpStep == ASSUME PoolInv, NEW w \in Calls, GiveUp(w) PROVE PoolInv'
<1>1. /\ life[w] = "resolving" /\ Reject(w) /\ UNCHANGED Others
      /\ UNCHANGED <<ready, leaseKey, leases, epoch, tries, alive, stopped, call>>
  BY DEF GiveUp, Others
<1>2. PoolTypeOK /\ KeyOf(w) \in Keys
  BY <1>1 DEF PoolInv, CallsOK
<1>3. /\ Phase(w, "rejected")
      /\ starting' \in [Keys -> Calls \cup {None}] /\ startingChild' \in [Keys -> Calls \cup {None}]
      /\ \A k \in Keys : starting'[k] \in {starting[k], None} /\ startingChild'[k] \in {startingChild[k], None}
      /\ \A k \in Keys : starting'[k] # w
  BY <1>1, <1>2, RejectFacts
<1>4. \A v \in Calls : life'[v] = IF v = w THEN "rejected" ELSE life[v]
  BY <1>2, <1>3 DEF Phase, PoolTypeOK
<1>5. w \notin alive
  BY <1>1 DEF PoolInv, LifeOK
<1>6. LifeOK'
  BY <1>1, <1>4, <1>5, LifeKept
<1> QED
  BY <1>1, <1>2, <1>3, <1>6, StartKeeps DEF Lives, PoolTypeOK

LEMMA SpawnStep == ASSUME PoolInv, NEW w \in Calls, SpawnWatch(w) PROVE PoolInv'
<1>1. /\ life[w] = "resolving" /\ Current(w) /\ Phase(w, "waiting") /\ tries' = [tries EXCEPT ![w] = @ + 1]
      /\ alive' = alive \cup {w} /\ startingChild' = [startingChild EXCEPT ![KeyOf(w)] = w]
      /\ UNCHANGED Others /\ UNCHANGED <<starting, ready, leaseKey, leases, epoch, stopped, call>>
  BY DEF SpawnWatch, Others, poolVars
<1>2. PoolTypeOK /\ KeyOf(w) \in Keys /\ tries[w] \in 0..MaxTries /\ tries[w] < MaxTries
  BY <1>1 DEF PoolInv, CallsOK, PoolTypeOK, LifeOK
<1>3. tries' \in [Calls -> 0..MaxTries]
  <2>1. tries[w] + 1 \in 0..MaxTries
    BY <1>2 DEF MaxTries
  <2> QED
    BY <1>1, <1>2, <2>1 DEF PoolTypeOK
<1>4. /\ \A v \in Calls : life'[v] = IF v = w THEN "waiting" ELSE life[v]
      /\ \A v \in Calls \ {w} : tries'[v] = tries[v]
  BY <1>1, <1>2 DEF Phase, PoolTypeOK
<1>5. /\ startingChild' \in [Keys -> Calls \cup {None}]
      /\ \A k \in Keys : startingChild'[k] = IF k = KeyOf(w) THEN w ELSE startingChild[k]
  BY <1>1, <1>2 DEF PoolTypeOK
<1>6. LifeOK'
  BY <1>1, <1>4, LifeKept
<1>7. /\ alive' \subseteq Calls /\ stopped' \subseteq alive' /\ starting' \in [Keys -> Calls \cup {None}]
      /\ \A k \in Keys : starting'[k] \in {starting[k], None}
      /\ \A k \in Keys : startingChild'[k] \in {startingChild[k], None} \/ (k = KeyOf(w) /\ startingChild'[k] = w)
      /\ \A v \in alive' : v \in alive \/ (v = w /\ Current(w))
  BY <1>1, <1>2, <1>5 DEF PoolTypeOK
<1>8. life[w] \notin {"new", "ready"} /\ "waiting" \in Lives \ {"new", "ready"} /\ "waiting" \in Starting
  BY <1>1 DEF Lives, Starting
<1> QED
  BY <1>1, <1>3, <1>5, <1>6, <1>7, <1>8, StartKeeps

LEMMA AnswersStep == ASSUME PoolInv, NEW w \in Calls, Answers(w) PROVE PoolInv'
<1>1. /\ life[w] = "waiting" /\ Phase(w, "decorating") /\ UNCHANGED Others
      /\ UNCHANGED <<starting, ready, leaseKey, leases, epoch, tries, alive, stopped, startingChild, call>>
  BY DEF Answers, Others, poolVars
<1>2. PoolTypeOK
  BY DEF PoolInv
<1>3. \A v \in Calls : life'[v] = IF v = w THEN "decorating" ELSE life[v]
  BY <1>1, <1>2 DEF Phase, PoolTypeOK
<1>4. LifeOK'
  BY <1>1, <1>3, LifeKept
<1> QED
  BY <1>1, <1>2, <1>4, StartKeeps DEF Lives, PoolTypeOK, Starting

LEMMA FailStartStep == ASSUME PoolInv, NEW w \in Calls, FailStart(w) PROVE PoolInv'
<1>1. /\ life[w] \in {"waiting", "decorating"} /\ Phase(w, "failing") /\ UNCHANGED Others
      /\ stopped' = stopped \cup ({w} \cap alive)
      /\ UNCHANGED <<starting, ready, leaseKey, leases, epoch, tries, alive, startingChild, call>>
  BY DEF FailStart, Others, poolVars, TellToStop
<1>2. PoolTypeOK
  BY DEF PoolInv
<1>3. \A v \in Calls : life'[v] = IF v = w THEN "failing" ELSE life[v]
  BY <1>1, <1>2 DEF Phase, PoolTypeOK
<1>4. LifeOK'
  BY <1>1, <1>3, LifeKept
<1>5. stopped' \subseteq alive'
  BY <1>1, <1>2 DEF PoolTypeOK
<1> QED
  BY <1>1, <1>2, <1>4, <1>5, StartKeeps DEF Lives, PoolTypeOK, Starting

LEMMA AfterFailureStep == ASSUME PoolInv, NEW w \in Calls, AfterFailure(w) PROVE PoolInv'
<1>1. /\ life[w] = "failing" /\ UNCHANGED Others
      /\ UNCHANGED <<ready, leaseKey, leases, epoch, tries, alive, stopped, call>>
  BY DEF AfterFailure, Others
<1>2. PoolTypeOK /\ KeyOf(w) \in Keys /\ w \notin alive
  BY CallFacts DEF PoolInv, CallsOK, AfterFailure, Gone
<1>3. CASE Current(w) /\ tries[w] < MaxTries
  <2>1. /\ Phase(w, "resolving") /\ UNCHANGED starting
        /\ startingChild' = IF startingChild[KeyOf(w)] = w THEN [startingChild EXCEPT ![KeyOf(w)] = None]
                            ELSE startingChild
    BY <1>3 DEF AfterFailure
  <2>2. \A v \in Calls : life'[v] = IF v = w THEN "resolving" ELSE life[v]
    BY <1>2, <2>1 DEF Phase, PoolTypeOK
  <2>3. /\ startingChild' \in [Keys -> Calls \cup {None}]
        /\ \A k \in Keys : startingChild'[k] \in {startingChild[k], None}
    BY <1>2, <2>1 DEF PoolTypeOK
  <2>4. LifeOK'
    BY <1>1, <1>2, <1>3, <2>2, LifeKept
  <2> QED
    BY <1>1, <1>2, <2>1, <2>3, <2>4, StartKeeps DEF Lives, PoolTypeOK, Starting
<1>4. CASE ~(Current(w) /\ tries[w] < MaxTries)
  <2>1. /\ Phase(w, "rejected")
        /\ starting' \in [Keys -> Calls \cup {None}] /\ startingChild' \in [Keys -> Calls \cup {None}]
        /\ \A k \in Keys : starting'[k] \in {starting[k], None} /\ startingChild'[k] \in {startingChild[k], None}
        /\ \A k \in Keys : starting'[k] # w
    BY <1>2, <1>4, RejectFacts DEF AfterFailure
  <2>2. \A v \in Calls : life'[v] = IF v = w THEN "rejected" ELSE life[v]
    BY <1>2, <2>1 DEF Phase, PoolTypeOK
  <2>3. LifeOK'
    BY <1>1, <1>2, <2>2, LifeKept
  <2> QED
    BY <1>1, <1>2, <2>1, <2>3, StartKeeps DEF Lives, PoolTypeOK
<1> QED
  BY <1>3, <1>4

LEMMA SupersededStep == ASSUME PoolInv, NEW w \in Calls, SupersededEnds(w) PROVE PoolInv'
<1>1. /\ life[w] = "superseded" /\ Phase(w, "rejected") /\ UNCHANGED Others
      /\ UNCHANGED <<starting, ready, leaseKey, leases, epoch, tries, alive, stopped, startingChild, call>>
  BY DEF SupersededEnds, Others, poolVars
<1>2. PoolTypeOK /\ w \notin alive
  BY CallFacts DEF PoolInv, SupersededEnds, Gone
<1>3. \A v \in Calls : life'[v] = IF v = w THEN "rejected" ELSE life[v]
  BY <1>1, <1>2 DEF Phase, PoolTypeOK
<1>4. LifeOK'
  BY <1>1, <1>2, <1>3, LifeKept
<1>5. \A k \in Keys : starting'[k] # w
  BY <1>1, CallFacts DEF PoolInv, ServesOK
<1> QED
  BY <1>1, <1>2, <1>4, <1>5, StartKeeps DEF Lives, PoolTypeOK

LEMMA DecoratedStep == ASSUME PoolInv, NEW w \in Calls, Decorated(w) PROVE PoolInv'
<1>1. /\ life[w] = "decorating" /\ UNCHANGED Others
      /\ UNCHANGED <<leaseKey, leases, epoch, tries, alive, call, barred, releasing, reload, stop, cancelled>>
  BY DEF Decorated, Others
<1>2. PoolTypeOK /\ KeyOf(w) \in Keys
  BY <1>1 DEF PoolInv, CallsOK
<1>3. CASE ~Current(w)
  <2>1. /\ Phase(w, "superseded") /\ stopped' = stopped \cup ({w} \cap alive)
        /\ startingChild' = [startingChild EXCEPT ![KeyOf(w)] = w] /\ UNCHANGED <<ready, starting>>
    BY <1>3 DEF Decorated, TellToStop
  <2>2. \A v \in Calls : life'[v] = IF v = w THEN "superseded" ELSE life[v]
    BY <1>2, <2>1 DEF Phase, PoolTypeOK
  <2>3. LifeOK'
    BY <1>1, <2>1, <2>2, LifeKept
  <2>4. /\ startingChild' \in [Keys -> Calls \cup {None}]
        /\ \A k \in Keys : startingChild'[k] = IF k = KeyOf(w) THEN w ELSE startingChild[k]
    BY <1>2, <2>1 DEF PoolTypeOK
  <2>5. \A k \in Keys : starting'[k] # w
    BY <1>3, <2>1, CallFacts DEF PoolInv, ServesOK, Current
  <2>6. stopped' \subseteq alive'
    BY <1>1, <1>2, <2>1 DEF PoolTypeOK
  <2> QED
    BY <1>1, <1>2, <2>1, <2>3, <2>4, <2>5, <2>6, StartKeeps DEF Lives, PoolTypeOK
<1>4. CASE Current(w)
  <2> DEFINE k == KeyOf(w)
  <2>1. /\ Phase(w, "ready") /\ ready' = [ready EXCEPT ![k] = w] /\ starting' = [starting EXCEPT ![k] = None]
        /\ startingChild' = [startingChild EXCEPT ![k] = None] /\ UNCHANGED stopped
    BY <1>4 DEF Decorated
  <2>2. /\ CallsOK' /\ ReloadsOK' /\ life' \in [Calls -> Lives]
        /\ \A v \in Calls : life'[v] = IF v = w THEN "ready" ELSE life[v]
        /\ \A v : KeyOf(v)' = KeyOf(v)
    BY <1>1, <2>1, StartMoves DEF Lives
  <2>3. /\ starting[k] = w /\ ready[k] = None /\ w # None /\ leases[w] = {}
    <3>1. starting[k] = w /\ ready[k] = None /\ w # None
      BY <1>2, <1>4, CallFacts DEF Current, PoolInv, ServesOK
    <3> QED
      BY <3>1, <1>2 DEF PoolInv, LeasesMatch
  <2>4. /\ \A j \in Keys : ready'[j] = IF j = k THEN w ELSE ready[j]
        /\ \A j \in Keys : starting'[j] = IF j = k THEN None ELSE starting[j]
        /\ \A j \in Keys : startingChild'[j] = IF j = k THEN None ELSE startingChild[j]
    BY <1>2, <2>1 DEF PoolTypeOK
  <2>5. PoolTypeOK'
    BY <1>1, <1>2, <2>1, <2>2 DEF PoolTypeOK, Lives
  <2>6. ServesOK'
    <3> SUFFICES ASSUME NEW j \in Keys
                 PROVE  /\ starting'[j] # None => call[starting'[j]].key = j /\ life'[starting'[j]] \in Starting
                        /\ ready'[j] # None => call[ready'[j]].key = j /\ life'[ready'[j]] = "ready"
                        /\ startingChild'[j] # None =>
                             call[startingChild'[j]].key = j /\ life'[startingChild'[j]] # "new"
                        /\ starting'[j] = None \/ ready'[j] = None
      BY <1>1 DEF ServesOK, KeyOf, Starting
    <3>1. /\ starting[j] \in Calls \cup {None} /\ ready[j] \in Calls \cup {None} /\ startingChild[j] \in Calls \cup {None}
      BY <1>2 DEF PoolTypeOK
    <3>2. /\ starting[j] # None => call[starting[j]].key = j /\ life[starting[j]] \in Starting
          /\ ready[j] # None => call[ready[j]].key = j /\ life[ready[j]] = "ready"
          /\ startingChild[j] # None => call[startingChild[j]].key = j /\ life[startingChild[j]] # "new"
          /\ starting[j] = None \/ ready[j] = None
      BY DEF PoolInv, ServesOK, KeyOf, Starting
    <3>3. CASE j = k
      BY <3>3, <2>2, <2>4 DEF KeyOf
    <3>4. CASE j # k
      <4>1. starting'[j] = starting[j] /\ ready'[j] = ready[j] /\ startingChild'[j] = startingChild[j]
        BY <3>4, <2>4
      <4>2. starting[j] # w
        BY <3>2, <3>4, <2>3 DEF KeyOf
      <4>3. \A v \in Calls : life[v] # "new" => life'[v] # "new"
        BY <2>2
      <4>4. \A v \in Calls : v # w => life'[v] = life[v]
        BY <2>2
      <4>5. ready[j] # w
        BY <3>1, <3>2, <1>1, CallFacts
      <4> QED
        BY <4>1, <4>2, <4>3, <4>4, <4>5, <3>1, <3>2
    <3> QED
      BY <3>3, <3>4
  <2>7. LifeOK'
    <3> SUFFICES ASSUME NEW v \in Calls
                 PROVE  /\ v \in alive => life'[v] \in {"waiting", "decorating", "failing", "superseded", "ready"}
                        /\ v \in alive \ stopped =>
                             life'[v] \in {"waiting", "decorating"} \/ (life'[v] = "ready" /\ ready'[KeyOf(v)] = v)
                        /\ life'[v] = "new" => tries[v] = 0
                        /\ life'[v] = "resolving" => tries[v] < MaxTries
      BY <1>1, <2>1 DEF LifeOK, KeyOf
    <3>1. CASE v = w
      BY <3>1, <1>2, <2>2, <2>4
    <3>2. CASE v # w
      <4>1. /\ v \in alive => life[v] \in {"waiting", "decorating", "failing", "superseded", "ready"}
            /\ v \in alive \ stopped =>
                 life[v] \in {"waiting", "decorating"} \/ (life[v] = "ready" /\ ready[KeyOf(v)] = v)
            /\ life[v] = "new" => tries[v] = 0
            /\ life[v] = "resolving" => tries[v] < MaxTries
        BY DEF PoolInv, LifeOK
      <4>2. life'[v] = life[v]
        BY <3>2, <2>2
      <4>3. life[v] # "new" => KeyOf(v) \in Keys
        BY DEF PoolInv, CallsOK
      <4>4. life[v] = "ready" /\ ready[KeyOf(v)] = v => ready'[KeyOf(v)] = v
        BY <4>3, <2>3, <2>4, CallFacts
      <4> QED
        BY <4>1, <4>2, <4>4
    <3> QED
      BY <3>1, <3>2
  <2>8. LeasesMatch'
    <3>1. ASSUME NEW l \in Calls, NEW j \in Keys
          PROVE  leaseKey[l] = j <=> ready'[j] # None /\ l \in leases[ready'[j]]
      BY <2>3, <2>4 DEF PoolInv, LeasesMatch
    <3>2. ASSUME NEW v \in Calls, leases[v] # {} PROVE ready'[KeyOf(v)] = v
      <4>1. ready[KeyOf(v)] = v /\ v # w
        BY <3>2, <2>3 DEF PoolInv, LeasesMatch
      <4>2. KeyOf(v) # k
        BY <4>1, <2>3, CallFacts
      <4> QED
        BY <4>1, <4>2, <2>1, <1>2 DEF PoolTypeOK
    <3> QED
      BY <3>1, <3>2, <1>1 DEF LeasesMatch, KeyOf
  <2>9. LimitOK'
    <3>1. Busy' \subseteq Busy
      BY <2>3, <2>4 DEF Busy
    <3> QED
      BY <3>1, LimitKept DEF PoolInv
  <2>10. StopsOK'
    <3>1. \A v \in Calls : life[v] # "new" /\ ~Current(v) => ~Current(v)' /\ life'[v] # "new"
      <4> SUFFICES ASSUME NEW v \in Calls, life[v] # "new", ~Current(v) PROVE ~Current(v)' /\ life'[v] # "new"
        OBVIOUS
      <4>1. call[v].key \in Keys /\ starting[call[v].key] # v /\ v # None
        BY CallFacts DEF Current, KeyOf, PoolInv, CallsOK
      <4>2. starting'[call[v].key] # v
        BY <4>1, <2>4
      <4> QED
        BY <4>2, <1>1, <2>2 DEF Current, KeyOf
    <3>2. \A v \in Calls : ~Current(v) /\ life[v] # "ready" => life'[v] # "ready"
      BY <1>4, <2>2
    <3> QED
      BY <1>1, <2>2, <3>1, <3>2, StopsKept
  <2> QED
    BY <2>2, <2>5, <2>6, <2>7, <2>8, <2>9, <2>10, Zenon DEF PoolInv
<1> QED
  BY <1>3, <1>4

LEMMA ExitStep == ASSUME PoolInv, NEW w \in Calls, Exit(w) PROVE PoolInv'
<1>1. /\ alive' = alive \ {w} /\ stopped' = stopped \ {w}
      /\ UNCHANGED <<starting, ready, leaseKey, leases, epoch, life, tries, startingChild, barred, call, releasing,
                     reload, stop, cancelled>>
  BY DEF Exit, poolVars, Others
<1>2. PoolTypeOK'
  BY <1>1 DEF PoolInv, PoolTypeOK
<1>3. CallsOK' /\ ServesOK'
  BY <1>1 DEF PoolInv, CallsOK, ServesOK, KeyOf
<1>4. LifeOK'
  BY <1>1, LifeKept DEF PoolInv, LifeOK, KeyOf
<1>5. LeasesMatch' /\ LimitOK'
  BY <1>1 DEF PoolInv, LeasesMatch, LimitOK, Busy, KeyOf
<1>6. StopsOK'
  BY <1>1 DEF PoolInv, StopsOK, Current, KeyOf
<1>7. ReloadsOK'
  BY <1>1 DEF PoolInv, ReloadsOK, ReloadOK, Reloading, KeyOf
<1> QED
  BY <1>2, <1>3, <1>4, <1>5, <1>6, <1>7 DEF PoolInv
-----------------------------------------------------------------------------
(* Leases.                                                                *)
\* Files are let go, by watches that are dead or are told to stop.
LEMMA LetGo ==
  ASSUME PoolInv, UNCHANGED <<life, tries, alive, call>>,
         \A k \in Keys : ready'[k] \in {ready[k], None} /\ starting'[k] \in {starting[k], None}
                         /\ startingChild'[k] \in {startingChild[k], None},
         stopped \subseteq stopped',
         \A w \in alive \ stopped' : life[w] = "ready" => ready'[KeyOf(w)] = ready[KeyOf(w)],
         \A l \in Calls : leaseKey'[l] \in {leaseKey[l], None},
         \A w \in Calls : leases'[w] \subseteq leases[w],
         \A l \in Calls : call[l].pc = "idle" => reload'[l].stage = "none"
  PROVE  CallsOK' /\ ServesOK' /\ LifeOK' /\ LimitOK' /\ (UNCHANGED stop => StopsOK')
<1>1. CallsOK'
  BY DEF PoolInv, CallsOK, KeyOf
<1>2. ServesOK'
  <2> SUFFICES ASSUME NEW k \in Keys
               PROVE  /\ starting'[k] # None =>
                           /\ call[starting'[k]].key = k
                           /\ life[starting'[k]] \in {"resolving", "waiting", "decorating", "failing"}
                      /\ ready'[k] # None => call[ready'[k]].key = k /\ life[ready'[k]] = "ready"
                      /\ startingChild'[k] # None => call[startingChild'[k]].key = k /\ life[startingChild'[k]] # "new"
                      /\ starting'[k] = None \/ ready'[k] = None
    BY DEF ServesOK, KeyOf
  <2> QED
    BY DEF PoolInv, ServesOK, KeyOf
<1>3. LifeOK'
  <2> SUFFICES ASSUME NEW w \in Calls, w \in alive \ stopped'
               PROVE  life[w] \in {"waiting", "decorating"} \/ (life[w] = "ready" /\ ready'[KeyOf(w)] = w)
    BY DEF LifeOK, KeyOf, PoolInv
  <2> QED
    BY DEF PoolInv, LifeOK
<1>4. LimitOK'
  <2>1. Busy' \subseteq Busy
    BY DEF Busy
  <2> QED
    BY <2>1, LimitKept DEF PoolInv
<1>5. ASSUME UNCHANGED stop PROVE StopsOK'
  <2>1. ASSUME NEW v \in Calls, life[v] # "new", ~Current(v) PROVE ~Current(v)'
    <3>1. call[v].key \in Keys /\ starting[call[v].key] # v /\ v # None
      BY <2>1, CallFacts DEF Current, KeyOf, PoolInv, CallsOK
    <3> QED
      BY <3>1 DEF Current, KeyOf
  <2> QED
    BY <1>5, <2>1, StopsKept DEF KeyOf
<1> QED
  BY <1>1, <1>2, <1>3, <1>4, <1>5

\* A reload keeps what it has while its lease stays let go and its epoch is not forgotten.
LEMMA ReloadKept ==
  ASSUME PoolInv, NEW l \in Calls, reload'[l] = reload[l], l \in cancelled' => l \in cancelled,
         \A c \in Calls : call[c].pc # "idle" => call'[c].key = call[c].key /\ call'[c].pc # "idle",
         \A c \in Calls : call[c].pc \in {"minted", "failed"} =>
           call'[c].pc = call[c].pc /\ leaseKey'[c] \in {leaseKey[c], None},
         l \in Reloading => epoch'[KeyOf(l)] \in Nat /\ epoch[KeyOf(l)] <= epoch'[KeyOf(l)]
  PROVE  ReloadOK(l)'
<1>1. /\ reload[l] \in [stage : Stages, epoch : Nat, next : Calls \cup {None}] /\ epoch \in [Keys -> Nat]
      /\ ReloadOK(l)
  BY DEF PoolInv, PoolTypeOK, ReloadsOK, Stages
<1>2. l \in Reloading' <=> l \in Reloading
  BY DEF Reloading
<1>3. l \in Reloading => reload[l].stage # "none"
  BY DEF Reloading
<1>4. l \in Reloading => call[l].pc # "idle" /\ KeyOf(l) \in Keys
  BY <1>1, <1>3 DEF ReloadOK, PoolInv, CallsOK
<1>5. l \in Reloading => KeyOf(l)' = KeyOf(l)
  BY <1>4 DEF KeyOf
<1>6. /\ l \in Reloading => reload[l].epoch <= epoch'[KeyOf(l)]
      /\ l \in Reloading /\ l \in cancelled => reload[l].epoch < epoch'[KeyOf(l)]
  <2> SUFFICES ASSUME l \in Reloading
               PROVE reload[l].epoch <= epoch'[KeyOf(l)] /\ (l \in cancelled => reload[l].epoch < epoch'[KeyOf(l)])
    OBVIOUS
  <2> DEFINE e == epoch[KeyOf(l)]
             f == epoch'[KeyOf(l)]
             g == reload[l].epoch
  <2>1. e \in Nat /\ f \in Nat /\ g \in Nat /\ e <= f /\ g <= e /\ (l \in cancelled => g < e)
    BY <1>1, <1>4 DEF ReloadOK
  <2> HIDE DEF e, f, g
  <2>2. g <= f /\ (l \in cancelled => g < f)
    BY <2>1
  <2> QED
    BY <2>2 DEF f, g
<1> DEFINE n == reload[l].next
<1>7. /\ reload[l].stage # "none" => leaseKey'[l] = None /\ call'[l].pc = "minted"
      /\ n # None => call'[n].pc # "idle"
      /\ reload[l].stage = "undoing" \/ (reload[l].stage = "failed" /\ n # None) =>
           call'[n].pc \in {"minted", "failed"} /\ leaseKey'[n] = None
  <2>1. reload[l].stage # "none" => leaseKey'[l] = None /\ call'[l].pc = "minted"
    BY <1>1 DEF ReloadOK
  <2>2. n \in Calls \cup {None} /\ (n # None => call'[n].pc # "idle")
    BY <1>1 DEF ReloadOK
  <2>3. reload[l].stage = "undoing" => n # None
    BY <1>1 DEF ReloadOK
  <2>4. reload[l].stage = "undoing" \/ (reload[l].stage = "failed" /\ n # None) =>
          call[n].pc \in {"minted", "failed"} /\ leaseKey[n] = None /\ n \in Calls
    BY <1>1, <2>2, <2>3 DEF ReloadOK
  <2> QED
    BY <2>1, <2>2, <2>4
<1>8. /\ reload[l].stage = "releasing" => n = None
      /\ reload[l].stage \in {"acquiring", "undoing"} => n # None
      /\ l \in cancelled => reload[l].stage \notin {"none", "ok"}
  BY <1>1 DEF ReloadOK
<1> QED
  BY <1>2, <1>5, <1>6, <1>7, <1>8 DEF ReloadOK

\* The epoch of a file is not forgotten while a reload is on.
LEMMA EpochKept ==
  ASSUME PoolInv, NEW k \in Keys, NEW busy \in BOOLEAN, epoch' = [epoch EXCEPT ![k] = EpochAfterCleanup(k, busy)]
  PROVE  epoch' \in [Keys -> Nat] /\ \A l \in Reloading : KeyOf(l) \in Keys => epoch'[KeyOf(l)] = epoch[KeyOf(l)]
<1>1. epoch \in [Keys -> Nat]
  BY DEF PoolInv, PoolTypeOK
<1>2. EpochAfterCleanup(k, busy) \in {epoch[k], 0}
  BY DEF EpochAfterCleanup
<1>3. epoch' \in [Keys -> Nat]
  BY <1>1, <1>2
<1>4. ASSUME NEW l \in Reloading, KeyOf(l) \in Keys PROVE epoch'[KeyOf(l)] = epoch[KeyOf(l)]
  <2>1. CASE KeyOf(l) = k
    <3>1. ReloadsOn(k) # {}
      BY <2>1 DEF ReloadsOn
    <3> QED
      BY <3>1, <2>1, <1>1 DEF EpochAfterCleanup
  <2>2. CASE KeyOf(l) # k
    BY <2>2, <1>1, <1>4
  <2> QED
    BY <2>1, <2>2
<1> QED
  BY <1>3, <1>4

LEMMA ReloadingKeys == ASSUME PoolInv PROVE \A l \in Reloading : l \in Calls /\ KeyOf(l) \in Keys
  BY DEF PoolInv, Reloading, ReloadsOK, ReloadOK, CallsOK

LEMMA EvictFacts ==
  ASSUME PoolInv, NEW k \in Keys, Crashed(k), Evict(k)
  PROVE  /\ ready' \in [Keys -> Calls \cup {None}] /\ leases' \in [Calls -> SUBSET Calls]
         /\ leaseKey' \in [Calls -> Keys \cup {None}] /\ epoch' \in [Keys -> Nat]
         /\ \A j \in Keys : ready'[j] = IF j = k THEN None ELSE ready[j]
         /\ \A l \in Calls : leaseKey'[l] \in {leaseKey[l], None}
         /\ \A w \in Calls : leases'[w] \subseteq leases[w]
         /\ \A l \in Reloading : epoch'[KeyOf(l)] = epoch[KeyOf(l)]
         /\ \A l \in Calls, j \in Keys : leaseKey'[l] = j <=> ready'[j] # None /\ l \in leases'[ready'[j]]
         /\ \A w \in Calls : leases'[w] # {} => ready'[KeyOf(w)] = w
<1> DEFINE r == ready[k]
<1>1. PoolTypeOK /\ r \in Calls /\ r \notin alive /\ KeyOf(r) = k
  BY DEF PoolInv, PoolTypeOK, Crashed, ServesOK
<1>2. /\ ready' = [ready EXCEPT ![k] = None] /\ leases' = [leases EXCEPT ![r] = {}]
      /\ leaseKey' = [l \in Calls |-> IF l \in leases[r] THEN None ELSE leaseKey[l]]
      /\ epoch' = [epoch EXCEPT ![k] = EpochAfterCleanup(k, starting[k] # None)]
  BY DEF Evict
<1>3. /\ ready' \in [Keys -> Calls \cup {None}] /\ leases' \in [Calls -> SUBSET Calls]
      /\ leaseKey' \in [Calls -> Keys \cup {None}]
      /\ \A j \in Keys : ready'[j] = IF j = k THEN None ELSE ready[j]
      /\ \A w \in Calls : leases'[w] = IF w = r THEN {} ELSE leases[w]
      /\ \A l \in Calls : leaseKey'[l] = IF l \in leases[r] THEN None ELSE leaseKey[l]
  BY <1>1, <1>2 DEF PoolTypeOK
<1>4. epoch' \in [Keys -> Nat] /\ \A l \in Reloading : epoch'[KeyOf(l)] = epoch[KeyOf(l)]
  BY <1>2, EpochKept, ReloadingKeys
<1>5. ASSUME NEW l \in Calls, NEW j \in Keys
      PROVE  leaseKey'[l] = j <=> ready'[j] # None /\ l \in leases'[ready'[j]]
  <2>1. leaseKey[l] = k <=> l \in leases[r]
    BY <1>1, CallFacts DEF PoolInv, LeasesMatch
  <2>2. leaseKey[l] = j <=> ready[j] # None /\ l \in leases[ready[j]]
    BY DEF PoolInv, LeasesMatch
  <2>3. CASE j = k
    BY <2>1, <2>3, <1>3, CallFacts
  <2>4. CASE j # k
    <3>1. ready[j] # None => ready[j] \in Calls /\ ready[j] # r
      BY <2>4, <1>1 DEF PoolInv, ServesOK, PoolTypeOK
    <3>2. ready'[j] = ready[j] /\ (ready[j] # None => leases'[ready[j]] = leases[ready[j]])
      BY <3>1, <2>4, <1>3
    <3>3. leaseKey'[l] = j <=> leaseKey[l] = j
      BY <2>1, <2>4, <1>3, CallFacts
    <3> QED
      BY <3>2, <3>3, <2>2
  <2> QED
    BY <2>3, <2>4
<1>6. ASSUME NEW w \in Calls, leases'[w] # {} PROVE ready'[KeyOf(w)] = w
  <2>1. w # r /\ leases[w] # {}
    BY <1>3, <1>6
  <2>2. ready[KeyOf(w)] = w
    BY <2>1 DEF PoolInv, LeasesMatch
  <2>3. KeyOf(w) # k
    BY <2>1, <2>2
  <2> QED
    BY <2>2, <2>3, <1>1, <1>2 DEF PoolTypeOK
<1> QED
  BY <1>3, <1>4, <1>5, <1>6

LEMMA HandleCrashStep == ASSUME PoolInv, NEW k \in Keys, HandleCrash(k) PROVE PoolInv'
<1>1. /\ Crashed(k) /\ Evict(k)
      /\ UNCHANGED <<starting, life, tries, alive, stopped, startingChild, barred, call, releasing, reload, stop, cancelled>>
  BY DEF HandleCrash, watchVars, Others
<1>2. /\ ready' \in [Keys -> Calls \cup {None}] /\ leases' \in [Calls -> SUBSET Calls]
      /\ leaseKey' \in [Calls -> Keys \cup {None}] /\ epoch' \in [Keys -> Nat]
      /\ \A j \in Keys : ready'[j] = IF j = k THEN None ELSE ready[j]
      /\ \A l \in Calls : leaseKey'[l] \in {leaseKey[l], None}
      /\ \A w \in Calls : leases'[w] \subseteq leases[w]
      /\ \A l \in Reloading : epoch'[KeyOf(l)] = epoch[KeyOf(l)]
      /\ \A l \in Calls, j \in Keys : leaseKey'[l] = j <=> ready'[j] # None /\ l \in leases'[ready'[j]]
      /\ \A w \in Calls : leases'[w] # {} => ready'[KeyOf(w)] = w
  BY <1>1, EvictFacts
<1>3. PoolTypeOK'
  BY <1>1, <1>2 DEF PoolInv, PoolTypeOK
<1>4. \A w \in alive \ stopped' : life[w] = "ready" => ready'[KeyOf(w)] = ready[KeyOf(w)]
  <2> SUFFICES ASSUME NEW w \in alive, life[w] = "ready", w \notin stopped PROVE ready'[KeyOf(w)] = ready[KeyOf(w)]
    BY <1>1
  <2>1. w \in Calls /\ ready[KeyOf(w)] = w
    BY DEF PoolInv, PoolTypeOK, LifeOK
  <2>2. KeyOf(w) # k
    BY <2>1, <1>1 DEF Crashed
  <2>3. KeyOf(w) \in Keys
    BY <2>1 DEF PoolInv, CallsOK
  <2> QED
    BY <2>2, <2>3, <1>2
<1>5. CallsOK' /\ ServesOK' /\ LifeOK' /\ LimitOK' /\ StopsOK'
  <2>1. \A j \in Keys : ready'[j] \in {ready[j], None}
    BY <1>2
  <2>2. \A l \in Calls : call[l].pc = "idle" => reload'[l].stage = "none"
    BY <1>1 DEF PoolInv, CallsOK
  <2> QED
    BY <1>1, <1>2, <1>4, <2>1, <2>2, LetGo
<1>6. LeasesMatch'
  BY <1>1, <1>2 DEF LeasesMatch, KeyOf
<1>7. ReloadsOK'
  <2> SUFFICES ASSUME NEW l \in Calls PROVE ReloadOK(l)'
    BY DEF ReloadsOK
  <2>1. l \in Reloading => epoch'[KeyOf(l)] \in Nat /\ epoch[KeyOf(l)] <= epoch'[KeyOf(l)]
    BY <1>2, ReloadingKeys
  <2> QED
    BY <1>1, <1>2, <2>1, ReloadKept
<1> QED
  BY <1>3, <1>5, <1>6, <1>7 DEF PoolInv

LEMMA ReleaseFacts ==
  ASSUME PoolInv, NEW l \in Calls, leaseKey[l] # None, ReleaseLease(l)
  PROVE  /\ ready' \in [Keys -> Calls \cup {None}] /\ leases' \in [Calls -> SUBSET Calls]
         /\ leaseKey' \in [Calls -> Keys \cup {None}] /\ stopped' \subseteq alive /\ stopped \subseteq stopped'
         /\ releasing' \in [Calls -> Calls \cup {None}]
         /\ leaseKey'[l] = None /\ \A c \in Calls : leaseKey'[c] \in {leaseKey[c], None}
         /\ \A j \in Keys : ready'[j] \in {ready[j], None}
         /\ \A w \in alive \ stopped' : life[w] = "ready" => ready'[KeyOf(w)] = ready[KeyOf(w)]
         /\ \A w \in Calls : leases'[w] \subseteq leases[w]
         /\ \A c \in Calls, j \in Keys : leaseKey'[c] = j <=> ready'[j] # None /\ c \in leases'[ready'[j]]
         /\ \A w \in Calls : leases'[w] # {} => ready'[KeyOf(w)] = w
<1> DEFINE k == leaseKey[l]
           r == ready[k]
           last == leases[r] = {l}
<1>1. PoolTypeOK /\ k \in Keys
  BY DEF PoolInv, PoolTypeOK
<1>2. r \in Calls /\ l \in leases[r] /\ KeyOf(r) = k
  BY <1>1 DEF PoolInv, LeasesMatch, PoolTypeOK, ServesOK
<1>3. /\ leaseKey' = [leaseKey EXCEPT ![l] = None] /\ leases' = [leases EXCEPT ![r] = @ \ {l}]
      /\ ready' = IF last THEN [ready EXCEPT ![k] = None] ELSE ready
      /\ stopped' = stopped \cup ((IF last THEN {r} ELSE {}) \cap alive)
      /\ releasing' = [releasing EXCEPT ![l] = IF last THEN r ELSE None]
  BY DEF ReleaseLease, TellToStop
<1>4. /\ ready' \in [Keys -> Calls \cup {None}] /\ leases' \in [Calls -> SUBSET Calls]
      /\ leaseKey' \in [Calls -> Keys \cup {None}] /\ stopped' \subseteq alive /\ stopped \subseteq stopped'
      /\ releasing' \in [Calls -> Calls \cup {None}]
      /\ \A c \in Calls : leaseKey'[c] = IF c = l THEN None ELSE leaseKey[c]
      /\ \A w \in Calls : leases'[w] = IF w = r THEN leases[r] \ {l} ELSE leases[w]
      /\ \A j \in Keys : ready'[j] = IF j = k /\ last THEN None ELSE ready[j]
  BY <1>1, <1>2, <1>3 DEF PoolTypeOK
<1>5. ASSUME NEW w \in alive \ stopped', life[w] = "ready" PROVE ready'[KeyOf(w)] = ready[KeyOf(w)]
  <2>1. w \in Calls /\ w \notin stopped /\ KeyOf(w) \in Keys
    BY <1>1, <1>4, <1>5 DEF PoolInv, PoolTypeOK, CallsOK
  <2>2. ready[KeyOf(w)] = w
    BY <2>1, <1>5 DEF PoolInv, LifeOK
  <2>3. last => w # r
    BY <1>3
  <2>4. ~(KeyOf(w) = k /\ last)
    BY <2>2, <2>3
  <2> QED
    BY <2>1, <2>4, <1>4
<1>6. ASSUME NEW c \in Calls, NEW j \in Keys
      PROVE  leaseKey'[c] = j <=> ready'[j] # None /\ c \in leases'[ready'[j]]
  <2>1. leaseKey[c] = j <=> ready[j] # None /\ c \in leases[ready[j]]
    BY DEF PoolInv, LeasesMatch
  <2>2. CASE j = k
    <3>1. CASE last
      BY <2>1, <2>2, <3>1, <1>4, CallFacts
    <3>2. CASE ~last
      <4>1. ready'[j] = r /\ ready[j] = r /\ r # None /\ j # None
        BY <2>2, <3>2, <1>2, <1>4, CallFacts
      <4>2. leases'[r] = leases[r] \ {l}
        BY <1>2, <1>4
      <4>3. leaseKey[c] = j <=> c \in leases[r]
        BY <2>1, <4>1
      <4> QED
        BY <4>1, <4>2, <4>3, <1>4
    <3> QED
      BY <3>1, <3>2
  <2>3. CASE j # k
    <3>1. ready[j] # None => ready[j] \in Calls /\ ready[j] # r
      BY <2>3, <1>2 DEF PoolInv, ServesOK, PoolTypeOK
    <3>2. ready'[j] = ready[j] /\ (leaseKey'[c] = j <=> leaseKey[c] = j)
      BY <2>3, <1>4, CallFacts
    <3> QED
      BY <3>1, <3>2, <2>1, <1>4
  <2> QED
    BY <2>2, <2>3
<1>7. ASSUME NEW w \in Calls, leases'[w] # {} PROVE ready'[KeyOf(w)] = w
  <2>1. leases[w] # {} /\ (w = r => ~last)
    BY <1>4, <1>7
  <2>2. ready[KeyOf(w)] = w
    BY <2>1 DEF PoolInv, LeasesMatch
  <2>3. ~(KeyOf(w) = k /\ last)
    BY <2>1, <2>2
  <2> QED
    BY <2>2, <2>3, <1>3, <1>1 DEF PoolTypeOK
<1>8. leaseKey'[l] = None /\ (\A c \in Calls : leaseKey'[c] \in {leaseKey[c], None})
      /\ (\A j \in Keys : ready'[j] \in {ready[j], None}) /\ (\A w \in Calls : leases'[w] \subseteq leases[w])
  BY <1>4
<1> HIDE DEF k, r, last
<1> QED
  BY <1>4, <1>5, <1>6, <1>7, <1>8

\* A lease is released, whatever that does to reloads.
LEMMA LeaseReleaseKeeps ==
  ASSUME PoolInv, NEW l \in Calls, leaseKey[l] # None, ReleaseLease(l),
         UNCHANGED <<starting, life, tries, alive, startingChild, barred, call, stop, cancelled>>,
         epoch' \in [Keys -> Nat],
         reload' \in [Calls -> [stage : Stages, epoch : Nat, next : Calls \cup {None}]],
         \A c \in Calls : call[c].pc = "idle" => reload'[c].stage = "none",
         ReloadsOK'
  PROVE  PoolInv'
<1>1. /\ ready' \in [Keys -> Calls \cup {None}] /\ leases' \in [Calls -> SUBSET Calls]
      /\ leaseKey' \in [Calls -> Keys \cup {None}] /\ stopped' \subseteq alive /\ stopped \subseteq stopped'
      /\ releasing' \in [Calls -> Calls \cup {None}]
      /\ \A c \in Calls : leaseKey'[c] \in {leaseKey[c], None}
      /\ \A j \in Keys : ready'[j] \in {ready[j], None}
      /\ \A w \in alive \ stopped' : life[w] = "ready" => ready'[KeyOf(w)] = ready[KeyOf(w)]
      /\ \A w \in Calls : leases'[w] \subseteq leases[w]
      /\ \A c \in Calls, j \in Keys : leaseKey'[c] = j <=> ready'[j] # None /\ c \in leases'[ready'[j]]
      /\ \A w \in Calls : leases'[w] # {} => ready'[KeyOf(w)] = w
  BY ReleaseFacts
<1>2. PoolTypeOK'
  BY <1>1 DEF PoolInv, PoolTypeOK, Stages
<1>3. CallsOK' /\ ServesOK' /\ LifeOK' /\ LimitOK' /\ StopsOK'
  BY <1>1, LetGo
<1>4. LeasesMatch'
  BY <1>1 DEF LeasesMatch, KeyOf
<1> QED
  BY <1>2, <1>3, <1>4 DEF PoolInv

LEMMA ReleaseCallStep == ASSUME PoolInv, NEW l \in Calls, ReleaseCall(l) PROVE PoolInv'
<1>1. /\ leaseKey[l] # None /\ ReleaseLease(l)
      /\ UNCHANGED <<starting, epoch, life, tries, alive, startingChild, barred, call, reload, stop, cancelled>>
  BY DEF ReleaseCall
<1>2. \A c \in Calls : leaseKey'[c] \in {leaseKey[c], None}
  BY <1>1, ReleaseFacts
<1>3. \A c \in Reloading : epoch[KeyOf(c)] \in Nat
  BY ReloadingKeys DEF PoolInv, PoolTypeOK
<1>4. ReloadsOK'
  <2> SUFFICES ASSUME NEW c \in Calls PROVE ReloadOK(c)'
    BY DEF ReloadsOK
  <2> QED
    BY <1>1, <1>2, <1>3, ReloadKept
<1> QED
  BY <1>1, <1>4, LeaseReleaseKeeps DEF PoolInv, PoolTypeOK, Stages, CallsOK

\* What changes only epochs, reloads and the wait of releases.
LEMMA ReloadFrame ==
  ASSUME PoolInv, UNCHANGED <<starting, ready, leaseKey, leases, life, tries, alive, stopped, startingChild, barred, call, stop>>,
         epoch' \in [Keys -> Nat], releasing' \in [Calls -> Calls \cup {None}], cancelled' \subseteq Calls,
         reload' \in [Calls -> [stage : Stages, epoch : Nat, next : Calls \cup {None}]],
         \A c \in Calls : call[c].pc = "idle" => reload'[c].stage = "none",
         ReloadsOK'
  PROVE  PoolInv'
<1>1. PoolTypeOK'
  BY DEF PoolInv, PoolTypeOK, Stages
<1>2. CallsOK' /\ ServesOK' /\ LifeOK'
  BY DEF PoolInv, CallsOK, ServesOK, LifeOK, KeyOf
<1>3. LeasesMatch' /\ LimitOK' /\ StopsOK'
  BY DEF PoolInv, LeasesMatch, LimitOK, Busy, StopsOK, Current, KeyOf
<1> QED
  BY <1>1, <1>2, <1>3 DEF PoolInv

LEMMA ReleaseEndsStep == ASSUME PoolInv, NEW l \in Calls, ReleaseEnds(l) PROVE PoolInv'
<1> DEFINE k == KeyOf(l)
           busy == ready[k] # None \/ starting[k] # None
<1>1. /\ releasing' = [releasing EXCEPT ![l] = None] /\ epoch' = [epoch EXCEPT ![k] = EpochAfterCleanup(k, busy)]
      /\ UNCHANGED <<starting, ready, leaseKey, leases, life, tries, alive, stopped, startingChild, barred, call, reload,
                     stop, cancelled>>
  BY DEF ReleaseEnds, watchVars
<1>2. PoolTypeOK
  BY DEF PoolInv
<1>3. epoch' \in [Keys -> Nat] /\ \A c \in Reloading : epoch'[KeyOf(c)] = epoch[KeyOf(c)]
  <2>1. CASE k \in Keys
    BY <1>1, <2>1, EpochKept, ReloadingKeys
  <2>2. CASE k \notin Keys
    <3>1. epoch' = [epoch EXCEPT ![k] = EpochAfterCleanup(k, busy)] /\ epoch \in [Keys -> Nat]
      BY <1>1, <1>2 DEF PoolTypeOK
    <3> HIDE DEF k, busy
    <3>2. epoch' \in [Keys -> Nat] /\ \A j \in Keys : epoch'[j] = epoch[j]
      BY <2>2, <3>1
    <3> QED
      BY <3>2, ReloadingKeys
  <2> QED
    BY <2>1, <2>2
<1>4. ReloadsOK'
  <2> SUFFICES ASSUME NEW c \in Calls PROVE ReloadOK(c)'
    BY DEF ReloadsOK
  <2>1. c \in Reloading => epoch'[KeyOf(c)] \in Nat /\ epoch[KeyOf(c)] <= epoch'[KeyOf(c)]
    BY <1>3, ReloadingKeys
  <2> QED
    BY <1>1, <2>1, ReloadKept
<1> QED
  BY <1>1, <1>2, <1>3, <1>4, ReloadFrame DEF PoolInv, PoolTypeOK, Stages, CallsOK

LEMMA ReleaseReloadingStep == ASSUME PoolInv, NEW l \in Calls, ReleaseReloading(l) PROVE PoolInv'
<1> DEFINE k == KeyOf(l)
<1>1. /\ l \in Reloading /\ epoch' = [epoch EXCEPT ![k] = @ + 1] /\ cancelled' = cancelled \cup {l}
      /\ UNCHANGED <<starting, ready, leaseKey, leases, life, tries, alive, stopped, startingChild, barred, call, releasing,
                     reload, stop>>
  BY DEF ReleaseReloading, watchVars
<1>2. PoolTypeOK /\ k \in Keys /\ epoch \in [Keys -> Nat]
  BY <1>1, ReloadingKeys DEF PoolInv, PoolTypeOK
<1>3. epoch' \in [Keys -> Nat] /\ (\A j \in Keys : epoch'[j] = IF j = k THEN epoch[k] + 1 ELSE epoch[j])
  BY <1>1, <1>2
<1>4. \A c \in Reloading : epoch'[KeyOf(c)] \in Nat /\ epoch[KeyOf(c)] \in Nat /\ epoch[KeyOf(c)] <= epoch'[KeyOf(c)]
  BY <1>2, <1>3, ReloadingKeys
<1>5. ReloadsOK'
  <2> SUFFICES ASSUME NEW c \in Calls PROVE ReloadOK(c)'
    BY DEF ReloadsOK
  <2>1. CASE c # l
    BY <1>1, <1>4, <2>1, ReloadKept
  <2>2. CASE c = l
    <3>1. ReloadOK(l) /\ reload[l].epoch \in Nat
      BY <1>2 DEF PoolInv, ReloadsOK, PoolTypeOK
    <3>2. /\ reload[l].epoch <= epoch[k] /\ epoch[k] \in Nat /\ epoch'[KeyOf(l)] = epoch[k] + 1
          /\ reload[l].stage \notin {"none", "ok"}
      BY <1>1, <1>2, <1>3, <3>1 DEF ReloadOK, Reloading
    <3>3. reload[l].epoch <= epoch'[KeyOf(l)] /\ reload[l].epoch < epoch'[KeyOf(l)]
      BY <3>1, <3>2
    <3>4. /\ KeyOf(l)' = k /\ reload' = reload /\ leaseKey' = leaseKey /\ call' = call
      BY <1>1 DEF KeyOf
    <3> QED
      BY <2>2, <3>1, <3>2, <3>3, <3>4 DEF ReloadOK, Reloading
  <2> QED
    BY <2>1, <2>2
<1> QED
  BY <1>1, <1>2, <1>3, <1>5, ReloadFrame DEF PoolInv, PoolTypeOK, Stages, CallsOK

LEMMA ReloadStarts == ASSUME PoolInv, NEW l \in Calls, Reload(l) PROVE PoolInv'
<1> DEFINE k == KeyOf(l)
           r == [stage |-> "releasing", epoch |-> epoch[k] + 1, next |-> None]
<1>1. /\ call[l].pc = "minted" /\ leaseKey[l] # None /\ l \notin Reloading /\ epoch' = [epoch EXCEPT ![k] = @ + 1]
      /\ reload' = [reload EXCEPT ![l] = r] /\ ReleaseLease(l)
      /\ UNCHANGED <<starting, life, tries, alive, startingChild, barred, call, stop, cancelled>>
  BY DEF Reload, Owned, SetReload
<1>2. PoolTypeOK /\ k \in Keys /\ epoch \in [Keys -> Nat] /\ reload \in [Calls -> [stage : Stages, epoch : Nat, next : Calls \cup {None}]]
  BY <1>1 DEF PoolInv, PoolTypeOK, CallsOK, Stages
<1>3. /\ epoch' \in [Keys -> Nat] /\ (\A j \in Keys : epoch'[j] = IF j = k THEN epoch[k] + 1 ELSE epoch[j])
      /\ r \in [stage : Stages, epoch : Nat, next : Calls \cup {None}]
  BY <1>1, <1>2 DEF Stages
<1>4. /\ reload' \in [Calls -> [stage : Stages, epoch : Nat, next : Calls \cup {None}]]
      /\ \A c \in Calls : reload'[c] = IF c = l THEN r ELSE reload[c]
  BY <1>1, <1>2, <1>3
<1>5. \A c \in Reloading : epoch'[KeyOf(c)] \in Nat /\ epoch[KeyOf(c)] \in Nat /\ epoch[KeyOf(c)] <= epoch'[KeyOf(c)]
  BY <1>2, <1>3, ReloadingKeys
<1>6. leaseKey'[l] = None /\ \A c \in Calls : leaseKey'[c] \in {leaseKey[c], None}
  BY <1>1, ReleaseFacts
<1>7. ReloadsOK'
  <2> SUFFICES ASSUME NEW c \in Calls PROVE ReloadOK(c)'
    BY DEF ReloadsOK
  <2>1. CASE c # l
    BY <1>1, <1>4, <1>5, <1>6, <2>1, ReloadKept
  <2>2. CASE c = l
    <3>1. l \notin cancelled
      BY <1>1 DEF PoolInv, ReloadsOK, ReloadOK
    <3>2. /\ reload'[l].stage = "releasing" /\ reload'[l].next = None /\ reload'[l].epoch = epoch'[KeyOf(l)]
      BY <1>2, <1>3, <1>4
    <3>3. epoch'[KeyOf(l)] <= epoch'[KeyOf(l)]
      BY <1>2, <1>3
    <3>4. KeyOf(l)' = k
      BY <1>1 DEF KeyOf
    <3> HIDE DEF r
    <3> QED
      BY <2>2, <3>1, <3>2, <3>3, <3>4, <1>1, <1>6 DEF ReloadOK
  <2> QED
    BY <2>1, <2>2
<1>8. \A c \in Calls : call[c].pc = "idle" => reload'[c].stage = "none"
  BY <1>1, <1>4 DEF PoolInv, CallsOK
<1> HIDE DEF r, k
<1> QED
  BY <1>1, <1>3, <1>4, <1>7, <1>8, LeaseReleaseKeeps

\* A reload that ends leaves the epochs of the others.
LEMMA EndReloadFacts ==
  ASSUME PoolInv, NEW l \in Reloading, NEW how \in {"ok", "failed"}, EndReload(l, how)
  PROVE  /\ epoch' \in [Keys -> Nat] /\ releasing' \in [Calls -> Calls \cup {None}]
         /\ reload' \in [Calls -> [stage : Stages, epoch : Nat, next : Calls \cup {None}]]
         /\ reload'[l] = [reload[l] EXCEPT !.stage = how]
         /\ \A c \in Calls \ {l} : reload'[c] = reload[c]
         /\ \A c \in Reloading \ {l} : epoch'[KeyOf(c)] = epoch[KeyOf(c)]
<1> DEFINE k == KeyOf(l)
<1>1. /\ PoolTypeOK /\ l \in Calls /\ k \in Keys /\ epoch \in [Keys -> Nat]
      /\ reload \in [Calls -> [stage : Stages, epoch : Nat, next : Calls \cup {None}]]
  BY ReloadingKeys DEF PoolInv, PoolTypeOK, Stages
<1>2. /\ reload' = [reload EXCEPT ![l] = [reload[l] EXCEPT !.stage = how]]
      /\ releasing' = [c \in Calls |-> IF c \in {l, reload[l].next} THEN None ELSE releasing[c]]
      /\ epoch' = IF ready[k] # None \/ starting[k] # None \/ ReloadsOn(k) # {l}
                  THEN epoch ELSE [epoch EXCEPT ![k] = 0]
  BY DEF EndReload, SetReload
<1>3. [reload[l] EXCEPT !.stage = how] \in [stage : Stages, epoch : Nat, next : Calls \cup {None}]
  BY <1>1 DEF Stages
<1>4. ASSUME NEW c \in Reloading \ {l} PROVE epoch'[KeyOf(c)] = epoch[KeyOf(c)]
  <2>1. CASE epoch' = epoch
    BY <2>1
  <2>2. CASE epoch' # epoch
    <3>1. ReloadsOn(k) = {l} /\ epoch' = [epoch EXCEPT ![k] = 0]
      BY <2>2, <1>2
    <3>2. KeyOf(c) # k /\ KeyOf(c) \in Keys
      BY <3>1, ReloadingKeys DEF ReloadsOn
    <3> QED
      BY <3>1, <3>2, <1>1
  <2> QED
    BY <2>1, <2>2
<1>5. releasing' \in [Calls -> Calls \cup {None}]
  BY <1>1, <1>2 DEF PoolTypeOK
<1> QED
  BY <1>1, <1>2, <1>3, <1>4, <1>5

LEMMA ReloadEnds ==
  ASSUME PoolInv, NEW l \in Reloading, NEW how \in {"ok", "failed"}, EndReload(l, how),
         UNCHANGED <<starting, ready, leaseKey, leases, watchVars, barred, call, stop, cancelled>>,
         how = "ok" => l \notin cancelled,
         how = "failed" /\ reload[l].next # None =>
           call[reload[l].next].pc \in {"minted", "failed"} /\ leaseKey[reload[l].next] = None
  PROVE  PoolInv'
<1>1. /\ epoch' \in [Keys -> Nat] /\ releasing' \in [Calls -> Calls \cup {None}]
      /\ reload' \in [Calls -> [stage : Stages, epoch : Nat, next : Calls \cup {None}]]
      /\ reload'[l] = [reload[l] EXCEPT !.stage = how]
      /\ \A c \in Calls \ {l} : reload'[c] = reload[c]
      /\ \A c \in Reloading \ {l} : epoch'[KeyOf(c)] = epoch[KeyOf(c)]
  BY EndReloadFacts
<1>2. /\ PoolTypeOK /\ l \in Calls /\ reload[l] \in [stage : Stages, epoch : Nat, next : Calls \cup {None}] /\ ReloadOK(l)
      /\ reload[l].stage # "none"
  BY ReloadingKeys DEF PoolInv, PoolTypeOK, Stages, ReloadsOK, Reloading
<1>3. reload'[l].stage = how /\ reload'[l].next = reload[l].next
  BY <1>1, <1>2
<1>4. ReloadsOK'
  <2> SUFFICES ASSUME NEW c \in Calls PROVE ReloadOK(c)'
    BY DEF ReloadsOK
  <2>1. CASE c # l
    <3>1. c \in Reloading => epoch'[KeyOf(c)] \in Nat /\ epoch[KeyOf(c)] <= epoch'[KeyOf(c)]
      BY <1>1, <2>1, ReloadingKeys
    <3> QED
      BY <1>1, <2>1, <3>1, ReloadKept
  <2>2. CASE c = l
    <3>1. l \notin Reloading'
      BY <1>3 DEF Reloading
    <3> QED
      BY <2>2, <3>1, <1>2, <1>3 DEF ReloadOK
  <2> QED
    BY <2>1, <2>2
<1>5. \A c \in Calls : call[c].pc = "idle" => reload'[c].stage = "none"
  BY <1>1, <1>2 DEF PoolInv, CallsOK, ReloadOK
<1> QED
  BY <1>1, <1>2, <1>4, <1>5, ReloadFrame DEF PoolTypeOK, watchVars

LEMMA ReloadReturnsStep == ASSUME PoolInv, NEW l \in Calls, ReloadReturns(l) PROVE PoolInv'
<1>1. /\ l \in Reloading /\ EndReload(l, "ok") /\ ~Superseded(l)
      /\ UNCHANGED <<starting, ready, leaseKey, leases, watchVars, barred, call, stop, cancelled>>
  BY DEF ReloadReturns, Reloading
<1>2. l \notin cancelled
  <2>1. epoch[KeyOf(l)] = reload[l].epoch /\ reload[l].epoch \in Nat
    BY <1>1 DEF Superseded, PoolInv, PoolTypeOK
  <2>2. l \in cancelled => reload[l].epoch < epoch[KeyOf(l)]
    BY <1>1 DEF PoolInv, ReloadsOK, ReloadOK
  <2> QED
    BY <2>1, <2>2
<1> QED
  BY <1>1, <1>2, ReloadEnds

LEMMA ReloadFailsStep == ASSUME PoolInv, NEW l \in Calls, ReloadFails(l) PROVE PoolInv'
<1>1. /\ l \in Reloading /\ EndReload(l, "failed")
      /\ UNCHANGED <<starting, ready, leaseKey, leases, watchVars, barred, call, stop, cancelled>>
  BY DEF ReloadFails, Reloading
<1> DEFINE n == reload[l].next
<1>2. ReloadOK(l) /\ n \in Calls \cup {None}
  BY DEF PoolInv, ReloadsOK, PoolTypeOK
<1>3. ASSUME n # None PROVE call[n].pc \in {"minted", "failed"} /\ leaseKey[n] = None
  <2>1. CASE reload[l].stage = "acquiring" /\ call[n].pc = "failed"
    BY <2>1, <1>2, <1>3 DEF PoolInv, CallsOK
  <2>2. CASE reload[l].stage = "undoing"
    BY <2>2, <1>2 DEF ReloadOK
  <2>3. reload[l].stage # "releasing"
    BY <1>2, <1>3 DEF ReloadOK
  <2> QED
    BY <2>1, <2>2, <2>3 DEF ReloadFails
<1> QED
  BY <1>1, <1>3, ReloadEnds

LEMMA ReloadUndoesStep == ASSUME PoolInv, NEW l \in Calls, ReloadUndoes(l) PROVE PoolInv'
<1> DEFINE n == reload[l].next
           r == [reload[l] EXCEPT !.stage = "undoing"]
<1>1. /\ reload[l].stage = "acquiring" /\ call[n].pc = "minted" /\ reload' = [reload EXCEPT ![l] = r]
      /\ IF leaseKey[n] # None THEN ReleaseLease(n) ELSE UNCHANGED <<leaseKey, leases, ready, stopped, releasing>>
      /\ UNCHANGED <<starting, epoch, life, tries, alive, startingChild, barred, call, stop, cancelled>>
  BY DEF ReloadUndoes, SetReload
<1>2. /\ PoolTypeOK /\ reload \in [Calls -> [stage : Stages, epoch : Nat, next : Calls \cup {None}]] /\ ReloadOK(l)
      /\ l \in Reloading
  BY <1>1 DEF PoolInv, PoolTypeOK, Stages, ReloadsOK, Reloading
<1>3. n \in Calls
  BY <1>1, <1>2 DEF ReloadOK
<1>4. /\ r \in [stage : Stages, epoch : Nat, next : Calls \cup {None}]
      /\ r.stage = "undoing" /\ r.next = n /\ r.epoch = reload[l].epoch
  BY <1>2 DEF Stages
<1>5. /\ reload' \in [Calls -> [stage : Stages, epoch : Nat, next : Calls \cup {None}]]
      /\ \A c \in Calls : reload'[c] = IF c = l THEN r ELSE reload[c]
  BY <1>1, <1>2, <1>4
<1>6. leaseKey'[n] = None /\ \A c \in Calls : leaseKey'[c] \in {leaseKey[c], None}
  BY <1>1, <1>3, ReleaseFacts
<1>7. ReloadsOK'
  <2> SUFFICES ASSUME NEW c \in Calls PROVE ReloadOK(c)'
    BY DEF ReloadsOK
  <2>1. CASE c # l
    <3>1. c \in Reloading => epoch'[KeyOf(c)] \in Nat /\ epoch[KeyOf(c)] <= epoch'[KeyOf(c)]
      BY <1>1, <1>2, ReloadingKeys DEF PoolTypeOK
    <3> QED
      BY <1>1, <1>5, <1>6, <2>1, <3>1, ReloadKept
  <2>2. CASE c = l
    <3>1. /\ reload'[l].stage = "undoing" /\ reload'[l].next = n /\ reload'[l].epoch = reload[l].epoch
      BY <1>4, <1>5
    <3>2. leaseKey'[l] = None /\ call'[l].pc = "minted" /\ n # None
      BY <1>1, <1>2, <1>6 DEF ReloadOK
    <3>3. KeyOf(l)' = KeyOf(l)
      BY <1>1 DEF KeyOf
    <3> HIDE DEF r, n
    <3> QED
      BY <2>2, <3>1, <3>2, <3>3, <1>1, <1>2, <1>6 DEF ReloadOK
  <2> QED
    BY <2>1, <2>2
<1>8. \A c \in Calls : call[c].pc = "idle" => reload'[c].stage = "none"
  BY <1>2, <1>5 DEF PoolInv, CallsOK, Reloading
<1> HIDE DEF r, n
<1>9. CASE leaseKey[n] # None
  BY <1>1, <1>2, <1>3, <1>5, <1>7, <1>8, <1>9, LeaseReleaseKeeps DEF PoolTypeOK
<1>10. CASE leaseKey[n] = None
  BY <1>1, <1>2, <1>5, <1>7, <1>8, <1>10, ReloadFrame DEF PoolTypeOK
<1> QED
  BY <1>9, <1>10
-----------------------------------------------------------------------------
(* Calls.                                                                 *)
\* A call moves on: it was idle, or waits for the start of its file.
LEMMA CallMoves ==
  ASSUME PoolInv, NEW c \in Calls, NEW k \in Keys, NEW at \in {"waiting", "minted", "failed"},
         NEW w \in Calls \cup {None}, SetCall(c, k, at, w),
         call[c].pc = "idle" \/ (call[c].pc = "waiting" /\ k = KeyOf(c))
  PROVE  /\ call' \in [Calls -> [pc : {"idle", "waiting", "minted", "failed"},
                                 key : Keys \cup {None}, watch : Calls \cup {None}]]
         /\ call'[c].pc = at /\ call'[c].key = k /\ call'[c].watch = w
         /\ \A x \in Calls \ {c} : call'[x] = call[x]
         /\ \A x \in Calls : call[x].pc # "idle" => call'[x].key = call[x].key /\ call'[x].pc # "idle"
         /\ \A x \in Calls : life[x] # "new" => call'[x].key = call[x].key /\ KeyOf(x) \in Keys
         /\ leaseKey[c] = None
<1>1. call \in [Calls -> [pc : {"idle", "waiting", "minted", "failed"},
                          key : Keys \cup {None}, watch : Calls \cup {None}]]
  BY DEF PoolInv, PoolTypeOK
<1>2. call' = [call EXCEPT ![c] = [pc |-> at, key |-> k, watch |-> w]]
  BY DEF SetCall
<1>3. \A x \in Calls : call'[x] = IF x = c THEN [pc |-> at, key |-> k, watch |-> w] ELSE call[x]
  BY <1>1, <1>2
<1>4. call' \in [Calls -> [pc : {"idle", "waiting", "minted", "failed"},
                           key : Keys \cup {None}, watch : Calls \cup {None}]]
  BY <1>1, <1>2
<1>5. \A x \in Calls : call[x].pc # "idle" => call'[x].key = call[x].key /\ call'[x].pc # "idle"
  BY <1>3 DEF KeyOf
<1>6. \A x \in Calls : life[x] # "new" => call[x].pc # "idle" /\ KeyOf(x) \in Keys
  BY DEF PoolInv, CallsOK
<1>7. leaseKey[c] = None
  BY DEF PoolInv, CallsOK
<1> QED
  BY <1>3, <1>4, <1>5, <1>6, <1>7

\* What does not depend on a call that moves on.
LEMMA CallFrame ==
  ASSUME PoolInv, UNCHANGED <<starting, ready, startingChild, life, tries, alive, stopped, stop>>,
         \A x \in Calls : life[x] # "new" => call'[x].key = call[x].key /\ KeyOf(x) \in Keys
  PROVE  ServesOK' /\ LifeOK' /\ LimitOK' /\ StopsOK'
<1>1. \A k \in Keys : /\ starting[k] # None => starting[k] \in Calls /\ life[starting[k]] # "new"
                      /\ ready[k] # None => ready[k] \in Calls /\ life[ready[k]] # "new"
                      /\ startingChild[k] # None => startingChild[k] \in Calls /\ life[startingChild[k]] # "new"
  BY DEF PoolInv, ServesOK, PoolTypeOK
<1>2. ServesOK'
  BY <1>1 DEF PoolInv, ServesOK, KeyOf
<1>3. LifeOK'
  BY DEF PoolInv, LifeOK, KeyOf
<1>4. LimitOK'
  BY DEF PoolInv, LimitOK, Busy
<1>5. StopsOK'
  <2> SUFFICES ASSUME NEW t \in Stops, NEW v \in stop[t].starts \cup stop[t].children
               PROVE  /\ life[v] # "new" /\ starting[call'[v].key] # v
                      /\ v \in stop[t].starts => life[v] # "ready"
                      /\ stop[t].pc = "done" => v \notin alive
    BY DEF StopsOK, Current, KeyOf
  <2>1. v \in Calls
    BY DEF PoolInv, PoolTypeOK
  <2> QED
    BY <2>1 DEF PoolInv, StopsOK, Current, KeyOf
<1> QED
  BY <1>2, <1>3, <1>4, <1>5

\* The reload of no other lease notices.
LEMMA OtherReloads ==
  ASSUME PoolInv, NEW c \in Calls, call[c].pc \in {"idle", "waiting"}, NEW l \in Calls,
         reload'[l] = reload[l], UNCHANGED cancelled,
         \A x \in Calls \ {c} : call'[x] = call[x] /\ leaseKey'[x] \in {leaseKey[x], None},
         \A x \in Calls : call[x].pc # "idle" => call'[x].key = call[x].key /\ call'[x].pc # "idle",
         \A x \in Reloading : epoch'[KeyOf(x)] = epoch[KeyOf(x)]
  PROVE  ReloadOK(l)'
<1>1. \A x \in Calls : call[x].pc \in {"minted", "failed"} =>
        call'[x].pc = call[x].pc /\ leaseKey'[x] \in {leaseKey[x], None}
  OBVIOUS
<1>2. l \in Reloading => epoch'[KeyOf(l)] \in Nat /\ epoch[KeyOf(l)] <= epoch'[KeyOf(l)]
  BY ReloadingKeys DEF PoolInv, PoolTypeOK
<1> QED
  BY <1>1, <1>2, ReloadKept

\* A call fails, or waits.
LEMMA CallOnly ==
  ASSUME PoolInv, NEW c \in Calls, NEW k \in Keys, NEW at \in {"waiting", "failed"},
         NEW w \in Calls \cup {None}, SetCall(c, k, at, w), at = "waiting" => w \in Calls,
         call[c].pc = "idle" \/ (call[c].pc = "waiting" /\ k = KeyOf(c)),
         UNCHANGED <<starting, ready, leaseKey, leases, epoch, startingChild, life, tries, alive, stopped, stop, barred, cancelled>>,
         releasing' = releasing,
         reload' \in [Calls -> [stage : Stages, epoch : Nat, next : Calls \cup {None}]],
         \A x \in Calls : call[x].pc = "idle" => reload'[x].stage = "none"
  PROVE  /\ PoolTypeOK' /\ CallsOK' /\ ServesOK' /\ LifeOK' /\ LimitOK' /\ StopsOK' /\ LeasesMatch'
<1>1. /\ call' \in [Calls -> [pc : {"idle", "waiting", "minted", "failed"},
                              key : Keys \cup {None}, watch : Calls \cup {None}]]
      /\ call'[c].pc = at /\ call'[c].key = k /\ call'[c].watch = w
      /\ \A x \in Calls \ {c} : call'[x] = call[x]
      /\ \A x \in Calls : life[x] # "new" => call'[x].key = call[x].key /\ KeyOf(x) \in Keys
      /\ leaseKey[c] = None
  BY CallMoves
<1>2. PoolTypeOK'
  BY <1>1 DEF PoolInv, PoolTypeOK, Stages
<1>3. CallsOK'
  BY <1>1 DEF PoolInv, CallsOK, KeyOf
<1>4. ServesOK' /\ LifeOK' /\ LimitOK' /\ StopsOK'
  BY <1>1, CallFrame
<1>5. LeasesMatch'
  <2>1. \A v \in Calls : leases[v] # {} => ready[call'[v].key] = v
    BY <1>1 DEF PoolInv, LeasesMatch, CallsOK, KeyOf
  <2> QED
    BY <2>1 DEF PoolInv, LeasesMatch, KeyOf
<1> QED
  BY <1>2, <1>3, <1>4, <1>5

\* A lease is minted on the watch that serves the file.
LEMMA MintKeeps ==
  ASSUME PoolInv, NEW c \in Calls, NEW k \in Keys, ready[k] # None, Mint(c, k, ready[k]),
         call[c].pc = "idle" \/ (call[c].pc = "waiting" /\ k = KeyOf(c)),
         UNCHANGED <<starting, ready, epoch, startingChild, life, tries, alive, stopped, stop, barred, cancelled>>,
         releasing' = releasing,
         reload' \in [Calls -> [stage : Stages, epoch : Nat, next : Calls \cup {None}]],
         \A x \in Calls : call[x].pc = "idle" => reload'[x].stage = "none"
  PROVE  /\ PoolTypeOK' /\ CallsOK' /\ ServesOK' /\ LifeOK' /\ LimitOK' /\ StopsOK' /\ LeasesMatch'
         /\ \A x \in Calls \ {c} : leaseKey'[x] = leaseKey[x]
<1> DEFINE w == ready[k]
<1>0. /\ PoolTypeOK /\ w \in Calls /\ KeyOf(w) = k /\ life[w] = "ready"
  BY DEF PoolInv, PoolTypeOK, ServesOK
<1>1. /\ call' \in [Calls -> [pc : {"idle", "waiting", "minted", "failed"},
                              key : Keys \cup {None}, watch : Calls \cup {None}]]
      /\ call'[c].pc = "minted" /\ call'[c].key = k
      /\ \A x \in Calls \ {c} : call'[x] = call[x]
      /\ \A x \in Calls : life[x] # "new" => call'[x].key = call[x].key /\ KeyOf(x) \in Keys
      /\ leaseKey[c] = None
  BY <1>0, CallMoves DEF Mint
<1>2. /\ leases' = [leases EXCEPT ![w] = @ \cup {c}] /\ leaseKey' = [leaseKey EXCEPT ![c] = k]
  BY DEF Mint
<1>3. /\ leases' \in [Calls -> SUBSET Calls] /\ leaseKey' \in [Calls -> Keys \cup {None}]
      /\ \A v \in Calls : leases'[v] = IF v = w THEN leases[w] \cup {c} ELSE leases[v]
      /\ \A x \in Calls : leaseKey'[x] = IF x = c THEN k ELSE leaseKey[x]
  BY <1>0, <1>2 DEF PoolTypeOK
<1>4. PoolTypeOK'
  BY <1>0, <1>1, <1>3 DEF PoolTypeOK, Stages
<1>5. CallsOK'
  BY <1>0, <1>1, <1>3 DEF PoolInv, CallsOK, KeyOf
<1>6. ServesOK' /\ LifeOK' /\ LimitOK' /\ StopsOK'
  BY <1>1, CallFrame
<1>7. ASSUME NEW l \in Calls, NEW j \in Keys
      PROVE  leaseKey'[l] = j <=> ready[j] # None /\ l \in leases'[ready[j]]
  <2>1. leaseKey[l] = j <=> ready[j] # None /\ l \in leases[ready[j]]
    BY DEF PoolInv, LeasesMatch
  <2>2. CASE j = k
    BY <2>1, <2>2, <1>0, <1>3
  <2>3. CASE j # k
    <3>1. ready[j] # None => ready[j] \in Calls /\ ready[j] # w
      BY <2>3, <1>0 DEF PoolInv, ServesOK, PoolTypeOK
    <3>2. leaseKey'[l] = j <=> leaseKey[l] = j
      BY <2>3, <1>1, <1>3, CallFacts
    <3> QED
      BY <3>1, <3>2, <2>1, <1>3
  <2> QED
    BY <2>2, <2>3
<1>8. ASSUME NEW v \in Calls, leases'[v] # {} PROVE ready[call'[v].key] = v
  <2>1. CASE v = w
    BY <2>1, <1>0, <1>1 DEF KeyOf
  <2>2. CASE v # w
    <3>1. leases[v] # {}
      BY <2>2, <1>3, <1>8
    <3> QED
      BY <3>1, <1>1 DEF PoolInv, LeasesMatch, CallsOK, KeyOf
  <2> QED
    BY <2>1, <2>2
<1>9. LeasesMatch'
  BY <1>7, <1>8 DEF LeasesMatch, KeyOf
<1>10. \A x \in Calls \ {c} : leaseKey'[x] = leaseKey[x]
  BY <1>3
<1> QED
  BY <1>4, <1>5, <1>6, <1>9, <1>10

\* A start begins, for a file that nothing starts or serves any more.
LEMMA BeginKeeps ==
  ASSUME PoolInv, NEW c \in Calls, NEW k \in Keys, call[c].pc = "idle", Begin(c, k), starting[k] = None,
         UNCHANGED <<tries, alive, stopped, startingChild, barred, stop, cancelled>>, releasing' = releasing,
         reload' \in [Calls -> [stage : Stages, epoch : Nat, next : Calls \cup {None}]],
         \A x \in Calls : call[x].pc = "idle" => reload'[x].stage = "none",
         ready' \in [Keys -> Calls \cup {None}], leases' \in [Calls -> SUBSET Calls],
         leaseKey' \in [Calls -> Keys \cup {None}], epoch' \in [Keys -> Nat],
         \A j \in Keys : ready'[j] = IF j = k THEN None ELSE ready[j],
         ready[k] # None => ready[k] \notin alive,
         \A l \in Calls : leaseKey'[l] \in {leaseKey[l], None},
         \A w \in Calls : leases'[w] \subseteq leases[w],
         \A l \in Calls, j \in Keys : leaseKey'[l] = j <=> ready'[j] # None /\ l \in leases'[ready'[j]],
         \A w \in Calls : leases'[w] # {} => ready'[KeyOf(w)] = w,
         LimitOK'
  PROVE  /\ PoolTypeOK' /\ CallsOK' /\ ServesOK' /\ LifeOK' /\ LimitOK' /\ StopsOK' /\ LeasesMatch'
<1>0. /\ PoolTypeOK /\ life[c] = "new" /\ tries[c] = 0 /\ c \notin alive /\ leases[c] = {} /\ c # None
  BY CallFacts DEF PoolInv, CallsOK, LifeOK
<1>1. /\ call' \in [Calls -> [pc : {"idle", "waiting", "minted", "failed"},
                              key : Keys \cup {None}, watch : Calls \cup {None}]]
      /\ call'[c].pc = "waiting" /\ call'[c].key = k /\ call'[c].watch = c
      /\ \A x \in Calls \ {c} : call'[x] = call[x]
      /\ \A x \in Calls : life[x] # "new" => call'[x].key = call[x].key /\ KeyOf(x) \in Keys
      /\ leaseKey[c] = None
  BY CallMoves DEF Begin
<1>2. /\ starting' = [starting EXCEPT ![k] = c] /\ life' = [life EXCEPT ![c] = "resolving"]
  BY DEF Begin
<1>3. /\ starting' \in [Keys -> Calls \cup {None}] /\ life' \in [Calls -> Lives]
      /\ \A j \in Keys : starting'[j] = IF j = k THEN c ELSE starting[j]
      /\ \A x \in Calls : life'[x] = IF x = c THEN "resolving" ELSE life[x]
  BY <1>0, <1>2 DEF PoolTypeOK, Lives
<1>4. PoolTypeOK'
  BY <1>0, <1>1, <1>3 DEF PoolTypeOK, Stages, Lives
<1>5. CallsOK'
  <2> SUFFICES ASSUME NEW x \in Calls
               PROVE  /\ call'[x].pc = "idle" => life'[x] = "new" /\ reload'[x].stage = "none"
                      /\ call'[x].pc # "idle" => call'[x].key \in Keys
                      /\ call'[x].pc = "waiting" => call'[x].watch \in Calls
                      /\ leaseKey'[x] # None => call'[x].pc = "minted"
                      /\ leases'[x] # {} => life'[x] = "ready"
    BY DEF CallsOK, KeyOf
  <2>1. CASE x = c
    BY <2>1, <1>0, <1>1
  <2>2. CASE x # c
    <3>1. call'[x] = call[x] /\ life'[x] = life[x] /\ leaseKey'[x] \in {leaseKey[x], None} /\ leases'[x] \subseteq leases[x]
      BY <2>2, <1>1, <1>3
    <3> QED
      BY <3>1 DEF PoolInv, CallsOK, KeyOf
  <2> QED
    BY <2>1, <2>2
<1>6. ServesOK'
  <2> SUFFICES ASSUME NEW j \in Keys
               PROVE  /\ starting'[j] # None => call'[starting'[j]].key = j /\ life'[starting'[j]] \in Starting
                      /\ ready'[j] # None => call'[ready'[j]].key = j /\ life'[ready'[j]] = "ready"
                      /\ startingChild[j] # None =>
                           call'[startingChild[j]].key = j /\ life'[startingChild[j]] # "new"
                      /\ starting'[j] = None \/ ready'[j] = None
    BY DEF ServesOK, KeyOf, Starting
  <2>1. /\ starting[j] \in Calls \cup {None} /\ ready[j] \in Calls \cup {None} /\ startingChild[j] \in Calls \cup {None}
    BY <1>0 DEF PoolTypeOK
  <2>2. /\ starting[j] # None => call[starting[j]].key = j /\ life[starting[j]] \in Starting
        /\ ready[j] # None => call[ready[j]].key = j /\ life[ready[j]] = "ready"
        /\ startingChild[j] # None => call[startingChild[j]].key = j /\ life[startingChild[j]] # "new"
        /\ starting[j] = None \/ ready[j] = None
    BY DEF PoolInv, ServesOK, KeyOf, Starting
  <2>3. \A x \in Calls : life[x] # "new" => x # c /\ call'[x] = call[x] /\ life'[x] = life[x]
    BY <1>0, <1>1, <1>3
  <2>4. startingChild[j] # None => call'[startingChild[j]].key = j /\ life'[startingChild[j]] # "new"
    BY <2>1, <2>2, <2>3
  <2>5. ready[j] # None => call'[ready[j]].key = j /\ life'[ready[j]] = "ready"
    BY <2>1, <2>2, <2>3
  <2>6. starting[j] # None => call'[starting[j]].key = j /\ life'[starting[j]] \in Starting
    BY <2>1, <2>2, <2>3 DEF Starting
  <2>7. CASE j = k
    <3>1. starting'[j] = c /\ ready'[j] = None /\ call'[c].key = j /\ life'[c] \in Starting
      BY <2>7, <1>1, <1>3 DEF Starting
    <3> QED
      BY <3>1, <2>4
  <2>8. CASE j # k
    <3>1. starting'[j] = starting[j] /\ ready'[j] = ready[j]
      BY <2>8, <1>3
    <3> QED
      BY <3>1, <2>2, <2>4, <2>5, <2>6
  <2> QED
    BY <2>7, <2>8
<1>7. LifeOK'
  <2> SUFFICES ASSUME NEW v \in Calls
               PROVE  /\ v \in alive => life'[v] \in {"waiting", "decorating", "failing", "superseded", "ready"}
                      /\ v \in alive \ stopped =>
                           life'[v] \in {"waiting", "decorating"} \/ (life'[v] = "ready" /\ ready'[call'[v].key] = v)
                      /\ life'[v] = "new" => tries[v] = 0
                      /\ life'[v] = "resolving" => tries[v] < MaxTries
    BY DEF LifeOK, KeyOf
  <2>1. CASE v = c
    BY <2>1, <1>0, <1>3 DEF MaxTries
  <2>2. CASE v # c
    <3>1. /\ v \in alive => life[v] \in {"waiting", "decorating", "failing", "superseded", "ready"}
          /\ v \in alive \ stopped =>
               life[v] \in {"waiting", "decorating"} \/ (life[v] = "ready" /\ ready[KeyOf(v)] = v)
          /\ life[v] = "new" => tries[v] = 0
          /\ life[v] = "resolving" => tries[v] < MaxTries
      BY DEF PoolInv, LifeOK
    <3>2. life'[v] = life[v] /\ call'[v] = call[v]
      BY <2>2, <1>1, <1>3
    <3>3. v \in alive /\ life[v] = "ready" /\ ready[KeyOf(v)] = v => ready'[call'[v].key] = v
      <4>1. life[v] = "ready" => KeyOf(v) \in Keys
        BY <1>1
      <4>2. v \in alive /\ ready[KeyOf(v)] = v => KeyOf(v) # k
        BY CallFacts
      <4> QED
        BY <4>1, <4>2, <3>2 DEF KeyOf
    <3> QED
      BY <3>1, <3>2, <3>3
  <2> QED
    BY <2>1, <2>2
<1>8. LeasesMatch'
  <2>1. ASSUME NEW v \in Calls, leases'[v] # {} PROVE ready'[call'[v].key] = v
    <3>1. v # c
      BY <2>1, <1>0
    <3> QED
      BY <3>1, <2>1, <1>1 DEF KeyOf
  <2> QED
    BY <2>1 DEF LeasesMatch, KeyOf
<1>9. StopsOK'
  <2> SUFFICES ASSUME NEW t \in Stops, NEW v \in stop[t].starts \cup stop[t].children
               PROVE  /\ life'[v] # "new" /\ starting'[call'[v].key] # v
                      /\ v \in stop[t].starts => life'[v] # "ready"
                      /\ stop[t].pc = "done" => v \notin alive
    BY DEF StopsOK, Current, KeyOf
  <2>1. /\ v \in Calls /\ life[v] # "new" /\ starting[call[v].key] # v
        /\ v \in stop[t].starts => life[v] # "ready"
        /\ stop[t].pc = "done" => v \notin alive
    BY <1>0 DEF PoolInv, StopsOK, PoolTypeOK, Current, KeyOf
  <2>2. v # c /\ call'[v] = call[v] /\ life'[v] = life[v] /\ call[v].key \in Keys
    BY <2>1, <1>0, <1>1, <1>3 DEF KeyOf
  <2> QED
    BY <2>1, <2>2, <1>3
<1> QED
  BY <1>4, <1>5, <1>6, <1>7, <1>8, <1>9

\* acquire, whatever the reload that may have made it becomes.
LEMMA AcquireKeeps ==
  ASSUME PoolInv, NEW c \in Calls, NEW k \in Keys, call[c].pc = "idle", AcquireNow(c, k),
         UNCHANGED <<tries, alive, stopped, startingChild, barred, releasing, stop, cancelled>>,
         reload' \in [Calls -> [stage : Stages, epoch : Nat, next : Calls \cup {None}]],
         \A x \in Calls : call[x].pc = "idle" => reload'[x].stage = "none"
  PROVE  /\ PoolTypeOK' /\ CallsOK' /\ ServesOK' /\ LifeOK' /\ LimitOK' /\ StopsOK' /\ LeasesMatch'
         /\ call'[c].pc # "idle"
         /\ \A x \in Calls \ {c} : call'[x] = call[x] /\ leaseKey'[x] \in {leaseKey[x], None}
         /\ \A x \in Calls : call[x].pc # "idle" => call'[x].key = call[x].key /\ call'[x].pc # "idle"
         /\ \A x \in Reloading : epoch'[KeyOf(x)] = epoch[KeyOf(x)]
<1> USE DEF poolVars
<1>0. PoolTypeOK /\ (starting[k] # None => starting[k] \in Calls)
  BY DEF PoolInv, PoolTypeOK
<1>1. ASSUME NEW at \in {"waiting", "minted", "failed"}, NEW w \in Calls \cup {None}, SetCall(c, k, at, w)
      PROVE  /\ call'[c].pc # "idle" /\ \A x \in Calls \ {c} : call'[x] = call[x]
             /\ \A x \in Calls : call[x].pc # "idle" => call'[x].key = call[x].key /\ call'[x].pc # "idle"
  BY <1>1, CallMoves
<1>2. CASE SetCall(c, k, "failed", None) /\ UNCHANGED <<poolVars, life>>
  <2>1. /\ call'[c].pc # "idle" /\ \A x \in Calls \ {c} : call'[x] = call[x]
        /\ \A x \in Calls : call[x].pc # "idle" => call'[x].key = call[x].key /\ call'[x].pc # "idle"
    BY <1>1, <1>2
  <2>2. /\ PoolTypeOK' /\ CallsOK' /\ ServesOK' /\ LifeOK' /\ LimitOK' /\ StopsOK' /\ LeasesMatch'
    BY <1>2, CallOnly
  <2> QED
    BY <1>2, <2>1, <2>2
<1>3. CASE starting[k] # None /\ SetCall(c, k, "waiting", starting[k]) /\ UNCHANGED <<poolVars, life>>
  <2>1. /\ call'[c].pc # "idle" /\ \A x \in Calls \ {c} : call'[x] = call[x]
        /\ \A x \in Calls : call[x].pc # "idle" => call'[x].key = call[x].key /\ call'[x].pc # "idle"
    BY <1>0, <1>1, <1>3
  <2>2. /\ PoolTypeOK' /\ CallsOK' /\ ServesOK' /\ LifeOK' /\ LimitOK' /\ StopsOK' /\ LeasesMatch'
    BY <1>0, <1>3, CallOnly
  <2> QED
    BY <1>3, <2>1, <2>2
<1>4. CASE ready[k] # None /\ Mint(c, k, ready[k]) /\ UNCHANGED <<starting, ready, epoch, life>>
  <2>1. ready[k] \in Calls
    BY <1>0, <1>4 DEF PoolTypeOK
  <2>2. /\ call'[c].pc # "idle" /\ \A x \in Calls \ {c} : call'[x] = call[x]
        /\ \A x \in Calls : call[x].pc # "idle" => call'[x].key = call[x].key /\ call'[x].pc # "idle"
    BY <1>1, <1>4, <2>1 DEF Mint
  <2>3. /\ PoolTypeOK' /\ CallsOK' /\ ServesOK' /\ LifeOK' /\ LimitOK' /\ StopsOK' /\ LeasesMatch'
        /\ \A x \in Calls \ {c} : leaseKey'[x] = leaseKey[x]
    BY <1>4, MintKeeps
  <2> QED
    BY <1>4, <2>2, <2>3
<1>5. CASE ready[k] = None /\ starting[k] = None /\ Load < MaxConcurrent /\ Begin(c, k)
           /\ UNCHANGED <<ready, leaseKey, leases, epoch>>
  <2>1. /\ call'[c].pc # "idle" /\ \A x \in Calls \ {c} : call'[x] = call[x]
        /\ \A x \in Calls : call[x].pc # "idle" => call'[x].key = call[x].key /\ call'[x].pc # "idle"
    BY <1>1, <1>5 DEF Begin
  <2>2. LimitOK'
    <3>1. starting' = [starting EXCEPT ![k] = c] /\ ready' = ready /\ starting \in [Keys -> Calls \cup {None}]
      BY <1>0, <1>5 DEF Begin, PoolTypeOK
    <3>2. Busy' = Busy \cup {k}
      BY <3>1, CallFacts DEF Busy
    <3> QED
      BY <3>2, <1>5, LimitReached DEF PoolInv
  <2>3. /\ PoolTypeOK' /\ CallsOK' /\ ServesOK' /\ LifeOK' /\ LimitOK' /\ StopsOK' /\ LeasesMatch'
    <3>1. /\ ready' \in [Keys -> Calls \cup {None}] /\ leases' \in [Calls -> SUBSET Calls]
          /\ leaseKey' \in [Calls -> Keys \cup {None}] /\ epoch' \in [Keys -> Nat]
      BY <1>0, <1>5 DEF PoolTypeOK
    <3>2. /\ \A j \in Keys : ready'[j] = IF j = k THEN None ELSE ready[j]
          /\ \A l \in Calls : leaseKey'[l] \in {leaseKey[l], None}
          /\ \A w \in Calls : leases'[w] \subseteq leases[w]
      BY <1>5
    <3>3. /\ \A l \in Calls, j \in Keys : leaseKey'[l] = j <=> ready'[j] # None /\ l \in leases'[ready'[j]]
          /\ \A w \in Calls : leases'[w] # {} => ready'[KeyOf(w)] = w
      BY <1>5 DEF PoolInv, LeasesMatch
    <3> QED
      BY <1>5, <2>2, <3>1, <3>2, <3>3, BeginKeeps
  <2> QED
    BY <1>5, <2>1, <2>3
<1>6. CASE Crashed(k) /\ Evict(k) /\ Begin(c, k)
  <2>1. /\ call'[c].pc # "idle" /\ \A x \in Calls \ {c} : call'[x] = call[x]
        /\ \A x \in Calls : call[x].pc # "idle" => call'[x].key = call[x].key /\ call'[x].pc # "idle"
    BY <1>1, <1>6 DEF Begin
  <2>2. /\ ready' \in [Keys -> Calls \cup {None}] /\ leases' \in [Calls -> SUBSET Calls]
        /\ leaseKey' \in [Calls -> Keys \cup {None}] /\ epoch' \in [Keys -> Nat]
        /\ \A j \in Keys : ready'[j] = IF j = k THEN None ELSE ready[j]
        /\ \A l \in Calls : leaseKey'[l] \in {leaseKey[l], None}
        /\ \A w \in Calls : leases'[w] \subseteq leases[w]
        /\ \A l \in Reloading : epoch'[KeyOf(l)] = epoch[KeyOf(l)]
        /\ \A l \in Calls, j \in Keys : leaseKey'[l] = j <=> ready'[j] # None /\ l \in leases'[ready'[j]]
        /\ \A w \in Calls : leases'[w] # {} => ready'[KeyOf(w)] = w
    BY <1>6, EvictFacts
  <2>3. ready[k] # None /\ ready[k] \notin alive /\ starting[k] = None
    BY <1>6 DEF Crashed, PoolInv, ServesOK
  <2>4. LimitOK'
    <3>1. starting' = [starting EXCEPT ![k] = c] /\ starting \in [Keys -> Calls \cup {None}]
      BY <1>0, <1>6 DEF Begin, PoolTypeOK
    <3>2. Busy' \subseteq Busy
      BY <2>2, <2>3, <3>1, CallFacts DEF Busy
    <3> QED
      BY <3>2, LimitKept DEF PoolInv
  <2>5. /\ PoolTypeOK' /\ CallsOK' /\ ServesOK' /\ LifeOK' /\ LimitOK' /\ StopsOK' /\ LeasesMatch'
    BY <1>6, <2>2, <2>3, <2>4, BeginKeeps
  <2> QED
    BY <2>1, <2>2, <2>5
<1>7. \/ SetCall(c, k, "failed", None) /\ UNCHANGED <<poolVars, life>>
      \/ starting[k] # None /\ SetCall(c, k, "waiting", starting[k]) /\ UNCHANGED <<poolVars, life>>
      \/ ready[k] # None /\ Mint(c, k, ready[k]) /\ UNCHANGED <<starting, ready, epoch, life>>
      \/ ready[k] = None /\ starting[k] = None /\ Load < MaxConcurrent /\ Begin(c, k)
         /\ UNCHANGED <<ready, leaseKey, leases, epoch>>
      \/ Crashed(k) /\ Evict(k) /\ Begin(c, k)
  <2>1. ready[k] = None /\ starting[k] = None =>
          (Load >= MaxConcurrent \/ Load < MaxConcurrent)
    <3>1. Busy = {j \in Keys : starting[j] # None} \cup {j \in Keys : ready[j] # None}
      BY DEF Busy
    <3>2. /\ IsFiniteSet({j \in Keys : starting[j] # None}) /\ IsFiniteSet({j \in Keys : ready[j] # None})
      BY <3>1, FS_Subset DEF PoolInv, LimitOK
    <3>3. /\ Cardinality({j \in Keys : starting[j] # None}) \in Nat /\ Cardinality({j \in Keys : ready[j] # None}) \in Nat
      BY <3>2, FS_CardinalityType
    <3> QED
      BY <3>3, CallFacts DEF Load
  <2> QED
    BY <2>1, Zenon DEF AcquireNow
<1> QED
  BY <1>2, <1>3, <1>4, <1>5, <1>6, <1>7

LEMMA AcquireStep == ASSUME PoolInv, NEW c \in Calls, NEW k \in Keys, Acquire(c, k) PROVE PoolInv'
<1>1. /\ call[c].pc = "idle" /\ AcquireNow(c, k) /\ reload' = reload /\ cancelled' = cancelled
      /\ UNCHANGED <<tries, alive, stopped, startingChild, barred, releasing, stop, cancelled>>
  BY DEF Acquire, Fresh
<1>2. /\ reload' \in [Calls -> [stage : Stages, epoch : Nat, next : Calls \cup {None}]]
      /\ \A x \in Calls : call[x].pc = "idle" => reload'[x].stage = "none"
  BY <1>1 DEF PoolInv, PoolTypeOK, Stages, CallsOK
<1>3. /\ PoolTypeOK' /\ CallsOK' /\ ServesOK' /\ LifeOK' /\ LimitOK' /\ StopsOK' /\ LeasesMatch'
      /\ \A x \in Calls \ {c} : call'[x] = call[x] /\ leaseKey'[x] \in {leaseKey[x], None}
      /\ \A x \in Calls : call[x].pc # "idle" => call'[x].key = call[x].key /\ call'[x].pc # "idle"
      /\ \A x \in Reloading : epoch'[KeyOf(x)] = epoch[KeyOf(x)]
  BY <1>1, <1>2, AcquireKeeps
<1>4. ReloadsOK'
  BY <1>1, <1>3, OtherReloads DEF ReloadsOK
<1> QED
  BY <1>3, <1>4 DEF PoolInv

LEMMA ReloadAcquiresStep ==
  ASSUME PoolInv, NEW l \in Calls, NEW c \in Calls, ReloadAcquires(l, c) PROVE PoolInv'
<1> DEFINE r == [reload[l] EXCEPT !.stage = "acquiring", !.next = c]
<1>1. /\ reload[l].stage = "releasing" /\ ~Superseded(l) /\ call[c].pc = "idle" /\ AcquireNow(c, KeyOf(l))
      /\ reload' = [reload EXCEPT ![l] = r]
      /\ UNCHANGED <<tries, alive, stopped, startingChild, barred, releasing, stop, cancelled>>
  BY DEF ReloadAcquires, Fresh, SetReload
<1>2. /\ PoolTypeOK /\ l \in Reloading /\ KeyOf(l) \in Keys /\ ReloadOK(l)
      /\ reload \in [Calls -> [stage : Stages, epoch : Nat, next : Calls \cup {None}]]
  BY <1>1, ReloadingKeys DEF PoolInv, PoolTypeOK, Stages, ReloadsOK, Reloading
<1>3. /\ r \in [stage : Stages, epoch : Nat, next : Calls \cup {None}]
      /\ r.stage = "acquiring" /\ r.next = c /\ r.epoch = reload[l].epoch
  BY <1>2 DEF Stages
<1>4. /\ reload' \in [Calls -> [stage : Stages, epoch : Nat, next : Calls \cup {None}]]
      /\ \A x \in Calls : reload'[x] = IF x = l THEN r ELSE reload[x]
  BY <1>1, <1>2, <1>3
<1>5. \A x \in Calls : call[x].pc = "idle" => reload'[x].stage = "none"
  BY <1>1, <1>2, <1>4 DEF PoolInv, CallsOK
<1>6. /\ PoolTypeOK' /\ CallsOK' /\ ServesOK' /\ LifeOK' /\ LimitOK' /\ StopsOK' /\ LeasesMatch'
      /\ call'[c].pc # "idle"
      /\ \A x \in Calls \ {c} : call'[x] = call[x] /\ leaseKey'[x] \in {leaseKey[x], None}
      /\ \A x \in Calls : call[x].pc # "idle" => call'[x].key = call[x].key /\ call'[x].pc # "idle"
      /\ \A x \in Reloading : epoch'[KeyOf(x)] = epoch[KeyOf(x)]
  BY <1>1, <1>2, <1>4, <1>5, AcquireKeeps
<1>7. ASSUME NEW x \in Calls PROVE ReloadOK(x)'
  <2>1. CASE x # l
    BY <1>1, <1>4, <1>6, <2>1, OtherReloads
  <2>2. CASE x = l
    <3>1. l # c /\ call'[l] = call[l] /\ leaseKey'[l] = None /\ call[l].pc = "minted"
      BY <1>1, <1>2, <1>6 DEF ReloadOK
    <3>2. /\ reload'[l].stage = "acquiring" /\ reload'[l].next = c /\ reload'[l].epoch = reload[l].epoch
      BY <1>3, <1>4
    <3>3. KeyOf(l)' = KeyOf(l) /\ epoch'[KeyOf(l)] = epoch[KeyOf(l)] /\ cancelled' = cancelled /\ c # None
      BY <3>1, <1>1, <1>2, <1>6, CallFacts DEF KeyOf
    <3> HIDE DEF r
    <3> QED
      BY <2>2, <3>1, <3>2, <3>3, <1>2, <1>6 DEF ReloadOK
  <2> QED
    BY <2>1, <2>2
<1> QED
  BY <1>6, <1>7 DEF PoolInv, ReloadsOK

LEMMA ResumeStep == ASSUME PoolInv, NEW c \in Calls, Resume(c) PROVE PoolInv'
<1> DEFINE w == call[c].watch
           k == KeyOf(c)
<1>1. /\ call[c].pc = "waiting"
      /\ IF life[w] = "ready" /\ ready[k] = w THEN Mint(c, k, w)
         ELSE SetCall(c, k, "failed", None) /\ UNCHANGED <<leases, leaseKey>>
      /\ UNCHANGED <<starting, ready, epoch, startingChild, life, tries, alive, stopped, barred, releasing, reload, stop, cancelled>>
  BY DEF Resume, watchVars, KeyOf
<1>2. PoolTypeOK /\ w \in Calls /\ k \in Keys /\ w # None
  BY <1>1, CallFacts DEF PoolInv, CallsOK
<1>3. /\ reload' \in [Calls -> [stage : Stages, epoch : Nat, next : Calls \cup {None}]]
      /\ \A x \in Calls : call[x].pc = "idle" => reload'[x].stage = "none"
  BY <1>1 DEF PoolInv, PoolTypeOK, Stages, CallsOK
<1>4. /\ PoolTypeOK' /\ CallsOK' /\ ServesOK' /\ LifeOK' /\ LimitOK' /\ StopsOK' /\ LeasesMatch'
      /\ \A x \in Calls \ {c} : leaseKey'[x] = leaseKey[x]
  <2>1. CASE life[w] = "ready" /\ ready[k] = w
    <3>1. ready[k] # None /\ Mint(c, k, ready[k])
      BY <2>1, <1>1, <1>2
    <3> QED
      BY <3>1, <1>1, <1>2, <1>3, MintKeeps
  <2>2. CASE ~(life[w] = "ready" /\ ready[k] = w)
    <3>1. SetCall(c, k, "failed", None) /\ UNCHANGED <<leases, leaseKey>>
      BY <2>2, <1>1
    <3> QED
      BY <3>1, <1>1, <1>2, <1>3, CallOnly
  <2> QED
    BY <2>1, <2>2
<1>5. /\ \A x \in Calls \ {c} : call'[x] = call[x]
      /\ \A x \in Calls : call[x].pc # "idle" => call'[x].key = call[x].key /\ call'[x].pc # "idle"
  <2>1. \/ SetCall(c, k, "minted", w) \/ SetCall(c, k, "failed", None)
    BY <1>1 DEF Mint
  <2> HIDE DEF w, k
  <2>2. call[c].pc = "waiting" /\ k = KeyOf(c)
    BY <1>1 DEF k
  <2> QED
    BY <1>2, <2>1, <2>2, CallMoves
<1>6. ReloadsOK'
  BY <1>1, <1>4, <1>5, OtherReloads DEF ReloadsOK
<1> QED
  BY <1>4, <1>6 DEF PoolInv
-----------------------------------------------------------------------------
(* Stops.                                                                 *)
\* What a stop of the files of its scope does to the indexes.
LEMMA StopBeginsFacts ==
  ASSUME PoolInv, NEW t \in Stops, NEW s \in Roots \cup {"all"}, NEW bars \in BOOLEAN, StopBegins(t, s, bars),
         NEW K, K = ScopeKeys(s), NEW r, r = Record(s, bars, K)
  PROVE  /\ K \subseteq Keys /\ PoolTypeOK'
         /\ UNCHANGED <<life, tries, alive, call, releasing, reload>>
         /\ \A k \in Keys : ready'[k] = IF k \in K THEN None ELSE ready[k]
         /\ \A k \in Keys : starting'[k] = IF k \in K THEN None ELSE starting[k]
         /\ \A k \in Keys : startingChild'[k] \in {startingChild[k], None}
         /\ \A l \in Calls : leaseKey'[l] \in {leaseKey[l], None}
         /\ stopped' = stopped \cup (r.children \cap alive)
         /\ cancelled' = cancelled \cup r.reloads
         /\ \A u \in Stops : stop'[u] = IF u = t THEN r ELSE stop[u]
         /\ \A l \in Reloading : /\ epoch[KeyOf(l)] \in Nat
                                 /\ epoch'[KeyOf(l)] = IF l \in r.reloads THEN epoch[KeyOf(l)] + 1 ELSE epoch[KeyOf(l)]
<1> DEFINE dropped == UNION {leases[w] : w \in {ready[k] : k \in K} \ {None}}
<1>1. /\ stop' = [stop EXCEPT ![t] = r]
      /\ barred' = (IF bars THEN barred \cup {s} ELSE barred)
      /\ cancelled' = cancelled \cup r.reloads
      /\ epoch' = [k \in Keys |->
           IF k \in K /\ ReloadsOn(k) # {} THEN epoch[k] + 1
           ELSE IF k \in K /\ ready[k] # None THEN 0 ELSE epoch[k]]
      /\ startingChild' = [k \in Keys |-> IF k \in K /\ starting[k] # None THEN None ELSE startingChild[k]]
      /\ starting' = [k \in Keys |-> IF k \in K THEN None ELSE starting[k]]
      /\ ready' = [k \in Keys |-> IF k \in K THEN None ELSE ready[k]]
      /\ leases' = [w \in Calls |-> IF w \in {ready[k] : k \in K} THEN {} ELSE leases[w]]
      /\ leaseKey' = [l \in Calls |-> IF s = "all" \/ l \in dropped THEN None ELSE leaseKey[l]]
      /\ stopped' = stopped \cup (r.children \cap alive)
      /\ UNCHANGED <<life, tries, alive, call, releasing, reload>>
  BY Zenon DEF StopBegins, TellToStop
<1>2. K \subseteq Keys /\ PoolTypeOK
  BY CallFacts DEF PoolInv
<1>3. /\ r.pc = "busy" /\ r.scope = s /\ r.bars = bars
      /\ r.reloads = {l \in Reloading : KeyOf(l) \in K}
      /\ r.starts = {starting[k] : k \in K} \ {None}
      /\ r.children = ({startingChild[k] : k \in {j \in K : starting[j] # None}} \cup {ready[k] : k \in K}) \ {None}
      /\ r = [pc |-> r.pc, scope |-> r.scope, bars |-> r.bars, reloads |-> r.reloads, starts |-> r.starts,
              children |-> r.children]
  BY DEF Record
<1> HIDE DEF dropped
<1>4. r.reloads \subseteq Calls /\ r.starts \subseteq Calls /\ r.children \subseteq Calls
  BY <1>2, <1>3 DEF PoolTypeOK, Reloading
<1>5. r \in [pc : {"idle", "busy", "done"}, scope : Roots \cup {"all"}, bars : BOOLEAN, reloads : SUBSET Calls,
             starts : SUBSET Calls, children : SUBSET Calls]
  BY <1>3, <1>4
<1>6. /\ starting' \in [Keys -> Calls \cup {None}] /\ startingChild' \in [Keys -> Calls \cup {None}]
      /\ ready' \in [Keys -> Calls \cup {None}] /\ leaseKey' \in [Calls -> Keys \cup {None}]
  BY <1>1, <1>2 DEF PoolTypeOK
<1>7. leases' \in [Calls -> SUBSET Calls] /\ epoch' \in [Keys -> Nat] /\ barred' \subseteq Roots \cup {"all"}
  BY <1>1, <1>2 DEF PoolTypeOK
<1>8. stopped' \subseteq alive' /\ cancelled' \subseteq Calls
  BY <1>1, <1>2, <1>4 DEF PoolTypeOK
<1>9. /\ stop' \in [Stops -> [pc : {"idle", "busy", "done"}, scope : Roots \cup {"all"}, bars : BOOLEAN,
                              reloads : SUBSET Calls, starts : SUBSET Calls, children : SUBSET Calls]]
      /\ \A u \in Stops : stop'[u] = IF u = t THEN r ELSE stop[u]
  <2> HIDE DEF dropped
  <2>1. stop \in [Stops -> [pc : {"idle", "busy", "done"}, scope : Roots \cup {"all"}, bars : BOOLEAN,
                            reloads : SUBSET Calls, starts : SUBSET Calls, children : SUBSET Calls]]
    BY <1>2 DEF PoolTypeOK
  <2> QED
    BY <2>1, <1>1, <1>5
<1>10. PoolTypeOK'
  BY <1>1, <1>2, <1>6, <1>7, <1>8, <1>9 DEF PoolTypeOK
<1>11. ASSUME NEW l \in Reloading
       PROVE /\ epoch[KeyOf(l)] \in Nat
             /\ epoch'[KeyOf(l)] = IF l \in r.reloads THEN epoch[KeyOf(l)] + 1 ELSE epoch[KeyOf(l)]
  <2>1. KeyOf(l) \in Keys /\ ReloadsOn(KeyOf(l)) # {}
    BY ReloadingKeys DEF ReloadsOn
  <2>2. l \in r.reloads <=> KeyOf(l) \in K
    BY <1>3
  <2>3. epoch'[KeyOf(l)] = IF KeyOf(l) \in K /\ ReloadsOn(KeyOf(l)) # {} THEN epoch[KeyOf(l)] + 1
                           ELSE IF KeyOf(l) \in K /\ ready[KeyOf(l)] # None THEN 0 ELSE epoch[KeyOf(l)]
    BY <1>1, <2>1
  <2> QED
    BY <2>1, <2>2, <2>3, <1>2 DEF PoolTypeOK
<1> QED
  BY <1>1, <1>2, <1>9, <1>10, <1>11

\* The leases of the files let go are dropped, and no other.
LEMMA StopDrops ==
  ASSUME PoolInv, NEW t \in Stops, NEW s \in Roots \cup {"all"}, NEW bars \in BOOLEAN, StopBegins(t, s, bars)
  PROVE  LeasesMatch' /\ \A w \in Calls : leases'[w] \subseteq leases[w]
<1> DEFINE K == ScopeKeys(s)
           served == {ready[k] : k \in K}
           dropped == UNION {leases[w] : w \in served \ {None}}
<1>1. /\ ready' = [k \in Keys |-> IF k \in K THEN None ELSE ready[k]]
      /\ leases' = [w \in Calls |-> IF w \in served THEN {} ELSE leases[w]]
      /\ leaseKey' = [l \in Calls |-> IF s = "all" \/ l \in dropped THEN None ELSE leaseKey[l]]
      /\ call' = call
  BY Zenon DEF StopBegins
<1>2. /\ K \subseteq Keys /\ (s = "all" => K = Keys) /\ PoolTypeOK
      /\ \A l \in Calls, k \in Keys : leaseKey[l] = k <=> ready[k] # None /\ l \in leases[ready[k]]
      /\ \A w \in Calls : leases[w] # {} => ready[KeyOf(w)] = w
      /\ \A k \in Keys : ready[k] # None => KeyOf(ready[k]) = k /\ ready[k] \in Calls
  BY CallFacts DEF PoolInv, LeasesMatch, ServesOK, PoolTypeOK, ScopeKeys
<1>3. \A l : l \in dropped <=> \E k \in K : ready[k] # None /\ l \in leases[ready[k]]
  OBVIOUS
<1>4. \A l : l \in served <=> \E k \in K : l = ready[k]
  OBVIOUS
<1> HIDE DEF K, served, dropped
<1>5. ASSUME NEW w \in Calls PROVE leases'[w] \subseteq leases[w]
  BY <1>1
<1>6. ASSUME NEW l \in Calls, NEW j \in Keys
      PROVE  leaseKey'[l] = j <=> ready'[j] # None /\ l \in leases'[ready'[j]]
  <2>1. CASE s = "all"
    <3>1. leaseKey'[l] = None /\ ready'[j] = None
      BY <2>1, <1>1, <1>2
    <3> QED
      BY <3>1, CallFacts
  <2>2. CASE s # "all" /\ j \in K
    <3>1. ready'[j] = None
      BY <2>2, <1>1
    <3>2. leaseKey[l] = j => l \in dropped
      BY <2>2, <1>2, <1>3
    <3> QED
      BY <3>1, <3>2, <1>1, CallFacts
  <2>3. CASE s # "all" /\ j \notin K
    <3>1. ready'[j] = ready[j]
      BY <2>3, <1>1
    <3>2. ready[j] # None => ready[j] \notin served
      BY <2>3, <1>2, <1>4
    <3>3. l \in dropped => \E k \in K : leaseKey[l] = k
      BY <1>2, <1>3
    <3>4. leaseKey[l] = j => l \notin dropped
      BY <3>3, <2>3
    <3>5. ready[j] # None => leases'[ready[j]] = leases[ready[j]]
      BY <3>2, <1>1, <1>2
    <3>6. leaseKey'[l] = j <=> leaseKey[l] = j
      BY <3>4, <2>3, <1>1, CallFacts
    <3> QED
      BY <3>1, <3>5, <3>6, <1>2
  <2> QED
    BY <2>1, <2>2, <2>3
<1>7. ASSUME NEW w \in Calls, leases'[w] # {} PROVE ready'[call[w].key] = w
  <2>1. w \notin served /\ leases[w] # {}
    BY <1>7, <1>1
  <2>2. ready[KeyOf(w)] = w
    BY <2>1, <1>2
  <2>3. KeyOf(w) \notin K
    BY <2>1, <2>2, <1>4
  <2>4. KeyOf(w) \in Keys
    <3>1. life[w] = "ready"
      BY <2>1 DEF PoolInv, CallsOK
    <3> QED
      BY <3>1 DEF PoolInv, CallsOK
  <2> QED
    BY <2>2, <2>3, <2>4, <1>1 DEF KeyOf
<1> QED
  BY <1>1, <1>5, <1>6, <1>7 DEF LeasesMatch, KeyOf

LEMMA StopBeginsStep ==
  ASSUME PoolInv, NEW t \in Stops, NEW s \in Roots \cup {"all"}, NEW bars \in BOOLEAN, StopBegins(t, s, bars)
  PROVE  PoolInv'
<1> DEFINE K == ScopeKeys(s)
           r == Record(s, bars, K)
<1>1. /\ K \subseteq Keys /\ PoolTypeOK'
      /\ UNCHANGED <<life, tries, alive, call, releasing, reload>>
      /\ \A k \in Keys : ready'[k] = IF k \in K THEN None ELSE ready[k]
      /\ \A k \in Keys : starting'[k] = IF k \in K THEN None ELSE starting[k]
      /\ \A k \in Keys : startingChild'[k] \in {startingChild[k], None}
      /\ \A l \in Calls : leaseKey'[l] \in {leaseKey[l], None}
      /\ stopped' = stopped \cup (r.children \cap alive)
      /\ cancelled' = cancelled \cup r.reloads
      /\ \A u \in Stops : stop'[u] = IF u = t THEN r ELSE stop[u]
      /\ \A l \in Reloading : /\ epoch[KeyOf(l)] \in Nat
                              /\ epoch'[KeyOf(l)] = IF l \in r.reloads THEN epoch[KeyOf(l)] + 1 ELSE epoch[KeyOf(l)]
  BY StopBeginsFacts
<1>2. /\ r.pc = "busy" /\ r.reloads = {l \in Reloading : KeyOf(l) \in K}
      /\ r.starts = {starting[k] : k \in K} \ {None}
      /\ r.children = ({startingChild[k] : k \in {j \in K : starting[j] # None}} \cup {ready[k] : k \in K}) \ {None}
  BY DEF Record
<1>3. LeasesMatch' /\ \A w \in Calls : leases'[w] \subseteq leases[w]
  BY StopDrops
<1> HIDE DEF K, r
<1>4. \A w \in alive \ stopped' : life[w] = "ready" => ready'[KeyOf(w)] = ready[KeyOf(w)]
  <2> SUFFICES ASSUME NEW w \in alive, w \notin stopped', life[w] = "ready" PROVE ready'[KeyOf(w)] = ready[KeyOf(w)]
    OBVIOUS
  <2>1. w \in Calls /\ w \notin stopped /\ w # None
    BY <1>1, CallFacts DEF PoolInv, PoolTypeOK
  <2>2. ready[KeyOf(w)] = w /\ KeyOf(w) \in Keys
    BY <2>1 DEF PoolInv, LifeOK, CallsOK
  <2>3. KeyOf(w) \notin K
    BY <2>1, <2>2, <1>1, <1>2
  <2> QED
    BY <2>2, <2>3, <1>1
<1>5. CallsOK' /\ ServesOK' /\ LifeOK' /\ LimitOK'
  <2>1. \A k \in Keys : ready'[k] \in {ready[k], None} /\ starting'[k] \in {starting[k], None}
                        /\ startingChild'[k] \in {startingChild[k], None}
    BY <1>1
  <2>2. stopped \subseteq stopped' /\ \A l \in Calls : call[l].pc = "idle" => reload'[l].stage = "none"
    BY <1>1 DEF PoolInv, CallsOK
  <2> QED
    BY <1>1, <1>3, <1>4, <2>1, <2>2, LetGo
<1>6. StopsOK'
  <2> SUFFICES ASSUME NEW u \in Stops, NEW w \in stop'[u].starts \cup stop'[u].children
               PROVE  /\ life'[w] # "new" /\ ~Current(w)'
                      /\ w \in stop'[u].starts => life'[w] # "ready"
                      /\ stop'[u].pc = "done" => w \notin alive'
    BY DEF StopsOK
  <2>1. CASE u # t
    <3>1. stop'[u] = stop[u] /\ w \in Calls
      BY <2>1, <1>1 DEF PoolInv, PoolTypeOK
    <3>2. /\ life[w] # "new" /\ ~Current(w)
          /\ w \in stop[u].starts => life[w] # "ready"
          /\ stop[u].pc = "done" => w \notin alive
      BY <3>1 DEF PoolInv, StopsOK
    <3>3. call[w].key \in Keys /\ starting[call[w].key] # w /\ w # None
      BY <3>1, <3>2, CallFacts DEF Current, KeyOf, PoolInv, CallsOK
    <3>4. ~Current(w)'
      BY <3>3, <1>1 DEF Current, KeyOf
    <3> QED
      BY <3>1, <3>2, <3>4, <1>1
  <2>2. CASE u = t
    <3>1. stop'[u] = r /\ w \in r.starts \cup r.children
      BY <2>2, <1>1
    <3>2. PICK k \in K : w # None /\ ((starting[k] # None /\ w \in {starting[k], startingChild[k]}) \/ w = ready[k])
      BY <3>1, <1>2
    <3>3. k \in Keys /\ w \in Calls
      BY <3>2, <1>1 DEF PoolInv, PoolTypeOK
    <3>4. KeyOf(w) = k /\ life[w] # "new"
      BY <3>2, <3>3 DEF PoolInv, ServesOK
    <3>5. ~Current(w)'
      <4>1. call'[w].key = k /\ starting'[k] = None
        BY <3>2, <3>3, <3>4, <1>1 DEF KeyOf
      <4> QED
        BY <4>1, <3>2 DEF Current, KeyOf
    <3>6. w \in r.starts => life[w] # "ready"
      <4> SUFFICES ASSUME NEW j \in K, starting[j] # None PROVE life[starting[j]] # "ready"
        BY <1>2
      <4> QED
        BY <1>1 DEF PoolInv, ServesOK
    <3> QED
      BY <3>1, <3>4, <3>5, <3>6, <1>1, <1>2
  <2> QED
    BY <2>1, <2>2
<1>7. ReloadsOK'
  <2> SUFFICES ASSUME NEW l \in Calls PROVE ReloadOK(l)'
    BY DEF ReloadsOK
  <2>1. /\ reload'[l] = reload[l]
        /\ \A c \in Calls : call[c].pc # "idle" => call'[c].key = call[c].key /\ call'[c].pc # "idle"
        /\ \A c \in Calls : call[c].pc \in {"minted", "failed"} =>
             call'[c].pc = call[c].pc /\ leaseKey'[c] \in {leaseKey[c], None}
        /\ l \in Reloading => epoch'[KeyOf(l)] \in Nat /\ epoch[KeyOf(l)] <= epoch'[KeyOf(l)]
    BY <1>1
  <2>2. CASE l \notin r.reloads
    <3>1. l \in cancelled' => l \in cancelled
      BY <2>2, <1>1
    <3> QED
      BY <2>1, <3>1, ReloadKept
  <2>3. CASE l \in r.reloads
    <3>1. /\ l \in Reloading /\ ReloadOK(l) /\ epoch[KeyOf(l)] \in Nat /\ epoch'[KeyOf(l)] = epoch[KeyOf(l)] + 1
          /\ reload[l] \in [stage : Stages, epoch : Nat, next : Calls \cup {None}]
      BY <2>3, <1>1, <1>2 DEF PoolInv, PoolTypeOK, ReloadsOK, Stages
    <3> DEFINE e == epoch[KeyOf(l)]
               f == epoch'[KeyOf(l)]
               g == reload[l].epoch
               n == reload[l].next
    <3>2. e \in Nat /\ f = e + 1 /\ g \in Nat /\ g <= e
      BY <3>1 DEF ReloadOK
    <3> HIDE DEF e, f, g
    <3>3. g <= f /\ g < f
      BY <3>2
    <3>4. g = reload[l].epoch /\ f = epoch'[KeyOf(l)] /\ call' = call /\ reload' = reload
      BY <1>1 DEF f, g
    <3>5. reload[l].stage \notin {"none", "ok", "failed"}
      BY <3>1 DEF Reloading
    <3>6. /\ leaseKey'[l] = None /\ call[l].pc = "minted"
          /\ reload[l].stage = "releasing" => n = None
          /\ reload[l].stage \in {"acquiring", "undoing"} => n # None
          /\ n # None => call[n].pc # "idle"
      BY <3>1, <3>5, <1>1 DEF ReloadOK
    <3>7. reload[l].stage = "undoing" => call[n].pc \in {"minted", "failed"} /\ leaseKey'[n] = None
      <4>1. reload[l].stage = "undoing" => n \in Calls /\ leaseKey[n] = None /\ call[n].pc \in {"minted", "failed"}
        BY <3>1, <3>6 DEF ReloadOK
      <4> QED
        BY <4>1, <1>1
    <3> QED
      BY <3>3, <3>4, <3>5, <3>6, <3>7 DEF ReloadOK, KeyOf
  <2> QED
    BY <2>2, <2>3
<1> QED
  BY <1>1, <1>3, <1>5, <1>6, <1>7 DEF PoolInv

LEMMA StopReturnsStep == ASSUME PoolInv, NEW t \in Stops, StopReturns(t) PROVE PoolInv'
<1>1. /\ \A w \in stop[t].starts : life[w] \in {"ready", "rejected"}
      /\ stop[t].children \cap alive = {} /\ stop' = [stop EXCEPT ![t].pc = "done"]
      /\ barred' = (IF stop[t].bars THEN barred \ {stop[t].scope} ELSE barred)
      /\ UNCHANGED <<starting, ready, leaseKey, leases, epoch>>
      /\ UNCHANGED <<life, tries, alive, stopped, startingChild, call, releasing, reload, cancelled>>
  BY DEF StopReturns, poolVars, watchVars
<1>2. PoolTypeOK
  BY DEF PoolInv
<1>3. /\ stop' \in [Stops -> [pc : {"idle", "busy", "done"}, scope : Roots \cup {"all"}, bars : BOOLEAN,
                              reloads : SUBSET Calls, starts : SUBSET Calls, children : SUBSET Calls]]
      /\ \A u \in Stops : /\ stop'[u].starts = stop[u].starts /\ stop'[u].children = stop[u].children
                          /\ u # t => stop'[u].pc = stop[u].pc
  BY <1>1, <1>2 DEF PoolTypeOK
<1>4. PoolTypeOK'
  BY <1>1, <1>2, <1>3 DEF PoolTypeOK
<1>5. CallsOK' /\ ServesOK' /\ LifeOK' /\ LeasesMatch' /\ LimitOK'
  BY <1>1 DEF PoolInv, CallsOK, ServesOK, LifeOK, LeasesMatch, LimitOK, Busy, KeyOf
<1>6. StopsOK'
  <2> SUFFICES ASSUME NEW u \in Stops, NEW w \in stop[u].starts \cup stop[u].children
               PROVE  /\ life[w] # "new" /\ ~Current(w)
                      /\ w \in stop[u].starts => life[w] # "ready"
                      /\ stop'[u].pc = "done" => w \notin alive
    BY <1>1, <1>3 DEF StopsOK, Current, KeyOf
  <2>1. /\ life[w] # "new" /\ ~Current(w)
        /\ w \in stop[u].starts => life[w] # "ready"
        /\ stop[u].pc = "done" => w \notin alive
    BY DEF PoolInv, StopsOK
  <2>2. CASE u = t /\ w \in stop[u].starts
    <3>1. life[w] = "rejected" /\ w \in Calls
      BY <2>1, <2>2, <1>1, <1>2 DEF PoolTypeOK
    <3>2. w \notin alive
      BY <3>1 DEF PoolInv, LifeOK
    <3> QED
      BY <2>1, <3>2
  <2>3. CASE u = t /\ w \notin stop[u].starts
    BY <2>1, <2>3, <1>1
  <2>4. CASE u # t
    BY <2>1, <2>4, <1>3
  <2> QED
    BY <2>2, <2>3, <2>4
<1>7. ReloadsOK'
  BY <1>1 DEF PoolInv, ReloadsOK, ReloadOK, Reloading, KeyOf
<1> QED
  BY <1>4, <1>5, <1>6, <1>7 DEF PoolInv

LEMMA PoolStutter == ASSUME PoolInv, UNCHANGED previewVars PROVE PoolInv'
<1>1. /\ UNCHANGED <<starting, ready, leaseKey, leases, epoch>>
      /\ UNCHANGED <<life, tries, alive, stopped, startingChild, barred, call, releasing, reload, stop, cancelled>>
  BY DEF previewVars, poolVars, watchVars
<1>2. PoolTypeOK' /\ CallsOK' /\ ServesOK' /\ LifeOK' /\ LeasesMatch'
  BY <1>1 DEF PoolInv, PoolTypeOK, CallsOK, ServesOK, LifeOK, LeasesMatch, KeyOf
<1>3. LimitOK' /\ StopsOK' /\ ReloadsOK'
  BY <1>1 DEF PoolInv, LimitOK, Busy, StopsOK, Current, ReloadsOK, ReloadOK, Reloading, KeyOf
<1> QED
  BY <1>2, <1>3 DEF PoolInv

LEMMA PoolInvStep == PoolInv /\ [PoolNext]_previewVars => PoolInv'
<1> SUFFICES ASSUME PoolInv, [PoolNext]_previewVars PROVE PoolInv'
  OBVIOUS
<1>1. ASSUME NEW c \in Calls, NEW k \in Keys, Acquire(c, k) PROVE PoolInv'
  BY <1>1, AcquireStep
<1>2. ASSUME NEW c \in Calls, Resume(c) PROVE PoolInv'
  BY <1>2, ResumeStep
<1>3. ASSUME NEW c \in Calls, StartStep(c) PROVE PoolInv'
  BY <1>3, GiveUpStep, SpawnStep, AnswersStep, FailStartStep, AfterFailureStep, DecoratedStep, SupersededStep
     DEF StartStep
<1>4. ASSUME NEW c \in Calls, Exit(c) PROVE PoolInv'
  BY <1>4, ExitStep
<1>5. ASSUME NEW c \in Calls, ReleaseCall(c) \/ ReleaseEnds(c) \/ ReleaseReloading(c) \/ Reload(c) PROVE PoolInv'
  BY <1>5, ReleaseCallStep, ReleaseEndsStep, ReleaseReloadingStep, ReloadStarts
<1>6. ASSUME NEW c \in Calls, ReloadStep(c) PROVE PoolInv'
  BY <1>6, ReloadAcquiresStep, ReloadReturnsStep, ReloadUndoesStep, ReloadFailsStep DEF ReloadStep
<1>7. ASSUME NEW k \in Keys, HandleCrash(k) PROVE PoolInv'
  BY <1>7, HandleCrashStep
<1>8. ASSUME NEW t \in Stops, NEW s \in Roots \cup {"all"}, NEW bars \in BOOLEAN, StopBegins(t, s, bars) PROVE PoolInv'
  BY <1>8, StopBeginsStep
<1>9. ASSUME NEW t \in Stops, StopReturns(t) PROVE PoolInv'
  BY <1>9, StopReturnsStep
<1>10. CASE UNCHANGED previewVars
  BY <1>10, PoolStutter
<1> QED
  BY <1>1, <1>2, <1>3, <1>4, <1>5, <1>6, <1>7, <1>8, <1>9, <1>10 DEF PoolNext

LEMMA PoolAlwaysInv == PoolSpec => []PoolInv
<1>1. PoolInit => PoolInv
  BY PoolInvInit
<1>2. PoolInv /\ [PoolNext]_previewVars => PoolInv'
  BY PoolInvStep
<1> QED
  BY <1>1, <1>2, PTL DEF PoolSpec

\* The pool (office-watch-pool.ts) knows what it serves and to whom: its two indexes of leases
\* agree, it never starts and serves more files than it may, and it forgets no process.
THEOREM PoolAlwaysSafe == PoolSpec => []PoolSafe
<1>1. PoolInv => PoolSafe
  <2> SUFFICES ASSUME PoolInv PROVE PoolSafe
    OBVIOUS
  <2>1. WithinLimit
    BY DEF PoolInv, LimitOK, Busy, ServesOK, WithinLimit
  <2>2. NoOrphan
    BY DEF PoolInv, LifeOK, NoOrphan, PoolTypeOK
  <2> QED
    BY <2>1, <2>2 DEF PoolSafe, PoolInv
<1> QED
  BY <1>1, PoolAlwaysInv, PTL

\* What a stop or a release of the pool (office-watch-pool.ts) has ended stays ended: the processes
\* it found are dead when it returns, the starts it found are never published, and a cancelled
\* reload leaves no replacement.
THEOREM StopsAlwaysHold == PoolSpec => []StopsHold
<1>1. PoolInv => StopsHold
  <2> SUFFICES ASSUME PoolInv PROVE StopsHold
    OBVIOUS
  <2>1. StopReaps /\ StoppedStartsReject
    BY DEF PoolInv, StopsOK, StopReaps, StoppedStartsReject
  <2>2. CancelledReload
    BY DEF PoolInv, PoolTypeOK, ReloadsOK, ReloadOK, CancelledReload
  <2> QED
    BY <2>1, <2>2 DEF StopsHold
<1> QED
  BY <1>1, PoolAlwaysInv, PTL
-----------------------------------------------------------------------------

(* ProjectRunner *)
\* No two jobs were given one id, as dev servers of one configuration are that start in
\* one millisecond.
IdsUnique == \A j, k \in Jobs : id[j] = id[k] /\ id[j] # NoJob => j = k

\* What is registered is what lives, under its own id; nothing is stopped before it lives.
Slots ==
  /\ IsFiniteSet(Live) /\ active = Cardinality(Live)
  /\ \A j \in Live : id[j] # NoJob /\ entry[id[j]] = j
  /\ \A i \in Ids : entry[i] # NoJob => entry[i] \in Live /\ id[entry[i]] = i
  /\ \A j \in Jobs : phase[j] \notin {"live", "gone"} => id[j] = NoJob /\ j \notin terminated

\* The inductive invariant.
RunnerInv == RunnerTypeOK /\ Slots /\ TimeoutExclusive /\ Len(exited) <= Kept
-----------------------------------------------------------------------------
LEMMA RunnerInvInit == ASSUME RunnerInit PROVE RunnerInv
<1> USE RunnerAssumption DEF RunnerInit
<1>1. RunnerTypeOK
  BY DEF RunnerTypeOK
<1>2. Live = {}
  BY DEF Live
<1>3. Slots
  BY <1>2, FS_EmptySet DEF Slots
<1>4. TimeoutExclusive /\ Len(exited) <= Kept
  BY DEF TimeoutExclusive
<1> QED
  BY <1>1, <1>3, <1>4 DEF RunnerInv

\* The snapshots after one more: the new one is there, and only the oldest of Kept is gone.
LEMMA RetainIs ==
  ASSUME NEW s \in Seq(Adhoc), Len(s) <= Kept, NEW j \in Adhoc
  PROVE  /\ Retain(s, j) \in Seq(Adhoc) /\ Len(Retain(s, j)) <= Kept
         /\ \E i \in DOMAIN Retain(s, j) : Retain(s, j)[i] = j
         /\ \A i \in DOMAIN s : \/ \E k \in DOMAIN Retain(s, j) : Retain(s, j)[k] = s[i]
                                \/ Len(s) = Kept /\ Head(s) = s[i]
<1> DEFINE a == Append(s, j)
<1>1. /\ a \in Seq(Adhoc) /\ Len(a) = Len(s) + 1 /\ a[Len(a)] = j
      /\ \A i \in 1..Len(s) : a[i] = s[i]
  BY AppendProperties
<1>2. Len(s) \in Nat /\ DOMAIN s = 1..Len(s) /\ DOMAIN a = 1..Len(a)
  BY <1>1, LenProperties
<1>3. Kept \in Nat \ {0}
  BY RunnerAssumption
<1>4. CASE Len(a) > Kept
  <2>1. Retain(s, j) = Tail(a) /\ Len(s) = Kept /\ a # <<>>
    <3>1. Retain(s, j) = Tail(a)
      BY <1>4 DEF Retain
    <3> HIDE DEF a
    <3>2. Len(s) \in Nat /\ Len(s) <= Kept /\ Len(a) = Len(s) + 1 /\ Len(a) > Kept
      BY <1>1, <1>2, <1>4
    <3> DEFINE m == Len(s)
               n == Len(a)
    <3> HIDE DEF m, n
    <3>3. m \in Nat /\ m <= Kept /\ n = m + 1 /\ n > Kept
      BY <3>2 DEF m, n
    <3>4. m = Kept /\ n # 0
      BY <1>3, <3>3
    <3> QED
      BY <1>1, <3>1, <3>4, EmptySeq DEF m, n
  <2>2. /\ Tail(a) \in Seq(Adhoc) /\ Len(Tail(a)) = Len(s)
        /\ \A i \in 1..Len(s) : Tail(a)[i] = a[i + 1]
    BY <1>1, <1>2, <2>1, HeadTailProperties
  <2>3. DOMAIN Tail(a) = 1..Len(s)
    BY <2>2, LenProperties
  <2>4. Tail(a)[Len(s)] = j /\ Len(s) \in 1..Len(s)
    BY <1>1, <1>2, <1>3, <2>1, <2>2
  <2>5. ASSUME NEW i \in 1..Len(s), i # 1 PROVE i - 1 \in 1..Len(s) /\ Tail(a)[i - 1] = s[i]
    BY <1>1, <1>2, <2>2, <2>5
  <2>6. Head(s) = s[1]
    OBVIOUS
  <2> HIDE DEF a
  <2> QED
    BY <1>2, <1>3, <2>1, <2>2, <2>3, <2>4, <2>5, <2>6
<1>5. CASE ~(Len(a) > Kept)
  <2>1. Retain(s, j) = a
    BY <1>5 DEF Retain
  <2> HIDE DEF a
  <2> QED
    BY <1>1, <1>2, <1>3, <1>5, <2>1
<1> QED
  BY <1>4, <1>5

\* What was readable stays readable.
ReadableStays ==
  \A a \in Adhoc \ logless : Readable(a) /\ ~Readable(a)' => Len(exited) = Kept /\ Head(exited) = a

\* The registry while ids are unique: a job is registered exactly while it lives.
LEMMA RegisteredLives ==
  ASSUME RunnerInv, IdsUnique, NEW j \in Jobs
  PROVE  Registered(j) <=> j \in Live
<1>1. ASSUME Registered(j) PROVE j \in Live
  <2>1. id[j] \in Ids /\ id[j] # NoJob /\ entry[id[j]] # NoJob
    BY <1>1 DEF Registered, RunnerInv, RunnerTypeOK
  <2>2. entry[id[j]] \in Live /\ id[entry[id[j]]] = id[j]
    BY <2>1 DEF RunnerInv, Slots
  <2>3. entry[id[j]] = j
    BY <2>1, <2>2 DEF IdsUnique, Live
  <2> QED
    BY <2>2, <2>3
<1>2. ASSUME j \in Live PROVE Registered(j)
  BY <1>2, RunnerAssumption DEF Registered, RunnerInv, Slots
<1> QED
  BY <1>1, <1>2

\* What leaves the registry, the snapshots and who is stopped as they are, and ends nothing.
LEMMA RegistryKept ==
  ASSUME RunnerInv, UNCHANGED <<id, entry, active, exited, terminated, signalled, timedOut>>,
         RunnerTypeOK', armed' \subseteq armed,
         \A j \in Jobs : phase'[j] # phase[j] => phase[j] \notin {"live", "gone"} /\ phase'[j] \notin {"live", "gone"}
  PROVE  RunnerInv' /\ ReadableStays
<1>1. Live' = Live
  BY DEF Live
<1>2. Slots'
  BY <1>1 DEF RunnerInv, Slots
<1>3. TimeoutExclusive'
  <2>1. ASSUME NEW a \in armed' PROVE phase'[a] = "live" /\ a \notin terminated
    <3>1. phase[a] = "live" /\ a \notin terminated /\ a \in Jobs
      BY <2>1 DEF RunnerInv, TimeoutExclusive, RunnerTypeOK, Jobs
    <3> QED
      BY <3>1
  <2> QED
    BY <2>1 DEF RunnerInv, TimeoutExclusive
<1>4. ReadableStays
  BY DEF ReadableStays, Readable, Registered
<1> QED
  BY <1>2, <1>3, <1>4 DEF RunnerInv

LEMMA GotoTyped ==
  ASSUME RunnerInv, NEW j \in Jobs, NEW p \in {"idle", "reading", "making", "live", "gone", "refused"}, Goto(j, p)
  PROVE  /\ phase' \in [Jobs -> {"idle", "reading", "making", "live", "gone", "refused"}]
         /\ phase'[j] = p /\ \A k \in Jobs : k # j => phase'[k] = phase[k]
BY DEF Goto, RunnerInv, RunnerTypeOK

LEMMA RunStep == ASSUME RunnerInv, NEW d \in Dev, Run(d) \/ Refuse(d) PROVE RunnerInv' /\ ReadableStays
<1>1. d \in Jobs /\ UNCHANGED <<now, registryVars, stopVars, armed, timedOut>>
  BY DEF Jobs, Run, Refuse
<1>2. PICK p \in {"reading", "refused"} : Goto(d, p)
  BY DEF Run, Refuse
<1>3. /\ phase' \in [Jobs -> {"idle", "reading", "making", "live", "gone", "refused"}]
      /\ phase'[d] = p /\ \A k \in Jobs : k # d => phase'[k] = phase[k]
  BY <1>1, <1>2, GotoTyped
<1>4. phase[d] \in {"idle", "reading"}
  BY DEF Run, Refuse
<1>5. RunnerTypeOK'
  BY <1>1, <1>3 DEF RunnerInv, RunnerTypeOK, registryVars, stopVars
<1> QED
  BY <1>1, <1>2, <1>3, <1>4, <1>5, RegistryKept DEF registryVars, stopVars

LEMMA RunAdhocStep == ASSUME RunnerInv, NEW a \in Adhoc, RunAdhoc(a) PROVE RunnerInv' /\ ReadableStays
<1>1. a \in Jobs /\ UNCHANGED <<now, id, entry, active, exited, stopVars, armed, timedOut>> /\ logless' \subseteq Adhoc
  BY DEF Jobs, RunAdhoc, RunnerInv, RunnerTypeOK
<1>2. PICK p \in {"making", "refused"} : Goto(a, p)
  BY DEF RunAdhoc
<1>3. /\ phase' \in [Jobs -> {"idle", "reading", "making", "live", "gone", "refused"}]
      /\ phase'[a] = p /\ \A k \in Jobs : k # a => phase'[k] = phase[k]
  BY <1>1, <1>2, GotoTyped
<1>4. phase[a] = "idle"
  BY DEF RunAdhoc
<1>5. RunnerTypeOK'
  BY <1>1, <1>3 DEF RunnerInv, RunnerTypeOK, stopVars
<1> QED
  BY <1>1, <1>2, <1>3, <1>4, <1>5, RegistryKept DEF stopVars

LEMMA TickStep == ASSUME RunnerInv, Tick PROVE RunnerInv' /\ ReadableStays
<1>1. UNCHANGED <<phase, registryVars, stopVars, armed, timedOut>> /\ now' \in 0..MaxTime
  BY RunnerAssumption DEF Tick, RunnerInv, RunnerTypeOK
<1>2. RunnerTypeOK'
  BY <1>1 DEF RunnerInv, RunnerTypeOK, registryVars, stopVars
<1> QED
  BY <1>1, <1>2, RegistryKept DEF registryVars, stopVars

\* Jobs that a stop or a timeout ends are marked and signalled.
LEMMA TerminateStep ==
  ASSUME RunnerInv, NEW S \in SUBSET Live, Terminate(S), UNCHANGED <<now, phase, registryVars>>,
         timedOut' \subseteq timedOut \cup (S \cap Adhoc), timedOut \subseteq timedOut'
  PROVE  RunnerInv' /\ ReadableStays
<1>1. S \subseteq Jobs /\ Live' = Live /\ UNCHANGED <<id, entry, active, exited, logless>>
  BY DEF Live, registryVars
<1>2. /\ signalled' \in [Jobs -> SUBSET {"TERM", "KILL"}]
      /\ \A j \in S : "TERM" \in signalled'[j]
      /\ \A j \in Jobs : signalled[j] \subseteq signalled'[j]
  BY <1>1 DEF Terminate, RunnerInv, RunnerTypeOK
<1>3. RunnerTypeOK'
  BY <1>1, <1>2 DEF Terminate, RunnerInv, RunnerTypeOK
<1>4. Slots'
  <2>1. ASSUME NEW j \in Jobs, phase'[j] \notin {"live", "gone"} PROVE id'[j] = NoJob /\ j \notin terminated'
    BY <1>1, <2>1 DEF Terminate, RunnerInv, Slots, Live
  <2> QED
    BY <1>1, <2>1 DEF RunnerInv, Slots
<1>5. TimeoutExclusive'
  <2>1. ASSUME NEW a \in armed' PROVE phase'[a] = "live" /\ a \notin terminated'
    BY <2>1 DEF Terminate, RunnerInv, TimeoutExclusive
  <2>2. ASSUME NEW a \in timedOut' PROVE a \in terminated' /\ "TERM" \in signalled'[a]
    <3>1. CASE a \in S
      BY <1>2, <3>1 DEF Terminate
    <3>2. CASE a \notin S
      <4>1. a \in timedOut /\ a \in Jobs
        BY <2>2, <3>2 DEF RunnerInv, RunnerTypeOK, Jobs
      <4> QED
        BY <1>2, <4>1 DEF Terminate, RunnerInv, TimeoutExclusive
    <3> QED
      BY <3>1, <3>2
  <2> QED
    BY <2>1, <2>2 DEF TimeoutExclusive
<1>6. ReadableStays
  BY <1>1 DEF ReadableStays, Readable, Registered
<1> QED
  BY <1>1, <1>3, <1>4, <1>5, <1>6 DEF RunnerInv

LEMMA StopStep == ASSUME RunnerInv, NEW i \in Ids, Stop(i) PROVE RunnerInv' /\ ReadableStays
<1>1. {entry[i]} \in SUBSET Live
  BY DEF Stop, RunnerInv, Slots
<1> QED
  BY <1>1, TerminateStep DEF Stop

LEMMA StopAllStep == ASSUME RunnerInv, StopAll PROVE RunnerInv' /\ ReadableStays
<1> DEFINE S == ({entry[i] : i \in Ids} \ {NoJob}) \ terminated
<1>1. S \in SUBSET Live
  BY DEF RunnerInv, Slots
<1>2. Terminate(S) /\ UNCHANGED <<now, phase, registryVars, timedOut>>
  BY DEF StopAll
<1> HIDE DEF S
<1> QED
  BY <1>1, <1>2, TerminateStep

LEMMA TimeOutStep == ASSUME RunnerInv, NEW a \in Adhoc, TimeOutJob(a) PROVE RunnerInv' /\ ReadableStays
<1>1. a \in Live /\ UNCHANGED <<now, phase, registryVars>>
  BY DEF TimeOutJob, RunnerInv, TimeoutExclusive, Live, Jobs
<1>2. CASE Terminate({a}) /\ timedOut' = timedOut \cup {a}
  BY <1>1, <1>2, TerminateStep
<1>3. CASE armed' = armed \ {a} /\ UNCHANGED <<terminated, signalled, killTimer, stopping, timedOut>>
  <2>1. RunnerTypeOK'
    BY <1>1, <1>3 DEF RunnerInv, RunnerTypeOK, registryVars
  <2> QED
    BY <1>1, <1>3, <2>1, RegistryKept DEF registryVars
<1> QED
  BY <1>2, <1>3 DEF TimeOutJob

LEMMA ForceKillStep == ASSUME RunnerInv, NEW j \in Jobs, ForceKill(j) PROVE RunnerInv' /\ ReadableStays
<1>1. /\ UNCHANGED <<now, phase, registryVars, terminated, stopping, armed, timedOut>>
      /\ killTimer' \subseteq killTimer /\ Live' = Live
  BY DEF ForceKill, Live
<1>2. /\ signalled' \in [Jobs -> SUBSET {"TERM", "KILL"}]
      /\ \A k \in Jobs : signalled[k] \subseteq signalled'[k]
  BY DEF ForceKill, RunnerInv, RunnerTypeOK
<1>3. RunnerTypeOK'
  BY <1>1, <1>2 DEF RunnerInv, RunnerTypeOK, registryVars
<1>4. Slots'
  BY <1>1 DEF RunnerInv, Slots, registryVars
<1>5. TimeoutExclusive'
  BY <1>1, <1>2 DEF RunnerInv, RunnerTypeOK, TimeoutExclusive, Jobs
<1>6. ReadableStays
  BY <1>1 DEF ReadableStays, Readable, Registered, registryVars
<1> QED
  BY <1>1, <1>3, <1>4, <1>5, <1>6 DEF RunnerInv, registryVars
-----------------------------------------------------------------------------
\* A job that may be spawned has no id yet, and gets one that nobody has.
LEMMA NewIdIs ==
  ASSUME RunnerInv, IdsUnique', NEW j \in Jobs, MaySpawn(j), id' = [id EXCEPT ![j] = NewId(j)]
  PROVE  /\ NewId(j) \in Ids /\ NewId(j) # NoJob /\ j \notin Live /\ j \notin terminated
         /\ id[j] = NoJob /\ entry[NewId(j)] = NoJob
         /\ id' \in [Jobs -> Ids \cup {NoJob}] /\ id'[j] = NewId(j)
         /\ \A k \in Jobs : k # j => id'[k] = id[k] /\ id[k] # NewId(j)
<1>1. NewId(j) \in Ids /\ NewId(j) # NoJob
  <2>1. CASE j \in Dev
    <3>1. Project[j] \in Range(Project)
      BY <2>1, RunnerAssumption DEF Range
    <3>2. NewId(j) = <<Project[j], now>> /\ now \in 0..MaxTime
      BY <2>1 DEF NewId, RunnerInv, RunnerTypeOK
    <3> QED
      BY <3>1, <3>2, RunnerAssumption DEF Ids
  <2>2. CASE j \notin Dev
    BY <2>2, RunnerAssumption DEF NewId, Ids, Jobs
  <2> QED
    BY <2>1, <2>2
<1>2. j \notin Live /\ j \notin terminated /\ id[j] = NoJob
  BY DEF MaySpawn, Live, RunnerInv, Slots
<1>3. /\ id' \in [Jobs -> Ids \cup {NoJob}] /\ id'[j] = NewId(j)
      /\ \A k \in Jobs : k # j => id'[k] = id[k]
  BY <1>1 DEF RunnerInv, RunnerTypeOK
<1>4. \A k \in Jobs : k # j => id[k] # NewId(j)
  BY <1>1, <1>3 DEF IdsUnique
<1>5. entry[NewId(j)] = NoJob
  <2> SUFFICES ASSUME entry[NewId(j)] # NoJob PROVE FALSE
    OBVIOUS
  <2>1. entry[NewId(j)] \in Live /\ id[entry[NewId(j)]] = NewId(j)
    BY <1>1 DEF RunnerInv, Slots
  <2> QED
    BY <1>2, <1>4, <2>1 DEF Live
<1> QED
  BY <1>1, <1>2, <1>3, <1>4, <1>5

LEMMA SpawnJobStep == ASSUME RunnerInv, IdsUnique', NEW j \in Jobs, SpawnJob(j) PROVE RunnerInv' /\ ReadableStays
<1>1. /\ MaySpawn(j) /\ Goto(j, "live") /\ id' = [id EXCEPT ![j] = NewId(j)]
      /\ entry' = [entry EXCEPT ![NewId(j)] = j] /\ active' = active + 1
      /\ UNCHANGED <<now, logless, exited, stopVars, timedOut>>
  BY DEF SpawnJob
<1>2. /\ phase' \in [Jobs -> {"idle", "reading", "making", "live", "gone", "refused"}]
      /\ phase'[j] = "live" /\ \A k \in Jobs : k # j => phase'[k] = phase[k]
  BY <1>1, GotoTyped
<1>3. /\ NewId(j) \in Ids /\ NewId(j) # NoJob /\ j \notin Live /\ j \notin terminated
      /\ id[j] = NoJob /\ entry[NewId(j)] = NoJob
      /\ id' \in [Jobs -> Ids \cup {NoJob}] /\ id'[j] = NewId(j)
      /\ \A k \in Jobs : k # j => id'[k] = id[k] /\ id[k] # NewId(j)
  BY <1>1, NewIdIs
<1>4. /\ entry' \in [Ids -> Jobs \cup {NoJob}] /\ entry'[NewId(j)] = j
      /\ \A i \in Ids : i # NewId(j) => entry'[i] = entry[i]
  BY <1>1, <1>3 DEF RunnerInv, RunnerTypeOK
<1>5. Live' = Live \cup {j}
  BY <1>2 DEF Live
<1>6. armed' \subseteq Adhoc /\ armed' \subseteq armed \cup {j}
  BY DEF SpawnJob, RunnerInv, RunnerTypeOK
<1>7. RunnerTypeOK'
  BY <1>1, <1>2, <1>3, <1>4, <1>6 DEF RunnerInv, RunnerTypeOK, stopVars
<1>8. Slots'
  <2>1. IsFiniteSet(Live') /\ active' = Cardinality(Live')
    BY <1>1, <1>3, <1>5, FS_AddElement DEF RunnerInv, Slots
  <2>2. ASSUME NEW k \in Live' PROVE id'[k] # NoJob /\ entry'[id'[k]] = k
    <3>1. CASE k = j
      BY <1>3, <1>4, <3>1
    <3>2. CASE k # j
      <4>1. k \in Live /\ k \in Jobs
        BY <1>5, <2>2, <3>2 DEF Live
      <4>2. id[k] # NoJob /\ id[k] \in Ids /\ entry[id[k]] = k
        BY <4>1 DEF RunnerInv, Slots, RunnerTypeOK
      <4> QED
        BY <1>3, <1>4, <3>2, <4>1, <4>2
    <3> QED
      BY <3>1, <3>2
  <2>3. ASSUME NEW i \in Ids, entry'[i] # NoJob PROVE entry'[i] \in Live' /\ id'[entry'[i]] = i
    <3>1. CASE i = NewId(j)
      BY <1>3, <1>4, <1>5, <3>1
    <3>2. CASE i # NewId(j)
      <4>1. entry'[i] = entry[i] /\ entry[i] \in Live /\ id[entry[i]] = i
        BY <1>4, <2>3, <3>2 DEF RunnerInv, Slots
      <4>2. entry[i] \in Jobs /\ entry[i] # j
        BY <1>3, <4>1 DEF Live
      <4> QED
        BY <1>3, <1>5, <4>1, <4>2
    <3> QED
      BY <3>1, <3>2
  <2>4. ASSUME NEW k \in Jobs, phase'[k] \notin {"live", "gone"} PROVE id'[k] = NoJob /\ k \notin terminated'
    <3>1. k # j /\ phase'[k] = phase[k]
      BY <1>2, <2>4
    <3> QED
      BY <1>1, <1>3, <2>4, <3>1 DEF RunnerInv, Slots, stopVars
  <2> QED
    BY <2>1, <2>2, <2>3, <2>4 DEF Slots
<1>9. TimeoutExclusive'
  <2>1. ASSUME NEW a \in armed' PROVE phase'[a] = "live" /\ a \notin terminated'
    <3>1. CASE a = j
      BY <1>1, <1>2, <1>3, <3>1 DEF stopVars
    <3>2. CASE a # j
      <4>1. a \in armed /\ a \in Jobs
        BY <1>6, <2>1, <3>2 DEF RunnerInv, RunnerTypeOK, Jobs
      <4> QED
        BY <1>1, <1>2, <3>2, <4>1 DEF RunnerInv, TimeoutExclusive, stopVars
    <3> QED
      BY <3>1, <3>2
  <2> QED
    BY <1>1, <2>1 DEF RunnerInv, TimeoutExclusive, stopVars
<1>10. ReadableStays
  <2> SUFFICES ASSUME NEW a \in Adhoc, Readable(a) PROVE Readable(a)'
    BY DEF ReadableStays
  <2>1. CASE Registered(a)
    <3>1. a # j /\ id'[a] = id[a] /\ id[a] \in Ids /\ id[a] # NoJob /\ entry[id[a]] # NoJob
      BY <1>3, <2>1 DEF Registered, RunnerInv, RunnerTypeOK, Jobs
    <3>2. entry'[id[a]] # NoJob
      BY <1>4, <3>1, RunnerAssumption
    <3> QED
      BY <3>1, <3>2 DEF Readable, Registered
  <2>2. CASE ~Registered(a)
    BY <1>1, <2>2 DEF Readable
  <2> QED
    BY <2>1, <2>2
<1> QED
  BY <1>1, <1>7, <1>8, <1>9, <1>10 DEF RunnerInv
-----------------------------------------------------------------------------
\* A snapshot more, if the job is a background command with a log.
LEMMA KeepIs ==
  ASSUME RunnerInv, NEW j \in Jobs
  PROVE  /\ Keep(j) \in Seq(Adhoc) /\ Len(Keep(j)) <= Kept
         /\ j \in Adhoc \ logless => \E i \in DOMAIN Keep(j) : Keep(j)[i] = j
         /\ \A i \in DOMAIN exited : \/ \E k \in DOMAIN Keep(j) : Keep(j)[k] = exited[i]
                                     \/ Len(exited) = Kept /\ Head(exited) = exited[i]
<1>1. exited \in Seq(Adhoc) /\ Len(exited) <= Kept
  BY DEF RunnerInv, RunnerTypeOK
<1>2. CASE j \in Adhoc \ logless
  <2>1. Keep(j) = Retain(exited, j) /\ j \in Adhoc
    BY <1>2 DEF Keep
  <2>2. /\ Retain(exited, j) \in Seq(Adhoc) /\ Len(Retain(exited, j)) <= Kept
        /\ \E i \in DOMAIN Retain(exited, j) : Retain(exited, j)[i] = j
        /\ \A i \in DOMAIN exited : \/ \E k \in DOMAIN Retain(exited, j) : Retain(exited, j)[k] = exited[i]
                                    \/ Len(exited) = Kept /\ Head(exited) = exited[i]
    BY <1>1, <2>1, RetainIs
  <2> HIDE DEF Keep
  <2> DEFINE r == Retain(exited, j)
  <2> QED
    BY <2>1, <2>2, Zenon
<1>3. CASE j \notin Adhoc \ logless
  <2>1. Keep(j) = exited
    BY <1>3 DEF Keep
  <2> QED
    BY <1>1, <1>3, <2>1
<1> QED
  BY <1>2, <1>3

\* The snapshots of a step that takes one of j: all others stay readable.
LEMMA KeptReadable ==
  ASSUME RunnerInv, NEW j \in Jobs, exited' = Keep(j),
         \A a \in Adhoc : a # j /\ Registered(a) => Registered(a)'
  PROVE  ReadableStays
<1>1. /\ j \in Adhoc \ logless => \E i \in DOMAIN exited' : exited'[i] = j
      /\ \A i \in DOMAIN exited : \/ \E k \in DOMAIN exited' : exited'[k] = exited[i]
                                  \/ Len(exited) = Kept /\ Head(exited) = exited[i]
  BY KeepIs
<1> SUFFICES ASSUME NEW a \in Adhoc \ logless, Readable(a), ~Readable(a)'
             PROVE Len(exited) = Kept /\ Head(exited) = a
  BY DEF ReadableStays
<1>2. a # j
  BY <1>1 DEF Readable
<1>3. ~Registered(a)
  BY <1>2 DEF Readable
<1>4. PICK i \in DOMAIN exited : exited[i] = a
  BY <1>3 DEF Readable
<1>5. ~ \E k \in DOMAIN exited' : exited'[k] = a
  BY DEF Readable
<1> QED
  BY <1>1, <1>4, <1>5

LEMMA SpawnFailsStep == ASSUME RunnerInv, IdsUnique', NEW j \in Jobs, SpawnFails(j) PROVE RunnerInv' /\ ReadableStays
<1>1. /\ MaySpawn(j) /\ Goto(j, "gone") /\ id' = [id EXCEPT ![j] = NewId(j)]
      /\ entry' = [entry EXCEPT ![NewId(j)] = NoJob] /\ exited' = Keep(j)
      /\ UNCHANGED <<now, active, logless, stopVars, armed, timedOut>>
  BY DEF SpawnFails
<1>2. /\ phase' \in [Jobs -> {"idle", "reading", "making", "live", "gone", "refused"}]
      /\ phase'[j] = "gone" /\ \A k \in Jobs : k # j => phase'[k] = phase[k]
  BY <1>1, GotoTyped
<1>3. /\ NewId(j) \in Ids /\ NewId(j) # NoJob /\ j \notin Live /\ j \notin terminated
      /\ id[j] = NoJob /\ entry[NewId(j)] = NoJob
      /\ id' \in [Jobs -> Ids \cup {NoJob}] /\ id'[j] = NewId(j)
      /\ \A k \in Jobs : k # j => id'[k] = id[k] /\ id[k] # NewId(j)
  BY <1>1, NewIdIs
<1>4. entry' = entry
  BY <1>1, <1>3 DEF RunnerInv, RunnerTypeOK
<1>5. Live' = Live
  BY <1>2, <1>3 DEF Live
<1>6. RunnerTypeOK' /\ Len(exited') <= Kept
  BY <1>1, <1>2, <1>3, <1>4, KeepIs DEF RunnerInv, RunnerTypeOK, stopVars
<1>7. Slots'
  <2>1. \A k \in Live : id'[k] = id[k] /\ k # j
    BY <1>3 DEF Live
  <2>2. ASSUME NEW k \in Jobs, phase'[k] \notin {"live", "gone"} PROVE id'[k] = NoJob /\ k \notin terminated'
    <3>1. k # j /\ phase'[k] = phase[k]
      BY <1>2, <2>2
    <3> QED
      BY <1>1, <1>3, <2>2, <3>1 DEF RunnerInv, Slots, stopVars
  <2> QED
    BY <1>1, <1>4, <1>5, <2>1, <2>2 DEF RunnerInv, Slots
<1>8. TimeoutExclusive'
  <2>1. \A a \in armed : phase'[a] = "live"
    <3>1. \A a \in armed : a \in Live /\ a # j
      BY <1>3 DEF RunnerInv, RunnerTypeOK, TimeoutExclusive, Live, Jobs
    <3> QED
      BY <1>2, <3>1 DEF Live
  <2> QED
    BY <1>1, <2>1 DEF RunnerInv, TimeoutExclusive, stopVars
<1>9. \A a \in Adhoc : a # j /\ Registered(a) => Registered(a)'
  BY <1>3, <1>4 DEF Registered, Jobs
<1>10. ReadableStays
  BY <1>1, <1>9, KeptReadable
<1> QED
  BY <1>6, <1>7, <1>8, <1>10 DEF RunnerInv

LEMMA JobExitStep == ASSUME RunnerInv, IdsUnique, NEW j \in Jobs, ExitJob(j) PROVE RunnerInv' /\ ReadableStays
<1>1. j \in Live /\ Registered(j) /\ id[j] \in Ids /\ entry[id[j]] = j
  <2>1. j \in Live
    BY DEF ExitJob, Live
  <2>2. entry[id[j]] = j /\ id[j] # NoJob /\ id[j] \in Ids
    BY <2>1 DEF RunnerInv, Slots, RunnerTypeOK
  <2> QED
    BY <2>1, <2>2, RegisteredLives
<1>2. /\ Goto(j, "gone") /\ entry' = [entry EXCEPT ![id[j]] = NoJob] /\ active' = active - 1
      /\ armed' = armed \ {j} /\ exited' = Keep(j)
      /\ UNCHANGED <<now, id, logless, terminated, signalled, timedOut>>
      /\ stopping' \subseteq stopping /\ killTimer' \subseteq killTimer
  BY <1>1 DEF ExitJob, HandleExit
<1>3. /\ phase' \in [Jobs -> {"idle", "reading", "making", "live", "gone", "refused"}]
      /\ phase'[j] = "gone" /\ \A k \in Jobs : k # j => phase'[k] = phase[k]
  BY <1>2, GotoTyped
<1>4. /\ entry' \in [Ids -> Jobs \cup {NoJob}] /\ entry'[id[j]] = NoJob
      /\ \A i \in Ids : i # id[j] => entry'[i] = entry[i]
  BY <1>1, <1>2 DEF RunnerInv, RunnerTypeOK
<1>5. Live' = Live \ {j}
  BY <1>3 DEF Live
<1>6. IsFiniteSet(Live') /\ active' = Cardinality(Live') /\ active' \in Nat
  <2>1. IsFiniteSet(Live) /\ active = Cardinality(Live)
    BY DEF RunnerInv, Slots
  <2>2. IsFiniteSet(Live') /\ Cardinality(Live') = Cardinality(Live) - 1
    BY <1>1, <1>5, <2>1, FS_RemoveElement
  <2>3. Cardinality(Live') \in Nat
    BY <2>2, FS_CardinalityType
  <2> QED
    BY <1>2, <2>1, <2>2, <2>3
<1>7. RunnerTypeOK' /\ Len(exited') <= Kept
  BY <1>2, <1>3, <1>4, <1>6, KeepIs DEF RunnerInv, RunnerTypeOK
<1>8. \A k \in Jobs : k # j /\ id[k] # NoJob => id[k] # id[j]
  BY DEF IdsUnique
<1>9. Slots'
  <2>1. ASSUME NEW k \in Live' PROVE id'[k] # NoJob /\ entry'[id'[k]] = k
    <3>1. k \in Live /\ k # j /\ k \in Jobs
      BY <1>5, <2>1 DEF Live
    <3>2. id[k] # NoJob /\ id[k] \in Ids /\ entry[id[k]] = k
      BY <3>1 DEF RunnerInv, Slots, RunnerTypeOK
    <3> QED
      BY <1>2, <1>4, <1>8, <3>1, <3>2
  <2>2. ASSUME NEW i \in Ids, entry'[i] # NoJob PROVE entry'[i] \in Live' /\ id'[entry'[i]] = i
    <3>1. i # id[j] /\ entry'[i] = entry[i]
      BY <1>4, <2>2
    <3>2. entry[i] \in Live /\ id[entry[i]] = i
      BY <2>2, <3>1 DEF RunnerInv, Slots
    <3> QED
      BY <1>2, <1>5, <3>1, <3>2
  <2>3. ASSUME NEW k \in Jobs, phase'[k] \notin {"live", "gone"} PROVE id'[k] = NoJob /\ k \notin terminated'
    <3>1. k # j /\ phase'[k] = phase[k]
      BY <1>3, <2>3
    <3> QED
      BY <1>2, <2>3, <3>1 DEF RunnerInv, Slots
  <2> QED
    BY <1>6, <2>1, <2>2, <2>3 DEF Slots
<1>10. TimeoutExclusive'
  <2>1. ASSUME NEW a \in armed' PROVE phase'[a] = "live" /\ a \notin terminated'
    <3>1. a \in armed /\ a # j /\ a \in Jobs
      BY <1>2, <2>1 DEF RunnerInv, RunnerTypeOK, Jobs
    <3> QED
      BY <1>2, <1>3, <3>1 DEF RunnerInv, TimeoutExclusive
  <2> QED
    BY <1>2, <2>1 DEF RunnerInv, TimeoutExclusive
<1>11. ASSUME NEW a \in Adhoc, a # j, Registered(a) PROVE Registered(a)'
  <2>1. a \in Jobs /\ id[a] # NoJob /\ id[a] \in Ids /\ entry[id[a]] # NoJob /\ id[a] # id[j]
    BY <1>8, <1>11 DEF Registered, RunnerInv, RunnerTypeOK, Jobs
  <2> QED
    BY <1>2, <1>4, <2>1 DEF Registered
<1>12. ReadableStays
  BY <1>2, <1>11, KeptReadable
<1> QED
  BY <1>7, <1>9, <1>10, <1>12 DEF RunnerInv

LEMMA RunnerInvNext ==
  ASSUME RunnerInv, IdsUnique, IdsUnique', [RunnerNext]_runnerVars
  PROVE  RunnerInv' /\ [ReadableStays]_runnerVars
<1>1. ASSUME NEW d \in Dev, Run(d) \/ Refuse(d) PROVE RunnerInv' /\ ReadableStays
  BY <1>1, RunStep
<1>2. ASSUME NEW a \in Adhoc, RunAdhoc(a) \/ TimeOutJob(a) PROVE RunnerInv' /\ ReadableStays
  BY <1>2, RunAdhocStep, TimeOutStep
<1>3. ASSUME NEW j \in Jobs, SpawnJob(j) \/ SpawnFails(j) \/ ExitJob(j) \/ ForceKill(j) PROVE RunnerInv' /\ ReadableStays
  BY <1>3, SpawnJobStep, SpawnFailsStep, JobExitStep, ForceKillStep
<1>4. ASSUME NEW i \in Ids, Stop(i) PROVE RunnerInv' /\ ReadableStays
  BY <1>4, StopStep
<1>5. CASE StopAll \/ Tick
  BY <1>5, StopAllStep, TickStep
<1>6. CASE UNCHANGED runnerVars
  <2>1. UNCHANGED <<now, phase, id, entry, active, terminated, signalled, armed, killTimer,
                    timedOut, logless, stopping, exited>>
    BY <1>6 DEF runnerVars
  <2>2. RunnerTypeOK'
    BY <2>1 DEF RunnerInv, RunnerTypeOK
  <2> QED
    BY <1>6, <2>1, <2>2, RegistryKept
<1> QED
  BY <1>1, <1>2, <1>3, <1>4, <1>5, <1>6 DEF RunnerNext

\* While ids are unique, the count that enforces the limit is the number of live processes, exit,
\* stop and timeout of a background command exclude each other, and its output stays readable
\* until Kept later ones have displaced it (runner.ts:155-300, 311-349, 539-598).
THEOREM RunnerAlwaysSound == RunnerSpec /\ []IdsUnique => RunnerSound
<1>1. RunnerSpec /\ []IdsUnique => []RunnerInv
  BY RunnerInvInit, RunnerInvNext, PTL DEF RunnerSpec
<1>2. RunnerInv => RunnerTypeOK /\ CountIsLive /\ TimeoutExclusive
  BY DEF RunnerInv, Slots, CountIsLive
<1>3. RunnerSpec /\ []IdsUnique => [](RunnerTypeOK /\ CountIsLive /\ TimeoutExclusive)
  BY <1>1, <1>2, PTL
<1>4. RunnerSpec /\ []IdsUnique => [][ReadableStays]_runnerVars
  BY <1>1, RunnerInvNext, PTL DEF RunnerSpec
<1>5. RunnerSpec /\ []IdsUnique => OutputReadable
  BY <1>4, PTL DEF OutputReadable, ReadableStays
<1> QED
  BY <1>3, <1>5 DEF RunnerSound
=============================================================================
