------------------------ MODULE CompanionDedupeProofs ------------------------
(***************************************************************************)
(* Proofs about CompanionDedupe, for any number of deliveries, events,     *)
(* tokens and crashes, as long as a receipt outlives the window in which   *)
(* its event is accepted: its types; that no event's operation is started  *)
(* twice; that what callers are told is true; that a token is used once;   *)
(* and that the store implements ReplayContract.                           *)
(***************************************************************************)
EXTENDS CompanionDedupe, TLAPS

\* A delivery that finalises its receipt has the result of its operation.
ResultReady ==
  \A d \in Deliveries : pc[d] = "finalize" => outcome[req[d].key] \in {"ok", "denied"}

Typed == TypeOK /\ ResultReady

\* Pruning keeps the type of the two maps.
LEMMA PruneType ==
  ASSUME NEW m \in State, now \in Nat
  PROVE  Prune(m) \in State
<1>1. NoReceipt \in Receipt
  BY ConstantsAssumption DEF NoReceipt, Receipt
<1>2. QED
  BY <1>1 DEF Prune, State

\* Setting a result keeps the type of the two maps.
LEMMA WithResultType ==
  ASSUME NEW m \in State, NEW k \in Keys, NEW r \in Results
  PROVE  WithResult(m, k, r) \in State
BY DEF WithResult, State, Receipt, Held

\* The types hold initially.
LEMMA TypedInit == Init => Typed
<1>1. NoReceipt \in Receipt
  BY ConstantsAssumption DEF NoReceipt, Receipt
<1>2. QED
  BY <1>1 DEF Init, Typed, TypeOK, ResultReady, State, EmptyState, PCs,
              Replies, Closures

USE DEF historyVars, dedupeVars

\* Every step preserves the types.
LEMMA TypedNext == Typed /\ [Next]_vars => Typed'
<1> SUFFICES ASSUME Typed, [Next]_vars PROVE Typed'
  OBVIOUS
<1> USE DEF Typed, TypeOK, ResultReady
<1>0. EmptyState \in State
  BY ConstantsAssumption DEF EmptyState, State, NoReceipt, Receipt
<1>1. ASSUME NEW d \in Deliveries, Deliver(d) PROVE Typed'
  BY <1>1 DEF Deliver, Enqueue, PCs, Closures
<1>2. ASSUME NEW d \in Deliveries, Closure(d) PROVE Typed'
  <2>1. CASE StartClosure(d)
    BY <2>1, PruneType DEF StartClosure
  <2>2. CASE PruneSaved(d)
    BY <2>2 DEF PruneSaved
  <2>3. CASE Collide(d)
    BY <2>3 DEF Collide, Running, Leave, Answer, PCs, Replies
  <2>4. CASE Join(d)
    BY <2>4 DEF Join, Running, Leave, PCs
  <2>5. CASE Replay(d)
    <3>1. mem.events[req[d].key].result \in Replies
      BY <2>5 DEF Replay, Held, State, Receipt, Request, Replies
    <3>2. QED
      BY <2>5, <3>1 DEF Replay, Running, Leave, Answer, PCs, Replies
  <2>6. CASE Reserve(d)
    <3> DEFINE receipt == [scope |-> req[d].scope, expiresAt |-> now + Ttl,
                           result |-> "indeterminate"]
    <3>1. receipt \in Receipt /\ req[d].key \in Keys
      BY ConstantsAssumption DEF Receipt, Request, Results
    <3>2. [mem EXCEPT !.events[req[d].key] = receipt] \in State
      <4> HIDE DEF receipt
      <4> QED BY <3>1 DEF State
    <3>3. QED
      BY <2>6, <3>2 DEF Reserve
  <2>7. CASE StartOperation(d)
    BY <2>7 DEF StartOperation, Running, Leave, PCs
  <2>8. CASE ReservationFails(d)
    BY <2>8 DEF ReservationFails, Running, Leave, Answer, PCs, Replies
  <2>9. CASE ConsumeToken(d)
    <3>1. req[d].token \in Tokens => TokenExp[req[d].token] \in Nat
      BY ConstantsAssumption
    <3>2. mem' \in State
      BY ZenonT(30), <2>9, <3>1 DEF ConsumeToken, State
    <3>3. QED
      BY <2>9, <3>2 DEF ConsumeToken
  <2>10. CASE TokenSaved(d)
    <3>1. uses' \in [Tokens -> SUBSET (Deliveries \X Nat)]
      <4> DEFINE use == <<d, now>>
      <4>1. use \in Deliveries \X Nat
        OBVIOUS
      <4>2. uses' = [uses EXCEPT ![req[d].token] = @ \cup {use}]
        BY <2>10 DEF TokenSaved
      <4>3. QED
        <5> HIDE DEF use
        <5> QED BY <4>1, <4>2
    <3>2. pc' \in [Deliveries -> PCs] /\ queue' \in Seq(Deliveries)
      BY <2>10 DEF TokenSaved, Running, Leave, PCs
    <3>3. QED
      BY <2>10, <3>1, <3>2 DEF TokenSaved, Leave
  <2>11. CASE TokenRefused(d)
    <3>1. req[d].key \in Keys /\ queue # <<>>
      BY <2>11 DEF TokenRefused, Running, Request
    <3>2. pc' \in [Deliveries -> PCs] /\ queue' \in Seq(Deliveries)
      BY <2>11, <3>1 DEF TokenRefused, PCs, Closures
    <3>3. outcome' = [outcome EXCEPT ![req[d].key] = "denied"] /\ req' = req
      BY <2>11 DEF TokenRefused
    <3>4. outcome' \in [Keys -> {"none", "ok", "denied"}]
      BY <3>1, <3>3
    <3>5. ResultReady'
      BY <2>11, <3>1, <3>3 DEF TokenRefused, Request
    <3>6. QED
      BY <2>11, <3>2, <3>4, <3>5 DEF TokenRefused
  <2>12. CASE Finalize(d)
    <3>1. mem' \in State
      BY <2>12, WithResultType DEF Finalize, Running, Request, Results, Closures
    <3>2. QED
      BY <2>12, <3>1 DEF Finalize
  <2>13. CASE FinalSaved(d)
    BY <2>13 DEF FinalSaved, Running, Leave, Answer, PCs, Replies, Results
  <2>14. CASE FinalFails(d)
    BY <2>14 DEF FinalFails, Running, PCs, Closures
  <2>15. CASE Repair(d)
    <3>1. mem' \in State
      BY <2>15, WithResultType DEF Repair, Request, Results
    <3>2. QED
      BY <2>15, <3>1 DEF Repair, Running, Leave, Answer, PCs, Replies, Results
  <2>16. QED
    BY <1>2, <2>1, <2>2, <2>3, <2>4, <2>5, <2>6, <2>7, <2>8, <2>9, <2>10,
       <2>11, <2>12, <2>13, <2>14, <2>15 DEF Closure
<1>3. ASSUME NEW d \in Deliveries, VerifyToken(d) PROVE Typed'
  <2>1. CASE ~Expired(TokenExp[req[d].token])
    <3>1. UNCHANGED outcome /\ Enqueue(d, "consume")
      BY <1>3, <2>1 DEF VerifyToken
    <3>2. pc' \in [Deliveries -> PCs] /\ queue' \in Seq(Deliveries)
      BY <3>1 DEF Enqueue, PCs, Closures
    <3>3. QED
      BY <1>3, <3>1, <3>2 DEF VerifyToken, Enqueue
  <2>2. CASE Expired(TokenExp[req[d].token])
    <3>1. req[d].key \in Keys /\ req' = req
      BY <1>3 DEF VerifyToken, Request
    <3>2. outcome' = [outcome EXCEPT ![req[d].key] = "denied"]
      BY <1>3, <2>2 DEF VerifyToken
    <3>3. Enqueue(d, "finalize")
      BY <1>3, <2>2 DEF VerifyToken
    <3>4. ResultReady'
      BY <3>1, <3>2, <3>3 DEF Request, Enqueue
    <3>5. pc' \in [Deliveries -> PCs] /\ queue' \in Seq(Deliveries)
      BY <3>3 DEF Enqueue, PCs, Closures
    <3>6. outcome' \in [Keys -> {"none", "ok", "denied"}]
      BY <3>1, <3>2
    <3>7. UNCHANGED <<now, proc, mem, disk, step, pending, req, since, reply,
                      ran, uses>>
      BY <1>3 DEF VerifyToken
    <3>8. TypeOK'
      BY <3>5, <3>6, <3>7
    <3>9. QED
      BY <3>4, <3>8 DEF Typed
  <2>3. QED
    BY <2>1, <2>2
<1>4. ASSUME NEW d \in Deliveries, Act(d) PROVE Typed'
  BY <1>4 DEF Act, Enqueue, PCs, Closures, Request
<1>5. ASSUME NEW d \in Deliveries, Settle(d) PROVE Typed'
  BY <1>5 DEF Settle, PCs
<1>6. ASSUME NEW d \in Deliveries, RejectedReady(d) PROVE Typed'
  BY <1>6 DEF RejectedReady, Answer, PCs, Replies
<1>7. CASE Crash
  BY <1>0, <1>7 DEF Crash, PCs
<1>8. CASE Restart
  BY <1>8, PruneType DEF Restart
<1>9. CASE Tick
  BY <1>9 DEF Tick
<1>10. CASE UNCHANGED vars
  BY <1>10 DEF vars
<1>11. QED
  BY <1>1, <1>2, <1>3, <1>4, <1>5, <1>6, <1>7, <1>8, <1>9, <1>10
  DEF Next, Operation

\* Every variable keeps its type (dedupe.ts, gateway.ts).
THEOREM TypeCorrect == Spec => []TypeOK
<1>1. Init => Typed
  BY TypedInit
<1>2. Typed /\ [Next]_vars => Typed'
  BY TypedNext
<1>3. Typed => TypeOK
  BY DEF Typed
<1>4. QED
  BY <1>1, <1>2, <1>3, PTL DEF Spec
-----------------------------------------------------------------------------
(***************************************************************************)
(* At most once                                                            *)
(***************************************************************************)

\* No receipt of event k written inside its window has expired before this.
Over(k) == Stamp[k] + Ttl <= now + MaxAge

\* Map m holds a receipt of event k that lasts until the event is over.
Covered(m, k) == Held(m, k) /\ Stamp[k] + Ttl <= m.events[k].expiresAt + MaxAge

\* What may be under way only in a running process.
Alive ==
  /\ proc # "up" => step = "start"
  /\ proc # "up" => \A d \in Deliveries : pc[d] # "reserve"

\* The closure that is under way belongs to the head of the chain.
HeadBusy ==
  step # "start" =>
    queue # <<>> /\ pc[Head(queue)] \in {"reserve", "consume", "finalize"}

\* A reservation that waits was validated inside the window, not long ago.
Timely ==
  \A d \in Deliveries : pc[d] = "reserve" =>
    /\ since[d] <= now /\ now <= since[d] + MaxWait
    /\ since[d] <= Stamp[req[d].key] + MaxAge
    /\ Stamp[req[d].key] <= since[d] + MaxAge

\* An event whose operation was started is covered, in memory and on disk.
StartedIsCovered ==
  \A d \in ran :
    \/ Over(req[d].key)
    \/ /\ Covered(disk, req[d].key)
       /\ proc # "down" => Covered(mem, req[d].key)

\* A reservation under way is the first of its event.
FirstReservation ==
  \A d \in Deliveries : Running(d, "reserve", "save") =>
    /\ Covered(mem, req[d].key)
    /\ \A e \in ran : req[e].key # req[d].key

OnceInv ==
  /\ Alive /\ HeadBusy /\ Timely
  /\ StartedIsCovered /\ FirstReservation /\ AtMostOnce

\* A reservation that waits is for an event that is not over.
LEMMA NotOver ==
  ASSUME Typed, Timely, NEW d \in Deliveries, pc[d] = "reserve"
  PROVE  ~Over(req[d].key)
BY ConstantsAssumption, WindowAssumption DEF Typed, TypeOK, Timely, Over, Request

\* Pruning drops no cover before the event is over.
LEMMA PruneCovers ==
  ASSUME NEW m \in State, NEW k \in Keys, now \in Nat, Covered(m, k)
  PROVE  Covered(Prune(m), k) \/ Over(k)
<1>1. m.events[k].expiresAt \in Nat /\ Stamp[k] \in Nat
  BY ConstantsAssumption DEF State, Receipt
<1>2. CASE Expired(m.events[k].expiresAt)
  BY <1>1, <1>2, ConstantsAssumption DEF Covered, Over, Expired
<1>3. CASE ~Expired(m.events[k].expiresAt)
  BY <1>3 DEF Covered, Prune, Held
<1>4. QED
  BY <1>2, <1>3

\* Setting a result drops no cover.
LEMMA ResultCovers ==
  ASSUME NEW m \in State, NEW k \in Keys, NEW j \in Keys, NEW r \in Results,
         Covered(m, k)
  PROVE  Covered(WithResult(m, j, r), k)
<1>1. CASE ~Held(m, j)
  BY <1>1 DEF WithResult
<1>2. CASE Held(m, j)
  <2>1. WithResult(m, j, r).events[k].expiresAt = m.events[k].expiresAt
    BY <1>2 DEF WithResult, State, Receipt
  <2>2. Held(WithResult(m, j, r), k)
    BY <1>2 DEF WithResult, State, Receipt, Held, Covered, Results
  <2>3. QED
    BY <2>1, <2>2 DEF Covered
<1>3. QED
  BY <1>1, <1>2

\* The steps of a running process that reserve nothing, start nothing and
\* uncover nothing.
LEMMA FrameStep ==
  ASSUME Typed, OnceInv, proc = "up", HeadBusy',
         UNCHANGED <<now, proc, req, since, ran>>,
         disk' = disk \/ disk' = mem,
         \A k \in Keys : Covered(mem, k) => Covered(mem', k) \/ Over(k),
         \A e \in Deliveries : pc'[e] = "reserve" => pc[e] = "reserve",
         step' = "save" =>
           \/ step = "save" /\ queue # <<>> /\ Head(queue') = Head(queue)
           \/ pc'[Head(queue')] # "reserve"
  PROVE  OnceInv'
<1> USE DEF OnceInv
<1>1. Alive'
  BY DEF Alive
<1>2. Timely'
  BY DEF Timely
<1>3. StartedIsCovered'
  <2> SUFFICES ASSUME NEW d \in ran, ~Over(req[d].key)
               PROVE  Covered(disk', req[d].key) /\ Covered(mem', req[d].key)
    BY DEF StartedIsCovered, Over, Covered, Held
  <2>1. req[d].key \in Keys
    BY DEF Typed, TypeOK, Request
  <2>2. QED
    BY <2>1 DEF StartedIsCovered
<1>4. FirstReservation'
  <2> SUFFICES ASSUME NEW d \in Deliveries, Running(d, "reserve", "save")'
               PROVE  /\ Covered(mem', req[d].key)
                      /\ \A e \in ran : req[e].key # req[d].key
    BY DEF FirstReservation, Covered, Held
  <2>1. Running(d, "reserve", "save")
    BY DEF Running
  <2>2. ~Over(req[d].key) /\ req[d].key \in Keys
    BY <2>1, NotOver DEF Running, Typed, TypeOK, Request
  <2>3. QED
    BY <2>1, <2>2 DEF FirstReservation
<1>5. AtMostOnce'
  BY DEF AtMostOnce
<1>6. QED
  BY <1>1, <1>2, <1>3, <1>4, <1>5

\* The invariant holds initially.
LEMMA OnceInit == Init => OnceInv
BY DEF Init, OnceInv, Alive, HeadBusy, Timely, StartedIsCovered,
       FirstReservation, AtMostOnce, Running

\* A new delivery waits behind whatever runs.
LEMMA DeliverStep ==
  ASSUME Typed, OnceInv, NEW d \in Deliveries, Deliver(d)
  PROVE  OnceInv'
<1> USE DEF OnceInv
<1>1. /\ UNCHANGED <<now, proc, mem, disk, step, req, ran>> /\ proc = "up"
      /\ queue' = Append(queue, d) /\ pc[d] = "idle"
      /\ pc' = [pc EXCEPT ![d] = "reserve"]
      /\ since' = [since EXCEPT ![d] = now]
  BY DEF Deliver, Enqueue
<1>2. queue # <<>> => Head(queue') = Head(queue)
  BY <1>1 DEF Typed, TypeOK
<1>3. HeadBusy'
  BY <1>1, <1>2 DEF HeadBusy, Typed, TypeOK
<1>4. Timely'
  BY <1>1, ConstantsAssumption DEF Timely, Deliver, InWindow, Typed, TypeOK
<1>5. FirstReservation'
  <2> SUFFICES ASSUME NEW e \in Deliveries, Running(e, "reserve", "save")'
               PROVE  Running(e, "reserve", "save")
    BY <1>1 DEF FirstReservation, Covered, Held
  <2>1. queue # <<>> /\ Head(queue) = e /\ pc[e] \in {"reserve", "consume", "finalize"}
    BY <1>1, <1>2 DEF Running, HeadBusy
  <2>2. QED
    BY <1>1, <2>1 DEF Running, Typed, TypeOK
<1>6. StartedIsCovered' /\ Alive' /\ AtMostOnce'
  BY <1>1 DEF StartedIsCovered, Over, Covered, Held, Alive, AtMostOnce
<1>7. QED
  BY <1>3, <1>4, <1>5, <1>6

\* A reservation is made only for an event that never started.
LEMMA ReserveStep ==
  ASSUME Typed, OnceInv, NEW d \in Deliveries, Reserve(d)
  PROVE  OnceInv'
<1> USE DEF OnceInv
<1> DEFINE key == req[d].key
           receipt == [scope |-> req[d].scope, expiresAt |-> now + Ttl,
                       result |-> "indeterminate"]
<1>1. /\ UNCHANGED <<now, proc, disk, queue, pc, req, since, ran>>
      /\ proc = "up" /\ pc[d] = "reserve" /\ Head(queue) = d /\ queue # <<>>
      /\ ~Held(mem, key) /\ step' = "save"
      /\ mem' = [mem EXCEPT !.events[key] = receipt]
  BY DEF Reserve, Running
<1>2. key \in Keys
  BY DEF Typed, TypeOK, Request
<1>3. \A e \in ran : req[e].key # key
  BY <1>1, NotOver DEF StartedIsCovered, Covered
<1>4. mem'.events[key] = receipt
  <2> HIDE DEF receipt
  <2> QED BY <1>1, <1>2 DEF Typed, TypeOK, State
<1>5. Covered(mem', key)
  <2>1. /\ Stamp[key] \in Nat /\ now \in Nat /\ since[d] \in Nat
        /\ since[d] <= now /\ Stamp[key] <= since[d] + MaxAge
    BY <1>1, <1>2, ConstantsAssumption DEF Timely, Typed, TypeOK
  <2>2. Stamp[key] + Ttl <= now + Ttl + MaxAge
    BY <2>1, ConstantsAssumption
  <2> QED
    BY <1>4, <2>2 DEF Covered, Held
<1>6. \A k \in Keys \ {key} : mem'.events[k] = mem.events[k]
  <2> HIDE DEF receipt
  <2> QED BY <1>1, <1>2 DEF Typed, TypeOK, State
<1>7. StartedIsCovered'
  BY <1>1, <1>3, <1>6
  DEF StartedIsCovered, Covered, Held, Over, Typed, TypeOK, Request
<1>8. FirstReservation'
  BY <1>1, <1>3, <1>5 DEF FirstReservation, Running, Covered, Held
<1>9. Alive' /\ HeadBusy' /\ Timely' /\ AtMostOnce'
  BY <1>1 DEF Alive, HeadBusy, Timely, AtMostOnce
<1>10. QED
  BY <1>7, <1>8, <1>9

\* An operation starts only when its reservation is on disk.
LEMMA StartStep ==
  ASSUME Typed, OnceInv, NEW d \in Deliveries, StartOperation(d)
  PROVE  OnceInv'
<1> USE DEF OnceInv
<1>1. /\ UNCHANGED <<now, proc, mem, req, since>> /\ proc = "up"
      /\ Running(d, "reserve", "save") /\ disk' = mem /\ ran' = ran \cup {d}
      /\ step' = "start" /\ pc'[d] # "reserve"
      /\ \A e \in Deliveries \ {d} : pc'[e] = pc[e]
  BY DEF StartOperation, Leave, Typed, TypeOK, Running
<1>2. Covered(mem, req[d].key) /\ \A e \in ran : req[e].key # req[d].key
  BY <1>1 DEF FirstReservation
<1>3. StartedIsCovered'
  BY <1>1, <1>2 DEF StartedIsCovered, Over, Covered, Held
<1>4. AtMostOnce'
  BY <1>1, <1>2 DEF AtMostOnce
<1>5. FirstReservation' /\ Alive' /\ HeadBusy' /\ Timely'
  BY <1>1 DEF FirstReservation, Running, Alive, HeadBusy, Timely
<1>6. QED
  BY <1>3, <1>4, <1>5

\* The process dies and comes back, or the clock moves.
LEMMA ProcessStep ==
  ASSUME Typed, OnceInv, Crash \/ Restart \/ Tick
  PROVE  OnceInv'
<1> USE DEF OnceInv
<1>1. CASE Crash
  <2>1. /\ UNCHANGED <<now, req, since, ran>> /\ proc' = "down"
        /\ step' = "start" /\ \A e \in Deliveries : pc'[e] # "reserve"
    BY <1>1 DEF Crash
  <2>2. disk' = disk \/ (disk' = mem /\ proc = "up")
    BY <1>1 DEF Crash, Saving, Alive
  <2>3. StartedIsCovered'
    BY <2>1, <2>2 DEF StartedIsCovered, Over, Covered, Held
  <2>4. QED
    BY <2>1, <2>3
    DEF Alive, HeadBusy, Timely, FirstReservation, Running, AtMostOnce
<1>2. CASE Restart
  <2>1. /\ UNCHANGED <<now, queue, step, pc, req, since, ran>>
        /\ proc = "down" /\ mem' = Prune(disk)
        /\ disk' = disk \/ disk' = Prune(disk)
    BY <1>2 DEF Restart
  <2>2. StartedIsCovered'
    <3> SUFFICES ASSUME NEW d \in ran, ~Over(req[d].key)
                 PROVE  Covered(disk', req[d].key) /\ Covered(mem', req[d].key)
      BY <2>1 DEF StartedIsCovered, Over, Covered, Held
    <3>1. req[d].key \in Keys /\ disk \in State /\ now \in Nat
      BY DEF Typed, TypeOK, Request
    <3>2. Covered(Prune(disk), req[d].key)
      BY <3>1, PruneCovers DEF StartedIsCovered
    <3>3. QED
      BY <2>1, <3>2 DEF StartedIsCovered
  <2>3. QED
    BY <2>1, <2>2
    DEF Alive, HeadBusy, Timely, FirstReservation, Running, AtMostOnce
<1>3. CASE Tick
  <2>1. /\ UNCHANGED <<proc, mem, disk, queue, step, pc, req, since, ran>>
        /\ now' = now + 1
        /\ \A d \in Deliveries : pc[d] = "reserve" => now < since[d] + MaxWait
    BY <1>3 DEF Tick
  <2>2. Timely'
    BY <2>1, ConstantsAssumption DEF Timely, Typed, TypeOK
  <2>3. StartedIsCovered'
    <3> SUFFICES ASSUME NEW d \in ran, Over(req[d].key)
                 PROVE  Over(req[d].key)'
      BY <2>1 DEF StartedIsCovered, Covered, Held
    <3>1. req[d].key \in Keys
      BY DEF Typed, TypeOK, Request
    <3>2. Stamp[req[d].key] \in Nat /\ Ttl \in Nat /\ MaxAge \in Nat
      BY <3>1, ConstantsAssumption
    <3>3. QED
      BY <2>1, <3>2 DEF Over, Typed, TypeOK
  <2>4. QED
    BY <2>1, <2>2, <2>3
    DEF Alive, HeadBusy, FirstReservation, Running, Covered, Held, AtMostOnce
<1>4. QED
  BY <1>1, <1>2, <1>3

\* The remaining closures of the promise chain.
LEMMA ClosureStep ==
  ASSUME Typed, OnceInv, NEW d \in Deliveries, Closure(d)
  PROVE  OnceInv'
<1> USE DEF OnceInv
<1> USE DEF Typed, TypeOK
<1>1. CASE StartClosure(d)
  <2>1. \A k \in Keys : Covered(mem, k) => Covered(mem', k) \/ Over(k)
    BY <1>1, PruneCovers DEF StartClosure
  <2>2. HeadBusy' /\ step' # "save"
    BY <1>1 DEF StartClosure, HeadBusy, Running
  <2>3. QED
    BY <1>1, <2>1, <2>2, FrameStep DEF StartClosure, Running
<1>2. CASE PruneSaved(d)
  <2>1. HeadBusy' /\ step' # "save"
    BY <1>2 DEF PruneSaved, HeadBusy, Running
  <2>2. QED
    BY <1>2, <2>1, FrameStep DEF PruneSaved, Running
<1>3. CASE Collide(d) \/ Join(d) \/ Replay(d) \/ ReservationFails(d)
  <2>1. /\ UNCHANGED <<now, proc, mem, disk, req, since, ran>> /\ proc = "up"
        /\ step' = "start" /\ \E to \in {"replied", "joined"} : Leave(d, to)
    BY <1>3 DEF Collide, Join, Replay, ReservationFails, Running, Leave
  <2>2. \A e \in Deliveries : pc'[e] = "reserve" => pc[e] = "reserve"
    BY <2>1 DEF Leave
  <2>3. HeadBusy'
    BY <2>1 DEF HeadBusy
  <2>4. \A k \in Keys : Covered(mem, k) => Covered(mem', k)
    BY <2>1 DEF Covered, Held
  <2>5. QED
    BY <2>1, <2>2, <2>3, <2>4, FrameStep
<1>4. CASE ConsumeToken(d)
  <2>1. /\ UNCHANGED <<now, proc, disk, queue, pc, req, since, ran>>
        /\ proc = "up" /\ queue # <<>> /\ Head(queue) = d
        /\ pc[d] = "consume" /\ mem'.events = mem.events
    BY <1>4 DEF ConsumeToken, Running, State
  <2>2. HeadBusy' /\ pc'[Head(queue')] # "reserve"
    BY <2>1 DEF HeadBusy
  <2>3. \A k \in Keys : Covered(mem, k) => Covered(mem', k)
    BY <2>1 DEF Covered, Held
  <2>4. QED
    BY <2>1, <2>2, <2>3, FrameStep
<1>5. CASE TokenSaved(d) \/ FinalSaved(d)
  <2>1. /\ UNCHANGED <<now, proc, mem, req, since, ran>> /\ disk' = mem
        /\ proc = "up" /\ step' = "start"
        /\ \E to \in {"acting", "settling"} : Leave(d, to)
    BY <1>5 DEF TokenSaved, FinalSaved, Running, Leave
  <2>2. \A e \in Deliveries : pc'[e] = "reserve" => pc[e] = "reserve"
    BY <2>1 DEF Leave
  <2>3. HeadBusy'
    BY <2>1 DEF HeadBusy
  <2>4. \A k \in Keys : Covered(mem, k) => Covered(mem', k)
    BY <2>1 DEF Covered, Held
  <2>5. QED
    BY <2>1, <2>2, <2>3, <2>4, FrameStep
<1>6. CASE TokenRefused(d) \/ FinalFails(d)
  <2>1. /\ UNCHANGED <<now, proc, mem, disk, req, since, ran>>
        /\ proc = "up" /\ step' = "start"
        /\ \E c \in {"finalize", "repair"} : pc' = [pc EXCEPT ![d] = c]
    BY <1>6 DEF TokenRefused, FinalFails, Running
  <2>2. \A e \in Deliveries : pc'[e] = "reserve" => pc[e] = "reserve"
    BY <2>1
  <2>3. HeadBusy'
    BY <2>1 DEF HeadBusy
  <2>4. \A k \in Keys : Covered(mem, k) => Covered(mem', k)
    BY <2>1 DEF Covered, Held
  <2>5. QED
    BY <2>1, <2>2, <2>3, <2>4, FrameStep
<1>7. CASE Finalize(d)
  <2>1. /\ UNCHANGED <<now, proc, disk, queue, pc, req, since, ran>>
        /\ proc = "up" /\ queue # <<>> /\ Head(queue) = d /\ pc[d] = "finalize"
        /\ mem' = WithResult(mem, req[d].key, outcome[req[d].key])
    BY <1>7 DEF Finalize, Running
  <2>2. req[d].key \in Keys /\ outcome[req[d].key] \in Results
    BY <2>1 DEF Request, ResultReady, Results
  <2>3. \A k \in Keys : Covered(mem, k) => Covered(mem', k)
    BY <2>1, <2>2, ResultCovers
  <2>4. HeadBusy' /\ pc'[Head(queue')] # "reserve"
    BY <2>1 DEF HeadBusy
  <2>5. QED
    BY <2>1, <2>3, <2>4, FrameStep
<1>8. CASE Repair(d)
  <2>1. /\ UNCHANGED <<now, proc, disk, req, since, ran>> /\ proc = "up"
        /\ step' = "start" /\ pc' = [pc EXCEPT ![d] = "settling"]
        /\ mem' = WithResult(mem, req[d].key, "indeterminate")
    BY <1>8 DEF Repair, Running, Leave
  <2>2. req[d].key \in Keys /\ "indeterminate" \in Results
    BY DEF Request, Results
  <2>3. \A k \in Keys : Covered(mem, k) => Covered(mem', k)
    BY <2>1, <2>2, ResultCovers
  <2>4. HeadBusy' /\ \A e \in Deliveries : pc'[e] = "reserve" => pc[e] = "reserve"
    BY <2>1 DEF HeadBusy
  <2>5. QED
    BY <2>1, <2>3, <2>4, FrameStep
<1>9. QED
  BY <1>1, <1>2, <1>3, <1>4, <1>5, <1>6, <1>7, <1>8, ReserveStep, StartStep
  DEF Closure

\* What runs outside the chain only queues closures or answers callers.
LEMMA OutsideStep ==
  ASSUME Typed, OnceInv, NEW d \in Deliveries, Operation(d) \/ Settle(d)
  PROVE  OnceInv'
<1> USE DEF OnceInv, Typed, TypeOK
<1>1. /\ UNCHANGED <<now, proc, mem, disk, step, req, since, ran>> /\ proc = "up"
      /\ queue' = queue \/ queue' = Append(queue, d)
      /\ \A e \in Deliveries : pc[e] \in {"reserve", "consume", "finalize"} =>
            pc'[e] = pc[e]
      /\ \A e \in Deliveries : pc'[e] = "reserve" => pc[e] = "reserve"
  <2>1. CASE VerifyToken(d)
    <3>1. \E c \in {"consume", "finalize"} : Enqueue(d, c)
      BY <2>1 DEF VerifyToken
    <3>2. pc[d] = "verifying"
      BY <2>1 DEF VerifyToken
    <3>3. QED
      BY <2>1, <3>1, <3>2 DEF VerifyToken, Enqueue
  <2>2. CASE Act(d)
    BY <2>2 DEF Act, Enqueue
  <2>3. CASE Settle(d)
    BY <2>3 DEF Settle
  <2>4. QED
    BY <2>1, <2>2, <2>3 DEF Operation
<1>2. queue # <<>> => queue' # <<>> /\ Head(queue') = Head(queue)
  <2>1. queue \in Seq(Deliveries) /\ d \in Deliveries
    OBVIOUS
  <2>2. CASE queue' = queue
    BY <2>2
  <2>3. CASE queue' = Append(queue, d)
    BY <2>1, <2>3
  <2>4. QED
    BY <1>1, <2>2, <2>3
<1>3. HeadBusy'
  <2> SUFFICES ASSUME step # "start"
               PROVE  queue' # <<>> /\ pc'[Head(queue')] \in {"reserve", "consume", "finalize"}
    BY <1>1 DEF HeadBusy
  <2>1. queue # <<>> /\ Head(queue) \in Deliveries
    BY DEF HeadBusy
  <2>2. QED
    BY <1>1, <1>2, <2>1 DEF HeadBusy
<1>4. step' = "save" => step = "save" /\ queue # <<>> /\ Head(queue') = Head(queue)
  BY <1>1, <1>2 DEF HeadBusy
<1>5. \A k \in Keys : Covered(mem, k) => Covered(mem', k)
  BY <1>1 DEF Covered, Held
<1>6. QED
  BY <1>1, <1>3, <1>4, <1>5, FrameStep

\* Every step preserves the invariant.
LEMMA OnceNext == Typed /\ OnceInv /\ [Next]_vars => OnceInv'
<1> SUFFICES ASSUME Typed, OnceInv, [Next]_vars PROVE OnceInv'
  OBVIOUS
<1>1. ASSUME NEW d \in Deliveries, RejectedReady(d) PROVE OnceInv'
  <2>1. /\ UNCHANGED <<now, proc, mem, disk, queue, step, req, since, ran>>
        /\ proc = "failed" /\ pc' = [pc EXCEPT ![d] = "replied"]
    BY <1>1 DEF RejectedReady
  <2>2. step = "start" /\ \A e \in Deliveries : pc'[e] # "reserve"
    BY <2>1 DEF OnceInv, Alive, Typed, TypeOK
  <2>3. Alive' /\ HeadBusy' /\ Timely' /\ AtMostOnce'
    BY <2>1, <2>2 DEF OnceInv, Alive, HeadBusy, Timely, AtMostOnce
  <2>4. StartedIsCovered' /\ FirstReservation'
    BY <2>1, <2>2 DEF OnceInv, StartedIsCovered, Over, Covered, Held,
                      FirstReservation, Running
  <2>5. QED
    BY <2>3, <2>4 DEF OnceInv
<1>2. CASE UNCHANGED vars
  <2>1. UNCHANGED <<now, proc, mem, disk, queue, step, pc, req, since, ran>>
    BY <1>2 DEF vars
  <2>2. Alive' /\ HeadBusy' /\ Timely' /\ AtMostOnce'
    BY <2>1 DEF OnceInv, Alive, HeadBusy, Timely, AtMostOnce
  <2>3. StartedIsCovered' /\ FirstReservation'
    BY <2>1 DEF OnceInv, StartedIsCovered, Over, Covered, Held,
                FirstReservation, Running
  <2>4. QED
    BY <2>2, <2>3 DEF OnceInv
<1>3. QED
  BY <1>1, <1>2, DeliverStep, ClosureStep, OutsideStep, ProcessStep DEF Next

\* runEvent starts the operation of an event at most once: across concurrent
\* and later redeliveries, failing saves, crashes and restarts (dedupe.ts).
THEOREM RunsAtMostOnce == Spec => []AtMostOnce
<1>1. Init => Typed /\ OnceInv
  BY TypedInit, OnceInit
<1>2. Typed /\ OnceInv /\ [Next]_vars => (Typed /\ OnceInv)'
  BY TypedNext, OnceNext
<1>3. Typed /\ OnceInv => AtMostOnce
  BY DEF OnceInv
<1>4. QED
  BY <1>1, <1>2, <1>3, PTL DEF Spec
-----------------------------------------------------------------------------
(***************************************************************************)
(* The course of deliveries: what every step does to where they are, to     *)
(* their operations and to what they are told, whatever it does to the      *)
(* store.                                                                  *)
(***************************************************************************)

\* A delivery has its operation, has it without a result yet, or waits for its answer.
Busy == {"verifying", "consume", "acting", "finalize", "repair", "settling"}
Unfinished == {"verifying", "consume", "acting"}
Ended == {"finalize", "repair", "settling"}
Waiting == {"idle", "reserve", "joined", "verifying", "consume", "acting", "finalize", "repair"}

Goes(d, to) == pc' = [pc EXCEPT ![d] = to]
Rests == UNCHANGED <<pc, pending, ran, reply, outcome>>
TurnedAway(d) ==
  /\ pc[d] \in {"idle", "reserve"} /\ Goes(d, "replied")
  /\ \E r \in {"collision", "failed"} : reply' = [reply EXCEPT ![d] = r]
  /\ UNCHANGED <<pending, ran, outcome>>
GoesOn(d) ==
  /\ \/ pc[d] = "verifying" /\ Goes(d, "consume")
     \/ pc[d] = "consume" /\ Goes(d, "acting")
  /\ UNCHANGED <<pending, ran, reply, outcome>>
Finishes(d) ==
  /\ pc[d] \in Unfinished /\ Goes(d, "finalize")
  /\ \E r \in {"ok", "denied"} : outcome' = [outcome EXCEPT ![req[d].key] = r]
  /\ UNCHANGED <<pending, ran, reply>>
Concludes(d) ==
  /\ Goes(d, "settling")
  /\ \/ pc[d] = "finalize" /\ reply' = [reply EXCEPT ![d] = outcome[req[d].key]]
     \/ pc[d] = "repair" /\ reply' = [reply EXCEPT ![d] = "indeterminate"]
  /\ UNCHANGED <<pending, ran, outcome>>

Course(d) ==
  \/ Deliver(d) \/ Join(d) \/ Replay(d) \/ TurnedAway(d) \/ StartOperation(d)
  \/ GoesOn(d) \/ Finishes(d) \/ FinalFails(d) \/ Settle(d)
  \/ Concludes(d) /\ (FinalSaved(d) \/ Repair(d))

LEMMA CourseOfClosure ==
  ASSUME Typed, NEW d \in Deliveries, Closure(d)
  PROVE Rests \/ Course(d)
<1>1. CASE StartClosure(d) \/ PruneSaved(d) \/ Reserve(d) \/ ConsumeToken(d) \/ Finalize(d)
  BY <1>1 DEF StartClosure, PruneSaved, Reserve, ConsumeToken, Finalize, Rests
<1>2. CASE Collide(d) \/ ReservationFails(d)
  BY <1>2 DEF Collide, ReservationFails, Running, Leave, Answer, TurnedAway, Goes, Course
<1>3. CASE TokenSaved(d)
  BY <1>3 DEF TokenSaved, Running, Leave, GoesOn, Goes, Course
<1>4. CASE TokenRefused(d)
  BY <1>4 DEF TokenRefused, Running, Finishes, Unfinished, Goes, Course
<1>5. CASE FinalSaved(d)
  BY <1>5 DEF FinalSaved, Running, Leave, Answer, Concludes, Goes, Course
<1>6. CASE Repair(d)
  BY <1>6 DEF Repair, Running, Leave, Answer, Concludes, Goes, Course
<1>7. CASE Join(d) \/ Replay(d) \/ StartOperation(d) \/ FinalFails(d)
  BY <1>7 DEF Course
<1> QED
  BY <1>1, <1>2, <1>3, <1>4, <1>5, <1>6, <1>7 DEF Closure

LEMMA CourseOfOperation ==
  ASSUME Typed, NEW d \in Deliveries, Operation(d)
  PROVE Course(d)
<1>1. CASE VerifyToken(d)
  <2>1. CASE ~Expired(TokenExp[req[d].token])
    BY <1>1, <2>1 DEF VerifyToken, Enqueue, GoesOn, Goes, Course
  <2>2. CASE Expired(TokenExp[req[d].token])
    BY <1>1, <2>2 DEF VerifyToken, Enqueue, Finishes, Unfinished, Goes, Course
  <2> QED
    BY <2>1, <2>2
<1>2. CASE Act(d)
  BY <1>2 DEF Act, Enqueue, Finishes, Unfinished, Goes, Course
<1> QED
  BY <1>1, <1>2 DEF Operation

LEMMA CourseOfStep ==
  ASSUME Typed, [Next]_vars
  PROVE /\ req' = req
        /\ Rests \/ Crash \/ \E d \in Deliveries : Course(d)
<1>1. ASSUME NEW d \in Deliveries, RejectedReady(d) PROVE Course(d)
  BY <1>1 DEF RejectedReady, Answer, TurnedAway, Goes, Course
<1>2. ASSUME NEW d \in Deliveries, Deliver(d) \/ Settle(d) PROVE Course(d)
  BY <1>2 DEF Course
<1>3. ASSUME Restart \/ Tick \/ UNCHANGED vars PROVE Rests
  BY <1>3 DEF Restart, Tick, Rests, vars
<1>4. Rests \/ Crash \/ \E d \in Deliveries : Course(d)
  BY <1>1, <1>2, <1>3, CourseOfClosure, CourseOfOperation DEF Next
<1>5. ASSUME NEW d \in Deliveries, Closure(d) PROVE req' = req
  BY <1>5 DEF Closure, StartClosure, PruneSaved, Collide, Join, Replay, Reserve, StartOperation,
              ReservationFails, ConsumeToken, TokenSaved, TokenRefused, Finalize, FinalSaved,
              FinalFails, Repair
<1>6. ASSUME NEW d \in Deliveries, Deliver(d) \/ Operation(d) \/ Settle(d) \/ RejectedReady(d) PROVE req' = req
  BY <1>6 DEF Deliver, Operation, VerifyToken, Act, Settle, RejectedReady
<1>7. ASSUME Crash \/ Restart \/ Tick PROVE req' = req
  BY <1>7 DEF Crash, Restart, Tick
<1>8. ASSUME UNCHANGED vars PROVE req' = req
  BY <1>8 DEF vars
<1> QED
  BY <1>4, <1>5, <1>6, <1>7, <1>8 DEF Next
-----------------------------------------------------------------------------
\* Where a delivery is tells whether it has the operation of its event, and that it was
\* told nothing yet.
Places ==
  /\ \A d \in Deliveries : d \in pending <=> pc[d] \in Busy
  /\ \A d \in Deliveries : pc[d] \in Busy => d \in ran
  /\ \A d \in Deliveries : pc[d] \in {"verifying", "consume"} => req[d].token \in Tokens
  /\ \A d \in Deliveries : pc[d] \in Waiting => reply[d] = "none"
  /\ \A d \in Deliveries : pc[d] = "settling" => reply[d] \in Results

LEMMA PlacesInit == Init => Places
BY DEF Init, Places, Busy, Waiting

LEMMA PlacesNext ==
  ASSUME Typed, Places, [Next]_vars
  PROVE Places'
<1> USE DEF Typed, TypeOK, Places, Busy, Waiting
<1>0. req' = req
  BY CourseOfStep
<1>1. CASE Rests
  BY <1>0, <1>1 DEF Rests
<1>2. CASE Crash
  BY <1>0, <1>2 DEF Crash
<1>3. ASSUME NEW d \in Deliveries, Course(d) PROVE Places'
  <2>1. CASE Deliver(d)
    BY <2>1 DEF Deliver, Enqueue
  <2>2. CASE Join(d)
    BY <2>2 DEF Join, Running, Leave
  <2>3. CASE Replay(d)
    BY <2>3 DEF Replay, Running, Leave, Answer
  <2>4. CASE TurnedAway(d)
    BY <1>0, <2>4 DEF TurnedAway, Goes
  <2>5. CASE StartOperation(d)
    <3>1. req[d].token # NoToken => req[d].token \in Tokens
      BY DEF Request
    <3>2. /\ pc[d] = "reserve" /\ reply[d] = "none" /\ pending' = pending \cup {d} /\ ran' = ran \cup {d}
          /\ pc' = [pc EXCEPT ![d] = IF req[d].token = NoToken THEN "acting" ELSE "verifying"]
          /\ UNCHANGED reply
      BY <2>5 DEF StartOperation, Running, Leave
    <3> QED
      BY <1>0, <3>1, <3>2
  <2>6. CASE GoesOn(d)
    BY <1>0, <2>6 DEF GoesOn, Goes
  <2>7. CASE Finishes(d)
    BY <1>0, <2>7 DEF Finishes, Goes, Unfinished
  <2>8. CASE FinalFails(d)
    BY <2>8 DEF FinalFails, Running
  <2>9. CASE Concludes(d)
    <3>1. pc[d] = "finalize" => outcome[req[d].key] \in Results
      BY DEF ResultReady, Results
    <3>2. "indeterminate" \in Results
      BY DEF Results
    <3> QED
      BY <1>0, <2>9, <3>1, <3>2 DEF Concludes, Goes
  <2>10. CASE Settle(d)
    BY <2>10 DEF Settle
  <2> QED
    BY <1>3, <2>1, <2>2, <2>3, <2>4, <2>5, <2>6, <2>7, <2>8, <2>9, <2>10 DEF Course
<1> QED
  BY <1>1, <1>2, <1>3, CourseOfStep
-----------------------------------------------------------------------------
\* The result of an event is known once its operation ended, and only then.
Outcomes ==
  /\ \A d \in Deliveries : pc[d] \in Unfinished => outcome[req[d].key] = "none"
  /\ \A d \in Deliveries : pc[d] \in Ended => outcome[req[d].key] # "none"
  /\ \A k \in Keys : outcome[k] # "none" => \E e \in ran : req[e].key = k

LEMMA OutcomesInit == Init => Outcomes
BY DEF Init, Outcomes, Unfinished, Ended

LEMMA OutcomesNext ==
  ASSUME Typed, OnceInv, Places, Outcomes, [Next]_vars
  PROVE Outcomes'
<1> USE DEF Typed, TypeOK, Outcomes, Unfinished, Ended
<1>0. req' = req
  BY CourseOfStep
<1>1. CASE Rests
  BY <1>0, <1>1 DEF Rests
<1>2. CASE Crash
  BY <1>0, <1>2 DEF Crash
<1>3. ASSUME NEW d \in Deliveries, Course(d) PROVE Outcomes'
  <2>1. CASE Deliver(d)
    BY <2>1 DEF Deliver, Enqueue
  <2>2. CASE Join(d)
    BY <2>2 DEF Join, Running, Leave
  <2>3. CASE Replay(d)
    BY <2>3 DEF Replay, Running, Leave, Answer
  <2>4. CASE TurnedAway(d)
    BY <1>0, <2>4 DEF TurnedAway, Goes
  <2>5. CASE StartOperation(d)
    <3>1. /\ Running(d, "reserve", "save") /\ ran' = ran \cup {d} /\ UNCHANGED outcome
          /\ pc' = [pc EXCEPT ![d] = IF req[d].token = NoToken THEN "acting" ELSE "verifying"]
      BY <2>5 DEF StartOperation, Leave
    <3>2. req[d].key \in Keys /\ \A e \in ran : req[e].key # req[d].key
      BY <3>1 DEF OnceInv, FirstReservation, Request
    <3>3. outcome[req[d].key] = "none"
      BY <3>2
    <3> QED
      BY <1>0, <3>1, <3>3
  <2>6. CASE GoesOn(d)
    BY <1>0, <2>6 DEF GoesOn, Goes
  <2>7. CASE Finishes(d)
    <3>1. PICK r \in {"ok", "denied"} : outcome' = [outcome EXCEPT ![req[d].key] = r]
      BY <2>7 DEF Finishes
    <3>2. /\ pc[d] \in Unfinished /\ pc' = [pc EXCEPT ![d] = "finalize"] /\ UNCHANGED ran
      BY <2>7 DEF Finishes, Goes
    <3>3. d \in ran /\ req[d].key \in Keys
      BY <3>2 DEF Places, Busy, Request
    <3>4. outcome'[req[d].key] = r /\ \A k \in Keys : k # req[d].key => outcome'[k] = outcome[k]
      BY <3>1, <3>3
    <3>5. \A e \in Deliveries : pc[e] \in Unfinished /\ e # d => req[e].key # req[d].key
      BY <3>3 DEF OnceInv, AtMostOnce, Places, Busy
    <3>6. \A e \in Deliveries : req[e].key \in Keys
      BY DEF Request
    <3> QED
      BY <1>0, <3>2, <3>3, <3>4, <3>5, <3>6
  <2>8. CASE FinalFails(d)
    BY <2>8 DEF FinalFails, Running
  <2>9. CASE Concludes(d)
    BY <1>0, <2>9 DEF Concludes, Goes
  <2>10. CASE Settle(d)
    BY <2>10 DEF Settle
  <2> QED
    BY <1>3, <2>1, <2>2, <2>3, <2>4, <2>5, <2>6, <2>7, <2>8, <2>9, <2>10 DEF Course
<1> QED
  BY <1>1, <1>2, <1>3, CourseOfStep

\* A result that is known stays, and what was started stays started.
LEMMA OutcomesStay ==
  ASSUME Typed, OnceInv, Places, Outcomes, [Next]_vars
  PROVE /\ ran \subseteq ran'
        /\ \A k \in Keys : outcome[k] # "none" => outcome'[k] = outcome[k]
<1> USE DEF Typed, TypeOK
<1>1. CASE Rests \/ Crash
  BY <1>1 DEF Rests, Crash
<1>2. ASSUME NEW d \in Deliveries, Course(d), ~Finishes(d) PROVE ran \subseteq ran' /\ UNCHANGED outcome
  BY <1>2 DEF Course, Deliver, Join, Replay, TurnedAway, StartOperation, GoesOn, FinalFails, Concludes, Settle
<1>3. ASSUME NEW d \in Deliveries, Finishes(d)
      PROVE UNCHANGED ran /\ \A k \in Keys : outcome[k] # "none" => outcome'[k] = outcome[k]
  <2>1. pc[d] \in Unfinished /\ UNCHANGED ran
    BY <1>3 DEF Finishes
  <2>2. outcome[req[d].key] = "none"
    BY <2>1 DEF Outcomes
  <2> QED
    BY <1>3, <2>1, <2>2 DEF Finishes
<1> QED
  BY <1>1, <1>2, <1>3, CourseOfStep
-----------------------------------------------------------------------------
(***************************************************************************)
(* The receipts, in memory and on disk                                     *)
(***************************************************************************)

LEMMA StoreOfStep ==
  ASSUME Typed, [Next]_vars
  PROVE \/ Crash \/ Restart \/ \E d \in Deliveries : Reserve(d)
        \/ /\ disk' \in {disk, mem}
           /\ \/ mem'.events = mem.events
              \/ mem' = Prune(mem)
              \/ \E d \in Deliveries :
                   pc[d] = "finalize" /\ mem' = WithResult(mem, req[d].key, outcome[req[d].key])
              \/ \E d \in Deliveries : mem' = WithResult(mem, req[d].key, "indeterminate")
<1> USE DEF Typed, TypeOK
<1>1. ASSUME NEW d \in Deliveries, Closure(d), ~Reserve(d), ~StartClosure(d), ~Finalize(d), ~Repair(d)
      PROVE disk' \in {disk, mem} /\ mem'.events = mem.events
  <2>1. CASE ConsumeToken(d)
    BY <2>1 DEF ConsumeToken, State
  <2>2. CASE ~ConsumeToken(d)
    BY <1>1, <2>2 DEF Closure, PruneSaved, Collide, Join, Replay, StartOperation, ReservationFails,
                      TokenSaved, TokenRefused, FinalSaved, FinalFails
  <2> QED
    BY <2>1, <2>2
<1>2. ASSUME NEW d \in Deliveries, StartClosure(d) PROVE disk' = disk /\ mem' = Prune(mem)
  BY <1>2 DEF StartClosure
<1>3. ASSUME NEW d \in Deliveries, Finalize(d)
      PROVE disk' = disk /\ pc[d] = "finalize" /\ mem' = WithResult(mem, req[d].key, outcome[req[d].key])
  BY <1>3 DEF Finalize, Running
<1>4. ASSUME NEW d \in Deliveries, Repair(d)
      PROVE disk' = disk /\ mem' = WithResult(mem, req[d].key, "indeterminate")
  BY <1>4 DEF Repair
<1>5. ASSUME NEW d \in Deliveries, Deliver(d) \/ Operation(d) \/ Settle(d) \/ RejectedReady(d)
      PROVE UNCHANGED <<mem, disk>>
  BY <1>5 DEF Deliver, Operation, VerifyToken, Act, Settle, RejectedReady
<1>6. ASSUME Tick \/ UNCHANGED vars PROVE UNCHANGED <<mem, disk>>
  BY <1>6 DEF Tick, vars
<1> QED
  BY <1>1, <1>2, <1>3, <1>4, <1>5, <1>6 DEF Next

\* A closure that comes to save its reservation, or its use of a token, has just made it,
\* and nothing happens to the store meanwhile.
LEMMA SavingStep ==
  ASSUME Typed, OnceInv, [Next]_vars, NEW d \in Deliveries, NEW c \in {"reserve", "consume"},
         Running(d, c, "save")'
  PROVE \/ c = "reserve" /\ Reserve(d)
        \/ c = "consume" /\ ConsumeToken(d)
        \/ Running(d, c, "save") /\ UNCHANGED <<mem, uses>>
<1> USE DEF Typed, TypeOK
<1>0. proc' = "up" /\ queue' # <<>> /\ Head(queue') = d /\ pc'[d] = c /\ step' = "save"
  BY DEF Running
<1>1. ASSUME NEW e \in Deliveries, Closure(e)
      PROVE (c = "reserve" /\ Reserve(d)) \/ (c = "consume" /\ ConsumeToken(d))
  <2>1. Reserve(e) \/ ConsumeToken(e) \/ Finalize(e)
    BY <1>0, <1>1 DEF Closure, StartClosure, PruneSaved, Collide, Join, Replay, StartOperation,
       ReservationFails, TokenSaved, TokenRefused, FinalSaved, FinalFails, Repair, Leave
  <2>2. UNCHANGED <<queue, pc>> /\ Head(queue) = e
    BY <2>1 DEF Reserve, ConsumeToken, Finalize, Running
  <2>3. e = d /\ pc[d] = c
    BY <1>0, <2>2
  <2>4. CASE Reserve(e)
    <3>1. Reserve(d)
      BY <2>3, <2>4
    <3>2. pc[d] = "reserve"
      BY <3>1 DEF Reserve, Running
    <3> QED
      BY <2>3, <3>1, <3>2
  <2>5. CASE ConsumeToken(e)
    <3>1. ConsumeToken(d)
      BY <2>3, <2>5
    <3>2. pc[d] = "consume"
      BY <3>1 DEF ConsumeToken, Running
    <3> QED
      BY <2>3, <3>1, <3>2
  <2>6. CASE Finalize(e)
    BY <2>3, <2>6 DEF Finalize, Running
  <2> QED
    BY <2>1, <2>4, <2>5, <2>6
<1>2. ASSUME NEW e \in Deliveries, Deliver(e) \/ Operation(e) \/ Settle(e)
      PROVE Running(d, c, "save") /\ UNCHANGED <<mem, uses>>
  <2>1. UNCHANGED <<mem, uses, step, proc>>
    BY <1>2 DEF Deliver, Operation, VerifyToken, Act, Settle
  <2>2. queue' = queue \/ queue' = Append(queue, e)
    BY <1>2 DEF Deliver, Operation, VerifyToken, Act, Settle, Enqueue
  <2>3. queue # <<>> /\ pc[Head(queue)] \in {"reserve", "consume", "finalize"}
    BY <1>0, <2>1 DEF OnceInv, HeadBusy
  <2>4. Head(queue') = Head(queue)
    <3>1. CASE queue' = queue
      BY <3>1
    <3>2. CASE queue' = Append(queue, e)
      BY <2>3, <3>2
    <3> QED
      BY <2>2, <3>1, <3>2
  <2>5. Head(queue) = d
    BY <1>0, <2>4
  <2>6. \A f \in Deliveries : pc[f] \in {"reserve", "consume", "finalize"} => pc'[f] = pc[f]
    <3>1. CASE Deliver(e)
      BY <3>1 DEF Deliver, Enqueue
    <3>2. CASE VerifyToken(e)
      <4>1. pc[e] = "verifying" /\ \E to \in {"consume", "finalize"} : pc' = [pc EXCEPT ![e] = to]
        BY <3>2 DEF VerifyToken, Enqueue
      <4> QED
        BY <4>1
    <3>3. CASE Act(e)
      BY <3>3 DEF Act, Enqueue
    <3>4. CASE Settle(e)
      BY <3>4 DEF Settle
    <3> QED
      BY <1>2, <3>1, <3>2, <3>3, <3>4 DEF Operation
  <2>7. pc[d] = c
    BY <1>0, <2>3, <2>5, <2>6
  <2> QED
    BY <1>0, <2>1, <2>3, <2>5, <2>7 DEF Running
<1>3. ASSUME NEW e \in Deliveries, RejectedReady(e) PROVE FALSE
  BY <1>0, <1>3 DEF RejectedReady
<1>4. ASSUME Crash PROVE FALSE
  BY <1>0, <1>4 DEF Crash
<1>5. ASSUME Restart PROVE FALSE
  BY <1>0, <1>5 DEF Restart, OnceInv, Alive
<1>6. ASSUME Tick \/ UNCHANGED vars PROVE UNCHANGED <<mem, uses, step, proc, queue, pc>>
  BY <1>6 DEF Tick, vars
<1> QED
  BY <1>0, <1>1, <1>2, <1>3, <1>4, <1>5, <1>6 DEF Next, Running

\* A reservation is made for an event that nothing was started for.
LEMMA ReserveIsFirst ==
  ASSUME Typed, OnceInv, NEW d \in Deliveries, Reserve(d)
  PROVE /\ \A e \in ran : req[e].key # req[d].key
        /\ ~Held(mem, req[d].key) /\ ~Over(req[d].key)
<1>1. pc[d] = "reserve" /\ proc = "up" /\ ~Held(mem, req[d].key)
  BY DEF Reserve, Running
<1> QED
  BY <1>1, NotOver DEF OnceInv, StartedIsCovered, Covered

\* The two maps after a reservation, a prune and a result.
LEMMA Reserved ==
  ASSUME Typed, NEW d \in Deliveries, Reserve(d)
  PROVE /\ disk' = disk /\ req[d].key \in Keys
        /\ \A k \in Keys : k # req[d].key => mem'.events[k] = mem.events[k]
        /\ mem'.events[req[d].key] =
             [scope |-> req[d].scope, expiresAt |-> now + Ttl, result |-> "indeterminate"]
<1> DEFINE receipt == [scope |-> req[d].scope, expiresAt |-> now + Ttl, result |-> "indeterminate"]
<1>1. req[d].key \in Keys /\ mem \in State /\ disk' = disk
  BY DEF Reserve, Typed, TypeOK, Request
<1>2. mem' = [mem EXCEPT !.events[req[d].key] = receipt]
  BY DEF Reserve
<1> HIDE DEF receipt
<1>3. /\ \A k \in Keys : k # req[d].key => mem'.events[k] = mem.events[k]
      /\ mem'.events[req[d].key] = receipt
  BY <1>1, <1>2 DEF State
<1> QED
  BY <1>1, <1>3 DEF receipt

LEMMA Pruned ==
  ASSUME NEW m \in State, NEW k \in Keys
  PROVE Prune(m).events[k] = m.events[k] \/ ~Held(Prune(m), k)
BY DEF Prune, Held, NoReceipt

LEMMA ResultSet ==
  ASSUME NEW m \in State, NEW j \in Keys, NEW k \in Keys, NEW r \in Results
  PROVE /\ WithResult(m, j, r).events[k].scope = m.events[k].scope
        /\ WithResult(m, j, r).events[k].expiresAt = m.events[k].expiresAt
        /\ Held(WithResult(m, j, r), k) <=> Held(m, k)
        /\ WithResult(m, j, r).events[k].result = IF j = k /\ Held(m, k) THEN r ELSE m.events[k].result
<1>1. CASE ~Held(m, j)
  BY <1>1 DEF WithResult
<1>2. CASE Held(m, j)
  <2>1. WithResult(m, j, r) = [m EXCEPT !.events[j].result = r]
    BY <1>2 DEF WithResult
  <2>2. m.events[k] \in Receipt
    BY DEF State
  <2>3. CASE k # j
    BY <2>1, <2>3 DEF State, Held
  <2>4. CASE k = j
    BY <1>2, <2>1, <2>2, <2>4 DEF State, Receipt, Held, Results
  <2> QED
    BY <2>3, <2>4
<1> QED
  BY <1>1, <1>2
-----------------------------------------------------------------------------
\* A receipt lasts until its event is over.
Lasts(m) == \A k \in Keys : Held(m, k) => Covered(m, k)
Lasting == Lasts(mem) /\ Lasts(disk)

LEMMA LastingInit == Init => Lasting
BY DEF Init, Lasting, Lasts, Held, EmptyState, NoReceipt

LEMMA LastingNext ==
  ASSUME Typed, OnceInv, Lasting, [Next]_vars
  PROVE Lasting'
<1> USE DEF Lasting, Lasts
<1>0. mem \in State /\ disk \in State /\ \A d \in Deliveries : req[d].key \in Keys
  BY DEF Typed, TypeOK, Request
<1>1. CASE Crash
  BY <1>1 DEF Crash, Held, Covered, EmptyState, NoReceipt
<1>2. ASSUME NEW m \in State, Lasts(m), NEW k \in Keys, Held(Prune(m), k) PROVE Covered(Prune(m), k)
  BY <1>2, Pruned DEF Covered, Held
<1>3. CASE Restart
  BY <1>0, <1>2, <1>3 DEF Restart, Held, Covered
<1>4. ASSUME NEW d \in Deliveries, Reserve(d) PROVE Lasting'
  <2>1. /\ now \in Nat /\ since[d] \in Nat /\ Stamp[req[d].key] \in Nat
        /\ since[d] <= now /\ Stamp[req[d].key] <= since[d] + MaxAge
    BY <1>0, <1>4, ConstantsAssumption DEF Reserve, Running, OnceInv, Timely, Typed, TypeOK
  <2>2. Stamp[req[d].key] + Ttl <= now + Ttl + MaxAge
    BY <2>1, ConstantsAssumption
  <2>3. Covered(mem', req[d].key)
    <3>1. mem'.events[req[d].key].result = "indeterminate" /\ mem'.events[req[d].key].expiresAt = now + Ttl
      <4>1. mem'.events[req[d].key] = [scope |-> req[d].scope, expiresAt |-> now + Ttl, result |-> "indeterminate"]
        BY <1>4, Reserved
      <4> QED
        BY <4>1
    <3> QED
      BY <2>2, <3>1 DEF Covered, Held
  <2>4. \A k \in Keys : k # req[d].key => mem'.events[k] = mem.events[k]
    BY <1>4, Reserved
  <2>5. disk' = disk
    BY <1>4, Reserved
  <2>6. \A k \in Keys : Held(mem', k) => Covered(mem', k)
    BY <2>3, <2>4 DEF Held, Covered
  <2> QED
    BY <2>5, <2>6 DEF Held, Covered
<1>5. ASSUME NEW j \in Keys, NEW r \in Results, mem' = WithResult(mem, j, r), NEW k \in Keys, Held(mem', k)
      PROVE Covered(mem', k)
  BY <1>0, <1>5, ResultSet DEF Covered
<1>6. ASSUME NEW d \in Deliveries, pc[d] = "finalize" PROVE outcome[req[d].key] \in Results
  BY <1>6 DEF Typed, ResultReady, Results
<1>7. ASSUME mem'.events = mem.events \/ mem' = Prune(mem), NEW k \in Keys, Held(mem', k) PROVE Covered(mem', k)
  BY <1>0, <1>2, <1>7 DEF Covered, Held
<1>8. ASSUME disk' \in {disk, mem}, NEW k \in Keys, Held(disk', k) PROVE Covered(disk', k)
  BY <1>8 DEF Covered, Held
<1>9. "indeterminate" \in Results
  BY DEF Results
<1>10. CASE Lasts(mem') /\ disk' \in {disk, mem}
  BY <1>8, <1>10 DEF Covered, Held
<1> QED
  BY <1>0, <1>1, <1>3, <1>4, <1>5, <1>6, <1>7, <1>9, <1>10, StoreOfStep
-----------------------------------------------------------------------------
(***************************************************************************)
(* Receipts belong to the event they were made for                         *)
(***************************************************************************)

\* What a receipt held after a step says was said by a receipt before it, or is new.
LEMMA ScopeOfStep ==
  ASSUME Typed, [Next]_vars, NEW k \in Keys
  PROVE /\ \/ \E d \in Deliveries : Reserve(d) /\ req[d].key = k
           \/ Held(mem', k) => \E m \in {mem, disk} : Held(m, k) /\ mem'.events[k].scope = m.events[k].scope
        /\ Held(disk', k) => \E m \in {mem, disk} : Held(m, k) /\ disk'.events[k].scope = m.events[k].scope
<1>0. mem \in State /\ disk \in State /\ \A d \in Deliveries : req[d].key \in Keys
  BY DEF Typed, TypeOK, Request
<1>1. CASE Crash
  BY <1>1 DEF Crash, Held, EmptyState, NoReceipt
<1>2. ASSUME NEW m \in State, Held(Prune(m), k) PROVE Held(m, k) /\ Prune(m).events[k].scope = m.events[k].scope
  BY <1>2, Pruned DEF Held
<1>3. CASE Restart
  BY <1>0, <1>2, <1>3 DEF Restart
<1>4. ASSUME NEW d \in Deliveries, Reserve(d), req[d].key # k
      PROVE mem'.events[k] = mem.events[k] /\ disk' = disk
  BY <1>4, Reserved
<1>5. ASSUME NEW d \in Deliveries, Reserve(d) PROVE disk' = disk
  BY <1>5, Reserved
<1>6. ASSUME NEW j \in Keys, NEW r \in Results, mem' = WithResult(mem, j, r), Held(mem', k)
      PROVE Held(mem, k) /\ mem'.events[k].scope = mem.events[k].scope
  BY <1>0, <1>6, ResultSet
<1>7. ASSUME NEW d \in Deliveries, pc[d] = "finalize" PROVE outcome[req[d].key] \in Results
  BY <1>7 DEF Typed, ResultReady, Results
<1>8. "indeterminate" \in Results
  BY DEF Results
<1>9. ASSUME NEW d \in Deliveries, Reserve(d)
      PROVE /\ req[d].key # k => mem'.events[k] = mem.events[k]
            /\ disk' = disk
  BY <1>4, <1>5, <1>9
<1>10. CASE \E d \in Deliveries : Reserve(d)
  BY <1>9, <1>10 DEF Held
<1>11. ASSUME mem'.events = mem.events \/ mem' = Prune(mem), Held(mem', k)
       PROVE Held(mem, k) /\ mem'.events[k].scope = mem.events[k].scope
  BY <1>0, <1>2, <1>11 DEF Held
<1>12. CASE /\ disk' \in {disk, mem}
            /\ Held(mem', k) => Held(mem, k) /\ mem'.events[k].scope = mem.events[k].scope
  BY <1>12
<1> QED
  BY <1>0, <1>1, <1>3, <1>6, <1>7, <1>8, <1>10, <1>11, <1>12, StoreOfStep

\* The receipt of an event whose operation was started carries the scope of that
\* delivery, and whoever shares the answer has the same one.
OwnScope(m) == \A e \in ran : Held(m, req[e].key) => m.events[req[e].key].scope = req[e].scope
SharesScope(j) == \E e \in ran : req[e].key = req[j].key /\ req[e].scope = req[j].scope
Scoped ==
  /\ OwnScope(mem) /\ OwnScope(disk)
  /\ \A d \in Deliveries : Running(d, "reserve", "save") => mem.events[req[d].key].scope = req[d].scope
  /\ \A j \in Deliveries : pc[j] = "joined" => SharesScope(j)

LEMMA ScopedInit == Init => Scoped
BY DEF Init, Scoped, OwnScope, Running

\* Who reads a receipt that its scope fits, belongs to the operation of the event.
LEMMA FitsReceipt ==
  ASSUME Typed, Scoped, NEW j \in Deliveries, NEW e \in ran, req[e].key = req[j].key,
         Held(mem, req[j].key), mem.events[req[j].key].scope = req[j].scope
  PROVE SharesScope(j)
BY DEF Scoped, OwnScope, SharesScope

LEMMA JoinFits ==
  ASSUME Typed, OnceInv, Places, Scoped, NEW j \in Deliveries, Join(j)
  PROVE SharesScope(j)
<1>1. /\ pc[j] = "reserve" /\ proc = "up"
      /\ Held(mem, req[j].key) => mem.events[req[j].key].scope = req[j].scope
      /\ Leaders(req[j].key) # {}
  BY DEF Join, Running
<1>2. PICK e \in pending : req[e].key = req[j].key
  BY <1>1 DEF Leaders
<1>3. e \in ran
  BY DEF Places, Typed, TypeOK
<1>4. ~Over(req[j].key)
  BY <1>1, NotOver DEF OnceInv
<1>5. Held(mem, req[j].key)
  BY <1>1, <1>2, <1>3, <1>4 DEF OnceInv, StartedIsCovered, Covered
<1> QED
  BY <1>1, <1>2, <1>3, <1>5, FitsReceipt

\* Nobody comes to wait for another delivery's answer, or to have started, in another way.
LEMMA JoinedStep ==
  ASSUME Typed, [Next]_vars, NEW j \in Deliveries, pc'[j] = "joined"
  PROVE pc[j] = "joined" \/ Join(j)
<1> USE DEF Typed, TypeOK
<1>1. CASE Rests \/ Crash
  BY <1>1 DEF Rests, Crash
<1>2. ASSUME NEW d \in Deliveries, Course(d), d # j, ~Settle(d) PROVE pc'[j] = pc[j]
  BY <1>2 DEF Course, Deliver, Enqueue, Join, Replay, StartOperation, Leave, TurnedAway, GoesOn, Finishes,
              Goes, FinalFails, Concludes
<1>3. ASSUME NEW d \in Deliveries, Settle(d) PROVE pc[j] = "joined"
  BY <1>3 DEF Settle
<1>4. CASE Course(j)
  BY <1>4 DEF Course, Deliver, Enqueue, Replay, StartOperation, Leave, TurnedAway, GoesOn, Finishes,
              Goes, FinalFails, Concludes, Settle
<1> QED
  BY <1>1, <1>2, <1>3, <1>4, CourseOfStep

LEMMA StartedStep ==
  ASSUME Typed, [Next]_vars, NEW e \in ran', e \notin ran
  PROVE StartOperation(e)
<1>1. CASE Rests \/ Crash
  BY <1>1 DEF Rests, Crash
<1>2. ASSUME NEW d \in Deliveries, Course(d) PROVE UNCHANGED ran \/ (StartOperation(d) /\ ran' = ran \cup {d})
  BY <1>2 DEF Course, Deliver, Join, Replay, StartOperation, TurnedAway, GoesOn, Finishes,
              FinalFails, Concludes, Settle
<1> QED
  BY <1>1, <1>2, CourseOfStep

LEMMA ScopedNext ==
  ASSUME Typed, OnceInv, Places, Outcomes, Scoped, [Next]_vars
  PROVE Scoped'
<1>0. req' = req /\ ran \subseteq ran' /\ ran \subseteq Deliveries /\ \A d \in Deliveries : req[d].key \in Keys
  BY CourseOfStep, OutcomesStay DEF Typed, TypeOK, Request
<1>1. ASSUME NEW e \in ran, NEW d \in Deliveries, Reserve(d) PROVE req[d].key # req[e].key
  BY <1>1, ReserveIsFirst
<1>2. ASSUME NEW e \in ran, Held(mem', req[e].key) PROVE mem'.events[req[e].key].scope = req[e].scope
  BY <1>0, <1>1, <1>2, ScopeOfStep DEF Scoped, OwnScope
<1>3. ASSUME NEW e \in ran, Held(disk', req[e].key) PROVE disk'.events[req[e].key].scope = req[e].scope
  BY <1>0, <1>3, ScopeOfStep DEF Scoped, OwnScope
<1>4. ASSUME NEW e \in ran', e \notin ran
      PROVE /\ mem'.events[req[e].key].scope = req[e].scope
            /\ disk'.events[req[e].key].scope = req[e].scope
  <2>1. StartOperation(e) /\ e \in Deliveries
    BY <1>4, StartedStep DEF StartOperation, Running, Typed, TypeOK
  <2>2. Running(e, "reserve", "save") /\ mem' = mem /\ disk' = mem
    BY <2>1 DEF StartOperation
  <2> QED
    BY <2>1, <2>2 DEF Scoped
<1>5. OwnScope(mem)' /\ OwnScope(disk)'
  BY <1>0, <1>2, <1>3, <1>4 DEF OwnScope, Held
<1>6. ASSUME NEW d \in Deliveries, Running(d, "reserve", "save")'
      PROVE mem'.events[req[d].key].scope = req[d].scope
  <2>1. CASE Reserve(d)
    <3>1. mem'.events[req[d].key] = [scope |-> req[d].scope, expiresAt |-> now + Ttl, result |-> "indeterminate"]
      BY <2>1, Reserved
    <3> QED
      BY <3>1
  <2>2. CASE Running(d, "reserve", "save") /\ mem' = mem
    BY <2>2 DEF Scoped
  <2>3. Reserve(d) \/ (Running(d, "reserve", "save") /\ mem' = mem)
    BY <1>6, SavingStep
  <2> QED
    BY <2>1, <2>2, <2>3
<1>7. ASSUME NEW j \in Deliveries, pc'[j] = "joined" PROVE SharesScope(j)
  BY <1>7, JoinedStep, JoinFits DEF Scoped
<1>8. \A j \in Deliveries : SharesScope(j) => SharesScope(j)'
  BY <1>0 DEF SharesScope
<1> QED
  BY <1>0, <1>5, <1>6, <1>7, <1>8 DEF Scoped
-----------------------------------------------------------------------------
(***************************************************************************)
(* What callers are told                                                   *)
(***************************************************************************)

\* A result in a receipt after a step was in one before, or is the event's own.
LEMMA ResultOfStep ==
  ASSUME Typed, [Next]_vars, NEW k \in Keys
  PROVE /\ mem'.events[k].result \in {"ok", "denied"} =>
             \/ \E m \in {mem, disk} : mem'.events[k].result = m.events[k].result
             \/ mem'.events[k].result = outcome[k]
        /\ disk'.events[k].result \in {"ok", "denied"} =>
             \E m \in {mem, disk} : disk'.events[k].result = m.events[k].result
<1>0. mem \in State /\ disk \in State /\ \A d \in Deliveries : req[d].key \in Keys
  BY DEF Typed, TypeOK, Request
<1>1. CASE Crash
  BY <1>1 DEF Crash, EmptyState, NoReceipt
<1>2. ASSUME NEW m \in State, Prune(m).events[k].result \in {"ok", "denied"}
      PROVE Prune(m).events[k].result = m.events[k].result
  BY <1>2, Pruned DEF Held
<1>3. CASE Restart
  BY <1>0, <1>2, <1>3 DEF Restart
<1>4. ASSUME NEW d \in Deliveries, Reserve(d)
      PROVE /\ disk' = disk
            /\ mem'.events[k].result \in {"ok", "denied"} => mem'.events[k].result = mem.events[k].result
  <2>1. /\ disk' = disk
        /\ k # req[d].key => mem'.events[k] = mem.events[k]
    BY <1>4, Reserved
  <2>2. mem'.events[req[d].key] = [scope |-> req[d].scope, expiresAt |-> now + Ttl, result |-> "indeterminate"]
    BY <1>4, Reserved
  <2>3. mem'.events[req[d].key].result = "indeterminate"
    BY <2>2
  <2> QED
    BY <2>1, <2>3
<1>5. ASSUME NEW j \in Keys, NEW r \in Results, mem' = WithResult(mem, j, r)
      PROVE mem'.events[k].result = IF j = k /\ Held(mem, k) THEN r ELSE mem.events[k].result
  BY <1>0, <1>5, ResultSet
<1>6. ASSUME NEW d \in Deliveries, pc[d] = "finalize", mem' = WithResult(mem, req[d].key, outcome[req[d].key])
      PROVE mem'.events[k].result \in {outcome[k], mem.events[k].result}
  <2>1. outcome[req[d].key] \in Results
    BY <1>6 DEF Typed, ResultReady, Results
  <2> QED
    BY <1>0, <1>5, <1>6, <2>1
<1>7. ASSUME NEW d \in Deliveries, mem' = WithResult(mem, req[d].key, "indeterminate"),
             mem'.events[k].result \in {"ok", "denied"}
      PROVE mem'.events[k].result = mem.events[k].result
  <2>1. "indeterminate" \in Results
    BY DEF Results
  <2> QED
    BY <1>0, <1>5, <1>7, <2>1
<1>8. ASSUME mem'.events = mem.events \/ mem' = Prune(mem), mem'.events[k].result \in {"ok", "denied"}
      PROVE mem'.events[k].result = mem.events[k].result
  BY <1>0, <1>2, <1>8
<1>9. CASE \E d \in Deliveries : Reserve(d)
  BY <1>4, <1>9
<1>10. CASE /\ disk' \in {disk, mem}
            /\ mem'.events[k].result \in {"ok", "denied"} =>
                 mem'.events[k].result \in {outcome[k], mem.events[k].result}
  BY <1>10
<1> QED
  BY <1>1, <1>3, <1>6, <1>7, <1>8, <1>9, <1>10, StoreOfStep

\* A receipt that names a result names the one the event's operation returned.
TrueResults(m) ==
  \A k \in Keys : m.events[k].result \in {"ok", "denied"} => outcome[k] = m.events[k].result
TrueReceipts == TrueResults(mem) /\ TrueResults(disk)

LEMMA TrueReceiptsInit == Init => TrueReceipts
BY DEF Init, TrueReceipts, TrueResults, EmptyState, NoReceipt

LEMMA TrueReceiptsNext ==
  ASSUME Typed, OnceInv, Places, Outcomes, TrueReceipts, [Next]_vars
  PROVE TrueReceipts'
<1>1. ASSUME NEW k \in Keys, mem'.events[k].result \in {"ok", "denied"} PROVE outcome[k] = mem'.events[k].result
  BY <1>1, ResultOfStep DEF TrueReceipts, TrueResults
<1>2. ASSUME NEW k \in Keys, disk'.events[k].result \in {"ok", "denied"} PROVE outcome[k] = disk'.events[k].result
  BY <1>2, ResultOfStep DEF TrueReceipts, TrueResults
<1>3. \A k \in Keys : outcome[k] # "none" => outcome'[k] = outcome[k]
  BY OutcomesStay
<1> QED
  BY <1>1, <1>2, <1>3 DEF TrueReceipts, TrueResults

\* A caller comes to be told of something in three ways only.
LEMMA ReplyStep ==
  ASSUME Typed, [Next]_vars, NEW j \in Deliveries, reply'[j] # reply[j]
  PROVE \/ reply'[j] \in {"collision", "failed"} /\ pc[j] \in {"idle", "reserve"} /\ pc'[j] = "replied"
        \/ Replay(j)
        \/ Concludes(j) /\ (FinalSaved(j) \/ Repair(j))
        \/ \E d \in Deliveries : Settle(d) /\ pc[j] = "joined" /\ req[j].key = req[d].key /\ reply'[j] = reply[d]
<1> USE DEF Typed, TypeOK
<1>1. ~Rests /\ ~Crash
  BY DEF Rests, Crash
<1>2. PICK d \in Deliveries : Course(d)
  BY <1>1, CourseOfStep
<1>3. CASE Replay(d)
  <2>1. d = j
    BY <1>3 DEF Replay, Answer
  <2> QED
    BY <1>3, <2>1
<1>4. CASE TurnedAway(d)
  BY <1>4 DEF TurnedAway, Goes
<1>5. CASE Concludes(d) /\ (FinalSaved(d) \/ Repair(d))
  <2>1. d = j
    BY <1>5 DEF Concludes
  <2> QED
    BY <1>5, <2>1
<1>6. CASE Settle(d)
  BY <1>6 DEF Settle
<1> QED
  BY <1>2, <1>3, <1>4, <1>5, <1>6 DEF Course, Deliver, Join, StartOperation, GoesOn, Finishes, FinalFails

LEMMA HonestInit == Init => HonestReply
BY DEF Init, HonestReply

LEMMA HonestNext ==
  ASSUME Typed, OnceInv, Places, Outcomes, Scoped, TrueReceipts, HonestReply, [Next]_vars
  PROVE HonestReply'
<1> USE DEF Typed, TypeOK
<1>0. req' = req /\ ran \subseteq ran' /\ \A d \in Deliveries : req[d].key \in Keys
  BY CourseOfStep, OutcomesStay DEF Request
<1>1. ASSUME NEW j \in Deliveries, reply'[j] \in {"ok", "denied"}
      PROVE outcome[req[j].key] = reply'[j] /\ SharesScope(j)
  <2>1. CASE reply'[j] = reply[j]
    BY <1>1, <2>1 DEF HonestReply, SharesScope
  <2>2. CASE Replay(j)
    <3>1. /\ Held(mem, req[j].key) /\ mem.events[req[j].key].scope = req[j].scope
          /\ reply'[j] = mem.events[req[j].key].result
      BY <2>2 DEF Replay, Answer
    <3>2. outcome[req[j].key] = reply'[j]
      BY <1>0, <1>1, <3>1 DEF TrueReceipts, TrueResults
    <3>3. PICK e \in ran : req[e].key = req[j].key
      BY <1>0, <1>1, <3>2 DEF Outcomes
    <3> QED
      BY <3>1, <3>2, <3>3, FitsReceipt
  <2>3. CASE Concludes(j)
    <3>1. pc[j] = "finalize" /\ reply'[j] = outcome[req[j].key]
      BY <1>1, <2>3 DEF Concludes
    <3>2. j \in ran
      BY <3>1 DEF Places, Busy
    <3> QED
      BY <3>1, <3>2 DEF SharesScope
  <2>4. ASSUME NEW d \in Deliveries, pc[j] = "joined", req[j].key = req[d].key, reply'[j] = reply[d]
        PROVE outcome[req[j].key] = reply'[j] /\ SharesScope(j)
    BY <1>1, <2>4 DEF HonestReply, Scoped
  <2> QED
    BY <1>1, <2>1, <2>2, <2>3, <2>4, ReplyStep
<1>2. \A k \in Keys : outcome[k] # "none" => outcome'[k] = outcome[k]
  BY OutcomesStay
<1>3. \A j \in Deliveries : SharesScope(j) => \E e \in ran' : req'[e].key = req'[j].key /\ req'[e].scope = req'[j].scope
  BY <1>0 DEF SharesScope
<1> QED
  BY <1>0, <1>1, <1>2, <1>3 DEF HonestReply
-----------------------------------------------------------------------------
(***************************************************************************)
(* Indeterminate stays indeterminate                                       *)
(***************************************************************************)

\* A running process keeps running until it dies, and the clock runs forward.
LEMMA StaysUp ==
  ASSUME Typed, [Next]_vars, proc = "up"
  PROVE Crash \/ proc' = "up"
BY DEF Next, Deliver, Operation, VerifyToken, Act, Settle, RejectedReady, Restart, Tick, vars,
       Closure, StartClosure, PruneSaved, Collide, Join, Replay, Reserve, StartOperation,
       ReservationFails, ConsumeToken, TokenSaved, TokenRefused, Finalize, FinalSaved,
       FinalFails, Repair

LEMMA ClockRuns ==
  ASSUME Typed, [Next]_vars
  PROVE now <= now' /\ now' \in Nat
<1>1. now \in Nat
  BY DEF Typed, TypeOK
<1>2. now' = now \/ now' = now + 1
  BY DEF Next, Deliver, Operation, VerifyToken, Act, Settle, RejectedReady, Crash, Restart, Tick, vars,
       Closure, StartClosure, PruneSaved, Collide, Join, Replay, Reserve, StartOperation,
       ReservationFails, ConsumeToken, TokenSaved, TokenRefused, Finalize, FinalSaved,
       FinalFails, Repair
<1> QED
  BY <1>1, <1>2

LEMMA OverStays ==
  ASSUME Typed, [Next]_vars, NEW k \in Keys, Over(k)
  PROVE Over(k)'
<1>1. Stamp[k] \in Nat /\ Ttl \in Nat /\ MaxAge \in Nat /\ now \in Nat
  BY ConstantsAssumption DEF Typed, TypeOK
<1>2. now <= now' /\ now' \in Nat
  BY ClockRuns
<1> QED
  BY <1>1, <1>2 DEF Over

\* A caller was told that what became of its event is not known.
Told(d) == reply[d] = "indeterminate" /\ pc[d] \in {"settling", "replied"}

\* The event of such a caller has no operation that could still end, its receipt names no
\* result and lasts until no delivery of it is accepted.
Closed(k) ==
  /\ proc = "up" /\ mem.events[k].result \in {"indeterminate", "absent"}
  /\ \A e \in Deliveries : pc[e] \in Busy \ {"settling"} => req[e].key # k
  /\ \A e \in Deliveries : Running(e, "reserve", "save") => req[e].key # k
  /\ Over(k) \/ Covered(mem, k)
ToldSticks == \A d \in Deliveries : Told(d) => Closed(req[d].key)

LEMMA ToldInit == Init => ToldSticks
BY DEF Init, ToldSticks, Told

\* A caller comes to be told so by a receipt that names no result, by the repair of one,
\* or with the delivery whose answer it shares.
LEMMA ToldStep ==
  ASSUME Typed, Places, [Next]_vars, NEW j \in Deliveries, Told(j)', ~Told(j)
  PROVE \/ Replay(j) /\ mem.events[req[j].key].result = "indeterminate"
        \/ Repair(j)
        \/ \E d \in Deliveries : Settle(d) /\ Told(d) /\ req[j].key = req[d].key
<1> USE DEF Typed, TypeOK, Told
<1>1. CASE reply'[j] = reply[j]
  <2>1. pc[j] \notin Waiting /\ pc[j] \notin {"settling", "replied"} /\ pc'[j] \in {"settling", "replied"}
    BY <1>1 DEF Places
  <2>2. pc[j] = "gone"
    BY <2>1 DEF Waiting, PCs, Closures
  <2>3. ~Rests /\ ~Crash
    BY <2>1 DEF Rests, Crash
  <2>4. ASSUME NEW d \in Deliveries, Course(d), d # j, ~Settle(d) PROVE pc'[j] = pc[j]
    BY <2>4 DEF Course, Deliver, Enqueue, Join, Replay, StartOperation, Leave, TurnedAway, GoesOn, Finishes,
                Goes, FinalFails, Concludes
  <2>5. ASSUME NEW d \in Deliveries, Settle(d) PROVE FALSE
    BY <2>2, <2>1, <2>5 DEF Settle
  <2>6. ASSUME Course(j) PROVE FALSE
    BY <2>2, <2>5, <2>6 DEF Course, Deliver, Join, Replay, StartOperation, Running, TurnedAway, GoesOn, Finishes,
                Unfinished, FinalFails, Concludes
  <2> QED
    BY <2>1, <2>2, <2>3, <2>4, <2>5, <2>6, CourseOfStep
<1>2. CASE Replay(j)
  BY <1>2 DEF Replay, Answer
<1>3. CASE Concludes(j) /\ FinalSaved(j)
  <2>1. pc[j] = "finalize" /\ reply'[j] = outcome[req[j].key]
    BY <1>3 DEF FinalSaved, Running, Answer
  <2> QED
    BY <2>1 DEF ResultReady
<1>4. ASSUME NEW d \in Deliveries, Settle(d), req[j].key = req[d].key, reply'[j] = reply[d]
      PROVE Told(d)
  BY <1>4 DEF Settle
<1>5. reply'[j] \notin {"collision", "failed"}
  OBVIOUS
<1>6. CASE reply'[j] # reply[j]
  <2>1. \/ Replay(j)
        \/ Concludes(j) /\ (FinalSaved(j) \/ Repair(j))
        \/ \E d \in Deliveries : Settle(d) /\ pc[j] = "joined" /\ req[j].key = req[d].key /\ reply'[j] = reply[d]
    BY <1>5, <1>6, ReplyStep
  <2> QED
    BY <1>2, <1>3, <1>4, <2>1
<1> QED
  BY <1>1, <1>6

\* An operation gets on its way only by being started.
LEMMA BusyStep ==
  ASSUME Typed, [Next]_vars, NEW e \in Deliveries, pc'[e] \in Busy \ {"settling"}
  PROVE pc[e] \in Busy \ {"settling"} \/ StartOperation(e)
<1> USE DEF Typed, TypeOK, Busy
<1>1. CASE Rests \/ Crash
  BY <1>1 DEF Rests, Crash
<1>2. ASSUME NEW d \in Deliveries, Course(d), d # e, ~Settle(d) PROVE pc'[e] = pc[e]
  BY <1>2 DEF Course, Deliver, Enqueue, Join, Replay, StartOperation, Leave, TurnedAway, GoesOn, Finishes,
              Goes, FinalFails, Concludes
<1>3. ASSUME NEW d \in Deliveries, Settle(d) PROVE pc[e] \in Busy \ {"settling"}
  BY <1>3 DEF Settle
<1>4. CASE Course(e)
  BY <1>4 DEF Course, Deliver, Enqueue, Join, Replay, Leave, TurnedAway, GoesOn, Finishes,
              Unfinished, Goes, FinalFails, Running, Concludes, Settle
<1> QED
  BY <1>1, <1>2, <1>3, <1>4, CourseOfStep

\* A step of the running process leaves a closed event closed.
LEMMA ClosedStays ==
  ASSUME Typed, OnceInv, Places, NEW k \in Keys, Closed(k), [Next]_vars, ~Crash
  PROVE Closed(k)'
<1>0. req' = req /\ mem \in State /\ now \in Nat /\ \A d \in Deliveries : req[d].key \in Keys
  BY CourseOfStep DEF Typed, TypeOK, Request
<1>1. proc = "up" /\ proc' = "up" /\ ~Restart
  BY StaysUp DEF Closed, Restart
<1>2. ASSUME NEW d \in Deliveries, Reserve(d) PROVE req[d].key # k
  BY <1>2, ReserveIsFirst DEF Closed, Covered
<1>3. \A e \in Deliveries : (pc[e] \in Busy \ {"settling"} => req[e].key # k)'
  <2>1. ASSUME NEW e \in Deliveries, StartOperation(e) PROVE req[e].key # k
    BY <2>1 DEF StartOperation, Closed
  <2> QED
    BY <1>0, <2>1, BusyStep DEF Closed
<1>4. \A e \in Deliveries : (Running(e, "reserve", "save") => req[e].key # k)'
  <2>1. ASSUME NEW e \in Deliveries, Running(e, "reserve", "save")' PROVE Reserve(e) \/ Running(e, "reserve", "save")
    BY <2>1, SavingStep
  <2> QED
    BY <1>0, <1>2, <2>1 DEF Closed
<1>5. ASSUME NEW d \in Deliveries, Reserve(d) PROVE mem'.events[k] = mem.events[k]
  BY <1>2, <1>5, Reserved
<1>6. ASSUME NEW d \in Deliveries, pc[d] = "finalize", mem' = WithResult(mem, req[d].key, outcome[req[d].key])
      PROVE mem'.events[k].result = mem.events[k].result /\ (Covered(mem, k) => Covered(mem', k))
  <2>1. outcome[req[d].key] \in Results /\ req[d].key # k
    BY <1>6 DEF Typed, ResultReady, Results, Closed, Busy
  <2> QED
    BY <1>0, <1>6, <2>1, ResultSet, ResultCovers
<1>7. ASSUME NEW d \in Deliveries, mem' = WithResult(mem, req[d].key, "indeterminate")
      PROVE /\ mem'.events[k].result \in {mem.events[k].result, "indeterminate"}
            /\ Covered(mem, k) => Covered(mem', k)
  <2>1. "indeterminate" \in Results
    BY DEF Results
  <2> QED
    BY <1>0, <1>7, <2>1, ResultSet, ResultCovers
<1>8. ASSUME mem' = Prune(mem)
      PROVE /\ mem'.events[k].result \in {mem.events[k].result, "absent"}
            /\ Covered(mem, k) => Covered(mem', k) \/ Over(k)
  BY <1>0, <1>8, Pruned, PruneCovers DEF Held
<1>9. ASSUME mem'.events[k] = mem.events[k]
      PROVE Covered(mem, k) => Covered(mem', k)
  BY <1>9 DEF Covered, Held
<1>10. /\ mem'.events[k].result \in {mem.events[k].result, "indeterminate", "absent"}
       /\ Covered(mem, k) => Covered(mem', k) \/ Over(k)
  BY <1>1, <1>5, <1>6, <1>7, <1>8, <1>9, StoreOfStep
<1>11. Over(k)' \/ Covered(mem, k)'
  <2>1. Over(k) \/ Covered(mem', k)
    BY <1>10 DEF Closed
  <2>2. CASE Over(k)
    BY <2>2, OverStays
  <2>3. CASE Covered(mem', k)
    BY <2>3 DEF Covered, Held
  <2> QED
    BY <2>1, <2>2, <2>3
<1>12. mem'.events[k].result \in {"indeterminate", "absent"}
  BY <1>10 DEF Closed
<1> QED
  BY <1>1, <1>3, <1>4, <1>11, <1>12 DEF Closed

\* A receipt that is replayed as indeterminate, or was repaired, closes its event.
LEMMA ReplayCloses ==
  ASSUME Typed, OnceInv, Places, Lasting, NEW d \in Deliveries, Replay(d),
         mem.events[req[d].key].result = "indeterminate"
  PROVE Closed(req[d].key)
<1>1. /\ Running(d, "reserve", "lookup") /\ Leaders(req[d].key) = {} /\ Held(mem, req[d].key)
  BY DEF Replay
<1>2. \A e \in Deliveries : pc[e] \in Busy => req[e].key # req[d].key
  BY <1>1 DEF Leaders, Places
<1>3. Covered(mem, req[d].key)
  BY <1>1 DEF Lasting, Lasts, Typed, TypeOK, Request
<1> QED
  BY <1>1, <1>2, <1>3 DEF Closed, Running

LEMMA RepairCloses ==
  ASSUME Typed, OnceInv, OnceInv', Places, NEW d \in Deliveries, Repair(d),
         NEW k \in Keys, k = req[d].key
  PROVE Closed(k)'
<1>1. /\ pc[d] = "repair" /\ proc = "up" /\ proc' = "up" /\ step' = "start" /\ pc' = [pc EXCEPT ![d] = "settling"]
      /\ mem' = WithResult(mem, req[d].key, "indeterminate") /\ UNCHANGED <<req, ran, now, disk>>
  BY DEF Repair, Running, Leave
<1>2. d \in ran /\ req[d].key \in Keys /\ mem \in State /\ "indeterminate" \in Results
  BY <1>1 DEF Places, Busy, Typed, TypeOK, Request, Results
<1>3. mem'.events[req[d].key].result \in {"indeterminate", "absent"}
  BY <1>1, <1>2, ResultSet DEF Held
<1>4. \A e \in Deliveries : pc'[e] \in Busy \ {"settling"} => req[e].key # req[d].key
  <2> SUFFICES ASSUME NEW e \in Deliveries, pc'[e] \in Busy \ {"settling"}
               PROVE req[e].key # req[d].key
    OBVIOUS
  <2>1. e # d /\ pc[e] \in Busy
    BY <1>1 DEF Typed, TypeOK
  <2> QED
    BY <1>2, <2>1 DEF OnceInv, AtMostOnce, Places
<1>5. Over(req[d].key)' \/ Covered(mem, req[d].key)'
  BY <1>1, <1>2 DEF OnceInv, StartedIsCovered
<1>6. Over(k)' \/ Covered(mem, k)'
  BY <1>1, <1>5 DEF Over, Covered, Held
<1> QED
  BY <1>1, <1>3, <1>4, <1>6 DEF Closed, Running

LEMMA ToldNext ==
  ASSUME Typed, OnceInv, OnceInv', Places, Lasting, ToldSticks, [Next]_vars
  PROVE ToldSticks'
<1> SUFFICES ASSUME NEW d \in Deliveries, Told(d)', NEW k \in Keys, k = req[d].key
             PROVE Closed(k)'
  BY CourseOfStep DEF ToldSticks, Closed, Over, Covered, Held, Typed, TypeOK, Request
<1>1. ~Crash
  BY DEF Crash, Told
<1>2. ASSUME Closed(k) PROVE Closed(k)'
  BY <1>1, <1>2, ClosedStays
<1>3. CASE Told(d)
  BY <1>2, <1>3 DEF ToldSticks
<1>4. CASE Replay(d) /\ mem.events[req[d].key].result = "indeterminate"
  BY <1>2, <1>4, ReplayCloses
<1>5. CASE Repair(d)
  BY <1>5, RepairCloses
<1>6. ASSUME NEW e \in Deliveries, Told(e), req[d].key = req[e].key PROVE Closed(k)'
  BY <1>2, <1>6 DEF ToldSticks
<1> QED
  BY <1>3, <1>4, <1>5, <1>6, ToldStep

RepliesInv ==
  /\ Places /\ Outcomes /\ Lasting /\ Scoped /\ TrueReceipts
  /\ HonestReply /\ ToldSticks

LEMMA RepliesNext ==
  ASSUME Typed, OnceInv, RepliesInv, [Next]_vars
  PROVE (Typed /\ OnceInv /\ RepliesInv)'
<1>1. Typed' /\ OnceInv'
  BY TypedNext, OnceNext
<1>2. Places' /\ Outcomes' /\ Lasting'
  BY PlacesNext, OutcomesNext, LastingNext DEF RepliesInv
<1>3. Scoped' /\ TrueReceipts' /\ HonestReply'
  BY ScopedNext, TrueReceiptsNext, HonestNext DEF RepliesInv
<1>4. ToldSticks'
  BY <1>1, ToldNext DEF RepliesInv
<1> QED
  BY <1>1, <1>2, <1>3, <1>4 DEF RepliesInv

\* What runEvent answers is true: a result is the one the event's only operation returned,
\* for the same identity, and what was answered as indeterminate is never replayed as a
\* success by the process that answered it (dedupe.ts).
THEOREM RepliesAlwaysTrue == Spec => []RepliesTrue
<1>1. Init => Typed /\ OnceInv /\ RepliesInv
  BY TypedInit, OnceInit, PlacesInit, OutcomesInit, LastingInit, ScopedInit, TrueReceiptsInit,
     HonestInit, ToldInit DEF RepliesInv
<1>2. Typed /\ OnceInv /\ RepliesInv /\ [Next]_vars => (Typed /\ OnceInv /\ RepliesInv)'
  BY RepliesNext
<1>3. Typed /\ OnceInv /\ RepliesInv => RepliesTrue
  BY DEF Typed, RepliesInv, RepliesTrue, ToldSticks, Told, Closed, IndeterminateSticks
<1>4. QED
  BY <1>1, <1>2, <1>3, PTL DEF Spec
-----------------------------------------------------------------------------
(***************************************************************************)
(* Action tokens                                                           *)
(***************************************************************************)

LEMMA ActionsOfStep ==
  ASSUME Typed, [Next]_vars
  PROVE /\ uses' = uses \/ \E d \in Deliveries : TokenSaved(d)
        /\ \/ Crash \/ Restart
           \/ /\ proc' = proc
              /\ disk' = disk \/ (disk' = mem /\ proc = "up")
              /\ mem'.actions = mem.actions \/ mem' = Prune(mem) \/ \E d \in Deliveries : ConsumeToken(d)
<1> USE DEF Typed, TypeOK
<1>1. ASSUME NEW d \in Deliveries, Closure(d), ~ConsumeToken(d), ~StartClosure(d), ~Reserve(d), ~Finalize(d),
             ~Repair(d)
      PROVE proc' = proc /\ mem' = mem /\ (disk' = disk \/ (disk' = mem /\ proc = "up"))
  BY <1>1 DEF Closure, PruneSaved, Collide, Join, Replay, StartOperation, ReservationFails,
              TokenSaved, TokenRefused, FinalSaved, FinalFails, Running
<1>2. ASSUME NEW d \in Deliveries, StartClosure(d) \/ ConsumeToken(d) \/ Reserve(d) \/ Finalize(d) \/ Repair(d)
      PROVE proc' = proc /\ disk' = disk /\ (StartClosure(d) => mem' = Prune(mem))
  BY <1>2 DEF StartClosure, ConsumeToken, Reserve, Finalize, Repair
<1>3. ASSUME NEW d \in Deliveries, Reserve(d) PROVE mem'.actions = mem.actions
  <2> DEFINE receipt == [scope |-> req[d].scope, expiresAt |-> now + Ttl, result |-> "indeterminate"]
  <2>1. mem' = [mem EXCEPT !.events[req[d].key] = receipt]
    BY <1>3 DEF Reserve
  <2> HIDE DEF receipt
  <2> QED
    BY <2>1 DEF State
<1>4. ASSUME NEW k \in Keys, NEW r \in Results PROVE WithResult(mem, k, r).actions = mem.actions
  BY DEF WithResult, State
<1>5. ASSUME NEW d \in Deliveries, Finalize(d) \/ Repair(d) PROVE mem'.actions = mem.actions
  <2>1. req[d].key \in Keys /\ "indeterminate" \in Results
    BY DEF Request, Results
  <2>2. CASE Finalize(d)
    <3>1. mem' = WithResult(mem, req[d].key, outcome[req[d].key]) /\ outcome[req[d].key] \in Results
      BY <2>2 DEF Finalize, Running, ResultReady, Results
    <3> QED
      BY <1>4, <2>1, <3>1
  <2>3. CASE Repair(d)
    BY <1>4, <2>1, <2>3 DEF Repair
  <2> QED
    BY <1>5, <2>2, <2>3
<1>6. ASSUME NEW d \in Deliveries, Deliver(d) \/ Operation(d) \/ Settle(d) \/ RejectedReady(d)
      PROVE UNCHANGED <<proc, mem, disk, uses>>
  BY <1>6 DEF Deliver, Operation, VerifyToken, Act, Settle, RejectedReady
<1>7. ASSUME Tick \/ UNCHANGED vars PROVE UNCHANGED <<proc, mem, disk, uses>>
  BY <1>7 DEF Tick, vars
<1>8. ASSUME NEW d \in Deliveries, Closure(d), ~TokenSaved(d) PROVE uses' = uses
  BY <1>8 DEF Closure, StartClosure, PruneSaved, Collide, Join, Replay, Reserve, StartOperation,
              ReservationFails, ConsumeToken, TokenRefused, Finalize, FinalSaved, FinalFails, Repair
<1>9. ASSUME Crash \/ Restart PROVE uses' = uses
  BY <1>9 DEF Crash, Restart
<1>10. uses' = uses \/ \E d \in Deliveries : TokenSaved(d)
  BY <1>6, <1>7, <1>8, <1>9 DEF Next
<1>11. ASSUME NEW d \in Deliveries, Closure(d)
       PROVE /\ proc' = proc
             /\ disk' = disk \/ (disk' = mem /\ proc = "up")
             /\ mem'.actions = mem.actions \/ mem' = Prune(mem) \/ ConsumeToken(d)
  BY <1>1, <1>2, <1>3, <1>5, <1>11
<1> QED
  BY <1>6, <1>7, <1>10, <1>11 DEF Next

\* The uses of a token before it expires, and what protects it from another one.
Early(t) == {u \in uses[t] : u[2] < TokenExp[t]}
Kept(t) ==
  /\ disk.actions[t] = TokenExp[t]
  /\ proc # "down" => mem.actions[t] = TokenExp[t]
Unused(t) == TokenExp[t] <= now \/ Early(t) = {}
TokenInv ==
  /\ \A t \in Tokens : \A u \in uses[t] : u[2] <= now
  /\ \A t \in Tokens : Unused(t) \/ Kept(t)
  /\ \A d \in Deliveries : Running(d, "consume", "save") =>
       mem.actions[req[d].token] = TokenExp[req[d].token] /\ Unused(req[d].token)
  /\ TokenUsedOnceBeforeExpiry

LEMMA TokenInit == Init => TokenInv
BY DEF Init, TokenInv, Unused, Early, TokenUsedOnceBeforeExpiry, Running

\* A recorded use stays recorded, in memory and on disk, until the token has expired.
LEMMA KeptStays ==
  ASSUME Typed, OnceInv, [Next]_vars, NEW t \in Tokens, Kept(t)
  PROVE Kept(t)' \/ TokenExp[t] <= now
<1>1. TokenExp[t] \in Nat \ {0} /\ now \in Nat /\ mem \in State /\ disk \in State
  BY ConstantsAssumption DEF Typed, TypeOK
<1>2. ASSUME NEW m \in State, m.actions[t] = TokenExp[t], ~(TokenExp[t] <= now)
      PROVE Prune(m).actions[t] = TokenExp[t]
  BY <1>2 DEF Prune, Expired
<1>3. CASE Crash
  <2>1. proc' = "down" /\ (disk' = disk \/ (disk' = mem /\ proc = "up"))
    BY <1>3 DEF Crash, Saving, OnceInv, Alive, Typed, TypeOK
  <2> QED
    BY <2>1 DEF Kept
<1>4. CASE Restart
  <2>1. mem' = Prune(disk) /\ disk' \in {disk, Prune(disk)}
    BY <1>4 DEF Restart
  <2> QED
    BY <1>1, <1>2, <2>1 DEF Kept
<1>5. ASSUME NEW d \in Deliveries, ConsumeToken(d), mem.actions[t] = TokenExp[t]
      PROVE mem'.actions[t] = TokenExp[t]
  <2>1. mem.actions[req[d].token] = 0 /\ mem' = [mem EXCEPT !.actions[req[d].token] = TokenExp[req[d].token]]
    BY <1>5 DEF ConsumeToken
  <2>2. req[d].token # t
    BY <1>1, <1>5, <2>1
  <2> QED
    BY <1>1, <1>5, <2>1, <2>2 DEF State
<1>6. CASE /\ proc' = proc
           /\ disk' = disk \/ (disk' = mem /\ proc = "up")
           /\ mem'.actions = mem.actions \/ mem' = Prune(mem) \/ \E d \in Deliveries : ConsumeToken(d)
  <2>1. mem.actions[t] = TokenExp[t] => mem'.actions[t] = TokenExp[t] \/ TokenExp[t] <= now
    BY <1>1, <1>2, <1>5, <1>6
  <2> QED
    BY <1>6, <2>1 DEF Kept
<1> QED
  BY <1>3, <1>4, <1>6, ActionsOfStep

LEMMA TokenNext ==
  ASSUME Typed, OnceInv, Places, TokenInv, [Next]_vars
  PROVE TokenInv'
<1>0. /\ now <= now' /\ now \in Nat /\ now' \in Nat /\ req' = req /\ uses \in [Tokens -> SUBSET (Deliveries \X Nat)]
      /\ \A t \in Tokens : TokenExp[t] \in Nat /\ TokenExp[t] # 0
  BY ClockRuns, CourseOfStep, ConstantsAssumption DEF Typed, TypeOK
<1>1. ASSUME NEW d \in Deliveries, TokenSaved(d) PROVE TokenInv'
  <2> DEFINE use == <<d, now>>
  <2>0. Running(d, "consume", "save") /\ req[d].token \in Tokens
    BY <1>1 DEF TokenSaved, Running, Places
  <2> PICK t \in Tokens : t = req[d].token
    BY <2>0
  <2>1. /\ disk' = mem /\ mem' = mem /\ now' = now /\ proc' = "up" /\ proc = "up"
        /\ step' = "start" /\ uses' = [uses EXCEPT ![t] = @ \cup {use}]
    BY <1>1 DEF TokenSaved, Running, Leave
  <2>2. mem.actions[t] = TokenExp[t] /\ Unused(t)
    BY <2>0 DEF TokenInv
  <2>3. use[2] = now
    OBVIOUS
  <2> HIDE DEF use
  <2>4. uses'[t] = uses[t] \cup {use} /\ \A s \in Tokens : s # t => uses'[s] = uses[s]
    BY <1>0, <2>1
  <2>5. \A s \in Tokens : \A u \in uses'[s] : u[2] <= now'
    BY <1>0, <2>1, <2>3, <2>4 DEF TokenInv
  <2>6. Kept(t)'
    BY <2>1, <2>2 DEF Kept
  <2>7. \A s \in Tokens : s # t => (Unused(s) \/ Kept(s))'
    BY <2>1, <2>4 DEF TokenInv, Kept, Unused, Early
  <2>8. \A s \in Tokens : \A u, v \in uses'[s] : u[2] < TokenExp[s] /\ v[2] < TokenExp[s] => u = v
    <3>1. \A u \in uses[t] : u[2] < TokenExp[t] => TokenExp[t] <= now
      BY <2>2 DEF Unused, Early
    <3>2. \A u, v \in uses'[t] : u[2] < TokenExp[t] /\ v[2] < TokenExp[t] => u = v
      <4> SUFFICES ASSUME NEW u \in uses'[t], NEW v \in uses'[t], u[2] < TokenExp[t], v[2] < TokenExp[t]
                   PROVE u = v
        OBVIOUS
      <4>1. CASE u \in uses[t] /\ v \in uses[t]
        BY <2>2, <4>1 DEF TokenInv, TokenUsedOnceBeforeExpiry
      <4>2. ASSUME NEW w \in uses[t], w[2] < TokenExp[t], use[2] < TokenExp[t] PROVE FALSE
        <5>1. TokenExp[t] <= now /\ now < TokenExp[t]
          BY <2>3, <3>1, <4>2
        <5> QED
          BY <1>0, <2>2, <5>1
      <4> QED
        BY <2>4, <4>1, <4>2
    <3> QED
      BY <2>4, <3>2 DEF TokenInv, TokenUsedOnceBeforeExpiry
  <2>9. \A s \in Tokens : (Unused(s) \/ Kept(s))'
    BY <2>6, <2>7
  <2> QED
    BY <2>1, <2>5, <2>8, <2>9 DEF TokenInv, TokenUsedOnceBeforeExpiry, Running
<1>2. CASE uses' = uses
  <2>1. \A t \in Tokens : \A u \in uses[t] : u[2] <= now'
    <3> SUFFICES ASSUME NEW t \in Tokens, NEW u \in uses[t] PROVE u[2] <= now'
      OBVIOUS
    <3>1. u[2] <= now /\ u[2] \in Nat
      BY <1>0 DEF TokenInv
    <3> QED
      BY <1>0, <3>1
  <2>2. \A t \in Tokens : Unused(t) => Unused(t)'
    BY <1>0, <1>2 DEF Unused, Early
  <2>3. \A t \in Tokens : TokenExp[t] <= now => Unused(t)'
    BY <1>0, <1>2 DEF Unused
  <2>4. \A t \in Tokens : (Unused(t) \/ Kept(t))'
    BY <2>2, <2>3, KeptStays DEF TokenInv
  <2>5. ASSUME NEW d \in Deliveries, Running(d, "consume", "save")'
        PROVE mem'.actions[req[d].token] = TokenExp[req[d].token] /\ Unused(req[d].token)
    <3>1. CASE ConsumeToken(d)
      <4>1. /\ mem.actions[req[d].token] = 0 /\ proc = "up" /\ pc[d] = "consume"
            /\ mem' = [mem EXCEPT !.actions[req[d].token] = TokenExp[req[d].token]]
        BY <3>1 DEF ConsumeToken, Running
      <4>2. req[d].token \in Tokens
        BY <4>1 DEF Places
      <4>3. ~Kept(req[d].token)
        BY <1>0, <4>1, <4>2 DEF Kept
      <4>4. mem'.actions[req[d].token] = TokenExp[req[d].token]
        BY <4>1, <4>2 DEF Typed, TypeOK, State
      <4> QED
        BY <4>2, <4>3, <4>4 DEF TokenInv
    <3>2. CASE Running(d, "consume", "save") /\ mem' = mem
      BY <3>2 DEF TokenInv
    <3> QED
      BY <2>5, <3>1, <3>2, SavingStep
  <2>6. ASSUME NEW d \in Deliveries, Running(d, "consume", "save")' PROVE req[d].token \in Tokens
    <3>1. pc'[d] = "consume" /\ Places'
      BY <2>6, PlacesNext DEF Running
    <3> QED
      BY <1>0, <3>1 DEF Places
  <2>7. \A d \in Deliveries : (Running(d, "consume", "save") =>
            mem.actions[req[d].token] = TokenExp[req[d].token] /\ Unused(req[d].token))'
    BY <1>0, <1>2, <2>2, <2>5, <2>6 DEF Unused, Early
  <2> QED
    BY <1>2, <2>1, <2>4, <2>7 DEF TokenInv, TokenUsedOnceBeforeExpiry
<1> QED
  BY <1>1, <1>2, ActionsOfStep

\* consumeAction accepts a signed action token once before it expires, across events,
\* concurrent operations, failed saves and restarts (dedupe.ts).
THEOREM TokensUsedOnce == Spec => []TokenUsedOnceBeforeExpiry
<1>1. Init => Typed /\ OnceInv /\ Places /\ TokenInv
  BY TypedInit, OnceInit, PlacesInit, TokenInit
<1>2. Typed /\ OnceInv /\ Places /\ TokenInv /\ [Next]_vars => (Typed /\ OnceInv /\ Places /\ TokenInv)'
  BY TypedNext, OnceNext, PlacesNext, TokenNext
<1>3. TokenInv => TokenUsedOnceBeforeExpiry
  BY DEF TokenInv
<1>4. QED
  BY <1>1, <1>2, <1>3, PTL DEF Spec
-----------------------------------------------------------------------------
(***************************************************************************)
(* The store with its file, its chain and its crashes keeps the contract.  *)
(***************************************************************************)

\* The abstract state.
Status == [k \in Keys |-> StatusOf(k)]
EventOf == [d \in Deliveries |-> req[d].key]

LEMMA ContractStarts == Init => Promise!ContractInit
<1> SUFFICES ASSUME Init PROVE Promise!ContractInit
  OBVIOUS
<1>1. \A k \in Keys : StatusOf(k) = "new"
  BY DEF Init, StatusOf
<1>2. EventOf \in [Deliveries -> Keys]
  BY DEF Init, Request, EventOf
<1>3. reply = [d \in Deliveries |-> "none"]
  BY DEF Init
<1> QED
  BY <1>1, <1>2, <1>3 DEF Promise!ContractInit, EventOf

\* The status of an event depends on its operation only.
LEMMA StatusKept ==
  ASSUME req' = req, ran' = ran, outcome' = outcome, NEW k \in Keys,
         outcome[k] # "none" \/ (Leaders(k)' = {} <=> Leaders(k) = {})
  PROVE StatusOf(k)' = StatusOf(k)
BY DEF StatusOf

\* Steps that concern no operation and no answer are invisible to the contract.
LEMMA Invisible ==
  ASSUME UNCHANGED <<req, ran, outcome, pending, reply>>
  PROVE UNCHANGED Promise!contractVars
<1>1. \A k \in Keys : StatusOf(k)' = StatusOf(k)
  BY StatusKept DEF Leaders
<1> QED
  BY <1>1 DEF Promise!contractVars

\* A delivery that is answered by itself.
LEMMA TellsOne ==
  ASSUME Typed, UNCHANGED <<req, ran, outcome, pending>>, HonestReply', NEW d \in Deliveries,
         reply[d] = "none", NEW r \in Replies \ {"none"}, reply' = [reply EXCEPT ![d] = r]
  PROVE Promise!Tell({d})
<1> DEFINE answer == [c \in {d} |-> r]
<1>1. r \in Promise!Settled \cup Promise!Disclaimers
  BY DEF Promise!Settled, Promise!Disclaimers, Replies, Results
<1>2. answer \in [{d} -> Promise!Settled \cup Promise!Disclaimers]
  BY <1>1
<1>3. ASSUME r \in Promise!Settled PROVE r = Status[EventOf[d]]
  <2>1. reply'[d] = r /\ r \in {"ok", "denied"} /\ req[d].key \in Keys
    BY <1>3 DEF Promise!Settled, Typed, TypeOK, Request
  <2>2. outcome[req[d].key] = r /\ \E e \in ran : req[e].key = req[d].key
    BY <2>1 DEF HonestReply
  <2>3. StatusOf(req[d].key) = r
    BY <2>1, <2>2 DEF StatusOf
  <2> QED
    BY <2>1, <2>3 DEF Status, EventOf
<1>4. reply' = [c \in Deliveries |-> IF c \in {d} THEN answer[c] ELSE reply[c]]
  BY DEF Typed, TypeOK
<1>5. \A k \in Keys : StatusOf(k)' = StatusOf(k)
  BY StatusKept DEF Leaders
<1>6. \A c \in {d} : answer[c] \in Promise!Settled => answer[c] = Status[EventOf[c]]
  BY <1>3
<1> HIDE DEF answer
<1> QED
  BY <1>2, <1>4, <1>5, <1>6 DEF Promise!Tell, Status, EventOf

\* The callers that share the answer of a delivery are answered together.
LEMMA TellsJoined ==
  ASSUME Typed, Places, Outcomes, HonestReply', req' = req, NEW d \in Deliveries, Settle(d)
  PROVE UNCHANGED Promise!contractVars \/ \E waiting \in SUBSET Deliveries : Promise!Tell(waiting)
<1> DEFINE joined == {j \in Deliveries : pc[j] = "joined" /\ req[j].key = req[d].key}
           answer == [c \in joined |-> reply[d]]
<1>1. /\ pc[d] = "settling" /\ pending' = pending \ {d} /\ UNCHANGED <<ran, outcome>>
      /\ reply' = [j \in Deliveries |-> IF j \in joined THEN reply[d] ELSE reply[j]]
  BY DEF Settle
<1>2. \A k \in Keys : StatusOf(k)' = StatusOf(k)
  <2> SUFFICES ASSUME NEW k \in Keys PROVE StatusOf(k)' = StatusOf(k)
    OBVIOUS
  <2>1. CASE k = req[d].key
    BY <1>1, <2>1, StatusKept DEF Outcomes, Ended
  <2>2. CASE k # req[d].key
    BY <1>1, <2>2, StatusKept DEF Leaders
  <2> QED
    BY <2>1, <2>2
<1>3. CASE joined = {}
  <2>1. reply' = reply
    BY <1>1, <1>3 DEF Typed, TypeOK
  <2> QED
    BY <1>2, <2>1 DEF Promise!contractVars
<1>4. CASE joined # {}
  <2>1. reply[d] \in Promise!Settled \cup Promise!Disclaimers
    BY <1>1 DEF Promise!Settled, Promise!Disclaimers, Places, Results
  <2>2. answer \in [joined -> Promise!Settled \cup Promise!Disclaimers]
    BY <2>1
  <2>3. ASSUME NEW c \in joined, answer[c] \in Promise!Settled PROVE answer[c] = Status[EventOf[c]]
    <3>1. reply'[c] = answer[c] /\ answer[c] \in {"ok", "denied"} /\ req[c].key \in Keys
      BY <1>1, <2>3 DEF Promise!Settled, Typed, TypeOK, Request
    <3>2. outcome[req[c].key] = answer[c] /\ \E e \in ran : req[e].key = req[c].key
      BY <1>1, <3>1 DEF HonestReply
    <3>3. StatusOf(req[c].key) = answer[c]
      BY <3>1, <3>2 DEF StatusOf
    <3> QED
      BY <3>1, <3>3 DEF Status, EventOf
  <2>4. \A c \in joined : reply[c] = "none"
    BY DEF Places, Waiting
  <2>5. reply' = [c \in Deliveries |-> IF c \in joined THEN answer[c] ELSE reply[c]]
    BY <1>1
  <2>6. joined \in SUBSET Deliveries
    OBVIOUS
  <2> HIDE DEF answer, joined
  <2>7. Promise!Tell(joined)
    BY <1>2, <1>4, <2>2, <2>3, <2>4, <2>5 DEF Promise!Tell, Status, EventOf
  <2> QED
    BY <2>6, <2>7
<1> QED
  BY <1>3, <1>4

\* The operation of an event begins and ends once.
LEMMA Begins ==
  ASSUME Typed, OnceInv, Outcomes, req' = req, NEW d \in Deliveries, StartOperation(d), NEW k \in Keys, k = req[d].key
  PROVE Promise!Begin(k)
<1>1. /\ Running(d, "reserve", "save") /\ pending' = pending \cup {d} /\ ran' = ran \cup {d}
      /\ UNCHANGED <<outcome, reply>>
  BY DEF StartOperation
<1>2. \A e \in ran : req[e].key # k
  BY <1>1 DEF OnceInv, FirstReservation
<1>3. StatusOf(k) = "new"
  BY <1>2 DEF StatusOf
<1>4. StatusOf(k)' = "running"
  BY <1>1, <1>2 DEF StatusOf, Outcomes, Leaders
<1>5. \A j \in Keys : j # k => StatusOf(j)' = StatusOf(j)
  BY <1>1 DEF StatusOf, Leaders
<1>6. Status' = [Status EXCEPT ![k] = "running"]
  BY <1>4, <1>5 DEF Status
<1> QED
  BY <1>1, <1>3, <1>6 DEF Promise!Begin, Status

LEMMA Ends ==
  ASSUME Typed, Places, Outcomes, req' = req, NEW d \in Deliveries, Finishes(d), NEW k \in Keys, k = req[d].key
  PROVE \E r \in Promise!Settled : Promise!End(k, r)
<1>1. pc[d] \in Unfinished /\ UNCHANGED <<pending, ran, reply>>
  BY DEF Finishes
<1>2. PICK r \in {"ok", "denied"} : outcome' = [outcome EXCEPT ![k] = r]
  BY DEF Finishes
<1>3. d \in ran /\ d \in pending /\ outcome[k] = "none"
  BY <1>1 DEF Places, Outcomes, Unfinished, Busy
<1>4. StatusOf(k) = "running"
  BY <1>3 DEF StatusOf, Leaders
<1>5. outcome'[k] = r /\ \A j \in Keys : j # k => outcome'[j] = outcome[j]
  BY <1>2 DEF Typed, TypeOK
<1>6. StatusOf(k)' = r
  BY <1>1, <1>3, <1>5 DEF StatusOf
<1>7. \A j \in Keys : j # k => StatusOf(j)' = StatusOf(j)
  BY <1>1, <1>5 DEF StatusOf, Leaders
<1>8. Status' = [Status EXCEPT ![k] = r]
  BY <1>6, <1>7 DEF Status
<1>9. Promise!End(k, r)
  BY <1>1, <1>4, <1>8 DEF Promise!End, Status
<1> QED
  BY <1>9 DEF Promise!Settled

\* The operations that run when the process dies are lost.
LEMMA Loses ==
  ASSUME Typed, req' = req, Crash
  PROVE UNCHANGED Promise!contractVars \/ Promise!Lose
<1>1. pending' = {} /\ UNCHANGED <<ran, outcome, reply>>
  BY DEF Crash
<1>2. \A k \in Keys : StatusOf(k)' = IF StatusOf(k) = "running" THEN "lost" ELSE StatusOf(k)
  BY <1>1 DEF StatusOf, Leaders, Typed, TypeOK
<1>3. CASE \E k \in Keys : Status[k] = "running"
  <2>1. Status' = [k \in Keys |-> IF Status[k] = "running" THEN "lost" ELSE Status[k]]
    BY <1>2 DEF Status
  <2> QED
    BY <1>1, <1>3, <2>1 DEF Promise!Lose, Status
<1>4. CASE ~\E k \in Keys : Status[k] = "running"
  <2>1. \A k \in Keys : StatusOf(k)' = StatusOf(k)
    BY <1>2, <1>4 DEF Status
  <2> QED
    BY <1>1, <2>1 DEF Promise!contractVars
<1> QED
  BY <1>3, <1>4

\* Every step of the store is a step of the contract, or none.
LEMMA ContractSteps ==
  ASSUME Typed, OnceInv, RepliesInv, HonestReply', [Next]_vars
  PROVE [Promise!ContractNext]_(Promise!contractVars)
<1> USE DEF RepliesInv
<1>0. req' = req /\ \A d \in Deliveries : req[d].key \in Keys
  BY CourseOfStep DEF Typed, TypeOK, Request
<1>1. CASE Rests
  BY <1>0, <1>1, Invisible DEF Rests
<1>2. CASE Crash
  BY <1>0, <1>2, Loses DEF Promise!ContractNext
<1>3. ASSUME NEW d \in Deliveries, Course(d) PROVE [Promise!ContractNext]_(Promise!contractVars)
  <2>1. CASE Deliver(d) \/ Join(d) \/ GoesOn(d) \/ FinalFails(d)
    <3>1. UNCHANGED <<ran, outcome, pending, reply>>
      BY <2>1 DEF Deliver, Join, GoesOn, FinalFails
    <3> QED
      BY <1>0, <3>1, Invisible
  <2>2. ASSUME NEW r \in Replies \ {"none"}, reply[d] = "none", reply' = [reply EXCEPT ![d] = r],
               UNCHANGED <<pending, ran, outcome>>
        PROVE [Promise!ContractNext]_(Promise!contractVars)
    BY <1>0, <2>2, TellsOne DEF Promise!ContractNext
  <2>3. CASE Replay(d)
    <3>1. /\ Held(mem, req[d].key) /\ pc[d] = "reserve" /\ UNCHANGED <<pending, ran, outcome>>
          /\ reply' = [reply EXCEPT ![d] = mem.events[req[d].key].result]
      BY <2>3 DEF Replay, Running, Answer
    <3>2. mem.events[req[d].key].result \in Replies \ {"none"}
      BY <1>0, <3>1 DEF Held, Replies, Results, Typed, TypeOK, State, Receipt
    <3>3. reply[d] = "none"
      BY <3>1 DEF Places, Waiting
    <3> QED
      BY <2>2, <3>1, <3>2, <3>3
  <2>4. CASE TurnedAway(d)
    <3>1. reply[d] = "none" /\ UNCHANGED <<pending, ran, outcome>>
      BY <2>4 DEF TurnedAway, Places, Waiting
    <3>2. \E r \in Replies \ {"none"} : reply' = [reply EXCEPT ![d] = r]
      BY <2>4 DEF TurnedAway, Replies
    <3> QED
      BY <2>2, <3>1, <3>2
  <2>5. CASE Concludes(d)
    <3>1. reply[d] = "none" /\ UNCHANGED <<pending, ran, outcome>>
      BY <2>5 DEF Concludes, Places, Waiting
    <3>2. \E r \in Replies \ {"none"} : reply' = [reply EXCEPT ![d] = r]
      BY <2>5 DEF Concludes, Replies, Results, Typed, ResultReady
    <3> QED
      BY <2>2, <3>1, <3>2
  <2>6. CASE StartOperation(d)
    BY <1>0, <2>6, Begins DEF Promise!ContractNext
  <2>7. CASE Finishes(d)
    BY <1>0, <2>7, Ends DEF Promise!ContractNext
  <2>8. CASE Settle(d)
    BY <1>0, <2>8, TellsJoined DEF Promise!ContractNext
  <2> QED
    BY <1>3, <2>1, <2>3, <2>4, <2>5, <2>6, <2>7, <2>8 DEF Course
<1> QED
  BY <1>1, <1>2, <1>3, CourseOfStep

\* CompanionDedupe implements its contract: the operation of an event begins once, is at
\* most lost by a crash, and a caller is told its own result or nothing about it.
THEOREM ContractKept == Spec => ImplementsContract
<1>1. Init => Typed /\ OnceInv /\ RepliesInv
  BY TypedInit, OnceInit, PlacesInit, OutcomesInit, LastingInit, ScopedInit, TrueReceiptsInit,
     HonestInit, ToldInit DEF RepliesInv
<1>2. Typed /\ OnceInv /\ RepliesInv /\ [Next]_vars => (Typed /\ OnceInv /\ RepliesInv)'
  BY RepliesNext
<1>3. Typed /\ OnceInv /\ RepliesInv /\ (Typed /\ OnceInv /\ RepliesInv)' /\ [Next]_vars
        => [Promise!ContractNext]_(Promise!contractVars)
  BY ContractSteps DEF RepliesInv
<1>4. QED
  BY <1>1, <1>2, <1>3, ContractStarts, PTL DEF Spec, ImplementsContract, Promise!Contract
=============================================================================
