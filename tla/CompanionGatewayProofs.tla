-------------------------- MODULE CompanionGatewayProofs --------------------------
(***************************************************************************)
(* Theorems about CompanionGateway, for any events, chats, terminals and      *)
(* prompts, failing saves and crashes: a prompt is answered once at most,     *)
(* what is done is on record, and a command reaches the terminal that its     *)
(* chat was bound to while it was under way.  And about JanusChat, for any   *)
(* messages, requests and calls: what is written is kept once, told once,    *)
(* and answered or taken back.                                              *)
(***************************************************************************)
EXTENDS CompanionGateway, JanusChat, SequenceTheorems, FiniteSetTheorems, TLAPS

Closures == {"resolve", "bind", "unbind", "cleanup"}
Places == {"idle", "intent", "check", "token", "act", "closing", "done", "gone"} \cup Closures
In(s) == {s[i] : i \in DOMAIN s}
Once(s) == \A i, j \in DOMAIN s : s[i] = s[j] => i = j

\* The bindings in memory are those of the file, but for the one that the closure at the
\* head of the chain is saving.
StoreOK ==
  /\ chain \in Seq(Requests) /\ Once(chain) /\ \A r \in In(chain) : pc[r] \in Closures
  /\ saving => up /\ chain # <<>> /\ disk = [mem EXCEPT ![ChatOf(Head(chain))] = undo]
  /\ MemoryIsFile

\* What is known of a request from where it is.
RequestOK(r) ==
  /\ pc[r] \notin {"idle", "done", "gone"} => req[r] \in [chat : Chats, command : Commands]
  /\ pc[r] \notin {"idle", "intent", "done", "gone"} => r \in intents
  /\ pc[r] \in {"check", "token", "act", "bind", "unbind", "cleanup"} => target[r] \in Terminals
  /\ pc[r] = "intent" /\ req[r].command = "bind" => target[r] \in Terminals
  /\ pc[r] = "act" => req[r].command \notin {"bind", "unbind"}
  /\ pc[r] \in {"check", "token", "act"} /\ req[r].command # "bind" => target[r] \in seen[r]
  /\ pc[r] = "done" /\ result[r] = "ok" => outcomes[r] = "ok"

\* A prompt that is pending has not been answered.
PromptsOK == \A t \in Terminals : IF t \in approval THEN answers[t] < asked[t] ELSE answers[t] <= asked[t]

GatewayInv ==
  /\ TypeOK /\ StoreOK /\ PromptsOK /\ wrote \subseteq intents
  /\ \A r \in Requests : RequestOK(r)
-----------------------------------------------------------------------------
LEMMA GatewayInvInit == Init => GatewayInv
<1> SUFFICES ASSUME Init PROVE GatewayInv
  OBVIOUS
<1> USE GatewayAssumption DEF Init
<1>1. {b \in Binding : b = None \/ b.expires = Ttl} \subseteq Binding
  OBVIOUS
<1>2. mem \in [Chats -> Binding]
  BY <1>1
<1>3. None \in Binding /\ NoRequest \in [chat : Chats, command : Commands] \cup {NoRequest}
  BY DEF Binding
<1>4. TypeOK
  <2>1. 0 \in 0..(MaxTime + Ttl) /\ 0 \in 0..MaxTime /\ 0 \in 0..MaxPrompts
    OBVIOUS
  <2>2. /\ now \in 0..MaxTime /\ expires \in [Requests -> 0..(MaxTime + Ttl)]
        /\ asked \in [Terminals -> 0..MaxPrompts] /\ answers \in [Terminals -> Nat]
    BY <2>1
  <2>3. pc \in [Requests -> Places] /\ seen \in [Requests -> SUBSET Terminals]
    BY DEF Places
  <2>4. /\ mem \in [Chats -> Binding] /\ disk \in [Chats -> Binding] /\ undo \in Binding
        /\ up \in BOOLEAN /\ saving \in BOOLEAN
    BY <1>2, <1>3
  <2>5. chain \in Seq(Requests)
    BY EmptySeq
  <2>6. /\ req \in [Requests -> [chat : Chats, command : Commands] \cup {NoRequest}]
        /\ target \in [Requests -> Terminals \cup {None}]
        /\ result \in [Requests -> {"none", "ok", "denied"}] /\ outcomes \in [Requests -> {"none", "ok", "denied"}]
    OBVIOUS
  <2>7. live \subseteq Terminals /\ approval \subseteq live /\ intents \subseteq Requests /\ wrote \subseteq Requests
    OBVIOUS
  <2> QED
    BY <2>2, <2>3, <2>4, <2>5, <2>6, <2>7 DEF TypeOK, Places, Closures
<1>5. StoreOK
  BY DEF StoreOK, In, Once, MemoryIsFile
<1>6. PromptsOK /\ wrote \subseteq intents
  BY DEF PromptsOK
<1>7. ASSUME NEW r \in Requests PROVE RequestOK(r)
  BY DEF RequestOK
<1> QED
  BY <1>4, <1>5, <1>6, <1>7 DEF GatewayInv
-----------------------------------------------------------------------------
(* The chain of closures.                                                 *)
LEMMA ChainGrows ==
  ASSUME NEW s \in Seq(Requests), Once(s), NEW r \in Requests, r \notin In(s)
  PROVE  /\ Append(s, r) \in Seq(Requests) /\ Once(Append(s, r)) /\ In(Append(s, r)) = In(s) \cup {r}
         /\ Append(s, r) # <<>> /\ (s # <<>> => Head(Append(s, r)) = Head(s))
<1> DEFINE n == Len(s)
           e == Append(s, r)
<1>1. /\ n \in Nat /\ DOMAIN s = 1..n /\ e \in Seq(Requests) /\ DOMAIN e = 1..(n + 1) /\ e # <<>>
      /\ e[n + 1] = r /\ (\A i \in 1..n : e[i] = s[i]) /\ (s # <<>> => Head(e) = Head(s))
  BY LenProperties, AppendProperties, HeadTailAppend
<1> HIDE DEF n, e
<1>2. \A i \in 1..n : s[i] # r
  BY <1>1 DEF In
<1>3. Once(e)
  BY <1>1, <1>2 DEF Once
<1>4. In(e) = In(s) \cup {r}
  BY <1>1 DEF In
<1> QED
  BY <1>1, <1>3, <1>4 DEF e

LEMMA ChainShrinks ==
  ASSUME NEW s \in Seq(Requests), Once(s), s # <<>>
  PROVE  /\ Tail(s) \in Seq(Requests) /\ Once(Tail(s)) /\ In(Tail(s)) = In(s) \ {Head(s)}
         /\ Head(s) \in Requests /\ Head(s) \in In(s)
<1> DEFINE n == Len(s)
           e == Tail(s)
           h == Head(s)
<1>1. /\ n \in Nat \ {0} /\ DOMAIN s = 1..n /\ e \in Seq(Requests) /\ DOMAIN e = 1..(n - 1)
      /\ \A i \in 1..(n - 1) : e[i] = s[i + 1]
  BY LenProperties, HeadTailProperties, EmptySeq
<1>2. h = s[1] /\ h \in Requests
  BY HeadTailProperties
<1> HIDE DEF n, e, h
<1>3. Once(e)
  <2> SUFFICES ASSUME NEW i \in 1..(n - 1), NEW j \in 1..(n - 1), e[i] = e[j] PROVE i = j
    BY <1>1 DEF Once
  <2>1. i + 1 \in 1..n /\ j + 1 \in 1..n /\ s[i + 1] = s[j + 1]
    BY <1>1
  <2>2. i + 1 = j + 1
    BY <1>1, <2>1 DEF Once
  <2> QED
    BY <2>2
<1>4. In(e) = In(s) \ {h}
  <2>1. ASSUME NEW x \in In(e) PROVE x \in In(s) \ {h}
    BY <1>1, <1>2 DEF In, Once
  <2>2. ASSUME NEW x \in In(s) \ {h} PROVE x \in In(e)
    <3>1. PICK i \in 1..n : s[i] = x
      BY <1>1 DEF In
    <3>2. i # 1 /\ i - 1 \in 1..(n - 1) /\ e[i - 1] = s[i]
      BY <1>1, <1>2, <3>1
    <3> QED
      BY <1>1, <3>1, <3>2 DEF In
  <2> QED
    BY <2>1, <2>2
<1>5. h \in In(s)
  BY <1>1, <1>2 DEF In
<1> QED
  BY <1>1, <1>2, <1>3, <1>4, <1>5 DEF e, h
-----------------------------------------------------------------------------
(* What most steps leave alone.                                           *)
LEMMA SeenGrows ==
  ASSUME GatewayInv, Observe
  PROVE  /\ seen' \in [Requests -> SUBSET Terminals]
         /\ \A r \in Requests : InFlight(r) /\ pc'[r] \notin {"done", "gone"} =>
              seen'[r] = seen[r] \cup BoundTo(ChatOf(r))
<1>1. ASSUME NEW r \in Requests, InFlight(r)
      PROVE seen[r] \cup BoundTo(ChatOf(r)) \in SUBSET Terminals
  <2>1. ChatOf(r) \in Chats
    BY <1>1 DEF GatewayInv, RequestOK, InFlight, ChatOf
  <2>2. mem[ChatOf(r)] \in Binding /\ seen[r] \in SUBSET Terminals
    BY <2>1 DEF GatewayInv, TypeOK
  <2> QED
    BY <2>2 DEF BoundTo, Active, Binding
<1> QED
  BY <1>1 DEF Observe

LEMMA OneMoves ==
  ASSUME GatewayInv, Observe, NEW r \in Requests, RequestOK(r)', intents \subseteq intents',
         \A s \in Requests \ {r} :
           /\ pc'[s] = pc[s] /\ req'[s] = req[s] /\ target'[s] = target[s]
           /\ result'[s] = result[s] /\ outcomes'[s] = outcomes[s]
  PROVE  \A s \in Requests : RequestOK(s)'
<1> SUFFICES ASSUME NEW s \in Requests \ {r} PROVE RequestOK(s)'
  OBVIOUS
<1>1. pc'[s] \in {"check", "token", "act"} => seen[s] \subseteq seen'[s]
  BY SeenGrows DEF InFlight
<1> QED
  BY <1>1 DEF GatewayInv, RequestOK

LEMMA NobodyMoves ==
  ASSUME GatewayInv, Observe, UNCHANGED <<pc, req, target, result, outcomes, intents>>
  PROVE  \A s \in Requests : RequestOK(s)'
<1> SUFFICES ASSUME NEW s \in Requests PROVE RequestOK(s)'
  OBVIOUS
<1>1. pc'[s] \in {"check", "token", "act"} => seen[s] \subseteq seen'[s]
  BY SeenGrows DEF InFlight
<1> QED
  BY <1>1 DEF GatewayInv, RequestOK

LEMMA PromptsFrame ==
  ASSUME GatewayInv, UNCHANGED <<answers, asked>>, approval' \subseteq approval
  PROVE  PromptsOK'
<1> SUFFICES ASSUME NEW t \in Terminals
             PROVE IF t \in approval' THEN answers[t] < asked[t] ELSE answers[t] <= asked[t]
  BY DEF PromptsOK
<1>1. answers[t] \in Nat /\ asked[t] \in Nat
  BY GatewayAssumption DEF GatewayInv, TypeOK
<1> QED
  BY <1>1 DEF GatewayInv, PromptsOK

\* A request goes on, and may join the chain.
LEMMA ChainFrame ==
  ASSUME GatewayInv, NEW r \in Requests, pc[r] \notin Closures,
         \A s \in Requests \ {r} : pc'[s] = pc[s] /\ req'[s] = req[s],
         chain' = chain \/ (chain' = Append(chain, r) /\ pc'[r] \in Closures),
         UNCHANGED <<up, mem, disk, saving, undo>>
  PROVE  StoreOK'
<1>1. chain \in Seq(Requests) /\ Once(chain) /\ r \notin In(chain) /\ In(chain) \subseteq Requests
  BY LenProperties DEF GatewayInv, StoreOK, In
<1>2. chain # <<>> => Head(chain) \in In(chain)
  BY <1>1, ChainShrinks
<1>3. /\ chain' \in Seq(Requests) /\ Once(chain') /\ In(chain') \subseteq In(chain) \cup {r}
      /\ r \in In(chain') => pc'[r] \in Closures
      /\ chain # <<>> => chain' # <<>> /\ Head(chain') = Head(chain)
  BY <1>1, ChainGrows
<1>4. \A s \in In(chain') : pc'[s] \in Closures
  BY <1>1, <1>3 DEF GatewayInv, StoreOK
<1>5. saving => ChatOf(Head(chain))' = ChatOf(Head(chain))
  BY <1>1, <1>2, <1>3 DEF GatewayInv, StoreOK, ChatOf
<1> QED
  BY <1>3, <1>4, <1>5 DEF GatewayInv, StoreOK, MemoryIsFile

\* A closure returns.
LEMMA ChainReturns ==
  ASSUME GatewayInv, NEW r \in Requests, Running(r, Closures),
         \A s \in Requests \ {r} : pc'[s] = pc[s],
         chain' = Tail(chain), saving' = FALSE, up', mem' = disk'
  PROVE  StoreOK'
<1>1. chain' \in Seq(Requests) /\ Once(chain') /\ In(chain') = In(chain) \ {r}
  BY ChainShrinks DEF GatewayInv, StoreOK, Running
<1>2. In(chain) \subseteq Requests
  BY LenProperties DEF GatewayInv, StoreOK, In
<1> QED
  BY <1>1, <1>2 DEF GatewayInv, StoreOK, MemoryIsFile
-----------------------------------------------------------------------------
(* A request arrives, and is executed.                                    *)
LEMMA Types ==
  TypeOK <=>
    /\ now \in 0..MaxTime /\ up \in BOOLEAN /\ saving \in BOOLEAN
    /\ mem \in [Chats -> Binding] /\ disk \in [Chats -> Binding] /\ undo \in Binding
    /\ chain \in Seq(Requests)
    /\ live \subseteq Terminals /\ approval \subseteq live
    /\ pc \in [Requests -> Places]
    /\ req \in [Requests -> [chat : Chats, command : Commands] \cup {NoRequest}]
    /\ target \in [Requests -> Terminals \cup {None}]
    /\ expires \in [Requests -> 0..(MaxTime + Ttl)]
    /\ result \in [Requests -> {"none", "ok", "denied"}]
    /\ intents \subseteq Requests
    /\ outcomes \in [Requests -> {"none", "ok", "denied"}]
    /\ asked \in [Terminals -> 0..MaxPrompts] /\ answers \in [Terminals -> Nat]
    /\ wrote \subseteq Requests
    /\ seen \in [Requests -> SUBSET Terminals]
  BY DEF TypeOK, Places, Closures

LEMMA ForgetTypes ==
  ASSUME GatewayInv, NEW S \in SUBSET Requests, Forget(S)
  PROVE  /\ req' \in [Requests -> [chat : Chats, command : Commands] \cup {NoRequest}]
         /\ target' \in [Requests -> Terminals \cup {None}]
         /\ expires' \in [Requests -> 0..(MaxTime + Ttl)]
         /\ \A r \in Requests \ S : req'[r] = req[r] /\ target'[r] = target[r]
<1>1. 0 \in 0..(MaxTime + Ttl)
  BY GatewayAssumption
<1> QED
  BY <1>1 DEF Forget, GatewayInv, TypeOK

LEMMA ExecuteCases ==
  ASSUME GatewayInv, NEW r \in Requests, Execute(r)
  PROVE  \/ req[r].command = "bind" /\ Enqueue(r, "bind") /\ expires' = [expires EXCEPT ![r] = now + Ttl]
         \/ req[r].command = "unbind" /\ Enqueue(r, "unbind") /\ UNCHANGED expires
         \/ /\ req[r].command \notin {"bind", "unbind"} /\ Goto(r, "act") /\ UNCHANGED <<chain, expires>>
  BY DEF Execute

\* What goes on with an execution, or gives it up.
LEMMA GoesOn ==
  ASSUME GatewayInv, Observe, NEW r \in Requests, pc[r] \in {"intent", "check", "token"},
         NEW p \in {"check", "token", "act", "resolve", "bind", "unbind", "cleanup", "closing"},
         Goto(r, p), chain' = IF p \in Closures THEN Append(chain, r) ELSE chain,
         UNCHANGED <<now, up, mem, disk, saving, undo, terminalVars, outcomes, req, target>>,
         expires' \in [Requests -> 0..(MaxTime + Ttl)],
         result' \in [Requests -> {"none", "ok", "denied"}],
         \A s \in Requests \ {r} : result'[s] = result[s],
         intents \subseteq intents', intents' \subseteq Requests, r \in intents',
         p \in {"check", "token", "act", "bind", "unbind", "cleanup"} => target[r] \in Terminals,
         p \in {"act"} => req[r].command \notin {"bind", "unbind"},
         p \in {"check", "token", "act"} /\ req[r].command # "bind" => target[r] \in seen[r]
  PROVE  GatewayInv'
<1> USE DEF terminalVars
<1>1. /\ pc' \in [Requests -> Places] /\ pc'[r] = p /\ \A s \in Requests \ {r} : pc'[s] = pc[s]
      /\ pc[r] \notin Closures
  BY Types DEF Goto, Places, Closures, GatewayInv
<1>2. StoreOK'
  BY <1>1, ChainFrame
<1>3. seen' \in [Requests -> SUBSET Terminals] /\ seen[r] \subseteq seen'[r]
  BY <1>1, SeenGrows DEF InFlight
<1>4. TypeOK'
  <2>1. chain' \in Seq(Requests)
    BY <1>2 DEF StoreOK
  <2> QED
    BY <1>1, <1>3, <2>1 DEF GatewayInv, TypeOK, Places, Closures
<1>5. RequestOK(r)'
  BY <1>1, <1>3 DEF GatewayInv, RequestOK, Closures
<1>6. \A s \in Requests : RequestOK(s)'
  BY <1>1, <1>5, OneMoves
<1>7. PromptsOK'
  BY PromptsFrame
<1> QED
  BY <1>2, <1>4, <1>6, <1>7 DEF GatewayInv

LEMMA ArriveStep == ASSUME GatewayInv, Observe, NEW r \in Requests, Arrive(r) PROVE GatewayInv'
<1> USE DEF storeVars, terminalVars, auditVars
<1>1. PICK c \in Chats, m \in Commands :
        /\ req' = [req EXCEPT ![r] = [chat |-> c, command |-> m]]
        /\ \E t \in IF m = "bind" THEN Terminals ELSE {None} : target' = [target EXCEPT ![r] = t]
  BY DEF Arrive
<1>2. /\ pc[r] = "idle" /\ Goto(r, "intent")
      /\ UNCHANGED <<now, up, storeVars, terminalVars, auditVars, expires, result>>
  BY DEF Arrive
<1>3. /\ pc' \in [Requests -> Places] /\ pc'[r] = "intent" /\ \A s \in Requests \ {r} : pc'[s] = pc[s]
      /\ pc[r] \notin Closures
  BY <1>2, Types DEF Goto, Places, Closures, GatewayInv
<1>4. /\ req' \in [Requests -> [chat : Chats, command : Commands] \cup {NoRequest}]
      /\ req'[r] \in [chat : Chats, command : Commands] /\ req'[r].command = m
      /\ \A s \in Requests \ {r} : req'[s] = req[s]
  BY <1>1 DEF GatewayInv, TypeOK
<1>5. /\ target' \in [Requests -> Terminals \cup {None}] /\ (m = "bind" => target'[r] \in Terminals)
      /\ \A s \in Requests \ {r} : target'[s] = target[s]
  BY <1>1 DEF GatewayInv, TypeOK
<1>6. StoreOK'
  BY <1>2, <1>3, <1>4, ChainFrame
<1>7. TypeOK'
  BY <1>2, <1>3, <1>4, <1>5, SeenGrows DEF GatewayInv, TypeOK, Places, Closures
<1>8. RequestOK(r)'
  BY <1>3, <1>4, <1>5 DEF RequestOK
<1>9. \A s \in Requests : RequestOK(s)'
  BY <1>2, <1>3, <1>4, <1>5, <1>8, OneMoves
<1>10. PromptsOK'
  BY <1>2, PromptsFrame
<1> QED
  BY <1>2, <1>6, <1>7, <1>9, <1>10 DEF GatewayInv

\* A request is over.
LEMMA Leaves ==
  ASSUME GatewayInv, Observe, NEW r \in Requests, pc[r] \in {"intent", "closing"}, Goto(r, "done"), Forget({r}),
         UNCHANGED <<now, up, storeVars, terminalVars, intents>>,
         result' \in [Requests -> {"none", "ok", "denied"}], outcomes' \in [Requests -> {"none", "ok", "denied"}],
         result'[r] = "ok" => outcomes'[r] = "ok",
         \A s \in Requests \ {r} : result'[s] = result[s] /\ outcomes'[s] = outcomes[s]
  PROVE  GatewayInv'
<1> USE DEF storeVars, terminalVars
<1>1. /\ pc' \in [Requests -> Places] /\ pc'[r] = "done" /\ \A s \in Requests \ {r} : pc'[s] = pc[s]
      /\ pc[r] \notin Closures
  BY Types DEF Goto, Places, Closures, GatewayInv
<1>2. /\ req' \in [Requests -> [chat : Chats, command : Commands] \cup {NoRequest}]
      /\ target' \in [Requests -> Terminals \cup {None}]
      /\ expires' \in [Requests -> 0..(MaxTime + Ttl)]
      /\ \A s \in Requests \ {r} : req'[s] = req[s] /\ target'[s] = target[s]
  BY ForgetTypes
<1>3. StoreOK'
  BY <1>1, <1>2, ChainFrame
<1>4. TypeOK'
  BY <1>1, <1>2, SeenGrows DEF GatewayInv, TypeOK, Places, Closures
<1>5. RequestOK(r)'
  BY <1>1 DEF RequestOK
<1>6. \A s \in Requests : RequestOK(s)'
  BY <1>1, <1>2, <1>5, OneMoves
<1>7. PromptsOK'
  BY PromptsFrame
<1> QED
  BY <1>3, <1>4, <1>6, <1>7 DEF GatewayInv

LEMMA IntentStep == ASSUME GatewayInv, Observe, NEW r \in Requests, Intent(r) PROVE GatewayInv'
<1> USE DEF storeVars, terminalVars, IntentFrame
<1>1. pc[r] = "intent" /\ RequestOK(r) /\ UNCHANGED IntentFrame
  BY DEF Intent, GatewayInv
<1>2. CASE /\ intents' = intents \cup {r} /\ Start(r) /\ UNCHANGED <<req, target, expires, result>>
  <2>1. CASE req[r].command = "bind"
    BY <1>1, <1>2, <2>1, GoesOn DEF Start, Closures, GatewayInv, TypeOK, RequestOK
  <2>2. CASE req[r].command # "bind"
    BY <1>1, <1>2, <2>2, GoesOn DEF Start, Enqueue, Closures, GatewayInv, TypeOK
  <2> QED
    BY <2>1, <2>2
<1>3. CASE /\ Goto(r, "done") /\ result' = [result EXCEPT ![r] = "denied"]
           /\ Forget({r}) /\ UNCHANGED <<intents, chain>>
  BY <1>1, <1>3, Leaves DEF GatewayInv, TypeOK
<1> QED
  BY <1>2, <1>3 DEF Intent

LEMMA ExecuteStep ==
  ASSUME GatewayInv, Observe, NEW r \in Requests, pc[r] \in {"check", "token"}, Execute(r),
         UNCHANGED <<now, up, mem, disk, saving, undo, terminalVars, auditVars, req, target, result>>
  PROVE  GatewayInv'
<1> USE DEF auditVars
<1>1. /\ target[r] \in Terminals /\ r \in intents
      /\ req[r].command # "bind" => target[r] \in seen[r]
      /\ result \in [Requests -> {"none", "ok", "denied"}] /\ intents \subseteq Requests
      /\ expires \in [Requests -> 0..(MaxTime + Ttl)]
  BY DEF GatewayInv, RequestOK, TypeOK
<1>2. CASE req[r].command = "bind" /\ Enqueue(r, "bind") /\ expires' = [expires EXCEPT ![r] = now + Ttl]
  <2>1. now + Ttl \in 0..(MaxTime + Ttl)
    BY GatewayAssumption DEF GatewayInv, TypeOK
  <2>2. expires' \in [Requests -> 0..(MaxTime + Ttl)]
    BY <1>1, <1>2, <2>1
  <2> QED
    BY <1>1, <1>2, <2>2, GoesOn DEF Enqueue, Closures
<1>3. CASE req[r].command = "unbind" /\ Enqueue(r, "unbind") /\ UNCHANGED expires
  BY <1>1, <1>3, GoesOn DEF Enqueue, Closures
<1>4. CASE req[r].command \notin {"bind", "unbind"} /\ Goto(r, "act") /\ UNCHANGED <<chain, expires>>
  BY <1>1, <1>4, GoesOn DEF Closures
<1> QED
  BY <1>2, <1>3, <1>4, ExecuteCases

LEMMA CheckStep == ASSUME GatewayInv, Observe, NEW r \in Requests, Check(r) PROVE GatewayInv'
<1> USE DEF auditVars
<1>1. /\ pc[r] = "check" /\ target[r] \in Terminals /\ r \in intents
      /\ req[r].command # "bind" => target[r] \in seen[r]
      /\ result \in [Requests -> {"none", "ok", "denied"}] /\ intents \subseteq Requests
      /\ expires \in [Requests -> 0..(MaxTime + Ttl)]
      /\ UNCHANGED <<now, up, mem, disk, saving, undo, terminalVars, auditVars, req, target>>
  BY DEF Check, GatewayInv, RequestOK, TypeOK
<1>2. CASE Conclude(r, "denied") /\ UNCHANGED <<chain, expires>>
  BY <1>1, <1>2, GoesOn DEF Conclude, Closures
<1>3. CASE Enqueue(r, "cleanup") /\ UNCHANGED <<result, expires>>
  BY <1>1, <1>3, GoesOn DEF Enqueue, Closures
<1>4. CASE Goto(r, "token") /\ UNCHANGED <<chain, expires, result>>
  BY <1>1, <1>4, GoesOn DEF Closures
<1>5. CASE Execute(r) /\ UNCHANGED result
  BY <1>1, <1>5, ExecuteStep
<1> QED
  BY <1>2, <1>3, <1>4, <1>5 DEF Check

LEMMA TokenStep == ASSUME GatewayInv, Observe, NEW r \in Requests, Token(r) PROVE GatewayInv'
<1> USE DEF auditVars
<1>1. /\ pc[r] = "token" /\ target[r] \in Terminals /\ r \in intents
      /\ result \in [Requests -> {"none", "ok", "denied"}] /\ intents \subseteq Requests
      /\ expires \in [Requests -> 0..(MaxTime + Ttl)]
      /\ UNCHANGED <<now, up, mem, disk, saving, undo, terminalVars, auditVars, req, target>>
  BY DEF Token, GatewayInv, RequestOK, TypeOK
<1>2. CASE Conclude(r, "denied") /\ UNCHANGED <<chain, expires>>
  BY <1>1, <1>2, GoesOn DEF Conclude, Closures
<1>3. CASE Execute(r) /\ UNCHANGED result
  BY <1>1, <1>3, ExecuteStep
<1> QED
  BY <1>2, <1>3 DEF Token

LEMMA OutcomeStep == ASSUME GatewayInv, Observe, NEW r \in Requests, Outcome(r) PROVE GatewayInv'
<1>1. /\ pc[r] = "closing" /\ Goto(r, "done") /\ Forget({r})
      /\ UNCHANGED <<now, up, storeVars, terminalVars, intents>>
      /\ result \in [Requests -> {"none", "ok", "denied"}] /\ outcomes \in [Requests -> {"none", "ok", "denied"}]
  BY DEF Outcome, GatewayInv, TypeOK
<1>2. CASE outcomes' = [outcomes EXCEPT ![r] = result[r]] /\ UNCHANGED result
  BY <1>1, <1>2, Leaves
<1>3. CASE result' = [result EXCEPT ![r] = "denied"] /\ UNCHANGED outcomes
  BY <1>1, <1>3, Leaves
<1> QED
  BY <1>2, <1>3 DEF Outcome
-----------------------------------------------------------------------------
(* The effect on the terminal.                                            *)
LEMMA ActStep == ASSUME GatewayInv, Observe, NEW r \in Requests, Act(r) PROVE GatewayInv'
<1> USE DEF storeVars, auditVars
<1> DEFINE t == target[r]
<1>1. /\ pc[r] = "act" /\ t \in Terminals /\ r \in intents
      /\ UNCHANGED <<now, up, storeVars, live, asked, auditVars, req, target, expires>>
  BY DEF Act, GatewayInv, RequestOK
<1>2. PICK how \in {"ok", "denied"} : Conclude(r, how)
  BY DEF Act
<1>3. /\ wrote' \in {wrote, wrote \cup {r}}
      /\ \/ UNCHANGED <<approval, answers>>
         \/ t \in approval /\ Respond(t)
  BY DEF Act
<1> HIDE DEF t
<1>4. /\ pc' \in [Requests -> Places] /\ pc'[r] = "closing" /\ (\A s \in Requests \ {r} : pc'[s] = pc[s])
      /\ pc[r] \notin Closures
      /\ result' \in [Requests -> {"none", "ok", "denied"}] /\ \A s \in Requests \ {r} : result'[s] = result[s]
  BY <1>1, <1>2, Types DEF Conclude, Goto, Places, Closures, GatewayInv
<1>5. StoreOK'
  BY <1>1, <1>4, ChainFrame
<1>6. answers' \in [Terminals -> Nat] /\ approval' \subseteq approval
  <2>1. answers \in [Terminals -> Nat] /\ answers[t] + 1 \in Nat
    BY <1>1 DEF GatewayInv, TypeOK
  <2> QED
    BY <1>1, <1>3, <2>1 DEF Respond
<1>7. TypeOK'
  BY <1>1, <1>3, <1>4, <1>6, SeenGrows DEF GatewayInv, TypeOK, Places, Closures
<1>8. RequestOK(r)'
  BY <1>1, <1>4 DEF RequestOK, GatewayInv
<1>9. \A s \in Requests : RequestOK(s)'
  BY <1>1, <1>4, <1>8, OneMoves
<1>10. PromptsOK'
  <2>1. CASE UNCHANGED <<approval, answers>>
    BY <1>1, <2>1, PromptsFrame
  <2>2. CASE t \in approval /\ Respond(t)
    <3>1. answers[t] < asked[t] /\ answers[t] \in Nat /\ asked[t] \in Nat
      BY <1>1, <2>2, GatewayAssumption DEF GatewayInv, PromptsOK, TypeOK
    <3>2. answers'[t] = answers[t] + 1 /\ t \notin approval'
      BY <1>1, <2>2 DEF Respond, GatewayInv, TypeOK
    <3>3. \A u \in Terminals \ {t} : answers'[u] = answers[u] /\ (u \in approval' <=> u \in approval)
      BY <1>1, <2>2 DEF Respond, GatewayInv, TypeOK
    <3>4. IF t \in approval' THEN answers'[t] < asked[t] ELSE answers'[t] <= asked[t]
      BY <3>1, <3>2
    <3>5. \A u \in Terminals : IF u \in approval' THEN answers'[u] < asked[u] ELSE answers'[u] <= asked[u]
      BY <3>3, <3>4 DEF GatewayInv, PromptsOK
    <3> QED
      BY <1>1, <3>5 DEF PromptsOK
  <2> QED
    BY <1>3, <2>1, <2>2
<1> QED
  BY <1>1, <1>3, <1>5, <1>7, <1>9, <1>10 DEF GatewayInv
-----------------------------------------------------------------------------
(* The closures.                                                          *)
LEMMA HeadFacts ==
  ASSUME GatewayInv, NEW r \in Requests, Running(r, Closures)
  PROVE  /\ chain # <<>> /\ r = Head(chain) /\ r \in intents /\ up /\ ChatOf(r) \in Chats
         /\ pc[r] \in {"bind", "unbind", "cleanup"} => target[r] \in Terminals
         /\ mem[ChatOf(r)] \in Binding
         /\ mem[ChatOf(r)] # None => mem[ChatOf(r)].terminal \in Terminals
<1>1. ChatOf(r) \in Chats
  BY DEF Running, GatewayInv, RequestOK, Closures, ChatOf
<1>2. mem[ChatOf(r)] \in Binding
  BY <1>1 DEF GatewayInv, TypeOK
<1>3. mem[ChatOf(r)] # None => mem[ChatOf(r)].terminal \in Terminals
  BY <1>2 DEF Binding
<1> QED
  BY <1>1, <1>2, <1>3 DEF Running, GatewayInv, RequestOK, Closures

\* A closure returns, and its request goes on or concludes.
LEMMA Returned ==
  ASSUME GatewayInv, Observe, NEW r \in Requests, Running(r, Closures), NEW p \in {"check", "closing"},
         Goto(r, p), chain' = Tail(chain), saving' = FALSE, mem' = disk',
         mem' \in [Chats -> Binding], undo' \in Binding,
         UNCHANGED ClosureFrame, approval' \subseteq approval,
         result' \in [Requests -> {"none", "ok", "denied"}], \A s \in Requests \ {r} : result'[s] = result[s],
         target' \in [Requests -> Terminals \cup {None}], \A s \in Requests \ {r} : target'[s] = target[s],
         p = "check" => /\ target'[r] \in Terminals
                        /\ Active(mem[ChatOf(r)]) /\ target'[r] = mem[ChatOf(r)].terminal
  PROVE  GatewayInv'
<1> USE DEF ClosureFrame, auditVars
<1>1. /\ pc' \in [Requests -> Places] /\ pc'[r] = p /\ \A s \in Requests \ {r} : pc'[s] = pc[s]
      /\ pc[r] \in Closures
  BY Types DEF Goto, Places, Running, GatewayInv
<1>2. StoreOK'
  BY <1>1, ChainReturns DEF Running
<1>3. /\ seen' \in [Requests -> SUBSET Terminals]
      /\ seen'[r] = seen[r] \cup BoundTo(ChatOf(r))
  BY <1>1, SeenGrows DEF InFlight, Closures
<1>4. TypeOK'
  <2>1. chain' \in Seq(Requests)
    BY <1>2 DEF StoreOK
  <2>2. approval' \subseteq live /\ disk' \in [Chats -> Binding]
    BY DEF GatewayInv, TypeOK
  <2> QED
    BY <1>1, <1>3, <2>1, <2>2 DEF GatewayInv, TypeOK, Places, Closures
<1>5. RequestOK(r)'
  <2>1. p = "check" => target'[r] \in seen'[r]
    BY <1>3 DEF BoundTo
  <2> QED
    BY <1>1, <2>1, HeadFacts DEF GatewayInv, RequestOK, Closures
<1>6. \A s \in Requests : RequestOK(s)'
  BY <1>1, <1>5, OneMoves
<1>7. PromptsOK'
  BY PromptsFrame
<1> QED
  BY <1>2, <1>4, <1>6, <1>7 DEF GatewayInv

LEMMA ResolveStep == ASSUME GatewayInv, Observe, NEW r \in Requests, Resolve(r) PROVE GatewayInv'
<1>1. /\ Running(r, Closures) /\ ~saving /\ chain' = Tail(chain)
      /\ UNCHANGED <<mem, disk, saving, undo, approval, ClosureFrame>>
  BY DEF Resolve, Running, Closures
<1>2. mem = disk /\ up
  BY <1>1 DEF GatewayInv, StoreOK, MemoryIsFile, Running
<1>3. /\ result \in [Requests -> {"none", "ok", "denied"}] /\ target \in [Requests -> Terminals \cup {None}]
      /\ mem \in [Chats -> Binding] /\ undo \in Binding
  BY DEF GatewayInv, TypeOK
<1>4. CASE /\ Conclude(r, IF req[r].command = "status" THEN "ok" ELSE "denied") /\ UNCHANGED target
  <2>1. PICK how \in {"ok", "denied"} : Conclude(r, how)
    BY <1>4
  <2>2. /\ Goto(r, "closing") /\ result' \in [Requests -> {"none", "ok", "denied"}]
        /\ \A s \in Requests \ {r} : result'[s] = result[s]
    BY <1>3, <2>1 DEF Conclude
  <2>3. /\ mem' = disk' /\ saving' = FALSE /\ mem' \in [Chats -> Binding] /\ undo' \in Binding
        /\ target' = target /\ approval' = approval
    BY <1>1, <1>2, <1>3, <1>4
  <2> QED
    BY <1>1, <1>3, <2>2, <2>3, Returned
<1>5. CASE /\ Active(mem[ChatOf(r)]) /\ Goto(r, "check")
           /\ target' = [target EXCEPT ![r] = mem[ChatOf(r)].terminal] /\ UNCHANGED result
  <2>1. mem[ChatOf(r)].terminal \in Terminals
    BY <1>1, <1>5, HeadFacts DEF Active
  <2>2. /\ target' \in [Requests -> Terminals \cup {None}] /\ target'[r] = mem[ChatOf(r)].terminal
        /\ \A s \in Requests \ {r} : target'[s] = target[s]
    BY <1>3, <1>5, <2>1
  <2>3. mem' = disk' /\ saving' = FALSE /\ mem' \in [Chats -> Binding] /\ undo' \in Binding
    BY <1>1, <1>2, <1>3 DEF GatewayInv, TypeOK
  <2> QED
    BY <1>1, <1>3, <1>5, <2>1, <2>2, <2>3, Returned
<1> QED
  BY <1>1, <1>4, <1>5 DEF Resolve

LEMMA ReturnStep ==
  ASSUME GatewayInv, Observe, NEW r \in Requests, Running(r, Closures), Return(r),
         saving' = FALSE, mem' = disk', UNCHANGED <<mem, target, ClosureFrame>>, undo' \in Binding
  PROVE  GatewayInv'
<1>1. PICK how \in {"ok", "denied"} : Conclude(r, how)
  BY DEF Return
<1>2. chain' = Tail(chain) /\ approval' \subseteq approval
  BY DEF Return
<1>3. /\ result' \in [Requests -> {"none", "ok", "denied"}] /\ \A s \in Requests \ {r} : result'[s] = result[s]
      /\ mem \in [Chats -> Binding] /\ target \in [Requests -> Terminals \cup {None}]
  BY <1>1 DEF Conclude, GatewayInv, TypeOK
<1> QED
  BY <1>1, <1>2, <1>3, Returned DEF Conclude

LEMMA SavedStep ==
  ASSUME GatewayInv, Observe, NEW r \in Requests, Saved(r) \/ NothingToDrop(r) PROVE GatewayInv'
<1>1. Running(r, Closures) /\ Return(r) /\ saving' = FALSE /\ UNCHANGED <<mem, target, ClosureFrame>>
  BY DEF Saved, NothingToDrop, Running, Closures
<1>2. mem' = disk' /\ undo' \in Binding
  BY <1>1 DEF Saved, NothingToDrop, GatewayInv, StoreOK, MemoryIsFile, TypeOK, Binding, Running
<1> QED
  BY <1>1, <1>2, ReturnStep

LEMMA SaveFailsStep == ASSUME GatewayInv, Observe, NEW r \in Requests, SaveFails(r) PROVE GatewayInv'
<1>1. /\ Running(r, Closures) /\ saving /\ mem' = [mem EXCEPT ![ChatOf(r)] = undo]
      /\ saving' = FALSE /\ undo' = None /\ chain' = Tail(chain) /\ Conclude(r, "denied")
      /\ UNCHANGED <<disk, approval, target, ClosureFrame>>
  BY DEF SaveFails, Running, Closures
<1>2. mem' = disk
  BY <1>1 DEF GatewayInv, StoreOK, Running
<1>3. /\ result' \in [Requests -> {"none", "ok", "denied"}] /\ \A s \in Requests \ {r} : result'[s] = result[s]
      /\ mem' \in [Chats -> Binding] /\ target \in [Requests -> Terminals \cup {None}] /\ undo' \in Binding
  BY <1>1, <1>2 DEF Conclude, GatewayInv, TypeOK, Binding
<1> QED
  BY <1>1, <1>2, <1>3, Returned DEF Conclude

LEMMA ChangeStep == ASSUME GatewayInv, Observe, NEW r \in Requests, Change(r) PROVE GatewayInv'
<1> USE DEF ClosureFrame, auditVars
<1> DEFINE c == ChatOf(r)
<1>1. /\ Running(r, Closures) /\ ~saving /\ saving' = TRUE /\ undo' = mem[c]
      /\ UNCHANGED <<disk, chain, approval, pc, result, ClosureFrame>>
  BY DEF Change, Running, Closures
<1>2. /\ chain # <<>> /\ r = Head(chain) /\ up /\ c \in Chats /\ mem[c] \in Binding
      /\ pc[r] = "bind" => target[r] \in Terminals
      /\ mem[c] # None => mem[c].terminal \in Terminals
  BY <1>1, HeadFacts
<1>3. PICK b \in Binding : mem' = [mem EXCEPT ![c] = b]
  <2>1. [terminal |-> target[r], expires |-> expires[r]] \in Binding \/ pc[r] # "bind"
    BY <1>2 DEF GatewayInv, TypeOK, Binding
  <2>2. None \in Binding
    BY DEF Binding
  <2> QED
    BY <2>1, <2>2 DEF Change, Running
<1>4. /\ target' \in [Requests -> Terminals \cup {None}] /\ \A s \in Requests \ {r} : target'[s] = target[s]
      /\ target'[r] = target[r] \/ pc[r] = "resolve"
  BY <1>2 DEF Change, Running, GatewayInv, TypeOK
<1> HIDE DEF c
<1>5. mem = disk /\ mem \in [Chats -> Binding]
  BY <1>1, <1>2 DEF GatewayInv, StoreOK, MemoryIsFile, TypeOK
<1>6. mem' \in [Chats -> Binding] /\ disk = [mem' EXCEPT ![c] = undo']
  BY <1>1, <1>2, <1>3, <1>5
<1>7. StoreOK'
  <2>1. ChatOf(Head(chain))' = c
    BY <1>1, <1>2 DEF c, ChatOf
  <2> QED
    BY <1>1, <1>2, <1>6, <2>1 DEF GatewayInv, StoreOK, MemoryIsFile
<1>8. TypeOK'
  BY <1>1, <1>2, <1>4, <1>6, SeenGrows DEF GatewayInv, TypeOK
<1>9. RequestOK(r)'
  BY <1>1, <1>4 DEF GatewayInv, RequestOK, Running, Closures
<1>10. \A s \in Requests : RequestOK(s)'
  BY <1>1, <1>4, <1>9, OneMoves
<1>11. PromptsOK'
  BY <1>1, PromptsFrame
<1> QED
  BY <1>1, <1>7, <1>8, <1>10, <1>11 DEF GatewayInv
-----------------------------------------------------------------------------
(* Terminals, the process and the clock.                                  *)
LEMMA TerminalStep ==
  ASSUME GatewayInv, Observe, PromptsOK', approval' \subseteq live', live' \subseteq live,
         asked' \in [Terminals -> 0..MaxPrompts],
         UNCHANGED <<now, up, storeVars, answers, wrote, auditVars, pc, req, target, expires, result>>
  PROVE  GatewayInv'
<1> USE DEF storeVars, auditVars
<1>1. StoreOK'
  BY DEF GatewayInv, StoreOK, MemoryIsFile, ChatOf
<1>2. TypeOK'
  BY SeenGrows DEF GatewayInv, TypeOK
<1>3. \A s \in Requests : RequestOK(s)'
  BY NobodyMoves
<1> QED
  BY <1>1, <1>2, <1>3 DEF GatewayInv

LEMMA PromptStep == ASSUME GatewayInv, Observe, NEW t \in Terminals, Prompt(t) PROVE GatewayInv'
<1>1. /\ t \in live /\ asked[t] < MaxPrompts /\ asked' = [asked EXCEPT ![t] = asked[t] + 1]
      /\ approval' = approval \cup {t}
      /\ UNCHANGED <<now, up, storeVars, live, answers, wrote, auditVars, pc, req, target, expires, result>>
  BY DEF Prompt
<1>2. asked \in [Terminals -> 0..MaxPrompts] /\ answers \in [Terminals -> Nat]
  BY DEF GatewayInv, TypeOK
<1>3. asked[t] + 1 \in 0..MaxPrompts /\ asked[t] \in Nat /\ answers[t] \in Nat
  BY <1>1, <1>2, GatewayAssumption
<1>4. /\ asked' \in [Terminals -> 0..MaxPrompts] /\ asked'[t] = asked[t] + 1
      /\ \A u \in Terminals \ {t} : asked'[u] = asked[u] /\ (u \in approval' <=> u \in approval)
  BY <1>1, <1>2, <1>3
<1>5. answers[t] <= asked[t]
  BY <1>3 DEF GatewayInv, PromptsOK
<1>6. answers[t] < asked'[t]
  BY <1>3, <1>4, <1>5
<1>7. PromptsOK'
  BY <1>1, <1>4, <1>6 DEF GatewayInv, PromptsOK
<1>8. approval' \subseteq live'
  BY <1>1 DEF GatewayInv, TypeOK
<1> QED
  BY <1>1, <1>4, <1>7, <1>8, TerminalStep

LEMMA EndsStep ==
  ASSUME GatewayInv, Observe, NEW t \in Terminals, TurnEnds(t) \/ TerminalExits(t) PROVE GatewayInv'
<1>1. /\ UNCHANGED <<now, up, storeVars, asked, answers, wrote, auditVars, pc, req, target, expires, result>>
      /\ approval' = approval \ {t} /\ live' \subseteq live /\ live \ {t} \subseteq live'
  BY DEF TurnEnds, TerminalExits
<1>2. PromptsOK'
  BY <1>1, PromptsFrame
<1> QED
  BY <1>1, <1>2, TerminalStep DEF GatewayInv, TypeOK

LEMMA CrashStep == ASSUME GatewayInv, Observe, Crash PROVE GatewayInv'
<1> USE DEF Crash, auditVars
<1> DEFINE S == {r \in Requests : InFlight(r)}
<1>1. /\ req' \in [Requests -> [chat : Chats, command : Commands] \cup {NoRequest}]
      /\ target' \in [Requests -> Terminals \cup {None}]
      /\ expires' \in [Requests -> 0..(MaxTime + Ttl)]
  BY ForgetTypes
<1>2. pc' \in [Requests -> Places] /\ \A r \in Requests : pc'[r] \in {"idle", "done", "gone"}
  BY Types DEF GatewayInv, InFlight, Places
<1>3. /\ mem' \in [Chats -> Binding] /\ disk' \in [Chats -> Binding] /\ undo' \in Binding
      /\ up' = FALSE /\ saving' = FALSE /\ chain' = <<>>
      /\ UNCHANGED <<now, asked, answers, wrote, intents, outcomes>> /\ live' = {} /\ approval' = {}
  BY DEF GatewayInv, TypeOK, Binding
<1>4. result' \in [Requests -> {"none", "ok", "denied"}]
  BY DEF GatewayInv, TypeOK
<1>5. chain' \in Seq(Requests)
  BY <1>3, EmptySeq
<1>6. StoreOK'
  BY <1>3, <1>5 DEF StoreOK, In, Once, MemoryIsFile
<1>7. TypeOK'
  <2>1. seen' \in [Requests -> SUBSET Terminals]
    BY SeenGrows
  <2> QED
    BY <1>1, <1>2, <1>3, <1>4, <1>5, <2>1 DEF GatewayInv, TypeOK, Places, Closures
<1>8. ASSUME NEW r \in Requests PROVE RequestOK(r)'
  <2>1. pc'[r] = "done" => pc[r] = "done" /\ result'[r] = result[r]
    BY DEF GatewayInv, TypeOK, InFlight
  <2> QED
    BY <1>2, <1>3, <2>1 DEF GatewayInv, RequestOK
<1>9. PromptsOK'
  BY <1>3, PromptsFrame
<1> QED
  BY <1>3, <1>6, <1>7, <1>8, <1>9 DEF GatewayInv

LEMMA RestartStep == ASSUME GatewayInv, Observe, Restart PROVE GatewayInv'
<1> USE DEF Restart, terminalVars, auditVars
<1>1. StoreOK'
  BY DEF GatewayInv, StoreOK, MemoryIsFile
<1>2. TypeOK'
  BY SeenGrows DEF GatewayInv, TypeOK
<1>3. \A s \in Requests : RequestOK(s)'
  BY NobodyMoves
<1>4. PromptsOK'
  BY PromptsFrame
<1> QED
  BY <1>1, <1>2, <1>3, <1>4 DEF GatewayInv

LEMMA TickStep == ASSUME GatewayInv, Observe, Tick PROVE GatewayInv'
<1> USE DEF Tick, storeVars, terminalVars, auditVars
<1>1. StoreOK'
  BY DEF GatewayInv, StoreOK, MemoryIsFile, ChatOf
<1>2. now' \in 0..MaxTime
  BY GatewayAssumption DEF GatewayInv, TypeOK
<1>3. TypeOK'
  BY <1>2, SeenGrows DEF GatewayInv, TypeOK
<1>4. \A s \in Requests : RequestOK(s)'
  BY NobodyMoves
<1>5. PromptsOK'
  BY PromptsFrame
<1> QED
  BY <1>1, <1>3, <1>4, <1>5 DEF GatewayInv

LEMMA StutterStep == ASSUME GatewayInv, UNCHANGED vars PROVE GatewayInv'
<1> USE DEF vars, storeVars, terminalVars, auditVars
<1>1. TypeOK' /\ PromptsOK' /\ (wrote \subseteq intents)'
  BY DEF GatewayInv, TypeOK, PromptsOK
<1>2. StoreOK'
  BY DEF GatewayInv, StoreOK, MemoryIsFile, ChatOf
<1>3. \A s \in Requests : RequestOK(s)'
  BY DEF GatewayInv, RequestOK
<1> QED
  BY <1>1, <1>2, <1>3 DEF GatewayInv

LEMMA GatewayInvStep == GatewayInv /\ [Next]_vars => GatewayInv'
<1> SUFFICES ASSUME GatewayInv, [Next]_vars PROVE GatewayInv'
  OBVIOUS
<1>1. CASE UNCHANGED vars
  BY <1>1, StutterStep
<1>2. CASE Next
  <2>1. Observe
    BY <1>2 DEF Next
  <2>2. ASSUME NEW r \in Requests, Arrive(r) \/ RequestStep(r) PROVE GatewayInv'
    <3>1. CASE Arrive(r) \/ Intent(r) \/ Check(r) \/ Token(r) \/ Act(r) \/ Outcome(r)
      BY <2>1, <3>1, ArriveStep, IntentStep, CheckStep, TokenStep, ActStep, OutcomeStep
    <3>2. CASE Resolve(r) \/ Change(r) \/ Saved(r) \/ NothingToDrop(r) \/ SaveFails(r)
      BY <2>1, <3>2, ResolveStep, ChangeStep, SavedStep, SaveFailsStep
    <3> QED
      BY <2>2, <3>1, <3>2 DEF RequestStep
  <2>3. ASSUME NEW t \in Terminals, Prompt(t) \/ TurnEnds(t) \/ TerminalExits(t) PROVE GatewayInv'
    BY <2>1, <2>3, PromptStep, EndsStep
  <2>4. CASE Crash \/ Restart \/ Tick
    BY <2>1, <2>4, CrashStep, RestartStep, TickStep
  <2> QED
    BY <1>2, <2>2, <2>3, <2>4 DEF Next, Step
<1> QED
  BY <1>1, <1>2

LEMMA GatewayAlways == Spec => []GatewayInv
  BY GatewayInvInit, GatewayInvStep, PTL DEF Spec

\* For any requests that answer the prompts of any terminals, whichever chats are bound to
\* them, a prompt is answered at most once.
THEOREM PromptsAnsweredOnce == Spec => []AnsweredOnce
<1>1. GatewayInv => AnsweredOnce
  <2> SUFFICES ASSUME GatewayInv, NEW t \in Terminals PROVE answers[t] <= asked[t]
    BY DEF AnsweredOnce
  <2>1. answers[t] \in Nat /\ asked[t] \in Nat
    BY GatewayAssumption DEF GatewayInv, TypeOK
  <2> QED
    BY <2>1 DEF GatewayInv, PromptsOK
<1> QED
  BY <1>1, GatewayAlways, PTL

\* Whatever saves and records fail, and whenever the process dies: nothing is done without a
\* record of the intent, no success is told without a record of it, and a restart
\* finds the bindings that were acknowledged.
THEOREM AlwaysRecorded == Spec => []Recorded
<1>1. GatewayInv => Recorded
  BY DEF GatewayInv, Recorded, Audited, RequestOK, StoreOK
<1> QED
  BY <1>1, GatewayAlways, PTL

\* Whatever is bound, unbound or expires while a request is under way, what it writes goes
\* to a terminal that its chat was bound to meanwhile.
THEOREM AlwaysRoutedToBound == Spec => RoutedToBound
<1>1. GatewayInv /\ [Next]_vars => [\A r \in wrote' \ wrote : target[r] \in seen[r]]_vars
  <2> SUFFICES ASSUME GatewayInv, Next PROVE \A r \in wrote' \ wrote : target[r] \in seen[r]
    OBVIOUS
  <2>1. ASSUME NEW r \in Requests, Act(r) PROVE \A s \in wrote' \ wrote : target[s] \in seen[s]
    <3>1. wrote' \subseteq wrote \cup {r}
      BY <2>1 DEF Act
    <3>2. target[r] \in seen[r]
      BY <2>1 DEF Act, GatewayInv, RequestOK
    <3> QED
      BY <3>1, <3>2
  <2>2. CASE UNCHANGED wrote
    BY <2>2
  <2>3. UNCHANGED wrote \/ \E r \in Requests : Act(r)
    BY DEF Next, Step, RequestStep, Arrive, Intent, IntentFrame, Check, Token, Outcome, Resolve, Change, Saved,
       NothingToDrop, SaveFails, ClosureFrame, Prompt, TurnEnds, TerminalExits, Crash, Restart, Tick, terminalVars
  <2> QED
    BY <2>1, <2>2, <2>3
<1> QED
  BY <1>1, GatewayAlways, PTL DEF Spec, RoutedToBound
-----------------------------------------------------------------------------
(* JanusChat *)

Begins(c) == c.kind \in {"start", "compact"}
Steers(c, m) == c.kind = "steer" /\ c.message = m
Ends(e) == e.kind \in {"end", "error", "busy", "done"}
At(s) == 1..Len(s)
Simple(s) == \A i, k \in At(s) : s[i] = s[k] => i = k

CallRecord ==
  [kind: {"start", "compact", "abort", "steer", "cancel"}, id: 0..MaxRequests, message: 0..MaxMessages]
EventRecord ==
  [kind: {"consumed", "state", "end", "error", "busy", "done"}, id: ChatRequests, keys: SUBSET Messages]
ReplyRecord == [kind: {"accepted", "full", "refused", "cancelled", "kept"}, message: Messages]
RequestRecord ==
  [id: 0..MaxRequests, kind: {"chat", "compact"}, user: Messages \cup {0},
   stage: {"idle", "sessions", "provider", "listening"}, recovery: BOOLEAN, heard: BOOLEAN]
TurnRecord ==
  [id: 0..MaxRequests, kind: {"chat", "compact"}, phase: {"none", "running", "reported", "closing"},
   aborted: BOOLEAN, port: Seq(Messages)]

\* Every variable has its type, and no message or request is named before it is made.
ChatTyped ==
  /\ thread \in Seq(Messages) /\ resends \in Seq(Messages) /\ written \in 0..MaxMessages
  /\ removed \subseteq Messages /\ badges \subseteq 1..written
  /\ calls \in Seq(CallRecord) /\ events \in Seq(EventRecord) /\ replies \in Seq(ReplyRecord)
  /\ request \in RequestRecord /\ turn \in TurnRecord
  /\ prompts \in [ChatRequests -> SUBSET Messages] /\ taken \in [ChatRequests -> SUBSET Messages]

Named ==
  /\ \A c \in Elements(calls) :
       /\ c.kind \in {"steer", "cancel"} => c.message \in 1..written
       /\ c.kind \in {"start", "compact", "abort"} => c.id \in 1..request.id
  /\ \A e \in Elements(events) : e.id \in 1..request.id
  /\ turn.id <= request.id /\ (turn.id = 0 => turn.port = <<>>)
  /\ \A r \in ChatRequests : prompts[r] \subseteq 1..written
  /\ \A r \in ChatRequests : r > request.id => prompts[r] = {} /\ taken[r] = {}

\* No message is steered, answered or taken before it is written.
Numbered ==
  /\ Elements(turn.port) \subseteq 1..written
  /\ \A a \in Elements(replies) : a.message \in 1..written
  /\ \A r \in ChatRequests : taken[r] \subseteq 1..written

\* Each message is in one place of the conversation or of the resends, until it is removed.
OnePlace ==
  /\ Simple(thread) /\ Simple(resends) /\ Elements(thread) \cap Elements(resends) = {}
  /\ Elements(thread) \cup Elements(resends) \subseteq 1..written
  /\ \A m \in 1..written : m \notin removed => m \in Elements(thread) \cup Elements(resends)

Steered(m) == \E c \in Elements(calls) : Steers(c, m)
Replied(kind, m) == \E a \in Elements(replies) : a.kind = kind /\ a.message = m
Untaken(m) == \A r \in ChatRequests : m \notin taken[r]

\* A message that steers is on its way, or waits for the turn, or was taken, refused or taken
\* back: of these only one.
OneFate ==
  /\ \A i, k \in At(calls) : calls[i].kind = "steer" /\ Steers(calls[k], calls[i].message) => i = k
  /\ \A i, k \in At(replies) :
       replies[i].kind = "refused" /\ replies[k].kind = "refused" /\ replies[i].message = replies[k].message => i = k
  /\ Simple(turn.port)
  /\ \A m \in Messages : Steered(m) \/ m \in Elements(turn.port) =>
       ~Replied("refused", m) /\ ~Replied("cancelled", m) /\ Untaken(m)
  /\ \A m \in Messages : Steered(m) => m \notin Elements(turn.port)
  /\ \A m \in Messages : Steered(m) \/ Replied("refused", m) => m \notin Elements(resends)
  /\ \A m \in Messages : Replied("cancelled", m) => Untaken(m)

\* A request that was told a message in its conversation begins after the turn that the message
\* steers, or does not steer.
ToldBehind ==
  /\ ToldOnce
  /\ \A m \in Elements(turn.port), r \in ChatRequests : m \in prompts[r] => turn.id # r
  /\ \A i \in At(calls) : calls[i].kind = "steer" =>
       \A r \in ChatRequests : calls[i].message \in prompts[r] =>
         turn.id # r /\ \A k \in 1..i : ~ (Begins(calls[k]) /\ calls[k].id = r)

\* What is under way for the request of the window.
Mine(e) == e.id = request.id
NotYet ==
  request.stage \in {"sessions", "provider"} =>
    /\ turn.id # request.id /\ ~request.heard
    /\ \A c \in Elements(calls) : Begins(c) => ~Mine(c)
    /\ \A e \in Elements(events) : ~Mine(e)
ChatOnly ==
  request.kind = "chat" =>
    /\ turn.id = request.id => turn.kind = "chat"
    /\ \A c \in Elements(calls) : Mine(c) => c.kind # "compact"
    /\ \A e \in Elements(events) : Mine(e) => e.kind \notin {"state", "done"}
OneBegins(cs, r) ==
  \A i, k \in At(cs) : Begins(cs[i]) /\ cs[i].id = r /\ Begins(cs[k]) /\ cs[k].id = r => i = k
BeginsOnce ==
  /\ OneBegins(calls, request.id)
  /\ (\E c \in Elements(calls) : Begins(c) /\ Mine(c)) =>
       ~request.heard /\ turn.id # request.id /\ \A e \in Elements(events) : ~Mine(e)
BusyAlone ==
  (\E e \in Elements(events) : Mine(e) /\ e.kind = "busy") =>
    ~request.heard /\ turn.id # request.id /\ \A e \in Elements(events) : Mine(e) => e.kind = "busy"
AbortsIdle ==
  /\ \A c \in Elements(calls) : c.kind = "abort" /\ Mine(c) => Idle
  /\ TurnRuns /\ turn.id = request.id /\ turn.aborted => Idle
EndComes ==
  TurnRuns /\ turn.id = request.id /\ turn.phase = "closing" /\ request.stage = "listening" =>
    \E e \in Elements(events) : Mine(e) /\ e.kind = "end"
RequestUnderWay ==
  /\ request.stage # "idle" => request.id # 0
  /\ NotYet /\ ChatOnly /\ BeginsOnce /\ BusyAlone /\ AbortsIdle /\ EndComes /\ NoStaleBadge /\ AnswersHeard

\* The inductive invariant.
ChatInv == ChatTyped /\ Named /\ Numbered /\ OnePlace /\ OneFate /\ ToldBehind /\ RequestUnderWay
-----------------------------------------------------------------------------
LEMMA ElementsAt ==
  ASSUME NEW S, NEW s \in Seq(S)
  PROVE  /\ Len(s) \in Nat /\ DOMAIN s = At(s) /\ Elements(s) \subseteq S
         /\ \A i \in At(s) : s[i] \in S /\ s[i] \in Elements(s)
         /\ \A x : x \in Elements(s) <=> \E i \in At(s) : s[i] = x
BY DEF Elements, At

\* t is s with one element more at the end; t is s without its first element.
Grown(S, s, e, t) ==
  /\ t \in Seq(S) /\ Len(t) = Len(s) + 1 /\ Len(s) \in Nat /\ t[Len(s) + 1] = e /\ Len(s) + 1 \in At(t)
  /\ \A i \in At(s) : i \in At(t) /\ t[i] = s[i]
  /\ \A i \in At(t) : i # Len(s) + 1 => i \in At(s)
  /\ Elements(t) = Elements(s) \cup {e}
Shrunk(S, s, t) ==
  /\ t \in Seq(S) /\ 1 \in At(s) /\ Head(s) = s[1] /\ s[1] \in S
  /\ \A i \in At(t) : i + 1 \in At(s) /\ t[i] = s[i + 1] /\ i \in Nat /\ i >= 1
  /\ \A i \in At(s) : i # 1 => i - 1 \in At(t) /\ t[i - 1] = s[i]
  /\ Elements(s) = Elements(t) \cup {Head(s)}

LEMMA AppendIs ==
  ASSUME NEW S, NEW s \in Seq(S), NEW e \in S, NEW t, t = Append(s, e)
  PROVE  Grown(S, s, e, t)
<1>1. t \in Seq(S) /\ Len(t) = Len(s) + 1 /\ Len(s) \in Nat /\ t[Len(s) + 1] = e
  BY AppendProperties
<1>2. \A i \in 1..Len(s) : t[i] = s[i]
  BY AppendProperties
<1>3. /\ \A i \in At(s) : i \in At(t)
      /\ \A i \in At(t) : i # Len(s) + 1 => i \in At(s)
      /\ Len(s) + 1 \in At(t)
  BY <1>1 DEF At
<1>4. Elements(t) = Elements(s) \cup {e}
  BY <1>1, <1>2, <1>3 DEF Elements, At
<1> QED
  BY <1>1, <1>2, <1>3, <1>4 DEF At, Grown

LEMMA TailIs ==
  ASSUME NEW S, NEW s \in Seq(S), s # <<>>, NEW t, t = Tail(s)
  PROVE  Shrunk(S, s, t)
<1>1. t \in Seq(S) /\ Len(t) = Len(s) - 1 /\ Head(s) = s[1] /\ Head(s) \in S /\ Len(s) \in Nat /\ Len(s) # 0
  BY HeadTailProperties, EmptySeq
<1>2. \A i \in 1..Len(t) : t[i] = s[i + 1]
  BY HeadTailProperties
<1> DEFINE m == Len(s)
<1>3. m \in Nat /\ m # 0 /\ Len(t) = m - 1 /\ Len(s) = m
  BY <1>1
<1> HIDE DEF m
<1>4. /\ 1 \in At(s)
      /\ \A i \in At(t) : i + 1 \in At(s) /\ i \in Nat /\ i >= 1
      /\ \A i \in At(s) : i # 1 => i - 1 \in At(t) /\ (i - 1) + 1 = i
  BY <1>3 DEF At
<1>5. \A i \in At(s) : i # 1 => t[i - 1] = s[i]
  BY <1>2, <1>4 DEF At
<1>6. Elements(s) = Elements(t) \cup {Head(s)}
  <2>1. ASSUME NEW x \in Elements(s) PROVE x \in Elements(t) \cup {Head(s)}
    <3>1. PICK i \in At(s) : s[i] = x
      BY <2>1 DEF Elements, At
    <3>2. i # 1 => i - 1 \in 1..Len(t) /\ t[i - 1] = x
      BY <1>4, <1>5, <3>1 DEF At
    <3> QED
      BY <1>1, <3>1, <3>2 DEF Elements
  <2>2. ASSUME NEW x \in Elements(t) PROVE x \in Elements(s)
    <3>1. PICK i \in At(t) : t[i] = x
      BY <2>2 DEF Elements, At
    <3> QED
      BY <1>2, <1>4, <3>1 DEF Elements, At
  <2>3. Head(s) \in Elements(s)
    BY <1>1, <1>4 DEF Elements, At
  <2> QED
    BY <2>1, <2>2, <2>3
<1> QED
  BY <1>1, <1>2, <1>4, <1>5, <1>6 DEF At, Shrunk

\* What is taken out of a sequence without repetitions is gone, and the rest stays.
LEMMA WithoutIs ==
  ASSUME NEW S, NEW s \in Seq(S), Simple(s), NEW m
  PROVE  /\ Without(s, m) \in Seq(S) /\ Simple(Without(s, m))
         /\ Elements(Without(s, m)) = Elements(s) \ {m}
<1>1. CASE m \notin Elements(s)
  BY <1>1 DEF Without
<1>2. CASE m \in Elements(s)
  <2> DEFINE n == Len(s)
             k == PlaceOf(s, m)
             a == SubSeq(s, 1, k - 1)
             b == SubSeq(s, k + 1, n)
             t == a \o b
  <2>1. \E i \in 1..n : s[i] = m
    BY <1>2 DEF Elements
  <2>2. k \in 1..n /\ s[k] = m
    BY <2>1 DEF PlaceOf
  <2>3. n \in Nat /\ \A i \in 1..n : s[i] \in S
    OBVIOUS
  <2>4. t = Without(s, m)
    BY <1>2 DEF Without
  <2> HIDE DEF n, k
  <2>5. a \in Seq(S) /\ Len(a) = k - 1 /\ \A i \in 1..(k - 1) : a[i] = s[i]
    <3>1. 1 \in 1..(n + 1) /\ k - 1 \in 0..n /\ \A i \in 1..(k - 1) : i \in 1..n
      BY <2>2, <2>3
    <3> QED
      BY <2>2, <2>3, <3>1, SubSeqProperties DEF n
  <2>6. b \in Seq(S) /\ Len(b) = n - k /\ \A i \in 1..(n - k) : b[i] = s[k + i]
    <3>1. k + 1 \in 1..(n + 1) /\ \A i \in 1..(n - k) : (k + 1) + i - 1 = k + i
      BY <2>2, <2>3
    <3> QED
      BY <2>2, <2>3, <3>1, SubSeqProperties DEF n
  <2> HIDE DEF a, b
  <2>7. t \in Seq(S) /\ Len(t) = n - 1
    <3>1. Len(t) = Len(a) + Len(b) /\ t \in Seq(S)
      BY <2>5, <2>6, ConcatProperties
    <3> QED
      BY <2>2, <2>3, <2>5, <2>6, <3>1
  <2>8. \A i \in 1..(n - 1) : t[i] = IF i < k THEN s[i] ELSE s[i + 1]
    <3> SUFFICES ASSUME NEW i \in 1..(n - 1) PROVE t[i] = IF i < k THEN s[i] ELSE s[i + 1]
      OBVIOUS
    <3>1. t[i] = IF i <= Len(a) THEN a[i] ELSE b[i - Len(a)]
      BY <2>2, <2>3, <2>5, <2>6, ConcatProperties
    <3>2. CASE i < k
      BY <2>2, <2>3, <2>5, <3>1, <3>2
    <3>3. CASE ~ (i < k)
      <4>1. i - Len(a) \in 1..(n - k) /\ ~ (i <= Len(a)) /\ k + (i - Len(a)) = i + 1
        BY <2>2, <2>3, <2>5, <3>3
      <4> QED
        BY <2>6, <3>1, <3>3, <4>1
    <3> QED
      BY <3>2, <3>3
  <2> HIDE DEF t
  <2> DEFINE From(i) == IF i < k THEN i ELSE i + 1
  <2>9. /\ \A i \in 1..(n - 1) : From(i) \in 1..n /\ From(i) # k /\ t[i] = s[From(i)]
        /\ \A i, j \in 1..(n - 1) : From(i) = From(j) => i = j
    BY <2>2, <2>3, <2>8
  <2>10. \A i \in 1..n : i # k => \E j \in 1..(n - 1) : From(j) = i
    <3> SUFFICES ASSUME NEW i \in 1..n, i # k PROVE \E j \in 1..(n - 1) : From(j) = i
      OBVIOUS
    <3>1. CASE i < k
      <4>1. i \in 1..(n - 1) /\ From(i) = i
        BY <2>2, <2>3, <3>1
      <4> QED
        BY <4>1
    <3>2. CASE ~ (i < k)
      <4>1. i - 1 \in 1..(n - 1) /\ From(i - 1) = i
        BY <2>2, <2>3, <3>2
      <4> QED
        BY <4>1
    <3> QED
      BY <3>1, <3>2
  <2> HIDE DEF From
  <2>11. \A i, j \in 1..n : s[i] = s[j] => i = j
    BY DEF Simple, At, n
  <2>12. Simple(t)
    BY <2>7, <2>9, <2>11 DEF Simple, At
  <2>13. Elements(t) = Elements(s) \ {m}
    <3>1. ASSUME NEW x \in Elements(t) PROVE x \in Elements(s) \ {m}
      <4>1. PICK i \in 1..(n - 1) : t[i] = x
        BY <2>7, <3>1 DEF Elements
      <4> QED
        BY <2>2, <2>9, <2>11, <4>1 DEF Elements, n
    <3>2. ASSUME NEW x \in Elements(s) \ {m} PROVE x \in Elements(t)
      <4>1. PICK i \in 1..n : s[i] = x
        BY <3>2 DEF Elements, n
      <4>2. PICK j \in 1..(n - 1) : From(j) = i
        BY <2>2, <2>10, <3>2, <4>1
      <4> QED
        BY <2>7, <2>9, <4>1, <4>2 DEF Elements
    <3> QED
      BY <3>1, <3>2
  <2> QED
    BY <2>4, <2>7, <2>12, <2>13
<1> QED
  BY <1>1, <1>2
-----------------------------------------------------------------------------
LEMMA ChatInvInit == ASSUME ChatInit PROVE ChatInv
<1> USE ChatAssumption DEF ChatInit
<1>1. \A S : <<>> \in Seq(S)
  OBVIOUS
<1>2. At(<<>>) = {} /\ Elements(<<>>) = {}
  BY DEF At, Elements
<1>3. ChatTyped
  <2>1. request \in RequestRecord
    BY DEF RequestRecord
  <2>2. turn \in TurnRecord
    BY <1>1 DEF TurnRecord, NoTurn
  <2> QED
    BY <1>1, <2>1, <2>2 DEF ChatTyped
<1>4. Named /\ Numbered /\ OnePlace
  BY <1>2 DEF Named, Numbered, OnePlace, Simple, NoTurn
<1>5. OneFate
  BY <1>2 DEF OneFate, Simple, NoTurn, Steered, Replied
<1>6. ToldBehind
  BY <1>2 DEF ToldBehind, ToldOnce, NoTurn
<1>7. RequestUnderWay
  BY <1>2 DEF RequestUnderWay, NotYet, ChatOnly, BeginsOnce, OneBegins, BusyAlone, AbortsIdle, EndComes, NoStaleBadge, AnswersHeard,
              NoTurn, TurnRuns, Idle
<1> QED
  BY <1>3, <1>4, <1>5, <1>6, <1>7 DEF ChatInv

\* What steps do to the calls that are on their way, but for a message that steers.
Moves ==
  \/ calls' = calls
  \/ calls # <<>> /\ calls' = Tail(calls)
  \/ \E c \in CallRecord : c.kind # "steer" /\ calls' = Append(calls, c)

LEMMA CallsMoved ==
  ASSUME ChatInv, Moves
  PROVE  /\ calls' \in Seq(CallRecord)
         /\ \E d \in {0, 1} : \A i \in At(calls') : calls'[i].kind = "steer" =>
              i + d \in At(calls) /\ \A k \in 1..i : k + d \in At(calls) /\ calls'[k] = calls[k + d]
         /\ \A m \in Messages : Steered(m)' => Steered(m)
<1>1. calls \in Seq(CallRecord) /\ Len(calls) \in Nat
  BY DEF ChatInv, ChatTyped
<1>2. CASE calls' = calls
  <2>1. \A i \in At(calls) : i + 0 \in At(calls) /\ \A k \in 1..i : k + 0 \in At(calls) /\ calls[k] = calls[k + 0]
    BY <1>1 DEF At
  <2> QED
    BY <1>1, <1>2, <2>1 DEF Steered
<1>3. CASE calls # <<>> /\ calls' = Tail(calls)
  <2>0. Shrunk(CallRecord, calls, calls')
    BY <1>1, <1>3, TailIs
  <2>1. calls' \in Seq(CallRecord) /\ Elements(calls) = Elements(calls') \cup {Head(calls)} /\ Len(calls') \in Nat
    BY <2>0 DEF Shrunk
  <2>2. \A i \in At(calls') : i + 1 \in At(calls) /\ calls'[i] = calls[i + 1]
    BY <2>0 DEF Shrunk
  <2>3. \A i \in At(calls') : \A k \in 1..i : k \in At(calls')
    BY <2>1 DEF At
  <2>4. \A i \in At(calls') : i + 1 \in At(calls) /\ \A k \in 1..i : k + 1 \in At(calls) /\ calls'[k] = calls[k + 1]
    BY <2>2, <2>3
  <2> QED
    BY <2>1, <2>4 DEF Steered
<1>4. ASSUME NEW c \in CallRecord, c.kind # "steer", calls' = Append(calls, c)
      PROVE  /\ calls' \in Seq(CallRecord)
             /\ \A i \in At(calls') : calls'[i].kind = "steer" =>
                  i + 0 \in At(calls) /\ \A k \in 1..i : k + 0 \in At(calls) /\ calls'[k] = calls[k + 0]
             /\ \A m \in Messages : Steered(m)' => Steered(m)
  <2>1. /\ calls' \in Seq(CallRecord) /\ calls'[Len(calls) + 1] = c
        /\ \A i \in At(calls) : calls'[i] = calls[i]
        /\ \A i \in At(calls') : i # Len(calls) + 1 => i \in At(calls)
        /\ Elements(calls') = Elements(calls) \cup {c}
    <3>1. Grown(CallRecord, calls, c, calls')
      BY <1>1, <1>4, AppendIs
    <3> QED
      BY <3>1 DEF Grown
  <2>2. ASSUME NEW i \in At(calls'), calls'[i].kind = "steer"
        PROVE  i + 0 \in At(calls) /\ \A k \in 1..i : k + 0 \in At(calls) /\ calls'[k] = calls[k + 0]
    <3>1. i \in At(calls)
      BY <1>4, <2>1, <2>2
    <3>2. i + 0 \in At(calls) /\ \A k \in 1..i : k \in At(calls) /\ k + 0 = k
      BY <1>1, <3>1 DEF At
    <3> QED
      BY <2>1, <3>2
  <2> QED
    BY <1>4, <2>1, <2>2 DEF Steered, Steers
<1> QED
  BY <1>2, <1>3, <1>4 DEF Moves

LEMMA RepliesMoved ==
  ASSUME ChatInv, replies' = replies \/ (replies # <<>> /\ replies' = Tail(replies))
  PROVE  /\ replies' \in Seq(ReplyRecord) /\ Elements(replies') \subseteq Elements(replies)
         /\ \A i, k \in At(replies') :
              replies'[i].kind = "refused" /\ replies'[k].kind = "refused" /\ replies'[i].message = replies'[k].message => i = k
<1>1. replies \in Seq(ReplyRecord)
  BY DEF ChatInv, ChatTyped
<1>2. CASE replies' = replies
  BY <1>1, <1>2 DEF ChatInv, OneFate
<1>3. CASE replies # <<>> /\ replies' = Tail(replies)
  <2>1. /\ replies' \in Seq(ReplyRecord) /\ Elements(replies') \subseteq Elements(replies)
        /\ \A i \in At(replies') : i + 1 \in At(replies) /\ replies'[i] = replies[i + 1] /\ i \in Nat
    <3>1. Shrunk(ReplyRecord, replies, replies')
      BY <1>1, <1>3, TailIs
    <3> QED
      BY <3>1 DEF Shrunk
  <2>2. ASSUME NEW i \in At(replies'), NEW k \in At(replies'), replies'[i].kind = "refused",
               replies'[k].kind = "refused", replies'[i].message = replies'[k].message
        PROVE  i = k
    <3>1. i + 1 = k + 1
      BY <2>1, <2>2 DEF ChatInv, OneFate
    <3> QED
      BY <2>1, <3>1
  <2> QED
    BY <2>1, <2>2
<1> QED
  BY <1>2, <1>3

\* Nobody takes or takes back, and no new message steers or is refused.
LEMMA FateMoved ==
  ASSUME ChatInv, Moves, replies' = replies \/ (replies # <<>> /\ replies' = Tail(replies)), taken' = taken,
         \A m \in Messages : Steered(m) \/ Replied("refused", m)' => m \notin Elements(resends'),
         turn'.port = turn.port \/ turn'.port = <<>>
  PROVE  OneFate'
<1>1. PICK d \in {0, 1} : \A i \in At(calls') : calls'[i].kind = "steer" =>
              i + d \in At(calls) /\ \A k \in 1..i : k + d \in At(calls) /\ calls'[k] = calls[k + d]
  BY CallsMoved
<1>2. /\ calls' \in Seq(CallRecord) /\ \A m \in Messages : Steered(m)' => Steered(m)
      /\ Elements(replies') \subseteq Elements(replies)
      /\ \A i, k \in At(replies') :
           replies'[i].kind = "refused" /\ replies'[k].kind = "refused" /\ replies'[i].message = replies'[k].message => i = k
  BY CallsMoved, RepliesMoved
<1>3. Simple(turn'.port) /\ Elements(turn'.port) \subseteq Elements(turn.port)
  <2>1. Simple(<<>>) /\ Elements(<<>>) = {}
    BY DEF Simple, Elements, At
  <2> QED
    BY <2>1 DEF ChatInv, OneFate
<1>4. ASSUME NEW i \in At(calls'), NEW k \in At(calls'), calls'[i].kind = "steer", Steers(calls'[k], calls'[i].message)
      PROVE  i = k
  <2>1. /\ i \in 1..i /\ k \in 1..k /\ i \in Nat /\ k \in Nat
    BY <1>2 DEF At
  <2>2. /\ i + d \in At(calls) /\ k + d \in At(calls) /\ calls'[i] = calls[i + d] /\ calls'[k] = calls[k + d]
    BY <1>1, <1>4, <2>1 DEF Steers
  <2>3. i + d = k + d
    BY <1>4, <2>2 DEF ChatInv, OneFate
  <2> QED
    BY <2>1, <2>3
<1>6. \A m \in Messages : /\ Replied("refused", m)' => Replied("refused", m)
                          /\ Replied("cancelled", m)' => Replied("cancelled", m)
                          /\ Untaken(m) => Untaken(m)'
  BY <1>2 DEF Replied, Untaken
<1> QED
  BY <1>2, <1>3, <1>4, <1>6 DEF ChatInv, OneFate

LEMMA FateKept ==
  ASSUME ChatInv, Moves, replies' = replies \/ (replies # <<>> /\ replies' = Tail(replies)),
         taken' = taken, Elements(resends') \subseteq Elements(resends),
         turn'.port = turn.port \/ turn'.port = <<>>
  PROVE  OneFate'
<1>1. \A m \in Messages : Replied("refused", m)' => Replied("refused", m)
  BY RepliesMoved DEF Replied
<1> QED
  BY <1>1, FateMoved DEF ChatInv, OneFate

\* Nobody is told anything, and the turn stays or ends.
LEMMA ToldKept ==
  ASSUME ChatInv, Moves, prompts' = prompts, taken' = taken,
         turn'.id = turn.id \/ turn'.id = 0, turn'.port = turn.port \/ turn'.port = <<>>
  PROVE  ToldBehind'
<1>1. PICK d \in {0, 1} : \A i \in At(calls') : calls'[i].kind = "steer" =>
              i + d \in At(calls) /\ \A k \in 1..i : k + d \in At(calls) /\ calls'[k] = calls[k + d]
  BY CallsMoved
<1>2. calls' \in Seq(CallRecord) /\ \A r \in ChatRequests : r # 0
  BY CallsMoved DEF ChatRequests
<1>3. Elements(turn'.port) \subseteq Elements(turn.port)
  BY DEF Elements
<1>4. ASSUME NEW i \in At(calls'), calls'[i].kind = "steer", NEW r \in ChatRequests, calls'[i].message \in prompts'[r]
      PROVE  turn'.id # r /\ \A k \in 1..i : ~ (Begins(calls'[k]) /\ calls'[k].id = r)
  <2>1. i \in 1..i /\ i \in Nat
    BY <1>2 DEF At
  <2>2. i + d \in At(calls) /\ calls'[i] = calls[i + d] /\ \A k \in 1..i : k + d \in 1..(i + d) /\ calls'[k] = calls[k + d]
    BY <1>1, <1>4, <2>1
  <2>3. turn.id # r /\ \A k \in 1..(i + d) : ~ (Begins(calls[k]) /\ calls[k].id = r)
    BY <1>4, <2>2 DEF ChatInv, ToldBehind
  <2> QED
    BY <1>2, <2>2, <2>3
<1>5. \A m \in Elements(turn'.port), r \in ChatRequests : m \in prompts'[r] => turn'.id # r
  BY <1>2, <1>3 DEF ChatInv, ToldBehind
<1> QED
  BY <1>4, <1>5 DEF ChatInv, ToldBehind, ToldOnce
-----------------------------------------------------------------------------
\* What the types and names say, in the form in which the steps need it.
LEMMA ChatFacts ==
  ASSUME ChatInv
  PROVE  /\ thread \in Seq(Messages) /\ resends \in Seq(Messages) /\ written \in Nat /\ written <= MaxMessages
         /\ calls \in Seq(CallRecord) /\ events \in Seq(EventRecord) /\ replies \in Seq(ReplyRecord)
         /\ request \in RequestRecord /\ turn \in TurnRecord /\ request.id \in Nat /\ turn.id \in Nat
         /\ request.id <= MaxRequests /\ turn.id <= request.id /\ MaxRequests \in Nat /\ MaxMessages \in Nat
         /\ prompts \in [ChatRequests -> SUBSET Messages] /\ taken \in [ChatRequests -> SUBSET Messages]
         /\ turn.port \in Seq(Messages)
BY ChatAssumption DEF ChatInv, ChatTyped, Named, RequestRecord, TurnRecord

\* A new request: nothing under way is of it.
LEMMA NewRequest ==
  ASSUME ChatInv, request.id < MaxRequests, request' \in RequestRecord, request'.id = request.id + 1,
         request'.stage = "sessions", request'.heard = FALSE, written' \in Nat, written <= written',
         NEW P \in SUBSET Messages, P \subseteq 1..written', prompts' = [prompts EXCEPT ![request.id + 1] = P],
         UNCHANGED <<calls, turn, taken>>, Elements(events') \subseteq Elements(events)
  PROVE  /\ Named' /\ ToldBehind' /\ RequestUnderWay'
         /\ prompts' \in [ChatRequests -> SUBSET Messages]
<1> DEFINE n == request.id + 1
<1>1. /\ n \in ChatRequests /\ n \in Nat /\ n # 0 /\ request.id < n /\ ~ (n <= request.id) /\ turn.id # n /\ 1..request.id \subseteq 1..n
      /\ turn.id <= n /\ n \notin 1..request.id
  <2>1. /\ request.id \in Nat /\ turn.id \in Nat /\ turn.id <= request.id /\ MaxRequests \in Nat
    BY ChatFacts
  <2> QED
    BY <2>1 DEF ChatRequests
<1>2. /\ prompts' \in [ChatRequests -> SUBSET Messages] /\ prompts'[n] = P
      /\ \A r \in ChatRequests : r # n => prompts'[r] = prompts[r]
  BY <1>1, ChatFacts
<1>3. 1..written \subseteq 1..written' /\ \A r \in ChatRequests : r \in Nat /\ r > n => r # n /\ r > request.id
  <2>1. 1..written \subseteq 1..written'
    BY ChatFacts
  <2>2. \A r \in ChatRequests : r \in Nat
    BY DEF ChatRequests
  <2>3. request.id \in Nat /\ n = request.id + 1
    BY ChatFacts
  <2> HIDE DEF n
  <2> QED
    BY <2>1, <2>2, <2>3
<1> HIDE DEF n
<1>4. /\ \A c \in Elements(calls) : c.kind \in {"start", "compact", "abort"} => c.id \in 1..request.id /\ c.id # n
      /\ \A e \in Elements(events) : e.id \in 1..request.id /\ e.id # n
  BY <1>1 DEF ChatInv, Named
<1>5. /\ request'.id = n /\ calls' = calls /\ turn' = turn /\ taken' = taken
  BY DEF n
<1>6. taken[n] = {} /\ prompts[n] = {}
  BY <1>1 DEF ChatInv, Named, ChatRequests
<1>7. Named'
  <2>1. \A c \in Elements(calls') : c.kind \in {"steer", "cancel"} => c.message \in 1..written'
    BY <1>3, <1>5 DEF ChatInv, Named
  <2>2. \A c \in Elements(calls') : c.kind \in {"start", "compact", "abort"} => c.id \in 1..request'.id
    BY <1>1, <1>4, <1>5
  <2>3. /\ \A e \in Elements(events') : e.id \in 1..request'.id
        /\ turn'.id <= request'.id /\ (turn'.id = 0 => turn'.port = <<>>)
    BY <1>1, <1>4, <1>5 DEF ChatInv, Named
  <2>4. \A r \in ChatRequests : prompts'[r] \subseteq 1..written'
    BY <1>2, <1>3 DEF ChatInv, Named
  <2>5. \A r \in ChatRequests : r > request'.id => prompts'[r] = {} /\ taken'[r] = {}
    BY <1>2, <1>3, <1>5 DEF ChatInv, Named, ChatRequests
  <2> QED
    BY <2>1, <2>2, <2>3, <2>4, <2>5 DEF Named
<1>8. ToldBehind'
  <2>1. ToldOnce'
    BY <1>2, <1>5, <1>6 DEF ChatInv, ToldBehind, ToldOnce
  <2>2. \A m \in Elements(turn'.port), r \in ChatRequests : m \in prompts'[r] => turn'.id # r
    BY <1>1, <1>2, <1>5 DEF ChatInv, ToldBehind
  <2>3. ASSUME NEW i \in At(calls'), calls'[i].kind = "steer", NEW r \in ChatRequests, calls'[i].message \in prompts'[r]
        PROVE  turn'.id # r /\ \A k \in 1..i : ~ (Begins(calls'[k]) /\ calls'[k].id = r)
    <3>1. CASE r = n
      <4>1. \A k \in 1..i : calls[k] \in Elements(calls)
        <5>1. Len(calls) \in Nat /\ i \in 1..Len(calls)
          BY <1>5, <2>3, ChatFacts DEF At
        <5>2. \A k \in 1..i : k \in 1..Len(calls)
          BY <5>1
        <5> QED
          BY <5>2 DEF Elements
      <4> QED
        BY <1>1, <1>4, <1>5, <3>1, <4>1 DEF Begins
    <3>2. CASE r # n
      BY <1>2, <1>5, <2>3, <3>2 DEF ChatInv, ToldBehind
    <3> QED
      BY <3>1, <3>2
  <2> QED
    BY <2>1, <2>2, <2>3 DEF ToldBehind
<1>9. RequestUnderWay'
  <2>1. \A e \in Elements(events') : ~ Mine(e)'
    BY <1>4, <1>5 DEF Mine
  <2>2. \A c \in Elements(calls') : Begins(c) \/ c.kind = "abort" => ~ Mine(c)'
    BY <1>4, <1>5 DEF Mine, Begins
  <2>3. turn'.id # request'.id /\ request'.id # 0
    BY <1>1, <1>5
  <2>4. OneBegins(calls', request'.id)
    <3>1. \A i \in At(calls) : calls[i] \in Elements(calls)
      BY DEF Elements, At
    <3>2. \A i \in At(calls') : Begins(calls'[i]) => calls'[i].id # request'.id
      BY <1>5, <2>2, <3>1 DEF Mine
    <3> QED
      BY <3>2 DEF OneBegins
  <2> QED
    BY <2>1, <2>2, <2>3, <2>4 DEF RequestUnderWay, NotYet, ChatOnly, BeginsOnce, BusyAlone, AbortsIdle, EndComes,
                                  NoStaleBadge, AnswersHeard, Idle, Begins
<1> QED
  BY <1>2, <1>7, <1>8, <1>9

\* The calls that begin the request of the window are one still.
LEMMA BegunOnce ==
  ASSUME ChatInv, request'.id = request.id,
         \/ calls' = calls \/ Shrunk(CallRecord, calls, calls')
         \/ \E c \in CallRecord : ~Begins(c) /\ Grown(CallRecord, calls, c, calls')
  PROVE  OneBegins(calls', request'.id)
<1> DEFINE r == request.id
<1>1. request'.id = r /\ OneBegins(calls, r)
  BY DEF ChatInv, RequestUnderWay, BeginsOnce
<1> HIDE DEF r
<1> SUFFICES ASSUME NEW i \in At(calls'), NEW k \in At(calls'), Begins(calls'[i]), calls'[i].id = r,
                    Begins(calls'[k]), calls'[k].id = r
             PROVE  i = k
  BY <1>1 DEF OneBegins
<1>2. CASE calls' = calls
  BY <1>1, <1>2 DEF OneBegins
<1>3. CASE Shrunk(CallRecord, calls, calls')
  <2>1. /\ i + 1 \in At(calls) /\ calls'[i] = calls[i + 1] /\ i \in Nat
        /\ k + 1 \in At(calls) /\ calls'[k] = calls[k + 1] /\ k \in Nat
    BY <1>3 DEF Shrunk
  <2>2. i + 1 = k + 1
    BY <1>1, <2>1 DEF OneBegins
  <2> QED
    BY <2>1, <2>2
<1>4. ASSUME NEW c \in CallRecord, ~Begins(c), Grown(CallRecord, calls, c, calls') PROVE i = k
  <2>1. i # Len(calls) + 1 /\ k # Len(calls) + 1
    BY <1>4 DEF Grown
  <2>2. i \in At(calls) /\ k \in At(calls) /\ calls'[i] = calls[i] /\ calls'[k] = calls[k]
    BY <1>4, <2>1 DEF Grown
  <2> QED
    BY <1>1, <2>2 DEF OneBegins
<1> QED
  BY <1>2, <1>3, <1>4

\* Nothing begins, ends, aborts or is heard.
LEMMA UnderWayKept ==
  ASSUME ChatInv, UNCHANGED request, UNCHANGED events, NoStaleBadge',
         \/ calls' = calls
         \/ Shrunk(CallRecord, calls, calls') /\ Head(calls).kind \in {"steer", "cancel"}
         \/ \E c \in CallRecord : c.kind \in {"steer", "cancel"} /\ Grown(CallRecord, calls, c, calls'),
         turn'.id = turn.id, turn'.kind = turn.kind, turn'.phase = turn.phase, turn'.aborted = turn.aborted
  PROVE  RequestUnderWay'
<1>1. OneBegins(calls', request'.id)
  BY BegunOnce DEF Begins
<1>2. \A c \in Elements(calls') : Begins(c) \/ c.kind = "abort" => c \in Elements(calls)
  BY DEF Shrunk, Grown, Begins
<1>3. \A c \in Elements(calls) : Begins(c) => c \in Elements(calls')
  BY DEF Shrunk, Grown, Begins
<1>4. NotYet' /\ ChatOnly'
  BY <1>2 DEF ChatInv, RequestUnderWay, NotYet, ChatOnly, Mine, Begins
<1>5. BeginsOnce' /\ BusyAlone'
  BY <1>1, <1>2 DEF ChatInv, RequestUnderWay, BeginsOnce, BusyAlone, Mine
<1>6. AbortsIdle' /\ EndComes'
  BY <1>2 DEF ChatInv, RequestUnderWay, AbortsIdle, EndComes, Mine, TurnRuns, Idle
<1>7. AnswersHeard'
  BY <1>3 DEF ChatInv, RequestUnderWay, AnswersHeard, Awaiting, Begins
<1> QED
  BY <1>4, <1>5, <1>6, <1>7 DEF ChatInv, RequestUnderWay

\* The window stops waiting.
LEMMA FinishedUnderWay ==
  ASSUME ChatInv, Finished, UNCHANGED turn, Elements(events') \subseteq Elements(events),
         calls' = calls \/ Grown(CallRecord, calls, Call("abort", request.id, 0), calls')
  PROVE  RequestUnderWay'
<1>1. /\ request'.id = request.id /\ request'.kind = request.kind /\ request'.heard = request.heard
      /\ request'.stage = "idle" /\ badges' = {}
  BY ChatFacts DEF Finished, RequestRecord
<1>2. Call("abort", request.id, 0) \in CallRecord /\ ~Begins(Call("abort", request.id, 0))
      /\ Call("abort", request.id, 0).kind = "abort"
  BY ChatFacts DEF Call, CallRecord, Begins
<1>3. OneBegins(calls', request'.id)
  BY <1>1, <1>2, BegunOnce
<1>4. \A c \in Elements(calls') : c.kind # "abort" => c \in Elements(calls)
  BY <1>2 DEF Grown
<1>5. ChatOnly' /\ NotYet'
  BY <1>1, <1>4 DEF ChatInv, RequestUnderWay, ChatOnly, Mine, NotYet
<1>6. BeginsOnce' /\ BusyAlone'
  BY <1>1, <1>3, <1>4 DEF ChatInv, RequestUnderWay, BeginsOnce, BusyAlone, Mine, Begins
<1>7. AbortsIdle' /\ EndComes' /\ NoStaleBadge' /\ AnswersHeard'
  BY <1>1 DEF AbortsIdle, EndComes, NoStaleBadge, AnswersHeard, Idle
<1> QED
  BY <1>1, <1>5, <1>6, <1>7 DEF RequestUnderWay

\* The turn goes on, while nobody calls.
LEMMA EventsUnderWay ==
  ASSUME ChatInv, UNCHANGED calls, UNCHANGED turn, Shrunk(EventRecord, events, events'), NoStaleBadge',
         request' = request \/ (request' = [request EXCEPT !.heard = TRUE] /\ Mine(Head(events))
                                /\ Head(events).kind \in {"consumed", "state"}),
         Mine(Head(events)) /\ request.stage = "listening" => Head(events).kind # "end",
         Mine(Head(events)) /\ request.stage = "listening" /\ request.kind = "chat" => ~Ends(Head(events))
  PROVE  RequestUnderWay'
<1> DEFINE h == Head(events)
<1>1. /\ request'.id = request.id /\ request'.kind = request.kind /\ request'.stage = request.stage
      /\ request'.heard = request.heard \/ (Mine(h) /\ h.kind \in {"consumed", "state"})
  BY ChatFacts DEF RequestRecord
<1>2. Elements(events) = Elements(events') \cup {h} /\ h \in Elements(events)
  BY DEF Shrunk
<1> HIDE DEF h
<1>3. \A e : Mine(e)' = Mine(e)
  BY <1>1 DEF Mine
<1>4. NotYet' /\ ChatOnly'
  BY <1>1, <1>2, <1>3 DEF ChatInv, RequestUnderWay, NotYet, ChatOnly
<1>5. BeginsOnce'
  BY <1>1, <1>2, <1>3 DEF ChatInv, RequestUnderWay, BeginsOnce
<1>6. BusyAlone'
  BY <1>1, <1>2, <1>3 DEF ChatInv, RequestUnderWay, BusyAlone
<1>7. AbortsIdle'
  BY <1>1, <1>3 DEF ChatInv, RequestUnderWay, AbortsIdle, TurnRuns, Idle
<1>8. EndComes'
  BY <1>1, <1>2, <1>3 DEF ChatInv, RequestUnderWay, EndComes, TurnRuns, h
<1>9. AnswersHeard'
  <2> SUFFICES ASSUME request.stage = "listening", request.kind = "chat" PROVE Awaiting(request.id)'
    BY <1>1 DEF AnswersHeard
  <2>1. Awaiting(request.id)
    BY DEF ChatInv, RequestUnderWay, AnswersHeard
  <2>2. \A e \in Elements(events) : e.id = request.id /\ Ends(e) => e \in Elements(events')
    BY <1>2 DEF Mine, h
  <2> QED
    BY <1>1, <2>1, <2>2 DEF Awaiting, Ends
<1> QED
  BY <1>1, <1>4, <1>5, <1>6, <1>7, <1>8, <1>9 DEF ChatInv, RequestUnderWay
-----------------------------------------------------------------------------
LEMMA NamedKept ==
  ASSUME ChatInv, request'.id = request.id, written' \in Nat, written <= written', UNCHANGED prompts,
         \A c \in Elements(calls') :
           \/ c \in Elements(calls)
           \/ c.kind \in {"steer", "cancel"} /\ c.message \in 1..written'
           \/ c.kind \in {"start", "compact", "abort"} /\ c.id \in 1..request.id,
         \A e \in Elements(events') : e \in Elements(events) \/ e.id \in 1..request.id,
         \A r \in ChatRequests : r > request.id => taken'[r] = {},
         turn'.id <= request.id, turn'.id = 0 => turn'.port = <<>>
  PROVE  Named'
<1>1. 1..written \subseteq 1..written'
  BY ChatFacts
<1>2. \A c \in Elements(calls') :
        /\ c.kind \in {"steer", "cancel"} => c.message \in 1..written'
        /\ c.kind \in {"start", "compact", "abort"} => c.id \in 1..request'.id
  BY <1>1 DEF ChatInv, Named
<1>3. \A e \in Elements(events') : e.id \in 1..request'.id
  BY DEF ChatInv, Named
<1> QED
  BY <1>1, <1>2, <1>3 DEF ChatInv, Named

LEMMA NumberedKept ==
  ASSUME ChatInv, written' \in Nat, written <= written', Elements(turn'.port) \subseteq Elements(turn.port),
         Elements(replies') \subseteq Elements(replies), UNCHANGED taken
  PROVE  Numbered'
<1>1. 1..written \subseteq 1..written'
  BY ChatFacts
<1> QED
  BY <1>1 DEF ChatInv, Numbered

\* A message is added to the conversation.
LEMMA ThreadGrows ==
  ASSUME ChatInv, written' \in Nat, written <= written', NEW m \in 1..written', m \notin Elements(thread),
         Grown(Messages, thread, m, thread'), Simple(resends'), m \notin Elements(resends'),
         Elements(resends') \subseteq Elements(resends), UNCHANGED removed,
         \A x \in 1..written' : x \in 1..written \/ x = m,
         \A x \in Elements(resends) : x \in Elements(resends') \/ x = m
  PROVE  OnePlace'
<1>1. Elements(thread') = Elements(thread) \cup {m} /\ 1..written \subseteq 1..written'
  BY ChatFacts DEF Grown
<1>2. Simple(thread')
  <2> SUFFICES ASSUME NEW i \in At(thread'), NEW k \in At(thread'), thread'[i] = thread'[k] PROVE i = k
    BY DEF Simple
  <2>1. \A j \in At(thread) : thread[j] \in Elements(thread)
    BY DEF Elements, At
  <2>2. CASE i # Len(thread) + 1 /\ k # Len(thread) + 1
    BY <2>2 DEF Grown, ChatInv, OnePlace, Simple
  <2>3. CASE i = Len(thread) + 1 \/ k = Len(thread) + 1
    BY <2>1, <2>3 DEF Grown
  <2> QED
    BY <2>2, <2>3
<1>3. Elements(thread') \cap Elements(resends') = {}
  BY <1>1 DEF ChatInv, OnePlace
<1>4. Elements(thread') \cup Elements(resends') \subseteq 1..written'
  BY <1>1 DEF ChatInv, OnePlace
<1>5. \A x \in 1..written' : x \notin removed' => x \in Elements(thread') \cup Elements(resends')
  BY <1>1 DEF ChatInv, OnePlace
<1> QED
  BY <1>2, <1>3, <1>4, <1>5 DEF OnePlace

\* The window starts a request of messages that it has.
LEMMA StartIs ==
  ASSUME ChatInv, NEW b \in Seq(Messages), NEW m \in Messages \cup {0}, NEW kind \in {"chat", "compact"},
         StartRequest(b, m, kind, FALSE), UNCHANGED <<calls, events, turn, taken>>,
         written' \in Nat, written <= written', Elements(b) \cup ({m} \ {0}) \subseteq 1..written'
  PROVE  /\ Named' /\ ToldBehind' /\ RequestUnderWay' /\ request' \in RequestRecord
         /\ prompts' \in [ChatRequests -> SUBSET Messages]
<1> DEFINE P == Elements(b) \cup ({m} \ {0})
<1>1. /\ request.id < MaxRequests
      /\ request' = [id |-> request.id + 1, kind |-> kind, user |-> m, stage |-> "sessions", recovery |-> FALSE, heard |-> FALSE]
      /\ prompts' = [prompts EXCEPT ![request.id + 1] = P]
  BY DEF StartRequest
<1>2. P \in SUBSET Messages
  BY ElementsAt
<1> HIDE DEF P
<1>3. request.id + 1 \in 0..MaxRequests
  <2>1. request.id \in Nat /\ MaxRequests \in Nat
    BY ChatFacts
  <2> QED
    BY <1>1, <2>1
<1>4. request' \in RequestRecord /\ request'.id = request.id + 1 /\ request'.stage = "sessions" /\ request'.heard = FALSE
  BY <1>1, <1>3 DEF RequestRecord
<1>5. P \subseteq 1..written'
  BY DEF P
<1> QED
  BY <1>1, <1>2, <1>4, <1>5, NewRequest

LEMMA WriteStep == ASSUME ChatInv, Write PROVE ChatInv'
<1> DEFINE m == written'
<1>1. /\ written' = written + 1 /\ thread' = Append(thread, m) /\ written < MaxMessages
      /\ StartRequest(thread, m, "chat", FALSE)
      /\ UNCHANGED <<badges, resends, calls, events, replies, turn, removed, taken>>
  BY DEF Write
<1>2. /\ written \in Nat /\ written' \in Nat /\ written <= written' /\ m \in 1..written' /\ m \in Messages
      /\ m \notin 1..written /\ written' \in 0..MaxMessages /\ \A x \in 1..written' : x \in 1..written \/ x = m
      /\ 1..written \subseteq 1..written'
  <2>1. written \in Nat /\ MaxMessages \in Nat
    BY ChatFacts
  <2> QED
    BY <1>1, <2>1 DEF Messages
<1> HIDE DEF m
<1>3. Grown(Messages, thread, m, thread')
  BY <1>1, <1>2, ChatFacts, AppendIs
<1>4. m \notin Elements(thread) /\ m \notin Elements(resends) /\ Elements(thread) \cup {m} \subseteq 1..written'
  BY <1>2 DEF ChatInv, OnePlace
<1>5. OnePlace'
  BY <1>1, <1>2, <1>3, <1>4, ThreadGrows DEF ChatInv, OnePlace
<1>6. /\ Named' /\ ToldBehind' /\ RequestUnderWay' /\ request' \in RequestRecord
      /\ prompts' \in [ChatRequests -> SUBSET Messages]
  BY <1>1, <1>2, <1>4, ChatFacts, StartIs
<1>7. OneFate' /\ Numbered'
  BY <1>1, <1>2, FateKept, NumberedKept DEF Moves
<1>8. ChatTyped'
  BY <1>1, <1>2, <1>3, <1>6 DEF ChatInv, ChatTyped, Grown
<1> QED
  BY <1>5, <1>6, <1>7, <1>8 DEF ChatInv

LEMMA WriteMeanwhileStep == ASSUME ChatInv, WriteMeanwhile PROVE ChatInv'
<1> DEFINE m == written'
           c == Call("steer", 0, m)
<1>1. /\ written' = written + 1 /\ thread' = Append(thread, m) /\ written < MaxMessages /\ ~Idle
      /\ badges' = badges \cup {m} /\ calls' = Append(calls, c)
      /\ UNCHANGED <<resends, request, events, replies, turn, removed, prompts, taken>>
  BY DEF WriteMeanwhile
<1>2. /\ written \in Nat /\ written' \in Nat /\ written <= written' /\ m \in 1..written' /\ m \in Messages
      /\ m \notin 1..written /\ written' \in 0..MaxMessages /\ \A x \in 1..written' : x \in 1..written \/ x = m
      /\ 1..written \subseteq 1..written'
  <2>1. written \in Nat /\ MaxMessages \in Nat
    BY ChatFacts
  <2> QED
    BY <1>1, <2>1 DEF Messages
<1>3. /\ c \in CallRecord /\ c.kind = "steer" /\ c.message = m
  BY <1>2, ChatFacts DEF Call, CallRecord, Messages
<1> HIDE DEF m, c
<1>4. Grown(Messages, thread, m, thread') /\ Grown(CallRecord, calls, c, calls')
  BY <1>1, <1>2, <1>3, ChatFacts, AppendIs
<1>5. m \notin Elements(thread) /\ m \notin Elements(resends)
  BY <1>2 DEF ChatInv, OnePlace
<1>6. OnePlace'
  BY <1>1, <1>2, <1>4, <1>5, ThreadGrows DEF ChatInv, OnePlace
<1>7. Elements(calls') = Elements(calls) \cup {c}
  BY <1>4 DEF Grown
<1>8. Named'
  BY <1>1, <1>2, <1>3, <1>7, NamedKept DEF ChatInv, Named
<1>9. Numbered'
  BY <1>1, <1>2, NumberedKept
<1>10. RequestUnderWay'
  BY <1>1, <1>3, <1>4, UnderWayKept DEF NoStaleBadge, Idle
<1>11. /\ \A i \in At(calls) : calls[i].kind = "steer" => calls[i].message \in 1..written
       /\ \A i \in At(calls') : i # Len(calls) + 1 => i \in At(calls) /\ calls'[i] = calls[i]
       /\ calls'[Len(calls) + 1] = c /\ Len(calls) \in Nat /\ Len(calls') = Len(calls) + 1
  <2>1. \A i \in At(calls) : calls[i] \in Elements(calls)
    BY DEF Elements, At
  <2> QED
    BY <1>4, <2>1 DEF Grown, ChatInv, Named
<1>12. OneFate'
  <2>1. \A i, k \in At(calls') : calls'[i].kind = "steer" /\ Steers(calls'[k], calls'[i].message) => i = k
    <3> SUFFICES ASSUME NEW i \in At(calls'), NEW k \in At(calls'), calls'[i].kind = "steer", calls'[k].kind = "steer",
                        calls'[k].message = calls'[i].message
                 PROVE  i = k
      BY DEF Steers
    <3>1. CASE i \in At(calls) /\ k \in At(calls) /\ calls'[i] = calls[i] /\ calls'[k] = calls[k]
      BY <3>1 DEF ChatInv, OneFate, Steers
    <3>2. CASE i = Len(calls) + 1 /\ k # Len(calls) + 1
      BY <1>2, <1>3, <1>11, <3>2
    <3>3. CASE k = Len(calls) + 1 /\ i # Len(calls) + 1
      BY <1>2, <1>3, <1>11, <3>3
    <3> QED
      BY <1>11, <3>1, <3>2, <3>3
  <2>2. \A x \in Messages : Steered(x)' => Steered(x) \/ x = m
    BY <1>3, <1>7 DEF Steered, Steers
  <2>3. /\ ~Replied("refused", m) /\ ~Replied("cancelled", m) /\ Untaken(m) /\ m \notin Elements(turn.port)
    BY <1>2 DEF ChatInv, Numbered, Replied, Untaken
  <2>4. \A x \in Messages : /\ Replied("refused", x)' = Replied("refused", x) /\ Replied("cancelled", x)' = Replied("cancelled", x)
                            /\ Untaken(x)' = Untaken(x)
    BY <1>1 DEF Replied, Untaken
  <2> QED
    BY <1>1, <1>5, <2>1, <2>2, <2>3, <2>4 DEF ChatInv, OneFate
<1>13. ToldBehind'
  <2>1. ASSUME NEW i \in At(calls'), calls'[i].kind = "steer", NEW r \in ChatRequests, calls'[i].message \in prompts'[r]
        PROVE  turn'.id # r /\ \A k \in 1..i : ~ (Begins(calls'[k]) /\ calls'[k].id = r)
    <3>1. prompts'[r] \subseteq 1..written
      BY <1>1 DEF ChatInv, Named
    <3>2. i \in At(calls) /\ calls'[i] = calls[i]
      BY <1>2, <1>3, <1>11, <2>1, <3>1
    <3>3. \A k \in 1..i : k \in At(calls') /\ k # Len(calls) + 1
      BY <1>11, <3>2 DEF At
    <3>4. \A k \in 1..i : calls'[k] = calls[k]
      BY <1>11, <3>3
    <3>5. turn.id # r /\ \A k \in 1..i : ~ (Begins(calls[k]) /\ calls[k].id = r)
      BY <1>1, <2>1, <3>2 DEF ChatInv, ToldBehind
    <3> QED
      BY <1>1, <3>4, <3>5
  <2> QED
    BY <1>1, <2>1 DEF ChatInv, ToldBehind, ToldOnce
<1>14. ChatTyped'
  BY <1>1, <1>2, <1>4 DEF ChatInv, ChatTyped, Grown
<1> QED
  BY <1>6, <1>8, <1>9, <1>10, <1>12, <1>13, <1>14 DEF ChatInv
-----------------------------------------------------------------------------
LEMMA TailSimple ==
  ASSUME NEW S, NEW s, NEW t, Shrunk(S, s, t), Simple(s)
  PROVE  Simple(t) /\ Head(s) \notin Elements(t)
<1>1. ASSUME NEW i \in At(t), NEW k \in At(t), t[i] = t[k] PROVE i = k
  <2>1. i + 1 = k + 1 /\ i \in Nat /\ k \in Nat
    BY <1>1 DEF Shrunk, Simple
  <2> QED
    BY <2>1
<1>2. ASSUME NEW i \in At(t), t[i] = Head(s) PROVE FALSE
  <2>1. i + 1 = 1 /\ i \in Nat /\ i >= 1
    BY <1>2 DEF Shrunk, Simple
  <2> QED
    BY <2>1
<1> QED
  BY <1>1, <1>2 DEF Simple, Elements, At

\* A sequence cut behind its i-th element.
LEMMA CutIs ==
  ASSUME NEW S, NEW s \in Seq(S), NEW i \in 0..Len(s)
  PROVE  /\ SubSeq(s, 1, i) \in Seq(S) /\ (Simple(s) => Simple(SubSeq(s, 1, i)))
         /\ Elements(SubSeq(s, 1, i)) \subseteq Elements(s)
         /\ Elements(s) = Elements(SubSeq(s, 1, i)) \cup Elements(SubSeq(s, i + 1, Len(s)))
<1> DEFINE n == Len(s)
           a == SubSeq(s, 1, i)
           b == SubSeq(s, i + 1, n)
<1>1. n \in Nat /\ i \in 0..n /\ \A j \in 1..n : s[j] \in S
  OBVIOUS
<1>2. a \in Seq(S) /\ Len(a) = i /\ \A j \in 1..i : a[j] = s[j]
  <2>1. 1 \in 1..(n + 1) /\ \A j \in 1..i : j \in 1..n
    BY <1>1
  <2> QED
    BY <1>1, <2>1, SubSeqProperties
<1>3. b \in Seq(S) /\ Len(b) = n - i /\ \A j \in 1..(n - i) : b[j] = s[i + j]
  <2>1. i + 1 \in 1..(n + 1) /\ \A j \in 1..(n - i) : (i + 1) + j - 1 = i + j
    BY <1>1
  <2> QED
    BY <1>1, <2>1, SubSeqProperties
<1> HIDE DEF n, a, b
<1>4. /\ \A j \in 1..i : j \in 1..n
      /\ \A j \in 1..(n - i) : i + j \in 1..n
      /\ \A j \in 1..n : j \in 1..i \/ (j - i \in 1..(n - i) /\ i + (j - i) = j)
  BY <1>1
<1>5. Elements(s) = {s[j] : j \in 1..n} /\ Elements(a) = {a[j] : j \in 1..i} /\ Elements(b) = {b[j] : j \in 1..(n - i)}
  BY <1>2, <1>3 DEF Elements, n
<1>6. Elements(a) \subseteq Elements(s) /\ Elements(b) \subseteq Elements(s)
  <2>1. ASSUME NEW x \in Elements(a) PROVE x \in Elements(s)
    <3>1. PICK j \in 1..i : a[j] = x
      BY <1>5
    <3> QED
      BY <1>2, <1>4, <1>5, <3>1
  <2>2. ASSUME NEW x \in Elements(b) PROVE x \in Elements(s)
    <3>1. PICK j \in 1..(n - i) : b[j] = x
      BY <1>5
    <3> QED
      BY <1>3, <1>4, <1>5, <3>1
  <2> QED
    BY <2>1, <2>2
<1>7. Elements(s) \subseteq Elements(a) \cup Elements(b)
  <2> SUFFICES ASSUME NEW x \in Elements(s) PROVE x \in Elements(a) \cup Elements(b)
    OBVIOUS
  <2>1. PICK j \in 1..n : s[j] = x
    BY <1>5
  <2>2. CASE j \in 1..i
    BY <1>2, <1>5, <2>1, <2>2
  <2>3. CASE j - i \in 1..(n - i) /\ i + (j - i) = j
    BY <1>3, <1>5, <2>1, <2>3
  <2> QED
    BY <1>4, <2>2, <2>3
<1>8. Simple(s) => Simple(a)
  BY <1>2, <1>4 DEF Simple, At, n
<1> QED
  BY <1>2, <1>6, <1>7, <1>8 DEF a, b, n

LEMMA CompactStep == ASSUME ChatInv, Compact PROVE ChatInv'
<1>1. /\ StartRequest(thread, 0, "compact", FALSE)
      /\ UNCHANGED <<thread, badges, resends, calls, events, replies, turn, written, removed, taken>>
  BY DEF Compact
<1>2. Elements(thread) \cup ({0} \ {0}) \subseteq 1..written'
  BY <1>1 DEF ChatInv, OnePlace
<1>3. written' \in Nat /\ written <= written'
  BY <1>1, ChatFacts
<1>4. /\ Named' /\ ToldBehind' /\ RequestUnderWay' /\ request' \in RequestRecord
      /\ prompts' \in [ChatRequests -> SUBSET Messages]
  BY <1>1, <1>2, <1>3, ChatFacts, StartIs
<1>5. OneFate' /\ Numbered'
  BY <1>1, <1>3, FateKept, NumberedKept DEF Moves
<1>6. ChatTyped' /\ OnePlace'
  BY <1>1, <1>4 DEF ChatInv, ChatTyped, OnePlace
<1> QED
  BY <1>4, <1>5, <1>6 DEF ChatInv

LEMMA AgainStep == ASSUME ChatInv, NEW i \in 1..Len(thread), Again(i) PROVE ChatInv'
<1> DEFINE a == SubSeq(thread, 1, i)
           b == SubSeq(thread, i + 1, Len(thread))
           c == SubSeq(thread, 1, i - 1)
           m == thread[i]
<1>1. /\ thread' = a /\ removed' = removed \cup Elements(b)
      /\ StartRequest(c, m, "chat", FALSE)
      /\ UNCHANGED <<badges, resends, calls, events, replies, turn, written, taken>>
  BY DEF Again
<1>2. thread \in Seq(Messages) /\ m \in Messages /\ m \in Elements(thread) /\ m # 0 /\ i \in 0..Len(thread) /\ i - 1 \in 0..Len(thread)
  <2>1. thread \in Seq(Messages) /\ Len(thread) \in Nat
    BY ChatFacts
  <2>2. i \in Nat /\ m \in Messages /\ m \in Elements(thread)
    BY <2>1 DEF Elements
  <2>3. i \in 0..Len(thread) /\ i - 1 \in 0..Len(thread)
    <3> DEFINE n == Len(thread)
    <3>1. n \in Nat /\ i \in 1..n
      BY <2>1
    <3> HIDE DEF n
    <3>2. i \in 0..n /\ i - 1 \in 0..n
      BY <3>1
    <3> QED
      BY <3>2 DEF n
  <2> QED
    BY <2>1, <2>2, <2>3 DEF Messages
<1>3. /\ a \in Seq(Messages) /\ Simple(a) /\ Elements(a) \subseteq Elements(thread)
      /\ Elements(thread) = Elements(a) \cup Elements(b) /\ c \in Seq(Messages) /\ Elements(c) \subseteq Elements(thread)
  BY <1>2, CutIs DEF ChatInv, OnePlace
<1> HIDE DEF a, b, c, m
<1>4. written' \in Nat /\ written <= written' /\ Elements(c) \cup ({m} \ {0}) \subseteq 1..written'
  <2>1. written' \in Nat /\ written <= written' /\ written' = written
    BY <1>1, ChatFacts
  <2>2. Elements(thread) \subseteq 1..written
    BY DEF ChatInv, OnePlace
  <2> QED
    BY <1>2, <1>3, <2>1, <2>2
<1>5. /\ Named' /\ ToldBehind' /\ RequestUnderWay' /\ request' \in RequestRecord
      /\ prompts' \in [ChatRequests -> SUBSET Messages]
  BY <1>1, <1>2, <1>3, <1>4, StartIs
<1>6. OneFate' /\ Numbered'
  BY <1>1, <1>4, FateKept, NumberedKept DEF Moves
<1>7. OnePlace'
  BY <1>1, <1>3 DEF ChatInv, OnePlace
<1>8. Elements(b) \subseteq Messages
  BY <1>2, <1>3, ElementsAt
<1>9. ChatTyped'
  BY <1>1, <1>3, <1>5, <1>8 DEF ChatInv, ChatTyped
<1> QED
  BY <1>5, <1>6, <1>7, <1>9 DEF ChatInv

LEMMA SessionsReadyStep == ASSUME ChatInv, SessionsReady PROVE ChatInv'
<1>1. /\ request.stage = "sessions" /\ request' = [request EXCEPT !.stage = "provider"]
      /\ UNCHANGED <<thread, badges, resends, calls, events, replies, turn, written, removed, prompts, taken>>
  BY DEF SessionsReady, chatHistory
<1>2. /\ request' \in RequestRecord /\ request'.id = request.id /\ request'.kind = request.kind
      /\ request'.stage = "provider" /\ request'.heard = request.heard
  BY <1>1, ChatFacts DEF RequestRecord
<1>3. written' \in Nat /\ written <= written'
  BY <1>1, ChatFacts
<1>4. OneFate' /\ ToldBehind' /\ Numbered' /\ OnePlace'
  BY <1>1, <1>3, FateKept, ToldKept, NumberedKept DEF Moves, ChatInv, OnePlace
<1>5. Named'
  BY <1>1, <1>2, <1>3, NamedKept DEF ChatInv, Named
<1>6. RequestUnderWay'
  BY <1>1, <1>2 DEF ChatInv, RequestUnderWay, NotYet, ChatOnly, BeginsOnce, BusyAlone, AbortsIdle, EndComes, NoStaleBadge,
                    AnswersHeard, Idle, TurnRuns, Mine
<1>7. ChatTyped'
  BY <1>1, <1>2 DEF ChatInv, ChatTyped
<1> QED
  BY <1>4, <1>5, <1>6, <1>7 DEF ChatInv

LEMMA ProviderReadyStep == ASSUME ChatInv, ProviderReady PROVE ChatInv'
<1> DEFINE c == Call(IF request.kind = "chat" THEN "start" ELSE "compact", request.id, 0)
<1>1. /\ request.stage = "provider" /\ request' = [request EXCEPT !.stage = "listening"] /\ calls' = Append(calls, c)
      /\ UNCHANGED <<thread, badges, resends, events, replies, turn, written, removed, prompts, taken>>
  BY DEF ProviderReady, chatHistory
<1>2. /\ request' \in RequestRecord /\ request'.id = request.id /\ request'.kind = request.kind
      /\ request'.stage = "listening" /\ request'.heard = request.heard
  BY <1>1, ChatFacts DEF RequestRecord
<1>3. /\ c \in CallRecord /\ c.id = request.id /\ Begins(c) /\ c.kind \notin {"steer", "abort", "cancel"}
      /\ request.kind = "chat" => c.kind = "start"
  BY <1>2, ChatFacts DEF Call, CallRecord, Begins
<1>4. request.id \in 1..request.id /\ written' \in Nat /\ written <= written'
  BY <1>1, ChatFacts DEF ChatInv, RequestUnderWay
<1> HIDE DEF c
<1>5. Grown(CallRecord, calls, c, calls')
  BY <1>1, <1>3, ChatFacts, AppendIs
<1>6. Elements(calls') = Elements(calls) \cup {c}
  BY <1>5 DEF Grown
<1>7. Moves
  BY <1>1, <1>3 DEF Moves
<1>8. OneFate' /\ ToldBehind' /\ Numbered' /\ OnePlace'
  BY <1>1, <1>4, <1>7, FateKept, ToldKept, NumberedKept DEF ChatInv, OnePlace
<1>9. Named'
  BY <1>1, <1>2, <1>3, <1>4, <1>6, NamedKept DEF ChatInv, Named, Begins
<1>10. /\ turn.id # request.id /\ \A d \in Elements(calls) : Begins(d) => d.id # request.id
       /\ \A e \in Elements(events) : e.id # request.id
  BY <1>1 DEF ChatInv, RequestUnderWay, NotYet, Mine
<1>11. OneBegins(calls', request'.id)
  <2>1. \A i \in At(calls) : calls[i] \in Elements(calls)
    BY DEF Elements, At
  <2>2. \A i \in At(calls') : i # Len(calls) + 1 => ~ (Begins(calls'[i]) /\ calls'[i].id = request'.id)
    BY <1>2, <1>5, <1>10, <2>1 DEF Grown
  <2> QED
    BY <2>2 DEF OneBegins
<1>12. ~request.heard
  BY <1>1 DEF ChatInv, RequestUnderWay, NotYet
<1>13. RequestUnderWay'
  <2>1. NotYet' /\ ChatOnly' /\ EndComes' /\ NoStaleBadge'
    BY <1>1, <1>2, <1>3, <1>6, <1>10 DEF ChatInv, RequestUnderWay, NotYet, ChatOnly, EndComes, NoStaleBadge, Idle, TurnRuns, Mine
  <2>2. BeginsOnce' /\ BusyAlone'
    BY <1>1, <1>2, <1>10, <1>11, <1>12 DEF BeginsOnce, BusyAlone, Mine
  <2>3. AbortsIdle'
    BY <1>1, <1>2, <1>3, <1>6, <1>10 DEF ChatInv, RequestUnderWay, AbortsIdle, Idle, TurnRuns, Mine
  <2>4. AnswersHeard'
    BY <1>2, <1>3, <1>6 DEF AnswersHeard, Awaiting, Begins
  <2> QED
    BY <1>1, <1>2, <2>1, <2>2, <2>3, <2>4 DEF ChatInv, RequestUnderWay
<1>14. ChatTyped'
  BY <1>1, <1>2, <1>5 DEF ChatInv, ChatTyped, Grown
<1> QED
  BY <1>8, <1>9, <1>13, <1>14 DEF ChatInv
-----------------------------------------------------------------------------
\* The window stops waiting for an answer.
LEMMA FinishedStep ==
  ASSUME ChatInv, Finished, UNCHANGED <<turn, resends, replies, written, prompts, taken>>,
         events' = events \/ Shrunk(EventRecord, events, events'),
         calls' = calls \/ calls' = Append(calls, Call("abort", request.id, 0)),
         calls' # calls => request.id # 0,
         thread' \in Seq(Messages), removed' \subseteq Messages, OnePlace'
  PROVE  ChatInv'
<1> DEFINE c == Call("abort", request.id, 0)
<1>1. c \in CallRecord /\ c.kind = "abort" /\ c.id = request.id
  BY ChatFacts DEF Call, CallRecord
<1>2. calls' = calls \/ Grown(CallRecord, calls, c, calls')
  BY <1>1, ChatFacts, AppendIs
<1>3. Elements(events') \subseteq Elements(events) /\ events' \in Seq(EventRecord)
  BY ChatFacts DEF Shrunk
<1>4. RequestUnderWay'
  BY <1>2, <1>3, FinishedUnderWay
<1> HIDE DEF c
<1>5. Moves
  BY <1>1 DEF Moves, c
<1>6. request' \in RequestRecord /\ request'.id = request.id /\ badges' = {}
  BY ChatFacts DEF Finished, RequestRecord
<1>7. written' \in Nat /\ written <= written' /\ (request.id # 0 => request.id \in 1..request.id)
  BY ChatFacts
<1>8. OneFate' /\ ToldBehind' /\ Numbered'
  BY <1>5, <1>7, FateKept, ToldKept, NumberedKept
<1>9. \A d \in Elements(calls') : d \in Elements(calls) \/ (d.kind = "abort" /\ d.id \in 1..request.id)
  <2>1. CASE calls' = calls
    BY <2>1
  <2>2. CASE calls' # calls
    BY <1>1, <1>2, <1>7, <2>2 DEF Grown
  <2> QED
    BY <2>1, <2>2
<1>10. Named'
  BY <1>3, <1>6, <1>7, <1>9, NamedKept DEF ChatInv, Named
<1>11. ChatTyped'
  BY <1>2, <1>3, <1>6, ChatFacts DEF ChatInv, ChatTyped, Grown
<1> QED
  BY <1>4, <1>8, <1>10, <1>11 DEF ChatInv

LEMMA GiveUpWaitingStep == ASSUME ChatInv, GiveUpWaiting PROVE ChatInv'
<1>1. /\ Finished /\ UNCHANGED <<thread, removed, calls, events>>
      /\ UNCHANGED <<turn, resends, replies, written, prompts, taken>>
  BY DEF GiveUpWaiting, chatHistory
<1>2. OnePlace' /\ thread' \in Seq(Messages) /\ removed' \subseteq Messages
  BY <1>1 DEF ChatInv, ChatTyped, OnePlace
<1> QED
  BY <1>1, <1>2, FinishedStep

LEMMA AbortCalled ==
  ASSUME ChatInv, AbortRequest
  PROVE  /\ calls' = calls \/ calls' = Append(calls, Call("abort", request.id, 0))
         /\ calls' # calls => request.id # 0
BY DEF AbortRequest, ChatInv, RequestUnderWay

LEMMA StopAnswerStep == ASSUME ChatInv, StopAnswer PROVE ChatInv'
<1>1. /\ Finished /\ AbortRequest /\ UNCHANGED <<thread, removed, events>>
      /\ UNCHANGED <<turn, resends, replies, written, prompts, taken>>
  BY DEF StopAnswer, chatHistory
<1>2. OnePlace' /\ thread' \in Seq(Messages) /\ removed' \subseteq Messages
  BY <1>1 DEF ChatInv, ChatTyped, OnePlace
<1> QED
  BY <1>1, <1>2, AbortCalled, FinishedStep

LEMMA ClearThreadStep == ASSUME ChatInv, ClearThread PROVE ChatInv'
<1>1. /\ Finished /\ AbortRequest /\ UNCHANGED events
      /\ thread' = <<>> /\ removed' = removed \cup Elements(thread)
      /\ UNCHANGED <<turn, resends, replies, written, prompts, taken>>
  BY DEF ClearThread
<1>2. Elements(thread) \subseteq Messages /\ <<>> \in Seq(Messages)
  BY ChatFacts, ElementsAt
<1>3. Simple(<<>>) /\ Elements(<<>>) = {}
  BY DEF Simple, Elements, At
<1>4. OnePlace' /\ thread' \in Seq(Messages) /\ removed' \subseteq Messages
  BY <1>1, <1>2, <1>3 DEF ChatInv, ChatTyped, OnePlace
<1> QED
  BY <1>1, <1>4, AbortCalled, FinishedStep

LEMMA HearEndStep == ASSUME ChatInv, HearEnd PROVE ChatInv'
<1>1. /\ Finished /\ UNCHANGED <<thread, removed, calls>> /\ events # <<>> /\ events' = Tail(events)
      /\ UNCHANGED <<turn, resends, replies, written, prompts, taken>>
  BY DEF HearEnd, Receive, NextEvent
<1>2. OnePlace' /\ thread' \in Seq(Messages) /\ removed' \subseteq Messages
  BY <1>1 DEF ChatInv, ChatTyped, OnePlace
<1>3. Shrunk(EventRecord, events, events')
  BY <1>1, ChatFacts, TailIs
<1> QED
  BY <1>1, <1>2, <1>3, FinishedStep

\* Messages are taken back, refused or shown no longer; the request is as it was.
LEMMA CallsKept ==
  ASSUME ChatInv, UNCHANGED <<request, events, turn, written, prompts, taken>>,
         badges' \subseteq badges, OneFate', OnePlace',
         replies' = replies \/ (replies # <<>> /\ replies' = Tail(replies)),
         \/ calls' = calls
         \/ \E c \in CallRecord : c.kind = "cancel" /\ c.message \in 1..written /\ calls' = Append(calls, c),
         thread' \in Seq(Messages), resends' \in Seq(Messages), removed' \subseteq Messages
  PROVE  ChatInv'
<1>1. \/ calls' = calls
      \/ \E c \in CallRecord : c.kind = "cancel" /\ c.message \in 1..written /\ Grown(CallRecord, calls, c, calls')
  BY ChatFacts, AppendIs
<1>2. Moves
  BY DEF Moves
<1>3. NoStaleBadge'
  BY DEF ChatInv, RequestUnderWay, NoStaleBadge, Idle
<1>4. RequestUnderWay'
  BY <1>1, <1>3, UnderWayKept
<1>5. written' \in Nat /\ written <= written'
  BY ChatFacts
<1>6. replies' \in Seq(ReplyRecord) /\ Elements(replies') \subseteq Elements(replies)
  BY RepliesMoved
<1>7. ToldBehind' /\ Numbered'
  BY <1>2, <1>5, <1>6, ToldKept, NumberedKept
<1>8. \A d \in Elements(calls') : d \in Elements(calls) \/ (d.kind = "cancel" /\ d.message \in 1..written')
  BY <1>1 DEF Grown
<1>9. Named'
  BY <1>5, <1>8, NamedKept DEF ChatInv, Named
<1>10. ChatTyped'
  BY <1>1, <1>6 DEF ChatInv, ChatTyped, Grown
<1> QED
  BY <1>4, <1>7, <1>9, <1>10 DEF ChatInv

LEMMA TakeBackStep == ASSUME ChatInv, NEW m \in badges, TakeBack(m) PROVE ChatInv'
<1> DEFINE c == Call("cancel", 0, m)
<1>1. /\ calls' = Append(calls, c)
      /\ UNCHANGED <<thread, badges, resends, request, events, replies, turn, written, removed, prompts, taken>>
  BY DEF TakeBack, windowVars, chatHistory
<1>2. m \in 1..written /\ m \in 0..MaxMessages
  <2>1. m \in 1..written
    BY DEF ChatInv, ChatTyped
  <2> QED
    BY <2>1, ChatFacts
<1>3. c \in CallRecord /\ c.kind = "cancel" /\ c.message \in 1..written
  BY <1>2, ChatFacts DEF Call, CallRecord
<1> HIDE DEF c
<1>4. Moves
  BY <1>1, <1>3 DEF Moves
<1>5. OneFate' /\ OnePlace'
  BY <1>1, <1>4, FateKept DEF ChatInv, OnePlace
<1> QED
  BY <1>1, <1>3, <1>5, CallsKept DEF ChatInv, ChatTyped

\* The head of the replies.
LEMMA NextReply ==
  ASSUME ChatInv, replies # <<>>, replies' = Tail(replies)
  PROVE  /\ Shrunk(ReplyRecord, replies, replies') /\ Head(replies) \in ReplyRecord
         /\ Head(replies) \in Elements(replies) /\ Head(replies).message \in 1..written
         /\ Head(replies).message \in Messages
<1>1. Shrunk(ReplyRecord, replies, replies')
  BY ChatFacts, TailIs
<1>2. Head(replies) \in ReplyRecord /\ Head(replies) \in Elements(replies)
  BY <1>1 DEF Shrunk
<1> QED
  BY <1>1, <1>2 DEF ChatInv, Numbered, ReplyRecord

LEMMA HearKeptStep == ASSUME ChatInv, HearKept PROVE ChatInv'
<1>1. /\ replies # <<>> /\ replies' = Tail(replies) /\ badges' \subseteq badges
      /\ UNCHANGED <<thread, resends, request, calls, events, turn, written, removed, prompts, taken>>
  BY DEF HearKept, NextAnswer, chatHistory
<1>2. OneFate' /\ OnePlace'
  BY <1>1, FateKept DEF Moves, ChatInv, OnePlace
<1> QED
  BY <1>1, <1>2, CallsKept DEF ChatInv, ChatTyped

LEMMA HearCancelledStep == ASSUME ChatInv, HearCancelled PROVE ChatInv'
<1> DEFINE m == Head(replies).message
<1>1. /\ replies # <<>> /\ replies' = Tail(replies) /\ badges' \subseteq badges
      /\ thread' = Without(thread, m) /\ removed' = removed \cup {m}
      /\ UNCHANGED <<resends, request, calls, events, turn, written, prompts, taken>>
  BY DEF HearCancelled, NextAnswer
<1>2. m \in Messages
  BY <1>1, NextReply
<1> HIDE DEF m
<1>3. thread' \in Seq(Messages) /\ Simple(thread') /\ Elements(thread') = Elements(thread) \ {m}
  BY <1>1, ChatFacts, WithoutIs DEF ChatInv, OnePlace
<1>4. OnePlace'
  BY <1>1, <1>3 DEF ChatInv, OnePlace
<1>5. OneFate'
  BY <1>1, FateKept DEF Moves
<1> QED
  BY <1>1, <1>2, <1>3, <1>4, <1>5, CallsKept DEF ChatInv, ChatTyped

LEMMA HearRefusedStep == ASSUME ChatInv, HearRefused PROVE ChatInv'
<1> DEFINE m == Head(replies).message
<1>1. /\ replies # <<>> /\ replies' = Tail(replies) /\ badges' \subseteq badges /\ Head(replies).kind = "refused"
      /\ thread' = Without(thread, m) /\ resends' = Append(resends, m)
      /\ UNCHANGED <<request, calls, events, turn, written, removed, prompts, taken>>
  BY DEF HearRefused, NextAnswer, chatHistory
<1>2. /\ m \in Messages /\ m \in 1..written /\ Shrunk(ReplyRecord, replies, replies') /\ Replied("refused", m)
      /\ m = Head(replies).message
  BY <1>1, NextReply DEF Replied
<1>3. \A a \in Elements(replies') : ~ (a.kind = "refused" /\ a.message = m)
  <2> SUFFICES ASSUME NEW a \in Elements(replies'), a.kind = "refused", a.message = m PROVE FALSE
    OBVIOUS
  <2>1. PICK i \in At(replies') : replies'[i] = a
    BY DEF Elements, At
  <2>2. i + 1 \in At(replies) /\ 1 \in At(replies) /\ replies[i + 1] = a /\ replies[1] = Head(replies) /\ i \in Nat /\ i >= 1
    BY <1>2, <2>1 DEF Shrunk
  <2>3. i + 1 = 1
    BY <1>1, <1>2, <2>2 DEF ChatInv, OneFate
  <2> QED
    BY <2>2, <2>3
<1> HIDE DEF m
<1>4. m \notin Elements(resends) /\ ~Steered(m)
  BY <1>2 DEF ChatInv, OneFate
<1>5. thread' \in Seq(Messages) /\ Simple(thread') /\ Elements(thread') = Elements(thread) \ {m}
  BY <1>1, ChatFacts, WithoutIs DEF ChatInv, OnePlace
<1>6. Grown(Messages, resends, m, resends')
  BY <1>1, <1>2, ChatFacts, AppendIs
<1>7. Elements(resends') = Elements(resends) \cup {m} /\ resends' \in Seq(Messages)
  BY <1>6 DEF Grown
<1>8. Simple(resends')
  <2> SUFFICES ASSUME NEW i \in At(resends'), NEW k \in At(resends'), resends'[i] = resends'[k] PROVE i = k
    BY DEF Simple
  <2>1. \A j \in At(resends) : resends[j] \in Elements(resends)
    BY DEF Elements, At
  <2>2. CASE i # Len(resends) + 1 /\ k # Len(resends) + 1
    BY <1>6, <2>2 DEF Grown, ChatInv, OnePlace, Simple
  <2>3. CASE i = Len(resends) + 1 \/ k = Len(resends) + 1
    BY <1>4, <1>6, <2>1, <2>3 DEF Grown
  <2> QED
    BY <2>2, <2>3
<1>9. OnePlace'
  BY <1>1, <1>2, <1>5, <1>7, <1>8 DEF ChatInv, OnePlace
<1>10. \A x \in Messages : Replied("refused", x)' => Replied("refused", x)
  BY <1>1, RepliesMoved DEF Replied
<1>11. OneFate'
  <2>1. \A x \in Messages : Steered(x) \/ Replied("refused", x)' => x \notin Elements(resends')
    <3> SUFFICES ASSUME NEW x \in Messages, Steered(x) \/ Replied("refused", x)' PROVE x \notin Elements(resends')
      OBVIOUS
    <3>1. x # m
      BY <1>3, <1>4 DEF Replied
    <3>2. x \notin Elements(resends)
      BY <1>10 DEF ChatInv, OneFate
    <3> QED
      BY <1>7, <3>1, <3>2
  <2> QED
    BY <1>1, <2>1, FateMoved DEF Moves
<1> QED
  BY <1>1, <1>5, <1>7, <1>9, <1>11, CallsKept DEF ChatInv, ChatTyped

LEMMA ResendStep == ASSUME ChatInv, Resend PROVE ChatInv'
<1> DEFINE m == Head(resends)
<1>1. /\ resends # <<>> /\ thread' = Append(thread, m) /\ resends' = Tail(resends)
      /\ Idle => StartRequest(thread, m, "chat", FALSE)
      /\ ~Idle => UNCHANGED <<request, prompts>>
      /\ UNCHANGED <<badges, calls, events, replies, turn, written, removed, taken>>
  BY DEF Resend
<1>2. Shrunk(Messages, resends, resends')
  BY <1>1, ChatFacts, TailIs
<1>3. /\ m \in Messages /\ m \in Elements(resends) /\ Elements(resends) = Elements(resends') \cup {m}
      /\ resends' \in Seq(Messages)
  BY <1>2 DEF Shrunk
<1>4. Simple(resends') /\ m \notin Elements(resends')
  BY <1>2, TailSimple DEF ChatInv, OnePlace
<1> HIDE DEF m
<1>5. m \in 1..written /\ m \notin Elements(thread) /\ Elements(thread) \cup ({m} \ {0}) \subseteq 1..written'
  BY <1>1, <1>3 DEF ChatInv, OnePlace
<1>6. written' \in Nat /\ written <= written'
  BY <1>1, ChatFacts
<1>7. Grown(Messages, thread, m, thread')
  BY <1>1, <1>3, ChatFacts, AppendIs
<1>8. OnePlace'
  BY <1>1, <1>3, <1>4, <1>5, <1>6, <1>7, ThreadGrows
<1>9. OneFate' /\ Numbered'
  BY <1>1, <1>3, <1>6, FateKept, NumberedKept DEF Moves
<1>10. /\ Named' /\ ToldBehind' /\ RequestUnderWay' /\ request' \in RequestRecord
       /\ prompts' \in [ChatRequests -> SUBSET Messages]
  <2>1. CASE Idle
    BY <1>1, <1>3, <1>5, <1>6, <2>1, ChatFacts, StartIs
  <2>2. CASE ~Idle
    <3>1. UNCHANGED <<request, prompts>>
      BY <1>1, <2>2
    <3>2. NoStaleBadge'
      BY <2>2, <3>1 DEF NoStaleBadge, Idle
    <3>3. ToldBehind'
      BY <1>1, <3>1, ToldKept DEF Moves
    <3>4. RequestUnderWay'
      BY <1>1, <3>1, <3>2, UnderWayKept
    <3>5. Named'
      BY <1>1, <1>6, <3>1, NamedKept DEF ChatInv, Named
    <3> QED
      BY <3>1, <3>3, <3>4, <3>5, ChatFacts
  <2> QED
    BY <2>1, <2>2
<1>11. ChatTyped'
  BY <1>1, <1>3, <1>7, <1>10 DEF ChatInv, ChatTyped, Grown
<1> QED
  BY <1>8, <1>9, <1>10, <1>11 DEF ChatInv
-----------------------------------------------------------------------------
\* The window reads an event, and waits for its request still.
LEMMA ReceiveKept ==
  ASSUME ChatInv, Receive, events # <<>>, UNCHANGED <<thread, resends, prompts>>, badges' \subseteq badges,
         request' \in RequestRecord, request'.id = request.id, RequestUnderWay'
  PROVE  ChatInv'
<1>1. events' = Tail(events) /\ UNCHANGED <<calls, replies, turn, written, removed, taken>>
  BY DEF Receive
<1>2. events' \in Seq(EventRecord) /\ Elements(events') \subseteq Elements(events)
  <2>1. Shrunk(EventRecord, events, events')
    BY <1>1, ChatFacts, TailIs
  <2> QED
    BY <2>1 DEF Shrunk
<1>3. written' \in Nat /\ written <= written'
  BY <1>1, ChatFacts
<1>4. OneFate' /\ ToldBehind' /\ Numbered' /\ OnePlace'
  BY <1>1, <1>3, FateKept, ToldKept, NumberedKept DEF Moves, ChatInv, OnePlace
<1>5. Named'
  BY <1>1, <1>2, <1>3, NamedKept DEF ChatInv, Named
<1>6. ChatTyped'
  BY <1>1, <1>2 DEF ChatInv, ChatTyped
<1> QED
  BY <1>4, <1>5, <1>6 DEF ChatInv

\* The head of the events.
LEMMA NextEventIs ==
  ASSUME ChatInv, Receive, events # <<>>
  PROVE  /\ Shrunk(EventRecord, events, events') /\ Head(events) \in Elements(events)
         /\ UNCHANGED <<calls, turn, taken, written, removed, replies>>
<1>1. Shrunk(EventRecord, events, events')
  BY ChatFacts, TailIs DEF Receive
<1> QED
  BY <1>1 DEF Shrunk, Receive

LEMMA IgnoreEventStep == ASSUME ChatInv, IgnoreEvent PROVE ChatInv'
<1> DEFINE h == Head(events)
<1>1. /\ events # <<>> /\ Ignored(h) /\ Receive /\ UNCHANGED <<thread, badges, resends, request, prompts>>
  BY DEF IgnoreEvent, windowVars
<1>2. /\ Shrunk(EventRecord, events, events') /\ h \in Elements(events) /\ UNCHANGED <<calls, turn>>
  BY <1>1, NextEventIs
<1>3. h = Head(events)
  OBVIOUS
<1> HIDE DEF h
<1>4. Mine(h) /\ request.stage = "listening" => h.kind \in {"done", "busy"} /\ request.heard
  BY <1>1 DEF Ignored, Subscribed, Mine
<1>5. Mine(h) /\ request.stage = "listening" /\ request.kind = "chat" => ~Ends(h)
  BY <1>2, <1>4 DEF ChatInv, RequestUnderWay, ChatOnly, BusyAlone
<1>6. NoStaleBadge'
  BY <1>1 DEF ChatInv, RequestUnderWay, NoStaleBadge, Idle
<1>7. RequestUnderWay'
  BY <1>1, <1>2, <1>3, <1>4, <1>5, <1>6, EventsUnderWay
<1> QED
  BY <1>1, <1>7, ChatFacts, ReceiveKept

LEMMA HearAgentStep == ASSUME ChatInv, HearAgent PROVE ChatInv'
<1> DEFINE h == Head(events)
<1>1. /\ events # <<>> /\ h.kind \in {"consumed", "state"} /\ ~Ignored(h) /\ Receive
      /\ request' = [request EXCEPT !.heard = TRUE] /\ badges' = badges \ h.keys
      /\ UNCHANGED <<thread, resends, prompts>>
  BY DEF HearAgent, NextEvent
<1>2. Shrunk(EventRecord, events, events') /\ UNCHANGED <<calls, turn>>
  BY <1>1, NextEventIs
<1>3. h = Head(events)
  OBVIOUS
<1> HIDE DEF h
<1>4. Mine(h) /\ request.stage # "idle" /\ ~Ends(h) /\ h.kind # "end"
  BY <1>1 DEF Ignored, Subscribed, Mine, Ends
<1>5. /\ request' \in RequestRecord /\ request'.id = request.id /\ request'.stage = request.stage
  BY <1>1, ChatFacts DEF RequestRecord
<1>6. NoStaleBadge'
  BY <1>4, <1>5 DEF NoStaleBadge, Idle
<1>7. RequestUnderWay'
  BY <1>1, <1>2, <1>3, <1>4, <1>6, EventsUnderWay
<1>8. badges' \subseteq badges
  BY <1>1
<1> QED
  BY <1>1, <1>5, <1>7, <1>8, ReceiveKept

LEMMA HearErrorAndRepeatStep == ASSUME ChatInv, HearErrorAndRepeat PROVE ChatInv'
<1> DEFINE P == prompts[request.id]
<1>1. /\ events # <<>> /\ ~Ignored(Head(events)) /\ Receive /\ request.id < MaxRequests
      /\ request' = [request EXCEPT !.id = request.id + 1, !.stage = "sessions", !.recovery = TRUE, !.heard = FALSE]
      /\ prompts' = [prompts EXCEPT ![request.id + 1] = P]
      /\ badges' = {} /\ UNCHANGED <<thread, resends>>
  BY DEF HearErrorAndRepeat, NextEvent
<1>2. /\ Shrunk(EventRecord, events, events') /\ UNCHANGED <<calls, turn, taken, written, removed, replies>>
  BY <1>1, NextEventIs
<1>3. request.stage # "idle" /\ request.id # 0
  BY <1>1 DEF Ignored, Subscribed, ChatInv, RequestUnderWay
<1>4. request.id \in ChatRequests /\ request.id + 1 \in 0..MaxRequests
  <2>1. request.id \in Nat /\ MaxRequests \in Nat
    BY ChatFacts
  <2> QED
    BY <1>1, <1>3, <2>1 DEF ChatRequests
<1>5. /\ request' \in RequestRecord /\ request'.id = request.id + 1 /\ request'.stage = "sessions" /\ request'.heard = FALSE
  BY <1>1, <1>4, ChatFacts DEF RequestRecord
<1>6. P \in SUBSET Messages /\ P \subseteq 1..written' /\ written' \in Nat /\ written <= written'
  BY <1>2, <1>4, ChatFacts DEF ChatInv, Named
<1>7. Elements(events') \subseteq Elements(events) /\ events' \in Seq(EventRecord)
  BY <1>2 DEF Shrunk
<1> HIDE DEF P
<1>8. /\ Named' /\ ToldBehind' /\ RequestUnderWay' /\ prompts' \in [ChatRequests -> SUBSET Messages]
  BY <1>1, <1>2, <1>5, <1>6, <1>7, NewRequest
<1>9. OneFate' /\ Numbered' /\ OnePlace'
  BY <1>1, <1>2, <1>6, FateKept, NumberedKept DEF Moves, ChatInv, OnePlace
<1>10. ChatTyped'
  BY <1>1, <1>2, <1>5, <1>7, <1>8 DEF ChatInv, ChatTyped
<1> QED
  BY <1>8, <1>9, <1>10 DEF ChatInv
-----------------------------------------------------------------------------
\* The head of the calls.
LEMMA NextCall ==
  ASSUME ChatInv, calls # <<>>, calls' = Tail(calls)
  PROVE  /\ Shrunk(CallRecord, calls, calls') /\ Head(calls) \in CallRecord /\ Head(calls) \in Elements(calls)
         /\ calls' \in Seq(CallRecord) /\ Elements(calls) = Elements(calls') \cup {Head(calls)}
         /\ Moves /\ 1 \in At(calls) /\ calls[1] = Head(calls)
<1>1. Shrunk(CallRecord, calls, calls')
  BY ChatFacts, TailIs
<1> QED
  BY <1>1 DEF Shrunk, Moves

\* A request begins, or is told that another turn runs: nothing else of it is under way.
LEMMA BegunIs ==
  ASSUME ChatInv, Shrunk(CallRecord, calls, calls'), UNCHANGED request, Begins(Head(calls)), Mine(Head(calls))
  PROVE  /\ \A c \in Elements(calls') : ~ (Begins(c) /\ Mine(c))
         /\ ~request.heard /\ turn.id # request.id /\ \A e \in Elements(events) : ~Mine(e)
         /\ request.stage \notin {"sessions", "provider"}
<1>1. Head(calls) \in Elements(calls)
  BY DEF Shrunk
<1>2. ASSUME NEW c \in Elements(calls'), Begins(c), Mine(c) PROVE FALSE
  <2>1. PICK i \in At(calls') : calls'[i] = c
    BY DEF Elements, At
  <2>2. i + 1 \in At(calls) /\ 1 \in At(calls) /\ calls[i + 1] = c /\ calls[1] = Head(calls) /\ i \in Nat /\ i >= 1
    BY <2>1 DEF Shrunk
  <2>3. i + 1 = 1
    BY <1>2, <2>2 DEF ChatInv, RequestUnderWay, BeginsOnce, OneBegins, Mine
  <2> QED
    BY <2>2, <2>3
<1> QED
  BY <1>1, <1>2 DEF ChatInv, RequestUnderWay, BeginsOnce, NotYet

\* The turn does not run that the call would begin, or it begins.
LEMMA HandleStartStep == ASSUME ChatInv, HandleStart PROVE ChatInv'
<1> DEFINE h == Head(calls)
           busy == Event("busy", h.id, {})
           begun == [NoTurn EXCEPT !.id = h.id, !.phase = "running", !.kind = IF h.kind = "start" THEN "chat" ELSE "compact"]
<1>1. /\ calls # <<>> /\ h.kind \in {"start", "compact"} /\ calls' = Tail(calls)
      /\ UNCHANGED <<thread, badges, resends, request, written, removed, prompts, taken, replies>>
      /\ TurnRuns => events' = Append(events, busy) /\ UNCHANGED turn
      /\ ~TurnRuns => turn' = begun /\ UNCHANGED events
  BY DEF HandleStart, Called, windowVars, chatHistory
<1>2. /\ Shrunk(CallRecord, calls, calls') /\ h \in CallRecord /\ h \in Elements(calls) /\ calls' \in Seq(CallRecord)
      /\ Elements(calls) = Elements(calls') \cup {h} /\ Moves
  BY <1>1, NextCall
<1>3. Begins(h) /\ h.id \in 1..request.id /\ h.id \in ChatRequests /\ h.id \in 0..MaxRequests /\ h.id # 0 /\ h.id <= request.id
  <2>1. Begins(h) /\ h.id \in 1..request.id
    BY <1>1, <1>2 DEF Begins, ChatInv, Named
  <2>2. request.id \in Nat /\ MaxRequests \in Nat /\ request.id <= MaxRequests
    BY ChatFacts
  <2> QED
    BY <2>1, <2>2 DEF ChatRequests
<1>4. /\ busy \in EventRecord /\ busy.kind = "busy" /\ busy.id = h.id
      /\ begun \in TurnRecord /\ begun.id = h.id /\ begun.port = <<>> /\ begun.phase = "running" /\ ~begun.aborted
      /\ begun.kind = IF h.kind = "start" THEN "chat" ELSE "compact"
  <2>1. <<>> \in Seq(Messages)
    OBVIOUS
  <2> QED
    BY <1>3, <2>1 DEF Event, EventRecord, TurnRecord, NoTurn
<1>5. Mine(h) => /\ \A c \in Elements(calls') : ~ (Begins(c) /\ Mine(c))
                 /\ ~request.heard /\ turn.id # request.id /\ \A e \in Elements(events) : ~Mine(e)
                 /\ request.stage \notin {"sessions", "provider"}
  BY <1>1, <1>2, <1>3, BegunIs
<1>6. h.id = request.id <=> Mine(h)
  BY DEF Mine
<1>7. h = Head(calls)
  OBVIOUS
<1>8. OneBegins(calls', request'.id)
  BY <1>1, <1>2, BegunOnce
<1> HIDE DEF h, busy, begun
<1>9. \A x : Mine(x)' = Mine(x)
  BY <1>1 DEF Mine
<1>10. CASE TurnRuns
  <2>1. Grown(EventRecord, events, busy, events') /\ turn' = turn
    BY <1>1, <1>4, <1>10, ChatFacts, AppendIs
  <2>2. events' \in Seq(EventRecord) /\ Elements(events') = Elements(events) \cup {busy}
    BY <2>1 DEF Grown
  <2>3. OneFate' /\ ToldBehind' /\ Numbered' /\ OnePlace' /\ ChatTyped'
    <3>1. written' \in Nat /\ written <= written'
      BY <1>1, ChatFacts
    <3>2. OneFate' /\ ToldBehind'
      BY <1>1, <1>2, <2>1, FateKept, ToldKept
    <3>3. Numbered'
      BY <1>1, <2>1, <3>1, NumberedKept
    <3>4. OnePlace' /\ ChatTyped'
      BY <1>1, <1>2, <2>1, <2>2 DEF ChatInv, OnePlace, ChatTyped
    <3> QED
      BY <3>2, <3>3, <3>4
  <2>4. Named'
    BY <1>1, <1>2, <1>3, <1>4, <2>1, <2>2, ChatFacts, NamedKept DEF ChatInv, Named
  <2>5. Mine(busy) <=> Mine(h)
    BY <1>4 DEF Mine
  <2>6. NotYet' /\ ChatOnly'
    BY <1>1, <1>2, <1>4, <1>5, <1>9, <2>1, <2>2, <2>5 DEF ChatInv, RequestUnderWay, NotYet, ChatOnly
  <2>7. BeginsOnce'
    BY <1>1, <1>2, <1>5, <1>8, <1>9, <2>1, <2>2, <2>5 DEF ChatInv, RequestUnderWay, BeginsOnce
  <2>8. BusyAlone'
    BY <1>1, <1>4, <1>5, <1>9, <2>1, <2>2, <2>5 DEF ChatInv, RequestUnderWay, BusyAlone
  <2>9. AbortsIdle' /\ EndComes' /\ NoStaleBadge'
    BY <1>1, <1>2, <1>9, <2>1, <2>2 DEF ChatInv, RequestUnderWay, AbortsIdle, EndComes, NoStaleBadge, Idle, TurnRuns
  <2>10. AnswersHeard'
    BY <1>1, <1>2, <1>4, <2>1, <2>2 DEF ChatInv, RequestUnderWay, AnswersHeard, Awaiting
  <2> QED
    BY <1>1, <2>3, <2>4, <2>6, <2>7, <2>8, <2>9, <2>10 DEF ChatInv, RequestUnderWay
<1>11. CASE ~TurnRuns
  <2>1. turn' = begun /\ events' = events /\ turn'.port = <<>> /\ turn'.id = h.id /\ ~turn'.aborted /\ turn'.phase = "running"
    BY <1>1, <1>4, <1>11
  <2>2. Elements(turn'.port) = {}
    BY <2>1 DEF Elements
  <2>3. OneFate' /\ Numbered' /\ OnePlace' /\ ChatTyped'
    BY <1>1, <1>2, <1>4, <2>1, <2>2, ChatFacts, FateKept, NumberedKept DEF ChatInv, OnePlace, ChatTyped
  <2>4. Named'
    BY <1>1, <1>2, <1>3, <2>1, ChatFacts, NamedKept DEF ChatInv, Named
  <2>5. ToldBehind'
    <3>1. ASSUME NEW i \in At(calls'), calls'[i].kind = "steer", NEW r \in ChatRequests, calls'[i].message \in prompts'[r]
          PROVE  turn'.id # r /\ \A k \in 1..i : ~ (Begins(calls'[k]) /\ calls'[k].id = r)
      <4>1. i + 1 \in At(calls) /\ calls'[i] = calls[i + 1] /\ i \in Nat /\ i >= 1 /\ calls[1] = h
        BY <1>2, <1>7, <3>1 DEF Shrunk
      <4>2. \A k \in 1..(i + 1) : ~ (Begins(calls[k]) /\ calls[k].id = r)
        BY <1>1, <3>1, <4>1 DEF ChatInv, ToldBehind
      <4>3. 1 \in 1..(i + 1) /\ \A k \in 1..i : k + 1 \in 1..(i + 1) /\ k \in At(calls')
        <5>1. Len(calls') \in Nat
          BY <1>2
        <5> QED
          BY <4>1, <5>1, <3>1 DEF At
      <4>4. \A k \in 1..i : calls'[k] = calls[k + 1]
        BY <1>2, <4>3 DEF Shrunk
      <4> QED
        BY <1>3, <2>1, <4>1, <4>2, <4>3, <4>4
    <3> QED
      BY <1>1, <2>2, <3>1 DEF ChatInv, ToldBehind, ToldOnce
  <2>6. NotYet' /\ ChatOnly'
    <3>1. Mine(h) /\ request.kind = "chat" => turn'.kind = "chat"
      BY <1>1, <1>2, <1>4, <2>1 DEF ChatInv, RequestUnderWay, ChatOnly
    <3> QED
      BY <1>1, <1>2, <1>5, <1>6, <1>9, <2>1, <3>1 DEF ChatInv, RequestUnderWay, NotYet, ChatOnly
  <2>7. BeginsOnce'
    BY <1>1, <1>2, <1>5, <1>6, <1>8, <1>9, <2>1 DEF ChatInv, RequestUnderWay, BeginsOnce
  <2>8. BusyAlone'
    BY <1>1, <1>5, <1>6, <1>9, <2>1 DEF ChatInv, RequestUnderWay, BusyAlone
  <2>9. AbortsIdle' /\ EndComes' /\ NoStaleBadge'
    BY <1>1, <1>2, <1>9, <2>1 DEF ChatInv, RequestUnderWay, AbortsIdle, EndComes, NoStaleBadge, Idle
  <2>10. AnswersHeard'
    BY <1>1, <1>2, <1>11, <2>1 DEF ChatInv, RequestUnderWay, AnswersHeard, Awaiting, TurnRuns
  <2> QED
    BY <1>1, <2>3, <2>4, <2>5, <2>6, <2>7, <2>8, <2>9, <2>10 DEF ChatInv, RequestUnderWay
<1> QED
  BY <1>10, <1>11

LEMMA HandleAbortStep == ASSUME ChatInv, HandleAbort PROVE ChatInv'
<1> DEFINE h == Head(calls)
<1>1. /\ calls # <<>> /\ h.kind = "abort" /\ calls' = Tail(calls)
      /\ UNCHANGED <<thread, badges, resends, request, written, removed, prompts, taken, events, replies>>
      /\ turn' = IF turn.id = h.id THEN [turn EXCEPT !.aborted = TRUE] ELSE turn
  BY DEF HandleAbort, Called, windowVars, chatHistory
<1>2. /\ Shrunk(CallRecord, calls, calls') /\ h \in Elements(calls) /\ calls' \in Seq(CallRecord)
      /\ Elements(calls) = Elements(calls') \cup {h} /\ Moves
  BY <1>1, NextCall
<1>3. OneBegins(calls', request'.id)
  BY <1>1, <1>2, BegunOnce
<1> HIDE DEF h
<1>4. /\ turn' \in TurnRecord /\ turn'.id = turn.id /\ turn'.port = turn.port /\ turn'.kind = turn.kind
      /\ turn'.phase = turn.phase /\ (turn'.aborted => turn.aborted \/ turn.id = h.id)
  BY <1>1, ChatFacts DEF TurnRecord
<1>5. OneFate' /\ ToldBehind' /\ Numbered' /\ OnePlace' /\ ChatTyped'
  <2>1. written' \in Nat /\ written <= written'
    BY <1>1, ChatFacts
  <2>2. OneFate' /\ ToldBehind'
    BY <1>1, <1>2, <1>4, FateKept, ToldKept
  <2>3. Numbered'
    BY <1>1, <1>4, <2>1, NumberedKept
  <2>4. OnePlace' /\ ChatTyped'
    BY <1>1, <1>2, <1>4 DEF ChatInv, OnePlace, ChatTyped
  <2> QED
    BY <2>2, <2>3, <2>4
<1>6. Named'
  BY <1>1, <1>2, <1>4, ChatFacts, NamedKept DEF ChatInv, Named
<1>7. \A x : Mine(x)' = Mine(x)
  BY <1>1 DEF Mine
<1>8. NotYet' /\ ChatOnly' /\ BeginsOnce' /\ BusyAlone'
  BY <1>1, <1>2, <1>3, <1>4, <1>7 DEF ChatInv, RequestUnderWay, NotYet, ChatOnly, BeginsOnce, BusyAlone
<1>9. AbortsIdle'
  BY <1>1, <1>2, <1>4, <1>7 DEF ChatInv, RequestUnderWay, AbortsIdle, Idle, TurnRuns, Mine
<1>10. EndComes' /\ NoStaleBadge'
  BY <1>1, <1>2, <1>4, <1>7 DEF ChatInv, RequestUnderWay, EndComes, NoStaleBadge, Idle, TurnRuns
<1>11. AnswersHeard'
  BY <1>1, <1>2, <1>4 DEF ChatInv, RequestUnderWay, AnswersHeard, Awaiting
<1> QED
  BY <1>1, <1>5, <1>6, <1>8, <1>9, <1>10, <1>11 DEF ChatInv, RequestUnderWay
-----------------------------------------------------------------------------
\* A call is answered; a message that was refused is not refused again.
LEMMA AnsweredIs ==
  ASSUME ChatInv, calls # <<>>, calls' = Tail(calls), Head(calls).kind \in {"steer", "cancel"},
         NEW kind \in {"accepted", "full", "refused", "cancelled", "kept"}, Answered(kind),
         kind = "refused" => ~Replied("refused", Head(calls).message)
  PROVE  /\ Head(calls).message \in 1..written /\ Head(calls).message \in Messages
         /\ Grown(ReplyRecord, replies, Reply(kind, Head(calls).message), replies')
         /\ \A k, x : Replied(k, x)' <=> Replied(k, x) \/ (k = kind /\ x = Head(calls).message)
         /\ \A i, k \in At(replies') :
              replies'[i].kind = "refused" /\ replies'[k].kind = "refused" /\ replies'[i].message = replies'[k].message => i = k
<1> DEFINE m == Head(calls).message
           a == Reply(kind, m)
<1>1. m \in 1..written /\ m \in Messages
  <2>1. m \in 1..written
    BY NextCall DEF ChatInv, Named
  <2> QED
    BY <2>1, ChatFacts DEF Messages
<1>2. a \in ReplyRecord /\ a.kind = kind /\ a.message = m
  BY <1>1 DEF Reply, ReplyRecord
<1>3. replies' = Append(replies, a) /\ (kind = "refused" => ~Replied("refused", m))
  BY DEF Answered
<1> HIDE DEF m, a
<1>4. Grown(ReplyRecord, replies, a, replies')
  BY <1>2, <1>3, ChatFacts, AppendIs
<1>5. \A k, x : Replied(k, x)' <=> Replied(k, x) \/ (k = kind /\ x = m)
  BY <1>2, <1>4 DEF Grown, Replied
<1>6. ASSUME NEW i \in At(replies'), NEW k \in At(replies'), replies'[i].kind = "refused",
             replies'[k].kind = "refused", replies'[i].message = replies'[k].message
      PROVE  i = k
  <2>1. \A j \in At(replies) : replies[j] \in Elements(replies)
    BY DEF Elements, At
  <2>2. CASE i # Len(replies) + 1 /\ k # Len(replies) + 1
    BY <1>4, <1>6, <2>2 DEF Grown, ChatInv, OneFate
  <2>3. CASE i = Len(replies) + 1 \/ k = Len(replies) + 1
    BY <1>2, <1>3, <1>4, <1>6, <2>1, <2>3 DEF Grown, Replied
  <2> QED
    BY <2>2, <2>3
<1> QED
  BY <1>1, <1>4, <1>5, <1>6 DEF m, a

\* The head of the calls steers no more, and the others do still.
LEMMA SteeredTail ==
  ASSUME ChatInv, calls # <<>>, calls' = Tail(calls)
  PROVE  /\ \A x \in Messages : Steered(x)' => Steered(x)
         /\ Head(calls).kind = "steer" =>
              Steered(Head(calls).message) /\ \A x : x = Head(calls).message => ~Steered(x)'
         /\ \A i, k \in At(calls') : calls'[i].kind = "steer" /\ Steers(calls'[k], calls'[i].message) => i = k
<1> DEFINE h == Head(calls)
<1>1. Shrunk(CallRecord, calls, calls') /\ Elements(calls) = Elements(calls') \cup {h}
      /\ 1 \in At(calls) /\ calls[1] = h
  BY NextCall
<1> HIDE DEF h
<1>2. \A i \in At(calls') : i + 1 \in At(calls) /\ calls'[i] = calls[i + 1] /\ i \in Nat /\ i >= 1
  BY <1>1 DEF Shrunk
<1>3. ASSUME NEW i \in At(calls'), NEW k \in At(calls'), calls'[i].kind = "steer", Steers(calls'[k], calls'[i].message)
      PROVE  i = k
  <2>1. i + 1 = k + 1
    BY <1>2, <1>3 DEF ChatInv, OneFate
  <2> QED
    BY <1>2, <2>1
<1>4. ASSUME h.kind = "steer", NEW c \in Elements(calls'), Steers(c, h.message) PROVE FALSE
  <2>1. PICK i \in At(calls') : calls'[i] = c
    BY DEF Elements, At
  <2>2. i + 1 = 1
    BY <1>1, <1>2, <1>4, <2>1 DEF ChatInv, OneFate
  <2> QED
    BY <1>2, <2>2
<1>5. \A x \in Messages : Steered(x)' => Steered(x)
  BY <1>1 DEF Steered
<1>6. h.kind = "steer" => Steered(h.message)
  BY <1>1 DEF Steered, Steers
<1>7. h.kind = "steer" => \A x : x = h.message => ~Steered(x)'
  BY <1>4 DEF Steered
<1> QED
  BY <1>3, <1>5, <1>6, <1>7 DEF h

\* A call of the person is answered: who waits for the turn changes at most by its message.
LEMMA AnsweredStep ==
  ASSUME ChatInv, Called({"steer", "cancel"}), UNCHANGED events,
         NEW kind \in {"accepted", "full", "refused", "cancelled", "kept"},
         Grown(ReplyRecord, replies, Reply(kind, Head(calls).message), replies'), Head(calls).message \in 1..written,
         NEW p \in Seq(Messages), turn' = [turn EXCEPT !.port = p], turn.id = 0 => p = <<>>,
         \A x \in Elements(p) : x \in Elements(turn.port) \/ (Head(calls).kind = "steer" /\ x = Head(calls).message),
         OneFate'
  PROVE  ChatInv'
<1> DEFINE h == Head(calls)
<1>1. /\ calls # <<>> /\ calls' = Tail(calls) /\ h.kind \in {"steer", "cancel"}
      /\ UNCHANGED <<thread, badges, resends, request, written, removed, prompts, taken>>
  BY DEF Called, windowVars, chatHistory
<1>2. /\ Shrunk(CallRecord, calls, calls') /\ calls' \in Seq(CallRecord) /\ Elements(calls) = Elements(calls') \cup {h}
      /\ Moves /\ 1 \in At(calls) /\ calls[1] = h
  BY <1>1, NextCall
<1>3. /\ turn' \in TurnRecord /\ turn'.id = turn.id /\ turn'.kind = turn.kind /\ turn'.phase = turn.phase
      /\ turn'.aborted = turn.aborted /\ turn'.port = p
  BY ChatFacts DEF TurnRecord
<1>4. /\ replies' \in Seq(ReplyRecord) /\ \A a \in Elements(replies') : a \in Elements(replies) \/ a.message = h.message
  BY DEF Grown, Reply
<1>5. h.message \in 1..written /\ Elements(p) \subseteq 1..written
  BY DEF ChatInv, Numbered
<1>6. \A x \in Elements(p) : x \in Elements(turn.port) \/ (h.kind = "steer" /\ x = h.message)
  OBVIOUS
<1>7. h = Head(calls)
  OBVIOUS
<1> HIDE DEF h
<1>8. Numbered'
  BY <1>1, <1>3, <1>4, <1>5 DEF ChatInv, Numbered
<1>9. NoStaleBadge'
  BY <1>1 DEF ChatInv, RequestUnderWay, NoStaleBadge, Idle
<1>10. RequestUnderWay'
  BY <1>1, <1>2, <1>3, <1>7, <1>9, UnderWayKept
<1>11. Named'
  BY <1>1, <1>2, <1>3, ChatFacts, NamedKept DEF ChatInv, Named
<1>12. ToldBehind'
  <2>1. ASSUME NEW i \in At(calls'), calls'[i].kind = "steer", NEW r \in ChatRequests, calls'[i].message \in prompts'[r]
        PROVE  turn'.id # r /\ \A k \in 1..i : ~ (Begins(calls'[k]) /\ calls'[k].id = r)
    <3>1. i + 1 \in At(calls) /\ calls'[i] = calls[i + 1] /\ i \in Nat
      BY <1>2, <2>1 DEF Shrunk
    <3>2. turn.id # r /\ \A k \in 1..(i + 1) : ~ (Begins(calls[k]) /\ calls[k].id = r)
      BY <1>1, <2>1, <3>1 DEF ChatInv, ToldBehind
    <3>3. \A k \in 1..i : k + 1 \in 1..(i + 1) /\ k \in At(calls')
      <4>1. Len(calls') \in Nat
        BY <1>2
      <4> QED
        BY <2>1, <3>1, <4>1 DEF At
    <3>4. \A k \in 1..i : calls'[k] = calls[k + 1]
      BY <1>2, <3>3 DEF Shrunk
    <3> QED
      BY <1>3, <3>2, <3>3, <3>4
  <2>2. ASSUME NEW x \in Elements(p), NEW r \in ChatRequests, x \in prompts[r] PROVE turn.id # r
    BY <1>2, <1>6, <2>2 DEF ChatInv, ToldBehind
  <2> QED
    BY <1>1, <1>3, <2>1, <2>2 DEF ChatInv, ToldBehind, ToldOnce
<1>13. ChatTyped' /\ OnePlace'
  BY <1>1, <1>2, <1>3, <1>4 DEF ChatInv, ChatTyped, OnePlace
<1> QED
  BY <1>8, <1>10, <1>11, <1>12, <1>13 DEF ChatInv

\* Messages have one fate still when a call is answered with m.
LEMMA FateAnswered ==
  ASSUME ChatInv, UNCHANGED <<resends, taken>>, NEW m \in Messages, NEW kind, NEW p, turn'.port = p, Simple(p),
         \A i, k \in At(calls') : calls'[i].kind = "steer" /\ Steers(calls'[k], calls'[i].message) => i = k,
         \A i, k \in At(replies') :
           replies'[i].kind = "refused" /\ replies'[k].kind = "refused" /\ replies'[i].message = replies'[k].message => i = k,
         \A x \in Messages : Steered(x)' => Steered(x),
         \A k, x : Replied(k, x)' <=> Replied(k, x) \/ (k = kind /\ x = m),
         \A x \in Elements(p) : x \in Elements(turn.port) \/ (x = m /\ Steered(m) /\ ~Steered(m)'),
         kind # "kept" => ~Steered(m)',
         kind \in {"refused", "cancelled"} => m \notin Elements(p),
         kind = "refused" => m \notin Elements(resends), kind = "cancelled" => Untaken(m)
  PROVE  OneFate'
<1>1. \A x \in Messages : Untaken(x)' = Untaken(x)
  BY DEF Untaken
<1>2. \A x \in Messages : Replied("refused", x)' => Replied("refused", x) \/ (kind = "refused" /\ x = m)
  OBVIOUS
<1>3. \A x \in Messages : Replied("cancelled", x)' => Replied("cancelled", x) \/ (kind = "cancelled" /\ x = m)
  OBVIOUS
<1>4. ASSUME NEW x \in Messages, Steered(x)' \/ x \in Elements(p)
      PROVE  ~Replied("refused", x)' /\ ~Replied("cancelled", x)' /\ Untaken(x)'
  <2>1. Steered(x) \/ x \in Elements(turn.port)
    BY <1>4
  <2>2. ~Replied("refused", x) /\ ~Replied("cancelled", x) /\ Untaken(x)
    BY <2>1 DEF ChatInv, OneFate
  <2>3. ~ (x = m /\ kind \in {"refused", "cancelled"})
    BY <1>4
  <2> QED
    BY <1>1, <1>2, <1>3, <2>2, <2>3
<1>5. ASSUME NEW x \in Messages, Steered(x)' PROVE x \notin Elements(p)
  <2>1. x \notin Elements(turn.port)
    BY <1>5 DEF ChatInv, OneFate
  <2>2. CASE kind # "kept"
    BY <1>5, <2>1, <2>2
  <2>3. CASE kind = "kept"
    BY <1>5, <2>1, <2>3
  <2> QED
    BY <2>2, <2>3
<1>6. \A x \in Messages : Steered(x)' \/ Replied("refused", x)' => x \notin Elements(resends')
  BY <1>2 DEF ChatInv, OneFate
<1>7. \A x \in Messages : Replied("cancelled", x)' => Untaken(x)'
  BY <1>1, <1>3 DEF ChatInv, OneFate
<1> QED
  BY <1>4, <1>5, <1>6, <1>7 DEF OneFate

LEMMA HandleSteerStep == ASSUME ChatInv, HandleSteer PROVE ChatInv'
<1> PICK m : m = Head(calls).message
  OBVIOUS
<1>1. /\ Called({"steer"}) /\ Called({"steer", "cancel"}) /\ calls # <<>> /\ calls' = Tail(calls) /\ Head(calls).kind = "steer"
      /\ UNCHANGED <<events, resends, taken>>
  BY DEF HandleSteer, Called, windowVars, chatHistory
<1>2. \/ Answered("refused") /\ turn' = turn
      \/ Answered("full") /\ turn' = turn
      \/ TurnRuns /\ Answered("accepted") /\ turn' = [turn EXCEPT !.port = Append(turn.port, m)]
  BY DEF HandleSteer
<1>3. /\ \A x \in Messages : Steered(x)' => Steered(x) /\ x # m
      /\ Steered(m) /\ ~Steered(m)'
      /\ \A i, k \in At(calls') : calls'[i].kind = "steer" /\ Steers(calls'[k], calls'[i].message) => i = k
  BY <1>1, SteeredTail
<1>4. m \in 1..written /\ m \in Messages
  <2>1. m \in 1..written
    BY <1>1, NextCall DEF ChatInv, Named
  <2> QED
    BY <2>1, ChatFacts DEF Messages
<1>5. /\ m = Head(calls).message
      /\ ~Replied("refused", m) /\ ~Replied("cancelled", m) /\ Untaken(m) /\ m \notin Elements(turn.port)
      /\ m \notin Elements(resends)
  BY <1>3, <1>4 DEF ChatInv, OneFate
<1>6. \A x \in Messages : Untaken(x)' = Untaken(x)
  BY <1>1 DEF Untaken
<1>7. ASSUME NEW kind \in {"refused", "full"}, Answered(kind), turn' = turn PROVE ChatInv'
  <2>1. /\ Grown(ReplyRecord, replies, Reply(kind, m), replies')
        /\ \A k, x : Replied(k, x)' <=> Replied(k, x) \/ (k = kind /\ x = m)
        /\ \A i, k \in At(replies') :
             replies'[i].kind = "refused" /\ replies'[k].kind = "refused" /\ replies'[i].message = replies'[k].message => i = k
    BY <1>1, <1>5, <1>7, AnsweredIs
  <2>2. OneFate'
    <3>1. turn'.port = turn.port /\ Simple(turn.port) /\ m \notin Elements(turn.port)
      BY <1>5, <1>7 DEF ChatInv, OneFate
    <3> QED
      BY <1>1, <1>3, <1>4, <1>5, <2>1, <3>1, FateAnswered
  <2>3. /\ turn' = [turn EXCEPT !.port = turn.port] /\ turn.port \in Seq(Messages)
        /\ (turn.id = 0 => turn.port = <<>>)
    BY <1>7, ChatFacts DEF TurnRecord, ChatInv, Named
  <2> QED
    BY <1>1, <1>4, <1>5, <1>7, <2>1, <2>2, <2>3, AnsweredStep
<1>8. ASSUME TurnRuns, Answered("accepted"), turn' = [turn EXCEPT !.port = Append(turn.port, m)] PROVE ChatInv'
  <2> DEFINE p == Append(turn.port, m)
  <2>1. /\ Grown(ReplyRecord, replies, Reply("accepted", m), replies')
        /\ \A k, x : Replied(k, x)' <=> Replied(k, x) \/ (k = "accepted" /\ x = m)
        /\ \A i, k \in At(replies') :
             replies'[i].kind = "refused" /\ replies'[k].kind = "refused" /\ replies'[i].message = replies'[k].message => i = k
    BY <1>1, <1>5, <1>8, AnsweredIs
  <2>2. Grown(Messages, turn.port, m, p)
    BY <1>4, ChatFacts, AppendIs
  <2>3. turn' = [turn EXCEPT !.port = p] /\ turn.id # 0
    BY <1>8 DEF TurnRuns
  <2> HIDE DEF p
  <2>4. p \in Seq(Messages) /\ Elements(p) = Elements(turn.port) \cup {m}
    BY <2>2 DEF Grown
  <2>5. turn'.port = p
    BY <2>3, ChatFacts DEF TurnRecord
  <2>6. Simple(p)
    <3> SUFFICES ASSUME NEW i \in At(p), NEW k \in At(p), p[i] = p[k] PROVE i = k
      BY DEF Simple
    <3>1. \A j \in At(turn.port) : turn.port[j] \in Elements(turn.port)
      BY DEF Elements, At
    <3>2. CASE i # Len(turn.port) + 1 /\ k # Len(turn.port) + 1
      BY <2>2, <3>2 DEF Grown, ChatInv, OneFate, Simple
    <3>3. CASE i = Len(turn.port) + 1 \/ k = Len(turn.port) + 1
      BY <1>5, <2>2, <3>1, <3>3 DEF Grown
    <3> QED
      BY <3>2, <3>3
  <2>7. OneFate'
    BY <1>1, <1>3, <1>4, <1>5, <2>1, <2>4, <2>5, <2>6, FateAnswered
  <2>8. \A x \in Elements(p) : x \in Elements(turn.port) \/ (Head(calls).kind = "steer" /\ x = Head(calls).message)
    BY <1>1, <1>5, <2>4
  <2> QED
    BY <1>1, <1>4, <1>5, <2>1, <2>3, <2>4, <2>7, <2>8, AnsweredStep
<1> QED
  BY <1>2, <1>7, <1>8

LEMMA HandleCancelStep == ASSUME ChatInv, HandleCancel PROVE ChatInv'
<1> PICK m : m = Head(calls).message
  OBVIOUS
<1>1. /\ Called({"cancel"}) /\ Called({"steer", "cancel"}) /\ calls # <<>> /\ calls' = Tail(calls) /\ Head(calls).kind = "cancel"
      /\ UNCHANGED <<events, resends, taken>>
  BY DEF HandleCancel, Called, windowVars, chatHistory
<1>2. \/ m \in Elements(turn.port) /\ Answered("cancelled") /\ turn' = [turn EXCEPT !.port = Without(turn.port, m)]
      \/ Answered("kept") /\ turn' = turn
  BY DEF HandleCancel
<1>3. /\ \A x \in Messages : Steered(x)' => Steered(x)
      /\ \A i, k \in At(calls') : calls'[i].kind = "steer" /\ Steers(calls'[k], calls'[i].message) => i = k
  BY <1>1, SteeredTail
<1>4. m \in 1..written /\ m \in Messages /\ m = Head(calls).message
  <2>1. m \in 1..written
    BY <1>1, NextCall DEF ChatInv, Named
  <2> QED
    BY <2>1, ChatFacts DEF Messages
<1>5. \A x \in Messages : Untaken(x)' = Untaken(x)
  BY <1>1 DEF Untaken
<1>6. ASSUME NEW kind \in {"cancelled", "kept"}, Answered(kind)
      PROVE  /\ Grown(ReplyRecord, replies, Reply(kind, m), replies')
             /\ \A k, x : Replied(k, x)' <=> Replied(k, x) \/ (k = kind /\ x = m)
             /\ \A i, k \in At(replies') :
                  replies'[i].kind = "refused" /\ replies'[k].kind = "refused" /\ replies'[i].message = replies'[k].message => i = k
  BY <1>1, <1>4, <1>6, AnsweredIs
<1>7. CASE m \in Elements(turn.port) /\ Answered("cancelled") /\ turn' = [turn EXCEPT !.port = Without(turn.port, m)]
  <2> DEFINE p == Without(turn.port, m)
  <2>1. p \in Seq(Messages) /\ Simple(p) /\ Elements(p) = Elements(turn.port) \ {m}
    BY ChatFacts, WithoutIs DEF ChatInv, OneFate
  <2>2. turn' = [turn EXCEPT !.port = p]
    BY <1>7
  <2>3. turn.id # 0
    BY <1>7 DEF ChatInv, Named, Elements
  <2> HIDE DEF p
  <2>4. turn'.port = p
    BY <2>2, ChatFacts DEF TurnRecord
  <2>5. ~Steered(m) /\ Untaken(m)
    BY <1>4, <1>7 DEF ChatInv, OneFate
  <2>8. ~Steered(m)'
    BY <1>3, <1>4, <2>5
  <2>6. OneFate'
    BY <1>1, <1>3, <1>4, <1>6, <1>7, <2>1, <2>4, <2>5, <2>8, FateAnswered
  <2>7. \A x \in Elements(p) : x \in Elements(turn.port)
    BY <2>1
  <2> QED
    BY <1>1, <1>4, <1>6, <1>7, <2>1, <2>2, <2>3, <2>6, <2>7, AnsweredStep
<1>8. CASE Answered("kept") /\ turn' = turn
  <2>1. OneFate'
    <3>1. turn'.port = turn.port /\ Simple(turn.port)
      BY <1>8 DEF ChatInv, OneFate
    <3>2. /\ \A k, x : Replied(k, x)' <=> Replied(k, x) \/ (k = "kept" /\ x = m)
          /\ \A i, k \in At(replies') :
               replies'[i].kind = "refused" /\ replies'[k].kind = "refused" /\ replies'[i].message = replies'[k].message => i = k
      BY <1>6, <1>8
    <3> QED
      BY <1>1, <1>3, <1>4, <3>1, <3>2, FateAnswered
  <2>2. /\ turn' = [turn EXCEPT !.port = turn.port] /\ turn.port \in Seq(Messages)
        /\ (turn.id = 0 => turn.port = <<>>)
    BY <1>8, ChatFacts DEF TurnRecord, ChatInv, Named
  <2> QED
    BY <1>1, <1>4, <1>6, <1>8, <2>1, <2>2, AnsweredStep
<1> QED
  BY <1>2, <1>7, <1>8
-----------------------------------------------------------------------------
\* The turn tells the window something, and goes on or ends.
LEMMA EmitUnderWay ==
  ASSUME ChatInv, TurnRuns, UNCHANGED <<calls, request, badges>>, NEW e \in EventRecord, e.id = turn.id, e.kind # "busy",
         Grown(EventRecord, events, e, events'), turn.kind = "chat" => e.kind \notin {"state", "done"},
         \/ /\ turn'.id = turn.id /\ turn'.kind = turn.kind /\ turn'.aborted = turn.aborted
            /\ turn'.phase = "closing" => e.kind = "end" \/ turn.phase = "closing"
         \/ turn'.id = 0 /\ Ends(e)
  PROVE  RequestUnderWay'
<1>1. request.id # 0 /\ turn.id # 0
  <2>1. turn.id \in Nat /\ request.id \in Nat /\ turn.id <= request.id /\ turn.id # 0
    BY ChatFacts DEF TurnRuns
  <2> QED
    BY <2>1
<1>2. /\ \A x : Mine(x)' = Mine(x)
      /\ Mine(e) <=> turn.id = request.id
      /\ Elements(events') = Elements(events) \cup {e}
      /\ turn'.id = request.id => turn'.id = turn.id /\ turn'.kind = turn.kind
  BY <1>1 DEF Mine, Grown
<1>3. NotYet' /\ ChatOnly'
  BY <1>1, <1>2 DEF ChatInv, RequestUnderWay, NotYet, ChatOnly
<1>4. BeginsOnce' /\ BusyAlone'
  BY <1>1, <1>2 DEF ChatInv, RequestUnderWay, BeginsOnce, BusyAlone
<1>5. AbortsIdle'
  BY <1>2 DEF ChatInv, RequestUnderWay, AbortsIdle, Idle, TurnRuns
<1>6. EndComes'
  BY <1>1, <1>2 DEF ChatInv, RequestUnderWay, EndComes, TurnRuns
<1>7. AnswersHeard' /\ NoStaleBadge'
  <2> SUFFICES ASSUME request.stage = "listening", request.kind = "chat" PROVE Awaiting(request.id)'
    BY DEF AnswersHeard, ChatInv, RequestUnderWay, NoStaleBadge, Idle
  <2>1. Awaiting(request.id)
    BY DEF ChatInv, RequestUnderWay, AnswersHeard
  <2> QED
    BY <1>2, <2>1 DEF Awaiting, Ends
<1> QED
  BY <1>1, <1>3, <1>4, <1>5, <1>6, <1>7 DEF ChatInv, RequestUnderWay

\* What a turn emits has its type and its name.
LEMMA EmitIs ==
  ASSUME ChatInv, TurnRuns, NEW kind \in {"consumed", "state", "end", "error", "done"}, NEW keys \in SUBSET Messages,
         Emit(kind, keys)
  PROVE  /\ turn.id \in ChatRequests /\ turn.id \in 1..request.id
         /\ Event(kind, turn.id, keys) \in EventRecord
         /\ Event(kind, turn.id, keys).id = turn.id /\ Event(kind, turn.id, keys).kind = kind
         /\ Grown(EventRecord, events, Event(kind, turn.id, keys), events')
         /\ events' \in Seq(EventRecord)
         /\ \A x \in Elements(events') : x \in Elements(events) \/ x.id \in 1..request.id
<1>1. turn.id \in ChatRequests /\ turn.id \in 1..request.id
  <2>1. turn.id \in Nat /\ request.id \in Nat /\ turn.id <= request.id /\ turn.id # 0 /\ MaxRequests \in Nat
        /\ request.id <= MaxRequests
    BY ChatFacts DEF TurnRuns
  <2> QED
    BY <2>1 DEF ChatRequests
<1>2. /\ Event(kind, turn.id, keys) \in EventRecord
      /\ Event(kind, turn.id, keys).id = turn.id /\ Event(kind, turn.id, keys).kind = kind
  BY <1>1 DEF Event, EventRecord
<1>3. Grown(EventRecord, events, Event(kind, turn.id, keys), events')
  BY <1>2, ChatFacts, AppendIs DEF Emit
<1> QED
  BY <1>1, <1>2, <1>3 DEF Grown

\* The turn takes a step and nobody is told anything: what is left are the messages.
LEMMA TurnKept ==
  ASSUME ChatInv, TurnStep, UNCHANGED taken, turn' \in TurnRecord, turn'.id = turn.id \/ turn'.id = 0,
         turn'.port = turn.port \/ turn'.port = <<>>, turn'.id = 0 => turn'.port = <<>>,
         events' \in Seq(EventRecord),
         \A x \in Elements(events') : x \in Elements(events) \/ x.id \in 1..request.id,
         RequestUnderWay'
  PROVE  ChatInv'
<1>1. UNCHANGED <<thread, badges, resends, request, calls, replies, written, removed, prompts>>
  BY DEF TurnStep, windowVars
<1>2. written' \in Nat /\ written <= written' /\ turn'.id <= request.id
  <2>1. 0 <= request.id
    BY ChatFacts
  <2> QED
    BY <1>1, <2>1, ChatFacts
<1>3. OneFate' /\ ToldBehind'
  BY <1>1, FateKept, ToldKept DEF Moves
<1>4. Elements(turn'.port) \subseteq Elements(turn.port)
  BY DEF Elements
<1>5. Numbered'
  BY <1>1, <1>2, <1>4, NumberedKept
<1>6. Named'
  BY <1>1, <1>2, NamedKept DEF ChatInv, Named
<1>7. ChatTyped' /\ OnePlace'
  BY <1>1 DEF ChatInv, ChatTyped, OnePlace
<1> QED
  BY <1>3, <1>5, <1>6, <1>7 DEF ChatInv

LEMMA NoTurnIs ==
  NoTurn \in TurnRecord /\ NoTurn.id = 0 /\ NoTurn.port = <<>> /\ NoTurn.kind = "chat" /\ NoTurn.phase = "none" /\ ~NoTurn.aborted
<1>1. <<>> \in Seq(Messages)
  OBVIOUS
<1> QED
  BY <1>1, ChatAssumption DEF NoTurn, TurnRecord

LEMMA AnswerEndsStep == ASSUME ChatInv, AnswerEnds PROVE ChatInv'
<1> DEFINE e == Event("end", turn.id, {})
<1>1. /\ TurnRuns /\ turn' = [turn EXCEPT !.phase = "closing"] /\ Emit("end", {}) /\ TurnStep /\ UNCHANGED taken
  BY DEF AnswerEnds, TurnAt
<1>2. /\ turn' \in TurnRecord /\ turn'.id = turn.id /\ turn'.port = turn.port /\ turn'.kind = turn.kind
      /\ turn'.aborted = turn.aborted
  BY <1>1, ChatFacts DEF TurnRecord
<1>3. /\ e \in EventRecord /\ e.id = turn.id /\ e.kind = "end" /\ Grown(EventRecord, events, e, events')
      /\ events' \in Seq(EventRecord) /\ \A x \in Elements(events') : x \in Elements(events) \/ x.id \in 1..request.id
  BY <1>1, EmitIs
<1> HIDE DEF e
<1>4. RequestUnderWay'
  BY <1>1, <1>2, <1>3, EmitUnderWay DEF TurnStep, windowVars
<1> QED
  BY <1>1, <1>2, <1>3, <1>4, TurnKept DEF ChatInv, Named

LEMMA CompactReportsStep == ASSUME ChatInv, CompactReports PROVE ChatInv'
<1> DEFINE e == Event("state", turn.id, {})
<1>1. /\ TurnRuns /\ turn' = [turn EXCEPT !.phase = "reported"] /\ Emit("state", {}) /\ TurnStep /\ UNCHANGED taken
      /\ turn.kind = "compact"
  BY DEF CompactReports, TurnAt
<1>2. /\ turn' \in TurnRecord /\ turn'.id = turn.id /\ turn'.port = turn.port /\ turn'.kind = turn.kind
      /\ turn'.aborted = turn.aborted /\ turn'.phase = "reported"
  BY <1>1, ChatFacts DEF TurnRecord
<1>3. /\ e \in EventRecord /\ e.id = turn.id /\ e.kind = "state" /\ Grown(EventRecord, events, e, events')
      /\ events' \in Seq(EventRecord) /\ \A x \in Elements(events') : x \in Elements(events) \/ x.id \in 1..request.id
  BY <1>1, EmitIs
<1> HIDE DEF e
<1>4. RequestUnderWay'
  BY <1>1, <1>2, <1>3, EmitUnderWay DEF TurnStep, windowVars
<1> QED
  BY <1>1, <1>2, <1>3, <1>4, TurnKept DEF ChatInv, Named

\* A turn that ends and says so.
LEMMA ChatTurnEnds ==
  ASSUME ChatInv, TurnRuns, NEW kind \in {"error", "done"}, turn.kind = "chat" => kind = "error",
         turn' = NoTurn, Emit(kind, {}), TurnStep, UNCHANGED taken
  PROVE  ChatInv'
<1> DEFINE e == Event(kind, turn.id, {})
<1>1. /\ e \in EventRecord /\ e.id = turn.id /\ e.kind = kind /\ Grown(EventRecord, events, e, events')
      /\ events' \in Seq(EventRecord) /\ \A x \in Elements(events') : x \in Elements(events) \/ x.id \in 1..request.id
  BY EmitIs
<1>2. Ends(e)
  BY <1>1 DEF Ends
<1> HIDE DEF e
<1>3. RequestUnderWay'
  BY <1>1, <1>2, NoTurnIs, EmitUnderWay DEF TurnStep, windowVars
<1> QED
  BY <1>1, <1>3, NoTurnIs, TurnKept

LEMMA TurnFailsStep == ASSUME ChatInv, TurnFails PROVE ChatInv'
BY ChatTurnEnds DEF TurnFails, TurnAt

LEMMA CompactEndsStep == ASSUME ChatInv, CompactEnds PROVE ChatInv'
BY ChatTurnEnds DEF CompactEnds, TurnAt

LEMMA TurnReleasedStep == ASSUME ChatInv, TurnReleased PROVE ChatInv'
<1>1. /\ turn' = NoTurn /\ TurnStep /\ UNCHANGED <<events, taken, calls, request, badges>>
      /\ turn.id # 0 /\ TurnRuns /\ (turn.aborted \/ turn.phase = "closing")
  BY DEF TurnReleased, TurnStep, windowVars, TurnRuns
<1>2. turn'.id = 0 /\ turn' \in TurnRecord /\ turn'.port = <<>>
  BY <1>1, NoTurnIs
<1>3. request.id # 0
  <2>1. turn.id \in Nat /\ request.id \in Nat /\ turn.id <= request.id
    BY ChatFacts
  <2> QED
    BY <1>1, <2>1
<1>4. \A x : Mine(x)' = Mine(x)
  BY <1>1 DEF Mine
<1>5. RequestUnderWay'
  <2>1. NotYet' /\ ChatOnly' /\ BeginsOnce' /\ BusyAlone'
    BY <1>1, <1>2, <1>3, <1>4 DEF ChatInv, RequestUnderWay, NotYet, ChatOnly, BeginsOnce, BusyAlone
  <2>2. AbortsIdle' /\ EndComes' /\ NoStaleBadge'
    BY <1>1, <1>2, <1>4 DEF ChatInv, RequestUnderWay, AbortsIdle, EndComes, NoStaleBadge, Idle, TurnRuns
  <2>3. AnswersHeard'
    <3> SUFFICES ASSUME request.stage = "listening", request.kind = "chat" PROVE Awaiting(request.id)'
      BY <1>1 DEF AnswersHeard
    <3>1. Awaiting(request.id)
      BY DEF ChatInv, RequestUnderWay, AnswersHeard
    <3>2. turn.id = request.id => \E e \in Elements(events) : e.id = request.id /\ e.kind = "end"
      BY <1>1 DEF ChatInv, RequestUnderWay, AbortsIdle, EndComes, Idle, Mine
    <3> QED
      BY <1>1, <3>1, <3>2 DEF Awaiting
  <2> QED
    BY <1>1, <2>1, <2>2, <2>3 DEF ChatInv, RequestUnderWay
<1> QED
  BY <1>1, <1>2, <1>5, ChatFacts, TurnKept

LEMMA TakeSteeredStep == ASSUME ChatInv, TakeSteered PROVE ChatInv'
<1> DEFINE P == Elements(turn.port)
           e == Event("consumed", turn.id, P)
           r == turn.id
<1>1. /\ TurnRuns /\ turn' = [turn EXCEPT !.port = <<>>] /\ Emit("consumed", P)
      /\ taken' = [taken EXCEPT ![r] = taken[r] \cup P]
      /\ UNCHANGED <<thread, badges, resends, request, calls, replies, written, removed, prompts>>
  BY DEF TakeSteered, TurnAt, TurnStep, windowVars
<1>2. P \in SUBSET Messages /\ <<>> \in Seq(Messages) /\ Elements(<<>>) = {} /\ Simple(<<>>)
  BY ChatFacts, ElementsAt DEF Elements, Simple, At
<1>3. /\ turn' \in TurnRecord /\ turn'.id = turn.id /\ turn'.port = <<>> /\ turn'.kind = turn.kind
      /\ turn'.aborted = turn.aborted /\ turn'.phase = turn.phase
  BY <1>1, <1>2, ChatFacts DEF TurnRecord
<1>4. /\ e \in EventRecord /\ e.id = turn.id /\ e.kind = "consumed" /\ Grown(EventRecord, events, e, events')
      /\ events' \in Seq(EventRecord) /\ \A x \in Elements(events') : x \in Elements(events) \/ x.id \in 1..request.id
      /\ r \in ChatRequests /\ r \in 1..request.id
  BY <1>1, <1>2, EmitIs
<1> HIDE DEF e
<1>5. RequestUnderWay'
  BY <1>1, <1>3, <1>4, EmitUnderWay
<1>6. /\ taken' \in [ChatRequests -> SUBSET Messages] /\ taken'[r] = taken[r] \cup P
      /\ \A q \in ChatRequests : q # r => taken'[q] = taken[q]
  BY <1>1, <1>2, <1>4, ChatFacts
<1>7. \A x \in Messages : x \notin P => Untaken(x)' = Untaken(x)
  BY <1>4, <1>6 DEF Untaken
<1>8. r = turn.id /\ P = Elements(turn.port)
  OBVIOUS
<1> HIDE DEF P, r
<1>9. OneFate'
  <2>1. \A x \in Messages : Steered(x)' = Steered(x) /\ Replied("refused", x)' = Replied("refused", x)
                              /\ Replied("cancelled", x)' = Replied("cancelled", x)
    BY <1>1 DEF Steered, Replied
  <2>2. \A x \in Messages : Steered(x) => x \notin P
    BY <1>8 DEF ChatInv, OneFate
  <2>3. \A x \in Messages : Replied("cancelled", x) => x \notin P
    BY <1>8 DEF ChatInv, OneFate
  <2>4. \A x \in Messages : Steered(x)' \/ x \in Elements(turn'.port) =>
          ~Replied("refused", x)' /\ ~Replied("cancelled", x)' /\ Untaken(x)'
    BY <1>2, <1>3, <1>7, <2>1, <2>2 DEF ChatInv, OneFate
  <2>5. \A x \in Messages : Replied("cancelled", x)' => Untaken(x)'
    BY <1>7, <2>1, <2>3 DEF ChatInv, OneFate
  <2> QED
    BY <1>1, <1>2, <1>3, <2>1, <2>4, <2>5 DEF ChatInv, OneFate
<1>10. ToldBehind'
  <2>1. ToldOnce'
    <3>1. \A m \in P, q \in ChatRequests : m \in prompts[q] => r # q
      BY <1>8 DEF ChatInv, ToldBehind
    <3> QED
      BY <1>1, <1>4, <1>6, <3>1 DEF ChatInv, ToldBehind, ToldOnce
  <2> QED
    BY <1>1, <1>2, <1>3, <2>1 DEF ChatInv, ToldBehind
<1>11. Named'
  <2>1. \A q \in ChatRequests : q > request.id => taken'[q] = {}
    <3>1. \A q \in ChatRequests : q > request.id => q # r
      <4>1. r \in 1..request.id /\ request.id \in Nat /\ \A q \in ChatRequests : q \in Nat
        BY <1>4, ChatFacts DEF ChatRequests
      <4> QED
        BY <4>1
    <3> QED
      BY <1>6, <3>1 DEF ChatInv, Named
  <2>2. written' \in Nat /\ written <= written'
    BY <1>1, ChatFacts
  <2> QED
    BY <1>1, <1>3, <1>4, <2>1, <2>2, ChatFacts, NamedKept
<1>12. Numbered'
  BY <1>1, <1>2, <1>3, <1>4, <1>6, <1>8 DEF ChatInv, Numbered
<1>13. ChatTyped' /\ OnePlace'
  BY <1>1, <1>3, <1>4, <1>6 DEF ChatInv, ChatTyped, OnePlace
<1> QED
  BY <1>5, <1>9, <1>10, <1>11, <1>12, <1>13 DEF ChatInv
-----------------------------------------------------------------------------
LEMMA ChatInvNext == ASSUME ChatInv, [ChatNext]_chatVars PROVE ChatInv'
<1>1. ASSUME Person PROVE ChatInv'
  BY <1>1, WriteStep, WriteMeanwhileStep, CompactStep, StopAnswerStep, ClearThreadStep, AgainStep, TakeBackStep DEF Person
<1>2. ASSUME Window PROVE ChatInv'
  BY <1>2, SessionsReadyStep, ProviderReadyStep, IgnoreEventStep, HearAgentStep, HearEndStep, HearErrorAndRepeatStep,
     HearKeptStep, HearCancelledStep, HearRefusedStep, ResendStep DEF Window
<1>3. ASSUME Orchestrator PROVE ChatInv'
  BY <1>3, HandleStartStep, HandleAbortStep, HandleSteerStep, HandleCancelStep DEF Orchestrator
<1>4. ASSUME Turn PROVE ChatInv'
  BY <1>4, TakeSteeredStep, AnswerEndsStep, TurnFailsStep, CompactReportsStep, CompactEndsStep DEF Turn
<1>5. ASSUME UNCHANGED chatVars PROVE ChatInv'
  <2>1. UNCHANGED <<thread, badges, resends, request, calls, events, replies, turn, written, removed, prompts, taken>>
    BY <1>5 DEF chatVars, windowVars, chatHistory
  <2>2. ChatTyped' /\ Named' /\ Numbered' /\ OnePlace'
    BY <2>1 DEF ChatInv, ChatTyped, Named, Numbered, OnePlace
  <2>3. OneFate' /\ ToldBehind'
    BY <2>1, FateKept, ToldKept DEF Moves
  <2>4. RequestUnderWay'
    BY <2>1, UnderWayKept DEF ChatInv, RequestUnderWay, NoStaleBadge, Idle
  <2> QED
    BY <2>2, <2>3, <2>4 DEF ChatInv
<1> QED
  BY <1>1, <1>2, <1>3, <1>4, <1>5, GiveUpWaitingStep, TurnReleasedStep DEF ChatNext

\* How often an element is in a sequence without repetitions.
LEMMA TimesIs ==
  ASSUME NEW S, NEW s \in Seq(S), Simple(s), NEW m
  PROVE  Cardinality({i \in 1..Len(s) : s[i] = m}) = IF m \in Elements(s) THEN 1 ELSE 0
<1> DEFINE I == {i \in 1..Len(s) : s[i] = m}
<1>1. CASE m \in Elements(s)
  <2>1. PICK i \in 1..Len(s) : s[i] = m
    BY <1>1 DEF Elements
  <2>2. I = {i}
    BY <2>1 DEF Simple, At
  <2> QED
    BY <1>1, <2>2, FS_Singleton
<1>2. CASE m \notin Elements(s)
  <2>1. I = {}
    BY <1>2 DEF Elements
  <2> QED
    BY <1>2, <2>1, FS_EmptySet
<1> QED
  BY <1>1, <1>2

LEMMA ChatInvSafe == ASSUME ChatInv PROVE ChatSafe
<1>1. ChatTypeOK
  <2>1. /\ Elements(calls) \subseteq CallRecord /\ Elements(events) \subseteq EventRecord
        /\ Elements(replies) \subseteq ReplyRecord
    BY ChatFacts, ElementsAt
  <2>2. badges \subseteq Messages
    <3>1. 1..written \subseteq Messages
      BY ChatFacts DEF Messages
    <3> QED
      BY <3>1 DEF ChatInv, ChatTyped
  <2> QED
    BY <2>1, <2>2 DEF ChatInv, ChatTyped, ChatTypeOK, CallRecord, EventRecord, ReplyRecord, RequestRecord, TurnRecord
<1>2. ChatKept
  <2> SUFFICES ASSUME NEW m \in 1..written PROVE Times(m) <= 1 /\ (m \notin removed => Times(m) = 1)
    BY DEF ChatKept
  <2>1. /\ Cardinality({i \in 1..Len(thread) : thread[i] = m}) = IF m \in Elements(thread) THEN 1 ELSE 0
        /\ Cardinality({i \in 1..Len(resends) : resends[i] = m}) = IF m \in Elements(resends) THEN 1 ELSE 0
    BY ChatFacts, TimesIs DEF ChatInv, OnePlace
  <2>2. ~ (m \in Elements(thread) /\ m \in Elements(resends))
    BY DEF ChatInv, OnePlace
  <2>3. m \notin removed => m \in Elements(thread) \/ m \in Elements(resends)
    BY DEF ChatInv, OnePlace
  <2> QED
    BY <2>1, <2>2, <2>3 DEF Times
<1>3. ToldOnce /\ NoStaleBadge /\ AnswersHeard
  BY DEF ChatInv, ToldBehind, RequestUnderWay
<1>4. TakenBackUntold
  <2> SUFFICES ASSUME NEW a \in Elements(replies), a.kind = "cancelled", NEW r \in ChatRequests
               PROVE  a.message \notin taken[r]
    BY DEF TakenBackUntold
  <2>1. a.message \in Messages
    <3>1. a.message \in 1..written
      BY DEF ChatInv, Numbered
    <3> QED
      BY <3>1, ChatFacts DEF Messages
  <2>2. Replied("cancelled", a.message)
    BY DEF Replied
  <2> QED
    BY <2>1, <2>2 DEF ChatInv, OneFate, Untaken
<1> QED
  BY <1>1, <1>2, <1>3, <1>4 DEF ChatSafe

\* What the person writes is in the conversation once, or about to be sent again, until it is
\* taken away; no turn is told it twice, and none what was taken back; and a window that waits
\* for an answer has it still to come, however calls, events and replies overtake each other
\* (useJanusChat.ts:899-957, chat-orchestrator.ts:225-263, llm.ts:160-225).
THEOREM ChatAlwaysSafe == ChatSpec => []ChatSafe
<1>1. ChatInit => ChatInv
  BY ChatInvInit
<1>2. ChatInv /\ [ChatNext]_chatVars => ChatInv'
  BY ChatInvNext
<1>3. ChatInv => ChatSafe
  BY ChatInvSafe
<1> QED
  BY <1>1, <1>2, <1>3, PTL DEF ChatSpec
=============================================================================
