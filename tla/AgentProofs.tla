------------------------------ MODULE AgentProofs ------------------------------
(***************************************************************************)
(* What the application keeps of its agents is right, for any number of      *)
(* terminals, turns, conversations, rows and troubles: the turns that the    *)
(* hooks tell of, the ledger of sessions, the recovery of transcripts with   *)
(* the capture inbox, and the refinement tasks.  The components share no     *)
(* state; each has an inductive invariant of its own.                        *)
(***************************************************************************)
EXTENDS MCLedgers, Sessions, AgentHooks, Integers, FiniteSetTheorems, SequenceTheorems, TLAPS

(* Turns and their hooks.  The invariant follows each turn from its start to the  *)
(* last hook that may still come of it: a turn that was told of is past, and what *)
(* is on the way of it will be ignored.                                           *)
HookTurns == UNION {TurnsOf(u) : u \in Tabs}
Hooks == [event : {"start", "stop", "sessionend", "idle"}, turn : Nat]
Readers ==
  [tab : Tabs, turn : Nat, probed : BOOLEAN, early : BOOLEAN, event : BOOLEAN,
   off : Int, reading : {"no", "open", "bytes"}, from : Int, size : Int, pending : BOOLEAN]

HookTypes ==
  /\ cli \in [Tabs -> [alive : BOOLEAN, turn : Nat, busy : BOOLEAN, since : Nat]]
  /\ wire \in [Tabs -> Seq(Hooks)] /\ transcript \in [Tabs -> Seq(Nat)]
  /\ known \subseteq Tabs /\ synthetic \subseteq known /\ strayed \subseteq Tabs
  /\ active \in [Tabs -> {Quiet} \cup Readers]
  /\ tabStatus \in [Tabs -> {"none", "running", "wait", "degraded", "needs-input"}]
  /\ told \in [Tabs -> [HookTurns -> Nat]]

\* A terminal is known exactly while its CLI lives, and only then has a turn open.
Registered ==
  \A t \in Tabs : (t \in known <=> cli[t].alive) /\ (ActiveIn(t) => t \in known)

In(s) == {s[i] : i \in DOMAIN s}

\* The hooks of a CLI come in the order of its turns, the start of a turn before
\* everything of it, and one stop for each.
Ahead(h, g) ==
  /\ h.turn <= g.turn
  /\ g.event = "start" => h.turn < g.turn
  /\ h.event = "stop" /\ g.event = "stop" => h.turn < g.turn
Ordered(s) == \A i, j \in DOMAIN s : i < j => Ahead(s[i], s[j])
WireInv(t) ==
  /\ Ordered(wire[t])
  /\ \A h \in In(wire[t]) :
       /\ h.turn <= cli[t].turn
       /\ h.event = "start" => h.turn >= 1
       /\ h.event = "stop" /\ cli[t].busy => h.turn < cli[t].turn

\* Hook h is not the start of turn n, nor of a turn before it.
Past(n, h) == n <= h.turn /\ (h.event = "start" => n < h.turn)

\* The CLI still works on turn n, or its stop is on the way.
EndPending(t, n) ==
  \/ cli[t].busy /\ cli[t].turn = n
  \/ \E h \in In(wire[t]) : h.event = "stop" /\ h.turn = n

\* A turn that was told of is over for good: what still comes of it will be ignored.
ToldOK(t, n) ==
  /\ told[t][n] = 1 /\ n <= cli[t].turn
  /\ \A h \in In(wire[t]) : Past(n, h)
  /\ ActiveIn(t) => n < active[t].turn
  /\ EndPending(t, n) /\ t \in known /\ n >= cli[t].since => t \in synthetic
OpenOK(t) ==
  ActiveIn(t) => active[t].turn <= cli[t].turn /\ \A h \in In(wire[t]) : Past(active[t].turn, h)
ToldInv(t) ==
  t \notin strayed => OpenOK(t) /\ \A n \in HookTurns : told[t][n] # 0 => ToldOK(t, n)

HookInv ==
  /\ HookTypes /\ Registered /\ HookStatusTrue
  /\ \A t \in Tabs : WireInv(t) /\ ToldInv(t)
-----------------------------------------------------------------------------
LEMMA AppendHook ==
  ASSUME NEW s \in Seq(Hooks), NEW h \in Hooks, Ordered(s), \A g \in In(s) : Ahead(g, h)
  PROVE Append(s, h) \in Seq(Hooks) /\ In(Append(s, h)) = In(s) \cup {h} /\ Ordered(Append(s, h))
<1> DEFINE n == Len(s)
           e == Append(s, h)
<1>1. /\ n \in Nat /\ DOMAIN s = 1..n /\ e \in Seq(Hooks) /\ DOMAIN e = 1..(n + 1)
      /\ e[n + 1] = h /\ \A i \in 1..n : e[i] = s[i]
  BY LenProperties
<1> HIDE DEF n, e
<1>2. In(e) = In(s) \cup {h}
  <2>1. \A g \in In(s) : g \in In(e)
    <3> TAKE g \in In(s)
    <3>1. PICK i \in 1..n : s[i] = g
      BY <1>1 DEF In
    <3>2. i \in DOMAIN e /\ e[i] = g
      BY <1>1, <3>1
    <3> QED
      BY <3>2 DEF In
  <2>2. h \in In(e)
    <3>1. n + 1 \in DOMAIN e
      BY <1>1
    <3> QED
      BY <1>1, <3>1 DEF In
  <2>3. \A g \in In(e) : g \in In(s) \/ g = h
    <3> TAKE g \in In(e)
    <3>1. PICK i \in 1..(n + 1) : e[i] = g
      BY <1>1 DEF In
    <3>2. i \in 1..n \/ i = n + 1
      BY <1>1
    <3> QED
      BY <1>1, <3>1, <3>2 DEF In
  <2> QED
    BY <2>1, <2>2, <2>3
<1>3. ASSUME NEW i \in DOMAIN e, NEW j \in DOMAIN e, i < j PROVE Ahead(e[i], e[j])
  <2>1. i \in 1..n /\ e[i] = s[i] /\ s[i] \in In(s)
    BY <1>1, <1>3 DEF In
  <2>2. CASE j = n + 1
    BY <1>1, <2>1, <2>2
  <2>3. CASE j # n + 1
    <3>1. j \in 1..n /\ e[j] = s[j]
      BY <1>1, <2>3
    <3> QED
      BY <1>1, <1>3, <2>1, <3>1 DEF Ordered
  <2> QED
    BY <2>2, <2>3
<1> QED
  BY <1>1, <1>2, <1>3 DEF Ordered, e

LEMMA TailHook ==
  ASSUME NEW s \in Seq(Hooks), s # <<>>, Ordered(s)
  PROVE /\ Tail(s) \in Seq(Hooks) /\ In(Tail(s)) \subseteq In(s) /\ Ordered(Tail(s))
        /\ Head(s) \in Hooks /\ Head(s) \in In(s) /\ \A g \in In(Tail(s)) : Ahead(Head(s), g)
<1> DEFINE n == Len(s)
           e == Tail(s)
<1>1. /\ n \in Nat /\ n >= 1 /\ DOMAIN s = 1..n /\ e \in Seq(Hooks) /\ DOMAIN e = 1..(n - 1)
      /\ Head(s) = s[1] /\ \A i \in 1..(n - 1) : e[i] = s[i + 1]
  BY LenProperties, HeadTailProperties
<1>2. \A i \in 1..n : s[i] \in Hooks
  BY <1>1
<1> HIDE DEF n, e
<1>3. \A i \in DOMAIN e : i \in Int /\ i + 1 \in DOMAIN s /\ e[i] = s[i + 1] /\ 1 < i + 1 /\ 1 \in DOMAIN s
  BY <1>1
<1>4. In(e) \subseteq In(s)
  BY <1>3 DEF In
<1>5. \A i \in DOMAIN e : Ahead(s[1], e[i])
  BY <1>3 DEF Ordered
<1>6. Ordered(e)
  <2> SUFFICES ASSUME NEW i \in DOMAIN e, NEW j \in DOMAIN e, i < j PROVE Ahead(e[i], e[j])
    BY DEF Ordered
  <2>1. i + 1 < j + 1
    BY <1>3
  <2> QED
    BY <1>3, <2>1 DEF Ordered
<1>7. Head(s) \in Hooks /\ Head(s) \in In(s)
  <2>1. 1 \in 1..n
    BY <1>1
  <2> QED
    BY <1>1, <1>2, <2>1 DEF In
<1>8. \A g \in In(e) : Ahead(Head(s), g)
  BY <1>1, <1>5 DEF In
<1> QED
  BY <1>1, <1>4, <1>6, <1>7, <1>8 DEF e

LEMMA InHooks == ASSUME NEW s \in Seq(Hooks), NEW h \in In(s) PROVE h \in Hooks
<1>1. PICK i \in 1..Len(s) : s[i] = h
  BY LenProperties DEF In
<1> QED
  BY <1>1

LEMMA NumberFacts ==
  /\ \A n \in HookTurns : n \in Nat
  /\ HookTypes => \A x \in Tabs : cli[x].turn \in Nat /\ cli[x].since \in Nat /\ active[x].turn \in Nat
<1>1. \A n \in HookTurns : n \in Nat
  BY HookAssumption DEF HookTurns, TurnsOf
<1>2. ASSUME HookTypes, NEW x \in Tabs
      PROVE cli[x].turn \in Nat /\ cli[x].since \in Nat /\ active[x].turn \in Nat
  <2>1. cli[x].turn \in Nat /\ cli[x].since \in Nat
    BY <1>2 DEF HookTypes
  <2>2. active[x] = Quiet \/ active[x] \in Readers
    BY <1>2 DEF HookTypes
  <2>3. Quiet.turn \in Nat
    BY DEF Quiet
  <2>4. \A r \in Readers : r.turn \in Nat
    BY DEF Readers
  <2> QED
    BY <2>1, <2>2, <2>3, <2>4
<1> QED
  BY <1>1, <1>2

LEMMA HookInitInv == HookInit => HookInv
<1> SUFFICES ASSUME HookInit PROVE HookInv
  OBVIOUS
<1>1. HookTypes
  <2>1. told \in [Tabs -> [HookTurns -> Nat]]
    BY DEF HookInit, HookTurns
  <2>2. <<>> \in Seq(Hooks) /\ <<>> \in Seq(Nat)
    BY EmptySeq
  <2> QED
    BY <2>1, <2>2 DEF HookInit, HookTypes
<1>2. Registered /\ HookStatusTrue
  BY DEF HookInit, Registered, HookStatusTrue, ActiveIn, Quiet, Working
<1>3. ASSUME NEW t \in Tabs PROVE WireInv(t) /\ ToldInv(t)
  <2>4. wire[t] = <<>> /\ active[t] = Quiet
    BY DEF HookInit
  <2>1. wire[t] = <<>> /\ DOMAIN wire[t] = {} /\ ~ActiveIn(t)
    BY <2>4 DEF ActiveIn, Quiet
  <2>3. In(wire[t]) = {}
    BY <2>1 DEF In
  <2>2. \A n \in HookTurns : told[t][n] = 0
    BY DEF HookInit, HookTurns
  <2> QED
    BY <2>1, <2>2, <2>3 DEF WireInv, Ordered, ToldInv, OpenOK
<1> QED
  BY <1>1, <1>2, <1>3 DEF HookInv
-----------------------------------------------------------------------------
(***************************************************************************)
(* What one terminal is owed, over the kinds of step.                      *)
(***************************************************************************)

\* The hooks on the way get no more, and the CLI does not start a turn.
WireShrinks(x) ==
  /\ wire'[x] \in Seq(Hooks) /\ In(wire'[x]) \subseteq In(wire[x]) /\ Ordered(wire'[x])
  /\ cli'[x].turn = cli[x].turn /\ (cli'[x].busy => cli[x].busy)

LEMMA ShrinkWire ==
  ASSUME NEW x \in Tabs, WireInv(x), WireShrinks(x)
  PROVE WireInv(x)'
BY DEF WireInv, WireShrinks

\* What main knows of the terminal stays, and its CLI is not replaced.
MainSame(x) ==
  /\ active'[x].turn = active[x].turn /\ told'[x] = told[x] /\ strayed \subseteq strayed'
  /\ (x \in known' <=> x \in known) /\ (x \in synthetic' <=> x \in synthetic)

LEMMA ShrinkTold ==
  ASSUME NEW x \in Tabs, ToldInv(x), WireShrinks(x), MainSame(x), cli'[x].since = cli[x].since
  PROVE ToldInv(x)'
<1> SUFFICES ASSUME x \notin strayed' PROVE OpenOK(x)' /\ \A n \in HookTurns : told'[x][n] # 0 => ToldOK(x, n)'
  BY DEF ToldInv, HookTurns, TurnsOf
<1>1. OpenOK(x) /\ \A n \in HookTurns : told[x][n] # 0 => ToldOK(x, n)
  BY DEF ToldInv, MainSame
<1>2. OpenOK(x)'
  BY <1>1 DEF OpenOK, ActiveIn, WireShrinks, MainSame
<1>3. ASSUME NEW n \in HookTurns, told'[x][n] # 0 PROVE ToldOK(x, n)'
  <2>1. ToldOK(x, n)
    BY <1>1, <1>3 DEF MainSame
  <2>2. EndPending(x, n)' => EndPending(x, n)
    BY DEF EndPending, WireShrinks
  <2> QED
    BY <2>1, <2>2 DEF ToldOK, ActiveIn, WireShrinks, MainSame
<1> QED
  BY <1>2, <1>3

\* A hook of the turn the CLI is in, posted after all the others, and no new stop of a
\* turn that was over.
LEMMA PostTold ==
  ASSUME HookTypes, NEW x \in Tabs, ToldInv(x), MainSame(x), cli'[x].since = cli[x].since,
         cli'[x].turn \in Nat, cli'[x].turn >= cli[x].turn, NEW h \in Hooks,
         In(wire'[x]) = In(wire[x]) \cup {h},
         h.event = "start" \/ h.turn = cli[x].turn,
         h.event = "start" => h.turn > cli[x].turn,
         h.event = "stop" => cli[x].busy,
         cli'[x].busy => cli[x].busy \/ cli'[x].turn > cli[x].turn
  PROVE ToldInv(x)'
<1> SUFFICES ASSUME x \notin strayed' PROVE OpenOK(x)' /\ \A n \in HookTurns : told'[x][n] # 0 => ToldOK(x, n)'
  BY DEF ToldInv, HookTurns, TurnsOf
<1>1. OpenOK(x) /\ \A n \in HookTurns : told[x][n] # 0 => ToldOK(x, n)
  BY DEF ToldInv, MainSame
<1>0. cli[x].turn \in Nat /\ h.turn \in Nat /\ active[x].turn \in Nat /\ \A n \in HookTurns : n \in Nat
  BY NumberFacts DEF Hooks
<1>2. OpenOK(x)'
  <2>1. ActiveIn(x)' <=> ActiveIn(x)
    BY DEF ActiveIn, MainSame
  <2>2. ActiveIn(x) => Past(active[x].turn, h)
    BY <1>0, <1>1 DEF OpenOK, Past
  <2> QED
    BY <1>0, <1>1, <2>1, <2>2 DEF OpenOK, MainSame
<1>3. ASSUME NEW n \in HookTurns, told'[x][n] # 0 PROVE ToldOK(x, n)'
  <2>1. ToldOK(x, n) /\ n \in Nat
    BY <1>0, <1>1, <1>3 DEF MainSame
  <2>2. n <= cli[x].turn
    BY <2>1 DEF ToldOK
  <2>3. Past(n, h)
    BY <1>0, <2>1, <2>2 DEF Past
  <2>4. EndPending(x, n)' => EndPending(x, n)
    BY <1>0, <2>1, <2>2 DEF EndPending
  <2> QED
    BY <1>0, <2>1, <2>2, <2>3, <2>4 DEF ToldOK, ActiveIn, MainSame
<1> QED
  BY <1>2, <1>3

\* The open turn of t is closed and told of.
CloseTold(t) ==
  /\ ActiveIn(t) /\ active' = [active EXCEPT ![t] = Quiet] /\ Tell(t, active[t].turn)
  /\ strayed \subseteq strayed' /\ known' \subseteq known
  /\ cli'[t].turn = cli[t].turn /\ cli'[t].since = cli[t].since /\ (cli'[t].busy => cli[t].busy)

\* The hooks on the way afterwards were on the way before, or end the session.
LEMMA CloseToldInv ==
  ASSUME HookTypes, NEW t \in Tabs, ToldInv(t), CloseTold(t), NEW m, m = active[t].turn,
         \A h \in In(wire'[t]) : h \in In(wire[t]) \/ (h.event = "sessionend" /\ h.turn = cli[t].turn),
         t \in synthetic /\ t \in known' => t \in synthetic',
         EndPending(t, m)' /\ t \in known' => t \in synthetic'
  PROVE ToldInv(t)'
<1> SUFFICES ASSUME t \notin strayed' PROVE OpenOK(t)' /\ \A n \in HookTurns : told'[t][n] # 0 => ToldOK(t, n)'
  BY DEF ToldInv, HookTurns, TurnsOf
<1>1. /\ OpenOK(t) /\ \A n \in HookTurns : told[t][n] # 0 => ToldOK(t, n)
      /\ ActiveIn(t)
  BY DEF ToldInv, CloseTold
<1>2. m <= cli[t].turn /\ \A h \in In(wire[t]) : Past(m, h)
  BY <1>1 DEF OpenOK
<1>3. cli[t].turn \in Nat /\ m \in Nat
  BY NumberFacts
<1>4. active'[t] = Quiet /\ ~ActiveIn(t)'
  <2>1. active'[t] = Quiet
    BY DEF CloseTold, HookTypes
  <2> QED
    BY <2>1 DEF ActiveIn, Quiet
<1>5. \A n \in HookTurns : told'[t][n] = IF n = m THEN told[t][n] + 1 ELSE told[t][n]
  BY <1>1 DEF CloseTold, Tell, HookTypes
<1>6. \A n \in HookTurns : told[t][n] # 0 => n < m
  BY <1>1 DEF ToldOK
<1>7. OpenOK(t)'
  BY <1>4 DEF OpenOK
<1>8. ASSUME NEW n \in HookTurns, told'[t][n] # 0 PROVE ToldOK(t, n)'
  <2>1. CASE n = m
    <3>1. told[t][n] = 0
      BY <1>3, <1>6, <2>1
    <3>2. told'[t][n] = 1
      BY <1>5, <2>1, <3>1
    <3>3. \A h \in In(wire'[t]) : Past(n, h)
      BY <1>2, <1>3, <2>1 DEF Past
    <3> QED
      BY <1>2, <1>4, <2>1, <3>2, <3>3 DEF ToldOK, CloseTold
  <2>2. CASE n # m
    <3>1. told'[t][n] = told[t][n] /\ ToldOK(t, n)
      BY <1>1, <1>5, <1>8, <2>2
    <3>2. n \in Nat /\ n <= cli[t].turn
      BY <3>1, NumberFacts DEF ToldOK
    <3>3. \A h \in In(wire'[t]) : Past(n, h)
      BY <3>1, <3>2, <1>3 DEF Past, ToldOK
    <3>4. EndPending(t, n)' => EndPending(t, n)
      BY DEF EndPending, CloseTold
    <3> QED
      BY <1>4, <3>1, <3>2, <3>3, <3>4 DEF ToldOK, CloseTold
  <2> QED
    BY <2>1, <2>2
<1> QED
  BY <1>7, <1>8

\* What the oldest hook of t does to t.
Arrives(t) ==
  /\ wire[t] # <<>> /\ wire'[t] = Tail(wire[t]) /\ t \in known
  /\ UNCHANGED <<cli, known>> /\ strayed \subseteq strayed'
  /\ t \notin strayed' => Head(wire[t]).turn >= cli[t].since

\* A turn starts: no turn that was told of can be meant.
LEMMA StartTold ==
  ASSUME HookTypes, NEW t \in Tabs, WireInv(t), ToldInv(t), Arrives(t),
         Head(wire[t]).event = "start", StartTurn(t, t, Head(wire[t]).turn)
  PROVE ToldInv(t)'
<1> DEFINE h == Head(wire[t])
<1> SUFFICES ASSUME t \notin strayed' PROVE OpenOK(t)' /\ \A n \in HookTurns : told'[t][n] # 0 => ToldOK(t, n)'
  BY DEF ToldInv, HookTurns, TurnsOf
<1>1. /\ h \in Hooks /\ h \in In(wire[t]) /\ In(wire'[t]) \subseteq In(wire[t])
      /\ \A g \in In(wire'[t]) : Ahead(h, g)
  BY TailHook DEF Arrives, WireInv, HookTypes
<1>2. \A n \in HookTurns : told[t][n] # 0 => ToldOK(t, n)
  BY DEF ToldInv, Arrives
<1>3. /\ h.turn \in Nat /\ cli[t].turn \in Nat /\ h.event = "start" /\ h.turn >= 1
      /\ h.turn <= cli[t].turn /\ \A n \in HookTurns : n \in Nat
  BY <1>1, NumberFacts DEF Hooks, WireInv
<1>4. active'[t].turn = h.turn /\ told' = told
  BY DEF StartTurn, Begun, HookTypes
<1>5. \A g \in In(wire'[t]) : g.turn \in Nat /\ h.turn <= g.turn /\ (g.event = "start" => h.turn < g.turn)
  <2>1. \A g \in In(wire[t]) : g.turn \in Nat
    BY InHooks DEF HookTypes, Hooks
  <2> QED
    BY <1>1, <2>1 DEF Ahead
<1>6. OpenOK(t)'
  BY <1>3, <1>4, <1>5 DEF OpenOK, Past, Arrives
<1>7. ASSUME NEW n \in HookTurns, told'[t][n] # 0 PROVE ToldOK(t, n)'
  <2>1. ToldOK(t, n) /\ n \in Nat
    BY <1>2, <1>3, <1>4, <1>7
  <2>2. n < h.turn
    BY <1>1, <1>3, <2>1 DEF ToldOK, Past
  <2>3. ~EndPending(t, n)'
    BY <1>3, <1>5, <2>1, <2>2 DEF EndPending, Arrives
  <2>4. \A g \in In(wire'[t]) : Past(n, g)
    BY <1>1, <2>1 DEF ToldOK
  <2> QED
    BY <1>4, <2>1, <2>2, <2>3, <2>4 DEF ToldOK, Arrives
<1> QED
  BY <1>6, <1>7

\* A stop ends the turn that is open, or the one it names when nothing has.
LEMMA StopTold ==
  ASSUME HookTypes, NEW t \in Tabs, WireInv(t), ToldInv(t), Arrives(t),
         Head(wire[t]).event = "stop", EndTurn(t, Head(wire[t]).turn)
  PROVE ToldInv(t)'
<1> DEFINE h == Head(wire[t])
<1> SUFFICES ASSUME t \notin strayed' PROVE ToldInv(t)'
  BY DEF ToldInv
<1>1. /\ h \in Hooks /\ h \in In(wire[t]) /\ wire'[t] \in Seq(Hooks) /\ Ordered(wire'[t])
      /\ In(wire'[t]) \subseteq In(wire[t]) /\ \A g \in In(wire'[t]) : Ahead(h, g)
  BY TailHook DEF Arrives, WireInv, HookTypes
<1>2. OpenOK(t) /\ \A n \in HookTurns : told[t][n] # 0 => ToldOK(t, n)
  BY DEF ToldInv, Arrives
<1>3. /\ h.turn \in Nat /\ cli[t].turn \in Nat /\ active[t].turn \in Nat
      /\ h.turn <= cli[t].turn /\ (cli[t].busy => h.turn < cli[t].turn) /\ \A n \in HookTurns : n \in Nat
  BY <1>1, NumberFacts DEF Hooks, WireInv
<1>4. \A g \in In(wire'[t]) :
        g.turn \in Nat /\ h.turn <= g.turn /\ (g.event \in {"start", "stop"} => h.turn < g.turn)
  <2>1. \A g \in In(wire[t]) : g.turn \in Nat
    BY InHooks DEF HookTypes, Hooks
  <2> QED
    BY <1>1, <2>1 DEF Ahead
<1>5. \A n \in Nat : n <= h.turn => ~EndPending(t, n)'
  BY <1>3, <1>4 DEF EndPending, Arrives
<1>6. CASE AlreadyEnded(t)
  <2>1. UNCHANGED <<active, synthetic, told>>
    BY <1>6 DEF EndTurn
  <2> QED
    BY <1>1, <2>1, ShrinkTold DEF WireShrinks, MainSame, Arrives
<1>7. CASE ActiveIn(t)
  <2>1. active' = [active EXCEPT ![t] = Quiet] /\ UNCHANGED synthetic /\ Tell(t, active[t].turn)
    BY <1>7 DEF EndTurn, AlreadyEnded, EndActive, Tell
  <2>2. CloseTold(t)
    BY <1>7, <2>1 DEF CloseTold, Arrives
  <2>3. active[t].turn <= h.turn
    BY <1>1, <1>2, <1>7 DEF OpenOK, Past
  <2>4. PICK m \in Nat : m = active[t].turn
    BY <1>3
  <2>5. ~EndPending(t, m)'
    BY <1>5, <2>3, <2>4
  <2> QED
    BY <1>1, <2>1, <2>2, <2>4, <2>5, CloseToldInv
<1>8. CASE ~ActiveIn(t) /\ t \notin synthetic
  <2>1. /\ active' = [active EXCEPT ![t] = Quiet] /\ UNCHANGED synthetic
        /\ told' = [told EXCEPT ![t][h.turn] = @ + 1]
    BY <1>8 DEF EndTurn, AlreadyEnded, EndActive, Tell
  <2>2. ~ActiveIn(t)'
    <3>1. active'[t] = Quiet
      BY <2>1 DEF HookTypes
    <3> QED
      BY <3>1 DEF ActiveIn, Quiet
  <2>3. \A n \in HookTurns : told'[t][n] = IF n = h.turn THEN told[t][n] + 1 ELSE told[t][n]
    BY <2>1 DEF HookTypes
  <2>4. h.turn \in HookTurns => told[t][h.turn] = 0
    <3> SUFFICES ASSUME h.turn \in HookTurns, told[t][h.turn] # 0 PROVE FALSE
      OBVIOUS
    <3>1. ToldOK(t, h.turn) /\ EndPending(t, h.turn)
      BY <1>1, <1>2 DEF EndPending
    <3> QED
      BY <1>8, <3>1 DEF ToldOK, Arrives
  <2>5. ASSUME NEW n \in HookTurns, told'[t][n] # 0 PROVE ToldOK(t, n)'
    <3>1. CASE n = h.turn
      <4>1. told'[t][n] = 1
        BY <2>3, <2>4, <3>1
      <4>2. ~EndPending(t, n)' /\ \A g \in In(wire'[t]) : Past(n, g)
        BY <1>3, <1>4, <1>5, <3>1 DEF Past
      <4> QED
        BY <1>3, <2>2, <3>1, <4>1, <4>2 DEF ToldOK, Arrives
    <3>2. CASE n # h.turn
      <4>1. told'[t][n] = told[t][n] /\ ToldOK(t, n)
        BY <1>2, <2>3, <2>5, <3>2
      <4>2. EndPending(t, n)' => EndPending(t, n)
        BY <1>1 DEF EndPending, Arrives
      <4> QED
        BY <1>1, <2>1, <2>2, <4>1, <4>2 DEF ToldOK, Arrives
    <3> QED
      BY <3>1, <3>2
  <2>6. OpenOK(t)'
    BY <2>2 DEF OpenOK
  <2> QED
    BY <2>5, <2>6 DEF ToldInv, HookTurns, TurnsOf
<1> QED
  BY <1>6, <1>7, <1>8 DEF EndTurn, AlreadyEnded
-----------------------------------------------------------------------------
(***************************************************************************)
(* The steps.                                                              *)
(***************************************************************************)

TurnSame(x) == active'[x].turn = active[x].turn

\* A terminal that a step does not concern.
LEMMA OthersKeep ==
  ASSUME HookInv, NEW x \in Tabs, wire'[x] = wire[x], cli'[x] = cli[x], MainSame(x)
  PROVE WireInv(x)' /\ ToldInv(x)'
<1>1. WireShrinks(x)
  BY DEF HookInv, HookTypes, WireInv, WireShrinks
<1> QED
  BY <1>1, ShrinkWire, ShrinkTold DEF HookInv

LEMMA StatusKept ==
  ASSUME HookInv, UNCHANGED <<known, tabStatus, strayed>>,
         \A x \in Tabs : TurnSame(x) /\ cli'[x].alive = cli[x].alive
  PROVE Registered' /\ HookStatusTrue'
BY DEF HookInv, Registered, HookStatusTrue, ActiveIn, Working, TurnSame

LEMMA MainKept ==
  ASSUME UNCHANGED <<known, synthetic, told, strayed>>, NEW x \in Tabs, TurnSame(x)
  PROVE MainSame(x)
BY DEF MainSame, TurnSame

\* A record in a transcript is an event for the sentinels that watch it, no more.
LEMMA WriteProperties ==
  ASSUME HookTypes, NEW t \in Tabs, NEW record \in Nat, Write(t, record)
  PROVE /\ transcript' \in [Tabs -> Seq(Nat)] /\ active' \in [Tabs -> {Quiet} \cup Readers]
        /\ \A x \in Tabs : TurnSame(x)
        /\ UNCHANGED <<known, synthetic, tabStatus, told, strayed>>
<1>1. /\ transcript' = [transcript EXCEPT ![t] = Append(transcript[t], record)]
      /\ active' = [u \in Tabs |-> IF Watches(u, t) THEN [active[u] EXCEPT !.event = TRUE] ELSE active[u]]
      /\ UNCHANGED <<known, synthetic, tabStatus, told, strayed>>
  BY DEF Write
<1>2. Append(transcript[t], record) \in Seq(Nat)
  BY DEF HookTypes
<1>3. ASSUME NEW u \in Tabs PROVE active'[u] \in {Quiet} \cup Readers /\ TurnSame(u)
  <2>1. CASE Watches(u, t)
    <3> DEFINE r == active[u]
    <3>1. active'[u] = [r EXCEPT !.event = TRUE]
      BY <1>1, <2>1
    <3>2. r \in Readers
      BY <2>1 DEF HookTypes, Watches, ActiveIn, Quiet
    <3> HIDE DEF r
    <3>3. [r EXCEPT !.event = TRUE] \in Readers /\ [r EXCEPT !.event = TRUE].turn = r.turn
      BY <3>2 DEF Readers
    <3> QED
      BY <3>1, <3>3 DEF TurnSame, r
  <2>2. CASE ~Watches(u, t)
    BY <1>1, <2>2 DEF HookTypes, TurnSame
  <2> QED
    BY <2>1, <2>2
<1> QED
  BY <1>1, <1>2, <1>3 DEF HookTypes

\* A hook posted by the CLI of t: it comes after those on the way.
LEMMA PostProperties ==
  ASSUME HookInv, NEW t \in Tabs, NEW event \in {"stop", "sessionend", "idle"}, Post(t, event),
         event = "stop" => cli[t].busy
  PROVE LET h == [event |-> event, turn |-> cli[t].turn]
        IN /\ wire' \in [Tabs -> Seq(Hooks)] /\ h \in Hooks
           /\ \A x \in Tabs : x # t => wire'[x] = wire[x]
           /\ wire'[t] \in Seq(Hooks) /\ Ordered(wire'[t])
           /\ In(wire'[t]) = In(wire[t]) \cup {h}
<1> DEFINE h == [event |-> event, turn |-> cli[t].turn]
<1>1. cli[t].turn \in Nat /\ h \in Hooks /\ h.turn = cli[t].turn /\ h.event = event
  BY NumberFacts DEF HookInv, Hooks
<1>2. wire' = [wire EXCEPT ![t] = Append(wire[t], h)]
  BY DEF Post
<1>3. wire \in [Tabs -> Seq(Hooks)] /\ wire[t] \in Seq(Hooks) /\ Ordered(wire[t])
  BY DEF HookInv, HookTypes, WireInv
<1> HIDE DEF h
<1>4. \A g \in In(wire[t]) : Ahead(g, h)
  <2> TAKE g \in In(wire[t])
  <2>1. g.turn \in Nat
    BY <1>3, InHooks DEF Hooks
  <2>2. g.turn <= cli[t].turn /\ (g.event = "stop" /\ cli[t].busy => g.turn < cli[t].turn)
    BY DEF HookInv, WireInv
  <2> QED
    BY <1>1, <2>1, <2>2 DEF Ahead
<1>5. Append(wire[t], h) \in Seq(Hooks) /\ Ordered(Append(wire[t], h)) /\ In(Append(wire[t], h)) = In(wire[t]) \cup {h}
  BY <1>1, <1>3, <1>4, AppendHook
<1>6. wire'[t] = Append(wire[t], h) /\ \A x \in Tabs : x # t => wire'[x] = wire[x]
  BY <1>2, <1>3
<1>7. wire' \in [Tabs -> Seq(Hooks)]
  BY <1>2, <1>3, <1>5
<1> QED
  BY <1>1, <1>5, <1>6, <1>7 DEF h

LEMMA CliPromptInv == ASSUME HookInv, NEW t \in Tabs, CliPrompt(t) PROVE HookInv'
<1> DEFINE n == cli[t].turn
           h == [event |-> "start", turn |-> n + 1]
<1>1. /\ ~cli[t].busy /\ cli' = [cli EXCEPT ![t].turn = n + 1, ![t].busy = TRUE]
      /\ wire' = [wire EXCEPT ![t] = Append(wire[t], h)] /\ Write(t, 0)
  BY DEF CliPrompt
<1>2. HookTypes /\ n \in Nat /\ wire[t] \in Seq(Hooks) /\ WireInv(t) /\ ToldInv(t)
  BY NumberFacts DEF HookInv, HookTypes
<1>3. h \in Hooks /\ h.turn = n + 1 /\ h.event = "start"
  BY <1>2 DEF Hooks
<1>4. /\ cli' \in [Tabs -> [alive : BOOLEAN, turn : Nat, busy : BOOLEAN, since : Nat]]
      /\ cli'[t].turn = n + 1 /\ cli'[t].since = cli[t].since
      /\ \A x \in Tabs : cli'[x].alive = cli[x].alive /\ (x # t => cli'[x] = cli[x])
  <2> DEFINE Clis == [alive : BOOLEAN, turn : Nat, busy : BOOLEAN, since : Nat]
             c == cli[t]
             d == [c EXCEPT !.turn = n + 1, !.busy = TRUE]
  <2>1. c \in Clis /\ n + 1 \in Nat /\ cli \in [Tabs -> Clis]
    BY <1>2 DEF HookTypes
  <2>2. cli' = [cli EXCEPT ![t] = d]
    BY <1>1, <2>1
  <2> HIDE DEF n, c
  <2>3. d \in Clis /\ d.turn = n + 1 /\ d.since = c.since /\ d.alive = c.alive
    BY <2>1
  <2> HIDE DEF d, Clis
  <2>4. cli' \in [Tabs -> Clis] /\ cli'[t] = d /\ \A x \in Tabs : x # t => cli'[x] = cli[x]
    BY <2>1, <2>2, <2>3
  <2> QED
    BY <2>3, <2>4 DEF Clis, c
<1>5. /\ transcript' \in [Tabs -> Seq(Nat)] /\ active' \in [Tabs -> {Quiet} \cup Readers]
      /\ \A x \in Tabs : TurnSame(x)
      /\ UNCHANGED <<known, synthetic, tabStatus, told, strayed>>
  BY <1>1, <1>2, WriteProperties
<1> HIDE DEF h, n
<1>6. \A g \in In(wire[t]) : g.turn \in Nat /\ g.turn <= n /\ Ahead(g, h)
  <2> TAKE g \in In(wire[t])
  <2>1. g.turn \in Nat
    BY <1>2, InHooks DEF Hooks
  <2>2. g.turn <= n
    BY <1>2 DEF WireInv, n
  <2> QED
    BY <1>2, <1>3, <2>1, <2>2 DEF Ahead
<1>7. Append(wire[t], h) \in Seq(Hooks) /\ Ordered(Append(wire[t], h)) /\ In(Append(wire[t], h)) = In(wire[t]) \cup {h}
  BY <1>2, <1>3, <1>6, AppendHook DEF WireInv
<1>8. /\ wire' \in [Tabs -> Seq(Hooks)] /\ wire'[t] = Append(wire[t], h)
      /\ \A x \in Tabs : x # t => wire'[x] = wire[x]
  BY <1>1, <1>2, <1>7 DEF HookTypes
<1>9. \A x \in Tabs : MainSame(x)
  BY <1>5, MainKept
<1>10. WireInv(t)'
  BY <1>2, <1>3, <1>4, <1>6, <1>7, <1>8 DEF WireInv
<1>11. ToldInv(t)'
  BY <1>1, <1>2, <1>3, <1>4, <1>7, <1>8, <1>9, PostTold DEF n
<1>12. \A x \in Tabs : WireInv(x)' /\ ToldInv(x)'
  BY <1>4, <1>8, <1>9, <1>10, <1>11, OthersKeep
<1>13. HookTypes'
  BY <1>2, <1>4, <1>5, <1>8 DEF HookTypes, HookTurns, TurnsOf
<1> QED
  BY <1>4, <1>5, <1>12, <1>13, StatusKept DEF HookInv

LEMMA CliFinishInv == ASSUME HookInv, NEW t \in Tabs, CliFinish(t) PROVE HookInv'
<1>1. /\ cli[t].busy /\ cli' = [cli EXCEPT ![t].busy = FALSE] /\ Post(t, "stop")
      /\ UNCHANGED <<transcript, known, active, synthetic, tabStatus, told, strayed>>
  BY DEF CliFinish, mainVars
<1>2. HookTypes /\ WireInv(t) /\ ToldInv(t) /\ cli[t].turn \in Nat
  BY NumberFacts DEF HookInv
<1>3. /\ cli' \in [Tabs -> [alive : BOOLEAN, turn : Nat, busy : BOOLEAN, since : Nat]]
      /\ cli'[t].turn = cli[t].turn /\ cli'[t].since = cli[t].since /\ ~cli'[t].busy
      /\ \A x \in Tabs : cli'[x].alive = cli[x].alive /\ (x # t => cli'[x] = cli[x])
  BY <1>1, <1>2 DEF HookTypes
<1>4. PICK h \in Hooks :
        /\ h.event = "stop" /\ h.turn = cli[t].turn /\ In(wire'[t]) = In(wire[t]) \cup {h}
        /\ wire' \in [Tabs -> Seq(Hooks)] /\ Ordered(wire'[t])
        /\ \A x \in Tabs : x # t => wire'[x] = wire[x]
  BY <1>1, PostProperties
<1>5. \A x \in Tabs : TurnSame(x) /\ MainSame(x)
  BY <1>1, MainKept DEF TurnSame
<1>6. WireInv(t)'
  BY <1>2, <1>3, <1>4 DEF WireInv
<1>7. ToldInv(t)'
  <2>1. MainSame(t) /\ h.event # "start" /\ cli'[t].turn >= cli[t].turn /\ cli'[t].turn \in Nat
    BY <1>2, <1>3, <1>4, <1>5
  <2> QED
    BY <1>1, <1>2, <1>3, <1>4, <2>1, PostTold
<1>8. \A x \in Tabs : WireInv(x)' /\ ToldInv(x)'
  BY <1>3, <1>4, <1>5, <1>6, <1>7, OthersKeep
<1>9. HookTypes'
  BY <1>1, <1>2, <1>3, <1>4 DEF HookTypes, HookTurns, TurnsOf
<1> QED
  BY <1>1, <1>3, <1>5, <1>8, <1>9, StatusKept DEF HookInv

LEMMA CliAbortInv == ASSUME HookInv, NEW t \in Tabs, CliAbort(t) PROVE HookInv'
<1>1. cli' = [cli EXCEPT ![t].busy = FALSE] /\ Write(t, cli[t].turn) /\ UNCHANGED wire
  BY DEF CliAbort
<1>2. HookTypes /\ WireInv(t) /\ ToldInv(t) /\ cli[t].turn \in Nat
  BY NumberFacts DEF HookInv
<1>3. /\ cli' \in [Tabs -> [alive : BOOLEAN, turn : Nat, busy : BOOLEAN, since : Nat]]
      /\ cli'[t].turn = cli[t].turn /\ cli'[t].since = cli[t].since /\ ~cli'[t].busy
      /\ \A x \in Tabs : cli'[x].alive = cli[x].alive /\ (x # t => cli'[x] = cli[x])
  BY <1>1, <1>2 DEF HookTypes
<1>4. /\ transcript' \in [Tabs -> Seq(Nat)] /\ active' \in [Tabs -> {Quiet} \cup Readers]
      /\ \A x \in Tabs : TurnSame(x)
      /\ UNCHANGED <<known, synthetic, tabStatus, told, strayed>>
  BY <1>1, <1>2, WriteProperties
<1>5. \A x \in Tabs : MainSame(x)
  BY <1>4, MainKept
<1>6. WireShrinks(t)
  BY <1>1, <1>2, <1>3 DEF WireShrinks, WireInv, HookTypes
<1>7. \A x \in Tabs : WireInv(x)' /\ ToldInv(x)'
  BY <1>1, <1>2, <1>3, <1>5, <1>6, OthersKeep, ShrinkWire, ShrinkTold
<1>8. HookTypes'
  BY <1>1, <1>2, <1>3, <1>4 DEF HookTypes, HookTurns, TurnsOf
<1> QED
  BY <1>3, <1>4, <1>7, <1>8, StatusKept DEF HookInv

LEMMA CliRemindsInv == ASSUME HookInv, NEW t \in Tabs, CliReminds(t) PROVE HookInv'
<1>1. Post(t, "idle") /\ UNCHANGED <<cli, transcript, known, active, synthetic, tabStatus, told, strayed>>
  BY DEF CliReminds, mainVars
<1>2. HookTypes /\ WireInv(t) /\ ToldInv(t) /\ cli[t].turn \in Nat
  BY NumberFacts DEF HookInv
<1>3. PICK h \in Hooks :
        /\ h.event = "idle" /\ h.turn = cli[t].turn /\ In(wire'[t]) = In(wire[t]) \cup {h}
        /\ wire' \in [Tabs -> Seq(Hooks)] /\ Ordered(wire'[t])
        /\ \A x \in Tabs : x # t => wire'[x] = wire[x]
  BY <1>1, PostProperties
<1>4. \A x \in Tabs : TurnSame(x) /\ MainSame(x)
  BY <1>1, MainKept DEF TurnSame
<1>5. WireInv(t)'
  BY <1>1, <1>2, <1>3 DEF WireInv
<1>6. ToldInv(t)'
  BY <1>1, <1>2, <1>3, <1>4, PostTold
<1>7. \A x \in Tabs : WireInv(x)' /\ ToldInv(x)'
  BY <1>1, <1>3, <1>4, <1>5, <1>6, OthersKeep
<1>8. HookTypes'
  BY <1>1, <1>2, <1>3 DEF HookTypes, HookTurns, TurnsOf
<1> QED
  BY <1>1, <1>4, <1>7, <1>8, StatusKept DEF HookInv

LEMMA CliLosesHookInv == ASSUME HookInv, NEW t \in Tabs, CliLosesHook(t) PROVE HookInv'
<1>1. /\ wire[t] # <<>> /\ wire' = [wire EXCEPT ![t] = Tail(wire[t])]
      /\ UNCHANGED <<cli, transcript, known, active, synthetic, tabStatus, told, strayed>>
  BY DEF CliLosesHook, mainVars
<1>2. HookTypes /\ WireInv(t) /\ ToldInv(t)
  BY DEF HookInv
<1>3. Tail(wire[t]) \in Seq(Hooks) /\ In(Tail(wire[t])) \subseteq In(wire[t]) /\ Ordered(Tail(wire[t]))
  BY <1>1, <1>2, TailHook DEF WireInv, HookTypes
<1>4. /\ wire' \in [Tabs -> Seq(Hooks)] /\ wire'[t] = Tail(wire[t])
      /\ \A x \in Tabs : x # t => wire'[x] = wire[x]
  BY <1>1, <1>2, <1>3 DEF HookTypes
<1>5. \A x \in Tabs : TurnSame(x) /\ MainSame(x)
  BY <1>1, MainKept DEF TurnSame
<1>6. WireShrinks(t)
  BY <1>1, <1>3, <1>4 DEF WireShrinks
<1>7. \A x \in Tabs : WireInv(x)' /\ ToldInv(x)'
  BY <1>1, <1>2, <1>4, <1>5, <1>6, OthersKeep, ShrinkWire, ShrinkTold
<1>8. HookTypes'
  BY <1>1, <1>2, <1>4 DEF HookTypes, HookTurns, TurnsOf
<1> QED
  BY <1>1, <1>5, <1>7, <1>8, StatusKept DEF HookInv

\* A CLI that leaves may post the end of its session, after everything else.
LEMMA SessionEndProperties ==
  ASSUME HookInv, NEW t \in Tabs, wire' = wire \/ Post(t, "sessionend")
  PROVE /\ wire' \in [Tabs -> Seq(Hooks)] /\ Ordered(wire'[t])
        /\ \A x \in Tabs : x # t => wire'[x] = wire[x]
        /\ \A h \in In(wire'[t]) : h \in In(wire[t]) \/ (h.event = "sessionend" /\ h.turn = cli[t].turn)
<1>1. CASE wire' = wire
  BY <1>1 DEF HookInv, HookTypes, WireInv
<1>2. CASE Post(t, "sessionend")
  <2>1. PICK h \in Hooks :
          /\ h.event = "sessionend" /\ h.turn = cli[t].turn /\ In(wire'[t]) = In(wire[t]) \cup {h}
          /\ wire' \in [Tabs -> Seq(Hooks)] /\ Ordered(wire'[t])
          /\ \A x \in Tabs : x # t => wire'[x] = wire[x]
    BY <1>2, PostProperties
  <2> QED
    BY <2>1
<1> QED
  BY <1>1, <1>2

\* Nothing of the CLI that left counts any more.
LEMMA LeftTold ==
  ASSUME HookTypes, NEW t \in Tabs, ToldInv(t), ~ActiveIn(t)', told'[t] = told[t],
         strayed \subseteq strayed', cli'[t].turn = cli[t].turn,
         \A h \in In(wire'[t]) : h \in In(wire[t]) \/ (h.event = "sessionend" /\ h.turn = cli[t].turn),
         t \notin known' \/ cli'[t].since = cli[t].turn + 1
  PROVE ToldInv(t)'
<1> SUFFICES ASSUME t \notin strayed' PROVE OpenOK(t)' /\ \A n \in HookTurns : told'[t][n] # 0 => ToldOK(t, n)'
  BY DEF ToldInv, HookTurns, TurnsOf
<1>1. ASSUME NEW n \in HookTurns, told'[t][n] # 0 PROVE ToldOK(t, n)'
  <2>1. ToldOK(t, n) /\ n \in Nat /\ cli[t].turn \in Nat
    BY <1>1, NumberFacts DEF ToldInv
  <2>2. n <= cli[t].turn
    BY <2>1 DEF ToldOK
  <2>3. \A h \in In(wire'[t]) : Past(n, h)
    BY <2>1, <2>2 DEF ToldOK, Past
  <2>4. t \in known' => ~(n >= cli'[t].since)
    BY <2>1, <2>2
  <2> QED
    BY <2>1, <2>2, <2>3, <2>4 DEF ToldOK
<1> QED
  BY <1>1 DEF OpenOK

LEMMA LeftWire ==
  ASSUME NEW t \in Tabs, WireInv(t), Ordered(wire'[t]), cli'[t].turn = cli[t].turn,
         cli'[t].busy => cli[t].busy, cli[t].turn \in Nat,
         \A h \in In(wire'[t]) : h \in In(wire[t]) \/ (h.event = "sessionend" /\ h.turn = cli[t].turn)
  PROVE WireInv(t)'
BY DEF WireInv

LEMMA CliReplaceInv == ASSUME HookInv, NEW t \in Tabs, CliReplace(t) PROVE HookInv'
<1>1. /\ cli' = [cli EXCEPT ![t].busy = FALSE, ![t].since = cli[t].turn + 1]
      /\ (wire' = wire \/ Post(t, "sessionend")) /\ tabStatus' = [tabStatus EXCEPT ![t] = "none"]
      /\ strayed' = IF ActiveIn(t) THEN strayed \cup {t} ELSE strayed
      /\ UNCHANGED <<transcript, known, active, synthetic, told>>
  BY DEF CliReplace, Status
<1>2. HookTypes /\ WireInv(t) /\ ToldInv(t) /\ cli[t].turn \in Nat
  BY NumberFacts DEF HookInv
<1>3. /\ cli' \in [Tabs -> [alive : BOOLEAN, turn : Nat, busy : BOOLEAN, since : Nat]]
      /\ cli'[t].turn = cli[t].turn /\ cli'[t].since = cli[t].turn + 1 /\ ~cli'[t].busy
      /\ \A x \in Tabs : cli'[x].alive = cli[x].alive /\ (x # t => cli'[x] = cli[x])
  <2> DEFINE Clis == [alive : BOOLEAN, turn : Nat, busy : BOOLEAN, since : Nat]
             c == cli[t]
             d == [c EXCEPT !.busy = FALSE, !.since = c.turn + 1]
  <2>1. c \in Clis /\ c.turn + 1 \in Nat /\ cli \in [Tabs -> Clis]
    BY <1>2 DEF HookTypes
  <2>2. cli' = [cli EXCEPT ![t] = d]
    BY <1>1, <2>1
  <2> HIDE DEF c
  <2>3. d \in Clis /\ d.turn = c.turn /\ d.since = c.turn + 1 /\ d.alive = c.alive /\ ~d.busy
    BY <2>1
  <2> HIDE DEF d, Clis
  <2>4. cli' \in [Tabs -> Clis] /\ cli'[t] = d /\ \A x \in Tabs : x # t => cli'[x] = cli[x]
    BY <2>1, <2>2, <2>3
  <2> QED
    BY <2>3, <2>4 DEF Clis, c
<1>4. /\ wire' \in [Tabs -> Seq(Hooks)] /\ Ordered(wire'[t])
      /\ \A x \in Tabs : x # t => wire'[x] = wire[x]
      /\ \A h \in In(wire'[t]) : h \in In(wire[t]) \/ (h.event = "sessionend" /\ h.turn = cli[t].turn)
  BY <1>1, SessionEndProperties
<1>5. strayed \subseteq strayed' /\ strayed' \subseteq strayed \cup {t} /\ (ActiveIn(t) => t \in strayed')
  BY <1>1
<1>6. \A x \in Tabs : MainSame(x)
  BY <1>1, <1>5 DEF MainSame
<1>7. WireInv(t)'
  BY <1>2, <1>3, <1>4, LeftWire
<1>8. ToldInv(t)'
  <2>1. CASE t \in strayed'
    BY <2>1 DEF ToldInv
  <2>2. CASE t \notin strayed'
    <3>1. ~ActiveIn(t)'
      BY <1>1, <1>5, <2>2 DEF ActiveIn
    <3> QED
      BY <1>1, <1>2, <1>3, <1>4, <1>5, <3>1, LeftTold
  <2> QED
    BY <2>1, <2>2
<1>9. \A x \in Tabs : WireInv(x)' /\ ToldInv(x)'
  BY <1>3, <1>4, <1>6, <1>7, <1>8, OthersKeep
<1>10. HookTypes'
  BY <1>1, <1>2, <1>3, <1>4, <1>5 DEF HookTypes, HookTurns, TurnsOf
<1>11. Registered'
  BY <1>1, <1>3 DEF HookInv, Registered, ActiveIn
<1>12. HookStatusTrue'
  BY <1>1, <1>2, <1>5 DEF HookInv, HookStatusTrue, Working, ActiveIn, HookTypes
<1> QED
  BY <1>9, <1>10, <1>11, <1>12 DEF HookInv

LEMMA CliRestartInv == ASSUME HookInv, NEW t \in Tabs, CliRestart(t) PROVE HookInv'
<1>1. /\ ~cli[t].alive /\ cli' = [cli EXCEPT ![t].alive = TRUE, ![t].since = cli[t].turn + 1]
      /\ known' = known \cup {t}
      /\ UNCHANGED <<wire, transcript, active, synthetic, tabStatus, told, strayed>>
  BY DEF CliRestart
<1>2. HookTypes /\ WireInv(t) /\ ToldInv(t) /\ cli[t].turn \in Nat
  BY NumberFacts DEF HookInv
<1>3. /\ cli' \in [Tabs -> [alive : BOOLEAN, turn : Nat, busy : BOOLEAN, since : Nat]]
      /\ cli'[t].turn = cli[t].turn /\ cli'[t].since = cli[t].turn + 1
      /\ cli'[t].busy = cli[t].busy /\ cli'[t].alive
      /\ \A x \in Tabs : x # t => cli'[x] = cli[x]
  <2> DEFINE Clis == [alive : BOOLEAN, turn : Nat, busy : BOOLEAN, since : Nat]
             c == cli[t]
             d == [c EXCEPT !.alive = TRUE, !.since = c.turn + 1]
  <2>1. c \in Clis /\ c.turn + 1 \in Nat /\ cli \in [Tabs -> Clis]
    BY <1>2 DEF HookTypes
  <2>2. cli' = [cli EXCEPT ![t] = d]
    BY <1>1, <2>1
  <2> HIDE DEF c
  <2>3. d \in Clis /\ d.turn = c.turn /\ d.since = c.turn + 1 /\ d.alive /\ d.busy = c.busy
    BY <2>1
  <2> HIDE DEF d, Clis
  <2>4. cli' \in [Tabs -> Clis] /\ cli'[t] = d /\ \A x \in Tabs : x # t => cli'[x] = cli[x]
    BY <2>1, <2>2, <2>3
  <2> QED
    BY <2>3, <2>4 DEF Clis, c
<1>4. t \notin known /\ ~ActiveIn(t) /\ ~ActiveIn(t)'
  BY <1>1 DEF HookInv, Registered, ActiveIn
<1>5. \A x \in Tabs : x # t => MainSame(x)
  BY <1>1 DEF MainSame
<1>6. WireInv(t)'
  BY <1>1, <1>2, <1>3 DEF WireInv
<1>7. ToldInv(t)'
  BY <1>1, <1>2, <1>3, <1>4, LeftTold
<1>8. \A x \in Tabs : WireInv(x)' /\ ToldInv(x)'
  BY <1>1, <1>3, <1>5, <1>6, <1>7, OthersKeep
<1>9. HookTypes'
  BY <1>1, <1>2, <1>3 DEF HookTypes, HookTurns, TurnsOf
<1>10. Registered'
  BY <1>1, <1>3, <1>4 DEF HookInv, Registered, ActiveIn
<1>11. HookStatusTrue'
  BY <1>1 DEF HookInv, HookStatusTrue, Working, ActiveIn
<1> QED
  BY <1>8, <1>9, <1>10, <1>11 DEF HookInv

LEMMA TellProperties ==
  ASSUME HookTypes, NEW t \in Tabs, NEW m, told' = [told EXCEPT ![t][m] = @ + 1]
  PROVE told' \in [Tabs -> [HookTurns -> Nat]] /\ \A x \in Tabs : x # t => told'[x] = told[x]
<1> DEFINE f == told[t]
           g == [f EXCEPT ![m] = f[m] + 1]
<1>1. f \in [HookTurns -> Nat] /\ told \in [Tabs -> [HookTurns -> Nat]]
  BY DEF HookTypes
<1>2. told' = [told EXCEPT ![t] = g]
  BY <1>1
<1> HIDE DEF f
<1>3. \A n \in HookTurns : f[n] \in Nat /\ f[n] + 1 \in Nat
  BY <1>1
<1>4. g \in [HookTurns -> Nat]
  <2>1. g = [n \in HookTurns |-> IF n = m THEN f[n] + 1 ELSE f[n]]
    BY <1>1
  <2> HIDE DEF g
  <2> QED
    BY <1>3, <2>1
<1> QED
  BY <1>1, <1>2, <1>4

LEMMA CliExitInv == ASSUME HookInv, NEW t \in Tabs, CliExit(t) PROVE HookInv'
<1>1. /\ cli' = [cli EXCEPT ![t].alive = FALSE, ![t].busy = FALSE]
      /\ (wire' = wire \/ Post(t, "sessionend"))
      /\ IF ActiveIn(t) THEN Tell(t, active[t].turn) ELSE UNCHANGED told
      /\ active' = [active EXCEPT ![t] = Quiet] /\ synthetic' = synthetic \ {t}
      /\ tabStatus' = [tabStatus EXCEPT ![t] = "none"] /\ known' = known \ {t}
      /\ UNCHANGED <<transcript, strayed>>
  BY DEF CliExit, EndActive, Status
<1>2. HookTypes /\ WireInv(t) /\ ToldInv(t) /\ cli[t].turn \in Nat
  BY NumberFacts DEF HookInv
<1>3. /\ cli' \in [Tabs -> [alive : BOOLEAN, turn : Nat, busy : BOOLEAN, since : Nat]]
      /\ cli'[t].turn = cli[t].turn /\ cli'[t].since = cli[t].since /\ ~cli'[t].busy /\ ~cli'[t].alive
      /\ \A x \in Tabs : x # t => cli'[x] = cli[x]
  <2> DEFINE Clis == [alive : BOOLEAN, turn : Nat, busy : BOOLEAN, since : Nat]
             c == cli[t]
             d == [c EXCEPT !.alive = FALSE, !.busy = FALSE]
  <2>1. c \in Clis /\ cli \in [Tabs -> Clis]
    BY <1>2 DEF HookTypes
  <2>2. cli' = [cli EXCEPT ![t] = d]
    BY <1>1, <2>1
  <2> HIDE DEF c
  <2>3. d \in Clis /\ d.turn = c.turn /\ d.since = c.since /\ ~d.alive /\ ~d.busy
    BY <2>1
  <2> HIDE DEF d, Clis
  <2>4. cli' \in [Tabs -> Clis] /\ cli'[t] = d /\ \A x \in Tabs : x # t => cli'[x] = cli[x]
    BY <2>1, <2>2, <2>3
  <2> QED
    BY <2>3, <2>4 DEF Clis, c
<1>4. /\ wire' \in [Tabs -> Seq(Hooks)] /\ Ordered(wire'[t])
      /\ \A x \in Tabs : x # t => wire'[x] = wire[x]
      /\ \A h \in In(wire'[t]) : h \in In(wire[t]) \/ (h.event = "sessionend" /\ h.turn = cli[t].turn)
  BY <1>1, SessionEndProperties
<1>5. /\ active' \in [Tabs -> {Quiet} \cup Readers] /\ active'[t] = Quiet
      /\ \A x \in Tabs : x # t => active'[x] = active[x]
  BY <1>1, <1>2 DEF HookTypes
<1>6. ~ActiveIn(t)'
  BY <1>5 DEF ActiveIn, Quiet
<1>7. /\ told' \in [Tabs -> [HookTurns -> Nat]]
      /\ \A x \in Tabs : x # t => told'[x] = told[x]
  <2>1. CASE ActiveIn(t)
    <3>1. told' = [told EXCEPT ![t][active[t].turn] = @ + 1]
      BY <1>1, <2>1 DEF Tell
    <3> QED
      BY <1>2, <3>1, TellProperties
  <2>2. CASE ~ActiveIn(t)
    BY <1>1, <1>2, <2>2 DEF HookTypes
  <2> QED
    BY <2>1, <2>2
<1>8. \A x \in Tabs : x # t => MainSame(x)
  BY <1>1, <1>5, <1>7 DEF MainSame
<1>9. WireInv(t)'
  BY <1>2, <1>3, <1>4, LeftWire
<1>10. ToldInv(t)'
  <2>1. CASE ActiveIn(t)
    <3>1. CloseTold(t)
      BY <1>1, <1>3, <2>1 DEF CloseTold
    <3>2. t \notin known'
      BY <1>1
    <3>3. PICK m \in Nat : m = active[t].turn
      BY <1>2, NumberFacts
    <3> QED
      BY <1>2, <1>4, <3>1, <3>2, <3>3, CloseToldInv
  <2>2. CASE ~ActiveIn(t)
    BY <1>1, <1>2, <1>3, <1>4, <1>6, <2>2, LeftTold
  <2> QED
    BY <2>1, <2>2
<1>11. \A x \in Tabs : WireInv(x)' /\ ToldInv(x)'
  BY <1>3, <1>4, <1>8, <1>9, <1>10, OthersKeep
<1>12. HookTypes'
  BY <1>1, <1>2, <1>3, <1>4, <1>5, <1>7 DEF HookTypes, HookTurns, TurnsOf
<1>13. Registered'
  BY <1>1, <1>3, <1>5, <1>6 DEF HookInv, Registered, ActiveIn
<1>14. HookStatusTrue'
  BY <1>1, <1>2, <1>5, <1>6 DEF HookInv, HookStatusTrue, Working, ActiveIn, HookTypes
<1> QED
  BY <1>11, <1>12, <1>13, <1>14 DEF HookInv

\* Ctrl+C, and the record of an abort, close the open turn.
LEMMA CloseTurnInv ==
  ASSUME HookInv, NEW t \in Tabs, ActiveIn(t), NEW s \in {"wait", "degraded"}, CloseTurn(t, s),
         UNCHANGED <<cli, wire, transcript, known, strayed>>
  PROVE HookInv'
<1>1. /\ tabStatus' = [tabStatus EXCEPT ![t] = s] /\ active' = [active EXCEPT ![t] = Quiet]
      /\ Tell(t, active[t].turn) /\ synthetic' = synthetic \cup {t}
      /\ told' = [told EXCEPT ![t][active[t].turn] = @ + 1]
  BY DEF CloseTurn, Status, EndActive, Tell
<1>2. HookTypes /\ WireInv(t) /\ ToldInv(t) /\ t \in known
  BY DEF HookInv, Registered
<1>3. /\ active' \in [Tabs -> {Quiet} \cup Readers] /\ active'[t] = Quiet
      /\ \A x \in Tabs : x # t => active'[x] = active[x]
  BY <1>1, <1>2 DEF HookTypes
<1>4. ~ActiveIn(t)'
  BY <1>3 DEF ActiveIn, Quiet
<1>5. told' \in [Tabs -> [HookTurns -> Nat]] /\ \A x \in Tabs : x # t => told'[x] = told[x]
  BY <1>1, <1>2, TellProperties
<1>6. \A x \in Tabs : x # t => MainSame(x)
  BY <1>1, <1>3, <1>5 DEF MainSame
<1>7. WireInv(t)'
  BY <1>2 DEF WireInv
<1>8. ToldInv(t)'
  <2>1. CloseTold(t)
    BY <1>1 DEF CloseTold
  <2>2. PICK m \in Nat : m = active[t].turn
    BY <1>2, NumberFacts
  <2> QED
    BY <1>1, <1>2, <2>1, <2>2, CloseToldInv
<1>9. \A x \in Tabs : WireInv(x)' /\ ToldInv(x)'
  BY <1>6, <1>7, <1>8, OthersKeep
<1>10. HookTypes'
  BY <1>1, <1>2, <1>3, <1>5 DEF HookTypes, HookTurns, TurnsOf
<1>11. Registered'
  BY <1>3, <1>4 DEF HookInv, Registered, ActiveIn
<1>12. HookStatusTrue'
  BY <1>1, <1>2, <1>3, <1>4 DEF HookInv, HookStatusTrue, Working, ActiveIn, HookTypes
<1> QED
  BY <1>9, <1>10, <1>11, <1>12 DEF HookInv

LEMMA CtrlCInv == ASSUME HookInv, NEW t \in Tabs, CtrlC(t) PROVE HookInv'
BY CloseTurnInv DEF CtrlC, cliVars

\* The sentinel moves on, with the same turn open.
LEMMA SentinelKeeps ==
  ASSUME HookInv, NEW t \in Tabs, NEW r \in Readers, r.turn = active[t].turn, SentinelOnly(t, r)
  PROVE HookInv'
<1>1. /\ active' = [active EXCEPT ![t] = r]
      /\ UNCHANGED <<cli, wire, transcript, known, synthetic, tabStatus, told, strayed>>
  BY DEF SentinelOnly, cliVars
<1>2. active' \in [Tabs -> {Quiet} \cup Readers] /\ \A x \in Tabs : TurnSame(x)
  BY <1>1 DEF HookInv, HookTypes, TurnSame
<1>3. \A x \in Tabs : MainSame(x)
  BY <1>1, <1>2, MainKept
<1>4. \A x \in Tabs : WireInv(x)' /\ ToldInv(x)'
  BY <1>1, <1>3, OthersKeep
<1>5. HookTypes'
  BY <1>1, <1>2 DEF HookInv, HookTypes, HookTurns, TurnsOf
<1> QED
  BY <1>1, <1>2, <1>4, <1>5, StatusKept DEF HookInv

LEMMA ScheduleProperties ==
  ASSUME NEW s \in Readers
  PROVE ScheduleRead(s) \in Readers /\ ScheduleRead(s).turn = s.turn
<1>1. CASE s.reading = "no"
  <2> DEFINE r == [s EXCEPT !.reading = "open", !.early = s.early \/ ~s.probed]
  <2>1. ScheduleRead(s) = r
    BY <1>1 DEF ScheduleRead
  <2>2. r \in Readers /\ r.turn = s.turn
    BY DEF Readers
  <2> QED
    BY <2>1, <2>2
<1>2. CASE s.reading # "no"
  <2> DEFINE r == [s EXCEPT !.pending = TRUE]
  <2>1. ScheduleRead(s) = r
    BY <1>2 DEF ScheduleRead
  <2>2. r \in Readers /\ r.turn = s.turn
    BY DEF Readers
  <2> QED
    BY <2>1, <2>2
<1> QED
  BY <1>1, <1>2

LEMMA SentinelInv == ASSUME HookInv, NEW t \in Tabs, SentinelStep(t) PROVE HookInv'
<1> DEFINE s == active[t]
           n == Len(Sees(t))
<1>1. ActiveIn(t)
  BY DEF SentinelStep, SentinelEvent, SentinelProbed, SentinelOpens, SentinelReads
<1>2. s \in Readers
  BY <1>1 DEF HookInv, HookTypes, ActiveIn, Quiet
<1>3. s.tab \in Tabs
  BY <1>2 DEF Readers
<1>4. n \in Nat
  <2>1. Sees(t) \in Seq(Nat)
    BY <1>3 DEF HookInv, HookTypes, Sees
  <2> QED
    BY <2>1, LenProperties
<1>5. CASE SentinelEvent(t)
  <2> DEFINE q == [s EXCEPT !.event = FALSE]
  <2>1. q \in Readers /\ q.turn = s.turn
    BY <1>2 DEF Readers
  <2>2. SentinelOnly(t, ScheduleRead(q))
    BY <1>5 DEF SentinelEvent
  <2> HIDE DEF q
  <2> QED
    BY <2>1, <2>2, ScheduleProperties, SentinelKeeps
<1>6. CASE SentinelProbed(t)
  <2> DEFINE q == [s EXCEPT !.probed = TRUE, !.off = n]
  <2>1. q \in Readers /\ q.turn = s.turn
    <3> HIDE DEF n, s
    <3>1. n \in Int
      BY <1>4
    <3> QED
      BY <1>2, <3>1 DEF Readers
  <2>2. SentinelOnly(t, ScheduleRead(q))
    BY <1>6 DEF SentinelProbed
  <2> HIDE DEF q
  <2> QED
    BY <2>1, <2>2, ScheduleProperties, SentinelKeeps
<1>7. CASE SentinelOpens(t)
  <2> DEFINE from == IF n < s.off THEN 0 ELSE s.off
             q == [s EXCEPT !.reading = "bytes", !.size = n, !.from = from, !.off = from]
  <2>1. SentinelOnly(t, q)
    BY <1>7 DEF SentinelOpens
  <2>2. from \in Int
    <3> HIDE DEF n
    <3> QED BY <1>2, <1>4 DEF Readers
  <2> HIDE DEF from
  <2>3. q \in Readers /\ q.turn = s.turn
    <3> HIDE DEF n, s
    <3>1. n \in Int
      BY <1>4
    <3> QED
      BY <1>2, <2>2, <3>1 DEF Readers
  <2> HIDE DEF q
  <2> QED
    BY <2>1, <2>3, SentinelKeeps
<1>8. CASE SentinelReads(t)
  <2>1. CASE AbortsIn(t, s.from, s.size) # {}
    <3>1. PICK status \in {"wait", "degraded"} : CloseTurn(t, status)
      BY <1>8, <2>1 DEF SentinelReads
    <3>2. UNCHANGED <<cli, wire, transcript, known, strayed>>
      BY <1>8, <2>1 DEF SentinelReads, cliVars
    <3> QED
      BY <1>1, <3>1, <3>2, CloseTurnInv
  <2>2. CASE AbortsIn(t, s.from, s.size) = {}
    <3> DEFINE off == s.off + s.size - s.from
               to == IF s.pending THEN "open" ELSE "no"
               q == [s EXCEPT !.off = off, !.reading = to, !.pending = FALSE]
    <3>1. SentinelOnly(t, q)
      BY <1>8, <2>2 DEF SentinelReads
    <3>2. off \in Int /\ to \in {"no", "open", "bytes"}
      BY <1>2 DEF Readers
    <3> HIDE DEF off, to
    <3>3. q \in Readers /\ q.turn = s.turn
      BY <1>2, <3>2 DEF Readers
    <3> HIDE DEF q
    <3> QED
      BY <3>1, <3>3, SentinelKeeps
  <2> QED
    BY <2>1, <2>2
<1> QED
  BY <1>5, <1>6, <1>7, <1>8 DEF SentinelStep

\* A hook reaches the terminal it names, or a stranger, which is not held to its promise.
LEMMA HookArrivesInv == ASSUME HookInv, NEW u \in Tabs, HookArrives(u) PROVE HookInv'
<1>1. /\ wire[u] # <<>> /\ wire' = [wire EXCEPT ![u] = Tail(wire[u])]
      /\ UNCHANGED <<cli, transcript, known>>
  BY DEF HookArrives
<1>2. HookTypes /\ \A x \in Tabs : WireInv(x) /\ ToldInv(x)
  BY DEF HookInv
<1>3. /\ Tail(wire[u]) \in Seq(Hooks) /\ In(Tail(wire[u])) \subseteq In(wire[u]) /\ Ordered(Tail(wire[u]))
      /\ Head(wire[u]) \in Hooks /\ Head(wire[u]) \in In(wire[u])
  BY <1>1, <1>2, TailHook DEF WireInv, HookTypes
<1>4. /\ wire' \in [Tabs -> Seq(Hooks)] /\ wire'[u] = Tail(wire[u])
      /\ \A x \in Tabs : x # u => wire'[x] = wire[x]
  BY <1>1, <1>2, <1>3 DEF HookTypes
<1>5. \A x \in Tabs : WireShrinks(x) /\ cli'[x].since = cli[x].since
  <2> TAKE x \in Tabs
  <2>1. CASE x = u
    BY <1>1, <1>3, <1>4, <2>1 DEF WireShrinks
  <2>2. CASE x # u
    BY <1>1, <1>2, <1>4, <2>2 DEF WireShrinks, WireInv, HookTypes
  <2> QED
    BY <2>1, <2>2
<1>6. \A x \in Tabs : WireInv(x)'
  BY <1>2, <1>5, ShrinkWire
<1>7. CASE ~\E t \in Tabs : Resolved(u, t)
  <2>1. UNCHANGED <<active, synthetic, tabStatus, told, strayed>>
    BY <1>7 DEF HookArrives
  <2>2. \A x \in Tabs : TurnSame(x) /\ MainSame(x)
    BY <1>1, <2>1, MainKept DEF TurnSame
  <2>3. \A x \in Tabs : ToldInv(x)'
    BY <1>2, <1>5, <2>2, ShrinkTold
  <2>4. HookTypes'
    BY <1>1, <1>2, <1>4, <2>1 DEF HookTypes, HookTurns, TurnsOf
  <2> QED
    BY <1>1, <1>6, <2>1, <2>2, <2>3, <2>4, StatusKept DEF HookInv
<1>8. ASSUME NEW t \in Tabs, Resolved(u, t), Handle(t, u, Head(wire[u])),
             strayed' = IF u # t \/ Head(wire[u]).turn < cli[t].since THEN strayed \cup {t} ELSE strayed
      PROVE HookInv'
  <2> DEFINE h == Head(wire[u])
  <2>1. t \in known
    BY <1>8 DEF Resolved
  <2>2. /\ strayed \subseteq strayed' /\ strayed' \subseteq strayed \cup {t}
        /\ t \notin strayed' => u = t /\ ~(h.turn < cli[t].since)
    BY <1>8
  <2>3. h.turn \in Nat /\ h.event \in {"start", "stop", "sessionend", "idle"} /\ cli[t].since \in Nat
        /\ (h.event = "start" => h.turn >= 1)
    BY <1>2, <1>3, NumberFacts DEF Hooks, WireInv
  <2>4. t \notin strayed' => Arrives(t)
    BY <1>1, <1>4, <2>1, <2>2, <2>3 DEF Arrives
  <2> HIDE DEF h
  <2>5. \/ h.event = "start" /\ StartTurn(t, u, h.turn)
        \/ h.event = "stop" /\ EndTurn(t, h.turn)
        \/ h.event = "sessionend" /\ CloseTurn(t, "wait")
        \/ h.event = "idle" /\ Remind(t)
    BY <1>8 DEF Handle, h
  <2>6. /\ active' \in [Tabs -> {Quiet} \cup Readers]
        /\ \A x \in Tabs : x # t => active'[x] = active[x]
        /\ synthetic' \subseteq known /\ synthetic' \ {t} = synthetic \ {t}
        /\ told' \in [Tabs -> [HookTurns -> Nat]] /\ \A x \in Tabs : x # t => told'[x] = told[x]
        /\ tabStatus' \in [Tabs -> {"none", "running", "wait", "degraded", "needs-input"}]
        /\ \A x \in Tabs : x # t => tabStatus'[x] = tabStatus[x]
        /\ (Working(t) => ActiveIn(t))'
        /\ ActiveIn(t)' /\ t \notin strayed' => Working(t)'
    <3>0. Working(t) => ActiveIn(t) /\ (ActiveIn(t) /\ t \notin strayed => Working(t))
      BY DEF HookInv, HookStatusTrue
    <3>1. CASE h.event = "start" /\ StartTurn(t, u, h.turn)
      <4> DEFINE r == Begun(u, h.turn)
      <4>1. r \in Readers /\ r.turn = h.turn
        BY <2>3 DEF Begun, Readers
      <4>2. /\ active' = [active EXCEPT ![t] = r] /\ synthetic' = synthetic \ {t}
            /\ tabStatus' = [tabStatus EXCEPT ![t] = "running"] /\ told' = told
        BY <3>1 DEF StartTurn, Status
      <4> HIDE DEF r
      <4>3. active' \in [Tabs -> {Quiet} \cup Readers] /\ active'[t] = r /\ tabStatus'[t] = "running"
        BY <1>2, <4>1, <4>2 DEF HookTypes
      <4>4. ActiveIn(t)' /\ Working(t)'
        BY <2>3, <3>1, <4>1, <4>3 DEF ActiveIn, Working
      <4> QED
        BY <1>2, <4>2, <4>3, <4>4 DEF HookTypes
    <3>2. CASE h.event = "stop" /\ EndTurn(t, h.turn)
      <4>1. CASE AlreadyEnded(t)
        <5>1. UNCHANGED <<active, synthetic, tabStatus, told>> /\ ~ActiveIn(t)
          BY <3>2, <4>1 DEF EndTurn, AlreadyEnded
        <5> QED
          BY <1>2, <3>0, <5>1 DEF HookTypes, ActiveIn, Working
      <4>2. CASE ~AlreadyEnded(t)
        <5> DEFINE m == IF ActiveIn(t) THEN active[t].turn ELSE h.turn
        <5>1. PICK s \in {"wait", "degraded"} :
                /\ active' = [active EXCEPT ![t] = Quiet] /\ synthetic' = synthetic
                /\ told' = [told EXCEPT ![t][m] = @ + 1]
                /\ tabStatus' = [tabStatus EXCEPT ![t] = s]
          BY <3>2, <4>2 DEF EndTurn, EndActive, Tell, Status
        <5> HIDE DEF m
        <5>2. told' \in [Tabs -> [HookTurns -> Nat]] /\ \A x \in Tabs : x # t => told'[x] = told[x]
          BY <1>2, <5>1, TellProperties
        <5>3. active'[t] = Quiet /\ tabStatus'[t] = s
          BY <1>2, <5>1 DEF HookTypes
        <5>4. ~ActiveIn(t)' /\ ~Working(t)'
          BY <5>1, <5>3 DEF ActiveIn, Quiet, Working
        <5> QED
          BY <1>2, <5>1, <5>2, <5>4 DEF HookTypes
      <4> QED
        BY <4>1, <4>2
    <3>3. CASE h.event = "sessionend" /\ CloseTurn(t, "wait")
      <4>1. tabStatus' = [tabStatus EXCEPT ![t] = "wait"]
        BY <3>3 DEF CloseTurn, Status
      <4>2. ~Working(t)' /\ tabStatus' \in [Tabs -> {"none", "running", "wait", "degraded", "needs-input"}]
            /\ \A x \in Tabs : x # t => tabStatus'[x] = tabStatus[x]
        BY <1>2, <4>1 DEF HookTypes, Working
      <4>3. CASE ActiveIn(t)
        <5>1. /\ active' = [active EXCEPT ![t] = Quiet] /\ synthetic' = synthetic \cup {t}
              /\ told' = [told EXCEPT ![t][active[t].turn] = @ + 1]
          BY <3>3, <4>3 DEF CloseTurn, EndActive, Tell
        <5>2. told' \in [Tabs -> [HookTurns -> Nat]] /\ \A x \in Tabs : x # t => told'[x] = told[x]
          BY <1>2, <5>1, TellProperties
        <5>3. active'[t] = Quiet
          BY <1>2, <5>1 DEF HookTypes
        <5>4. ~ActiveIn(t)'
          BY <5>3 DEF ActiveIn, Quiet
        <5> QED
          BY <1>2, <2>1, <4>2, <5>1, <5>2, <5>4 DEF HookTypes
      <4>4. CASE ~ActiveIn(t)
        <5>1. UNCHANGED <<active, told, synthetic>>
          BY <3>3, <4>4 DEF CloseTurn
        <5> QED
          BY <1>2, <4>2, <4>4, <5>1 DEF HookTypes, ActiveIn
      <4> QED
        BY <4>3, <4>4
    <3>4. CASE h.event = "idle" /\ Remind(t)
      <4>1. /\ tabStatus' = [tabStatus EXCEPT ![t] = IF ActiveIn(t) THEN "needs-input" ELSE tabStatus[t]]
            /\ UNCHANGED <<active, synthetic, told>>
        BY <3>4 DEF Remind
      <4>2. tabStatus'[t] = IF ActiveIn(t) THEN "needs-input" ELSE tabStatus[t]
        BY <1>2, <4>1 DEF HookTypes
      <4>3. (ActiveIn(t)' <=> ActiveIn(t)) /\ (Working(t)' <=> ActiveIn(t))
        BY <3>0, <4>1, <4>2 DEF ActiveIn, Working
      <4> QED
        BY <1>2, <4>1, <4>3 DEF HookTypes
    <3> QED
      BY <2>5, <3>1, <3>2, <3>3, <3>4
  <2>7. \A x \in Tabs : x # t => MainSame(x)
    BY <1>1, <2>2, <2>6 DEF MainSame
  <2>8. ToldInv(t)'
    <3>1. CASE t \in strayed'
      BY <3>1 DEF ToldInv
    <3>2. CASE t \notin strayed'
      <4>1. u = t /\ Arrives(t) /\ WireInv(t) /\ ToldInv(t) /\ HookTypes /\ h = Head(wire[t])
        BY <1>2, <2>2, <2>4, <3>2 DEF h
      <4>2. CASE h.event = "start" /\ StartTurn(t, u, h.turn)
        BY <4>1, <4>2, StartTold
      <4>3. CASE h.event = "stop" /\ EndTurn(t, h.turn)
        BY <4>1, <4>3, StopTold
      <4>4. CASE h.event = "sessionend" /\ CloseTurn(t, "wait")
        <5>1. CASE ActiveIn(t)
          <6>1. CloseTold(t) /\ synthetic' = synthetic \cup {t}
            BY <4>1, <4>4, <5>1 DEF CloseTurn, CloseTold, Arrives, EndActive
          <6>2. PICK m \in Nat : m = active[t].turn
            BY <1>2, NumberFacts
          <6>3. \A g \in In(wire'[t]) : g \in In(wire[t])
            BY <1>3, <1>4, <4>1
          <6> QED
            BY <4>1, <6>1, <6>2, <6>3, CloseToldInv
        <5>2. CASE ~ActiveIn(t)
          <6>1. MainSame(t)
            BY <1>1, <2>2, <4>4, <5>2 DEF CloseTurn, MainSame
          <6> QED
            BY <1>2, <1>5, <6>1, ShrinkTold
        <5> QED
          BY <5>1, <5>2
      <4>5. CASE h.event = "idle" /\ Remind(t)
        <5>1. MainSame(t)
          BY <1>1, <2>2, <4>5 DEF Remind, MainSame
        <5> QED
          BY <1>2, <1>5, <5>1, ShrinkTold
      <4> QED
        BY <2>5, <4>2, <4>3, <4>4, <4>5
    <3> QED
      BY <3>1, <3>2
  <2>9. \A x \in Tabs : ToldInv(x)'
    BY <1>2, <1>5, <2>7, <2>8, ShrinkTold
  <2>10. HookTypes'
    BY <1>1, <1>2, <1>4, <2>2, <2>6 DEF HookTypes, HookTurns, TurnsOf
  <2>11. Registered'
    BY <1>1, <2>1, <2>6 DEF HookInv, Registered, ActiveIn
  <2>12. HookStatusTrue'
    <3>1. \A x \in Tabs : x # t => (Working(x)' <=> Working(x)) /\ (ActiveIn(x)' <=> ActiveIn(x))
      BY <2>6 DEF Working, ActiveIn
    <3> QED
      BY <2>2, <2>6, <3>1 DEF HookInv, HookStatusTrue
  <2> QED
    BY <1>6, <2>9, <2>10, <2>11, <2>12 DEF HookInv
<1> QED
  BY <1>7, <1>8 DEF HookArrives

LEMMA HookNextInv == HookInv /\ [HookNext]_hookVars => HookInv'
<1> SUFFICES ASSUME HookInv, [HookNext]_hookVars PROVE HookInv'
  OBVIOUS
<1>1. CASE UNCHANGED hookVars
  <2>1. UNCHANGED <<cli, wire, transcript, known, active, synthetic, tabStatus, told, strayed>>
    BY <1>1 DEF hookVars
  <2>2. \A x \in Tabs : TurnSame(x) /\ MainSame(x)
    BY <2>1, MainKept DEF TurnSame
  <2>3. \A x \in Tabs : WireInv(x)' /\ ToldInv(x)'
    BY <2>1, <2>2, OthersKeep
  <2>4. HookTypes'
    BY <2>1 DEF HookInv, HookTypes, HookTurns, TurnsOf
  <2> QED
    BY <2>1, <2>2, <2>3, <2>4, StatusKept DEF HookInv
<1> QED
  BY <1>1, CliPromptInv, CliFinishInv, CliAbortInv, CliRemindsInv, CliLosesHookInv, CliExitInv,
     CliReplaceInv, CliRestartInv, HookArrivesInv, CtrlCInv, SentinelInv DEF HookNext, SentinelStep

LEMMA HookInvSafe == HookInv => HookSafe
<1> SUFFICES ASSUME HookInv PROVE HookSafe
  OBVIOUS
<1>1. HookTypeOK
  <2>1. \A t \in Tabs : ActiveIn(t) => active[t] \in Readers
    BY DEF HookInv, HookTypes, ActiveIn, Quiet
  <2> QED
    BY <2>1 DEF HookInv, HookTypes, Registered, HookTypeOK, Readers
<1>2. HookToldOnce
  <2> SUFFICES ASSUME NEW t \in Tabs, t \notin strayed, NEW n \in TurnsOf(t) PROVE told[t][n] <= 1
    BY DEF HookToldOnce
  <2>1. n \in HookTurns
    BY DEF HookTurns
  <2>3. told[t][n] \in Nat
    BY <2>1 DEF HookInv, HookTypes
  <2>2. told[t][n] = 0 \/ told[t][n] = 1
    BY <2>1 DEF HookInv, ToldInv, ToldOK
  <2> QED
    BY <2>2
<1> QED
  BY <1>1, <1>2 DEF HookSafe, HookInv

\* For any terminals, turns, lost hooks, interrupts and ends of a CLI: the tab shows a
\* working agent exactly while a turn is open, and the end of a turn is reported once at
\* most, though four sources report it in any order (notifications/agent-hook-coordinator.ts,
\* agent-turn-sentinel.ts, ipc/terminal-handlers.ts).
THEOREM HooksAlwaysSafe == HookSpec => []HookSafe
<1>1. HookInit => HookInv
  BY HookInitInv
<1>2. HookInv /\ [HookNext]_hookVars => HookInv'
  BY HookNextInv
<1>3. HookInv => HookSafe
  BY HookInvSafe
<1> QED
  BY <1>1, <1>2, <1>3, PTL DEF HookSpec-----------------------------------------------------------------------------
(* The elements of a sequence at some of its positions. *)
LEMMA BeforeGrows ==
  ASSUME NEW I, IsFiniteSet(I), I \subseteq Nat, NEW i \in I, NEW j \in I, i < j
  PROVE  Cardinality(Before(I, i)) < Cardinality(Before(I, j))
<1>1. IsFiniteSet(Before(I, j)) /\ Before(I, i) \subseteq Before(I, j) /\ Before(I, i) # Before(I, j)
  <2>1. IsFiniteSet(Before(I, j))
    BY FS_Subset DEF Before
  <2>2. j \in Before(I, j) /\ j \notin Before(I, i)
    BY DEF Before
  <2>3. \A k \in I : k <= i => k <= j
    <3>1. i \in Nat /\ j \in Nat /\ \A k \in I : k \in Nat
      OBVIOUS
    <3> QED BY <3>1
  <2>4. Before(I, i) \subseteq Before(I, j)
    BY <2>3 DEF Before
  <2> QED BY <2>1, <2>2, <2>4
<1> QED BY <1>1, FS_Subset, FS_CardinalityType

LEMMA BeforeBounds ==
  ASSUME NEW I, IsFiniteSet(I), I \subseteq Nat, NEW i \in I
  PROVE  Cardinality(Before(I, i)) \in 1..Cardinality(I)
<1>1. IsFiniteSet(Before(I, i)) /\ Before(I, i) \subseteq I /\ i \in Before(I, i)
  BY FS_Subset DEF Before
<1>2. Cardinality(Before(I, i)) \in Nat /\ Cardinality(I) \in Nat /\ Cardinality(Before(I, i)) <= Cardinality(I)
  BY <1>1, FS_Subset, FS_CardinalityType
<1>3. Cardinality(Before(I, i)) # 0
  BY <1>1, FS_EmptySet
<1> QED BY <1>2, <1>3

LEMMA NthIs ==
  ASSUME NEW I, IsFiniteSet(I), I \subseteq Nat, NEW n \in 1..Cardinality(I)
  PROVE  Nth(I, n) \in I /\ Cardinality(Before(I, Nth(I, n))) = n
<1> DEFINE f == [i \in I |-> Cardinality(Before(I, i))]
<1>1. f \in [I -> 1..Cardinality(I)]
  BY BeforeBounds
<1>2. \A i, j \in I : f[i] = f[j] => i = j
  <2> SUFFICES ASSUME NEW i \in I, NEW j \in I, i # j PROVE f[i] # f[j]
    OBVIOUS
  <2>0. f[i] \in Nat /\ f[j] \in Nat
    BY <1>1, FS_CardinalityType
  <2>1. i < j \/ j < i
    OBVIOUS
  <2>2. CASE i < j
    <3>1. Cardinality(Before(I, i)) < Cardinality(Before(I, j))
      BY <2>2, BeforeGrows
    <3> QED BY <3>1, <2>0
  <2>3. CASE j < i
    <3>1. Cardinality(Before(I, j)) < Cardinality(Before(I, i))
      BY <2>3, BeforeGrows
    <3> QED BY <3>1, <2>0
  <2> QED BY <2>1, <2>2, <2>3
<1>3. f \in Injection(I, 1..Cardinality(I))
  BY <1>1, <1>2 DEF Injection, IsInjective
<1>4. IsFiniteSet(1..Cardinality(I)) /\ Cardinality(1..Cardinality(I)) = Cardinality(I)
  <2>1. Cardinality(I) \in Nat
    BY FS_CardinalityType
  <2> QED BY <2>1, FS_Interval
<1>5. f \in Surjection(I, 1..Cardinality(I))
  BY <1>3, <1>4, FS_Injection
<1>6. \E i \in I : f[i] = n
  BY <1>5 DEF Surjection
<1>7. \E i \in I : Cardinality(Before(I, i)) = n
  BY <1>6
<1> QED BY <1>7 DEF Nth

\* The positions are taken in their order, each once and none left out.
LEMMA NthInOrder ==
  ASSUME NEW I, IsFiniteSet(I), I \subseteq Nat,
         NEW m \in 1..Cardinality(I), NEW n \in 1..Cardinality(I), m <= n
  PROVE  Nth(I, m) <= Nth(I, n) /\ (m # n => Nth(I, m) # Nth(I, n))
<1>1. /\ Nth(I, m) \in I /\ Cardinality(Before(I, Nth(I, m))) = m
      /\ Nth(I, n) \in I /\ Cardinality(Before(I, Nth(I, n))) = n
  BY NthIs
<1>2. Cardinality(I) \in Nat
  BY FS_CardinalityType
<1>a. Nth(I, n) \in Nat /\ Nth(I, m) \in Nat /\ m \in Nat /\ n \in Nat
  <2>1. Nth(I, n) \in Nat /\ Nth(I, m) \in Nat
    BY <1>1
  <2>2. m \in Nat /\ n \in Nat
    BY <1>2
  <2> QED BY <2>1, <2>2
<1>3. ASSUME Nth(I, n) < Nth(I, m) PROVE FALSE
  <2>1. Cardinality(Before(I, Nth(I, n))) < Cardinality(Before(I, Nth(I, m)))
    BY <1>1, <1>3, BeforeGrows
  <2> QED BY <1>1, <1>2, <2>1
<1> QED BY <1>1, <1>a, <1>3

LEMMA NthOf ==
  ASSUME NEW I, IsFiniteSet(I), I \subseteq Nat, NEW i \in I
  PROVE  \E n \in 1..Cardinality(I) : Nth(I, n) = i
<1> DEFINE n == Cardinality(Before(I, i))
<1>1. n \in 1..Cardinality(I)
  BY BeforeBounds
<1>2. Nth(I, n) \in I /\ Cardinality(Before(I, Nth(I, n))) = n
  BY <1>1, NthIs
<1>3. Nth(I, n) = i
  <2>1. ~(Nth(I, n) < i) /\ ~(i < Nth(I, n))
    <3>1. ASSUME Nth(I, n) < i PROVE FALSE
      <4>1. Cardinality(Before(I, Nth(I, n))) < Cardinality(Before(I, i))
        BY <1>2, <3>1, BeforeGrows
      <4> QED BY <4>1, <1>2, <1>1
    <3>2. ASSUME i < Nth(I, n) PROVE FALSE
      <4>1. Cardinality(Before(I, i)) < Cardinality(Before(I, Nth(I, n)))
        BY <1>2, <3>2, BeforeGrows
      <4> QED BY <4>1, <1>2, <1>1
    <3> QED BY <3>1, <3>2
  <2>2. Nth(I, n) \in Nat /\ i \in Nat
    BY <1>2
  <2> QED BY <2>1, <2>2
<1> QED BY <1>1, <1>3

\* What is chosen of a sequence.
LEMMA ChosenIs ==
  ASSUME NEW S, NEW s \in Seq(S), NEW I \in SUBSET (1..Len(s))
  PROVE  /\ Chosen(s, I) \in Seq(S) /\ Len(Chosen(s, I)) = Cardinality(I)
         /\ Cardinality(I) \in Nat /\ Cardinality(I) <= Len(s)
         /\ Cardinality(I) = Len(s) => I = 1..Len(s)
         /\ \A n \in 1..Cardinality(I) : Nth(I, n) \in I /\ Chosen(s, I)[n] = s[Nth(I, n)]
         /\ \A m, n \in 1..Cardinality(I) : m < n => Nth(I, m) < Nth(I, n)
         /\ \A i \in I : \E n \in 1..Cardinality(I) : Nth(I, n) = i
<1>0. Len(s) \in Nat /\ IsFiniteSet(1..Len(s)) /\ Cardinality(1..Len(s)) = Len(s)
  <2>1. Len(s) \in Nat
    OBVIOUS
  <2>2. 0 \in Int /\ 1 \in Int /\ Len(s) \in Int
    BY <2>1
  <2>3. IsFiniteSet(1..Len(s)) /\ Cardinality(1..Len(s)) = IF 1 > Len(s) THEN 0 ELSE Len(s) - 1 + 1
    BY <2>2, FS_Interval
  <2> QED BY <2>1, <2>3
<1>1. IsFiniteSet(I) /\ I \subseteq Nat /\ Cardinality(I) \in Nat /\ Cardinality(I) <= Len(s)
      /\ (Cardinality(I) = Len(s) => I = 1..Len(s))
  <2>1. IsFiniteSet(I) /\ Cardinality(I) <= Cardinality(1..Len(s))
        /\ (Cardinality(I) = Cardinality(1..Len(s)) => I = 1..Len(s))
    BY <1>0, FS_Subset, FS_CardinalityType
  <2>2. I \subseteq Nat
    OBVIOUS
  <2> QED BY <2>1, <2>2, <1>0, FS_CardinalityType
<1>2. \A n \in 1..Cardinality(I) : Nth(I, n) \in I
  BY <1>1, NthIs
<1>3. \A n \in 1..Cardinality(I) : s[Nth(I, n)] \in S
  <2>1. \A i \in 1..Len(s) : s[i] \in S
    OBVIOUS
  <2> QED BY <2>1, <1>2
<1>4. Chosen(s, I) \in Seq(S) /\ Len(Chosen(s, I)) = Cardinality(I)
  BY <1>1, <1>3 DEF Chosen
<1>5. \A n \in 1..Cardinality(I) : Chosen(s, I)[n] = s[Nth(I, n)]
  BY DEF Chosen
<1>6. ASSUME NEW m \in 1..Cardinality(I), NEW n \in 1..Cardinality(I), m < n
      PROVE  Nth(I, m) < Nth(I, n)
  <2>1. m \in Nat /\ n \in Nat /\ m <= n /\ m # n
    BY <1>6, <1>1
  <2>2. Nth(I, m) <= Nth(I, n) /\ Nth(I, m) # Nth(I, n)
    BY <2>1, <1>1, NthInOrder
  <2>3. Nth(I, m) \in Nat /\ Nth(I, n) \in Nat
    BY <1>1, <1>2
  <2> QED BY <2>2, <2>3
<1>7. \A i \in I : \E n \in 1..Cardinality(I) : Nth(I, n) = i
  BY <1>1, NthOf
<1> QED BY <1>1, <1>2, <1>4, <1>5, <1>6, <1>7

\* With every position chosen, the sequence is what it was.
LEMMA ChosenAll ==
  ASSUME NEW S, NEW s \in Seq(S), NEW I \in SUBSET (1..Len(s)),
         Len(Chosen(s, I)) = Len(s)
  PROVE  Chosen(s, I) = s
<1>1. I = 1..Len(s) /\ Cardinality(I) = Len(s)
  BY ChosenIs
<1>2. ASSUME NEW n \in 1..Len(s) PROVE Nth(I, n) = n
  <2>1. Nth(I, n) \in I /\ Cardinality(Before(I, Nth(I, n))) = n
    <3>1. Len(s) \in Nat /\ 1 \in Int
      OBVIOUS
    <3>b. 1..Len(s) \subseteq Nat
      BY <3>1
    <3>2. IsFiniteSet(1..Len(s)) /\ 1..Len(s) \subseteq Nat
      <4>1. Len(s) \in Int
        BY <3>1
      <4> QED BY <4>1, <3>1, <3>b, FS_Interval
    <3>a. IsFiniteSet(I) /\ I \subseteq Nat
      BY <3>2, <1>1
    <3> QED BY <3>a, <1>1, NthIs
  <2>2. PICK k \in 1..Len(s) : k = Nth(I, n)
    BY <2>1, <1>1
  <2>3. Before(I, k) = 1..k
    BY <1>1 DEF Before
  <2>4. Cardinality(1..k) = k
    BY FS_Interval
  <2> QED BY <2>1, <2>2, <2>3, <2>4
<1>4. Len(s) \in Nat /\ s = [n \in 1..Len(s) |-> s[n]]
  OBVIOUS
<1> QED BY <1>1, <1>2, <1>4 DEF Chosen
-----------------------------------------------------------------------------
\* The first and the last of some positions.
LEMMA FirstAndLast ==
  ASSUME NEW I, I # {}, NEW n \in Nat, I \subseteq 1..n
  PROVE  /\ \E i \in I : \A j \in I : i <= j
         /\ \E i \in I : \A j \in I : j <= i
<1>1. IsFiniteSet(I) /\ I \subseteq Nat
  <2>1. 1 \in Int /\ n \in Int /\ 1..n \subseteq Nat
    OBVIOUS
  <2>2. IsFiniteSet(1..n)
    BY <2>1, FS_Interval
  <2> QED BY <2>1, <2>2, FS_Subset
<1>2. Cardinality(I) \in Nat /\ Cardinality(I) # 0
  BY <1>1, FS_CardinalityType, FS_EmptySet
<1>3. 1 \in 1..Cardinality(I) /\ Cardinality(I) \in 1..Cardinality(I)
  BY <1>2
<1>4. ASSUME NEW j \in I PROVE Nth(I, 1) <= j /\ j <= Nth(I, Cardinality(I))
  <2>1. PICK m \in 1..Cardinality(I) : Nth(I, m) = j
    BY <1>1, NthOf
  <2>2. 1 <= m /\ m <= Cardinality(I)
    BY <1>2, <2>1
  <2>3. Nth(I, 1) <= Nth(I, m)
    BY <1>1, <1>3, <2>1, <2>2, NthInOrder
  <2>4. Nth(I, m) <= Nth(I, Cardinality(I))
    BY <1>1, <1>3, <2>1, <2>2, NthInOrder
  <2> QED BY <2>1, <2>3, <2>4
<1>5. Nth(I, 1) \in I /\ Nth(I, Cardinality(I)) \in I
  BY <1>1, <1>3, NthIs
<1> QED BY <1>4, <1>5

-----------------------------------------------------------------------------
(* The ledger of sessions: one row for an id, external rows of terminal 0. *)
SessRow ==
  [id : Nat, hook : BOOLEAN, prov : Convs \cup {NoConv}, path : Convs \cup {NoConv}, tab : 0..MaxRows,
   kept : BOOLEAN, resumed : BOOLEAN]
RowsWell(list, n) ==
  /\ list \in Seq(SessRow)
  /\ \A i, j \in DOMAIN list : list[i].id = list[j].id => i = j
  /\ \A i \in DOMAIN list :
       /\ list[i].id \in 1..n
       /\ ~list[i].hook => list[i].prov = list[i].path /\ list[i].prov # NoConv /\ list[i].tab = 0

\* Two rows that are not two cards of one conversation.
Apart(x, y) == ~y.hook /\ (x.hook => ~x.resumed) /\ x.id # y.id => ~Shares(x, y)
CardsApart(list) == \A i, j \in DOMAIN list : Apart(list[i], list[j])

\* The row of this id, if it is there, is the last of its terminal.
LastOf(list, id, t) ==
  \A i \in DOMAIN list : list[i].id = id => list[i].tab = t /\ \A j \in DOMAIN list : list[j].tab = t => j <= i

LEMMA RowsAre ==
  ASSUME NEW n, NEW list, RowsWell(list, n)
  PROVE  /\ list \in Seq(SessRow) /\ DOMAIN list = 1..Len(list) /\ Len(list) \in Nat
         /\ \A i \in DOMAIN list : list[i] \in SessRow /\ list[i].id \in Nat
<1>1. list \in Seq(SessRow)
  BY DEF RowsWell
<1>2. DOMAIN list = 1..Len(list) /\ Len(list) \in Nat /\ \A i \in DOMAIN list : list[i] \in SessRow
  BY <1>1
<1> QED BY <1>1, <1>2 DEF SessRow

\* Rows are kept in their order, whichever go.
LEMMA ChosenRows ==
  ASSUME NEW n, NEW list, RowsWell(list, n), NEW I \in SUBSET DOMAIN list
  PROVE  /\ RowsWell(Chosen(list, I), n) /\ Len(Chosen(list, I)) <= Len(list) /\ Len(Chosen(list, I)) \in Nat
         /\ \A m \in DOMAIN Chosen(list, I) : \E i \in I : Chosen(list, I)[m] = list[i]
         /\ \A i \in I : \E m \in DOMAIN Chosen(list, I) : Chosen(list, I)[m] = list[i]
         /\ \A id, t : LastOf(list, id, t) => LastOf(Chosen(list, I), id, t)
         /\ CardsApart(list) => CardsApart(Chosen(list, I))
<1>1. /\ list \in Seq(SessRow) /\ DOMAIN list = 1..Len(list) /\ Len(list) \in Nat
  BY RowsAre
<1> DEFINE left == Chosen(list, I)
<1>2. I \in SUBSET (1..Len(list))
  BY <1>1
<1>3. /\ left \in Seq(SessRow) /\ Len(left) = Cardinality(I) /\ Cardinality(I) \in Nat
      /\ Cardinality(I) <= Len(list)
      /\ \A m \in 1..Cardinality(I) : Nth(I, m) \in I /\ left[m] = list[Nth(I, m)]
      /\ \A k, m \in 1..Cardinality(I) : k < m => Nth(I, k) < Nth(I, m)
      /\ \A i \in I : \E m \in 1..Cardinality(I) : Nth(I, m) = i
  BY <1>1, <1>2, ChosenIs
<1>4. DOMAIN left = 1..Cardinality(I)
  BY <1>3
<1> HIDE DEF left
<1>5. ASSUME NEW k \in DOMAIN left, NEW m \in DOMAIN left
      PROVE  /\ k \in Nat /\ m \in Nat /\ Nth(I, k) \in Nat /\ Nth(I, m) \in Nat
             /\ Nth(I, k) <= Nth(I, m) => k <= m
             /\ Nth(I, k) = Nth(I, m) => k = m
  <2>1. k \in 1..Cardinality(I) /\ m \in 1..Cardinality(I) /\ k \in Nat /\ m \in Nat
    BY <1>3, <1>4
  <2>2. Nth(I, k) \in Nat /\ Nth(I, m) \in Nat
    BY <1>2, <1>3, <2>1
  <2>3. k < m \/ m < k \/ k = m
    BY <2>1
  <2>4. k < m => Nth(I, k) < Nth(I, m)
    BY <1>3, <2>1
  <2>5. m < k => Nth(I, m) < Nth(I, k)
    BY <1>3, <2>1
  <2> QED BY <2>1, <2>2, <2>3, <2>4, <2>5
<1>6. RowsWell(left, n)
  <2>1. \A k, m \in DOMAIN left : left[k].id = left[m].id => k = m
    <3> SUFFICES ASSUME NEW k \in DOMAIN left, NEW m \in DOMAIN left, left[k].id = left[m].id PROVE k = m
      OBVIOUS
    <3>1. Nth(I, k) \in DOMAIN list /\ Nth(I, m) \in DOMAIN list /\ list[Nth(I, k)].id = list[Nth(I, m)].id
      BY <1>3, <1>4
    <3>2. Nth(I, k) = Nth(I, m)
      BY <3>1 DEF RowsWell
    <3> QED BY <3>2, <1>5
  <2>2. \A m \in DOMAIN left : \E i \in DOMAIN list : left[m] = list[i]
    BY <1>3, <1>4
  <2> QED BY <1>3, <2>1, <2>2 DEF RowsWell
<1>7. \A m \in DOMAIN left : \E i \in I : left[m] = list[i]
  BY <1>3, <1>4
<1>8. \A i \in I : \E m \in DOMAIN left : left[m] = list[i]
  BY <1>3, <1>4
<1>9. ASSUME NEW id, NEW t, LastOf(list, id, t) PROVE LastOf(left, id, t)
  <2> SUFFICES ASSUME NEW m \in DOMAIN left, left[m].id = id
               PROVE  left[m].tab = t /\ \A k \in DOMAIN left : left[k].tab = t => k <= m
    BY DEF LastOf
  <2>1. Nth(I, m) \in DOMAIN list /\ left[m] = list[Nth(I, m)]
    BY <1>3, <1>4
  <2>2. left[m].tab = t /\ \A j \in DOMAIN list : list[j].tab = t => j <= Nth(I, m)
    BY <1>9, <2>1 DEF LastOf
  <2>3. ASSUME NEW k \in DOMAIN left, left[k].tab = t PROVE k <= m
    <3>1. Nth(I, k) \in DOMAIN list /\ left[k] = list[Nth(I, k)]
      BY <1>3, <1>4
    <3>2. Nth(I, k) <= Nth(I, m)
      BY <2>2, <2>3, <3>1
    <3> QED BY <3>2, <1>5
  <2> QED BY <2>2, <2>3
<1>10. CardsApart(list) => CardsApart(left)
  <2>1. \A m \in DOMAIN left : \E i \in DOMAIN list : left[m] = list[i]
    BY <1>7
  <2> QED BY <2>1 DEF CardsApart
<1>11. Len(left) <= Len(list) /\ Len(left) \in Nat
  BY <1>1, <1>3
<1> QED BY <1>6, <1>7, <1>8, <1>9, <1>10, <1>11 DEF left

LEMMA WithoutRows ==
  ASSUME NEW n, NEW list, RowsWell(list, n), NEW id
  PROVE  /\ RowsWell(Without(list, id), n)
         /\ Len(Without(list, id)) <= Len(list) /\ Len(Without(list, id)) \in Nat
         /\ \A m \in DOMAIN Without(list, id) :
              \E i \in DOMAIN list : Without(list, id)[m] = list[i] /\ list[i].id # id
         /\ \A i \in DOMAIN list : list[i].id # id =>
              \E m \in DOMAIN Without(list, id) : Without(list, id)[m] = list[i]
         /\ \A x, t : LastOf(list, x, t) => LastOf(Without(list, id), x, t)
         /\ CardsApart(list) => CardsApart(Without(list, id))
<1> DEFINE I == {i \in DOMAIN list : list[i].id # id}
<1>1. Without(list, id) = Chosen(list, I) /\ I \in SUBSET DOMAIN list
  BY DEF Without
<1>2. \A i \in DOMAIN list : i \in I <=> list[i].id # id
  OBVIOUS
<1> HIDE DEF I
<1>3. /\ RowsWell(Chosen(list, I), n) /\ Len(Chosen(list, I)) <= Len(list) /\ Len(Chosen(list, I)) \in Nat
      /\ \A m \in DOMAIN Chosen(list, I) : \E i \in I : Chosen(list, I)[m] = list[i]
      /\ \A i \in I : \E m \in DOMAIN Chosen(list, I) : Chosen(list, I)[m] = list[i]
      /\ \A x, t : LastOf(list, x, t) => LastOf(Chosen(list, I), x, t)
      /\ CardsApart(list) => CardsApart(Chosen(list, I))
  BY <1>1, ChosenRows
<1> QED BY <1>1, <1>2, <1>3

LEMMA ShorterWithout ==
  ASSUME NEW n, NEW list, RowsWell(list, n), NEW k \in DOMAIN list
  PROVE  Len(Without(list, list[k].id)) < Len(list)
<1> DEFINE I == {i \in DOMAIN list : list[i].id # list[k].id}
<1>1. list \in Seq(SessRow) /\ DOMAIN list = 1..Len(list) /\ Len(list) \in Nat
  BY RowsAre
<1>2. Without(list, list[k].id) = Chosen(list, I) /\ I \in SUBSET (1..Len(list)) /\ k \notin I
  BY <1>1 DEF Without
<1> HIDE DEF I
<1>3. /\ Len(Chosen(list, I)) = Cardinality(I) /\ Cardinality(I) \in Nat /\ Cardinality(I) <= Len(list)
      /\ Cardinality(I) = Len(list) => I = 1..Len(list)
  BY <1>1, <1>2, ChosenIs
<1> QED BY <1>1, <1>2, <1>3

\* A ledger is no longer than the rows that were ever made.
LEMMA NoMoreThanMade ==
  ASSUME NEW n \in Nat, NEW list, RowsWell(list, n)
  PROVE  Len(list) <= n
<1>1. DOMAIN list = 1..Len(list) /\ Len(list) \in Nat
  BY RowsAre
<1> DEFINE f == [i \in 1..Len(list) |-> list[i].id]
<1>2. f \in Injection(1..Len(list), 1..n)
  <2>1. f \in [1..Len(list) -> 1..n]
    BY <1>1 DEF RowsWell
  <2>2. \A i, j \in 1..Len(list) : f[i] = f[j] => i = j
    BY <1>1 DEF RowsWell
  <2> QED BY <2>1, <2>2 DEF Injection, IsInjective
<1>3. \A m \in Nat : IsFiniteSet(1..m) /\ Cardinality(1..m) = m
  <2> TAKE m \in Nat
  <2>1. 1 \in Int /\ m \in Int
    OBVIOUS
  <2>2. IsFiniteSet(1..m) /\ Cardinality(1..m) = IF 1 > m THEN 0 ELSE m - 1 + 1
    BY <2>1, FS_Interval
  <2> QED BY <2>2
<1>4. IsFiniteSet(1..n) /\ Cardinality(1..n) = n /\ Cardinality(1..Len(list)) = Len(list)
  BY <1>1, <1>3
<1>5. Cardinality(1..Len(list)) <= Cardinality(1..n)
  BY <1>2, <1>4, FS_Injection
<1> QED BY <1>4, <1>5

LEMMA MoreMade ==
  ASSUME NEW n \in Nat, NEW m \in Nat, n <= m, NEW list, RowsWell(list, n)
  PROVE  RowsWell(list, m)
<1>1. \A k \in 1..n : k \in 1..m
  OBVIOUS
<1> QED BY <1>1 DEF RowsWell

LEMMA AppendRow ==
  ASSUME NEW n \in Nat, NEW list, RowsWell(list, n), CardsApart(list), NEW row \in SessRow, row.id = n + 1,
         ~row.hook => row.prov = row.path /\ row.prov # NoConv /\ row.tab = 0,
         \A i \in DOMAIN list : Apart(row, list[i]) /\ Apart(list[i], row)
  PROVE  /\ RowsWell(Append(list, row), n + 1) /\ CardsApart(Append(list, row))
         /\ Len(Append(list, row)) = Len(list) + 1 /\ Len(list) \in Nat
         /\ LastOf(Append(list, row), n + 1, row.tab)
         /\ \A id, t : id # n + 1 /\ t # row.tab /\ LastOf(list, id, t) => LastOf(Append(list, row), id, t)
         /\ \A i \in DOMAIN list : \E m \in DOMAIN Append(list, row) : Append(list, row)[m] = list[i]
         /\ \A m \in DOMAIN Append(list, row) :
              Append(list, row)[m] = row \/ \E i \in DOMAIN list : Append(list, row)[m] = list[i]
<1>1. list \in Seq(SessRow) /\ DOMAIN list = 1..Len(list) /\ Len(list) \in Nat
  BY RowsAre
<1> DEFINE grown == Append(list, row)
           top == Len(list) + 1
<1>2. /\ grown \in Seq(SessRow) /\ Len(grown) = top /\ DOMAIN grown = 1..top /\ grown[top] = row
      /\ \A i \in DOMAIN list : grown[i] = list[i]
  BY <1>1
<1>3. \A i \in DOMAIN grown : i \in DOMAIN list \/ i = top
  BY <1>1, <1>2
<1>4. top \in DOMAIN grown /\ \A i \in DOMAIN list : i \in DOMAIN grown /\ i <= top /\ i # top
  BY <1>1, <1>2
<1>5. \A i \in DOMAIN list : list[i].id \in 1..n /\ list[i].id # n + 1 /\ list[i].id \in 1..n + 1
  <2>1. \A i \in DOMAIN list : list[i].id \in 1..n
    BY DEF RowsWell
  <2>2. \A k \in 1..n : k # n + 1 /\ k \in 1..n + 1
    OBVIOUS
  <2> QED BY <2>1, <2>2
<1>6. top \in Nat /\ top <= top /\ n + 1 \in 1..n + 1
  BY <1>1
<1> HIDE DEF grown, top
<1>7. RowsWell(grown, n + 1)
  <2>1. \A i, j \in DOMAIN grown : grown[i].id = grown[j].id => i = j
    <3>1. \A i, j \in DOMAIN list : list[i].id = list[j].id => i = j
      BY DEF RowsWell
    <3> QED BY <1>2, <1>3, <1>5, <3>1
  <2>2. \A i \in DOMAIN grown :
       /\ grown[i].id \in 1..n + 1
       /\ ~grown[i].hook => grown[i].prov = grown[i].path /\ grown[i].prov # NoConv /\ grown[i].tab = 0
    <3>1. \A i \in DOMAIN list : ~list[i].hook => list[i].prov = list[i].path /\ list[i].prov # NoConv /\ list[i].tab = 0
      BY DEF RowsWell
    <3> QED BY <1>2, <1>3, <1>5, <1>6, <3>1
  <2> QED BY <1>2, <2>1, <2>2 DEF RowsWell
<1>8. CardsApart(grown)
  <2>1. Apart(row, row)
    BY DEF Apart
  <2> QED BY <1>2, <1>3, <2>1 DEF CardsApart
<1>9. LastOf(grown, n + 1, row.tab)
  BY <1>2, <1>3, <1>4, <1>5, <1>6 DEF LastOf
<1>10. \A id, t : id # n + 1 /\ t # row.tab /\ LastOf(list, id, t) => LastOf(grown, id, t)
  BY <1>2, <1>3 DEF LastOf
<1>11. \A i \in DOMAIN list : \E m \in DOMAIN grown : grown[m] = list[i]
  BY <1>2, <1>4
<1>12. \A m \in DOMAIN grown : grown[m] = row \/ \E i \in DOMAIN list : grown[m] = list[i]
  BY <1>2, <1>3
<1> QED BY <1>1, <1>2, <1>7, <1>8, <1>9, <1>10, <1>11, <1>12 DEF grown, top

\* Rows whose texts change, or their conversation when they are of a terminal.
Alike(list, new) ==
  /\ new \in Seq(SessRow) /\ DOMAIN new = DOMAIN list
  /\ \A i \in DOMAIN list :
       /\ new[i].id = list[i].id /\ new[i].hook = list[i].hook /\ new[i].tab = list[i].tab
       /\ new[i].resumed = list[i].resumed
       /\ ~list[i].hook => new[i].prov = list[i].prov /\ new[i].path = list[i].path

LEMMA AlikeRows ==
  ASSUME NEW n, NEW list, RowsWell(list, n), NEW new, Alike(list, new)
  PROVE  /\ RowsWell(new, n) /\ Len(new) = Len(list)
         /\ \A id, t : LastOf(list, id, t) => LastOf(new, id, t)
<1>1. RowsWell(new, n)
  BY DEF RowsWell, Alike
<1>2. Len(new) = Len(list)
  <2>1. new \in Seq(SessRow) /\ list \in Seq(SessRow) /\ DOMAIN new = DOMAIN list
    BY DEF RowsWell, Alike
  <2>2. DOMAIN new = 1..Len(new) /\ DOMAIN list = 1..Len(list) /\ Len(new) \in Nat /\ Len(list) \in Nat
    BY <2>1
  <2>3. \A k, m \in Nat : 1..k = 1..m => k = m
    <3> SUFFICES ASSUME NEW k \in Nat, NEW m \in Nat, 1..k = 1..m PROVE k = m
      OBVIOUS
    <3>1. k > 0 => k \in 1..m
      OBVIOUS
    <3>2. m > 0 => m \in 1..k
      OBVIOUS
    <3> QED BY <3>1, <3>2
  <2> QED BY <2>1, <2>2, <2>3
<1>3. \A id, t : LastOf(list, id, t) => LastOf(new, id, t)
  BY DEF LastOf, Alike
<1> QED BY <1>1, <1>2, <1>3

\* Lists that have no id in common, one after the other.
Joined(a, b) == a \o b
Strangers(a, b) == \A i \in DOMAIN a, j \in DOMAIN b : a[i].id # b[j].id

LEMMA JoinRows ==
  ASSUME NEW n, NEW a, RowsWell(a, n), NEW b, RowsWell(b, n), Strangers(a, b), NEW all, all = Joined(a, b)
  PROVE  /\ RowsWell(all, n) /\ Len(all) = Len(a) + Len(b)
         /\ \A m \in DOMAIN all : (\E i \in DOMAIN a : all[m] = a[i]) \/ (\E i \in DOMAIN b : all[m] = b[i])
         /\ \A i \in DOMAIN b : \E m \in DOMAIN all : all[m] = b[i]
<1>1. /\ a \in Seq(SessRow) /\ DOMAIN a = 1..Len(a) /\ Len(a) \in Nat
      /\ b \in Seq(SessRow) /\ DOMAIN b = 1..Len(b) /\ Len(b) \in Nat
  BY RowsAre
<1>2. /\ all \in Seq(SessRow) /\ Len(all) = Len(a) + Len(b) /\ DOMAIN all = 1..Len(a) + Len(b)
      /\ \A m \in DOMAIN all : all[m] = IF m <= Len(a) THEN a[m] ELSE b[m - Len(a)]
  BY <1>1 DEF Joined
<1>3. ASSUME NEW m \in DOMAIN all
      PROVE  \/ m \in DOMAIN a /\ all[m] = a[m]
             \/ m - Len(a) \in DOMAIN b /\ all[m] = b[m - Len(a)]
  <2>1. m \in 1..Len(a) + Len(b)
    BY <1>2
  <2>2. m \in 1..Len(a) \/ (m - Len(a) \in 1..Len(b) /\ ~(m <= Len(a)))
    BY <1>1, <2>1
  <2> QED BY <1>1, <1>2, <2>2
<1>4. ASSUME NEW i \in DOMAIN b PROVE \E m \in DOMAIN all : all[m] = b[i]
  <2>1. i + Len(a) \in 1..Len(a) + Len(b) /\ ~(i + Len(a) <= Len(a)) /\ (i + Len(a)) - Len(a) = i
    BY <1>1
  <2> QED BY <1>2, <2>1
<1>5. \A k, m \in DOMAIN all : all[k].id = all[m].id => k = m
  <2> SUFFICES ASSUME NEW k \in DOMAIN all, NEW m \in DOMAIN all, all[k].id = all[m].id PROVE k = m
    OBVIOUS
  <2>1. CASE k \in DOMAIN a /\ all[k] = a[k] /\ m \in DOMAIN a /\ all[m] = a[m]
    BY <2>1 DEF RowsWell
  <2>2. CASE k - Len(a) \in DOMAIN b /\ all[k] = b[k - Len(a)] /\ m - Len(a) \in DOMAIN b /\ all[m] = b[m - Len(a)]
    <3>1. k - Len(a) = m - Len(a)
      BY <2>2 DEF RowsWell
    <3>2. k \in Nat /\ m \in Nat
      BY <1>1, <1>2
    <3> QED BY <1>1, <3>1, <3>2
  <2> QED BY <1>3, <2>1, <2>2 DEF Strangers
<1>6. \A m \in DOMAIN all : (\E i \in DOMAIN a : all[m] = a[i]) \/ (\E i \in DOMAIN b : all[m] = b[i])
  BY <1>3
<1>7. RowsWell(all, n)
  <2>1. \A r \in SessRow :
          (\E i \in DOMAIN a : r = a[i]) \/ (\E i \in DOMAIN b : r = b[i]) =>
            r.id \in 1..n /\ (~r.hook => r.prov = r.path /\ r.prov # NoConv /\ r.tab = 0)
    BY DEF RowsWell
  <2>2. \A m \in DOMAIN all : all[m] \in SessRow
    BY <1>2
  <2>3. \A m \in DOMAIN all :
          all[m].id \in 1..n /\ (~all[m].hook => all[m].prov = all[m].path /\ all[m].prov # NoConv /\ all[m].tab = 0)
    BY <1>6, <2>1, <2>2
  <2> QED BY <1>2, <1>5, <2>3 DEF RowsWell
<1> QED BY <1>2, <1>4, <1>6, <1>7

-----------------------------------------------------------------------------
SessTypes ==
  /\ made \in 0..MaxRows /\ hooks \in Nat /\ restarts \in Nat
  /\ binding \in [SessTabs -> 0..MaxRows] /\ live \subseteq SessTabs
  /\ loading \in {"reading", "ok", "refused"} /\ corrupt \in BOOLEAN
  /\ scan \in [on : BOOLEAN, todo : SUBSET Convs]
  /\ deferred \in BOOLEAN /\ owed \in BOOLEAN

\* The ledger, and the file, which was one.
SessLists ==
  /\ RowsWell(rows, made) /\ CardsApart(rows)
  /\ RowsWell(file, made) /\ CardsApart(file)
  /\ Len(rows) <= RowLimit + Len(file)
SessBound ==
  \A t \in SessTabs : binding[t] # 0 => binding[t] \in 1..made /\ LastOf(rows, binding[t], t)

\* Before the file is read, there are only rows that were made since, of terminals
\* that have named no conversation, and a write waits for them.
Blank(list) ==
  \A i \in DOMAIN list :
    /\ list[i].hook /\ list[i].prov = NoConv /\ list[i].path = NoConv
    /\ \A j \in DOMAIN file : file[j].id # list[i].id
SessReading ==
  loading = "reading" =>
    /\ Blank(rows)
    /\ \A t \in SessTabs, i \in DOMAIN file : file[i].id # binding[t]
    /\ rows # <<>> => owed
    /\ scan = NoScan /\ Len(rows) <= RowLimit

\* What terminals left in the file is in the ledger, unless there were too many.
SessFiled ==
  loading = "ok" /\ made <= RowLimit =>
    \A i \in DOMAIN file : file[i].hook /\ file[i].kept =>
      \E j \in DOMAIN rows : rows[j].id = file[i].id /\ rows[j].hook

SessInv == SessTypes /\ SessLists /\ SessBound /\ SessReading /\ SessFiled /\ SessUnsaved

\* What a step may do to the file.
FileRight ==
  \A i \in DOMAIN file : file[i].hook /\ file[i].kept => file[i].id \in Ids(file') \/ made > RowLimit

LEMMA SessInvInit == SessInit => SessInv
<1> SUFFICES ASSUME SessInit PROVE SessInv
  OBVIOUS
<1>1. <<>> \in Seq(SessRow) /\ DOMAIN <<>> = {} /\ Len(<<>>) = 0
  OBVIOUS
<1>2. \A n : RowsWell(<<>>, n) /\ CardsApart(<<>>)
  BY <1>1 DEF RowsWell, CardsApart
<1>3. SessTypes
  <2>1. MaxRows \in Nat /\ 0 \in 0..MaxRows
    BY SessAssumption DEF SessAssumption
  <2>2. NoScan \in [on : BOOLEAN, todo : SUBSET Convs]
    BY DEF NoScan
  <2>3. binding \in [SessTabs -> 0..MaxRows]
    BY <2>1 DEF SessInit
  <2> QED BY <2>1, <2>2, <2>3 DEF SessInit, SessTypes
<1>4. SessLists
  BY <1>1, <1>2, SessAssumption DEF SessInit, SessLists, SessAssumption
<1>5. SessBound /\ SessReading /\ SessFiled /\ SessUnsaved
  BY <1>1, SessAssumption DEF SessInit, SessBound, SessReading, Blank, SessFiled, SessUnsaved, SessAssumption
<1> QED BY <1>3, <1>4, <1>5 DEF SessInv

LEMMA SessInvSafe == SessInv => SessSafe
<1> SUFFICES ASSUME SessInv PROVE SessSafe
  OBVIOUS
<1>1. /\ SessTypes /\ RowsWell(rows, made) /\ CardsApart(rows) /\ SessBound /\ Len(rows) <= RowLimit + Len(file)
  BY DEF SessInv, SessLists
<1>2. DOMAIN rows = 1..Len(rows) /\ Len(rows) \in Nat /\ made \in Nat
  BY <1>1, RowsAre DEF SessTypes
<1>3. Ids(rows) \subseteq 1..made
  BY <1>1 DEF RowsWell, Ids
<1>4. Cardinality(Ids(rows)) = Len(rows)
  <2> DEFINE f == [i \in 1..Len(rows) |-> rows[i].id]
  <2>1. f \in Surjection(1..Len(rows), Ids(rows))
    BY <1>2 DEF Surjection, Ids
  <2>2. f \in Injection(1..Len(rows), Ids(rows))
    BY <1>1, <1>2, <2>1 DEF Surjection, Injection, IsInjective, RowsWell
  <2>3. IsFiniteSet(1..Len(rows)) /\ Cardinality(1..Len(rows)) = Len(rows)
    <3>1. 1 \in Int /\ Len(rows) \in Int
      BY <1>2
    <3>2. IsFiniteSet(1..Len(rows)) /\ Cardinality(1..Len(rows)) = IF 1 > Len(rows) THEN 0 ELSE Len(rows) - 1 + 1
      BY <3>1, FS_Interval
    <3> QED BY <3>2, <1>2
  <2> QED BY <2>1, <2>2, <2>3, FS_Surjection
<1>5. \A i \in Idx : ~rows[i].hook => rows[i].prov = rows[i].path /\ rows[i].prov # NoConv
  BY <1>1 DEF RowsWell, Idx
<1>6. \A t \in SessTabs, i \in Idx : Owns(i, t) =>
       rows[i].tab = t /\ \A j \in Idx : rows[j].tab = t => j <= i
  BY <1>1 DEF Owns, Idx, SessBound, LastOf
<1>7. SessTypeOK
  BY <1>1, <1>3, <1>4, <1>5, <1>6 DEF SessTypeOK, SessTypes
<1>8. SessOneCard
  <2> SUFFICES ASSUME NEW i \in Idx, NEW j \in Idx, ~rows[j].hook
               PROVE  /\ rows[i].hook /\ ~rows[i].resumed => ~Shares(rows[i], rows[j])
                      /\ ~rows[i].hook /\ i # j => ~Shares(rows[i], rows[j])
    BY DEF SessOneCard
  <2>1. Apart(rows[i], rows[j])
    BY <1>1 DEF CardsApart, Idx
  <2>2. rows[i].id = rows[j].id => i = j
    BY <1>1 DEF RowsWell, Idx
  <2> QED BY <2>1, <2>2 DEF Apart
<1> QED BY <1>7, <1>8 DEF SessInv, SessSafe

\* A step that leaves the file and the load as they are.
LEMMA SessStep ==
  ASSUME SessInv, UNCHANGED <<loading, diskVars>>,
         hooks' \in Nat, live' \subseteq SessTabs,
         made' \in 0..MaxRows, made <= made',
         RowsWell(rows', made'), CardsApart(rows'),
         Len(rows') <= Len(rows) \/ Len(rows') <= RowLimit,
         binding' \in [SessTabs -> 0..MaxRows],
         \A t \in SessTabs : binding'[t] # 0 => binding'[t] \in 1..made' /\ LastOf(rows', binding'[t], t),
         \A t \in SessTabs : binding'[t] \in {0, binding[t], made + 1},
         scan' \in [on : BOOLEAN, todo : SUBSET Convs], loading = "reading" => scan' = scan,
         scan'.on = scan.on,
         loading = "reading" => Blank(rows'),
         made' <= RowLimit =>
           \A i \in DOMAIN rows : rows[i].hook => \E j \in DOMAIN rows' : rows'[j].id = rows[i].id /\ rows'[j].hook,
         Persist \/ (rows' = rows /\ Unsaved)
  PROVE  SessInv' /\ FileRight
<1>1. /\ file' = file /\ corrupt' = corrupt /\ restarts' = restarts /\ loading' = loading
  BY DEF diskVars
<1>2. SessTypes /\ SessLists /\ SessReading /\ SessFiled /\ SessUnsaved /\ made \in Nat /\ made' \in Nat
      /\ RowLimit \in Nat
  BY SessAssumption DEF SessInv, SessTypes, SessAssumption
<1>3. deferred' \in BOOLEAN /\ owed' \in BOOLEAN
  BY <1>2 DEF Persist, Unsaved, SessTypes
<1>4. SessTypes'
  BY <1>1, <1>2, <1>3 DEF SessTypes
<1>5. SessLists'
  <2>1. RowsWell(file, made')
    BY <1>2, MoreMade DEF SessLists
  <2>2. Len(rows) \in Nat /\ Len(file) \in Nat /\ Len(rows') \in Nat
    BY <1>2, RowsAre DEF SessLists
  <2>3. Len(rows') <= RowLimit + Len(file)
    BY <1>2, <2>2 DEF SessLists
  <2> QED BY <1>1, <1>2, <2>1, <2>3 DEF SessLists
<1>6. SessBound'
  BY <1>1 DEF SessBound, SessTabs
<1>7. SessReading'
  <2> SUFFICES ASSUME loading = "reading" PROVE SessReading'
    BY <1>1 DEF SessReading
  <2>1. Blank(rows)'
    BY <1>1 DEF Blank
  <2>2. \A i \in DOMAIN file : file[i].id # 0 /\ file[i].id # made + 1
    <3>1. \A i \in DOMAIN file : file[i].id \in 1..made
      BY <1>2 DEF SessLists, RowsWell
    <3>2. \A k \in 1..made : k # 0 /\ k # made + 1
      BY <1>2
    <3> QED BY <3>1, <3>2
  <2>3. \A t \in SessTabs, i \in DOMAIN file : file[i].id # binding'[t]
    BY <1>2, <2>2 DEF SessReading
  <2>4. rows' # <<>> => owed'
    BY <1>2 DEF SessReading, Persist, Unsaved, NoScan
  <2>5. scan' = NoScan
    BY <1>2 DEF SessReading
  <2>6. Len(rows') <= RowLimit
    <3>1. Len(rows) \in Nat /\ Len(rows') \in Nat
      BY <1>2, RowsAre DEF SessLists
    <3>2. Len(rows) <= RowLimit
      BY <1>2 DEF SessReading
    <3> QED BY <1>2, <3>1, <3>2
  <2> QED BY <1>1, <2>1, <2>3, <2>4, <2>5, <2>6 DEF SessReading, SessTabs
<1>8. SessFiled'
  <2> SUFFICES ASSUME loading = "ok", made' <= RowLimit, NEW i \in DOMAIN file, file[i].hook, file[i].kept
               PROVE  \E j \in DOMAIN rows' : rows'[j].id = file[i].id /\ rows'[j].hook
    BY <1>1 DEF SessFiled
  <2>1. made <= RowLimit
    BY <1>2
  <2>2. PICK j \in DOMAIN rows : rows[j].id = file[i].id /\ rows[j].hook
    BY <1>2, <2>1 DEF SessFiled
  <2> QED BY <2>2
<1>9. SessUnsaved'
  BY <1>1, <1>2 DEF SessUnsaved, Persist, Unsaved
<1>10. FileRight
  BY <1>1 DEF FileRight, Ids
<1> QED BY <1>4, <1>5, <1>6, <1>7, <1>8, <1>9, <1>10 DEF SessInv

\* The rows of the terminals that are bound keep their place.
LEMMA BoundAlike ==
  ASSUME SessInv, NEW list, Alike(rows, list)
  PROVE  \A t \in SessTabs : binding[t] # 0 => binding[t] \in 1..made /\ LastOf(list, binding[t], t)
<1>1. RowsWell(rows, made) /\ SessBound
  BY DEF SessInv, SessLists
<1>2. \A id, t : LastOf(rows, id, t) => LastOf(list, id, t)
  BY <1>1, AlikeRows
<1> QED BY <1>1, <1>2 DEF SessBound

\* A row that is of a terminal is no external one.
LEMMA OwnedRow ==
  ASSUME SessInv, NEW t \in SessTabs, NEW i, Owns(i, t)
  PROVE  i \in DOMAIN rows /\ rows[i].tab = t /\ rows[i].hook
<1>1. i \in DOMAIN rows /\ binding[t] # 0 /\ rows[i].id = binding[t]
  BY DEF Owns, Idx
<1>2. rows[i].tab = t /\ t # 0
  BY <1>1 DEF SessInv, SessBound, LastOf, SessTabs
<1> QED BY <1>1, <1>2 DEF SessInv, SessLists, RowsWell

\* A row that gains content is the same row.
LEMMA KeptRow ==
  ASSUME NEW r \in SessRow, NEW q, q = r \/ q = [r EXCEPT !.kept = TRUE]
  PROVE  /\ q \in SessRow /\ q.id = r.id /\ q.hook = r.hook /\ q.tab = r.tab
         /\ q.resumed = r.resumed /\ q.prov = r.prov /\ q.path = r.path
<1>1. CASE q = r
  BY <1>1
<1>2. CASE q = [r EXCEPT !.kept = TRUE]
  BY <1>2 DEF SessRow
<1> QED BY <1>1, <1>2

\* Rows that only gain content.
LEMMA KeptStep ==
  ASSUME SessInv, UNCHANGED <<loading, diskVars, hooks, made, scan>>, live' \subseteq SessTabs,
         \A t \in SessTabs : binding'[t] \in {0, binding[t]}, binding' \in [SessTabs -> 0..MaxRows],
         DOMAIN rows' = DOMAIN rows, rows' \in Seq(SessRow),
         \A i \in DOMAIN rows : rows'[i] = rows[i] \/ rows'[i] = [rows[i] EXCEPT !.kept = TRUE],
         Persist
  PROVE  SessInv' /\ FileRight
<1>1. /\ RowsWell(rows, made) /\ CardsApart(rows) /\ SessReading /\ SessTypes /\ SessBound
  BY DEF SessInv, SessLists
<1>2. \A i \in DOMAIN rows : rows[i] \in SessRow
  BY <1>1, RowsAre
<1>3. \A i \in DOMAIN rows :
        /\ rows'[i].id = rows[i].id /\ rows'[i].hook = rows[i].hook /\ rows'[i].tab = rows[i].tab
        /\ rows'[i].resumed = rows[i].resumed /\ rows'[i].prov = rows[i].prov /\ rows'[i].path = rows[i].path
  BY <1>2, KeptRow
<1>4. Alike(rows, rows')
  BY <1>3 DEF Alike
<1>5. RowsWell(rows', made) /\ Len(rows') = Len(rows) /\ \A id, t : LastOf(rows, id, t) => LastOf(rows', id, t)
  BY <1>1, <1>4, AlikeRows
<1>6. CardsApart(rows')
  BY <1>1, <1>3 DEF CardsApart, Apart, Shares
<1>7. \A t \in SessTabs : binding'[t] # 0 => binding'[t] \in 1..made' /\ LastOf(rows', binding'[t], t)
  BY <1>1, <1>5 DEF SessBound
<1>8. loading = "reading" => Blank(rows')
  BY <1>1, <1>3 DEF SessReading, Blank
<1>9. \A i \in DOMAIN rows : rows[i].hook => \E j \in DOMAIN rows' : rows'[j].id = rows[i].id /\ rows'[j].hook
  BY <1>3
<1>10. made' \in 0..MaxRows /\ made <= made' /\ hooks' \in Nat /\ scan' \in [on : BOOLEAN, todo : SUBSET Convs]
      /\ Len(rows') <= Len(rows)
  <2>1. Len(rows) \in Nat
    BY <1>1, RowsAre
  <2> QED BY <1>1, <1>5, <2>1 DEF SessTypes
<1>11. \A t \in SessTabs : binding'[t] \in {0, binding[t], made + 1}
  OBVIOUS
<1> QED BY <1>1, <1>5, <1>6, <1>7, <1>8, <1>9, <1>10, <1>11, SessStep

LEMMA SessDiscardKept == ASSUME SessInv, NEW t \in SessTabs, SessDiscard(t) PROVE SessInv' /\ FileRight
<1>1. /\ UNCHANGED <<loading, diskVars, hooks, made, scan>> /\ live' = live \ {t}
      /\ rows' = [i \in Idx |-> IF Owns(i, t) THEN [rows[i] EXCEPT !.kept = TRUE] ELSE rows[i]]
      /\ binding' = [binding EXCEPT ![t] = 0] /\ Persist
  BY DEF SessDiscard
<1>2. SessTypes /\ RowsWell(rows, made)
  BY DEF SessInv, SessLists
<1>3. DOMAIN rows = 1..Len(rows) /\ Len(rows) \in Nat /\ \A i \in DOMAIN rows : rows[i] \in SessRow
  BY <1>2, RowsAre
<1>4. DOMAIN rows' = DOMAIN rows
      /\ \A i \in DOMAIN rows : rows'[i] = rows[i] \/ rows'[i] = [rows[i] EXCEPT !.kept = TRUE]
  BY <1>1 DEF Idx
<1>5. \A i \in DOMAIN rows : rows'[i] \in SessRow
  BY <1>3, <1>4, KeptRow
<1>6. rows' \in Seq(SessRow)
  <2>1. rows' = [i \in 1..Len(rows) |-> rows'[i]]
    BY <1>1, <1>3 DEF Idx
  <2> QED BY <2>1, <1>3, <1>5
<1>7. live' \subseteq SessTabs /\ binding' \in [SessTabs -> 0..MaxRows]
      /\ \A u \in SessTabs : binding'[u] \in {0, binding[u]}
  <2>1. 0 \in 0..MaxRows
    BY SessAssumption DEF SessAssumption
  <2> QED BY <1>1, <1>2, <2>1 DEF SessTypes
<1> QED BY <1>1, <1>4, <1>6, <1>7, KeptStep

LEMMA SessDetachKept == ASSUME SessInv, NEW t \in SessTabs, SessDetach(t) PROVE SessInv' /\ FileRight
<1>1. /\ UNCHANGED <<loading, diskVars, hooks, made, scan, rows>> /\ live' = live \ {t}
      /\ binding' = [binding EXCEPT ![t] = 0] /\ Persist
  BY DEF SessDetach
<1>2. SessTypes /\ RowsWell(rows, made)
  BY DEF SessInv, SessLists
<1>3. rows' \in Seq(SessRow)
  BY <1>1, <1>2, RowsAre
<1>7. live' \subseteq SessTabs /\ binding' \in [SessTabs -> 0..MaxRows]
      /\ \A u \in SessTabs : binding'[u] \in {0, binding[u]}
  <2>1. 0 \in 0..MaxRows
    BY SessAssumption DEF SessAssumption
  <2> QED BY <1>1, <1>2, <2>1 DEF SessTypes
<1> QED BY <1>1, <1>3, <1>7, KeptStep

LEMMA SessPromptKept ==
  ASSUME SessInv, NEW t \in SessTabs, NEW i \in Idx, SessPrompt(t, i) PROVE SessInv' /\ FileRight
<1>1. /\ UNCHANGED <<loading, diskVars, hooks, made, scan, binding, live>>
      /\ rows' = [rows EXCEPT ![i].kept = TRUE] /\ Persist
  BY DEF SessPrompt
<1>2. SessTypes /\ RowsWell(rows, made)
  BY DEF SessInv, SessLists
<1>3. DOMAIN rows = 1..Len(rows) /\ Len(rows) \in Nat /\ \A j \in DOMAIN rows : rows[j] \in SessRow
      /\ rows \in Seq(SessRow)
  BY <1>2, RowsAre
<1>4. DOMAIN rows' = DOMAIN rows
      /\ \A j \in DOMAIN rows : rows'[j] = rows[j] \/ rows'[j] = [rows[j] EXCEPT !.kept = TRUE]
  BY <1>1, <1>3 DEF Idx
<1>5. \A j \in DOMAIN rows : rows'[j] \in SessRow
  BY <1>3, <1>4, KeptRow
<1>6. rows' \in Seq(SessRow)
  <2>1. rows' = [j \in 1..Len(rows) |-> rows'[j]]
    BY <1>1, <1>3
  <2> QED BY <2>1, <1>3, <1>5
<1>7. live' \subseteq SessTabs /\ binding' \in [SessTabs -> 0..MaxRows]
      /\ \A u \in SessTabs : binding'[u] \in {0, binding[u]}
  BY <1>1, <1>2 DEF SessTypes
<1> QED BY <1>1, <1>4, <1>6, <1>7, KeptStep

\* A row comes, and another goes when there are too many.
LEMMA GrownStep ==
  ASSUME SessInv, UNCHANGED <<loading, diskVars, hooks>>, live' \subseteq SessTabs,
         MayMake, made' = made + 1, NEW row \in SessRow, row.id = made + 1,
         ~row.hook => row.prov = row.path /\ row.prov # NoConv /\ row.tab = 0,
         \A i \in DOMAIN rows : Apart(row, rows[i]) /\ Apart(rows[i], row),
         NEW young, rows' \in Pruned(Append(rows, row), young),
         \/ binding' = binding /\ row.tab \notin SessTabs
         \/ row.tab \in SessTabs /\ binding' = [binding EXCEPT ![row.tab] = made + 1],
         scan' \in [on : BOOLEAN, todo : SUBSET Convs], scan'.on = scan.on,
         loading = "reading" => scan' = scan /\ row.hook /\ row.prov = NoConv /\ row.path = NoConv,
         Persist
  PROVE  SessInv' /\ FileRight
<1>1. /\ RowsWell(rows, made) /\ CardsApart(rows) /\ SessReading /\ SessTypes /\ SessBound
      /\ made \in Nat /\ MaxRows \in Nat /\ RowLimit \in Nat \ {0}
  BY SessAssumption DEF SessInv, SessLists, SessTypes, SessAssumption
<1> DEFINE grown == Append(rows, row)
<1>2. /\ RowsWell(grown, made + 1) /\ CardsApart(grown)
      /\ Len(grown) = Len(rows) + 1 /\ Len(rows) \in Nat
      /\ LastOf(grown, made + 1, row.tab)
      /\ \A id, t : id # made + 1 /\ t # row.tab /\ LastOf(rows, id, t) => LastOf(grown, id, t)
      /\ \A i \in DOMAIN rows : \E m \in DOMAIN grown : grown[m] = rows[i]
      /\ \A m \in DOMAIN grown : grown[m] = row \/ \E i \in DOMAIN rows : grown[m] = rows[i]
  BY <1>1, AppendRow
<1>3. rows' \in Pruned(grown, young)
  OBVIOUS
<1> HIDE DEF grown
<1>4. \/ rows' = grown /\ Len(grown) <= RowLimit
      \/ Len(grown) > RowLimit /\ \E id \in Ids(grown) : rows' = Without(grown, id)
  <2>1. CASE Len(grown) <= RowLimit
    BY <1>3, <2>1 DEF Pruned
  <2>2. CASE ~(Len(grown) <= RowLimit)
    <3>1. Len(grown) > RowLimit
      BY <1>1, <1>2, <2>2
    <3> QED BY <1>3, <2>2, <3>1 DEF Pruned
  <2> QED BY <2>1, <2>2
<1>5. /\ RowsWell(rows', made + 1) /\ CardsApart(rows')
      /\ \A id, t : LastOf(grown, id, t) => LastOf(rows', id, t)
      /\ \A m \in DOMAIN rows' : \E i \in DOMAIN grown : rows'[m] = grown[i]
      /\ Len(rows') <= Len(rows) \/ Len(rows') <= RowLimit
  <2>1. CASE rows' = grown /\ Len(grown) <= RowLimit
    BY <1>2, <2>1
  <2>2. CASE Len(grown) > RowLimit /\ \E id \in Ids(grown) : rows' = Without(grown, id)
    <3>1. PICK k \in DOMAIN grown : rows' = Without(grown, grown[k].id)
      BY <2>2 DEF Ids
    <3>2. /\ RowsWell(Without(grown, grown[k].id), made + 1)
          /\ \A m \in DOMAIN Without(grown, grown[k].id) :
               \E i \in DOMAIN grown : Without(grown, grown[k].id)[m] = grown[i] /\ grown[i].id # grown[k].id
          /\ \A x, t : LastOf(grown, x, t) => LastOf(Without(grown, grown[k].id), x, t)
          /\ CardsApart(grown) => CardsApart(Without(grown, grown[k].id))
      <4> DEFINE e == grown[k].id
      <4> HIDE DEF e
      <4>1. /\ RowsWell(Without(grown, e), made + 1)
            /\ \A m \in DOMAIN Without(grown, e) :
                 \E i \in DOMAIN grown : Without(grown, e)[m] = grown[i] /\ grown[i].id # e
            /\ \A x, t : LastOf(grown, x, t) => LastOf(Without(grown, e), x, t)
            /\ CardsApart(grown) => CardsApart(Without(grown, e))
        BY <1>2, WithoutRows
      <4> QED BY <4>1 DEF e
    <3>3. Len(rows') < Len(grown)
      <4>1. Len(Without(grown, grown[k].id)) < Len(grown)
        BY <1>2, ShorterWithout
      <4> QED BY <3>1, <4>1
    <3>4. Len(rows') \in Nat
      BY <3>1, <3>2, RowsAre
    <3> QED BY <1>2, <3>1, <3>2, <3>3, <3>4
  <2> QED BY <1>4, <2>1, <2>2
<1>6. binding' \in [SessTabs -> 0..MaxRows] /\ made' \in 0..MaxRows
      /\ \A t \in SessTabs : binding'[t] \in {0, binding[t], made + 1}
  <2>1. made + 1 \in 0..MaxRows
    BY <1>1 DEF MayMake
  <2> QED BY <1>1, <2>1 DEF SessTypes
<1>7. \A t \in SessTabs : binding'[t] # 0 => binding'[t] \in 1..made' /\ LastOf(rows', binding'[t], t)
  <2> SUFFICES ASSUME NEW t \in SessTabs, binding'[t] # 0
               PROVE  binding'[t] \in 1..made' /\ LastOf(rows', binding'[t], t)
    OBVIOUS
  <2>1. CASE t = row.tab
    <3>1. binding'[t] = made + 1
      BY <2>1, <1>1 DEF SessTypes
    <3> QED BY <1>1, <1>2, <1>5, <2>1, <3>1
  <2>2. CASE t # row.tab
    <3>1. binding'[t] = binding[t] /\ binding[t] \in 1..made /\ LastOf(rows, binding[t], t)
      BY <2>2, <1>1 DEF SessTypes, SessBound
    <3>2. binding[t] # made + 1 /\ binding[t] \in 1..made + 1
      BY <3>1, <1>1
    <3> QED BY <1>2, <1>5, <2>2, <3>1, <3>2
  <2> QED BY <2>1, <2>2
<1>8. loading = "reading" => Blank(rows')
  <2> SUFFICES ASSUME loading = "reading", NEW m \in DOMAIN rows'
               PROVE  /\ rows'[m].hook /\ rows'[m].prov = NoConv /\ rows'[m].path = NoConv
                      /\ \A j \in DOMAIN file : file[j].id # rows'[m].id
    BY DEF Blank
  <2>1. rows'[m] = row \/ \E i \in DOMAIN rows : rows'[m] = rows[i]
    BY <1>2, <1>5
  <2>2. \A j \in DOMAIN file : file[j].id # made + 1
    <3>1. \A j \in DOMAIN file : file[j].id \in 1..made
      BY DEF SessInv, SessLists, RowsWell
    <3>2. \A k \in 1..made : k # made + 1
      BY <1>1
    <3> QED BY <3>1, <3>2
  <2> QED BY <1>1, <2>1, <2>2 DEF SessReading, Blank
<1>9. made' <= RowLimit =>
        \A i \in DOMAIN rows : rows[i].hook => \E j \in DOMAIN rows' : rows'[j].id = rows[i].id /\ rows'[j].hook
  <2> SUFFICES ASSUME made + 1 <= RowLimit, NEW i \in DOMAIN rows, rows[i].hook
               PROVE  \E j \in DOMAIN rows' : rows'[j].id = rows[i].id /\ rows'[j].hook
    OBVIOUS
  <2>1. Len(grown) <= made + 1
    BY <1>1, <1>2, NoMoreThanMade
  <2>2. rows' = grown
    BY <1>1, <1>2, <1>4, <2>1
  <2> QED BY <1>2, <2>2
<1>10. made <= made' /\ hooks' \in Nat
  BY <1>1 DEF SessTypes
<1> QED BY <1>5, <1>6, <1>7, <1>8, <1>9, <1>10, SessStep

LEMMA SessCreateKept ==
  ASSUME SessInv, NEW t \in SessTabs,
         NEW from, from = 0 \/ (from \in Idx /\ rows[from].prov # NoConv /\ rows[from].path # NoConv),
         SessCreate(t, from)
  PROVE  SessInv' /\ FileRight
<1> DEFINE old == IF from = 0 THEN [prov |-> NoConv, path |-> NoConv, kept |-> FALSE] ELSE rows[from]
           row == [id |-> made + 1, hook |-> TRUE, prov |-> old.prov, path |-> old.path, tab |-> t,
                   kept |-> old.kept, resumed |-> from # 0]
<1>1. /\ MayMake /\ made' = made + 1 /\ rows' \in Pruned(Append(rows, row), made + 1)
      /\ binding' = [binding EXCEPT ![t] = made + 1] /\ live' = live \cup {t} /\ Persist
      /\ UNCHANGED <<hooks, loading, scan, diskVars>>
  BY DEF SessCreate
<1>2. SessTypes /\ RowsWell(rows, made) /\ SessReading /\ made \in Nat /\ MaxRows \in Nat
  BY SessAssumption DEF SessInv, SessLists, SessTypes, SessAssumption
<1>3. \A i \in DOMAIN rows : rows[i] \in SessRow
  BY <1>2, RowsAre
<1>4. old.prov \in Convs \cup {NoConv} /\ old.path \in Convs \cup {NoConv} /\ old.kept \in BOOLEAN
  BY <1>3 DEF SessRow, Idx
<1>5. from = 0 => old.prov = NoConv /\ old.path = NoConv
  OBVIOUS
<1> HIDE DEF old
<1>6. row \in SessRow
  <2>1. made + 1 \in Nat /\ t \in 0..MaxRows
    BY <1>2 DEF SessTabs
  <2> QED BY <2>1, <1>4 DEF SessRow
<1>7. /\ row.id = made + 1 /\ row.hook /\ row.tab = t /\ row.prov = old.prov /\ row.path = old.path
      /\ row.resumed = (from # 0)
  OBVIOUS
<1> HIDE DEF row
<1>8. \A i \in DOMAIN rows : Apart(row, rows[i]) /\ Apart(rows[i], row)
  BY <1>5, <1>7 DEF Apart, Shares
<1>9. loading = "reading" => scan' = scan /\ row.hook /\ row.prov = NoConv /\ row.path = NoConv
  <2> SUFFICES ASSUME loading = "reading" PROVE from = 0
    BY <1>1, <1>5, <1>7
  <2> QED BY <1>2 DEF SessReading, Blank, Idx
<1>10. /\ live' \subseteq SessTabs /\ scan' \in [on : BOOLEAN, todo : SUBSET Convs] /\ scan'.on = scan.on
       /\ row.tab \in SessTabs /\ binding' = [binding EXCEPT ![row.tab] = made + 1]
  BY <1>1, <1>2, <1>7 DEF SessTypes
<1> QED BY <1>1, <1>6, <1>7, <1>8, <1>9, <1>10, GrownStep

\* The row named, and what the external row adds to it: it shares nothing with the
\* external rows that stay.
LEMMA NamedRow ==
  ASSUME NEW r \in SessRow, NEW x \in SessRow, NEW y \in SessRow, NEW c \in Convs, NEW whole \in BOOLEAN,
         r.hook, ~x.hook, ~y.hook, x.prov = x.path, y.prov = y.path, x.prov # NoConv, y.prov # NoConv,
         ~Shares(r, x), ~Shares(r, y), ~Shares(x, y),
         Shares(Named(r, c, whole), x)
  PROVE  ~Shares(Merged(Named(r, c, whole), x), y)
<1> DEFINE s == Named(r, c, whole)
           m == Merged(s, x)
<1>1. /\ s.prov = c /\ s.path = (IF whole THEN c ELSE r.path) /\ s \in SessRow
  BY DEF Named, SessRow
<1> HIDE DEF s
<1>2. c # NoConv
  BY SessAssumption DEF SessAssumption
<1>3. m.prov = c /\ m.path = IF s.path = NoConv THEN x.path ELSE s.path
  BY <1>1, <1>2 DEF Merged, SessRow
<1> HIDE DEF m
<1>4. Shares(s, x)
  BY DEF s
<1>5. c = x.prov
  BY <1>1, <1>2, <1>4 DEF Shares
<1>6. ~Shares(m, y)
  BY <1>1, <1>2, <1>3, <1>5 DEF Shares
<1> QED BY <1>6 DEF m, s


\* One row changed, and no key of an external one.
LEMMA AlikeBut ==
  ASSUME NEW n, NEW list, RowsWell(list, n), NEW i \in DOMAIN list,
         NEW r \in SessRow, r.id = list[i].id, r.hook = list[i].hook, r.tab = list[i].tab,
         r.resumed = list[i].resumed, ~r.hook => r.prov = list[i].prov /\ r.path = list[i].path
  PROVE  /\ Alike(list, [list EXCEPT ![i] = r]) /\ [list EXCEPT ![i] = r][i] = r
         /\ \A j \in DOMAIN list : j # i => [list EXCEPT ![i] = r][j] = list[j]
<1>1. /\ list \in Seq(SessRow) /\ DOMAIN list = 1..Len(list) /\ Len(list) \in Nat
  BY RowsAre
<1> DEFINE new == [list EXCEPT ![i] = r]
<1>2. new \in Seq(SessRow) /\ DOMAIN new = DOMAIN list /\ new[i] = r /\ \A j \in DOMAIN list : j # i => new[j] = list[j]
  BY <1>1
<1> HIDE DEF new
<1>3. \A j \in DOMAIN list :
       /\ new[j].id = list[j].id /\ new[j].hook = list[j].hook /\ new[j].tab = list[j].tab
       /\ new[j].resumed = list[j].resumed
       /\ ~list[j].hook => new[j].prov = list[j].prov /\ new[j].path = list[j].path
  <2> TAKE j \in DOMAIN list
  <2>1. CASE j = i
    BY <2>1, <1>2
  <2>2. CASE j # i
    BY <2>2, <1>2
  <2> QED BY <2>1, <2>2
<1>4. Alike(list, new)
  BY <1>2, <1>3 DEF Alike
<1> QED BY <1>2, <1>4 DEF new

LEMMA SessIdentifyKept ==
  ASSUME SessInv, NEW t \in SessTabs, NEW i \in Idx, NEW c \in Convs, NEW whole \in BOOLEAN,
         SessIdentify(t, i, c, whole)
  PROVE  SessInv' /\ FileRight
<1> DEFINE s == Named(rows[i], c, whole)
           rows1 == [rows EXCEPT ![i] = s]
<1>1. /\ loading # "reading" /\ Owns(i, t) /\ Persist /\ hooks' = hooks + 1 /\ rows' = Absorbed(rows1, i)
      /\ UNCHANGED <<made, binding, live, loading, scan, diskVars>>
  <2>1. rows1 = [rows EXCEPT ![i] = Named(@, c, whole)]
    OBVIOUS
  <2> QED BY <2>1 DEF SessIdentify, Tells
<1>2. SessTypes /\ RowsWell(rows, made) /\ CardsApart(rows) /\ SessBound
  BY DEF SessInv, SessLists
<1>3. i \in DOMAIN rows /\ rows[i].tab = t /\ rows[i].hook
  BY <1>1, OwnedRow
<1>4. \A j \in DOMAIN rows : rows[j] \in SessRow
  BY <1>2, RowsAre
<1>5. \A j \in DOMAIN rows : ~rows[j].hook => rows[j].prov = rows[j].path /\ rows[j].prov # NoConv
  BY <1>2 DEF RowsWell
<1>6. s \in SessRow /\ s.id = rows[i].id /\ s.hook = rows[i].hook /\ s.hook /\ s.tab = rows[i].tab /\ s.resumed = rows[i].resumed
  BY <1>3, <1>4 DEF Named, SessRow
<1> HIDE DEF s
<1>7. Alike(rows, rows1) /\ rows1[i] = s /\ \A j \in DOMAIN rows : j # i => rows1[j] = rows[j]
  BY <1>2, <1>3, <1>6, AlikeBut
<1>8. DOMAIN rows1 = DOMAIN rows
  BY <1>7 DEF Alike
<1> HIDE DEF rows1
<1> DEFINE same == {j \in DOMAIN rows1 : ~rows1[j].hook /\ Shares(rows1[i], rows1[j])}
           first == CHOOSE j \in same : \A k \in same : j <= k
           rows2 == [rows1 EXCEPT ![i] = Merged(@, rows1[first])]
<1>9. rows' = IF same = {} THEN rows1 ELSE Without(rows2, rows1[first].id)
  BY <1>1 DEF Absorbed
<1>10. \A j \in same : j \in DOMAIN rows /\ j # i /\ ~rows[j].hook /\ rows1[j] = rows[j] /\ Shares(s, rows[j])
  BY <1>6, <1>7, <1>8
<1>11. \A j \in DOMAIN rows : ~rows[j].hook /\ Shares(s, rows[j]) => j \in same
  <2> SUFFICES ASSUME NEW j \in DOMAIN rows, ~rows[j].hook, Shares(s, rows[j]) PROVE j \in same
    OBVIOUS
  <2>1. j # i
    BY <1>3
  <2> QED BY <2>1, <1>7, <1>8
<1>12. same # {} => first \in same
  <2> SUFFICES ASSUME same # {} PROVE first \in same
    OBVIOUS
  <2>1. Len(rows) \in Nat /\ same \subseteq 1..Len(rows)
    BY <1>2, <1>10, RowsAre
  <2> HIDE DEF same
  <2>2. \E j \in same : \A k \in same : j <= k
    BY <2>1, FirstAndLast
  <2> QED BY <2>2
<1> HIDE DEF same, first
<1>13. ASSUME NEW list, RowsWell(list, made), CardsApart(list), Len(list) <= Len(rows), rows' = list,
              \A u \in SessTabs : binding[u] # 0 => binding[u] \in 1..made /\ LastOf(list, binding[u], u),
              \A j \in DOMAIN rows : rows[j].hook => \E k \in DOMAIN list : list[k].id = rows[j].id /\ list[k].hook
       PROVE  SessInv' /\ FileRight
  <2>1. hooks' \in Nat /\ made' \in 0..MaxRows /\ made <= made' /\ live' \subseteq SessTabs
        /\ binding' \in [SessTabs -> 0..MaxRows] /\ scan' \in [on : BOOLEAN, todo : SUBSET Convs]
    BY <1>1, <1>2 DEF SessTypes
  <2>2. UNCHANGED <<loading, diskVars>> /\ made' = made /\ binding' = binding /\ scan' = scan
    BY <1>1
  <2>3. RowsWell(rows', made') /\ CardsApart(rows') /\ Len(rows') <= Len(rows)
    BY <1>13, <2>2
  <2>4. \A u \in SessTabs : binding'[u] # 0 => binding'[u] \in 1..made' /\ LastOf(rows', binding'[u], u)
    BY <1>13, <2>2
  <2>5. \A j \in DOMAIN rows : rows[j].hook => \E k \in DOMAIN rows' : rows'[k].id = rows[j].id /\ rows'[k].hook
    BY <1>13
  <2> QED BY <1>1, <2>1, <2>2, <2>3, <2>4, <2>5, SessStep
<1>14. CASE same = {}
  <2>1. RowsWell(rows1, made) /\ Len(rows1) = Len(rows) /\ Len(rows) \in Nat
    BY <1>2, <1>7, AlikeRows, RowsAre
  <2>2. CardsApart(rows1)
    <3> SUFFICES ASSUME NEW x \in DOMAIN rows, NEW y \in DOMAIN rows PROVE Apart(rows1[x], rows1[y])
      BY <1>8 DEF CardsApart
    <3>1. CASE y = i
      BY <3>1, <1>6, <1>7 DEF Apart
    <3>2. CASE y # i /\ x = i
      BY <3>2, <1>7, <1>11, <1>14 DEF Apart
    <3>3. CASE y # i /\ x # i
      BY <3>3, <1>2, <1>7 DEF CardsApart
    <3> QED BY <3>1, <3>2, <3>3
  <2>3. \A u \in SessTabs : binding[u] # 0 => binding[u] \in 1..made /\ LastOf(rows1, binding[u], u)
    BY <1>7, BoundAlike
  <2>4. \A j \in DOMAIN rows : rows[j].hook => \E k \in DOMAIN rows1 : rows1[k].id = rows[j].id /\ rows1[k].hook
    BY <1>7 DEF Alike
  <2> QED BY <1>9, <1>13, <1>14, <2>1, <2>2, <2>3, <2>4
<1>15. CASE same # {}
  <2> DEFINE k == first
             m == Merged(s, rows[k])
             e == rows[k].id
  <2>1. k \in DOMAIN rows /\ k # i /\ ~rows[k].hook /\ rows1[k] = rows[k] /\ Shares(s, rows[k])
    BY <1>10, <1>12, <1>15
  <2>2. m \in SessRow /\ m.id = rows[i].id /\ m.hook = rows[i].hook /\ m.hook /\ m.tab = rows[i].tab /\ m.resumed = rows[i].resumed
    <3>1. rows[k] \in SessRow
      BY <1>4, <2>1
    <3> QED BY <1>6, <3>1 DEF Merged, SessRow
  <2>3. rows2 = [rows1 EXCEPT ![i] = m]
    BY <1>7, <2>1
  <2>4. rows2 = [rows EXCEPT ![i] = m]
    <3>1. rows1 = [rows EXCEPT ![i] = s]
      BY DEF rows1
    <3>2. [[rows EXCEPT ![i] = s] EXCEPT ![i] = m] = [rows EXCEPT ![i] = m]
      BY <1>3
    <3> QED BY <2>3, <3>1, <3>2
  <2> HIDE DEF k, m, rows2
  <2>5. Alike(rows, rows2) /\ rows2[i] = m /\ \A j \in DOMAIN rows : j # i => rows2[j] = rows[j]
    BY <1>2, <1>3, <2>2, <2>4, AlikeBut
  <2>6. RowsWell(rows2, made) /\ Len(rows2) = Len(rows) /\ Len(rows) \in Nat /\ DOMAIN rows2 = DOMAIN rows
    BY <1>2, <2>5, AlikeRows, RowsAre DEF Alike
  <2>7. rows' = Without(rows2, e)
    BY <1>9, <1>15, <2>1 DEF k
  <2>8. \A j \in DOMAIN rows2 : rows2[j].id = rows[j].id /\ (rows2[j].id = e => j = k)
    <3>1. \A j \in DOMAIN rows : rows2[j].id = rows[j].id
      BY <2>5 DEF Alike
    <3>2. \A j \in DOMAIN rows : rows[j].id = rows[k].id => j = k
      BY <1>2, <2>1 DEF RowsWell
    <3> QED BY <2>6, <3>1, <3>2
  <2>9. ~rows[i].resumed => ~Shares(rows[i], rows[k])
    <3>1. rows[i].id # rows[k].id
      BY <1>2, <1>3, <2>1 DEF RowsWell
    <3> QED BY <1>2, <1>3, <2>1, <3>1 DEF CardsApart, Apart
  <2> HIDE DEF e
  <2>10. ASSUME NEW x \in DOMAIN rows2, NEW y \in DOMAIN rows2, x # k, y # k
         PROVE  Apart(rows2[x], rows2[y])
    <3>1. CASE y = i
      BY <3>1, <2>2, <2>5 DEF Apart
    <3>2. CASE y # i /\ x # i
      BY <3>2, <1>2, <2>5, <2>6 DEF CardsApart
    <3>3. CASE y # i /\ x = i
      <4> SUFFICES ASSUME ~rows[y].hook, ~rows[i].resumed PROVE ~Shares(m, rows[y])
        BY <3>3, <2>2, <2>5, <2>6 DEF Apart
      <4>1. y \in DOMAIN rows /\ rows[y].id # rows[i].id /\ rows[y].id # rows[k].id
        BY <1>2, <1>3, <2>1, <2>6, <2>10, <3>3 DEF RowsWell
      <4>2. ~Shares(rows[i], rows[y]) /\ ~Shares(rows[k], rows[y])
        BY <1>2, <1>3, <2>1, <4>1 DEF CardsApart, Apart
      <4>3. Shares(Named(rows[i], c, whole), rows[k])
        BY <2>1 DEF s
      <4>4. rows[i] \in SessRow /\ rows[k] \in SessRow /\ rows[y] \in SessRow
        BY <1>3, <1>4, <2>1, <4>1
      <4>5. rows[k].prov = rows[k].path /\ rows[k].prov # NoConv /\ rows[y].prov = rows[y].path /\ rows[y].prov # NoConv
        BY <1>5, <2>1, <4>1
      <4>6. ~Shares(Merged(Named(rows[i], c, whole), rows[k]), rows[y])
        <5> DEFINE a == rows[i]
                   b == rows[k]
                   d == rows[y]
        <5>1. a \in SessRow /\ b \in SessRow /\ d \in SessRow /\ a.hook /\ ~b.hook /\ ~d.hook
              /\ ~Shares(a, b) /\ ~Shares(a, d) /\ ~Shares(b, d) /\ Shares(Named(a, c, whole), b)
              /\ b.prov = b.path /\ b.prov # NoConv /\ d.prov = d.path /\ d.prov # NoConv
          BY <1>3, <2>1, <2>9, <4>2, <4>3, <4>4, <4>5
        <5> HIDE DEF a, b, d
        <5>2. ~Shares(Merged(Named(a, c, whole), b), d)
          BY <5>1, NamedRow
        <5> QED BY <5>2 DEF a, b, d
      <4> QED BY <4>6 DEF m, s
    <3> QED BY <3>1, <3>2, <3>3
  <2> DEFINE left == Without(rows2, e)
  <2>20. RowsWell(rows2, made)
    BY <2>6
  <2>16. RowsWell(left, made) /\ Len(left) <= Len(rows2) /\ Len(left) \in Nat
    BY <2>20, WithoutRows
  <2>17. \A q \in DOMAIN left : \E j \in DOMAIN rows2 : left[q] = rows2[j] /\ rows2[j].id # e
    BY <2>20, WithoutRows
  <2>19. \A j \in DOMAIN rows2 : rows2[j].id # e => \E q \in DOMAIN left : left[q] = rows2[j]
    BY <2>20, WithoutRows
  <2>18. \A x, u : LastOf(rows2, x, u) => LastOf(left, x, u)
    BY <2>20, WithoutRows
  <2>11. /\ RowsWell(left, made) /\ Len(left) <= Len(rows2) /\ Len(left) \in Nat
         /\ \A q \in DOMAIN left : \E j \in DOMAIN rows2 : left[q] = rows2[j] /\ rows2[j].id # e
         /\ \A j \in DOMAIN rows2 : rows2[j].id # e => \E q \in DOMAIN left : left[q] = rows2[j]
         /\ \A x, u : LastOf(rows2, x, u) => LastOf(left, x, u)
    BY <2>16, <2>17, <2>18, <2>19
  <2>12. rows' = left
    BY <2>7
  <2> HIDE DEF left
  <2>13. CardsApart(left)
    <3> SUFFICES ASSUME NEW p \in DOMAIN left, NEW q \in DOMAIN left PROVE Apart(left[p], left[q])
      BY DEF CardsApart
    <3>1. PICK x \in DOMAIN rows2 : left[p] = rows2[x] /\ rows2[x].id # e
      BY <2>11
    <3>2. PICK y \in DOMAIN rows2 : left[q] = rows2[y] /\ rows2[y].id # e
      BY <2>11
    <3>3. x # k /\ y # k
      <4>1. rows2[k].id = e
        BY <2>1, <2>6, <2>8 DEF e
      <4> QED BY <3>1, <3>2, <4>1
    <3> QED BY <2>10, <3>1, <3>2, <3>3
  <2>14. \A u \in SessTabs : binding[u] # 0 => binding[u] \in 1..made /\ LastOf(left, binding[u], u)
    <3>1. \A u \in SessTabs : binding[u] # 0 => binding[u] \in 1..made /\ LastOf(rows2, binding[u], u)
      BY <2>5, BoundAlike
    <3> QED BY <2>11, <3>1
  <2>15. \A j \in DOMAIN rows : rows[j].hook => \E q \in DOMAIN left : left[q].id = rows[j].id /\ left[q].hook
    <3> SUFFICES ASSUME NEW j \in DOMAIN rows, rows[j].hook
                 PROVE  \E q \in DOMAIN left : left[q].id = rows[j].id /\ left[q].hook
      OBVIOUS
    <3>1. rows2[j].id # e /\ rows2[j].id = rows[j].id /\ rows2[j].hook
      BY <2>1, <2>5, <2>6, <2>8 DEF Alike
    <3>2. PICK q \in DOMAIN left : left[q] = rows2[j]
      BY <2>6, <2>11, <3>1
    <3> QED BY <3>1, <3>2
  <2> QED BY <1>13, <2>6, <2>11, <2>12, <2>13, <2>14, <2>15
<1> QED BY <1>14, <1>15

LEMMA SessImportKept ==
  ASSUME SessInv, NEW c \in Convs, SessImport(c)
  PROVE  SessInv' /\ FileRight
<1>1. /\ c \in scan.todo /\ scan' = [scan EXCEPT !.todo = @ \ {c}]
      /\ UNCHANGED <<hooks, binding, live, loading, diskVars>>
  BY DEF SessImport
<1>2. SessTypes /\ RowsWell(rows, made) /\ CardsApart(rows) /\ SessReading /\ SessBound /\ made \in Nat
      /\ MaxRows \in Nat
  BY SessAssumption DEF SessInv, SessLists, SessTypes, SessAssumption
<1>3. loading # "reading"
  BY <1>1, <1>2 DEF SessReading, NoScan
<1>4. scan' \in [on : BOOLEAN, todo : SUBSET Convs] /\ scan'.on = scan.on
  BY <1>1, <1>2 DEF SessTypes
<1>5. \A j \in DOMAIN rows : rows[j] \in SessRow
  BY <1>2, RowsAre
<1>6. \A j \in DOMAIN rows : ~rows[j].hook => rows[j].prov = rows[j].path /\ rows[j].prov # NoConv
  BY <1>2 DEF RowsWell
<1>7. c # NoConv
  BY SessAssumption DEF SessAssumption
<1>8. live' \subseteq SessTabs /\ hooks' \in Nat /\ binding' \in [SessTabs -> 0..MaxRows] /\ made \in 0..MaxRows
  BY <1>1, <1>2 DEF SessTypes
<1>9. CASE Matches(c) # {}
  <2> DEFINE i == CHOOSE i \in Matches(c) : \A j \in Matches(c) : i <= j
             r == Healed(rows[i], c)
  <2>1. /\ rows' = [rows EXCEPT ![i] = Healed(@, c)] /\ UNCHANGED made
        /\ IF rows' # rows THEN Persist ELSE Unsaved
    BY <1>9 DEF SessImport
  <2>2. i \in Matches(c)
    <3>1. Matches(c) \subseteq DOMAIN rows
      BY DEF Matches, ByProv, ByPath, Idx
    <3>2. DOMAIN rows = 1..Len(rows) /\ Len(rows) \in Nat
      BY <1>2, RowsAre
    <3>3. \E k \in Matches(c) : \A j \in Matches(c) : k <= j
      BY <1>9, <3>1, <3>2, FirstAndLast
    <3> QED BY <3>3
  <2>3. rows' = [rows EXCEPT ![i] = r]
    BY <2>1
  <2> HIDE DEF i
  <2>4. i \in DOMAIN rows /\ rows[i] \in SessRow
    BY <1>5, <2>2 DEF Matches, ByProv, ByPath, Idx
  <2>5. ~rows[i].hook => rows[i].prov = c /\ rows[i].path = c
    BY <1>6, <2>2 DEF Matches, ByProv, ByPath, Idx
  <2>6. /\ r.prov = (IF rows[i].hook /\ rows[i].prov # NoConv THEN rows[i].prov ELSE c)
        /\ r.path = (IF rows[i].hook /\ rows[i].path # NoConv THEN rows[i].path ELSE c)
        /\ r \in SessRow /\ r.id = rows[i].id /\ r.hook = rows[i].hook /\ r.tab = rows[i].tab
        /\ r.resumed = rows[i].resumed
    BY <2>4 DEF Healed, SessRow
  <2> HIDE DEF r
  <2>7. ~r.hook => r.prov = rows[i].prov /\ r.path = rows[i].path
    BY <2>5, <2>6
  <2>8. Alike(rows, rows') /\ rows'[i] = r /\ \A j \in DOMAIN rows : j # i => rows'[j] = rows[j]
    BY <1>2, <2>3, <2>4, <2>6, <2>7, AlikeBut
  <2>9. RowsWell(rows', made) /\ Len(rows') = Len(rows) /\ Len(rows) \in Nat /\ DOMAIN rows' = DOMAIN rows
    BY <1>2, <2>8, AlikeRows, RowsAre DEF Alike
  <2>10. CardsApart(rows')
    <3> SUFFICES ASSUME NEW x \in DOMAIN rows, NEW y \in DOMAIN rows PROVE Apart(rows'[x], rows'[y])
      BY <2>9 DEF CardsApart
    <3>1. Apart(rows[x], rows[y])
      BY <1>2 DEF CardsApart
    <3>2. CASE x # i /\ y # i
      BY <3>1, <3>2, <2>8
    <3>3. CASE y = i
      <4>1. CASE x = i
        BY <3>3, <4>1 DEF Apart
      <4>2. CASE x # i
        BY <3>1, <3>3, <4>2, <2>6, <2>7, <2>8 DEF Apart, Shares
      <4> QED BY <4>1, <4>2
    <3>4. CASE x = i /\ y # i
      <4>1. rows'[x] = r /\ rows'[y] = rows[y]
        BY <3>4, <2>8
      <4>2. CASE ~rows[i].hook
        BY <4>1, <4>2, <3>1, <3>4, <2>6, <2>7 DEF Apart, Shares
      <4>3. CASE rows[i].hook
        <5> SUFFICES ASSUME ~rows[y].hook, ~rows[i].resumed, rows[y].id # rows[i].id
                     PROVE  ~Shares(r, rows[y])
          BY <4>1, <4>3, <2>6 DEF Apart
        <5>1. ~Shares(rows[i], rows[y])
          BY <3>1, <3>4 DEF Apart
        <5>2. rows[y].prov = rows[y].path /\ rows[y].prov # NoConv
          BY <1>6
        <5>3. rows[y].prov = c => rows[i].prov = c
          BY <2>2 DEF Matches, ByProv, Idx
        <5> QED BY <5>1, <5>2, <5>3, <2>6 DEF Shares
      <4> QED BY <4>2, <4>3
    <3> QED BY <3>2, <3>3, <3>4
  <2>11. \A u \in SessTabs : binding'[u] # 0 => binding'[u] \in 1..made' /\ LastOf(rows', binding'[u], u)
    <3>1. \A u \in SessTabs : binding[u] # 0 => binding[u] \in 1..made /\ LastOf(rows', binding[u], u)
      BY <1>2, <2>8, AlikeRows DEF SessBound
    <3> QED BY <1>1, <2>1, <3>1
  <2>12. \A j \in DOMAIN rows : rows[j].hook => \E k \in DOMAIN rows' : rows'[k].id = rows[j].id /\ rows'[k].hook
    BY <2>8 DEF Alike
  <2>13. made' = made /\ made' \in 0..MaxRows /\ made <= made' /\ RowsWell(rows', made')
         /\ Len(rows') <= Len(rows)
    BY <1>2, <1>8, <2>1, <2>9
  <2>14. \A u \in SessTabs : binding'[u] \in {0, binding[u], made + 1}
    BY <1>1
  <2>15. Persist \/ (rows' = rows /\ Unsaved)
    BY <2>1
  <2>16. UNCHANGED <<loading, diskVars>>
    BY <1>1
  <2> QED BY <1>3, <1>4, <1>8, <2>10, <2>11, <2>12, <2>13, <2>14, <2>15, <2>16, SessStep
<1>10. CASE Matches(c) = {}
  <2> DEFINE row == [id |-> made + 1, hook |-> FALSE, prov |-> c, path |-> c, tab |-> 0, kept |-> TRUE,
                     resumed |-> FALSE]
  <2>1. MayMake /\ made' = made + 1 /\ Persist /\ rows' \in Pruned(Append(rows, row), 0)
    BY <1>10 DEF SessImport
  <2>2. /\ row \in SessRow /\ row.id = made + 1 /\ ~row.hook /\ row.prov = c /\ row.path = c /\ row.tab = 0
    <3>1. made + 1 \in Nat /\ 0 \in 0..MaxRows
      BY <1>2
    <3> QED BY <3>1 DEF SessRow
  <2> HIDE DEF row
  <2>3. \A i \in DOMAIN rows : rows[i].prov # c /\ (rows[i].hook => rows[i].path # c)
    BY <1>10 DEF Matches, ByProv, ByPath, Idx
  <2>4. \A i \in DOMAIN rows : Apart(row, rows[i]) /\ Apart(rows[i], row)
    BY <1>6, <2>2, <2>3 DEF Apart, Shares
  <2>5. row.tab \notin SessTabs /\ binding' = binding
    BY <1>1, <2>2 DEF SessTabs
  <2>6. UNCHANGED <<loading, diskVars, hooks>>
    BY <1>1
  <2>7. ~row.hook => row.prov = row.path /\ row.prov # NoConv /\ row.tab = 0
    BY <1>7, <2>2
  <2> QED BY <1>3, <1>4, <1>8, <2>1, <2>2, <2>4, <2>5, <2>6, <2>7, GrownStep
<1> QED BY <1>9, <1>10

\* Whom the terminals belong to when the file is read.
LEMMA FilledRows ==
  ASSUME SessTypes, SessBound, SessReading, loading = "reading",
         NEW all, RowsWell(all, made),
         \A m \in DOMAIN all :
           (\E i \in DOMAIN rows : all[m] = rows[i]) \/ (\E i \in DOMAIN file : all[m] = file[i])
  PROVE  /\ Filled(all) \in [SessTabs -> 0..MaxRows]
         /\ \A t \in SessTabs : Filled(all)[t] # 0 =>
              Filled(all)[t] \in 1..made /\ LastOf(all, Filled(all)[t], t)
<1>1. made \in Nat /\ MaxRows \in Nat /\ made <= MaxRows
  BY SessAssumption DEF SessTypes, SessAssumption
<1>2. DOMAIN all = 1..Len(all) /\ Len(all) \in Nat
  BY RowsAre
<1> SUFFICES ASSUME NEW t \in SessTabs
             PROVE  /\ Filled(all)[t] \in 0..MaxRows
                    /\ Filled(all)[t] # 0 => Filled(all)[t] \in 1..made /\ LastOf(all, Filled(all)[t], t)
  BY DEF Filled
<1> DEFINE is == {i \in DOMAIN all : all[i].tab = t}
           top == CHOOSE i \in is : \A j \in is : j <= i
<1>3. Filled(all)[t] = IF is = {} THEN binding[t] ELSE all[top].id
  BY DEF Filled
<1>4. CASE is = {}
  <2>1. Filled(all)[t] = binding[t] /\ binding[t] \in 0..MaxRows
    BY <1>3, <1>4 DEF SessTypes
  <2>2. ASSUME binding[t] # 0 PROVE binding[t] \in 1..made /\ LastOf(all, binding[t], t)
    <3>1. binding[t] \in 1..made /\ LastOf(rows, binding[t], t)
      BY <2>2 DEF SessBound
    <3>2. \A m \in DOMAIN all : all[m].id # binding[t]
      <4> SUFFICES ASSUME NEW m \in DOMAIN all, all[m].id = binding[t] PROVE FALSE
        OBVIOUS
      <4>1. \A i \in DOMAIN file : file[i].id # binding[t]
        BY DEF SessReading
      <4>2. PICK i \in DOMAIN rows : all[m] = rows[i]
        BY <4>1
      <4>3. all[m].tab = t
        BY <3>1, <4>2 DEF LastOf
      <4> QED BY <1>4, <4>3
    <3> QED BY <3>1, <3>2 DEF LastOf
  <2> QED BY <2>1, <2>2
<1>5. CASE is # {}
  <2>1. top \in is /\ \A j \in is : j <= top
    <3>1. is \subseteq 1..Len(all)
      BY <1>2
    <3> HIDE DEF is
    <3>2. \E i \in is : \A j \in is : j <= i
      BY <1>2, <1>5, <3>1, FirstAndLast
    <3> QED BY <3>2
  <2> HIDE DEF top
  <2>2. top \in DOMAIN all /\ all[top].tab = t /\ \A j \in DOMAIN all : all[j].tab = t => j <= top
    BY <2>1
  <2>3. all[top].id \in 1..made
    BY <2>2 DEF RowsWell
  <2>4. LastOf(all, all[top].id, t)
    <3>1. \A i \in DOMAIN all : all[i].id = all[top].id => i = top
      BY <2>2 DEF RowsWell
    <3> QED BY <2>2, <3>1 DEF LastOf
  <2>5. all[top].id \in 0..MaxRows
    BY <1>1, <2>3
  <2> QED BY <1>3, <1>5, <2>3, <2>4, <2>5
<1> QED BY <1>4, <1>5

LEMMA SessLoadKept == ASSUME SessInv, SessLoad PROVE SessInv' /\ FileRight
<1>1. /\ loading = "reading" /\ loading' = IF corrupt THEN "refused" ELSE "ok"
      /\ UNCHANGED <<hooks, made, live, scan, corrupt, file, restarts>>
  BY DEF SessLoad, LoadedWith, diskVars
<1>2. /\ SessTypes /\ RowsWell(rows, made) /\ CardsApart(rows) /\ RowsWell(file, made) /\ CardsApart(file)
      /\ SessBound /\ SessReading /\ made \in Nat /\ RowLimit \in Nat
  BY SessAssumption DEF SessInv, SessLists, SessTypes, SessAssumption
<1>3. FileRight
  BY <1>1 DEF FileRight, Ids
<1>4. CASE corrupt
  <2>1. UNCHANGED <<rows, binding, deferred, owed>> /\ loading' = "refused"
    BY <1>1, <1>4 DEF SessLoad, LoadedWith, Unsaved
  <2>2. SessTypes'
    BY <1>1, <1>2, <2>1 DEF SessTypes
  <2>3. SessLists'
    BY <1>1, <2>1 DEF SessInv, SessLists
  <2>4. SessBound'
    BY <1>1, <1>2, <2>1 DEF SessBound
  <2>5. SessReading' /\ SessFiled' /\ SessUnsaved'
    BY <2>1 DEF SessReading, SessFiled, SessUnsaved
  <2> QED BY <1>3, <2>2, <2>3, <2>4, <2>5 DEF SessInv
<1>5. CASE ~corrupt
  <2> DEFINE all == rows \o file
             bound == Filled(all)
             I == {i \in DOMAIN all : ~Orphan(all[i], bound)}
  <2>1. /\ loading' = "ok" /\ binding' = bound /\ rows' = Chosen(all, I)
        /\ IF Len(rows') < Len(all) THEN Persist ELSE Unsaved
    BY <1>1, <1>5 DEF SessLoad, LoadedWith
  <2>2. Blank(rows) /\ scan = NoScan /\ Len(rows) <= RowLimit /\ (rows # <<>> => owed)
    BY <1>1, <1>2 DEF SessReading
  <2>3. /\ RowsWell(all, made) /\ Len(all) = Len(rows) + Len(file)
        /\ \A m \in DOMAIN all :
             (\E i \in DOMAIN rows : all[m] = rows[i]) \/ (\E i \in DOMAIN file : all[m] = file[i])
        /\ \A i \in DOMAIN file : \E m \in DOMAIN all : all[m] = file[i]
    <3>1. Strangers(rows, file)
      BY <2>2 DEF Blank, Strangers
    <3>2. RowsWell(rows, made)
      BY <1>2
    <3>3. RowsWell(file, made)
      BY <1>2
    <3>4. all = Joined(rows, file)
      BY DEF Joined
    <3> HIDE DEF all, bound, I
    <3>5. RowsWell(all, made) /\ Len(all) = Len(rows) + Len(file)
      BY <3>1, <3>2, <3>3, <3>4, JoinRows
    <3>6. \A m \in DOMAIN all :
            (\E i \in DOMAIN rows : all[m] = rows[i]) \/ (\E i \in DOMAIN file : all[m] = file[i])
      BY <3>1, <3>2, <3>3, <3>4, JoinRows
    <3>7. \A i \in DOMAIN file : \E m \in DOMAIN all : all[m] = file[i]
      BY <3>1, <3>2, <3>3, <3>4, JoinRows
    <3> QED BY <3>5, <3>6, <3>7
  <2>4. rows = <<>> => all = file
    <3>1. file \in Seq(SessRow)
      BY <1>2, RowsAre
    <3> QED BY <3>1
  <2>5. I \in SUBSET DOMAIN all /\ \A i \in DOMAIN all : i \in I <=> ~Orphan(all[i], bound)
    OBVIOUS
  <2> HIDE DEF all, I
  <2>6. /\ bound \in [SessTabs -> 0..MaxRows]
        /\ \A t \in SessTabs : bound[t] # 0 => bound[t] \in 1..made /\ LastOf(all, bound[t], t)
    BY <1>1, <1>2, <2>3, FilledRows
  <2> HIDE DEF bound
  <2>7. CardsApart(all)
    <3> SUFFICES ASSUME NEW x \in DOMAIN all, NEW y \in DOMAIN all PROVE Apart(all[x], all[y])
      BY DEF CardsApart
    <3>1. \A i \in DOMAIN rows : rows[i].hook /\ rows[i].prov = NoConv /\ rows[i].path = NoConv
      BY <2>2 DEF Blank
    <3>2. CASE \E i \in DOMAIN rows : all[x] = rows[i] \/ all[y] = rows[i]
      BY <3>1, <3>2 DEF Apart, Shares
    <3>3. CASE ~ \E i \in DOMAIN rows : all[x] = rows[i] \/ all[y] = rows[i]
      <4>1. (\E i \in DOMAIN file : all[x] = file[i]) /\ (\E i \in DOMAIN file : all[y] = file[i])
        BY <2>3, <3>3
      <4> QED BY <1>2, <4>1 DEF CardsApart
    <3> QED BY <3>2, <3>3
  <2>8. /\ RowsWell(rows', made) /\ Len(rows') <= Len(all) /\ Len(rows') \in Nat
        /\ \A i \in I : \E m \in DOMAIN rows' : rows'[m] = all[i]
        /\ \A id, t : LastOf(all, id, t) => LastOf(rows', id, t)
        /\ CardsApart(rows')
    BY <2>1, <2>3, <2>5, <2>7, ChosenRows
  <2>9. Len(rows) \in Nat /\ Len(file) \in Nat
    BY <1>2, RowsAre
  <2>10. SessLists'
    <3>1. Len(rows') <= RowLimit + Len(file)
      BY <1>2, <2>2, <2>3, <2>8, <2>9
    <3> QED BY <1>1, <1>2, <2>8, <3>1 DEF SessLists
  <2>11. SessBound'
    <3> SUFFICES ASSUME NEW t \in SessTabs, binding'[t] # 0
                 PROVE  binding'[t] \in 1..made /\ LastOf(rows', binding'[t], t)
      BY <1>1 DEF SessBound, SessTabs
    <3> QED BY <2>1, <2>6, <2>8
  <2>12. deferred' \in BOOLEAN /\ owed' \in BOOLEAN
    BY <1>2, <2>1 DEF Persist, Unsaved, SessTypes
  <2>13. SessTypes'
    BY <1>1, <1>2, <2>1, <2>6, <2>12 DEF SessTypes
  <2>14. SessFiled'
    <3> SUFFICES ASSUME NEW i \in DOMAIN file, file[i].hook, file[i].kept
                 PROVE  \E j \in DOMAIN rows' : rows'[j].id = file[i].id /\ rows'[j].hook
      BY <1>1 DEF SessFiled
    <3>1. PICK m \in DOMAIN all : all[m] = file[i]
      BY <2>3
    <3>2. m \in I
      BY <2>5, <3>1 DEF Orphan
    <3>3. PICK j \in DOMAIN rows' : rows'[j] = all[m]
      BY <2>8, <3>2
    <3> QED BY <3>1, <3>3
  <2>15. SessUnsaved'
    <3>1. CASE Len(rows') < Len(all)
      <4>1. owed'
        BY <2>1, <2>2, <3>1 DEF Persist, NoScan
      <4> QED BY <4>1 DEF SessUnsaved
    <3>2. CASE ~(Len(rows') < Len(all))
      <4>1. Len(rows') = Len(all)
        BY <2>3, <2>8, <2>9, <3>2
      <4>2. all \in Seq(SessRow) /\ I \in SUBSET (1..Len(all))
        BY <2>3, <2>5, RowsAre
      <4>3. rows' = all
        BY <2>1, <4>1, <4>2, ChosenAll
      <4>4. owed' = owed
        BY <2>1, <3>2 DEF Unsaved
      <4>5. file' # rows' => owed'
        BY <1>1, <2>2, <2>4, <4>3, <4>4
      <4> QED BY <4>5 DEF SessUnsaved
    <3> QED BY <3>1, <3>2
  <2>16. SessReading'
    BY <2>1 DEF SessReading
  <2> QED BY <1>3, <2>10, <2>11, <2>13, <2>14, <2>15, <2>16 DEF SessInv
<1> QED BY <1>4, <1>5, <1>2 DEF SessTypes

LEMMA SessScanKept ==
  ASSUME SessInv, NEW cs \in SUBSET Convs, SessScan(cs) PROVE SessInv' /\ FileRight
<1>1. /\ ~scan.on /\ loading # "reading" /\ scan' = [on |-> TRUE, todo |-> cs]
      /\ UNCHANGED <<hooks, rows, made, binding, live, loading, deferred, owed, corrupt, file, restarts>>
  BY DEF SessScan, diskVars
<1>2. SessTypes' /\ SessLists' /\ SessBound'
  BY <1>1 DEF SessInv, SessTypes, SessLists, SessBound
<1>3. SessReading' /\ SessFiled' /\ SessUnsaved'
  BY <1>1 DEF SessInv, SessReading, SessFiled, SessUnsaved
<1> QED BY <1>1, <1>2, <1>3 DEF SessInv, FileRight, Ids

LEMMA SessScannedKept == ASSUME SessInv, SessScanned PROVE SessInv' /\ FileRight
<1>1. /\ scan.on /\ scan' = NoScan /\ deferred' = FALSE /\ owed' = (owed \/ deferred)
      /\ UNCHANGED <<hooks, rows, made, binding, live, loading, corrupt, file, restarts>>
  BY DEF SessScanned, diskVars
<1>2. loading # "reading"
  BY <1>1 DEF SessInv, SessReading, NoScan
<1>3. SessTypes' /\ SessLists' /\ SessBound'
  BY <1>1 DEF SessInv, SessTypes, SessLists, SessBound, NoScan
<1>4. SessReading' /\ SessFiled' /\ SessUnsaved'
  BY <1>1, <1>2 DEF SessInv, SessReading, SessFiled, SessUnsaved
<1> QED BY <1>1, <1>3, <1>4 DEF SessInv, FileRight, Ids

\* What is written is the ledger, which has all that terminals left in the file.
LEMMA SessWriteKept == ASSUME SessInv, SessWrite PROVE SessInv' /\ FileRight
<1>1. /\ loading = "ok" /\ file' = rows /\ owed' = FALSE
      /\ UNCHANGED <<hooks, rows, made, binding, live, loading, corrupt, scan, deferred, restarts>>
  BY DEF SessWrite, MayWrite
<1>2. SessTypes' /\ SessBound'
  BY <1>1 DEF SessInv, SessTypes, SessBound
<1>3. SessLists'
  <2>1. RowsWell(rows, made) /\ CardsApart(rows) /\ RowLimit \in Nat
    BY SessAssumption DEF SessInv, SessLists, SessAssumption
  <2>2. Len(rows) <= RowLimit + Len(rows)
    BY <2>1, RowsAre
  <2> QED BY <1>1, <2>1, <2>2 DEF SessLists
<1>4. SessReading' /\ SessFiled' /\ SessUnsaved'
  BY <1>1 DEF SessReading, SessFiled, SessUnsaved
<1>5. FileRight
  <2> SUFFICES ASSUME NEW i \in DOMAIN file, file[i].hook, file[i].kept, ~(made > RowLimit)
               PROVE  file[i].id \in Ids(rows)
    BY <1>1 DEF FileRight
  <2>1. made <= RowLimit
    BY SessAssumption DEF SessInv, SessTypes, SessAssumption
  <2>2. PICK j \in DOMAIN rows : rows[j].id = file[i].id
    BY <1>1, <2>1 DEF SessInv, SessFiled
  <2> QED BY <2>2 DEF Ids
<1> QED BY <1>2, <1>3, <1>4, <1>5 DEF SessInv

LEMMA SessRefuseKept == ASSUME SessInv, SessRefuse PROVE SessInv' /\ FileRight
<1>1. /\ loading = "refused" /\ owed' = FALSE
      /\ UNCHANGED <<hooks, rows, made, binding, live, loading, scan, deferred, corrupt, file, restarts>>
  BY DEF SessRefuse, diskVars
<1>2. SessTypes' /\ SessLists' /\ SessBound'
  BY <1>1 DEF SessInv, SessTypes, SessLists, SessBound
<1>3. SessReading' /\ SessFiled' /\ SessUnsaved'
  BY <1>1 DEF SessReading, SessFiled, SessUnsaved
<1> QED BY <1>1, <1>2, <1>3 DEF SessInv, FileRight, Ids

LEMMA SessFlushKept == ASSUME SessInv, SessFlush PROVE SessInv' /\ FileRight
<1>1. /\ deferred' = FALSE /\ owed' = TRUE
      /\ UNCHANGED <<hooks, rows, made, binding, live, loading, scan, corrupt, file, restarts>>
  BY DEF SessFlush, diskVars
<1>2. SessTypes' /\ SessLists' /\ SessBound'
  BY <1>1 DEF SessInv, SessTypes, SessLists, SessBound
<1>3. SessReading'
  BY <1>1 DEF SessInv, SessReading, Blank
<1>4. SessFiled' /\ SessUnsaved'
  BY <1>1 DEF SessInv, SessFiled, SessUnsaved
<1> QED BY <1>1, <1>2, <1>3, <1>4 DEF SessInv, FileRight, Ids

LEMMA SessRestartKept == ASSUME SessInv, SessRestart PROVE SessInv' /\ FileRight
<1>1. /\ restarts' = restarts + 1 /\ rows' = <<>> /\ binding' = [t \in SessTabs |-> 0] /\ live' = {}
      /\ loading' = "reading" /\ scan' = NoScan /\ deferred' = FALSE /\ owed' = FALSE
      /\ UNCHANGED <<made, hooks, corrupt, file>>
  BY DEF SessRestart
<1>2. SessTypes /\ RowsWell(file, made) /\ CardsApart(file) /\ RowLimit \in Nat /\ Len(file) \in Nat
  <2>1. SessTypes /\ RowsWell(file, made) /\ CardsApart(file) /\ RowLimit \in Nat
    BY SessAssumption DEF SessInv, SessLists, SessAssumption
  <2> QED BY <2>1, RowsAre
<1>3. <<>> \in Seq(SessRow) /\ DOMAIN <<>> = {} /\ Len(<<>>) = 0
  OBVIOUS
<1>4. RowsWell(<<>>, made) /\ CardsApart(<<>>)
  BY <1>3 DEF RowsWell, CardsApart
<1>5. SessTypes'
  <2>1. 0 \in 0..MaxRows
    BY SessAssumption DEF SessAssumption
  <2>2. binding' \in [SessTabs -> 0..MaxRows]
    BY <1>1, <2>1
  <2>3. NoScan \in [on : BOOLEAN, todo : SUBSET Convs]
    BY DEF NoScan
  <2>4. restarts' \in Nat
    BY <1>1, <1>2 DEF SessTypes
  <2>5. scan' \in [on : BOOLEAN, todo : SUBSET Convs]
    BY <1>1, <2>3
  <2>6. made' \in 0..MaxRows /\ hooks' \in Nat /\ corrupt' \in BOOLEAN
    BY <1>1, <1>2 DEF SessTypes
  <2>7. live' \subseteq SessTabs /\ loading' \in {"reading", "ok", "refused"} /\ deferred' \in BOOLEAN
        /\ owed' \in BOOLEAN
    BY <1>1
  <2>8. binding' \in [SessTabs -> 0..MaxRows]'
    BY <2>2 DEF SessTabs
  <2> QED BY <2>2, <2>4, <2>5, <2>6, <2>7, <2>8 DEF SessTypes
<1>6. SessLists'
  <2>1. 0 <= RowLimit + Len(file)
    BY <1>2
  <2> QED BY <1>1, <1>2, <1>3, <1>4, <2>1 DEF SessLists
<1>7. SessBound' /\ SessFiled' /\ SessUnsaved'
  BY <1>1 DEF SessBound, SessFiled, SessUnsaved
<1>8. SessReading'
  <2>1. \A i \in DOMAIN file : file[i].id # 0
    <3>1. \A i \in DOMAIN file : file[i].id \in 1..made
      BY <1>2 DEF RowsWell
    <3> QED BY <3>1
  <2>2. Blank(rows)'
    BY <1>1, <1>3 DEF Blank
  <2> QED BY <1>1, <1>2, <1>3, <2>1, <2>2 DEF SessReading
<1> QED BY <1>1, <1>5, <1>6, <1>7, <1>8 DEF SessInv, FileRight, Ids

LEMMA SessInvNext == ASSUME SessInv, [SessNext]_sessVars PROVE SessInv' /\ [FileRight]_sessVars
<1>1. CASE UNCHANGED sessVars
  <2>1. UNCHANGED <<rows, made, hooks, binding, live, loading, corrupt, file, scan, deferred, owed, restarts>>
    BY <1>1 DEF sessVars
  <2>2. SessTypes' /\ SessLists' /\ SessBound'
    BY <2>1 DEF SessInv, SessTypes, SessLists, SessBound
  <2>3. SessReading'
    BY <2>1 DEF SessInv, SessReading, Blank
  <2>4. SessFiled' /\ SessUnsaved'
    BY <2>1 DEF SessInv, SessFiled, SessUnsaved
  <2> QED BY <1>1, <2>2, <2>3, <2>4 DEF SessInv
<1>2. CASE SessLoad
  BY <1>2, SessLoadKept
<1>3. CASE SessScanned
  BY <1>3, SessScannedKept
<1>4. CASE SessWrite
  BY <1>4, SessWriteKept
<1>5. CASE SessRefuse
  BY <1>5, SessRefuseKept
<1>6. CASE SessFlush
  BY <1>6, SessFlushKept
<1>7. CASE SessRestart
  BY <1>7, SessRestartKept
<1>8. CASE \E t \in SessTabs : SessDiscard(t) \/ SessDetach(t) \/ SessCreate(t, 0)
  BY <1>8, SessDiscardKept, SessDetachKept, SessCreateKept
<1>9. CASE \E t \in SessTabs, i \in Idx :
             \/ SessPrompt(t, i)
             \/ rows[i].prov # NoConv /\ rows[i].path # NoConv /\ SessCreate(t, i)
             \/ \E c \in Convs, whole \in BOOLEAN : SessIdentify(t, i, c, whole)
  <2> PICK t \in SessTabs, i \in Idx :
             \/ SessPrompt(t, i)
             \/ rows[i].prov # NoConv /\ rows[i].path # NoConv /\ SessCreate(t, i)
             \/ \E c \in Convs, whole \in BOOLEAN : SessIdentify(t, i, c, whole)
    BY <1>9
  <2>1. CASE SessPrompt(t, i)
    BY <2>1, SessPromptKept
  <2>2. CASE rows[i].prov # NoConv /\ rows[i].path # NoConv /\ SessCreate(t, i)
    BY <2>2, SessCreateKept
  <2>3. CASE \E c \in Convs, whole \in BOOLEAN : SessIdentify(t, i, c, whole)
    BY <2>3, SessIdentifyKept
  <2> QED BY <2>1, <2>2, <2>3
<1>10. CASE \E c \in Convs : SessImport(c)
  BY <1>10, SessImportKept
<1>11. CASE \E cs \in (SUBSET Convs) \ {{}} : SessScan(cs)
  BY <1>11, SessScanKept
<1> QED BY <1>1, <1>2, <1>3, <1>4, <1>5, <1>6, <1>7, <1>8, <1>9, <1>10, <1>11 DEF SessNext

\* Whatever is created, renamed, imported, written or lost in a crash, the ledger of
\* sessions has one card for a conversation, gives a terminal's hooks to its last row,
\* and keeps a write waiting as long as the file is not the ledger
\* (session-registry.ts:98-108, 189-222, 478-482, 641-643).
THEOREM SessAlwaysSafe == SessSpec => []SessSafe
<1>1. SessInit => SessInv
  BY SessInvInit
<1>2. SessInv /\ [SessNext]_sessVars => SessInv'
  BY SessInvNext
<1>3. SessInv => SessSafe
  BY SessInvSafe
<1> QED BY <1>1, <1>2, <1>3, PTL DEF SessSpec

\* No step takes from the file what a terminal left in it, as long as no more rows were
\* made than the ledger holds (session-registry.ts:190-198, 500).
THEOREM SessAlwaysKeeps == SessSpec => SessRowsKept
<1>1. SessInit => SessInv
  BY SessInvInit
<1>2. SessInv /\ [SessNext]_sessVars => SessInv'
  BY SessInvNext
<1>3. SessInv /\ [SessNext]_sessVars =>
        [\A i \in DOMAIN file : file[i].hook /\ file[i].kept =>
           file[i].id \in Ids(file') \/ made > RowLimit]_sessVars
  BY SessInvNext DEF FileRight
<1> QED BY <1>1, <1>2, <1>3, PTL DEF SessSpec, SessRowsKept

-----------------------------------------------------------------------------
(* The rows of a ledger, one for an id. *)
OneRowEach(list) == \A i, j \in DOMAIN list : list[i].id = list[j].id => i = j
LedgerRows(S) == [id : S, attempts : 0..MaxAttempts, left : 0..MaxAttempts]
Ledger(S) == {list \in Seq(LedgerRows(S)) : OneRowEach(list)}

LEMMA LedgerIs ==
  ASSUME NEW S, NEW list \in Ledger(S)
  PROVE  /\ list \in Seq(LedgerRows(S)) /\ DOMAIN list = 1..Len(list) /\ Len(list) \in Nat
         /\ OneRowEach(list) /\ RowIds(list) \subseteq S
         /\ \A i \in 1..Len(list) : list[i] \in LedgerRows(S)
<1>1. list \in Seq(LedgerRows(S)) /\ OneRowEach(list)
  BY DEF Ledger
<1>2. DOMAIN list = 1..Len(list) /\ Len(list) \in Nat /\ \A i \in 1..Len(list) : list[i] \in LedgerRows(S)
  BY <1>1
<1>3. RowIds(list) \subseteq S
  BY <1>2 DEF RowIds, LedgerRows
<1> QED BY <1>1, <1>2, <1>3

LEMMA LedgerCounts ==
  ASSUME NEW S, NEW list \in Ledger(S)
  PROVE  Cardinality(RowIds(list)) = Len(list)
<1>1. /\ DOMAIN list = 1..Len(list) /\ Len(list) \in Nat /\ OneRowEach(list)
  BY LedgerIs
<1> DEFINE f == [i \in 1..Len(list) |-> list[i].id]
<1>2. f \in Surjection(1..Len(list), RowIds(list))
  BY <1>1 DEF Surjection, RowIds
<1>3. f \in Injection(1..Len(list), RowIds(list))
  BY <1>1, <1>2 DEF Surjection, Injection, IsInjective, OneRowEach
<1>4. IsFiniteSet(1..Len(list)) /\ Cardinality(1..Len(list)) = Len(list)
  <2>1. 1 \in Int /\ Len(list) \in Int
    BY <1>1
  <2>2. IsFiniteSet(1..Len(list)) /\ Cardinality(1..Len(list)) = IF 1 > Len(list) THEN 0 ELSE Len(list) - 1 + 1
    BY <2>1, FS_Interval
  <2> QED BY <2>2, <1>1
<1> QED BY <1>2, <1>3, <1>4, FS_Surjection

LEMMA WithRowIs ==
  ASSUME NEW S, NEW list \in Ledger(S), NEW id \in S
  PROVE  WithRow(list, id) \in Ledger(S) /\ RowIds(WithRow(list, id)) = RowIds(list) \cup {id}
<1>1. /\ list \in Seq(LedgerRows(S)) /\ DOMAIN list = 1..Len(list) /\ Len(list) \in Nat /\ OneRowEach(list)
  BY LedgerIs
<1>2. CASE id \in RowIds(list)
  BY <1>2 DEF WithRow
<1>3. CASE id \notin RowIds(list)
  <2> DEFINE row == [id |-> id, attempts |-> 0, left |-> 0]
             grown == Append(list, row)
  <2>1. row \in LedgerRows(S)
    BY InboxAssumption DEF InboxAssumption, LedgerRows
  <2>2. /\ grown \in Seq(LedgerRows(S)) /\ Len(grown) = Len(list) + 1 /\ DOMAIN grown = 1..Len(list) + 1
        /\ \A i \in 1..Len(list) : grown[i] = list[i]
        /\ grown[Len(list) + 1] = row
    BY <1>1, <2>1
  <2>3. row.id = id /\ \A i \in 1..Len(list) : list[i].id # id
    BY <1>1, <1>3 DEF RowIds
  <2>4. \A i \in 1..Len(list) + 1 : i \in 1..Len(list) \/ i = Len(list) + 1
    BY <1>1
  <2> HIDE DEF row, grown
  <2>5. OneRowEach(grown)
    BY <1>1, <2>2, <2>3, <2>4 DEF OneRowEach
  <2>6. RowIds(grown) = RowIds(list) \cup {id}
    <3>1. Len(list) + 1 \in 1..Len(list) + 1 /\ 1..Len(list) \subseteq 1..Len(list) + 1
      BY <1>1
    <3> QED BY <1>1, <2>2, <2>3, <2>4, <3>1 DEF RowIds
  <2>7. WithRow(list, id) = grown
    BY <1>3 DEF WithRow, grown, row
  <2> QED BY <2>2, <2>5, <2>6, <2>7 DEF Ledger
<1> QED BY <1>2, <1>3

LEMMA WithoutRowIs ==
  ASSUME NEW S, NEW list \in Ledger(S), NEW id
  PROVE  WithoutRow(list, id) \in Ledger(S) /\ RowIds(WithoutRow(list, id)) = RowIds(list) \ {id}
<1>1. /\ list \in Seq(LedgerRows(S)) /\ DOMAIN list = 1..Len(list) /\ Len(list) \in Nat /\ OneRowEach(list)
  BY LedgerIs
<1> DEFINE I == {i \in DOMAIN list : list[i].id # id}
           left == Chosen(list, I)
<1>2. I \in SUBSET (1..Len(list))
  BY <1>1
<1>3. /\ left \in Seq(LedgerRows(S)) /\ Len(left) = Cardinality(I) /\ Cardinality(I) \in Nat
      /\ \A n \in 1..Cardinality(I) : Nth(I, n) \in I /\ left[n] = list[Nth(I, n)]
      /\ \A m, n \in 1..Cardinality(I) : m < n => Nth(I, m) < Nth(I, n)
      /\ \A i \in I : \E n \in 1..Cardinality(I) : Nth(I, n) = i
  <2> HIDE DEF I
  <2> QED BY <1>1, <1>2, ChosenIs
<1>4. DOMAIN left = 1..Cardinality(I)
  BY <1>3
<1>5. WithoutRow(list, id) = left
  BY DEF WithoutRow
<1>6. \A i \in I : i \in 1..Len(list) /\ list[i].id # id
  BY <1>1
<1>7. \A i \in 1..Len(list) : list[i].id # id => i \in I
  BY <1>1
<1> HIDE DEF I, left
<1>8. OneRowEach(left)
  <2> SUFFICES ASSUME NEW m \in 1..Cardinality(I), NEW n \in 1..Cardinality(I), left[m].id = left[n].id
               PROVE  m = n
    BY <1>4 DEF OneRowEach
  <2>1. Nth(I, m) = Nth(I, n) /\ Nth(I, m) \in Nat
    BY <1>1, <1>3, <1>6 DEF OneRowEach
  <2>2. m \in Nat /\ n \in Nat /\ (m < n \/ n < m \/ m = n)
    BY <1>3
  <2>3. ~(m < n) /\ ~(n < m)
    BY <1>3, <2>1
  <2> QED BY <2>2, <2>3
<1>9. RowIds(left) = RowIds(list) \ {id}
  <2>1. ASSUME NEW x \in RowIds(left) PROVE x \in RowIds(list) \ {id}
    <3>1. PICK n \in 1..Cardinality(I) : x = left[n].id
      BY <1>4 DEF RowIds
    <3> QED BY <1>1, <1>3, <1>6, <3>1 DEF RowIds
  <2>2. ASSUME NEW x \in RowIds(list), x # id PROVE x \in RowIds(left)
    <3>1. PICK i \in 1..Len(list) : x = list[i].id
      BY <1>1 DEF RowIds
    <3>2. PICK n \in 1..Cardinality(I) : Nth(I, n) = i
      BY <1>3, <1>7, <2>2, <3>1
    <3> QED BY <1>3, <1>4, <3>1, <3>2 DEF RowIds
  <2> QED BY <2>1, <2>2
<1> QED BY <1>3, <1>5, <1>8, <1>9 DEF Ledger

LEMMA BackedOffIs ==
  ASSUME NEW S, NEW list \in Ledger(S), NEW id
  PROVE  BackedOff(list, id) \in Ledger(S) /\ RowIds(BackedOff(list, id)) = RowIds(list)
<1>1. /\ DOMAIN list = 1..Len(list) /\ Len(list) \in Nat /\ OneRowEach(list) /\ MaxAttempts \in Nat \ {0}
      /\ \A i \in 1..Len(list) : list[i] \in LedgerRows(S)
  BY LedgerIs, InboxAssumption DEF InboxAssumption
<1> DEFINE back == BackedOff(list, id)
<1>2. ASSUME NEW i \in 1..Len(list) PROVE back[i] \in LedgerRows(S) /\ back[i].id = list[i].id
  <2>1. list[i] \in LedgerRows(S) /\ list[i].id \in S /\ list[i].attempts \in 0..MaxAttempts
    BY <1>1 DEF LedgerRows
  <2>2. AtMostAttempts(list[i].attempts + 1) \in 0..MaxAttempts
    BY <1>1, <2>1 DEF AtMostAttempts
  <2>3. \/ back[i] = list[i]
        \/ back[i] = [id |-> list[i].id, attempts |-> AtMostAttempts(list[i].attempts + 1),
                      left |-> AtMostAttempts(list[i].attempts + 1)]
    BY <1>1 DEF BackedOff
  <2> QED BY <2>1, <2>2, <2>3 DEF LedgerRows
<1>3. DOMAIN back = 1..Len(list) /\ back = [i \in 1..Len(list) |-> back[i]]
  BY <1>1 DEF BackedOff
<1> HIDE DEF back
<1>4. back \in Seq(LedgerRows(S)) /\ Len(back) = Len(list)
  BY <1>1, <1>2, <1>3
<1>5. OneRowEach(back)
  BY <1>1, <1>2, <1>3 DEF OneRowEach
<1>6. RowIds(back) = RowIds(list)
  BY <1>1, <1>2, <1>3 DEF RowIds
<1> QED BY <1>4, <1>5, <1>6 DEF Ledger, back

LEMMA AgedIs ==
  ASSUME NEW S, NEW list \in Ledger(S)
  PROVE  Aged(list) \in Ledger(S) /\ RowIds(Aged(list)) = RowIds(list)
<1>1. /\ DOMAIN list = 1..Len(list) /\ Len(list) \in Nat /\ OneRowEach(list) /\ MaxAttempts \in Nat \ {0}
      /\ \A i \in 1..Len(list) : list[i] \in LedgerRows(S)
  BY LedgerIs, InboxAssumption DEF InboxAssumption
<1> DEFINE aged == Aged(list)
<1>2. ASSUME NEW i \in 1..Len(list) PROVE aged[i] \in LedgerRows(S) /\ aged[i].id = list[i].id
  <2>1. list[i] \in LedgerRows(S) /\ list[i].left \in 0..MaxAttempts
    BY <1>1 DEF LedgerRows
  <2>2. (IF list[i].left = 0 THEN 0 ELSE list[i].left - 1) \in 0..MaxAttempts
    BY <1>1, <2>1
  <2>3. aged[i] = [list[i] EXCEPT !.left = IF @ = 0 THEN 0 ELSE @ - 1]
    BY <1>1 DEF Aged
  <2> QED BY <2>1, <2>2, <2>3 DEF LedgerRows
<1>3. DOMAIN aged = 1..Len(list) /\ aged = [i \in 1..Len(list) |-> aged[i]]
  BY <1>1 DEF Aged
<1> HIDE DEF aged
<1>4. aged \in Seq(LedgerRows(S)) /\ Len(aged) = Len(list)
  BY <1>1, <1>2, <1>3
<1>5. OneRowEach(aged)
  BY <1>1, <1>2, <1>3 DEF OneRowEach
<1>6. RowIds(aged) = RowIds(list)
  BY <1>1, <1>2, <1>3 DEF RowIds
<1> QED BY <1>4, <1>5, <1>6 DEF Ledger, aged

LEMMA DueRowsIs ==
  ASSUME NEW S, NEW list \in Ledger(S), NEW limit \in Nat
  PROVE  DueRows(list, limit) \in Seq(S)
<1>1. /\ list \in Seq(LedgerRows(S)) /\ DOMAIN list = 1..Len(list) /\ Len(list) \in Nat
  BY LedgerIs
<1> DEFINE I == {i \in DOMAIN list : list[i].left = 0}
           due == Chosen(list, I)
           n == IF Len(due) < limit THEN Len(due) ELSE limit
<1>2. I \in SUBSET (1..Len(list))
  BY <1>1
<1>3. due \in Seq(LedgerRows(S))
  <2> HIDE DEF I
  <2> QED BY <1>1, <1>2, ChosenIs
<1>4. DueRows(list, limit) = [i \in 1..n |-> due[i].id]
  BY DEF DueRows
<1> HIDE DEF due, I
<1>5. n \in Nat /\ \A i \in 1..n : due[i].id \in S
  <2>1. Len(due) \in Nat /\ n \in Nat /\ n <= Len(due)
    BY <1>3
  <2>2. \A i \in 1..Len(due) : due[i].id \in S
    <3>1. \A i \in 1..Len(due) : due[i] \in LedgerRows(S)
      BY <1>3
    <3> QED BY <3>1 DEF LedgerRows
  <2> QED BY <2>1, <2>2
<1> HIDE DEF n
<1> QED BY <1>4, <1>5

-----------------------------------------------------------------------------
Batches == (SUBSET Events) \ {{}}
InboxTasks ==
  [kind : {"idle", "recorder", "recovery", "drain"}, todo : Seq(Batches), open : BOOLEAN,
   events : SUBSET Events]
RecoveryTasks ==
  [kind : {"idle", "submit", "drain"}, todo : Seq(Turns), at : {"open", "read", "sent"},
   complete : BOOLEAN]

\* An operation has a row under way, or there is none.
InboxTypes ==
  /\ inbox \in Ledger(Batches) /\ enabled \in BOOLEAN
  /\ evidence \subseteq Events /\ declined \subseteq Events
  /\ inboxTask \in InboxTasks /\ reply \in {"none", "ok", "failed"} /\ faults \in 0..MaxFaults
  /\ inboxTask.kind = "idle" => inboxTask = InboxIdle
  /\ inboxTask.kind # "idle" => inboxTask.todo # <<>>
RecoveryTypes ==
  /\ recovery \in Ledger(Turns) /\ revoked \subseteq Turns
  /\ readings \in [Turns -> {"missing", "partial", "complete"}]
  /\ recoveryTask \in RecoveryTasks
  /\ recoveryTask.kind = "idle" => recoveryTask = RecoveryIdle
  /\ recoveryTask.kind # "idle" => recoveryTask.todo # <<>>

\* All of a batch is still to be captured, stored, or was kept out.
RowAccounted ==
  inboxTask.open => Head(inboxTask.todo) \subseteq inboxTask.events \cup evidence \cup declined

\* While the inbox delivers what recovery has sent, recovery waits with that very turn.
Sending ==
  inboxTask.kind = "recovery" =>
    /\ RecoveryAt("sent") /\ reply = "none" /\ Len(inboxTask.todo) = 1
    /\ recoveryTask.complete => Whole[RecoveryTurn] \subseteq declined \cup Head(inboxTask.todo)

\* An answer is for the turn that waits for it: what was acknowledged is stored.
AnswerTrue ==
  reply # "none" =>
    /\ RecoveryAt("sent") /\ inboxTask.kind # "recovery"
    /\ reply = "ok" /\ recoveryTask.complete => Whole[RecoveryTurn] \subseteq evidence \cup declined

RecoveryInv == InboxTypes /\ RecoveryTypes /\ RowAccounted /\ Sending /\ AnswerTrue

\* What a row may leave the inbox for, and a turn the ledger of recovery.
InboxRight == \A id \in RowIds(inbox) \ RowIds(inbox') : id \subseteq evidence' \cup declined'
RecoveryRight ==
  \A t \in RowIds(recovery) \ RowIds(recovery') :
    t \in revoked \/ Whole[t] \subseteq evidence \cup declined \cup UNION RowIds(inbox)
LedgersRight == InboxRight /\ RecoveryRight

LEMMA RecoveryInvSafe == RecoveryInv => RecoveryTypeOK
<1> SUFFICES ASSUME RecoveryInv PROVE RecoveryTypeOK
  OBVIOUS
<1>1. InboxTypes /\ RecoveryTypes
  BY DEF RecoveryInv
<1>2. InboxTypeOK
  <2>1. /\ DOMAIN inbox = 1..Len(inbox) /\ \A i \in 1..Len(inbox) : inbox[i] \in LedgerRows(Batches)
    BY <1>1, LedgerIs DEF InboxTypes
  <2>2. \A i \in DOMAIN inbox :
          /\ inbox[i].id \in (SUBSET Events) \ {{}}
          /\ inbox[i].attempts \in 0..MaxAttempts /\ inbox[i].left \in 0..MaxAttempts
    BY <2>1 DEF LedgerRows, Batches
  <2>3. Cardinality(RowIds(inbox)) = Len(inbox)
    BY <1>1, LedgerCounts DEF InboxTypes
  <2> QED BY <1>1, <2>2, <2>3 DEF InboxTypes, InboxTypeOK, InboxTasks
<1>3. RowIds(recovery) \subseteq Turns /\ Cardinality(RowIds(recovery)) = Len(recovery)
  BY <1>1, LedgerIs, LedgerCounts DEF RecoveryTypes
<1>4. RecoveryTurn \in Turns \cup {NoTurn}
  BY <1>1 DEF RecoveryTypes, RecoveryTurn, RecoveryFree, RecoveryTasks
<1> QED BY <1>1, <1>2, <1>3, <1>4 DEF RecoveryTypes, RecoveryTypeOK

LEMMA RecoveryInvInit == RecoveryInit => RecoveryInv
<1> SUFFICES ASSUME RecoveryInit PROVE RecoveryInv
  OBVIOUS
<1>1. <<>> \in Ledger(Batches) /\ <<>> \in Ledger(Turns)
  <2>1. \A S : <<>> \in Seq(LedgerRows(S)) /\ DOMAIN <<>> = {}
    OBVIOUS
  <2> QED BY <2>1 DEF Ledger, OneRowEach
<1>2. InboxTypes
  BY <1>1, InboxAssumption DEF RecoveryInit, InboxInit, InboxTypes, InboxIdle, InboxTasks, InboxAssumption
<1>3. RecoveryTypes
  BY <1>1 DEF RecoveryInit, RecoveryTypes, RecoveryIdle, RecoveryTasks
<1>4. RowAccounted /\ Sending /\ AnswerTrue
  BY DEF RecoveryInit, InboxInit, InboxIdle, RowAccounted, Sending, AnswerTrue
<1> QED BY <1>2, <1>3, <1>4 DEF RecoveryInv

LEMMA SomethingToDo ==
  ASSUME NEW S, NEW s \in Seq(S), s # <<>>
  PROVE  /\ Len(s) \in Nat \ {0} /\ Head(s) \in S /\ Tail(s) \in Seq(S)
         /\ Len(s) # 1 => Tail(s) # <<>>
<1>1. Len(s) \in Nat \ {0} /\ Head(s) \in S /\ Tail(s) \in Seq(S) /\ Len(Tail(s)) = Len(s) - 1
  OBVIOUS
<1> QED BY <1>1

\* Between operations there is nothing to answer for, and an operation has a first row.
LEMMA InboxUnderWay ==
  ASSUME InboxTypes
  PROVE  /\ inboxTask.open => inboxTask.kind # "idle"
         /\ inboxTask.kind # "idle" =>
              /\ Len(inboxTask.todo) \in Nat \ {0} /\ Head(inboxTask.todo) \in Batches
              /\ Tail(inboxTask.todo) \in Seq(Batches)
              /\ Len(inboxTask.todo) # 1 => Tail(inboxTask.todo) # <<>>
<1>1. inboxTask.open => inboxTask.kind # "idle"
  BY DEF InboxTypes, InboxIdle
<1>2. inboxTask.todo \in Seq(Batches) /\ (inboxTask.kind # "idle" => inboxTask.todo # <<>>)
  BY DEF InboxTypes, InboxTasks
<1> QED BY <1>1, <1>2, SomethingToDo

LEMMA RecoveryUnderWay ==
  ASSUME RecoveryTypes, ~RecoveryFree
  PROVE  /\ Len(recoveryTask.todo) \in Nat \ {0} /\ RecoveryTurn \in Turns
         /\ RecoveryTurn = Head(recoveryTask.todo)
         /\ Tail(recoveryTask.todo) \in Seq(Turns)
         /\ Len(recoveryTask.todo) # 1 => Tail(recoveryTask.todo) # <<>>
<1>1. recoveryTask.todo \in Seq(Turns) /\ recoveryTask.todo # <<>>
  BY DEF RecoveryTypes, RecoveryTasks, RecoveryFree
<1>2. RecoveryTurn = Head(recoveryTask.todo)
  BY DEF RecoveryTurn
<1> QED BY <1>1, <1>2, SomethingToDo

\* Recovery waits, and the inbox goes on: what is stored or kept out stays so.
LEMMA RecoveryWaits ==
  ASSUME RecoveryInv, UNCHANGED recoveryVars, InboxTypes', RowAccounted',
         evidence \subseteq evidence', declined \subseteq declined', InboxRight,
         inboxTask'.kind = "recovery" =>
           /\ inboxTask.kind = "recovery" /\ reply' = reply /\ inboxTask'.todo = inboxTask.todo,
         reply' = reply
  PROVE  RecoveryInv' /\ LedgersRight
<1>1. RecoveryTypes' /\ RecoveryRight
  BY DEF RecoveryInv, RecoveryTypes, recoveryVars, RecoveryRight
<1>2. /\ RecoveryAt("sent")' <=> RecoveryAt("sent")
      /\ RecoveryTurn' = RecoveryTurn /\ recoveryTask' = recoveryTask
  BY DEF recoveryVars, RecoveryAt, RecoveryFree, RecoveryTurn
<1>3. Sending'
  BY <1>2 DEF RecoveryInv, Sending
<1>4. reply' # "none" => inboxTask.kind # "recovery" /\ inboxTask'.kind # "recovery"
  BY DEF RecoveryInv, AnswerTrue
<1>5. AnswerTrue'
  BY <1>2, <1>4 DEF RecoveryInv, AnswerTrue
<1> QED BY <1>1, <1>3, <1>5 DEF RecoveryInv, LedgersRight

\* The next row of an operation of the inbox.
LEMMA InboxNextIs ==
  ASSUME InboxTypes, inboxTask.kind # "idle", inboxTask' = InboxNextRow(inboxTask)
  PROVE  /\ inboxTask' \in InboxTasks /\ ~inboxTask'.open
         /\ inboxTask'.kind = "idle" => inboxTask' = InboxIdle
         /\ inboxTask'.kind # "idle" => inboxTask'.todo # <<>>
         /\ inboxTask'.kind # "idle" => inboxTask'.kind = inboxTask.kind /\ Len(inboxTask.todo) # 1
<1>1. /\ Len(inboxTask.todo) \in Nat \ {0} /\ Tail(inboxTask.todo) \in Seq(Batches)
      /\ Len(inboxTask.todo) # 1 => Tail(inboxTask.todo) # <<>>
      /\ inboxTask \in InboxTasks
  BY InboxUnderWay DEF InboxTypes
<1>2. CASE Len(inboxTask.todo) = 1
  <2>1. inboxTask' = InboxIdle
    BY <1>2 DEF InboxNextRow
  <2> QED BY <2>1 DEF InboxIdle, InboxTasks
<1>3. CASE Len(inboxTask.todo) # 1
  <2>1. inboxTask' = [inboxTask EXCEPT !.todo = Tail(@), !.open = FALSE, !.events = {}]
    BY <1>3 DEF InboxNextRow
  <2>2. inboxTask' = [kind |-> inboxTask.kind, todo |-> Tail(inboxTask.todo), open |-> FALSE, events |-> {}]
    BY <1>1, <2>1 DEF InboxTasks
  <2>3. inboxTask' \in InboxTasks
    BY <1>1, <2>2 DEF InboxTasks
  <2> QED BY <1>1, <1>3, <2>2, <2>3
<1> QED BY <1>2, <1>3

\* A batch comes to the inbox: it is answered at once, or its row is under way.
LEMMA SubmitIs ==
  ASSUME InboxTypes, RowAccounted, NEW batch \in SUBSET Events, NEW kind \in {"recorder", "recovery"},
         InboxSubmit(batch, kind)
  PROVE  /\ InboxTypes' /\ RowAccounted' /\ evidence' = evidence /\ declined \subseteq declined' /\ InboxRight
         /\ RowIds(inbox) \subseteq RowIds(inbox')
         /\ kind # "recovery" => reply' = reply
         /\ \/ inboxTask' = inboxTask /\ (kind = "recovery" => reply' = "ok" /\ batch \subseteq declined')
            \/ /\ inboxTask.kind = "idle" /\ inboxTask'.kind = kind /\ Len(inboxTask'.todo) = 1
               /\ batch \subseteq declined' \cup Head(inboxTask'.todo) /\ reply' = reply
            \/ /\ inboxTask.kind = "idle" /\ inboxTask' = inboxTask /\ (kind = "recovery" => reply' = "failed")
<1> DEFINE id == Filtered(batch)
<1>0. /\ id \subseteq batch /\ declined' = declined \cup (batch \ id)
      /\ evidence' = evidence /\ enabled' = enabled
  BY DEF InboxSubmit, Filtered
<1>1. batch \subseteq declined' \cup id /\ declined \subseteq declined' /\ declined' \subseteq Events
  BY <1>0 DEF InboxTypes
<1>2. CASE /\ id = {} /\ InboxReplies(kind, "ok")
           /\ UNCHANGED <<inbox, inboxTask, faults>>
  <2>1. reply' \in {"none", "ok", "failed"} /\ (kind # "recovery" => reply' = reply) /\ (kind = "recovery" => reply' = "ok")
    BY <1>2 DEF InboxReplies, InboxTypes
  <2>2. InboxTypes' /\ RowAccounted'
    BY <1>0, <1>1, <1>2, <2>1 DEF InboxTypes, RowAccounted
  <2> QED BY <1>0, <1>1, <1>2, <2>1, <2>2 DEF InboxRight
<1>3. CASE /\ id # {} /\ InboxFree
           /\ inbox' = WithRow(inbox, id)
           /\ inboxTask' = [kind |-> kind, todo |-> <<id>>, open |-> FALSE, events |-> {}]
           /\ UNCHANGED <<reply, faults>>
  <2>1. id \in Batches /\ inbox \in Ledger(Batches)
    <3> HIDE DEF id
    <3>1. id \subseteq Events /\ id # {}
      BY <1>0, <1>3
    <3>2. id \in Batches
      BY <3>1 DEF Batches
    <3>3. inbox \in Ledger(Batches)
      BY DEF InboxTypes
    <3> QED BY <3>2, <3>3
  <2>2. inbox' \in Ledger(Batches) /\ RowIds(inbox') = RowIds(inbox) \cup {id}
    BY <1>3, <2>1, WithRowIs
  <2> HIDE DEF id
  <2>3. /\ <<id>> \in Seq(Batches) /\ Len(<<id>>) = 1 /\ Head(<<id>>) = id /\ <<id>> # <<>>
    BY <2>1
  <2>4. /\ inboxTask' \in InboxTasks /\ inboxTask'.kind = kind /\ inboxTask'.todo = <<id>> /\ ~inboxTask'.open
    BY <1>3, <2>3 DEF InboxTasks
  <2>5. kind # "idle"
    OBVIOUS
  <2>6. InboxTypes' /\ RowAccounted'
    BY <1>0, <1>1, <1>3, <2>2, <2>3, <2>4, <2>5 DEF InboxTypes, RowAccounted
  <2> QED BY <1>0, <1>1, <1>3, <2>2, <2>3, <2>4, <2>6 DEF InboxRight, InboxFree
<1>4. CASE /\ id # {} /\ id \notin RowIds(inbox) /\ InboxFree /\ Fault
           /\ InboxReplies(kind, "failed")
           /\ UNCHANGED <<inbox, inboxTask>>
  <2>1. reply' \in {"none", "ok", "failed"} /\ (kind # "recovery" => reply' = reply) /\ (kind = "recovery" => reply' = "failed")
    BY <1>4 DEF InboxReplies, InboxTypes
  <2>2. faults' \in 0..MaxFaults
    BY <1>4, InboxAssumption DEF Fault, InboxTypes, InboxAssumption
  <2>3. InboxTypes' /\ RowAccounted'
    BY <1>0, <1>1, <1>4, <2>1, <2>2 DEF InboxTypes, RowAccounted
  <2> QED BY <1>0, <1>1, <1>4, <2>1, <2>3 DEF InboxRight, InboxFree
<1> QED BY <1>2, <1>3, <1>4 DEF InboxSubmit

LEMMA RecorderKept ==
  ASSUME RecoveryInv, InboxSubmit(Recorded, "recorder"), UNCHANGED recoveryVars
  PROVE  RecoveryInv' /\ LedgersRight
<1>1. Recorded \in SUBSET Events /\ InboxTypes /\ RowAccounted
  BY RecoveryAssumption DEF RecoveryAssumption, RecoveryInv
<1>2. /\ InboxTypes' /\ RowAccounted' /\ evidence' = evidence /\ declined \subseteq declined' /\ InboxRight
      /\ reply' = reply
      /\ inboxTask' = inboxTask \/ inboxTask'.kind = "recorder"
  BY <1>1, SubmitIs
<1> QED BY <1>2, RecoveryWaits

LEMMA InboxDrainKept ==
  ASSUME RecoveryInv, InboxDrain, UNCHANGED recoveryVars
  PROVE  RecoveryInv' /\ LedgersRight
<1>1. InboxTypes /\ InboxLimit \in Nat
  BY InboxAssumption DEF RecoveryInv, InboxAssumption
<1>2. DueRows(inbox, InboxLimit) \in Seq(Batches)
  BY <1>1, DueRowsIs DEF InboxTypes
<1>3. /\ inboxTask' \in InboxTasks /\ inboxTask'.kind = "drain" /\ ~inboxTask'.open /\ inboxTask'.todo # <<>>
      /\ UNCHANGED <<inbox, evidence, enabled, reply, faults, declined>>
  BY <1>2 DEF InboxDrain, InboxTasks
<1>4. InboxTypes' /\ RowAccounted' /\ InboxRight
  BY <1>1, <1>3 DEF InboxTypes, RowAccounted, InboxRight
<1> QED BY <1>3, <1>4, RecoveryWaits

LEMMA InboxOpenKept ==
  ASSUME RecoveryInv, InboxOpen, UNCHANGED recoveryVars
  PROVE  RecoveryInv' /\ LedgersRight
<1>1. InboxTypes /\ inboxTask.kind # "idle"
  BY DEF RecoveryInv, InboxOpen, InboxFree
<1>2. Head(inboxTask.todo) \in Batches
  BY <1>1, InboxUnderWay
<1> DEFINE id == Head(inboxTask.todo)
<1>3. /\ inboxTask' = [inboxTask EXCEPT !.open = TRUE, !.events = Filtered(id)]
      /\ declined' = declined \cup (id \ Filtered(id))
      /\ UNCHANGED <<inbox, evidence, enabled, reply, faults>>
  BY DEF InboxOpen
<1>4. Filtered(id) \subseteq id /\ id \subseteq Events
  BY <1>2 DEF Filtered, Batches
<1>5. inboxTask' = [kind |-> inboxTask.kind, todo |-> inboxTask.todo, open |-> TRUE, events |-> Filtered(id)]
  BY <1>1, <1>3 DEF InboxTypes, InboxTasks
<1>6. inboxTask' \in InboxTasks /\ inboxTask'.kind = inboxTask.kind /\ inboxTask'.todo = inboxTask.todo
      /\ inboxTask'.events = Filtered(id)
  BY <1>1, <1>4, <1>5 DEF InboxTypes, InboxTasks
<1>7. InboxTypes'
  BY <1>1, <1>3, <1>4, <1>6 DEF InboxTypes
<1>8. RowAccounted'
  BY <1>3, <1>6 DEF RowAccounted
<1>9. InboxRight /\ declined \subseteq declined' /\ evidence \subseteq evidence'
  BY <1>3 DEF InboxRight
<1> QED BY <1>3, <1>6, <1>7, <1>8, <1>9, RecoveryWaits

LEMMA InboxCaptureKept ==
  ASSUME RecoveryInv, NEW e \in Events, InboxCapture(e), UNCHANGED recoveryVars
  PROVE  RecoveryInv' /\ LedgersRight
<1>1. InboxTypes /\ RowAccounted /\ inboxTask.open /\ inboxTask.kind # "idle"
  BY InboxUnderWay DEF RecoveryInv, InboxCapture
<1>2. /\ evidence' = evidence \cup {e}
      /\ inboxTask' = [inboxTask EXCEPT !.events = @ \ {e}]
      /\ UNCHANGED <<inbox, enabled, reply, faults, declined>>
  BY DEF InboxCapture
<1>3. /\ inboxTask' \in InboxTasks /\ inboxTask'.kind = inboxTask.kind /\ inboxTask'.todo = inboxTask.todo
      /\ inboxTask'.events = inboxTask.events \ {e} /\ inboxTask'.open
  BY <1>1, <1>2 DEF InboxTypes, InboxTasks
<1>4. InboxTypes'
  BY <1>1, <1>2, <1>3 DEF InboxTypes
<1>5. RowAccounted'
  BY <1>1, <1>2, <1>3 DEF RowAccounted
<1>6. InboxRight /\ evidence \subseteq evidence'
  BY <1>2 DEF InboxRight
<1> QED BY <1>2, <1>3, <1>4, <1>5, <1>6, RecoveryWaits

\* The inbox is through with a row.
LEMMA InboxAnswers ==
  ASSUME RecoveryInv, UNCHANGED recoveryVars, inboxTask.open, NEW answer \in {"ok", "failed"},
         InboxAnswer(answer), inbox' \in Ledger(Batches), faults' \in 0..MaxFaults,
         UNCHANGED <<evidence, enabled, declined>>,
         answer = "ok" => Head(inboxTask.todo) \subseteq evidence \cup declined,
         InboxRight
  PROVE  RecoveryInv' /\ LedgersRight
<1>1. InboxTypes /\ RecoveryTypes /\ Sending /\ AnswerTrue /\ inboxTask.kind # "idle"
  BY InboxUnderWay DEF RecoveryInv
<1>2. inboxTask' = InboxNextRow(inboxTask) /\ reply' = IF inboxTask.kind = "recovery" THEN answer ELSE reply
  BY DEF InboxAnswer, InboxReplies
<1>3. /\ inboxTask' \in InboxTasks /\ ~inboxTask'.open
      /\ inboxTask'.kind = "idle" => inboxTask' = InboxIdle
      /\ inboxTask'.kind # "idle" => inboxTask'.todo # <<>>
      /\ inboxTask'.kind # "idle" => inboxTask'.kind = inboxTask.kind /\ Len(inboxTask.todo) # 1
  BY <1>1, <1>2, InboxNextIs
<1>4. InboxTypes' /\ RowAccounted'
  BY <1>1, <1>2, <1>3 DEF InboxTypes, RowAccounted
<1>5. /\ RecoveryAt("sent")' <=> RecoveryAt("sent")
      /\ RecoveryTurn' = RecoveryTurn /\ recoveryTask' = recoveryTask
  BY DEF recoveryVars, RecoveryAt, RecoveryFree, RecoveryTurn
<1>6. RecoveryTypes' /\ RecoveryRight
  BY <1>1 DEF RecoveryTypes, recoveryVars, RecoveryRight
<1>7. inboxTask'.kind # "recovery"
  BY <1>1, <1>3 DEF Sending
<1>8. Sending'
  BY <1>7 DEF Sending
<1>9. AnswerTrue'
  <2>1. CASE inboxTask.kind = "recovery"
    BY <1>1, <1>2, <1>5, <1>7, <2>1 DEF Sending, AnswerTrue
  <2>2. CASE inboxTask.kind # "recovery"
    BY <1>1, <1>2, <1>5, <1>7, <2>2 DEF AnswerTrue
  <2> QED BY <2>1, <2>2
<1> QED BY <1>4, <1>6, <1>8, <1>9 DEF RecoveryInv, LedgersRight

LEMMA InboxAckKept ==
  ASSUME RecoveryInv, InboxAck, UNCHANGED recoveryVars
  PROVE  RecoveryInv' /\ LedgersRight
<1>1. /\ inboxTask.open /\ inboxTask.events = {} /\ inbox' = WithoutRow(inbox, Head(inboxTask.todo))
      /\ InboxAnswer("ok") /\ UNCHANGED <<evidence, enabled, faults, declined>>
  BY DEF InboxAck
<1>2. Head(inboxTask.todo) \subseteq evidence \cup declined
  BY <1>1 DEF RecoveryInv, RowAccounted
<1>3. inbox' \in Ledger(Batches) /\ RowIds(inbox') = RowIds(inbox) \ {Head(inboxTask.todo)}
  BY <1>1, WithoutRowIs DEF RecoveryInv, InboxTypes
<1>4. InboxRight
  BY <1>1, <1>2, <1>3 DEF InboxRight
<1>5. faults' \in 0..MaxFaults
  BY <1>1 DEF RecoveryInv, InboxTypes
<1> QED BY <1>1, <1>2, <1>3, <1>4, <1>5, InboxAnswers

LEMMA InboxFailsKept ==
  ASSUME RecoveryInv, InboxFails, UNCHANGED recoveryVars
  PROVE  RecoveryInv' /\ LedgersRight
<1>1. /\ inboxTask.open /\ Fault /\ inbox' \in {BackedOff(inbox, Head(inboxTask.todo)), inbox}
      /\ InboxAnswer("failed") /\ UNCHANGED <<evidence, enabled, declined>>
  BY DEF InboxFails
<1>2. inbox' \in Ledger(Batches) /\ RowIds(inbox') = RowIds(inbox)
  BY <1>1, BackedOffIs DEF RecoveryInv, InboxTypes
<1>3. faults' \in 0..MaxFaults
  BY <1>1, InboxAssumption DEF RecoveryInv, InboxTypes, Fault, InboxAssumption
<1>4. InboxRight
  BY <1>2 DEF InboxRight
<1> QED BY <1>1, <1>2, <1>3, <1>4, InboxAnswers

LEMMA InboxPolicyKept ==
  ASSUME RecoveryInv, InboxPolicy, UNCHANGED recoveryVars
  PROVE  RecoveryInv' /\ LedgersRight
<1>1. /\ Fault /\ enabled' = ~enabled /\ UNCHANGED <<inbox, evidence, inboxTask, reply, declined>>
  BY DEF InboxPolicy
<1>2. faults' \in 0..MaxFaults
  BY <1>1, InboxAssumption DEF RecoveryInv, InboxTypes, Fault, InboxAssumption
<1>3. InboxTypes' /\ RowAccounted' /\ InboxRight
  BY <1>1, <1>2 DEF RecoveryInv, InboxTypes, RowAccounted, InboxRight
<1> QED BY <1>1, <1>3, RecoveryWaits

\* Only recovery moves, and the answer it waits for is there no more, if it was.
LEMMA InboxWaits ==
  ASSUME RecoveryInv, UNCHANGED <<inbox, evidence, enabled, inboxTask, declined>>,
         faults' \in 0..MaxFaults, RecoveryTypes', RecoveryRight,
         \/ reply' = "none" /\ inboxTask.kind # "recovery"
         \/ reply' = reply /\ UNCHANGED recoveryTask
         \/ reply' = reply /\ ~RecoveryAt("sent")
  PROVE  RecoveryInv' /\ LedgersRight
<1>1. InboxTypes' /\ RowAccounted' /\ InboxRight
  BY DEF RecoveryInv, InboxTypes, RowAccounted, InboxRight
<1>2. Sending' /\ AnswerTrue'
  <2>1. CASE reply' = "none" /\ inboxTask.kind # "recovery"
    BY <2>1 DEF Sending, AnswerTrue
  <2>2. CASE reply' = reply /\ UNCHANGED recoveryTask
    <3>1. /\ RecoveryAt("sent")' <=> RecoveryAt("sent")
          /\ RecoveryTurn' = RecoveryTurn
      BY <2>2 DEF RecoveryAt, RecoveryFree, RecoveryTurn
    <3> QED BY <2>2, <3>1 DEF RecoveryInv, Sending, AnswerTrue
  <2>3. CASE reply' = reply /\ ~RecoveryAt("sent")
    <3>1. reply = "none" /\ inboxTask.kind # "recovery"
      BY <2>3 DEF RecoveryInv, Sending, AnswerTrue
    <3> QED BY <2>3, <3>1 DEF Sending, AnswerTrue
  <2> QED BY <2>1, <2>2, <2>3
<1> QED BY <1>1, <1>2 DEF RecoveryInv, LedgersRight

LEMMA RecoveryNextIs ==
  ASSUME RecoveryTypes, ~RecoveryFree, RecoveryNextRow
  PROVE  /\ recoveryTask' \in RecoveryTasks
         /\ recoveryTask'.kind = "idle" => recoveryTask' = RecoveryIdle
         /\ recoveryTask'.kind # "idle" => recoveryTask'.todo # <<>>
<1>1. /\ Len(recoveryTask.todo) \in Nat \ {0} /\ Tail(recoveryTask.todo) \in Seq(Turns)
      /\ Len(recoveryTask.todo) # 1 => Tail(recoveryTask.todo) # <<>>
      /\ recoveryTask \in RecoveryTasks
  BY RecoveryUnderWay DEF RecoveryTypes
<1>2. CASE Len(recoveryTask.todo) = 1
  BY <1>2 DEF RecoveryNextRow, RecoveryIdle, RecoveryTasks
<1>3. CASE Len(recoveryTask.todo) # 1
  <2>1. recoveryTask' = [recoveryTask EXCEPT !.todo = Tail(@), !.at = "open"]
    BY <1>3 DEF RecoveryNextRow
  <2>2. recoveryTask' = [kind |-> recoveryTask.kind, todo |-> Tail(recoveryTask.todo), at |-> "open",
                         complete |-> recoveryTask.complete]
    BY <1>1, <2>1 DEF RecoveryTasks
  <2>3. recoveryTask' \in RecoveryTasks
    BY <1>1, <2>2 DEF RecoveryTasks
  <2>4. recoveryTask'.kind = recoveryTask.kind /\ recoveryTask'.todo = Tail(recoveryTask.todo)
    BY <2>2
  <2> QED BY <1>1, <1>3, <2>3, <2>4 DEF RecoveryFree
<1> QED BY <1>2, <1>3

LEMMA TriedAgainIs ==
  ASSUME RecoveryTypes
  PROVE  RecoveryTriedAgain \in Ledger(Turns) /\ RowIds(RecoveryTriedAgain) = RowIds(recovery)
<1>1. recovery \in Ledger(Turns)
  BY DEF RecoveryTypes
<1> QED BY <1>1, BackedOffIs DEF RecoveryTriedAgain

\* An operation of recovery begins.
LEMMA RecoveryBegins ==
  ASSUME RecoveryInv, RecoveryFree, recovery' \in Ledger(Turns), RowIds(recovery) \subseteq RowIds(recovery'),
         NEW kind \in {"submit", "drain"}, NEW todo \in Seq(Turns), todo # <<>>,
         recoveryTask' = [kind |-> kind, todo |-> todo, at |-> "open", complete |-> FALSE],
         UNCHANGED <<inboxVars, readings, revoked>>
  PROVE  RecoveryInv' /\ LedgersRight
<1>1. recoveryTask' \in RecoveryTasks /\ recoveryTask'.kind # "idle" /\ recoveryTask'.todo = todo
  BY DEF RecoveryTasks
<1>2. RecoveryTypes' /\ RecoveryRight
  BY <1>1 DEF RecoveryInv, RecoveryTypes, RecoveryRight
<1>3. ~RecoveryAt("sent") /\ reply' = reply /\ UNCHANGED <<inbox, evidence, enabled, inboxTask, declined>>
  BY DEF RecoveryAt, inboxVars
<1>4. faults' \in 0..MaxFaults
  BY DEF inboxVars, RecoveryInv, InboxTypes
<1> QED BY <1>2, <1>3, <1>4, InboxWaits

LEMMA RecoverySubmitKept ==
  ASSUME RecoveryInv, NEW t \in Turns, RecoverySubmit(t)
  PROVE  RecoveryInv' /\ LedgersRight
<1>1. recovery' \in Ledger(Turns) /\ RowIds(recovery) \subseteq RowIds(recovery')
  BY WithRowIs DEF RecoveryInv, RecoveryTypes, RecoverySubmit
<1>2. <<t>> \in Seq(Turns) /\ <<t>> # <<>>
  OBVIOUS
<1>3. /\ recoveryTask' = [kind |-> "submit", todo |-> <<t>>, at |-> "open", complete |-> FALSE]
      /\ UNCHANGED <<inboxVars, readings, revoked>> /\ RecoveryFree
  BY DEF RecoverySubmit
<1> QED BY <1>1, <1>2, <1>3, RecoveryBegins

LEMMA RecoveryDrainKept ==
  ASSUME RecoveryInv, RecoveryDrain
  PROVE  RecoveryInv' /\ LedgersRight
<1> DEFINE due == DueRows(recovery, RecoveryLimit)
<1>1. due \in Seq(Turns)
  BY DueRowsIs, RecoveryAssumption DEF RecoveryInv, RecoveryTypes, RecoveryAssumption
<1>2. /\ due # <<>> /\ RecoveryFree
      /\ recoveryTask' = [kind |-> "drain", todo |-> due, at |-> "open", complete |-> FALSE]
      /\ UNCHANGED <<inboxVars, recovery, readings, revoked>>
  BY DEF RecoveryDrain
<1>3. recovery' \in Ledger(Turns) /\ RowIds(recovery) \subseteq RowIds(recovery')
  BY <1>2 DEF RecoveryInv, RecoveryTypes
<1> HIDE DEF due
<1> QED BY <1>1, <1>2, <1>3, RecoveryBegins

LEMMA RecoveryCheckKept ==
  ASSUME RecoveryInv, RecoveryCheck
  PROVE  RecoveryInv' /\ LedgersRight
<1>1. /\ ~RecoveryFree /\ ~RecoveryAt("sent") /\ RecoveryTypes
      /\ recovery' = IF enabled THEN WithoutRow(recovery, RecoveryTurn) ELSE recovery
      /\ ~enabled \/ RecoveryTurn \in revoked
      /\ RecoveryNextRow /\ UNCHANGED <<inboxVars, readings, revoked>>
  BY DEF RecoveryCheck, RecoveryAt, RecoveryInv
<1>2. recovery' \in Ledger(Turns) /\ RowIds(recovery) \ RowIds(recovery') \subseteq revoked
  <2>1. CASE enabled
    <3>1. /\ WithoutRow(recovery, RecoveryTurn) \in Ledger(Turns)
          /\ RowIds(WithoutRow(recovery, RecoveryTurn)) = RowIds(recovery) \ {RecoveryTurn}
      BY <1>1, WithoutRowIs DEF RecoveryTypes
    <3> QED BY <1>1, <2>1, <3>1
  <2>2. CASE ~enabled
    BY <1>1, <2>2 DEF RecoveryTypes
  <2> QED BY <2>1, <2>2
<1>3. /\ recoveryTask' \in RecoveryTasks
      /\ recoveryTask'.kind = "idle" => recoveryTask' = RecoveryIdle
      /\ recoveryTask'.kind # "idle" => recoveryTask'.todo # <<>>
  BY <1>1, RecoveryNextIs
<1>4. RecoveryTypes' /\ RecoveryRight
  BY <1>1, <1>2, <1>3 DEF RecoveryTypes, RecoveryRight
<1>5. reply' = reply /\ UNCHANGED <<inbox, evidence, enabled, inboxTask, declined>> /\ faults' \in 0..MaxFaults
  BY <1>1 DEF inboxVars, RecoveryInv, InboxTypes
<1> QED BY <1>1, <1>4, <1>5, InboxWaits

LEMMA RecoveryReadKept ==
  ASSUME RecoveryInv, RecoveryRead
  PROVE  RecoveryInv' /\ LedgersRight
<1>1. /\ ~RecoveryFree /\ ~RecoveryAt("sent") /\ RecoveryTypes
      /\ UNCHANGED <<inboxVars, readings, revoked>>
  BY DEF RecoveryRead, RecoveryAt, RecoveryInv
<1>2. RecoveryTypes' /\ RecoveryRight
  <2>1. CASE recovery' = RecoveryTriedAgain /\ RecoveryNextRow
    <3>1. recovery' \in Ledger(Turns) /\ RowIds(recovery') = RowIds(recovery)
      BY <1>1, <2>1, TriedAgainIs
    <3>2. /\ recoveryTask' \in RecoveryTasks
          /\ recoveryTask'.kind = "idle" => recoveryTask' = RecoveryIdle
          /\ recoveryTask'.kind # "idle" => recoveryTask'.todo # <<>>
      BY <1>1, <2>1, RecoveryNextIs
    <3> QED BY <1>1, <3>1, <3>2 DEF RecoveryTypes, RecoveryRight
  <2>2. CASE /\ recoveryTask' = [recoveryTask EXCEPT !.at = "read",
                   !.complete = (readings[RecoveryTurn] = "complete")]
             /\ UNCHANGED recovery
    <3>1. recoveryTask' = [kind |-> recoveryTask.kind, todo |-> recoveryTask.todo, at |-> "read",
                           complete |-> (readings[RecoveryTurn] = "complete")]
      BY <1>1, <2>2 DEF RecoveryTypes, RecoveryTasks
    <3>2. recoveryTask' \in RecoveryTasks /\ recoveryTask'.kind = recoveryTask.kind
          /\ recoveryTask'.todo = recoveryTask.todo
      BY <1>1, <3>1 DEF RecoveryTypes, RecoveryTasks
    <3> QED BY <1>1, <2>2, <3>2 DEF RecoveryTypes, RecoveryRight, RecoveryFree
  <2> QED BY <2>1, <2>2 DEF RecoveryRead
<1>3. reply' = reply /\ UNCHANGED <<inbox, evidence, enabled, inboxTask, declined>> /\ faults' \in 0..MaxFaults
  BY <1>1 DEF inboxVars, RecoveryInv, InboxTypes
<1> QED BY <1>1, <1>2, <1>3, InboxWaits

\* The turn is with the inbox: nothing was under way for recovery there.
LEMMA RecoverySendKept ==
  ASSUME RecoveryInv, RecoverySend
  PROVE  RecoveryInv' /\ LedgersRight
<1> DEFINE batch == IF recoveryTask.complete THEN Whole[RecoveryTurn] ELSE Partial[RecoveryTurn]
<1>1. /\ ~RecoveryFree /\ ~RecoveryAt("sent") /\ RecoveryTypes /\ InboxTypes /\ RowAccounted
      /\ InboxSubmit(batch, "recovery") /\ recoveryTask' = [recoveryTask EXCEPT !.at = "sent"]
      /\ UNCHANGED <<recovery, readings, revoked>>
  BY DEF RecoverySend, RecoveryAt, RecoveryInv
<1>2. RecoveryTurn \in Turns
  BY <1>1, RecoveryUnderWay
<1>3. batch \in SUBSET Events /\ (recoveryTask.complete => batch = Whole[RecoveryTurn])
  BY <1>2, RecoveryAssumption DEF RecoveryAssumption
<1>4. reply = "none" /\ inboxTask.kind # "recovery"
  BY <1>1 DEF RecoveryInv, Sending, AnswerTrue
<1>5. /\ recoveryTask' \in RecoveryTasks /\ recoveryTask'.kind = recoveryTask.kind
      /\ recoveryTask'.todo = recoveryTask.todo /\ recoveryTask'.at = "sent"
      /\ recoveryTask'.complete = recoveryTask.complete
  BY <1>1 DEF RecoveryTypes, RecoveryTasks
<1>6. RecoveryTypes' /\ RecoveryRight
  BY <1>1, <1>5 DEF RecoveryTypes, RecoveryRight, RecoveryFree
<1>7. RecoveryAt("sent")' /\ RecoveryTurn' = RecoveryTurn
  BY <1>1, <1>5 DEF RecoveryAt, RecoveryFree, RecoveryTurn
<1> HIDE DEF batch
<1>8. /\ InboxTypes' /\ RowAccounted' /\ InboxRight
      /\ \/ inboxTask' = inboxTask /\ reply' = "ok" /\ batch \subseteq declined'
         \/ /\ inboxTask'.kind = "recovery" /\ Len(inboxTask'.todo) = 1
            /\ batch \subseteq declined' \cup Head(inboxTask'.todo) /\ reply' = reply
         \/ inboxTask' = inboxTask /\ reply' = "failed"
  BY <1>1, <1>3, SubmitIs
<1>9. Sending' /\ AnswerTrue'
  BY <1>3, <1>4, <1>5, <1>7, <1>8 DEF Sending, AnswerTrue
<1> QED BY <1>6, <1>8, <1>9 DEF RecoveryInv, LedgersRight

\* The answer is read: only a turn that is complete and acknowledged may go.
LEMMA RecoverySettleKept ==
  ASSUME RecoveryInv, RecoverySettle \/ RecoveryUnsaved
  PROVE  RecoveryInv' /\ LedgersRight
<1>1. /\ ~RecoveryFree /\ RecoveryAt("sent") /\ RecoveryTypes /\ reply # "none" /\ inboxTask.kind # "recovery"
      /\ RecoveryNextRow /\ reply' = "none"
      /\ UNCHANGED <<inbox, evidence, enabled, inboxTask, declined>> /\ UNCHANGED <<readings, revoked>>
  BY DEF RecoverySettle, RecoveryUnsaved, RecoveryAt, RecoveryInv, AnswerTrue
<1>2. faults' \in 0..MaxFaults
  BY InboxAssumption DEF RecoverySettle, RecoveryUnsaved, Fault, RecoveryInv, InboxTypes, InboxAssumption
<1>3. recovery' \in Ledger(Turns) /\ RecoveryRight
  <2>1. CASE recovery' = RecoveryTriedAgain \/ recovery' = recovery
    <3>1. recovery' \in Ledger(Turns) /\ RowIds(recovery') = RowIds(recovery)
      BY <1>1, <2>1, TriedAgainIs DEF RecoveryTypes
    <3> QED BY <3>1 DEF RecoveryRight
  <2>2. CASE reply = "ok" /\ recoveryTask.complete /\ recovery' = WithoutRow(recovery, RecoveryTurn)
    <3>1. /\ recovery' \in Ledger(Turns) /\ RowIds(recovery') = RowIds(recovery) \ {RecoveryTurn}
      BY <1>1, <2>2, WithoutRowIs DEF RecoveryTypes
    <3>2. Whole[RecoveryTurn] \subseteq evidence \cup declined
      BY <2>2 DEF RecoveryInv, AnswerTrue
    <3> QED BY <3>1, <3>2 DEF RecoveryRight
  <2> QED BY <2>1, <2>2 DEF RecoverySettle, RecoveryUnsaved
<1>4. /\ recoveryTask' \in RecoveryTasks
      /\ recoveryTask'.kind = "idle" => recoveryTask' = RecoveryIdle
      /\ recoveryTask'.kind # "idle" => recoveryTask'.todo # <<>>
  BY <1>1, RecoveryNextIs
<1>5. RecoveryTypes'
  BY <1>1, <1>3, <1>4 DEF RecoveryTypes
<1> QED BY <1>1, <1>2, <1>3, <1>5, InboxWaits

LEMMA RecoveryWorldKept ==
  ASSUME RecoveryInv, \E t \in Turns : RecoveryGrows(t) \/ RecoveryRevoke(t)
  PROVE  RecoveryInv' /\ LedgersRight
<1>1. /\ UNCHANGED <<inbox, evidence, enabled, inboxTask, reply, declined>>
      /\ UNCHANGED <<recovery, recoveryTask>>
  BY DEF RecoveryGrows, RecoveryRevoke, inboxVars
<1>2. faults' \in 0..MaxFaults
  BY InboxAssumption DEF RecoveryGrows, RecoveryRevoke, Fault, RecoveryInv, InboxTypes, InboxAssumption, inboxVars
<1>3. revoked' \subseteq Turns /\ readings' \in [Turns -> {"missing", "partial", "complete"}]
  BY DEF RecoveryGrows, RecoveryRevoke, RecoveryInv, RecoveryTypes
<1>4. RecoveryTypes' /\ RecoveryRight
  BY <1>1, <1>3 DEF RecoveryInv, RecoveryTypes, RecoveryRight
<1> QED BY <1>1, <1>2, <1>4, InboxWaits

LEMMA RecoveryTickKept ==
  ASSUME RecoveryInv, RecoveryTick
  PROVE  RecoveryInv' /\ LedgersRight
<1>1. /\ inbox' = Aged(inbox) /\ recovery' = Aged(recovery)
      /\ UNCHANGED <<evidence, enabled, inboxTask, reply, faults, declined>>
      /\ UNCHANGED <<readings, revoked, recoveryTask>>
  BY DEF RecoveryTick
<1>2. /\ inbox' \in Ledger(Batches) /\ RowIds(inbox') = RowIds(inbox)
      /\ recovery' \in Ledger(Turns) /\ RowIds(recovery') = RowIds(recovery)
  BY <1>1, AgedIs DEF RecoveryInv, InboxTypes, RecoveryTypes
<1>3. InboxTypes' /\ RecoveryTypes' /\ LedgersRight
  BY <1>1, <1>2 DEF RecoveryInv, InboxTypes, RecoveryTypes, LedgersRight, InboxRight, RecoveryRight
<1>4. /\ RecoveryAt("sent")' <=> RecoveryAt("sent")
      /\ RecoveryTurn' = RecoveryTurn
  BY <1>1 DEF RecoveryAt, RecoveryFree, RecoveryTurn
<1>5. RowAccounted' /\ Sending' /\ AnswerTrue'
  BY <1>1, <1>4 DEF RecoveryInv, RowAccounted, Sending, AnswerTrue
<1> QED BY <1>3, <1>5 DEF RecoveryInv

LEMMA RecoveryCrashKept ==
  ASSUME RecoveryInv, RecoveryCrash
  PROVE  RecoveryInv' /\ LedgersRight
<1>1. /\ inboxTask' = InboxIdle /\ recoveryTask' = RecoveryIdle /\ reply' = "none"
      /\ UNCHANGED <<inbox, evidence, enabled, declined>>
      /\ UNCHANGED <<recovery, readings, revoked>>
  BY DEF RecoveryCrash
<1>2. faults' \in 0..MaxFaults
  BY InboxAssumption DEF RecoveryCrash, Fault, RecoveryInv, InboxTypes, InboxAssumption
<1>3. InboxTypes' /\ RecoveryTypes'
  BY <1>1, <1>2 DEF RecoveryInv, InboxTypes, RecoveryTypes, InboxIdle, InboxTasks, RecoveryIdle, RecoveryTasks
<1>4. RowAccounted' /\ Sending' /\ AnswerTrue' /\ LedgersRight
  BY <1>1 DEF InboxIdle, RowAccounted, Sending, AnswerTrue, LedgersRight, InboxRight, RecoveryRight
<1> QED BY <1>3, <1>4 DEF RecoveryInv

LEMMA RecoveryInvNext ==
  ASSUME RecoveryInv, RecoveryNext
  PROVE  RecoveryInv' /\ LedgersRight
<1>1. CASE InboxOnly /\ UNCHANGED recoveryVars
  <2>1. CASE InboxSubmit(Recorded, "recorder") \/ InboxDrain \/ InboxPolicy
    BY <1>1, <2>1, RecorderKept, InboxDrainKept, InboxPolicyKept
  <2>2. CASE InboxOpen \/ \E e \in Events : InboxCapture(e)
    BY <1>1, <2>2, InboxOpenKept, InboxCaptureKept
  <2>3. CASE InboxAck \/ InboxFails
    BY <1>1, <2>3, InboxAckKept, InboxFailsKept
  <2> QED BY <1>1, <2>1, <2>2, <2>3 DEF InboxOnly, InboxSteps
<1>2. CASE \E t \in Turns : RecoverySubmit(t)
  BY <1>2, RecoverySubmitKept
<1>3. CASE \E t \in Turns : RecoveryGrows(t) \/ RecoveryRevoke(t)
  BY <1>3, RecoveryWorldKept
<1>4. CASE RecoveryDrain \/ RecoveryCheck \/ RecoveryRead
  BY <1>4, RecoveryDrainKept, RecoveryCheckKept, RecoveryReadKept
<1>5. CASE RecoverySend
  BY <1>5, RecoverySendKept
<1>6. CASE RecoverySettle \/ RecoveryUnsaved
  BY <1>6, RecoverySettleKept
<1>7. CASE RecoveryTick \/ RecoveryCrash
  BY <1>7, RecoveryTickKept, RecoveryCrashKept
<1> QED BY <1>1, <1>2, <1>3, <1>4, <1>5, <1>6, <1>7 DEF RecoveryNext

LEMMA RecoveryInvSame ==
  ASSUME RecoveryInv, UNCHANGED ledgerVars
  PROVE  RecoveryInv' /\ LedgersRight
<1>1. UNCHANGED inboxVars /\ UNCHANGED recoveryVars
  BY DEF ledgerVars
<1>2. InboxTypes' /\ RowAccounted' /\ InboxRight
  BY <1>1 DEF inboxVars, RecoveryInv, InboxTypes, RowAccounted, InboxRight
<1>3. reply' = reply /\ evidence' = evidence /\ declined' = declined /\ inboxTask' = inboxTask
  BY <1>1 DEF inboxVars
<1> QED BY <1>1, <1>2, <1>3, RecoveryWaits
-----------------------------------------------------------------------------
(* Refinement tasks. *)
Statuses == {"absent", "pending", "running", "succeeded", "cancelled", "failed"}
RefineRows == [status : Statuses, attempts : 0..RefineAttempts, left : 0..RefineAttempts]
Runs ==
  [on : BOOLEAN, todo : SUBSET Tasks, task : Tasks \cup {NoTask},
   at : {"take", "barrier", "called", "answered"}, calls : Nat]

RefineTypes ==
  /\ tasks \in [Tasks -> RefineRows]
  /\ candidate \in [Tasks -> {"proposed", "edited", "merged", "settled"}]
  /\ holds \subseteq Tasks /\ forgotten \subseteq Tasks /\ permitted \in BOOLEAN
  /\ refining \in Runs /\ called \in [Tasks -> Nat]

\* The task under way runs, unless it was forgotten; what is still to be looked at is
\* open, unless it was forgotten.
RefineUnderWay ==
  /\ ~refining.on => refining = NoRun
  /\ refining.at = "take" <=> refining.task = NoTask
  /\ \A t \in Tasks : refining.task = t =>
       tasks[t].status = "running" \/ (tasks[t].status = "cancelled" /\ t \in forgotten)
  /\ \A t \in refining.todo : refining.task # t /\ (Open(t) \/ t \in forgotten)

\* Every call was counted in the ledger before it was made.
RefinePaid ==
  /\ \A t \in Tasks : called[t] <= tasks[t].attempts
  /\ refining.at = "barrier" =>
       \A t \in Tasks : refining.task = t => called[t] < tasks[t].attempts

RefineInv == RefineTypes /\ RefineUnderWay /\ RefinePaid

\* What a save leaves of the ledger, given as `file'.
LEMMA SavedIs ==
  ASSUME RefineTypes, NEW t \in Tasks, NEW row \in RefineRows
  PROVE  /\ Saved(t, row) \in [Tasks -> RefineRows]
         /\ Saved(t, row)[t].attempts = row.attempts
         /\ Saved(t, row)[t].status = row.status \/ (Saved(t, row)[t].status = "cancelled" /\ t \in forgotten)
         /\ t \in forgotten /\ row # Absent => Saved(t, row)[t].status = "cancelled"
         /\ \A u \in Tasks : u # t =>
              /\ Saved(t, row)[u].attempts = tasks[u].attempts
              /\ Saved(t, row)[u].status = tasks[u].status
                   \/ (Saved(t, row)[u].status = "cancelled" /\ u \in forgotten)
<1>1. ASSUME NEW u \in Tasks, NEW r \in RefineRows
      PROVE  /\ Corrected(u, r) \in RefineRows /\ Corrected(u, r).attempts = r.attempts
             /\ Corrected(u, r).status = r.status \/ (Corrected(u, r).status = "cancelled" /\ u \in forgotten)
             /\ u \in forgotten /\ r # Absent => Corrected(u, r).status = "cancelled"
  <2>1. CASE u \in forgotten /\ r # Absent
    <3>1. Corrected(u, r) = [r EXCEPT !.status = "cancelled"]
      BY <2>1 DEF Corrected
    <3> QED BY <2>1, <3>1 DEF RefineRows, Statuses
  <2>2. CASE ~(u \in forgotten /\ r # Absent)
    BY <2>2 DEF Corrected
  <2> QED BY <2>1, <2>2
<1>2. /\ Saved(t, row) = [u \in Tasks |-> Corrected(u, IF u = t THEN row ELSE tasks[u])]
      /\ \A u \in Tasks : tasks[u] \in RefineRows
  BY DEF Saved, RefineTypes
<1>3. Saved(t, row)[t] = Corrected(t, row)
      /\ \A u \in Tasks : u # t => Saved(t, row)[u] = Corrected(u, tasks[u])
  BY <1>2
<1>4. Saved(t, row) \in [Tasks -> RefineRows]
  BY <1>1, <1>2
<1> QED BY <1>1, <1>2, <1>3, <1>4

\* What a save of the row under way or taken keeps of the invariant and of the past.
LEMMA SavedKeeps ==
  ASSUME RefineInv, NEW t \in Tasks, NEW row \in RefineRows, row # Absent,
         row.attempts >= tasks[t].attempts,
         Open(t) \/ tasks[t] = Absent \/ t \in forgotten,
         tasks' = Saved(t, row)
  PROVE  /\ tasks' \in [Tasks -> RefineRows]
         /\ tasks'[t].attempts = row.attempts
         /\ \A u \in Tasks : tasks[u].attempts <= tasks'[u].attempts
         /\ tasks'[t].status = row.status \/ (tasks'[t].status = "cancelled" /\ t \in forgotten)
         /\ \A u \in Tasks : u # t =>
              tasks'[u].status = tasks[u].status \/ (tasks'[u].status = "cancelled" /\ u \in forgotten)
         /\ \A u \in Tasks : tasks[u].status \in Ended /\ tasks'[u].status # tasks[u].status =>
              tasks'[u].status = "cancelled" /\ u \in forgotten
<1>1. RefineTypes /\ RefinementAssumption
  BY RefinementAssumption DEF RefineInv
<1>2. /\ tasks' \in [Tasks -> RefineRows] /\ tasks'[t].attempts = row.attempts
      /\ tasks'[t].status = row.status \/ (tasks'[t].status = "cancelled" /\ t \in forgotten)
      /\ t \in forgotten => tasks'[t].status = "cancelled"
      /\ \A u \in Tasks : u # t =>
              /\ tasks'[u].attempts = tasks[u].attempts
              /\ tasks'[u].status = tasks[u].status
                   \/ (tasks'[u].status = "cancelled" /\ u \in forgotten)
  <2>1. /\ Saved(t, row) \in [Tasks -> RefineRows]
        /\ Saved(t, row)[t].attempts = row.attempts
        /\ Saved(t, row)[t].status = row.status
             \/ (Saved(t, row)[t].status = "cancelled" /\ t \in forgotten)
        /\ t \in forgotten /\ row # Absent => Saved(t, row)[t].status = "cancelled"
        /\ \A u \in Tasks : u # t =>
             /\ Saved(t, row)[u].attempts = tasks[u].attempts
             /\ Saved(t, row)[u].status = tasks[u].status
                  \/ (Saved(t, row)[u].status = "cancelled" /\ u \in forgotten)
    BY <1>1, SavedIs
  <2> QED BY <2>1
<1>3. \A u \in Tasks : tasks[u].attempts \in 0..RefineAttempts
  BY <1>1 DEF RefineTypes, RefineRows
<1>4. \A u \in Tasks : tasks[u].attempts <= tasks'[u].attempts
  <2>1. \A u \in Tasks : tasks[u].attempts \in Nat
    BY <1>1, <1>3 DEF RefinementAssumption
  <2> QED BY <1>2, <2>1
<1>5. tasks[t].status \in Ended => t \in forgotten
  BY DEF Open, Ended, Absent
<1> QED BY <1>2, <1>4, <1>5

LEMMA RefineInvInit == RefineInit => RefineInv
<1> SUFFICES ASSUME RefineInit PROVE RefineInv
  OBVIOUS
<1>1. RefineTypes
  BY RefinementAssumption DEF RefineInit, RefineTypes, RefineRows, Statuses, Absent, NoRun, Runs, RefinementAssumption
<1>2. RefineUnderWay /\ RefinePaid
  BY RefinementAssumption DEF RefineInit, RefineUnderWay, RefinePaid, Absent, NoRun, RefinementAssumption
<1> QED BY <1>1, <1>2 DEF RefineInv

LEMMA RefineInvSafe == RefineInv => RefineTypeOK /\ RefineCallsBounded
<1> SUFFICES ASSUME RefineInv PROVE RefineTypeOK /\ RefineCallsBounded
  OBVIOUS
<1>1. RefineTypeOK
  BY DEF RefineInv, RefineTypes, RefineUnderWay, RefineTypeOK, RefineRows, Statuses, Ended, Runs
<1>2. RefineCallsBounded
  <2>1. \A t \in Tasks : called[t] \in Nat /\ tasks[t].attempts \in 0..RefineAttempts /\ called[t] <= tasks[t].attempts
    BY DEF RefineInv, RefineTypes, RefineRows, RefinePaid
  <2>2. RefineAttempts \in Nat
    BY RefinementAssumption DEF RefinementAssumption
  <2> QED BY <2>1, <2>2 DEF RefineCallsBounded
<1> QED BY <1>1, <1>2

\* What a step of the refinement may do to a candidate and to a task.
MergeRight ==
  \A t \in Tasks : candidate'[t] = "merged" /\ candidate[t] # "merged" =>
    Valid(t) /\ candidate[t] = "proposed" /\ tasks[t].status = "running"
EndRight ==
  \A t \in Tasks : tasks[t].status \in Ended /\ tasks'[t].status # tasks[t].status =>
    tasks'[t].status = "cancelled" /\ t \in forgotten

\* A step that saves a task, and the run with or without it.
LEMMA SaveStep ==
  ASSUME RefineInv, NEW t \in Tasks, NEW row \in RefineRows, row # Absent,
         row.attempts >= tasks[t].attempts,
         Open(t) \/ tasks[t] = Absent \/ t \in forgotten,
         tasks' = Saved(t, row), UNCHANGED <<candidate, holds, forgotten, permitted>>,
         refining' \in Runs, refining'.on = refining.on, called' \in [Tasks -> Nat],
         refining'.todo \subseteq refining.todo \ {t},
         \/ refining'.task = NoTask /\ refining'.at = "take" /\ called' = called
            /\ (~refining.on => refining' = refining)
         \/ /\ refining.on /\ refining'.task = t /\ refining'.at = "barrier" /\ row.status = "running"
            /\ row.attempts > tasks[t].attempts /\ called' = called
  PROVE  RefineInv' /\ MergeRight /\ EndRight
<1>1. RefineTypes /\ RefineUnderWay /\ RefinePaid /\ RefinementAssumption
  BY RefinementAssumption DEF RefineInv
<1>2. /\ tasks' \in [Tasks -> RefineRows]
      /\ tasks'[t].attempts = row.attempts
      /\ \A u \in Tasks : tasks[u].attempts <= tasks'[u].attempts
      /\ tasks'[t].status = row.status \/ (tasks'[t].status = "cancelled" /\ t \in forgotten)
      /\ \A u \in Tasks : u # t =>
           tasks'[u].status = tasks[u].status \/ (tasks'[u].status = "cancelled" /\ u \in forgotten)
      /\ \A u \in Tasks : tasks[u].status \in Ended /\ tasks'[u].status # tasks[u].status =>
           tasks'[u].status = "cancelled" /\ u \in forgotten
  BY SavedKeeps
<1>3. RefineTypes'
  BY <1>1, <1>2 DEF RefineTypes
<1>4. NoTask \notin Tasks
  BY <1>1 DEF RefinementAssumption
<1>5. RefineUnderWay'
  <2>1. ~refining'.on => refining' = NoRun
    BY <1>1 DEF RefineUnderWay
  <2>2. refining'.at = "take" <=> refining'.task = NoTask
    BY <1>4
  <2>3. \A u \in Tasks : refining'.task = u =>
       tasks'[u].status = "running" \/ (tasks'[u].status = "cancelled" /\ u \in forgotten')
    BY <1>2, <1>4
  <2>4. \A u \in refining'.todo : refining'.task # u /\ (Open(u)' \/ u \in forgotten')
    BY <1>1, <1>2, <1>4 DEF RefineUnderWay, Open, Runs
  <2> QED BY <2>1, <2>2, <2>3, <2>4 DEF RefineUnderWay
<1>6. RefinePaid'
  <2>0. /\ \A u \in Tasks : tasks[u].attempts \in Nat /\ tasks'[u].attempts \in Nat /\ called[u] \in Nat
        /\ row.attempts \in Nat /\ called' = called
    BY <1>1, <1>2 DEF RefineTypes, RefineRows, RefinementAssumption
  <2>1. \A u \in Tasks : called'[u] <= tasks'[u].attempts
    BY <1>1, <1>2, <2>0 DEF RefinePaid
  <2>2. refining'.at = "barrier" => refining'.task = t /\ called'[t] < tasks'[t].attempts
    BY <1>1, <1>2, <2>0 DEF RefinePaid
  <2> QED BY <2>1, <2>2 DEF RefinePaid
<1>7. MergeRight /\ EndRight
  BY <1>2 DEF MergeRight, EndRight
<1> QED BY <1>3, <1>5, <1>6, <1>7 DEF RefineInv


\* A step that leaves the ledger as it is.
LEMMA StillStep ==
  ASSUME RefineInv, UNCHANGED <<tasks, called>>,
         candidate' \in [Tasks -> {"proposed", "edited", "merged", "settled"}],
         holds' \subseteq Tasks, forgotten \subseteq forgotten', forgotten' \subseteq Tasks,
         permitted' \in BOOLEAN, refining' \in Runs,
         ~refining'.on => refining' = NoRun,
         refining'.at = "take" <=> refining'.task = NoTask,
         refining'.task \in {refining.task, NoTask}, refining'.todo \subseteq refining.todo,
         refining'.at = "barrier" => refining.at = "barrier"
  PROVE  RefineInv' /\ EndRight
<1>1. RefineTypes /\ RefineUnderWay /\ RefinePaid /\ RefinementAssumption
  BY RefinementAssumption DEF RefineInv
<1>2. RefineTypes'
  BY <1>1 DEF RefineTypes
<1>3. RefineUnderWay'
  <2>1. \A u \in Tasks : refining'.task = u => refining.task = u
    BY <1>1 DEF RefinementAssumption
  <2>2. \A u \in refining'.todo : refining'.task # u /\ (Open(u)' \/ u \in forgotten')
    BY <1>1, <2>1 DEF RefineUnderWay, Open, Runs, RefinementAssumption
  <2> QED BY <1>1, <2>1, <2>2 DEF RefineUnderWay
<1>4. RefinePaid'
  <2>1. \A u \in Tasks : refining'.task = u => refining.task = u
    BY <1>1 DEF RefinementAssumption
  <2> QED BY <1>1, <2>1 DEF RefinePaid
<1> QED BY <1>2, <1>3, <1>4 DEF RefineInv, EndRight

LEMMA RefineRowsAre ==
  ASSUME RefineInv, NEW t \in Tasks
  PROVE  /\ tasks[t] \in RefineRows /\ tasks[t].attempts \in Nat /\ tasks[t].attempts <= RefineAttempts
         /\ \A status \in Statuses \ {"absent"} :
              /\ As(t, status) \in RefineRows /\ As(t, status) # Absent
              /\ As(t, status).attempts = tasks[t].attempts /\ As(t, status).status = status
<1>1. tasks[t] \in RefineRows /\ RefineAttempts \in Nat
  BY RefinementAssumption DEF RefineInv, RefineTypes, RefinementAssumption
<1>2. tasks[t].attempts \in Nat /\ tasks[t].attempts <= RefineAttempts
  BY <1>1 DEF RefineRows
<1>3. \A status \in Statuses \ {"absent"} :
              /\ As(t, status) \in RefineRows
              /\ As(t, status).attempts = tasks[t].attempts /\ As(t, status).status = status
  BY <1>1 DEF RefineRows, As
<1>4. Absent.status = "absent"
  BY DEF Absent
<1> QED BY <1>1, <1>2, <1>3, <1>4

\* A task that is closed or enqueued.
LEMMA CloseStep ==
  ASSUME RefineInv, NEW t \in Tasks, NEW status \in Statuses \ {"absent"},
         tasks' = Saved(t, As(t, status)), UNCHANGED <<candidate, holds, forgotten, permitted, called>>,
         Open(t) \/ tasks[t] = Absent \/ t \in forgotten,
         refining' \in Runs, refining'.on = refining.on, refining'.task = NoTask,
         refining'.at = "take", ~refining.on => refining' = refining,
         refining'.todo \subseteq refining.todo \ {t}
  PROVE  RefineInv' /\ MergeRight /\ EndRight
<1>1. /\ As(t, status) \in RefineRows /\ As(t, status) # Absent
      /\ As(t, status).attempts = tasks[t].attempts /\ tasks[t].attempts \in Nat
  BY RefineRowsAre
<1>2. called' \in [Tasks -> Nat]
  BY DEF RefineInv, RefineTypes
<1>3. As(t, status).attempts >= tasks[t].attempts
  BY <1>1
<1> QED BY <1>1, <1>2, <1>3, SaveStep

LEMMA RefineEnqueueKept ==
  ASSUME RefineInv, NEW t \in Tasks, RefineEnqueue(t)
  PROVE  RefineInv' /\ MergeRight /\ EndRight
<1>1. refining = NoRun /\ refining \in Runs
  BY DEF RefineInv, RefineUnderWay, RefineTypes, RefineEnqueue
<1>2. /\ refining' \in Runs /\ refining'.on = refining.on /\ refining'.task = NoTask
      /\ refining'.at = "take" /\ refining' = refining /\ refining'.todo \subseteq refining.todo \ {t}
  BY <1>1 DEF RefineEnqueue, NoRun
<1>3. /\ tasks' = Saved(t, As(t, "pending")) /\ UNCHANGED <<candidate, holds, forgotten, permitted, called>>
      /\ tasks[t] = Absent
  BY DEF RefineEnqueue, WorldSame
<1>4. "pending" \in Statuses \ {"absent"}
  BY DEF Statuses
<1> QED BY <1>2, <1>3, <1>4, CloseStep

LEMMA RefineCloseKept ==
  ASSUME RefineInv, NEW t \in Tasks, Taking(t), NEW status \in {"cancelled", "failed"}, RefineClose(t, status)
  PROVE  RefineInv' /\ MergeRight /\ EndRight
<1>1. /\ refining \in Runs /\ refining.on /\ refining.task = NoTask /\ refining.at = "take" /\ t \in refining.todo
      /\ Open(t) \/ t \in forgotten
  BY DEF RefineInv, RefineUnderWay, RefineTypes, Taking
<1>2. /\ refining' \in Runs /\ refining'.on = refining.on /\ refining'.task = NoTask
      /\ refining'.at = "take" /\ refining'.todo \subseteq refining.todo \ {t}
  BY <1>1 DEF RefineClose, Runs
<1>3. /\ tasks' = Saved(t, As(t, status)) /\ UNCHANGED <<candidate, holds, forgotten, permitted, called>>
  BY DEF RefineClose, WorldSame
<1>4. status \in Statuses \ {"absent"}
  BY DEF Statuses
<1> QED BY <1>1, <1>2, <1>3, <1>4, CloseStep

LEMMA RefineBeginKept ==
  ASSUME RefineInv, NEW t \in Tasks, RefineBegin(t)
  PROVE  RefineInv' /\ MergeRight /\ EndRight
<1> DEFINE row == [As(t, "running") EXCEPT !.attempts = @ + 1]
<1>1. /\ refining \in Runs /\ refining.on /\ refining.task = NoTask /\ t \in refining.todo
      /\ (Open(t) \/ t \in forgotten) /\ called \in [Tasks -> Nat]
      /\ tasks[t].attempts < RefineAttempts
  BY DEF RefineInv, RefineUnderWay, RefineTypes, Taking, RefineBegin, RefineMayCall
<1>2. /\ As(t, "running") \in RefineRows /\ tasks[t].attempts \in Nat /\ RefineAttempts \in Nat
      /\ As(t, "running").attempts = tasks[t].attempts /\ As(t, "running").status = "running"
  BY RefineRowsAre, RefinementAssumption DEF Statuses, RefinementAssumption
<1>3. row \in RefineRows /\ row.status = "running" /\ row.attempts = tasks[t].attempts + 1
  BY <1>1, <1>2 DEF RefineRows
<1>4. row # Absent /\ row.attempts > tasks[t].attempts /\ row.attempts >= tasks[t].attempts
  BY <1>2, <1>3 DEF Absent
<1>5. /\ refining' \in Runs /\ refining'.on = refining.on /\ refining'.task = t
      /\ refining'.at = "barrier" /\ refining'.todo \subseteq refining.todo \ {t}
  <2>1. refining' = [refining EXCEPT !.todo = @ \ {t}, !.task = t, !.calls = @ + 1, !.at = "barrier"]
    BY DEF RefineBegin
  <2>2. refining'.on = refining.on /\ refining'.task = t /\ refining'.at = "barrier"
        /\ refining'.todo = refining.todo \ {t}
    BY <1>1, <2>1 DEF Runs
  <2>3. refining.calls \in Nat /\ refining.todo \ {t} \subseteq Tasks /\ refining.on \in BOOLEAN
    BY <1>1 DEF Runs
  <2>4. refining' = [on |-> refining.on, todo |-> refining.todo \ {t}, task |-> t, at |-> "barrier",
                     calls |-> refining.calls + 1]
    BY <1>1, <2>1 DEF Runs
  <2>5. refining' \in Runs
    BY <2>3, <2>4 DEF Runs
  <2> QED BY <2>2, <2>5
<1>6. /\ tasks' = Saved(t, row) /\ UNCHANGED <<candidate, holds, forgotten, permitted, called>>
  BY DEF RefineBegin, WorldSame
<1> HIDE DEF row
<1> QED BY <1>1, <1>3, <1>4, <1>5, <1>6, SaveStep

\* The end of the task under way.
LEMMA RefineDoneKept ==
  ASSUME RefineInv, refining.task \in Tasks,
         NEW row \in RefineRows, row # Absent, row.attempts = tasks[refining.task].attempts,
         tasks' = Saved(refining.task, row), Done, UNCHANGED called, WorldSame
  PROVE  RefineInv' /\ MergeRight /\ EndRight
<1> DEFINE t == refining.task
<1>0. t \in Tasks
  OBVIOUS
<1>1. /\ refining \in Runs /\ refining.on /\ (Open(t) \/ t \in forgotten) /\ called \in [Tasks -> Nat]
  BY RefinementAssumption DEF RefineInv, RefineUnderWay, RefineTypes, NoRun, RefinementAssumption, Open
<1>2. /\ refining' \in Runs /\ refining'.on = refining.on /\ refining'.task = NoTask
      /\ refining'.at = "take" /\ refining'.todo \subseteq refining.todo \ {t}
  BY <1>1 DEF Done, Runs, RefineInv, RefineUnderWay
<1>3. UNCHANGED <<candidate, holds, forgotten, permitted>>
  BY DEF WorldSame
<1>4. row.attempts \in Nat /\ row.attempts >= tasks[t].attempts
  BY RefineRowsAre
<1> QED BY <1>0, <1>1, <1>2, <1>3, <1>4, SaveStep

LEMMA RefineUnderWayIs ==
  ASSUME RefineInv, refining.at # "take"
  PROVE  /\ refining.task \in Tasks /\ refining.on /\ refining \in Runs
         /\ tasks[refining.task].status = "running" \/ refining.task \in forgotten
BY RefinementAssumption DEF RefineInv, RefineUnderWay, RefineTypes, Runs, NoRun, RefinementAssumption

LEMMA RefineCallKept ==
  ASSUME RefineInv, RefineCall
  PROVE  RefineInv' /\ MergeRight /\ EndRight
<1>1. refining.at # "take" /\ refining.at = "barrier"
  BY DEF RefineCall
<1>2. /\ refining.task \in Tasks /\ refining.on /\ refining \in Runs
  BY <1>1, RefineUnderWayIs
<1>3. CASE refining.task \in forgotten
  <2>1. /\ tasks' = Saved(refining.task, As(refining.task, "cancelled")) /\ Done /\ UNCHANGED called /\ WorldSame
    BY <1>3 DEF RefineCall
  <2>2. /\ As(refining.task, "cancelled") \in RefineRows /\ As(refining.task, "cancelled") # Absent
        /\ As(refining.task, "cancelled").attempts = tasks[refining.task].attempts
    BY <1>2, RefineRowsAre DEF Statuses
  <2> QED BY <1>2, <2>1, <2>2, RefineDoneKept
<1>4. CASE refining.task \notin forgotten
  <2>1. /\ refining' = [refining EXCEPT !.at = "called"] /\ UNCHANGED tasks
        /\ called' = [called EXCEPT ![refining.task] = @ + 1] /\ WorldSame
    BY <1>4 DEF RefineCall
  <2>2. /\ RefineTypes /\ RefineUnderWay /\ RefinePaid
    BY DEF RefineInv
  <2>3. RefineTypes'
    <3>1. called' \in [Tasks -> Nat]
      BY <1>2, <2>1, <2>2 DEF RefineTypes
    <3>2. refining' \in Runs
      BY <1>2, <2>1 DEF Runs
    <3> QED BY <2>1, <2>2, <3>1, <3>2 DEF RefineTypes, WorldSame
  <2>4. refining'.at = "called" /\ refining'.on /\ refining'.task = refining.task /\ refining'.todo = refining.todo
    BY <1>2, <2>1 DEF Runs
  <2>5. RefineUnderWay'
    <3>1. refining'.task # NoTask
      BY <2>4, <1>2, RefinementAssumption DEF RefinementAssumption
    <3> QED BY <2>1, <2>2, <2>4, <3>1 DEF RefineUnderWay, WorldSame, Open
  <2>6. RefinePaid'
    <3>1. \A u \in Tasks : tasks[u].attempts \in Nat /\ called[u] \in Nat
      BY RefineRowsAre, <2>2 DEF RefineTypes
    <3>2. called[refining.task] < tasks[refining.task].attempts
      BY <1>1, <1>2, <2>2 DEF RefinePaid
    <3>3. \A u \in Tasks : called'[u] = IF u = refining.task THEN called[u] + 1 ELSE called[u]
      BY <2>1, <2>2 DEF RefineTypes
    <3> QED BY <1>2, <2>1, <2>2, <2>4, <3>1, <3>2, <3>3 DEF RefinePaid
  <2> QED BY <2>1, <2>3, <2>5, <2>6 DEF RefineInv, MergeRight, EndRight, WorldSame
<1> QED BY <1>3, <1>4

LEMMA RefineApplyKept ==
  ASSUME RefineInv, RefineApply
  PROVE  RefineInv' /\ MergeRight /\ EndRight
<1>1. refining.at # "take" /\ refining.at = "called"
  BY DEF RefineApply
<1>2. /\ refining.task \in Tasks /\ refining.on /\ refining \in Runs
      /\ tasks[refining.task].status = "running" \/ refining.task \in forgotten
  BY <1>1, RefineUnderWayIs
<1>3. /\ refining' = [refining EXCEPT !.at = "answered"]
      /\ UNCHANGED <<tasks, holds, forgotten, permitted, refineFaults, called>>
  BY DEF RefineApply
<1>4. /\ refining' \in Runs /\ refining'.on /\ refining'.at = "answered"
      /\ refining'.task = refining.task /\ refining'.todo = refining.todo
  BY <1>2, <1>3 DEF Runs
<1>5. candidate \in [Tasks -> {"proposed", "edited", "merged", "settled"}] /\ holds \subseteq Tasks
      /\ forgotten \subseteq Tasks /\ permitted \in BOOLEAN
  BY DEF RefineInv, RefineTypes
<1>6. candidate' \in [Tasks -> {"proposed", "edited", "merged", "settled"}]
  BY <1>2, <1>5 DEF RefineApply
<1>7. MergeRight
  <2>1. CASE UNCHANGED candidate
    BY <2>1 DEF MergeRight
  <2>2. CASE /\ Untouched(refining.task) /\ Valid(refining.task)
             /\ candidate' = [candidate EXCEPT ![refining.task] = "merged"]
    <3>1. candidate[refining.task] = "proposed" /\ refining.task \notin forgotten
      BY <2>2 DEF Untouched, Valid
    <3>2. \A t \in Tasks : candidate'[t] # candidate[t] => t = refining.task
      BY <2>2, <1>5
    <3> QED BY <2>2, <3>1, <3>2, <1>2 DEF MergeRight
  <2> QED BY <2>1, <2>2 DEF RefineApply
<1>8. refining'.task # NoTask
  BY <1>2, <1>4, RefinementAssumption DEF RefinementAssumption
<1>9. /\ holds' \subseteq Tasks /\ forgotten \subseteq forgotten' /\ forgotten' \subseteq Tasks
      /\ permitted' \in BOOLEAN /\ UNCHANGED <<tasks, called>>
  BY <1>3, <1>5
<1>10. RefineInv' /\ EndRight
  BY <1>4, <1>6, <1>8, <1>9, StillStep
<1> QED BY <1>7, <1>10

LEMMA RefineEndedKept ==
  ASSUME RefineInv, RefineFails \/ RefineJudge
  PROVE  RefineInv' /\ MergeRight /\ EndRight
<1>1. refining.at # "take"
  BY DEF RefineFails, RefineJudge
<1>2. /\ refining.task \in Tasks /\ refining.on /\ refining \in Runs
  BY <1>1, RefineUnderWayIs
<1>3. CASE RefineFails
  <2>1. PICK status \in {"cancelled", "failed", "pending"} :
          /\ tasks' = Saved(refining.task, [As(refining.task, status) EXCEPT !.left = tasks[refining.task].attempts])
          /\ Done /\ UNCHANGED called /\ WorldSame
    BY <1>3 DEF RefineFails
  <2> DEFINE row == [As(refining.task, status) EXCEPT !.left = tasks[refining.task].attempts]
  <2>2. /\ As(refining.task, status) \in RefineRows /\ As(refining.task, status).status = status
        /\ As(refining.task, status).attempts = tasks[refining.task].attempts
        /\ tasks[refining.task] \in RefineRows
    BY <1>2, RefineRowsAre DEF Statuses
  <2>3. row \in RefineRows /\ row.status = status /\ row.attempts = tasks[refining.task].attempts
    BY <2>2 DEF RefineRows
  <2>4. row # Absent
    BY <2>3 DEF Absent
  <2> HIDE DEF row
  <2>5. tasks' = Saved(refining.task, row) /\ Done /\ UNCHANGED called /\ WorldSame
    BY <2>1 DEF row
  <2> QED BY <1>2, <2>3, <2>4, <2>5, RefineDoneKept
<1>4. CASE RefineJudge
  <2>1. PICK status \in {"cancelled", "succeeded"} :
          /\ tasks' = Saved(refining.task, As(refining.task, status))
          /\ Done /\ UNCHANGED called /\ WorldSame
    BY <1>4 DEF RefineJudge
  <2>2. /\ As(refining.task, status) \in RefineRows /\ As(refining.task, status) # Absent
        /\ As(refining.task, status).attempts = tasks[refining.task].attempts
    BY <1>2, RefineRowsAre DEF Statuses
  <2> QED BY <1>2, <2>1, <2>2, RefineDoneKept
<1> QED BY <1>3, <1>4

\* The run begins: every task that forgetting blocks is cancelled in the file.
LEMMA RefineStartKept ==
  ASSUME RefineInv, RefineStart
  PROVE  RefineInv' /\ MergeRight /\ EndRight
<1>0. RefineTypes /\ RefineUnderWay /\ RefinePaid /\ RefinementAssumption
  BY RefinementAssumption DEF RefineInv
<1>1. /\ tasks' = [t \in Tasks |-> Corrected(t, tasks[t])] /\ UNCHANGED called
      /\ refining' = [NoRun EXCEPT !.on = TRUE, !.todo = {t \in Tasks : Open(t) /\ t \notin forgotten}]
      /\ UNCHANGED <<candidate, holds, forgotten, permitted>>
  BY DEF RefineStart, WorldSame
<1>2. \A t \in Tasks :
        /\ tasks'[t] \in RefineRows /\ tasks'[t].attempts = tasks[t].attempts
        /\ tasks'[t].status = tasks[t].status \/ (tasks'[t].status = "cancelled" /\ t \in forgotten)
  <2> SUFFICES ASSUME NEW t \in Tasks
      PROVE /\ tasks'[t] \in RefineRows /\ tasks'[t].attempts = tasks[t].attempts
            /\ tasks'[t].status = tasks[t].status \/ (tasks'[t].status = "cancelled" /\ t \in forgotten)
    OBVIOUS
  <2>1. tasks[t] \in RefineRows /\ tasks'[t] = Corrected(t, tasks[t])
    BY <1>0, <1>1 DEF RefineTypes
  <2>2. CASE tasks'[t] = tasks[t]
    BY <2>1, <2>2
  <2>3. CASE tasks'[t] = [tasks[t] EXCEPT !.status = "cancelled"] /\ t \in forgotten
    BY <2>1, <2>3 DEF RefineRows, Statuses
  <2> QED BY <2>1, <2>2, <2>3 DEF Corrected
<1>3. refining' = [on |-> TRUE, todo |-> {t \in Tasks : Open(t) /\ t \notin forgotten}, task |-> NoTask,
                   at |-> "take", calls |-> 0]
  BY <1>1 DEF NoRun
<1>4. RefineTypes'
  <2>1. tasks' \in [Tasks -> RefineRows]
    BY <1>1, <1>2
  <2>2. refining' \in Runs
    BY <1>3 DEF Runs
  <2> QED BY <1>0, <1>1, <2>1, <2>2 DEF RefineTypes
<1>f. /\ refining'.on /\ refining'.at = "take" /\ refining'.task = NoTask
      /\ \A t \in refining'.todo : t \in Tasks /\ Open(t) /\ t \notin forgotten
  BY <1>3
<1>5. RefineUnderWay'
  <2>1. \A t \in refining'.todo : refining'.task # t /\ Open(t)'
    BY <1>0, <1>2, <1>f DEF Open, RefinementAssumption
  <2> QED BY <1>0, <1>f, <2>1 DEF RefineUnderWay, RefinementAssumption
<1>6. RefinePaid'
  <2>1. \A t \in Tasks : called'[t] <= tasks'[t].attempts
    BY <1>0, <1>1, <1>2 DEF RefinePaid
  <2> QED BY <1>f, <2>1 DEF RefinePaid
<1>7. MergeRight /\ EndRight
  BY <1>1, <1>2 DEF MergeRight, EndRight
<1> QED BY <1>4, <1>5, <1>6, <1>7 DEF RefineInv

LEMMA RefineTickKept ==
  ASSUME RefineInv, RefineTick
  PROVE  RefineInv' /\ MergeRight /\ EndRight
<1>0. RefineTypes /\ RefineUnderWay /\ RefinePaid /\ RefinementAssumption
  BY RefinementAssumption DEF RefineInv
<1>1. /\ tasks' = [t \in Tasks |-> [tasks[t] EXCEPT !.left = IF @ = 0 THEN 0 ELSE @ - 1]]
      /\ UNCHANGED <<candidate, holds, forgotten, permitted, refining, called>>
  BY DEF RefineTick, WorldSame
<1>2. \A t \in Tasks :
        /\ tasks'[t] \in RefineRows /\ tasks'[t].attempts = tasks[t].attempts
        /\ tasks'[t].status = tasks[t].status
  <2> SUFFICES ASSUME NEW t \in Tasks
      PROVE /\ tasks'[t] \in RefineRows /\ tasks'[t].attempts = tasks[t].attempts
            /\ tasks'[t].status = tasks[t].status
    OBVIOUS
  <2>1. /\ tasks[t] \in RefineRows /\ RefineAttempts \in Nat
        /\ tasks'[t] = [tasks[t] EXCEPT !.left = IF @ = 0 THEN 0 ELSE @ - 1]
    BY <1>0, <1>1 DEF RefineTypes, RefinementAssumption
  <2>2. (IF tasks[t].left = 0 THEN 0 ELSE tasks[t].left - 1) \in 0..RefineAttempts
    BY <2>1 DEF RefineRows
  <2> QED BY <2>1, <2>2 DEF RefineRows
<1>4. RefineTypes'
  <2>1. tasks' \in [Tasks -> RefineRows]
    BY <1>1, <1>2
  <2> QED BY <1>0, <1>1, <2>1 DEF RefineTypes
<1>5. RefineUnderWay'
  BY <1>0, <1>1, <1>2 DEF RefineUnderWay, Open, Runs, RefineTypes
<1>6. RefinePaid'
  BY <1>0, <1>1, <1>2 DEF RefinePaid
<1>7. MergeRight /\ EndRight
  BY <1>1, <1>2 DEF MergeRight, EndRight
<1> QED BY <1>4, <1>5, <1>6, <1>7 DEF RefineInv

\* What the world does, and what the run does without the ledger.
LEMMA RefineStillKept ==
  ASSUME RefineInv,
         \/ \E t \in Tasks : RefineDefer(t) \/ RefineEdit(t) \/ RefineDrift(t) \/ RefineForget(t)
         \/ RefineEnd \/ RefinePermit \/ RefineCrash
  PROVE  RefineInv' /\ MergeRight /\ EndRight
<1>0. RefineTypes /\ RefineUnderWay /\ RefinementAssumption
  BY RefinementAssumption DEF RefineInv
<1>1. UNCHANGED <<tasks, called>> /\ forgotten \subseteq forgotten' /\ forgotten' \subseteq Tasks
      /\ holds' \subseteq Tasks /\ permitted' \in BOOLEAN
  BY <1>0 DEF RefineDefer, RefineEdit, RefineDrift, RefineForget, RefineEnd, RefinePermit, RefineCrash, WorldSame,
     RefineTypes
<1>2. candidate' \in [Tasks -> {"proposed", "edited", "merged", "settled"}] /\ MergeRight
  <2>1. CASE UNCHANGED candidate
    BY <2>1, <1>0 DEF MergeRight, RefineTypes
  <2>2. CASE \E t \in Tasks : RefineEdit(t)
    <3>1. PICK t \in Tasks, state \in {"edited", "settled"} : candidate' = [candidate EXCEPT ![t] = state]
      BY <2>2 DEF RefineEdit
    <3> QED BY <3>1, <1>0 DEF MergeRight, RefineTypes
  <2> QED BY <2>1, <2>2 DEF RefineDefer, RefineDrift, RefineForget, RefineEnd, RefinePermit, RefineCrash, WorldSame
<1>3. \/ refining' = refining \/ refining' = NoRun
      \/ \E t \in Tasks : refining' = [refining EXCEPT !.todo = @ \ {t}]
  BY DEF RefineDefer, RefineEdit, RefineDrift, RefineForget, RefineEnd, RefinePermit, RefineCrash, WorldSame
<1>4. /\ refining' \in Runs
      /\ ~refining'.on => refining' = NoRun
      /\ refining'.at = "take" <=> refining'.task = NoTask
      /\ refining'.task \in {refining.task, NoTask} /\ refining'.todo \subseteq refining.todo
      /\ refining'.at = "barrier" => refining.at = "barrier"
  <2>1. CASE refining' = refining
    BY <2>1, <1>0 DEF RefineTypes, RefineUnderWay
  <2>2. CASE refining' = NoRun
    BY <2>2 DEF NoRun, Runs
  <2>3. CASE \E t \in Tasks : RefineDefer(t)
    <3>1. PICK t \in Tasks : RefineDefer(t)
      BY <2>3
    <3>2. refining' = [refining EXCEPT !.todo = @ \ {t}] /\ refining.on /\ refining \in Runs
      BY <3>1, <1>0 DEF RefineDefer, RefineMayCall, Taking, RefineTypes
    <3>3. refining' = [on |-> refining.on, todo |-> refining.todo \ {t}, task |-> refining.task,
                       at |-> refining.at, calls |-> refining.calls]
      BY <3>2 DEF Runs
    <3>4. refining' \in Runs
      BY <3>2, <3>3 DEF Runs
    <3> QED BY <3>2, <3>3, <3>4, <1>0 DEF RefineUnderWay
  <2> QED BY <2>1, <2>2, <2>3 DEF RefineDefer, RefineEdit, RefineDrift, RefineForget, RefineEnd, RefinePermit,
         RefineCrash
<1>5. RefineInv' /\ EndRight
  BY <1>1, <1>2, <1>4, StillStep
<1> QED BY <1>2, <1>5

LEMMA RefineInvNext ==
  ASSUME RefineInv, RefineNext
  PROVE  RefineInv' /\ MergeRight /\ EndRight
<1>1. CASE \E t \in Tasks : RefineEnqueue(t)
  BY <1>1, RefineEnqueueKept
<1>2. CASE \E t \in Tasks : RefineCancel(t) \/ RefineExhaust(t)
  BY <1>2, RefineCloseKept DEF RefineCancel, RefineExhaust
<1>3. CASE \E t \in Tasks : RefineBegin(t)
  BY <1>3, RefineBeginKept
<1>4. CASE RefineCall \/ RefineApply
  BY <1>4, RefineCallKept, RefineApplyKept
<1>5. CASE RefineFails \/ RefineJudge
  BY <1>5, RefineEndedKept
<1>6. CASE RefineStart \/ RefineTick
  BY <1>6, RefineStartKept, RefineTickKept
<1>7. CASE \/ \E t \in Tasks : RefineDefer(t) \/ RefineEdit(t) \/ RefineDrift(t) \/ RefineForget(t)
           \/ RefineEnd \/ RefinePermit \/ RefineCrash
  BY <1>7, RefineStillKept
<1> QED BY <1>1, <1>2, <1>3, <1>4, <1>5, <1>6, <1>7 DEF RefineNext, RefineRunStep

LEMMA RefineInvSame ==
  ASSUME RefineInv, UNCHANGED refineVars
  PROVE  RefineInv' /\ MergeRight /\ EndRight
BY DEF refineVars, RefineInv, RefineTypes, RefineUnderWay, RefinePaid, MergeRight, EndRight, Open
-----------------------------------------------------------------------------
(* Both ledgers: a step of one leaves the other as it is. *)
LedgersInv == RecoveryInv /\ RefineInv

LEMMA LedgersStep ==
  ASSUME LedgersInv, [MCNext]_ledgersVars
  PROVE  LedgersInv' /\ LedgersRight /\ MergeRight /\ EndRight
<1>1. CASE RecoveryNext /\ UNCHANGED refineVars
  BY <1>1, RecoveryInvNext, RefineInvSame DEF LedgersInv
<1>2. CASE RefineNext /\ UNCHANGED ledgerVars
  BY <1>2, RefineInvNext, RecoveryInvSame DEF LedgersInv
<1>3. CASE UNCHANGED ledgersVars
  <2>1. UNCHANGED ledgerVars /\ UNCHANGED refineVars
    BY <1>3 DEF ledgersVars
  <2> QED BY <2>1, RefineInvSame, RecoveryInvSame DEF LedgersInv
<1> QED BY <1>1, <1>2, <1>3 DEF MCNext

\* Whatever is submitted, drained, read, refused or lost in a crash, the rows of the inbox
\* and of the recovery ledger are well formed, one for an id; and a refinement task is
\* paid no more calls than its attempts, counted in the ledger before each of them
\* (capture-inbox.ts: submit 31-45, transcript-recovery.ts: submit 34-43,
\* refinement-tasks.ts:253, 265-267).
THEOREM LedgersAlwaysSafe == MCSpec => []LedgersSafe
<1>1. MCInit => LedgersInv
  BY RecoveryInvInit, RefineInvInit DEF MCInit, LedgersInv
<1>2. LedgersInv /\ [MCNext]_ledgersVars => LedgersInv'
  BY LedgersStep
<1>3. LedgersInv => LedgersSafe
  BY RecoveryInvSafe, RefineInvSafe DEF LedgersInv, LedgersSafe
<1> QED BY <1>1, <1>2, <1>3, PTL DEF MCSpec

\* A row leaves the inbox only with its evidence taken or declined, and the recovery
\* ledger only when its turn was revoked or its whole evidence is kept elsewhere; a task
\* merges only what still stands, and ends once (capture-inbox.ts: deliver 46-61,
\* transcript-recovery.ts: deliver 59-85, refinement-tasks.ts:93-97, 205, 270-290).
THEOREM LedgersAlwaysKeep == MCSpec => LedgersKeep
<1>1. MCInit => LedgersInv
  BY RecoveryInvInit, RefineInvInit DEF MCInit, LedgersInv
<1>2. LedgersInv /\ [MCNext]_ledgersVars => LedgersInv'
  BY LedgersStep
<1>3. LedgersInv /\ [MCNext]_ledgersVars =>
        [\A id \in RowIds(inbox) \ RowIds(inbox') : id \subseteq evidence' \cup declined']_inbox
  BY LedgersStep DEF LedgersRight, InboxRight
<1>4. LedgersInv /\ [MCNext]_ledgersVars =>
        [\A t \in RowIds(recovery) \ RowIds(recovery') :
           t \in revoked \/ Whole[t] \subseteq evidence \cup declined \cup UNION RowIds(inbox)]_recovery
  BY LedgersStep DEF LedgersRight, RecoveryRight
<1>5. LedgersInv /\ [MCNext]_ledgersVars =>
        [\A t \in Tasks : candidate'[t] = "merged" /\ candidate[t] # "merged" =>
           /\ Valid(t) /\ candidate[t] = "proposed" /\ tasks[t].status = "running"]_refineVars
  BY LedgersStep DEF MergeRight
<1>6. LedgersInv /\ [MCNext]_ledgersVars =>
        [\A t \in Tasks : tasks[t].status \in Ended /\ tasks'[t].status # tasks[t].status =>
           tasks'[t].status = "cancelled" /\ t \in forgotten]_refineVars
  BY LedgersStep DEF EndRight
<1>7. MCSpec => InboxKeeps
  BY <1>1, <1>2, <1>3, PTL DEF MCSpec, InboxKeeps
<1>8. MCSpec => RecoveryKeeps
  BY <1>1, <1>2, <1>4, PTL DEF MCSpec, RecoveryKeeps
<1>9. MCSpec => RefineMergesValid
  BY <1>1, <1>2, <1>5, PTL DEF MCSpec, RefineMergesValid
<1>10. MCSpec => RefineEndsOnce
  BY <1>1, <1>2, <1>6, PTL DEF MCSpec, RefineEndsOnce
<1> QED BY <1>7, <1>8, <1>9, <1>10, PTL DEF LedgersKeep
=============================================================================
