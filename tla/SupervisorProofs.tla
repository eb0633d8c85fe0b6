-------------------------- MODULE SupervisorProofs --------------------------
(***************************************************************************)
(* What doneCh means, and which generations escape the supervisor, for any *)
(* listeners, faults, and any number of reloads, drains and connections.   *)
(***************************************************************************)
EXTENDS Supervisor, FiniteSetTheorems, TLAPS

Busy(c) == cpc[c] \in {"stop", "wait", "force", "rebuild"}
Reloaded == {c \in ReloadCalls : cpc[c] = "reloaded"}

(* The generations are built one after the other: the first by Start, each *)
(* other one by a reload that succeeded, and the last one is the current   *)
(* one.  A call has found a generation that was built.                     *)
CountInv ==
  /\ cur = built
  /\ proc = "boot" => built = 0
  /\ proc = "up" => built >= 1
  /\ built <= 1 + Cardinality(Reloaded)
  /\ \A c \in DrainCalls : cpc[c] \in {"idle", "stop", "drained"}
  /\ \A c \in Calls : cpc[c] # "idle" => old[c] \in Gens /\ old[c] <= built

(* A generation that is still to be built has not begun.                   *)
FutureInv ==
  \A g \in Gens : g > built =>
    /\ gctx[g] = "none" /\ mpc[g] = "off" /\ open[g] = {}
    /\ \A l \in Listeners : lpc[g][l] = "off"

(* A listener is not open before run has bound it nor, unless it failed,   *)
(* after its Accept has; run returns when its handlers have.               *)
ListenerInv ==
  \A g \in Gens, l \in Listeners :
    /\ lpc[g][l] \in {"off", "bind"} => l \notin open[g]
    /\ lpc[g][l] \in {"drain", "stopped"} => l \notin open[g] \/ l \in Faulty
    /\ lpc[g][l] = "stopped" => conns[g][l] = 0

(* Manager.Start returns for one of two reasons: a listener failed, or the *)
(* context ended and after it all listeners did.                           *)
ManagerInv ==
  \A g \in Gens :
    /\ mpc[g] = "wgWait" => gctx[g] = "cancelled"
    /\ mpc[g] = "returned" =>
         Erred(g) \/ (gctx[g] = "cancelled" /\ \A l \in Listeners : lpc[g][l] = "stopped")

(* With one reload at a time it is the current generation that a reload    *)
(* stops, it has returned when the next one is built, and a generation     *)
(* that is live and no longer current is one whose listener failed.        *)
SerialInv ==
  SerialReloads =>
    /\ \A c, d \in ReloadCalls : Busy(c) /\ Busy(d) => c = d
    /\ \A c \in ReloadCalls : Busy(c) => old[c] = cur
    /\ \A c \in ReloadCalls : cpc[c] = "rebuild" => mpc[old[c]] = "returned"
    /\ \A g \in Gens : gctx[g] = "live" /\ g # cur => Erred(g)

(* If, besides, no listener fails for an outside reason, then none fails:  *)
(* when a generation binds, the earlier ones have stopped.                 *)
SoundInv ==
  SerialReloads /\ Faulty = {} =>
    \A g \in Gens : ~Erred(g) /\ (g < cur => \A l \in Listeners : lpc[g][l] = "stopped")
-----------------------------------------------------------------------------
(* Types, and how many generations there are.                              *)

\* The generations are numbered from 1 to one more than the reloads.
LEMMA GensCount ==
  /\ Cardinality(ReloadCalls) \in Nat
  /\ Gens = 1 .. (1 + Cardinality(ReloadCalls))
  /\ Cardinality(Gens) = 1 + Cardinality(ReloadCalls)
<1>1. Cardinality(ReloadCalls) \in Nat
  BY CallsAssumption, FS_CardinalityType
<1>2. 1 \in Int /\ 1 + Cardinality(ReloadCalls) \in Int
  BY <1>1
<1>3. Cardinality(1 .. (1 + Cardinality(ReloadCalls))) = 1 + Cardinality(ReloadCalls)
  BY <1>1, <1>2, FS_Interval
<1> QED BY <1>1, <1>3 DEF Gens

\* A reload that rebuilds is not counted yet, so that there is a number left
\* for the generation that it builds.
LEMMA RoomForNext ==
  ASSUME TypeOK, CountInv, NEW c \in Calls, cpc[c] = "rebuild"
  PROVE  /\ c \in ReloadCalls
         /\ built + 1 \in Gens
         /\ Cardinality(Reloaded \cup {c}) = Cardinality(Reloaded) + 1
<1>1. c \in ReloadCalls
  BY DEF CountInv, Calls
<1>2. c \notin Reloaded /\ Reloaded \cup {c} \subseteq ReloadCalls
  BY <1>1 DEF Reloaded
<1>3. IsFiniteSet(Reloaded)
  BY CallsAssumption, FS_Subset DEF Reloaded
<1>4. Cardinality(Reloaded) \in Nat /\ Cardinality(Reloaded \cup {c}) = Cardinality(Reloaded) + 1
  BY <1>2, <1>3, FS_CardinalityType, FS_AddElement
<1>5. Cardinality(Reloaded \cup {c}) <= Cardinality(ReloadCalls)
  BY <1>2, CallsAssumption, FS_Subset
<1>6. built \in Nat /\ built <= 1 + Cardinality(Reloaded)
  BY GensCount DEF TypeOK, CountInv
<1> QED BY <1>1, <1>4, <1>5, <1>6, GensCount

\* Build makes a generation and leaves the other ones alone.
LEMMA BuildEffect ==
  ASSUME TypeOK, CountInv, built + 1 \in Gens, Build
  PROVE  /\ built' = built + 1 /\ cur' = built'
         /\ built' \in 0 .. Cardinality(Gens)
         /\ gctx' \in [Gens -> {"none", "live", "cancelled"}]
         /\ mpc' \in [Gens -> {"off", "select", "wgWait", "returned"}]
         /\ lpc' \in [Gens -> [Listeners ->
                {"off", "bind", "accept", "drain", "stopped", "conflict", "fault"}]]
         /\ mpc'[built'] = "select"
         /\ \A l \in Listeners : lpc'[built'][l] = "bind"
         /\ \A g \in Gens : g # built' =>
              gctx'[g] = gctx[g] /\ mpc'[g] = mpc[g] /\ lpc'[g] = lpc[g]
<1>1. built' = built + 1 /\ cur' = built' /\ built' \in Gens
  BY DEF Build
<1>2. built' \in 0 .. Cardinality(Gens)
  BY <1>1, GensCount
<1>3. gctx' \in [Gens -> {"none", "live", "cancelled"}]
      /\ \A g \in Gens : g # built' => gctx'[g] = gctx[g]
  BY <1>1 DEF Build, TypeOK
<1>4. /\ mpc' \in [Gens -> {"off", "select", "wgWait", "returned"}]
      /\ mpc'[built'] = "select"
      /\ \A g \in Gens : g # built' => mpc'[g] = mpc[g]
  BY <1>1 DEF Build, TypeOK
<1>5. /\ lpc' \in [Gens -> [Listeners ->
              {"off", "bind", "accept", "drain", "stopped", "conflict", "fault"}]]
      /\ \A l \in Listeners : lpc'[built'][l] = "bind"
      /\ \A g \in Gens : g # built' => lpc'[g] = lpc[g]
  BY <1>1 DEF Build, TypeOK
<1> QED BY <1>1, <1>2, <1>3, <1>4, <1>5

\* The process starts with values of the right types.
LEMMA InitTypeOK == Init => TypeOK /\ CountInv
<1> SUFFICES ASSUME Init PROVE TypeOK /\ CountInv
  OBVIOUS
<1>1. cur \in 0 .. Cardinality(Gens) /\ built \in 0 .. Cardinality(Gens) /\ cur <= built
  BY GensCount DEF Init
<1>2. conns \in [Gens -> [Listeners -> 0 .. MaxConns]]
  BY MaxConnsAssumption DEF Init
<1>3. lpc \in [Gens -> [Listeners ->
             {"off", "bind", "accept", "drain", "stopped", "conflict", "fault"}]]
  BY DEF Init
<1>4. TypeOK
  BY <1>1, <1>2, <1>3 DEF Init, TypeOK, CallPc
<1>5. IsFiniteSet(Reloaded)
  BY CallsAssumption, FS_Subset DEF Reloaded
<1>6. Cardinality(Reloaded) \in Nat
  BY <1>5, FS_CardinalityType
<1>7. built <= 1 + Cardinality(Reloaded)
  BY <1>6 DEF Init
<1>8. \A c \in Calls : cpc[c] = "idle"
  BY DEF Init
<1> QED BY <1>4, <1>7, <1>8 DEF Init, CountInv, Calls

\* The number of the generations depends on the supervisor and the calls only.
LEMMA CountStable ==
  ASSUME CountInv, UNCHANGED <<cur, built, cpc, old>>, proc' = proc \/ (proc # "boot" /\ proc' = "exited")
  PROVE  CountInv'
<1>1. Reloaded' = Reloaded
  BY DEF Reloaded
<1> QED BY <1>1 DEF CountInv

\* A step of a call that is not a reload's last one.
CallMove(c) ==
  \/ Snapshot(c) \/ StopAccept(c) \/ StopAcceptDone(c)
  \/ Drained(c) \/ DrainTimeout(c) \/ ForceDone(c)

\* What such a step changes: the call, and what the call found.
LEMMA CallMoves ==
  ASSUME TypeOK, CountInv, NEW c \in Calls, CallMove(c)
  PROVE  /\ proc = "up" /\ UNCHANGED <<supVars, mpc, lpc, conns>>
         /\ cpc' \in [Calls -> CallPc] /\ old' \in [Calls -> Gens \cup {0}]
         /\ left' \in [Calls -> SUBSET Listeners]
         /\ gctx' \in [Gens -> {"none", "live", "cancelled"}]
         /\ open' \in [Gens -> SUBSET Listeners]
         /\ \A d \in Calls : d # c => cpc'[d] = cpc[d] /\ old'[d] = old[d]
         /\ cpc[c] # "reloaded" /\ cpc'[c] # "reloaded"
         /\ c \in DrainCalls => cpc'[c] \in {"idle", "stop", "drained"}
         /\ old'[c] \in Gens /\ old'[c] <= built
         /\ \A g \in Gens : open'[g] \subseteq open[g]
         /\ \A g \in Gens : gctx'[g] = gctx[g] \/ (gctx'[g] = "cancelled" /\ g <= built)
         /\ \A g \in Gens : open'[g] # open[g] => g <= built
<1> USE DEF TypeOK
<1>1. CASE Snapshot(c)
  <2>1. /\ proc = "up" /\ cpc[c] = "idle" /\ UNCHANGED <<supVars, genVars>>
        /\ cpc' = [cpc EXCEPT ![c] = "stop"] /\ old' = [old EXCEPT ![c] = cur]
        /\ left' = [left EXCEPT ![c] = Listeners]
    BY <1>1 DEF Snapshot, Up
  <2>2. cur \in Gens /\ cur <= built
    BY <2>1, GensCount DEF CountInv
  <2> QED BY <2>1, <2>2 DEF genVars, supVars, listenerVars, CallPc
<1>2. CASE StopAccept(c)
  <2>1. PICK l \in left[c] :
           /\ open' = [open EXCEPT ![old[c]] = @ \ {l}]
           /\ left' = [left EXCEPT ![c] = @ \ {l}]
    BY <1>2 DEF StopAccept
  <2>2. proc = "up" /\ cpc[c] = "stop" /\ UNCHANGED <<supVars, gctx, mpc, lpc, conns, cpc, old>>
    BY <1>2 DEF StopAccept, Up
  <2>3. old[c] \in Gens /\ old[c] <= built
    BY <2>2 DEF CountInv
  <2> QED BY <2>1, <2>2, <2>3 DEF CountInv
<1>3. CASE StopAcceptDone(c)
  <2>1. /\ proc = "up" /\ cpc[c] = "stop" /\ UNCHANGED <<supVars, genVars, old, left>>
        /\ cpc' = [cpc EXCEPT ![c] = IF c \in DrainCalls THEN "drained" ELSE "wait"]
    BY <1>3 DEF StopAcceptDone, Up
  <2>2. old[c] \in Gens /\ old[c] <= built
    BY <2>1 DEF CountInv
  <2> QED BY <2>1, <2>2 DEF genVars, listenerVars, CallPc
<1>4. CASE Drained(c) \/ ForceDone(c)
  <2>1. /\ proc = "up" /\ cpc[c] \in {"wait", "force"} /\ UNCHANGED <<supVars, genVars, old, left>>
        /\ cpc' = [cpc EXCEPT ![c] = "rebuild"]
    BY <1>4 DEF Drained, ForceDone, Up
  <2>2. old[c] \in Gens /\ old[c] <= built /\ c \notin DrainCalls
    BY <2>1 DEF CountInv
  <2> QED BY <2>1, <2>2 DEF genVars, listenerVars, CallPc
<1>5. CASE DrainTimeout(c)
  <2>1. /\ proc = "up" /\ cpc[c] = "wait" /\ UNCHANGED <<supVars, mpc, listenerVars, old, left>>
        /\ cpc' = [cpc EXCEPT ![c] = "force"]
        /\ gctx' = [gctx EXCEPT ![old[c]] = "cancelled"]
    BY <1>5 DEF DrainTimeout, Up
  <2>2. old[c] \in Gens /\ old[c] <= built /\ c \notin DrainCalls
    BY <2>1 DEF CountInv
  <2> QED BY <2>1, <2>2 DEF listenerVars, CallPc
<1> QED BY <1>1, <1>2, <1>3, <1>4, <1>5 DEF CallMove

\* A step of Manager.Start, and a step of a listener or its handlers.
ManagerMove(g) == SelectCtx(g) \/ SelectErr(g) \/ WgDone(g)
ListenerMove(g, l) ==
  \/ RunStep(g, l) \/ AcceptError(g, l) \/ CloseOnCtx(g, l)
  \/ Accept(g, l) \/ HandlerEnd(g, l)

\* A listener and its handlers keep their types: the wait group is decremented only for
\* a handler that it counts.
LEMMA ListenerTypes ==
  ASSUME TypeOK, NEW g \in Gens, NEW l \in Listeners, ListenerMove(g, l)
  PROVE  /\ proc = "up" /\ UNCHANGED <<supVars, gctx, mpc, callVars>>
         /\ lpc' \in [Gens -> [Listeners ->
                {"off", "bind", "accept", "drain", "stopped", "conflict", "fault"}]]
         /\ open' \in [Gens -> SUBSET Listeners]
         /\ conns' \in [Gens -> [Listeners -> 0 .. MaxConns]]
<1> USE DEF TypeOK, Up
<1>1. CASE \/ BindError(g, l) \/ AcceptClosed(g, l) \/ RunReturns(g, l) \/ AcceptError(g, l)
  <2>1. proc = "up" /\ UNCHANGED <<supVars, gctx, mpc, open, conns, callVars>>
    BY <1>1 DEF BindError, AcceptClosed, RunReturns, AcceptError
  <2>2. \E label \in {"conflict", "fault", "drain", "stopped"} : SetListener(g, l, label)
    BY <1>1 DEF BindError, AcceptClosed, RunReturns, AcceptError
  <2>3. lpc' \in [Gens -> [Listeners ->
             {"off", "bind", "accept", "drain", "stopped", "conflict", "fault"}]]
    BY <2>2 DEF SetListener
  <2> QED BY <2>1, <2>3
<1>2. CASE Bind(g, l)
  BY <1>2 DEF Bind, SetListener
<1>3. CASE CloseOnCtx(g, l)
  BY <1>3 DEF CloseOnCtx
<1>4. CASE Accept(g, l)
  <2>1. conns[g][l] \in 0 .. MaxConns /\ conns[g][l] + 1 \in 0 .. MaxConns
    BY <1>4, MaxConnsAssumption DEF Accept
  <2> QED BY <1>4, <2>1 DEF Accept
<1>5. CASE HandlerEnd(g, l)
  <2>1. conns[g][l] \in 0 .. MaxConns /\ conns[g][l] - 1 \in 0 .. MaxConns
    BY <1>5, MaxConnsAssumption DEF HandlerEnd
  <2> QED BY <1>5, <2>1 DEF HandlerEnd
<1> QED BY <1>1, <1>2, <1>3, <1>4, <1>5 DEF ListenerMove, RunStep

\* Every step keeps the types and the counts.
LEMMA NextTypeOK == TypeOK /\ CountInv /\ [Next]_vars => TypeOK' /\ CountInv'
<1> SUFFICES ASSUME TypeOK, CountInv, [Next]_vars PROVE TypeOK' /\ CountInv'
  OBVIOUS
<1> USE DEF supVars, genVars, listenerVars, callVars
<1>1. CASE Start
  <2>1. proc = "boot" /\ UNCHANGED <<quit, open, conns, callVars>>
    BY <1>1 DEF Start
  <2>2. built = 0 /\ built + 1 \in Gens
    BY <2>1, GensCount DEF CountInv
  <2>3. Reloaded' = Reloaded
    BY <2>1 DEF Reloaded
  <2>4. CASE proc' = "up" /\ Build
    <3>1. TypeOK'
      BY <2>1, <2>2, <2>4, BuildEffect, GensCount DEF TypeOK
    <3>2. IsFiniteSet(Reloaded)
      BY CallsAssumption, FS_Subset DEF Reloaded
    <3>3. Cardinality(Reloaded) \in Nat
      BY <3>2, FS_CardinalityType
    <3>4. built' = 1 /\ cur' = 1 /\ built' <= 1 + Cardinality(Reloaded')
      BY <2>2, <2>3, <2>4, <3>3, BuildEffect
    <3>5. \A c \in Calls : cpc[c] # "idle" => old[c] \in Gens /\ old[c] <= 1
      BY <2>2, GensCount DEF CountInv
    <3> QED BY <2>1, <2>4, <3>1, <3>4, <3>5 DEF CountInv
  <2>5. CASE proc' = "exited" /\ UNCHANGED <<cur, built, gctx, mpc, lpc>>
    BY <2>1, <2>3, <2>5 DEF TypeOK, CountInv
  <2> QED BY <1>1, <2>4, <2>5 DEF Start
<1>2. ASSUME NEW c \in Calls, CallMove(c) PROVE TypeOK' /\ CountInv'
  <2>1. TypeOK'
    BY <1>2, CallMoves DEF TypeOK
  <2>2. Reloaded' = Reloaded
    BY <1>2, CallMoves DEF Reloaded, Calls
  <2>3. /\ \A d \in DrainCalls : cpc'[d] \in {"idle", "stop", "drained"}
        /\ \A d \in Calls : cpc'[d] # "idle" => old'[d] \in Gens /\ old'[d] <= built
    BY <1>2, CallMoves DEF CountInv, Calls
  <2> QED BY <1>2, <2>1, <2>2, <2>3, CallMoves DEF CountInv
<1>3. ASSUME NEW c \in Calls, Rebuild(c) PROVE TypeOK' /\ CountInv'
  <2>1. /\ proc = "up" /\ cpc[c] = "rebuild" /\ UNCHANGED <<proc, quit, open, conns, old, left>>
    BY <1>3 DEF Rebuild, Up
  <2>2. c \in ReloadCalls /\ built + 1 \in Gens
    BY <2>1, RoomForNext
  <2>3. \A d \in DrainCalls : d # c
    BY <2>2, CallsAssumption
  <2>4. CASE cpc' = [cpc EXCEPT ![c] = "reloaded"] /\ Build
    <3>1. cpc' \in [Calls -> CallPc] /\ Reloaded' = Reloaded \cup {c}
      BY <2>2, <2>4 DEF TypeOK, CallPc, Reloaded, Calls
    <3>2. TypeOK'
      BY <2>1, <2>2, <2>4, <3>1, BuildEffect, GensCount DEF TypeOK
    <3>3. Cardinality(Reloaded') = Cardinality(Reloaded) + 1
      BY <2>1, <3>1, RoomForNext
    <3>4. IsFiniteSet(Reloaded)
      BY CallsAssumption, FS_Subset DEF Reloaded
    <3>5. Cardinality(Reloaded) \in Nat
      BY <3>4, FS_CardinalityType
    <3>6. built \in Nat /\ built <= 1 + Cardinality(Reloaded)
      BY GensCount DEF TypeOK, CountInv
    <3>7. built' = built + 1 /\ cur' = built' /\ built' >= 1 /\ built' <= 1 + Cardinality(Reloaded')
      BY <2>2, <2>4, <3>3, <3>5, <3>6, BuildEffect
    <3>8. \A d \in DrainCalls : cpc'[d] \in {"idle", "stop", "drained"}
      BY <2>3, <2>4 DEF TypeOK, CountInv, Calls
    <3>9. \A d \in Calls : cpc'[d] # "idle" => old[d] \in Gens /\ old[d] <= built
      BY <2>1, <2>4 DEF TypeOK, CountInv
    <3>10. \A d \in Calls : cpc'[d] # "idle" => old'[d] \in Gens /\ old'[d] <= built'
      BY <2>1, <3>6, <3>7, <3>9, GensCount
    <3> QED BY <2>1, <3>2, <3>7, <3>8, <3>10 DEF CountInv
  <2>5. CASE cpc' = [cpc EXCEPT ![c] = "failed"] /\ UNCHANGED <<cur, built, gctx, mpc, lpc>>
    <3>1. TypeOK'
      BY <2>1, <2>5 DEF TypeOK, CallPc
    <3>2. Reloaded' = Reloaded
      BY <2>1, <2>5 DEF TypeOK, Reloaded, Calls
    <3>3. \A d \in DrainCalls : cpc'[d] \in {"idle", "stop", "drained"}
      BY <2>3, <2>5 DEF TypeOK, CountInv, Calls
    <3>4. \A d \in Calls : cpc'[d] # "idle" => old'[d] \in Gens /\ old'[d] <= built
      BY <2>1, <2>5 DEF TypeOK, CountInv
    <3> QED BY <2>1, <2>5, <3>1, <3>2, <3>3, <3>4 DEF CountInv
  <2> QED BY <1>3, <2>4, <2>5 DEF Rebuild
<1>4. ASSUME NEW g \in Gens, ManagerMove(g) PROVE TypeOK' /\ CountInv'
  <2>1. UNCHANGED <<supVars, gctx, listenerVars, callVars>>
    BY <1>4 DEF ManagerMove, SelectCtx, SelectErr, WgDone
  <2>2. mpc' \in [Gens -> {"off", "select", "wgWait", "returned"}]
    BY <1>4 DEF ManagerMove, SelectCtx, SelectErr, WgDone, TypeOK
  <2> QED BY <2>1, <2>2, CountStable DEF TypeOK
<1>5. ASSUME NEW g \in Gens, NEW l \in Listeners, ListenerMove(g, l) PROVE TypeOK' /\ CountInv'
  BY <1>5, ListenerTypes, CountStable DEF TypeOK
<1>6. CASE Quit
  <2>1. /\ proc = "up" /\ UNCHANGED <<proc, cur, built, mpc, listenerVars, callVars>>
        /\ quit' = TRUE
        /\ gctx' = [g \in Gens |-> IF gctx[g] = "none" THEN "none" ELSE "cancelled"]
    BY <1>6 DEF Quit, Up
  <2> QED BY <2>1, CountStable DEF TypeOK
<1>7. CASE Exit
  BY <1>7, CountStable DEF Exit, Up, TypeOK
<1>8. CASE UNCHANGED vars
  BY <1>8, CountStable DEF vars, TypeOK
<1> QED
  BY <1>1, <1>2, <1>3, <1>4, <1>5, <1>6, <1>7, <1>8
  DEF Next, CallMove, CallStep, ManagerMove, ListenerMove, Over

(* Every reachable state is well typed: the wait group of a listener is    *)
(* never negative, and the supervisor refers to a generation it has built. *)
THEOREM SupervisorTypeCorrect == Spec => []TypeOK
<1>1. Init => TypeOK /\ CountInv
  BY InitTypeOK
<1>2. TypeOK /\ CountInv /\ [Next]_vars => TypeOK' /\ CountInv'
  BY NextTypeOK
<1> QED BY <1>1, <1>2, PTL DEF Spec
-----------------------------------------------------------------------------
(* doneCh.                                                                 *)

GenInv == FutureInv /\ ListenerInv /\ ManagerInv

\* Contexts end for good and listeners only close: what is known of a generation stays
\* true under a step that changes neither its goroutines' places nor its handlers.
LEMMA GenStable ==
  ASSUME TypeOK, GenInv, UNCHANGED <<built, mpc, lpc, conns>>,
         \A g \in Gens : open'[g] \subseteq open[g],
         \A g \in Gens : gctx'[g] = gctx[g] \/ (gctx'[g] = "cancelled" /\ g <= built)
  PROVE  GenInv'
<1>0. \A g \in Gens : g > built => ~(g <= built)
  BY GensCount DEF TypeOK
<1>1. FutureInv'
  BY <1>0 DEF GenInv, FutureInv
<1>2. ListenerInv'
  BY DEF GenInv, ListenerInv
<1>3. ManagerInv'
  <2>1. \A g \in Gens : gctx[g] = "cancelled" => gctx'[g] = "cancelled"
    OBVIOUS
  <2>2. \A g \in Gens : Erred(g)' <=> Erred(g)
    BY DEF Erred
  <2> QED BY <2>1, <2>2 DEF GenInv, ManagerInv
<1> QED BY <1>1, <1>2, <1>3 DEF GenInv

\* A new generation starts with its context, its manager and its listeners at the
\* beginning.
LEMMA BuildGen ==
  ASSUME TypeOK, CountInv, GenInv, built + 1 \in Gens, Build, UNCHANGED <<open, conns>>
  PROVE  GenInv'
<1>1. built \in Int
  BY GensCount DEF TypeOK
<1>2. FutureInv'
  <2> SUFFICES ASSUME NEW g \in Gens, g > built'
               PROVE  /\ gctx'[g] = "none" /\ mpc'[g] = "off" /\ open'[g] = {}
                      /\ \A l \in Listeners : lpc'[g][l] = "off"
    BY DEF FutureInv
  <2>1. g # built' /\ g > built
    BY <1>1, GensCount, BuildEffect
  <2> QED BY <2>1, BuildEffect DEF GenInv, FutureInv
<1>3. open[built'] = {}
  BY <1>1, BuildEffect DEF GenInv, FutureInv
<1>4. ListenerInv'
  <2> SUFFICES ASSUME NEW g \in Gens, NEW l \in Listeners
               PROVE  /\ lpc'[g][l] \in {"off", "bind"} => l \notin open'[g]
                      /\ lpc'[g][l] \in {"drain", "stopped"} => l \notin open'[g] \/ l \in Faulty
                      /\ lpc'[g][l] = "stopped" => conns'[g][l] = 0
    BY DEF ListenerInv
  <2>1. CASE g = built'
    BY <1>3, <2>1, BuildEffect
  <2>2. CASE g # built'
    BY <2>2, BuildEffect DEF GenInv, ListenerInv
  <2> QED BY <2>1, <2>2
<1>5. ManagerInv'
  <2> SUFFICES ASSUME NEW g \in Gens
               PROVE  /\ mpc'[g] = "wgWait" => gctx'[g] = "cancelled"
                      /\ mpc'[g] = "returned" =>
                           \/ Erred(g)'
                           \/ /\ gctx'[g] = "cancelled"
                              /\ \A l \in Listeners : lpc'[g][l] = "stopped"
    BY DEF ManagerInv
  <2>1. CASE g = built'
    BY <2>1, BuildEffect
  <2>2. CASE g # built'
    <3>1. gctx'[g] = gctx[g] /\ mpc'[g] = mpc[g] /\ lpc'[g] = lpc[g]
      BY <2>2, BuildEffect
    <3>2. Erred(g)' <=> Erred(g)
      BY <3>1 DEF Erred
    <3> QED BY <3>1, <3>2 DEF GenInv, ManagerInv
  <2> QED BY <2>1, <2>2
<1> QED BY <1>2, <1>4, <1>5 DEF GenInv

\* Manager.Start returns for one of the two reasons.
LEMMA ManagerMoves ==
  ASSUME TypeOK, GenInv, NEW g \in Gens, ManagerMove(g)
  PROVE  GenInv'
<1>1. UNCHANGED <<supVars, gctx, listenerVars, callVars>>
  BY DEF ManagerMove, SelectCtx, SelectErr, WgDone
<1>2. UNCHANGED <<built, gctx, lpc, open, conns>>
  BY <1>1 DEF supVars, listenerVars
<1>3. \A h \in Gens : Erred(h)' <=> Erred(h)
  BY <1>2 DEF Erred
<1>4. mpc[g] # "off" /\ \A h \in Gens : h # g => mpc'[h] = mpc[h]
  BY DEF ManagerMove, SelectCtx, SelectErr, WgDone, TypeOK
<1>5. FutureInv'
  BY <1>2, <1>4 DEF GenInv, FutureInv
<1>6. ListenerInv'
  BY <1>2 DEF GenInv, ListenerInv
<1>7. /\ mpc'[g] = "wgWait" => gctx[g] = "cancelled"
      /\ mpc'[g] = "returned" =>
           Erred(g) \/ (gctx[g] = "cancelled" /\ \A l \in Listeners : lpc[g][l] = "stopped")
  <2>1. CASE SelectCtx(g)
    BY <2>1 DEF SelectCtx, TypeOK
  <2>2. CASE SelectErr(g)
    BY <2>2 DEF SelectErr, TypeOK
  <2>3. CASE WgDone(g)
    BY <2>3 DEF WgDone, TypeOK, GenInv, ManagerInv, Ended, Erred
  <2> QED BY <2>1, <2>2, <2>3 DEF ManagerMove
<1>8. ManagerInv'
  BY <1>2, <1>3, <1>4, <1>7 DEF GenInv, ManagerInv
<1> QED BY <1>5, <1>6, <1>8 DEF GenInv

\* The places of a listener: it binds, accepts, drains and stops, and an error is final.
LEMMA ListenerMoves ==
  ASSUME TypeOK, GenInv, NEW g \in Gens, NEW l \in Listeners, ListenerMove(g, l)
  PROVE  /\ \A h \in Gens, k \in Listeners : <<h, k>> # <<g, l>> =>
              /\ lpc'[h][k] = lpc[h][k] /\ conns'[h][k] = conns[h][k]
              /\ k \in open'[h] <=> k \in open[h]
         /\ lpc'[g][l] # lpc[g][l] =>
              lpc[g][l] \notin {"off", "stopped", "conflict", "fault"}
         /\ lpc[g][l] = "off" => l \notin open'[g]
         /\ lpc'[g][l] \in {"off", "bind"} => l \notin open'[g]
         /\ lpc'[g][l] \in {"drain", "stopped"} => l \notin open'[g] \/ l \in Faulty
         /\ lpc'[g][l] = "stopped" => conns'[g][l] = 0
         /\ lpc'[g][l] = "conflict" =>
              lpc[g][l] = "conflict" \/ (lpc[g][l] = "bind" /\ \E h \in Gens : l \in open[h])
         /\ lpc'[g][l] = "fault" => lpc[g][l] = "fault" \/ l \in Faulty
<1>0. /\ lpc[g][l] \in {"off", "bind"} => l \notin open[g]
      /\ lpc[g][l] \in {"drain", "stopped"} => l \notin open[g] \/ l \in Faulty
      /\ lpc[g][l] = "stopped" => conns[g][l] = 0
  BY DEF GenInv, ListenerInv
<1> USE DEF TypeOK, SetListener, listenerVars
<1>1. CASE Bind(g, l)
  BY <1>0, <1>1 DEF Bind
<1>2. CASE BindError(g, l)
  BY <1>0, <1>2 DEF BindError
<1>3. CASE CloseOnCtx(g, l)
  BY <1>0, <1>3 DEF CloseOnCtx
<1>4. CASE Accept(g, l)
  BY <1>0, <1>4 DEF Accept
<1>5. CASE AcceptClosed(g, l)
  BY <1>0, <1>5 DEF AcceptClosed
<1>6. CASE AcceptError(g, l)
  BY <1>0, <1>6 DEF AcceptError
<1>7. CASE RunReturns(g, l)
  BY <1>0, <1>7 DEF RunReturns
<1>8. CASE HandlerEnd(g, l)
  BY <1>0, <1>8 DEF HandlerEnd
<1> QED BY <1>1, <1>2, <1>3, <1>4, <1>5, <1>6, <1>7, <1>8 DEF ListenerMove, RunStep

\* An error in errCh stays there, and a listener that stopped has stopped.
LEMMA ListenerGen ==
  ASSUME TypeOK, GenInv, NEW g \in Gens, NEW l \in Listeners, ListenerMove(g, l)
  PROVE  /\ GenInv'
         /\ \A h \in Gens : Erred(h) => Erred(h)'
         /\ \A h \in Gens, k \in Listeners : lpc[h][k] = "stopped" => lpc'[h][k] = "stopped"
<1>1. UNCHANGED <<built, gctx, mpc>>
  BY ListenerTypes DEF supVars
<1>2. open \in [Gens -> SUBSET Listeners] /\ open' \in [Gens -> SUBSET Listeners]
  BY ListenerTypes DEF TypeOK
<1>3. FutureInv'
  <2> SUFFICES ASSUME NEW h \in Gens, h > built
               PROVE  /\ gctx[h] = "none" /\ mpc[h] = "off" /\ open'[h] = {}
                      /\ \A k \in Listeners : lpc'[h][k] = "off"
    BY <1>1 DEF FutureInv
  <2>1. /\ gctx[h] = "none" /\ mpc[h] = "off" /\ open[h] = {}
        /\ \A k \in Listeners : lpc[h][k] = "off"
    BY DEF GenInv, FutureInv
  <2>2. \A k \in Listeners : lpc'[h][k] = "off"
    BY <2>1, ListenerMoves
  <2>3. \A k \in Listeners : k \notin open'[h]
    BY <2>1, ListenerMoves
  <2> QED BY <1>2, <2>1, <2>2, <2>3
<1>4. ListenerInv'
  <2> SUFFICES ASSUME NEW h \in Gens, NEW k \in Listeners
               PROVE  /\ lpc'[h][k] \in {"off", "bind"} => k \notin open'[h]
                      /\ lpc'[h][k] \in {"drain", "stopped"} => k \notin open'[h] \/ k \in Faulty
                      /\ lpc'[h][k] = "stopped" => conns'[h][k] = 0
    BY DEF ListenerInv
  <2>1. CASE <<h, k>> = <<g, l>>
    BY <2>1, ListenerMoves
  <2>2. CASE <<h, k>> # <<g, l>>
    BY <2>2, ListenerMoves DEF GenInv, ListenerInv
  <2> QED BY <2>1, <2>2
<1>5. \A h \in Gens, k \in Listeners :
        lpc[h][k] \in {"stopped", "conflict", "fault"} => lpc'[h][k] = lpc[h][k]
  BY ListenerMoves
<1>6. \A h \in Gens : Erred(h) => Erred(h)'
  BY <1>5 DEF Erred
<1>7. ManagerInv'
  BY <1>1, <1>5, <1>6 DEF GenInv, ManagerInv
<1> QED BY <1>3, <1>4, <1>5, <1>6, <1>7 DEF GenInv

\* Every step keeps what is known of the generations.
LEMMA NextGen == TypeOK /\ CountInv /\ GenInv /\ [Next]_vars => GenInv'
<1> SUFFICES ASSUME TypeOK, CountInv, GenInv, [Next]_vars PROVE GenInv'
  OBVIOUS
<1> USE DEF supVars, genVars, listenerVars
<1>0. \A g \in Gens : g <= built \/ g > built
  BY GensCount DEF TypeOK
<1>1. CASE Start
  <2>1. proc = "boot" /\ UNCHANGED <<open, conns>>
    BY <1>1 DEF Start
  <2>2. built + 1 \in Gens
    BY <2>1, GensCount DEF CountInv
  <2>3. Build \/ UNCHANGED <<cur, built, gctx, mpc, lpc>>
    BY <1>1 DEF Start
  <2> QED BY <2>1, <2>2, <2>3, BuildGen, GenStable
<1>2. ASSUME NEW c \in Calls, CallMove(c) PROVE GenInv'
  <2>1. UNCHANGED <<built, mpc, lpc, conns>> /\ \A g \in Gens : open'[g] \subseteq open[g]
    BY <1>2, CallMoves
  <2>2. \A g \in Gens : gctx'[g] = gctx[g] \/ (gctx'[g] = "cancelled" /\ g <= built)
    BY <1>2, CallMoves
  <2> QED BY <2>1, <2>2, GenStable
<1>3. ASSUME NEW c \in Calls, Rebuild(c) PROVE GenInv'
  <2>1. cpc[c] = "rebuild" /\ UNCHANGED <<open, conns>>
    BY <1>3 DEF Rebuild
  <2>2. built + 1 \in Gens
    BY <2>1, RoomForNext
  <2>3. Build \/ UNCHANGED <<cur, built, gctx, mpc, lpc>>
    BY <1>3 DEF Rebuild
  <2> QED BY <2>1, <2>2, <2>3, BuildGen, GenStable
<1>4. ASSUME NEW g \in Gens, ManagerMove(g) PROVE GenInv'
  BY <1>4, ManagerMoves
<1>5. ASSUME NEW g \in Gens, NEW l \in Listeners, ListenerMove(g, l) PROVE GenInv'
  BY <1>5, ListenerGen
<1>6. CASE Quit
  <2>1. /\ UNCHANGED <<built, mpc, lpc, open, conns>>
        /\ gctx' = [g \in Gens |-> IF gctx[g] = "none" THEN "none" ELSE "cancelled"]
    BY <1>6 DEF Quit
  <2>2. \A g \in Gens : gctx'[g] = gctx[g] \/ (gctx'[g] = "cancelled" /\ g <= built)
    BY <1>0, <2>1 DEF GenInv, FutureInv
  <2> QED BY <2>1, <2>2, GenStable
<1>7. CASE Exit \/ UNCHANGED vars
  BY <1>7, GenStable DEF Exit, vars
<1> QED
  BY <1>1, <1>2, <1>3, <1>4, <1>5, <1>6, <1>7
  DEF Next, CallMove, CallStep, ManagerMove, ListenerMove, Over

\* At the start there is no generation.
LEMMA InitGen == Init => GenInv
<1> SUFFICES ASSUME Init PROVE GenInv
  OBVIOUS
<1>1. \A g \in Gens :
        /\ gctx[g] = "none" /\ mpc[g] = "off" /\ open[g] = {}
        /\ \A l \in Listeners : lpc[g][l] = "off"
  BY DEF Init
<1> QED BY <1>1 DEF GenInv, FutureInv, ListenerInv, ManagerInv

(* doneCh means what Reload takes it for.  Manager.Start returns on the    *)
(* first error or, after the context, when all listeners have returned: if *)
(* none failed, the listeners are closed and the handlers are gone, however*)
(* many reloads, drains, clients and the signal interleave.                *)
THEOREM DoneMeansDone == Spec => []DoneMeansStopped
<1>1. Init => TypeOK /\ CountInv /\ GenInv
  BY InitTypeOK, InitGen
<1>2. TypeOK /\ CountInv /\ GenInv /\ [Next]_vars => (TypeOK /\ CountInv /\ GenInv)'
  BY NextTypeOK, NextGen
<1>3. TypeOK /\ GenInv => DoneMeansStopped
  <2> SUFFICES ASSUME TypeOK, GenInv, NEW g \in Gens, mpc[g] = "returned", ~Erred(g)
               PROVE  /\ open[g] \subseteq Faulty
                      /\ \A l \in Listeners : lpc[g][l] = "stopped" /\ conns[g][l] = 0
    BY DEF DoneMeansStopped
  <2>1. \A l \in Listeners : lpc[g][l] = "stopped"
    BY DEF GenInv, ManagerInv
  <2>2. \A l \in Listeners : conns[g][l] = 0 /\ (l \notin open[g] \/ l \in Faulty)
    BY <2>1 DEF GenInv, ListenerInv
  <2>3. open[g] \subseteq Listeners
    BY DEF TypeOK
  <2> QED BY <2>1, <2>2, <2>3
<1> QED BY <1>1, <1>2, <1>3, PTL DEF Spec
-----------------------------------------------------------------------------
(* Which generations escape the supervisor.                                *)

\* A step that leaves the calls and the current generation alone, gives no context its
\* life back, and takes back no error and no return of Manager.Start.
LEMMA SerialStable ==
  ASSUME TypeOK, CountInv, SerialInv, UNCHANGED <<cur, cpc, old>>,
         \A g \in Gens : gctx'[g] = "live" => gctx[g] = "live",
         \A g \in Gens : mpc[g] = "returned" => mpc'[g] = "returned",
         \A g \in Gens : Erred(g) => Erred(g)'
  PROVE  SerialInv'
<1>1. \A c \in Calls : Busy(c)' <=> Busy(c)
  BY DEF Busy
<1>2. \A c \in Calls : cpc[c] = "rebuild" => old[c] \in Gens
  BY DEF CountInv
<1> QED BY <1>1, <1>2 DEF SerialInv, Calls

\* A call stops the generation that is the current one for as long as it is under way.
LEMMA SerialCall ==
  ASSUME TypeOK, CountInv, SerialInv, NEW c \in Calls, CallMove(c)
  PROVE  SerialInv'
<1> SUFFICES ASSUME SerialReloads
             PROVE  /\ \A d, e \in ReloadCalls : Busy(d)' /\ Busy(e)' => d = e
                    /\ \A d \in ReloadCalls : Busy(d)' => old'[d] = cur'
                    /\ \A d \in ReloadCalls : cpc'[d] = "rebuild" => mpc'[old'[d]] = "returned"
                    /\ \A g \in Gens : gctx'[g] = "live" /\ g # cur' => Erred(g)'
  BY DEF SerialInv
<1>1. /\ UNCHANGED <<cur, mpc, lpc>>
      /\ \A d \in Calls : d # c => cpc'[d] = cpc[d] /\ old'[d] = old[d]
      /\ \A g \in Gens : gctx'[g] = gctx[g] \/ gctx'[g] = "cancelled"
  BY CallMoves DEF supVars
<1>2. \A d \in Calls : d # c => (Busy(d)' <=> Busy(d))
  BY <1>1 DEF Busy
<1>3. \A g \in Gens : gctx'[g] = "live" /\ g # cur' => Erred(g)'
  BY <1>1 DEF SerialInv, Erred
<1>4. CASE c \notin ReloadCalls
  <2>1. \A d \in ReloadCalls : d \in Calls /\ d # c
    BY <1>4 DEF Calls
  <2> QED BY <1>1, <1>2, <1>3, <2>1 DEF SerialInv
<1>5. CASE c \in ReloadCalls /\ Snapshot(c)
  <2>1. \A d \in ReloadCalls : ~Busy(d)
    BY <1>5 DEF Snapshot, Busy
  <2>2. cpc'[c] = "stop" /\ old'[c] = cur
    BY <1>5 DEF Snapshot, TypeOK
  <2>3. \A d \in ReloadCalls : Busy(d)' => d = c
    BY <1>2, <2>1 DEF Calls
  <2>4. \A d \in ReloadCalls : cpc'[d] # "rebuild"
    BY <2>2, <2>3 DEF Busy
  <2> QED BY <1>1, <1>3, <2>2, <2>3, <2>4
<1>6. CASE c \in ReloadCalls /\ ~Snapshot(c)
  <2>1. Busy(c) /\ UNCHANGED old
    BY <1>6 DEF CallMove, StopAccept, StopAcceptDone, Drained, DrainTimeout, ForceDone, Busy
  <2>2. cpc'[c] = "rebuild" => mpc[old[c]] = "returned"
    <3>1. CASE StopAccept(c)
      BY <3>1 DEF StopAccept
    <3>2. CASE StopAcceptDone(c)
      BY <3>2 DEF StopAcceptDone, TypeOK
    <3>3. CASE DrainTimeout(c)
      BY <3>3 DEF DrainTimeout, TypeOK
    <3>4. CASE Drained(c) \/ ForceDone(c)
      BY <3>4 DEF Drained, ForceDone
    <3> QED BY <1>6, <3>1, <3>2, <3>3, <3>4 DEF CallMove
  <2>3. \A d \in ReloadCalls : Busy(d)' => Busy(d)
    BY <1>2, <2>1 DEF Calls
  <2>4. \A d \in ReloadCalls : cpc'[d] = "rebuild" => mpc[old[d]] = "returned"
    BY <1>1, <2>2 DEF SerialInv, Calls
  <2> QED BY <1>1, <1>3, <2>1, <2>3, <2>4 DEF SerialInv
<1> QED BY <1>4, <1>5, <1>6

\* The reload that builds is the only one under way, and the generation that it replaces
\* has returned: it is stopped unless one of its listeners failed.
LEMMA SerialRebuild ==
  ASSUME TypeOK, CountInv, GenInv, SerialInv, NEW c \in Calls, Rebuild(c), SerialReloads
  PROVE  /\ SerialInv'
         /\ cur \in Gens /\ (Erred(cur) \/ \A l \in Listeners : lpc[cur][l] = "stopped")
<1>1. /\ cpc[c] = "rebuild" /\ Busy(c)
      /\ UNCHANGED old /\ \A d \in Calls : d # c => cpc'[d] = cpc[d]
  BY DEF Rebuild, Busy, TypeOK
<1>2. c \in ReloadCalls /\ built + 1 \in Gens
  BY <1>1, RoomForNext
<1>3. old[c] = cur /\ cur \in Gens /\ mpc[cur] = "returned"
  BY <1>1, <1>2 DEF SerialInv, CountInv
<1>4. \/ Erred(cur)
      \/ gctx[cur] = "cancelled" /\ \A l \in Listeners : lpc[cur][l] = "stopped"
  BY <1>3 DEF GenInv, ManagerInv
<1>5. \A d \in ReloadCalls : ~Busy(d)'
  <2> TAKE d \in ReloadCalls
  <2>1. CASE d = c
    BY <1>1, <2>1 DEF Rebuild, Busy, TypeOK
  <2>2. CASE d # c
    BY <1>1, <1>2, <2>2 DEF SerialInv, Busy, Calls
  <2> QED BY <2>1, <2>2
<1>6. \A d \in ReloadCalls : cpc'[d] # "rebuild"
  BY <1>5 DEF Busy
<1>7. \A g \in Gens : gctx'[g] = "live" /\ g # cur' => Erred(g)'
  <2> SUFFICES ASSUME NEW g \in Gens, gctx'[g] = "live", g # cur' PROVE Erred(g)'
    OBVIOUS
  <2>1. gctx'[g] = gctx[g] /\ lpc'[g] = lpc[g]
    BY <1>2, BuildEffect DEF Rebuild
  <2>2. Erred(g)
    BY <1>4, <2>1 DEF SerialInv
  <2> QED BY <2>1, <2>2 DEF Erred
<1> QED BY <1>3, <1>4, <1>5, <1>6, <1>7 DEF SerialInv

\* Every step keeps what serial reloads add to that.
LEMMA NextSerial ==
  TypeOK /\ CountInv /\ GenInv /\ SerialInv /\ [Next]_vars => SerialInv'
<1> SUFFICES ASSUME TypeOK, CountInv, GenInv, SerialInv, [Next]_vars, SerialReloads
             PROVE  SerialInv'
  BY DEF SerialInv
<1> USE DEF supVars, genVars, listenerVars, callVars
<1>1. CASE Start
  <2>1. proc = "boot" /\ UNCHANGED <<cpc, old>> /\ built = 0 /\ built + 1 \in Gens
    BY <1>1, GensCount DEF Start, CountInv
  <2>2. \A c \in Calls : cpc[c] = "idle"
    BY <2>1, GensCount DEF CountInv
  <2>3. \A c \in ReloadCalls : ~Busy(c)' /\ cpc'[c] # "rebuild"
    BY <2>1, <2>2 DEF Busy, Calls
  <2>4. \A g \in Gens : gctx[g] = "none"
    BY <2>1, GensCount DEF GenInv, FutureInv
  <2>5. \A g \in Gens : gctx'[g] = "live" /\ g # cur' => Erred(g)'
    BY <1>1, <2>1, <2>4, BuildEffect DEF Start
  <2> QED BY <2>3, <2>5 DEF SerialInv
<1>2. ASSUME NEW c \in Calls, CallMove(c) PROVE SerialInv'
  BY <1>2, SerialCall
<1>3. ASSUME NEW c \in Calls, Rebuild(c) PROVE SerialInv'
  BY <1>3, SerialRebuild
<1>4. ASSUME NEW g \in Gens, ManagerMove(g) PROVE SerialInv'
  <2>1. UNCHANGED <<supVars, gctx, listenerVars, callVars>>
    BY <1>4 DEF ManagerMove, SelectCtx, SelectErr, WgDone
  <2>2. \A h \in Gens : mpc[h] = "returned" => mpc'[h] = "returned"
    BY <1>4 DEF ManagerMove, SelectCtx, SelectErr, WgDone, TypeOK
  <2>3. \A h \in Gens : Erred(h) => Erred(h)'
    BY <2>1 DEF Erred
  <2> QED BY <2>1, <2>2, <2>3, SerialStable
<1>5. ASSUME NEW g \in Gens, NEW l \in Listeners, ListenerMove(g, l) PROVE SerialInv'
  <2>1. UNCHANGED <<supVars, gctx, mpc, callVars>>
    BY <1>5, ListenerTypes
  <2>2. \A h \in Gens : Erred(h) => Erred(h)'
    BY <1>5, ListenerGen
  <2> QED BY <2>1, <2>2, SerialStable
<1>6. CASE Quit \/ Exit \/ UNCHANGED vars
  <2>1. UNCHANGED <<cur, mpc, lpc, cpc, old>>
    BY <1>6 DEF Quit, Exit, vars
  <2>2. \A h \in Gens : gctx'[h] = "live" => gctx[h] = "live"
    BY <1>6 DEF Quit, Exit, vars
  <2>3. \A h \in Gens : Erred(h) => Erred(h)'
    BY <2>1 DEF Erred
  <2> QED BY <2>1, <2>2, <2>3, SerialStable
<1> QED
  BY <1>1, <1>2, <1>3, <1>4, <1>5, <1>6
  DEF Next, CallMove, CallStep, ManagerMove, ListenerMove, Over

\* At the start nothing was orphaned and nothing failed.
LEMMA InitSerial == Init => SerialInv /\ SoundInv
<1> SUFFICES ASSUME Init PROVE SerialInv /\ SoundInv
  OBVIOUS
<1>1. /\ \A c \in ReloadCalls : cpc[c] = "idle"
      /\ \A g \in Gens : gctx[g] = "none" /\ \A l \in Listeners : lpc[g][l] = "off"
  BY DEF Init, Calls
<1>2. cur = 0 /\ \A g \in Gens : ~(g < cur)
  BY GensCount DEF Init
<1> QED BY <1>1, <1>2 DEF SerialInv, SoundInv, Busy, Erred

(* With one reload at a time, a generation with a live context that the    *)
(* supervisor has let go is one whose listener failed: only then does      *)
(* Manager.Start return, and Reload go on, before the context is done.     *)
THEOREM SerialOrphans == SerialReloads => (Spec => []OrphanOnlyAfterError)
<1> SUFFICES ASSUME SerialReloads PROVE Spec => []OrphanOnlyAfterError
  OBVIOUS
<1>1. Init => TypeOK /\ CountInv /\ GenInv /\ SerialInv
  BY InitTypeOK, InitGen, InitSerial
<1>2. TypeOK /\ CountInv /\ GenInv /\ SerialInv /\ [Next]_vars
        => (TypeOK /\ CountInv /\ GenInv /\ SerialInv)'
  BY NextTypeOK, NextGen, NextSerial
<1>3. SerialInv => OrphanOnlyAfterError
  BY DEF SerialInv, OrphanOnlyAfterError, Orphan
<1> QED BY <1>1, <1>2, <1>3, PTL DEF Spec

\* When a generation binds it is the current one: the earlier ones are closed and the
\* later ones are not there, so that no address is in use.
LEMMA NoConflict ==
  ASSUME TypeOK, CountInv, GenInv, SoundInv, SerialReloads, Faulty = {},
         NEW g \in Gens, NEW l \in Listeners, lpc[g][l] = "bind", NEW h \in Gens
  PROVE  l \notin open[h]
<1>1. cur \in Int /\ cur = built /\ g \in Int /\ h \in Int
  BY GensCount DEF TypeOK, CountInv
<1>2. g = cur
  <2>1. ~(g < cur)
    BY DEF SoundInv
  <2>2. ~(g > built)
    BY DEF GenInv, FutureInv
  <2> QED BY <1>1, <2>1, <2>2
<1>3. CASE h < cur
  BY <1>3 DEF SoundInv, GenInv, ListenerInv
<1>4. CASE h = cur
  BY <1>2, <1>4 DEF GenInv, ListenerInv
<1>5. CASE h > cur
  BY <1>1, <1>5 DEF GenInv, FutureInv
<1> QED BY <1>1, <1>3, <1>4, <1>5

\* Without errors every step keeps the ownership of what runs.
LEMMA NextSound ==
  TypeOK /\ CountInv /\ GenInv /\ SerialInv /\ SoundInv /\ [Next]_vars => SoundInv'
<1> SUFFICES ASSUME TypeOK, CountInv, GenInv, SerialInv, SoundInv, [Next]_vars,
                    SerialReloads, Faulty = {}
             PROVE  SoundInv'
  BY DEF SoundInv
<1> USE DEF supVars, genVars, listenerVars, callVars
<1>0. \A g \in Gens : ~Erred(g) /\ (g < cur => \A l \in Listeners : lpc[g][l] = "stopped")
  BY DEF SoundInv
<1>1. ASSUME UNCHANGED <<cur, lpc>> PROVE SoundInv'
  BY <1>1 DEF SoundInv, Erred
<1>2. ASSUME built + 1 \in Gens, Build,
             \A g \in Gens : g = built => \A l \in Listeners : lpc[g][l] = "stopped"
      PROVE  SoundInv'
  <2> SUFFICES ASSUME NEW g \in Gens
               PROVE  ~Erred(g)' /\ (g < cur' => \A l \in Listeners : lpc'[g][l] = "stopped")
    BY DEF SoundInv
  <2>1. CASE g = built'
    <3>1. ~(g < cur')
      BY <1>2, <2>1, BuildEffect, GensCount
    <3> QED BY <1>2, <2>1, <3>1, BuildEffect DEF Erred
  <2>2. CASE g # built'
    <3>1. lpc'[g] = lpc[g] /\ cur' = built + 1
      BY <1>2, <2>2, BuildEffect
    <3>2. ~Erred(g)'
      BY <1>0, <3>1 DEF Erred
    <3>3. g < cur' => g < cur \/ g = built
      BY <3>1, GensCount DEF TypeOK, CountInv
    <3> QED BY <1>0, <1>2, <3>1, <3>2, <3>3
  <2> QED BY <2>1, <2>2
<1>3. CASE Start
  <2>1. built = 0 /\ built + 1 \in Gens /\ \A g \in Gens : g # built
    BY <1>3, GensCount DEF Start, CountInv
  <2> QED BY <1>1, <1>2, <1>3, <2>1 DEF Start
<1>4. ASSUME NEW c \in Calls, CallMove(c) PROVE SoundInv'
  BY <1>1, <1>4, CallMoves
<1>5. ASSUME NEW c \in Calls, Rebuild(c) PROVE SoundInv'
  <2>1. built + 1 \in Gens
    BY <1>5, RoomForNext DEF Rebuild
  <2>2. \A l \in Listeners : lpc[built][l] = "stopped"
    BY <1>0, <1>5, SerialRebuild DEF CountInv
  <2>3. Build \/ UNCHANGED <<cur, lpc>>
    BY <1>5 DEF Rebuild
  <2> QED BY <1>1, <1>2, <2>1, <2>2, <2>3
<1>6. ASSUME NEW g \in Gens, ManagerMove(g) PROVE SoundInv'
  BY <1>1, <1>6 DEF ManagerMove, SelectCtx, SelectErr, WgDone
<1>7. ASSUME NEW g \in Gens, NEW l \in Listeners, ListenerMove(g, l) PROVE SoundInv'
  <2>1. UNCHANGED cur
    BY <1>7, ListenerTypes
  <2>2. \A h \in Gens, k \in Listeners : lpc[h][k] = "stopped" => lpc'[h][k] = "stopped"
    BY <1>7, ListenerGen
  <2>3. \A h \in Gens, k \in Listeners : lpc[h][k] \notin {"conflict", "fault"}
    BY <1>0 DEF Erred
  <2>4. lpc'[g][l] \notin {"conflict", "fault"}
    BY <1>7, <2>3, ListenerMoves, NoConflict
  <2>5. \A h \in Gens, k \in Listeners : lpc'[h][k] \notin {"conflict", "fault"}
    BY <1>7, <2>3, <2>4, ListenerMoves
  <2> QED BY <1>0, <2>1, <2>2, <2>5 DEF SoundInv, Erred
<1>8. CASE Quit \/ Exit \/ UNCHANGED vars
  BY <1>1, <1>8 DEF Quit, Exit, vars
<1> QED
  BY <1>3, <1>4, <1>5, <1>6, <1>7, <1>8
  DEF Next, CallMove, CallStep, ManagerMove, ListenerMove, Over

(* With one reload at a time and no fault from outside, a reload never     *)
(* finds an address in use by an earlier generation, no listener fails,    *)
(* and the supervisor owns every live generation.                          *)
THEOREM SerialOwnsLive == SerialReloads /\ Faulty = {} => (Spec => []OwnsLive)
<1> SUFFICES ASSUME SerialReloads, Faulty = {} PROVE Spec => []OwnsLive
  OBVIOUS
<1> DEFINE IInv == TypeOK /\ CountInv /\ GenInv /\ SerialInv /\ SoundInv
<1>1. Init => IInv
  BY InitTypeOK, InitGen, InitSerial
<1>2. IInv /\ [Next]_vars => IInv'
  BY NextTypeOK, NextGen, NextSerial, NextSound
<1>3. IInv => OwnsLive
  BY DEF SerialInv, SoundInv, OwnsLive, Orphan
<1> QED BY <1>1, <1>2, <1>3, PTL DEF Spec
=============================================================================
