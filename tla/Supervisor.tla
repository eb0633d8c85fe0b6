---------------------------- MODULE Supervisor -----------------------------
(***************************************************************************)
(* The life of the proxy: main starts the supervisor, admin requests       *)
(* reload it or drain it, a signal or /quitquitquit ends the process.      *)
(* internal/runtime/supervisor drives internal/listener: each Start or     *)
(* Reload that succeeds makes a generation, which is a context, a          *)
(* listener.Manager whose Start runs in a goroutine, one Listener.run      *)
(* goroutine per listener, and a handler per downstream connection.        *)
(*                                                                         *)
(* curMgr, curCancel and doneCh change together under the lock: the        *)
(* current generation stands for all of them.  doneCh is closed when the   *)
(* Manager.Start of the generation returns.                                *)
(***************************************************************************)
EXTENDS Integers, FiniteSets

CONSTANTS
  Listeners,    \* the listeners of the configuration
  ReloadCalls,  \* POST /reload requests, each made once
  DrainCalls,   \* /drain_start requests
  SerialReloads,\* the operator waits for the answer to /reload before the next one
  Faulty,       \* listeners whose net.Listen or Accept may fail for an outside reason
  MaxConns      \* bound of the model: connections handled by a listener at a time

Calls == ReloadCalls \cup DrainCalls
\* One generation from Start and at most one from each Reload.
Gens == 1..(1 + Cardinality(ReloadCalls))

ASSUME ListenersAssumption == IsFiniteSet(Listeners) /\ Faulty \subseteq Listeners
ASSUME CallsAssumption ==
  /\ IsFiniteSet(ReloadCalls)
  /\ IsFiniteSet(DrainCalls)
  /\ ReloadCalls \cap DrainCalls = {}
ASSUME MaxConnsAssumption == MaxConns \in Nat
ASSUME SerialAssumption == SerialReloads \in BOOLEAN

VARIABLES
  proc,   \* the process: before Start, serving, over
  quit,   \* the context of main is cancelled
  cur,    \* the generation in Supervisor's fields, 0 before Start
  built,  \* how many generations were built
  gctx,   \* the context of a generation
  mpc,    \* where Manager.Start of a generation is
  lpc,    \* where Listener.run is
  open,   \* Listener.ln is set and not closed
  conns,  \* Listener.wg: the connections being handled
  cpc,    \* where an admin call is
  old,    \* the generation the call found
  left    \* the listeners StopAccept has still to close

callVars == <<cpc, old, left>>
listenerVars == <<lpc, open, conns>>
genVars == <<gctx, mpc, listenerVars>>
supVars == <<proc, quit, cur, built>>
vars == <<supVars, genVars, callVars>>

CallPc == {"idle", "stop", "wait", "force", "rebuild", "reloaded", "failed", "drained"}

\* Type correctness.  A listener's wait group never goes below zero, and the supervisor refers
\* only to generations that were built.
TypeOK ==
  /\ proc \in {"boot", "up", "exited"}
  /\ quit \in BOOLEAN
  /\ cur \in 0..Cardinality(Gens)
  /\ cur <= built
  /\ built \in 0..Cardinality(Gens)
  /\ gctx \in [Gens -> {"none", "live", "cancelled"}]
  /\ mpc \in [Gens -> {"off", "select", "wgWait", "returned"}]
  /\ lpc \in [Gens -> [Listeners ->
                {"off", "bind", "accept", "drain", "stopped", "conflict", "fault"}]]
  /\ open \in [Gens -> SUBSET Listeners]
  /\ conns \in [Gens -> [Listeners -> 0..MaxConns]]
  /\ cpc \in [Calls -> CallPc]
  /\ old \in [Calls -> Gens \cup {0}]
  /\ left \in [Calls -> SUBSET Listeners]

Init ==
  /\ proc = "boot"
  /\ quit = FALSE
  /\ cur = 0
  /\ built = 0
  /\ gctx = [g \in Gens |-> "none"]
  /\ mpc = [g \in Gens |-> "off"]
  /\ lpc = [g \in Gens |-> [l \in Listeners |-> "off"]]
  /\ open = [g \in Gens |-> {}]
  /\ conns = [g \in Gens |-> [l \in Listeners |-> 0]]
  /\ cpc = [c \in Calls |-> "idle"]
  /\ old = [c \in Calls |-> 0]
  /\ left = [c \in Calls |-> {}]

----------------------------------------------------------------------------
(* Supervisor.                                                             *)

\* Load, Validate, both NewManagers and newListener went well: the next generation is started
\* and becomes the current one.  Its context is a child of main's.
Build ==
  LET g == built + 1
  IN  /\ built' = g
      /\ cur' = g
      /\ gctx' = [gctx EXCEPT ![g] = IF quit THEN "cancelled" ELSE "live"]
      /\ mpc' = [mpc EXCEPT ![g] = "select"]
      /\ lpc' = [lpc EXCEPT ![g] = [l \in Listeners |-> "bind"]]

\* main: Start before the admin server listens.  An error ends the process.
Start ==
  /\ proc = "boot"
  /\ \/ proc' = "up" /\ Build
     \/ proc' = "exited" /\ UNCHANGED <<cur, built, gctx, mpc, lpc>>
  /\ UNCHANGED <<quit, open, conns, callVars>>

\* main has not returned.
Up == proc = "up"

\* Reload and DrainStart: copy the current generation under the lock.
Snapshot(c) ==
  /\ Up
  /\ cpc[c] = "idle"
  /\ SerialReloads /\ c \in ReloadCalls =>
       \A d \in ReloadCalls : cpc[d] \in {"idle", "reloaded", "failed"}
  /\ cpc' = [cpc EXCEPT ![c] = "stop"]
  /\ old' = [old EXCEPT ![c] = cur]
  /\ left' = [left EXCEPT ![c] = Listeners]
  /\ UNCHANGED <<supVars, genVars>>

\* Listener.StopAccept closes ln, which is nil as long as run has not bound it.  The read of
\* ln races with the assignment in run: it sees one or the other.
StopAccept(c) ==
  /\ Up
  /\ cpc[c] = "stop"
  /\ \E l \in left[c] :
       /\ open' = [open EXCEPT ![old[c]] = @ \ {l}]
       /\ left' = [left EXCEPT ![c] = @ \ {l}]
  /\ UNCHANGED <<supVars, gctx, mpc, lpc, conns, cpc, old>>

\* All listeners were gone through: DrainStart returns, Reload waits.
StopAcceptDone(c) ==
  /\ Up
  /\ cpc[c] = "stop"
  /\ left[c] = {}
  /\ cpc' = [cpc EXCEPT ![c] = IF c \in DrainCalls THEN "drained" ELSE "wait"]
  /\ UNCHANGED <<supVars, genVars, old, left>>

\* Mutant: Reload does not wait for the old generation.
DrainedAtOnce(c) ==
  /\ Up
  /\ cpc[c] = "wait"
  /\ cpc' = [cpc EXCEPT ![c] = "rebuild"]
  /\ UNCHANGED <<supVars, genVars, old, left>>

\* The select of Reload: doneCh was closed in time, ...
Drained(c) ==
  /\ Up
  /\ cpc[c] = "wait"
  /\ mpc[old[c]] = "returned"
  /\ cpc' = [cpc EXCEPT ![c] = "rebuild"]
  /\ UNCHANGED <<supVars, genVars, old, left>>

\* Mutant: the context is not cancelled.
DrainTimeoutKeep(c) ==
  /\ Up
  /\ cpc[c] = "wait"
  /\ cpc' = [cpc EXCEPT ![c] = "force"]
  /\ UNCHANGED <<supVars, genVars, old, left>>

\* ... or the drain timeout passed: cancel the old context and wait without a limit.
DrainTimeout(c) ==
  /\ Up
  /\ cpc[c] = "wait"
  /\ gctx' = [gctx EXCEPT ![old[c]] = "cancelled"]
  /\ cpc' = [cpc EXCEPT ![c] = "force"]
  /\ UNCHANGED <<supVars, mpc, listenerVars, old, left>>

ForceDone(c) ==
  /\ Up
  /\ cpc[c] = "force"
  /\ mpc[old[c]] = "returned"
  /\ cpc' = [cpc EXCEPT ![c] = "rebuild"]
  /\ UNCHANGED <<supVars, genVars, old, left>>

\* Under the lock: the new generation, or an error that leaves the fields as they are.
Rebuild(c) ==
  /\ Up
  /\ cpc[c] = "rebuild"
  /\ \/ cpc' = [cpc EXCEPT ![c] = "reloaded"] /\ Build
     \/ cpc' = [cpc EXCEPT ![c] = "failed"] /\ UNCHANGED <<cur, built, gctx, mpc, lpc>>
  /\ UNCHANGED <<proc, quit, open, conns, old, left>>

CallStep(c) ==
  \/ StopAccept(c) \/ StopAcceptDone(c) \/ Drained(c) \/ DrainTimeout(c) \/ ForceDone(c)
  \/ Rebuild(c)

----------------------------------------------------------------------------
(* listener.Manager.Start: wait for the context or the first error, then,  *)
(* after the context, for all listeners.                                   *)

Ended == {"stopped", "conflict", "fault"}
\* run returned an error: it is in errCh.
Erred(g) == \E l \in Listeners : lpc[g][l] \in {"conflict", "fault"}

SelectCtx(g) ==
  /\ Up
  /\ mpc[g] = "select"
  /\ gctx[g] = "cancelled"
  /\ mpc' = [mpc EXCEPT ![g] = "wgWait"]
  /\ UNCHANGED <<supVars, gctx, listenerVars, callVars>>

SelectErr(g) ==
  /\ Up
  /\ mpc[g] = "select"
  /\ Erred(g)
  /\ mpc' = [mpc EXCEPT ![g] = "returned"]
  /\ UNCHANGED <<supVars, gctx, listenerVars, callVars>>

WgDone(g) ==
  /\ Up
  /\ mpc[g] = "wgWait"
  /\ \A l \in Listeners : lpc[g][l] \in Ended
  /\ mpc' = [mpc EXCEPT ![g] = "returned"]
  /\ UNCHANGED <<supVars, gctx, listenerVars, callVars>>

----------------------------------------------------------------------------
(* Listener.run and its goroutines.                                        *)

SetListener(g, l, label) == lpc' = [lpc EXCEPT ![g][l] = label]

\* net.Listen: refused while another generation has the address open, or by the outside.
Bind(g, l) ==
  /\ Up
  /\ lpc[g][l] = "bind"
  /\ \A h \in Gens : l \notin open[h]
  /\ SetListener(g, l, "accept")
  /\ open' = [open EXCEPT ![g] = @ \cup {l}]
  /\ UNCHANGED <<supVars, gctx, mpc, conns, callVars>>

BindError(g, l) ==
  /\ Up
  /\ lpc[g][l] = "bind"
  /\ \/ /\ \E h \in Gens : l \in open[h]
        /\ SetListener(g, l, "conflict")
     \/ /\ l \in Faulty
        /\ SetListener(g, l, "fault")
  /\ UNCHANGED <<supVars, gctx, mpc, open, conns, callVars>>

\* The goroutine that closes the listener when the context ends.
CloseOnCtx(g, l) ==
  /\ Up
  /\ l \in open[g]
  /\ gctx[g] = "cancelled"
  /\ open' = [open EXCEPT ![g] = @ \ {l}]
  /\ UNCHANGED <<supVars, gctx, mpc, lpc, conns, callVars>>

Accept(g, l) ==
  /\ Up
  /\ lpc[g][l] = "accept"
  /\ l \in open[g]
  /\ conns[g][l] < MaxConns
  /\ conns' = [conns EXCEPT ![g][l] = @ + 1]
  /\ UNCHANGED <<supVars, gctx, mpc, lpc, open, callVars>>

\* Accept fails: the listener is closed, or the context is done and the error another one.
AcceptClosed(g, l) ==
  /\ Up
  /\ lpc[g][l] = "accept"
  /\ l \notin open[g] \/ (l \in Faulty /\ gctx[g] = "cancelled")
  /\ SetListener(g, l, "drain")
  /\ UNCHANGED <<supVars, gctx, mpc, open, conns, callVars>>

\* Another error, not a temporary one: run returns it and the listener stays open.
AcceptError(g, l) ==
  /\ Up
  /\ lpc[g][l] = "accept"
  /\ l \in open[g]
  /\ l \in Faulty
  /\ gctx[g] # "cancelled"
  /\ SetListener(g, l, "fault")
  /\ UNCHANGED <<supVars, gctx, mpc, open, conns, callVars>>

\* Mutant: run returns without waiting for its handlers.
RunReturnsAtOnce(g, l) ==
  /\ Up
  /\ lpc[g][l] = "drain"
  /\ SetListener(g, l, "stopped")
  /\ UNCHANGED <<supVars, gctx, mpc, open, conns, callVars>>

\* wg.Wait is over.
RunReturns(g, l) ==
  /\ Up
  /\ lpc[g][l] = "drain"
  /\ conns[g][l] = 0
  /\ SetListener(g, l, "stopped")
  /\ UNCHANGED <<supVars, gctx, mpc, open, conns, callVars>>

\* Mutant: the wait group is decremented on two paths.
HandlerEndTwice(g, l) ==
  /\ Up
  /\ conns[g][l] > 0
  /\ conns' = [conns EXCEPT ![g][l] = @ - 2]
  /\ UNCHANGED <<supVars, gctx, mpc, lpc, open, callVars>>

\* A connection is over: the client or the filter chain is done with it.
HandlerEnd(g, l) ==
  /\ Up
  /\ conns[g][l] > 0
  /\ conns' = [conns EXCEPT ![g][l] = @ - 1]
  /\ UNCHANGED <<supVars, gctx, mpc, lpc, open, callVars>>

\* The goroutine beside the handler closes the connection when the context ends.
HandlerCut(g, l) == gctx[g] = "cancelled" /\ HandlerEnd(g, l)

RunStep(g, l) ==
  \/ Bind(g, l) \/ BindError(g, l) \/ AcceptClosed(g, l) \/ RunReturns(g, l)

----------------------------------------------------------------------------
(* The end of the process.                                                 *)

\* SIGINT, SIGTERM or /quitquitquit: the contexts of all generations are children of main's.
Quit ==
  /\ Up
  /\ ~quit
  /\ quit' = TRUE
  /\ gctx' = [g \in Gens |-> IF gctx[g] = "none" THEN "none" ELSE "cancelled"]
  /\ UNCHANGED <<proc, cur, built, mpc, listenerVars, callVars>>

\* main returns as soon as its context is done, and with it every goroutine is gone.
Exit ==
  /\ Up
  /\ quit
  /\ proc' = "exited"
  /\ UNCHANGED <<quit, cur, built, genVars, callVars>>

Over == proc = "exited" /\ UNCHANGED vars

----------------------------------------------------------------------------
Next ==
  \/ Start
  \/ \E c \in Calls : Snapshot(c) \/ CallStep(c)
  \/ \E g \in Gens : SelectCtx(g) \/ SelectErr(g) \/ WgDone(g)
  \/ \E g \in Gens, l \in Listeners :
       \/ RunStep(g, l) \/ AcceptError(g, l) \/ CloseOnCtx(g, l)
       \/ Accept(g, l) \/ HandlerEnd(g, l)
  \/ Quit
  \/ Exit
  \/ Over

Spec == Init /\ [][Next]_vars

\* Goroutines are scheduled, the drain timer fires, and a handler whose connection and context
\* are closed under it returns.  Clients need not close their connections.
Fairness ==
  /\ \A c \in Calls : WF_vars(CallStep(c))
  /\ \A g \in Gens : WF_vars(SelectCtx(g) \/ SelectErr(g) \/ WgDone(g))
  /\ \A g \in Gens, l \in Listeners :
       WF_vars(RunStep(g, l)) /\ WF_vars(CloseOnCtx(g, l)) /\ WF_vars(HandlerCut(g, l))

FairSpec == Spec /\ Fairness

----------------------------------------------------------------------------
(* Properties.                                                             *)

\* doneCh means what Reload takes it for: when Manager.Start has returned and no listener
\* failed, every run has returned, no handler is left, and every listener is closed (but one
\* whose Accept failed for another reason just as the context ended, which is about to be).
DoneMeansStopped ==
  \A g \in Gens :
    mpc[g] = "returned" /\ ~Erred(g) =>
      /\ open[g] \subseteq Faulty
      /\ \A l \in Listeners : lpc[g][l] = "stopped" /\ conns[g][l] = 0

\* A generation that runs with a live context although the supervisor does not refer to it,
\* and no call is about to stop it: nothing but the end of the process can.
Orphan(g) ==
  /\ gctx[g] = "live"
  /\ cur # g
  /\ \A c \in ReloadCalls : ~(old[c] = g /\ cpc[c] \in {"stop", "wait", "force", "rebuild"})

\* With one reload at a time a generation is orphaned only after one of its listeners failed,
\* which makes Manager.Start return early.
OrphanOnlyAfterError == \A g \in Gens : Orphan(g) => Erred(g)

\* The supervisor owns the live components.
OwnsLive == \A g \in Gens : ~Orphan(g)

\* Reload returns, also when clients never close their connections.
ReloadReturns ==
  \A c \in ReloadCalls :
    cpc[c] = "stop" ~> cpc[c] \in {"reloaded", "failed"} \/ proc = "exited"

\* A reload that returns without error ends with every sound listener of the new configuration
\* accepting, unless the process is stopped, a listener failed, or a call has found the new
\* generation and stops it.
ReloadServes ==
  \A c \in ReloadCalls :
    cpc[c] = "reloaded" ~>
      \/ \E g \in Gens :
           g = cur /\ \A l \in Listeners \ Faulty : lpc[g][l] = "accept" /\ l \in open[g]
      \/ quit
      \/ \E g \in Gens, l \in Listeners : lpc[g][l] = "fault"
      \/ \E d \in Calls : old[d] = cur
=============================================================================
