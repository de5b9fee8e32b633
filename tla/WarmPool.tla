------------------------------ MODULE WarmPool ------------------------------
(***************************************************************************)
(* The pool of pre-booted VMs and Host.CreateWarm                          *)
(* (control-plane/internal/session/warmpool.go, internal/session/host.go). *)
(*                                                                         *)
(* Below the pool is the launcher that VMManager models in detail; what    *)
(* matters here is that its capacity check is not atomic with the          *)
(* insertion, that a launch can fail, and that a VM can exit at any time.  *)
(* The goroutines of buildOne have no state of their own but their place,  *)
(* so they are counted.  Start's seeding, the replenish loop, the builders *)
(* and the HTTP handlers interleave between their locks and channel        *)
(* operations.                                                             *)
(***************************************************************************)
EXTENDS Integers, Sequences, FiniteSets

CONSTANTS
  VMs,            \* ids of the VMs that can be launched
  Handlers,       \* goroutines serving POST /sessions
  target,         \* p.target
  MaxConcurrent,  \* the capacity of Manager and of Host
  MaxRequests,    \* bound: POST /sessions requests served
  MaxFailures,    \* bound: launches that fail for another reason than capacity
  NoVM

ASSUME PoolAssumption ==
  /\ target \in Nat \ {0} /\ MaxConcurrent \in Nat \ {0}
  /\ MaxRequests \in Nat /\ MaxFailures \in Nat
  /\ NoVM \notin VMs /\ IsFiniteSet(Handlers)

VARIABLES
  ready,      \* p.ready
  replenish,  \* number of tokens in the channel p.replenish
  seeds,      \* iterations left of the loop in Start
  loopAt,     \* the replenish loop: "select", or "look" with a token in hand
  spawned,    \* builders that have not passed Manager's capacity check
  booting,    \* builders that have
  failed,     \* builders that gave up
  up,         \* m.sessions: the VMs Manager runs
  minted,     \* ids used so far
  live,       \* h.sessions
  hpc, hvm,   \* where a handler is, and the VM it holds
  requests,   \* requests so far
  failures,   \* launches failed so far
  phase       \* "serving" or "exited"

poolVars == <<ready, replenish, seeds, loopAt, spawned, booting, failed>>
vmVars == <<up, minted, failures>>
vars == <<poolVars, vmVars, live, hpc, hvm, requests, phase>>

Alive == phase = "serving"

Init ==
  /\ ready = <<>> /\ replenish = 0 /\ seeds = target /\ loopAt = "select"
  /\ spawned = 0 /\ booting = 0 /\ failed = 0
  /\ up = {} /\ minted = {} /\ live = {}
  /\ hpc = [c \in Handlers |-> "idle"] /\ hvm = [c \in Handlers |-> NoVM]
  /\ requests = 0 /\ failures = 0 /\ phase = "serving"

(* select { case p.replenish <- struct{}{}: default: } *)
PokeReplenish == replenish' = IF replenish < 2 * target THEN replenish + 1 ELSE replenish

(* One iteration of the seeding loop of Start. *)
Seed ==
  /\ Alive /\ seeds > 0
  /\ seeds' = seeds - 1
  /\ PokeReplenish
  /\ UNCHANGED <<ready, loopAt, spawned, booting, failed, vmVars, live, hpc, hvm, requests, phase>>

-----------------------------------------------------------------------------
(* loop: a token is received ... *)
LoopReceives ==
  /\ Alive /\ loopAt = "select" /\ replenish > 0
  /\ loopAt' = "look"
  /\ replenish' = replenish - 1
  /\ UNCHANGED <<ready, seeds, spawned, booting, failed, vmVars, live, hpc, hvm, requests, phase>>

(* A loop that takes the builder it may start for one already in the pool. *)
LoopLooksTooFew ==
  /\ Alive /\ loopAt = "look"
  /\ loopAt' = "select"
  /\ spawned' = IF Len(ready) >= target - 1 THEN spawned ELSE spawned + 1
  /\ UNCHANGED <<ready, replenish, seeds, booting, failed, vmVars, live, hpc, hvm, requests, phase>>

(* ... and buildOne is started unless the pool is full. *)
LoopLooks ==
  /\ Alive /\ loopAt = "look"
  /\ loopAt' = "select"
  /\ spawned' = IF Len(ready) >= target THEN spawned ELSE spawned + 1
  /\ UNCHANGED <<ready, replenish, seeds, booting, failed, vmVars, live, hpc, hvm, requests, phase>>

-----------------------------------------------------------------------------
(* launcher.Launch: Manager's capacity check ... *)
AtCapacity == Cardinality(up) >= MaxConcurrent

(* ... and the boot, which gives a fresh VM or fails. *)
Booted(v) ==
  /\ v \in VMs \ minted
  /\ minted' = minted \cup {v}
  /\ up' = up \cup {v}
  /\ UNCHANGED failures

BootFailed ==
  /\ failures < MaxFailures
  /\ failures' = failures + 1
  /\ UNCHANGED <<up, minted>>

(* buildOne *)
BuildStart ==
  /\ Alive /\ spawned > 0
  /\ spawned' = spawned - 1
  /\ IF AtCapacity
       THEN failed' = failed + 1 /\ UNCHANGED booting
       ELSE booting' = booting + 1 /\ UNCHANGED failed
  /\ UNCHANGED <<ready, replenish, seeds, loopAt, vmVars, live, hpc, hvm, requests, phase>>

BuildDone ==
  /\ Alive /\ booting > 0
  /\ booting' = booting - 1
  /\ \/ \E v \in VMs : Booted(v) /\ ready' = Append(ready, v) /\ UNCHANGED failed
     \/ BootFailed /\ failed' = failed + 1 /\ UNCHANGED ready
  /\ UNCHANGED <<replenish, seeds, loopAt, spawned, live, hpc, hvm, requests, phase>>

-----------------------------------------------------------------------------
(* An AcquireWarm that copies the head before it takes the lock to pop it. *)
AcquireWarmPeeks(c) ==
  /\ Alive /\ hpc[c] = "idle" /\ requests < MaxRequests
  /\ requests' = requests + 1
  /\ IF ready = <<>>
       THEN hpc' = [hpc EXCEPT ![c] = "miss"] /\ UNCHANGED hvm
       ELSE /\ hvm' = [hvm EXCEPT ![c] = Head(ready)]
            /\ hpc' = [hpc EXCEPT ![c] = "hit"]
  /\ UNCHANGED <<poolVars, vmVars, live, phase>>

(* POST /sessions with warm: AcquireWarm pops the oldest ready VM, if any, *)
AcquireWarm(c) ==
  /\ Alive /\ hpc[c] = "idle" /\ requests < MaxRequests
  /\ requests' = requests + 1
  /\ IF ready = <<>>
       THEN hpc' = [hpc EXCEPT ![c] = "miss"] /\ UNCHANGED <<ready, hvm>>
       ELSE /\ hvm' = [hvm EXCEPT ![c] = Head(ready)]
            /\ ready' = Tail(ready)
            /\ hpc' = [hpc EXCEPT ![c] = "hit"]
  /\ UNCHANGED <<replenish, seeds, loopAt, spawned, booting, failed, vmVars, live, phase>>

(* An AcquireWarm that does not ask for a refill. *)
AcquireNeverPokes(c) ==
  /\ Alive /\ hpc[c] \in {"hit", "miss"}
  /\ hpc' = [hpc EXCEPT ![c] = IF @ = "hit" THEN "insert" ELSE "check"]
  /\ UNCHANGED <<poolVars, vmVars, live, hvm, requests, phase>>

(* and in both cases asks for a refill. *)
AcquirePokes(c) ==
  /\ Alive /\ hpc[c] \in {"hit", "miss"}
  /\ hpc' = [hpc EXCEPT ![c] = IF @ = "hit" THEN "insert" ELSE "check"]
  /\ PokeReplenish
  /\ UNCHANGED <<ready, seeds, loopAt, spawned, booting, failed, vmVars, live, hvm, requests, phase>>

(* CreateWarm after a hit: at capacity the popped VM is dropped.           *)
CreateWarm(c) ==
  /\ Alive /\ hpc[c] = "insert"
  /\ live' = IF Cardinality(live) >= MaxConcurrent THEN live ELSE live \cup {hvm[c]}
  /\ hpc' = [hpc EXCEPT ![c] = "idle"]
  /\ hvm' = [hvm EXCEPT ![c] = NoVM]
  /\ UNCHANGED <<poolVars, vmVars, requests, phase>>

(* CreateWarm after a miss: Host.Create with its own check, Manager's, the *)
(* boot, and the insertion.                                                *)
Create(c) ==
  /\ Alive
  /\ \/ /\ hpc[c] = "check"
        /\ hpc' = [hpc EXCEPT ![c] =
             IF Cardinality(live) >= MaxConcurrent THEN "idle" ELSE "launch"]
        /\ UNCHANGED <<vmVars, hvm, live>>
     \/ /\ hpc[c] = "launch"
        /\ hpc' = [hpc EXCEPT ![c] = IF AtCapacity THEN "idle" ELSE "boot"]
        /\ UNCHANGED <<vmVars, hvm, live>>
     \/ /\ hpc[c] = "boot"
        /\ \/ BootFailed /\ hpc' = [hpc EXCEPT ![c] = "idle"] /\ UNCHANGED hvm
           \/ \E v \in VMs : /\ Booted(v)
                             /\ hvm' = [hvm EXCEPT ![c] = v]
                             /\ hpc' = [hpc EXCEPT ![c] = "booted"]
        /\ UNCHANGED live
     \/ /\ hpc[c] = "booted"
        /\ live' = live \cup {hvm[c]}
        /\ hpc' = [hpc EXCEPT ![c] = "idle"]
        /\ hvm' = [hvm EXCEPT ![c] = NoVM]
        /\ UNCHANGED vmVars
  /\ UNCHANGED <<poolVars, requests, phase>>

-----------------------------------------------------------------------------
(* A VM exits by itself and its reaper tears it down; the pool is not told. *)
VMExit(v) ==
  /\ v \in up
  /\ up' = up \ {v}
  /\ UNCHANGED <<poolVars, minted, failures, live, hpc, hvm, requests, phase>>

(* The watcher of a session that is gone. *)
WatchWakes(v) ==
  /\ Alive /\ v \in live \ up
  /\ live' = live \ {v}
  /\ UNCHANGED <<poolVars, vmVars, hpc, hvm, requests, phase>>

(* Host.Destroy of a live session, by DELETE or by the idle reaper. *)
Destroy(v) ==
  /\ Alive /\ v \in live
  /\ live' = live \ {v}
  /\ up' = up \ {v}
  /\ UNCHANGED <<poolVars, minted, failures, hpc, hvm, requests, phase>>

(* main on its way out destroys what Host lists; pool.Stop only ends the   *)
(* replenish loop.                                                         *)
Shutdown ==
  /\ Alive
  /\ up' = up \ live
  /\ live' = {}
  /\ phase' = "exited"
  /\ UNCHANGED <<poolVars, minted, failures, hpc, hvm, requests>>

PoolStep == Seed \/ LoopReceives \/ LoopLooks \/ BuildStart \/ BuildDone

HandlerStep(c) == AcquirePokes(c) \/ CreateWarm(c) \/ Create(c)

Next ==
  \/ PoolStep
  \/ \E c \in Handlers : AcquireWarm(c) \/ HandlerStep(c)
  \/ \E v \in VMs : VMExit(v) \/ WatchWakes(v) \/ Destroy(v)
  \/ Shutdown

Safety == Init /\ [][Next]_vars

(* Goroutines that can run do; the idle reaper destroys every live VM in   *)
(* the end (in this module no terminal ever attaches).  A boot ends.       *)
Spec ==
  /\ Safety
  /\ WF_vars(Seed) /\ WF_vars(LoopReceives \/ LoopLooks)
  /\ WF_vars(BuildStart) /\ WF_vars(BuildDone)
  /\ \A c \in Handlers : WF_vars(HandlerStep(c))
  /\ \A v \in VMs : WF_vars(Destroy(v)) /\ WF_vars(WatchWakes(v))

-----------------------------------------------------------------------------
(* Types of the pool's and the handlers' state. *)
TypeOK ==
  /\ ready \in Seq(VMs)
  /\ replenish \in 0..(2 * target) /\ seeds \in 0..target
  /\ loopAt \in {"select", "look"}
  /\ spawned \in Nat /\ booting \in Nat /\ failed \in Nat
  /\ up \subseteq minted /\ minted \subseteq VMs /\ live \subseteq minted
  /\ hpc \in [Handlers -> {"idle", "hit", "miss", "insert", "check", "launch", "boot", "booted"}]
  /\ hvm \in [Handlers -> VMs \cup {NoVM}]
  /\ requests \in 0..MaxRequests /\ failures \in 0..MaxFailures
  /\ phase \in {"serving", "exited"}

Pooled == {ready[i] : i \in 1..Len(ready)}
Held == {hvm[c] : c \in {d \in Handlers : hvm[d] # NoVM}}

(* A warm VM goes to one request: it is in the pool once, or in the hands  *)
(* of one handler, or in Host's map, and never in two of these.            *)
OneHolder ==
  /\ \A i, j \in 1..Len(ready) : ready[i] = ready[j] => i = j
  /\ \A c, d \in Handlers : hvm[c] = hvm[d] /\ hvm[c] # NoVM => c = d
  /\ Pooled \cap Held = {} /\ Pooled \cap live = {} /\ Held \cap live = {}

Poking == {c \in Handlers : hpc[c] \in {"hit", "miss"}}

Looking == IF loopAt = "look" THEN 1 ELSE 0

(* Refills asked for, or about to be, and not looked at yet; VMs in the    *)
(* making.                                                                 *)
Asked == seeds + replenish + Cardinality(Poking) + Looking
Building == spawned + booting

(* "AcquireWarm triggers a background refill so the pool heals toward      *)
(* target": however acquisitions, dropped tokens and builds interleave,    *)
(* what is in the pool, being built, or still to be asked for makes up the *)
(* target, but for one VM per build that failed.                           *)
RefillsAccountedFor == Len(ready) + Building + Asked + failed >= target

(* Once requests stop, a pool whose builds succeed fills up and stays so.  *)
PoolFillsUp == <>[](failed > 0 \/ minted = VMs \/ ~Alive \/ Len(ready) >= target)

(* The idle reaper destroys "a VM with no attached terminal" (README.md):  *)
(* every VM that a request took from the pool, none being attached here.   *)
IdleVMsDestroyed ==
  \A v \in VMs : (v \in up /\ v \notin Pooled /\ Alive) ~> (v \notin up \/ ~Alive)
=============================================================================
