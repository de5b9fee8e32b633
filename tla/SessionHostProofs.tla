-------------------------- MODULE SessionHostProofs --------------------------
(***************************************************************************)
(* session.Manager, and session.Host on top of it, for any number of VMs,  *)
(* goroutines, handlers and slots.                                         *)
(*                                                                         *)
(* The Manager tears every VM down exactly once and orphans nothing but    *)
(* what a command of the host that failed left there.                      *)
(* OneTeardown and NothingOrphaned are not inductive by themselves.  The   *)
(* inductive invariant says who is responsible for a VM: at most one       *)
(* goroutine works on it (builds it or tears it down), while one does the  *)
(* VM is not in the map, and the goroutine's place in the code determines  *)
(* which of the address, the TAP and the directory the VM holds.           *)
(*                                                                         *)
(* Host drives the Manager only as the Manager's specification allows,     *)
(* every session is reported to onGone at most once and only after it left *)
(* the live map, no VM that Launch returned is ever forgotten, and a       *)
(* stamped row is final.  The inductive invariant has two halves.  The     *)
(* Manager's half is BInv: a VM has one builder, which hands it out once,  *)
(* and a closed done channel belongs to a VM that is out of its map for    *)
(* good.  Host's half ties a goroutine's place in Host to its place in the *)
(* Manager, and says that whoever removes a session from the live map, and *)
(* nobody else, owes its report.                                           *)
(***************************************************************************)
EXTENDS SessionHost, FiniteSetTheorems, TLAPS

(* Zenon first, with more time than the default; leaves that need          *)
(* arithmetic are marked for SMT.                                          *)
USE ZenonT(60), SMTT(60)

-----------------------------------------------------------------------------
(* The Manager. *)

Works(g) == pc[g] \in CreateLabels \cup TeardownLabels

(* What is known of the VM that g builds or tears down, by g's place. *)
WorkerHolds(g) ==
  /\ arg[g] \in minted /\ arg[g] \notin sessions
  /\ arg[g] \in ip
  /\ arg[g] \in tap <=> pc[g] # "tap"
  /\ arg[g] \in dir <=> pc[g] \notin {"tap", "dir"}
  /\ pc[g] \in {"tap", "dir", "rootfs", "write", "launch", "free"} => proc[arg[g]] # "running"
  /\ pc[g] # "write" => arg[g] \notin mounted

(* The reaper of v works on v and does nothing but destroy it. *)
ReapersOnlyDestroy ==
  \A v \in VMs :
    arg[v] = v /\ pc[v] \in {"idle", "reap", "destroy"} \cup TeardownLabels \cup Results

OneWorker ==
  \A g, h \in Goroutines : Works(g) /\ Works(h) /\ arg[g] = arg[h] => g = h

WorkersHold == \A g \in Goroutines : Works(g) => WorkerHolds(g)

SessionsHold ==
  \A v \in sessions : v \in minted /\ v \in ip /\ v \in tap /\ v \in dir /\ v \notin mounted

OnlyMinted ==
  \A v \in VMs :
    v \in ip \/ v \in tap \/ v \in dir \/ v \in mounted \/ proc[v] = "running" => v \in minted

Attended(v) == v \in sessions \/ \E g \in Goroutines : Works(g) /\ arg[g] = v

NobodyOrphaned ==
  \A v \in VMs :
    \/ v \in ip
    \/ v \in tap /\ v \notin leftTap
    \/ v \in dir /\ v \notin leftDir
    \/ proc[v] = "running"
    => Attended(v)

IInv ==
  /\ MgrTypeOK
  /\ ReapersOnlyDestroy
  /\ OneWorker
  /\ WorkersHold
  /\ SessionsHold
  /\ OnlyMinted
  /\ NobodyOrphaned

-----------------------------------------------------------------------------
USE ManagerAssumption DEF Goroutines, Labels, CreateLabels, TeardownLabels, Results, resources, tapVars, dirVars

(* The capacity check of Create changes nothing but the place of its caller. *)
LEMMA CreateCheckPreserves ==
  ASSUME IInv, NEW g \in Goroutines, CreateCheck(g) PROVE IInv'
<1> USE DEF IInv, MgrTypeOK, CreateCheck, Step
<1>1. MgrTypeOK'
  OBVIOUS
<1>2. ReapersOnlyDestroy'
  BY DEF ReapersOnlyDestroy
<1>3. OneWorker'
  BY DEF OneWorker, Works
<1>4. WorkersHold'
  BY DEF WorkersHold, WorkerHolds, Works
<1>5. SessionsHold'
  BY DEF SessionsHold
<1>6. OnlyMinted'
  BY DEF OnlyMinted
<1>7. NobodyOrphaned'
  BY DEF NobodyOrphaned, Attended, Works
<1> QED BY <1>1, <1>2, <1>3, <1>4, <1>5, <1>6, <1>7

(* Alloc in Create: the VM is fresh, so its builder is the only one to work on it. *)
LEMMA CreateAllocPreserves ==
  ASSUME IInv, NEW g \in Goroutines, CreateAlloc(g) PROVE IInv'
<1> USE DEF IInv, MgrTypeOK, CreateAlloc, Step
<1>1. MgrTypeOK'
  BY SMTT(60)
<1>2. ReapersOnlyDestroy'
  BY SMTT(60) DEF ReapersOnlyDestroy
<1>3. OneWorker'
  BY SMTT(60) DEF OneWorker, Works, WorkersHold, WorkerHolds
<1>4. WorkersHold'
  BY SMTT(60) DEF WorkersHold, WorkerHolds, Works, SessionsHold, OnlyMinted
<1>5. SessionsHold'
  BY DEF SessionsHold
<1>6. OnlyMinted'
  BY DEF OnlyMinted
<1>7. NobodyOrphaned'
  BY SMTT(60) DEF NobodyOrphaned, Attended, Works
<1> QED BY <1>1, <1>2, <1>3, <1>4, <1>5, <1>6, <1>7

(* CreateTAP in Create, its failures included: the address is given back,  *)
(* and a TAP that was made is on record as left.                           *)
LEMMA CreateTapPreserves ==
  ASSUME IInv, NEW g \in Goroutines, CreateTap(g) PROVE IInv'
<1> USE DEF IInv, MgrTypeOK, CreateTap, Step, CreateTAP, CreateTAPFails, Release
<1>1. MgrTypeOK'
  BY SMTT(60) DEF WorkersHold, WorkerHolds, Works
<1>2. ReapersOnlyDestroy'
  BY SMTT(60) DEF ReapersOnlyDestroy
<1>3. OneWorker'
  BY SMTT(60) DEF OneWorker, Works
<1>4. WorkersHold'
  BY SMTT(60) DEF WorkersHold, WorkerHolds, Works, OneWorker
<1>5. SessionsHold'
  BY SMTT(60) DEF SessionsHold, WorkersHold, WorkerHolds, Works
<1>6. OnlyMinted'
  BY SMTT(60) DEF OnlyMinted, WorkersHold, WorkerHolds, Works
<1>7. NobodyOrphaned'
  BY SMTT(60) DEF NobodyOrphaned, Attended, Works, WorkersHold, WorkerHolds
<1> QED BY <1>1, <1>2, <1>3, <1>4, <1>5, <1>6, <1>7

(* MkdirAll in Create, its failure included: address and TAP are given back. *)
LEMMA CreateDirPreserves ==
  ASSUME IInv, NEW g \in Goroutines, CreateDir(g) PROVE IInv'
<1> USE DEF IInv, MgrTypeOK, CreateDir, Step, MkdirAll, DeleteTAP, Release
<1>1. MgrTypeOK'
  BY SMTT(60) DEF WorkersHold, WorkerHolds, Works
<1>2. ReapersOnlyDestroy'
  BY SMTT(60) DEF ReapersOnlyDestroy
<1>3. OneWorker'
  BY SMTT(60) DEF OneWorker, Works
<1>4. WorkersHold'
  BY SMTT(60) DEF WorkersHold, WorkerHolds, Works, OneWorker
<1>5. SessionsHold'
  BY SMTT(60) DEF SessionsHold, WorkersHold, WorkerHolds, Works
<1>6. OnlyMinted'
  BY SMTT(60) DEF OnlyMinted, WorkersHold, WorkerHolds, Works
<1>7. NobodyOrphaned'
  BY SMTT(60) DEF NobodyOrphaned, Attended, Works, WorkersHold, WorkerHolds
<1> QED BY <1>1, <1>2, <1>3, <1>4, <1>5, <1>6, <1>7

(* The image is mounted under its builder only; a failure releases everything. *)
LEMMA CreateRootfsPreserves ==
  ASSUME IInv, NEW g \in Goroutines, CreateRootfs(g) PROVE IInv'
<1> USE DEF IInv, MgrTypeOK, CreateRootfs, Step, cleanup, RemoveAll, DeleteTAP, Release
<1>1. MgrTypeOK'
  BY SMTT(60) DEF WorkersHold, WorkerHolds, Works
<1>2. ReapersOnlyDestroy'
  BY SMTT(60) DEF ReapersOnlyDestroy
<1>3. OneWorker'
  BY SMTT(60) DEF OneWorker, Works
<1>4. WorkersHold'
  BY SMTT(60) DEF WorkersHold, WorkerHolds, Works, OneWorker
<1>5. SessionsHold'
  BY SMTT(60) DEF SessionsHold, WorkersHold, WorkerHolds, Works
<1>6. OnlyMinted'
  BY SMTT(60) DEF OnlyMinted, WorkersHold, WorkerHolds, Works
<1>7. NobodyOrphaned'
  BY SMTT(60) DEF NobodyOrphaned, Attended, Works, WorkersHold, WorkerHolds
<1> QED BY <1>1, <1>2, <1>3, <1>4, <1>5, <1>6, <1>7

(* PrepareRootfs returns without an error only once the image is unmounted. *)
LEMMA CreateWritePreserves ==
  ASSUME IInv, NEW g \in Goroutines, CreateWrite(g) PROVE IInv'
<1> USE DEF IInv, MgrTypeOK, CreateWrite, Step, cleanup, RemoveAll, DeleteTAP, Release
<1>1. MgrTypeOK'
  BY SMTT(60) DEF WorkersHold, WorkerHolds, Works
<1>2. ReapersOnlyDestroy'
  BY SMTT(60) DEF ReapersOnlyDestroy
<1>3. OneWorker'
  BY SMTT(60) DEF OneWorker, Works
<1>4. WorkersHold'
  BY SMTT(60) DEF WorkersHold, WorkerHolds, Works, OneWorker
<1>5. SessionsHold'
  BY SMTT(60) DEF SessionsHold, WorkersHold, WorkerHolds, Works
<1>6. OnlyMinted'
  BY DEF OnlyMinted, WorkersHold, WorkerHolds, Works
<1>7. NobodyOrphaned'
  BY SMTT(60) DEF NobodyOrphaned, Attended, Works, WorkersHold, WorkerHolds
<1> QED BY <1>1, <1>2, <1>3, <1>4, <1>5, <1>6, <1>7

(* launchVM in Create, its failure included: cleanup releases everything. *)
LEMMA CreateLaunchPreserves ==
  ASSUME IInv, NEW g \in Goroutines, CreateLaunch(g) PROVE IInv'
<1> USE DEF IInv, MgrTypeOK, CreateLaunch, Step, Launch, cleanup, RemoveAll, DeleteTAP, Release
<1>1. MgrTypeOK'
  BY SMTT(60) DEF WorkersHold, WorkerHolds, Works
<1>2. ReapersOnlyDestroy'
  BY SMTT(60) DEF ReapersOnlyDestroy
<1>3. OneWorker'
  BY SMTT(60) DEF OneWorker, Works
<1>4. WorkersHold'
  BY SMTT(60) DEF WorkersHold, WorkerHolds, Works, OneWorker
<1>5. SessionsHold'
  BY SMTT(60) DEF SessionsHold, WorkersHold, WorkerHolds, Works
<1>6. OnlyMinted'
  BY SMTT(60) DEF OnlyMinted, WorkersHold, WorkerHolds, Works
<1>7. NobodyOrphaned'
  BY SMTT(60) DEF NobodyOrphaned, Attended, Works, WorkersHold, WorkerHolds
<1> QED BY <1>1, <1>2, <1>3, <1>4, <1>5, <1>6, <1>7

(* The builder hands the VM over to the map and to its reaper. *)
LEMMA CreateInsertPreserves ==
  ASSUME IInv, NEW g \in Goroutines, CreateInsert(g) PROVE IInv'
<1> USE DEF IInv, MgrTypeOK, CreateInsert
<1>1. MgrTypeOK'
  BY DEF WorkersHold, WorkerHolds, Works
<1>2. ReapersOnlyDestroy'
  BY DEF ReapersOnlyDestroy
<1>3. OneWorker'
  BY SMTT(60) DEF OneWorker, Works
<1>4. WorkersHold'
  BY SMTT(60) DEF WorkersHold, WorkerHolds, Works, OneWorker
<1>5. SessionsHold'
  BY DEF SessionsHold, WorkersHold, WorkerHolds, Works
<1>6. OnlyMinted'
  BY DEF OnlyMinted
<1>7. NobodyOrphaned'
  BY SMTT(60) DEF NobodyOrphaned, Attended, Works, WorkersHold, WorkerHolds, ReapersOnlyDestroy
<1> QED BY <1>1, <1>2, <1>3, <1>4, <1>5, <1>6, <1>7

(* managerLauncher waits for the handshake and touches no resource. *)
LEMMA WaitReadyPreserves ==
  ASSUME IInv, NEW g \in Goroutines, WaitReady(g) PROVE IInv'
<1> USE DEF IInv, MgrTypeOK, WaitReady, Step
<1>1. MgrTypeOK'
  BY SMTT(60)
<1>2. ReapersOnlyDestroy'
  BY SMTT(60) DEF ReapersOnlyDestroy
<1>3. OneWorker'
  BY SMTT(60) DEF OneWorker, Works
<1>4. WorkersHold'
  BY SMTT(60) DEF WorkersHold, WorkerHolds, Works
<1>5. SessionsHold'
  BY DEF SessionsHold
<1>6. OnlyMinted'
  BY DEF OnlyMinted
<1>7. NobodyOrphaned'
  BY SMTT(60) DEF NobodyOrphaned, Attended, Works
<1> QED BY <1>1, <1>2, <1>3, <1>4, <1>5, <1>6, <1>7

(* Destroy takes the VM out of the map, which makes it the only worker. *)
LEMMA DestroyTakePreserves ==
  ASSUME IInv, NEW g \in Goroutines, DestroyTake(g) PROVE IInv'
<1> USE DEF IInv, MgrTypeOK, DestroyTake, Step, Finish
<1>1. MgrTypeOK'
  OBVIOUS
<1>2. ReapersOnlyDestroy'
  BY DEF ReapersOnlyDestroy
<1>3. OneWorker'
  BY SMTT(60) DEF OneWorker, Works, WorkersHold, WorkerHolds
<1>4. WorkersHold'
  BY DEF WorkersHold, WorkerHolds, Works, SessionsHold
<1>5. SessionsHold'
  BY DEF SessionsHold
<1>6. OnlyMinted'
  BY DEF OnlyMinted
<1>7. NobodyOrphaned'
  BY SMTT(60) DEF NobodyOrphaned, Attended, Works
<1> QED BY <1>1, <1>2, <1>3, <1>4, <1>5, <1>6, <1>7

(* Closing the done channel releases nothing. *)
LEMMA DestroyClosePreserves ==
  ASSUME IInv, NEW g \in Goroutines, DestroyClose(g) PROVE IInv'
<1> USE DEF IInv, MgrTypeOK, DestroyClose, Step
<1>1. MgrTypeOK'
  BY DEF WorkersHold, WorkerHolds, Works
<1>2. ReapersOnlyDestroy'
  BY DEF ReapersOnlyDestroy
<1>3. OneWorker'
  BY DEF OneWorker, Works
<1>4. WorkersHold'
  BY DEF WorkersHold, WorkerHolds, Works
<1>5. SessionsHold'
  BY DEF SessionsHold
<1>6. OnlyMinted'
  BY DEF OnlyMinted
<1>7. NobodyOrphaned'
  BY DEF NobodyOrphaned, Attended, Works
<1> QED BY <1>1, <1>2, <1>3, <1>4, <1>5, <1>6, <1>7

(* Process.Stop ends the process; everything is still held. *)
LEMMA DestroyStopPreserves ==
  ASSUME IInv, NEW g \in Goroutines, DestroyStop(g) PROVE IInv'
<1> USE DEF IInv, MgrTypeOK, DestroyStop, Step, Stop
<1>1. MgrTypeOK'
  OBVIOUS
<1>2. ReapersOnlyDestroy'
  BY DEF ReapersOnlyDestroy
<1>3. OneWorker'
  BY DEF OneWorker, Works
<1>4. WorkersHold'
  BY SMTT(60) DEF WorkersHold, WorkerHolds, Works
<1>5. SessionsHold'
  BY DEF SessionsHold
<1>6. OnlyMinted'
  BY DEF OnlyMinted
<1>7. NobodyOrphaned'
  BY SMTT(60) DEF NobodyOrphaned, Attended, Works
<1> QED BY <1>1, <1>2, <1>3, <1>4, <1>5, <1>6, <1>7

(* The teardown releases everything a stopped VM holds. *)
LEMMA DestroyFreePreserves ==
  ASSUME IInv, NEW g \in Goroutines, DestroyFree(g) PROVE IInv'
<1> USE DEF IInv, MgrTypeOK, DestroyFree, Step, Finish, cleanup, RemoveAll, DeleteTAP, Release
<1>1. MgrTypeOK'
  BY SMTT(60) DEF WorkersHold, WorkerHolds, Works
<1>2. ReapersOnlyDestroy'
  BY DEF ReapersOnlyDestroy
<1>3. OneWorker'
  BY DEF OneWorker, Works
<1>4. WorkersHold'
  BY DEF WorkersHold, WorkerHolds, Works, OneWorker
<1>5. SessionsHold'
  BY DEF SessionsHold, WorkersHold, WorkerHolds, Works
<1>6. OnlyMinted'
  BY DEF OnlyMinted
<1>7. NobodyOrphaned'
  BY SMTT(60) DEF NobodyOrphaned, Attended, Works, WorkersHold, WorkerHolds
<1> QED BY <1>1, <1>2, <1>3, <1>4, <1>5, <1>6, <1>7

(* Work(g) is one of the actions above. *)
LEMMA WorkPreserves ==
  ASSUME IInv, NEW g \in Goroutines, Work(g) PROVE IInv'
BY CreateCheckPreserves, CreateAllocPreserves, CreateTapPreserves, CreateDirPreserves,
   CreateRootfsPreserves, CreateWritePreserves, CreateLaunchPreserves, CreateInsertPreserves, WaitReadyPreserves, DestroyTakePreserves,
   DestroyClosePreserves, DestroyStopPreserves, DestroyFreePreserves
DEF Work

(* Entering and leaving Launch and Destroy, the reaper's wake-up, and what  *)
(* processes and guests do on their own release nothing and take nothing.   *)
LEMMA CallsPreserve ==
  ASSUME IInv, NEW g \in Callers,
         CallLaunch(g) \/ Return(g) \/ \E v \in VMs : CallDestroy(g, v)
  PROVE  IInv'
<1> USE DEF IInv, MgrTypeOK, CallLaunch, Return, CallDestroy, Step
<1>1. MgrTypeOK'
  BY SMTT(60)
<1>2. ReapersOnlyDestroy'
  BY SMTT(60) DEF ReapersOnlyDestroy
<1>3. OneWorker'
  BY SMTT(60) DEF OneWorker, Works
<1>4. WorkersHold'
  BY SMTT(60) DEF WorkersHold, WorkerHolds, Works
<1>5. SessionsHold'
  BY DEF SessionsHold
<1>6. OnlyMinted'
  BY DEF OnlyMinted
<1>7. NobodyOrphaned'
  BY SMTT(60) DEF NobodyOrphaned, Attended, Works
<1> QED BY <1>1, <1>2, <1>3, <1>4, <1>5, <1>6, <1>7

(* The same for the reaper's wake-up and for processes and guests. *)
LEMMA EnvironmentPreserves ==
  ASSUME IInv, NEW v \in VMs, ReaperWakes(v) \/ Environment(v) PROVE IInv'
<1> USE DEF IInv, MgrTypeOK, ReaperWakes, Step, Environment, VMExit, GuestHello, CloseDone
<1>1. MgrTypeOK'
  OBVIOUS
<1>2. ReapersOnlyDestroy'
  BY SMTT(60) DEF ReapersOnlyDestroy
<1>3. OneWorker'
  BY SMTT(60) DEF OneWorker, Works
<1>4. WorkersHold'
  BY SMTT(60) DEF WorkersHold, WorkerHolds, Works
<1>5. SessionsHold'
  BY DEF SessionsHold
<1>6. OnlyMinted'
  BY DEF OnlyMinted
<1>7. NobodyOrphaned'
  BY SMTT(60) DEF NobodyOrphaned, Attended, Works
<1> QED BY <1>1, <1>2, <1>3, <1>4, <1>5, <1>6, <1>7

(* A new Manager satisfies the invariant. *)
LEMMA InitIInv == MgrInit => IInv
BY DEF MgrInit, IInv, MgrTypeOK, ReapersOnlyDestroy, OneWorker, WorkersHold, Works,
       SessionsHold, OnlyMinted, NobodyOrphaned

(* Every step of the Manager and its goroutines preserves it. *)
LEMMA IInvInductive == IInv /\ [MgrNext]_mgrVars => IInv'
<1> SUFFICES ASSUME IInv, [MgrNext]_mgrVars PROVE IInv'
  OBVIOUS
<1>1. CASE \E g \in Callers :
             CallLaunch(g) \/ Return(g) \/ \E v \in VMs : CallDestroy(g, v)
  BY <1>1, CallsPreserve
<1>2. CASE \E g \in Goroutines : Work(g)
  BY <1>2, WorkPreserves
<1>3. CASE \E v \in VMs : ReaperWakes(v) \/ Environment(v)
  BY <1>3, EnvironmentPreserves
<1>4. CASE UNCHANGED mgrVars
  BY <1>4 DEF mgrVars, IInv, MgrTypeOK, ReapersOnlyDestroy, OneWorker, WorkersHold,
     WorkerHolds, Works, SessionsHold, OnlyMinted, NobodyOrphaned, Attended
<1> QED BY <1>1, <1>2, <1>3, <1>4 DEF MgrNext

(* The invariant holds in every state of the Manager. *)
LEMMA IInvHolds == MgrSafety => []IInv
BY InitIInv, IInvInductive, PTL DEF MgrSafety

(* The Manager's state has its types in every state. *)
THEOREM TypeCorrect == MgrSafety => []MgrTypeOK
<1>1. IInv => MgrTypeOK
  BY DEF IInv
<1> QED BY <1>1, IInvHolds, PTL

(* The reaper, the launcher after a boot timeout and any number of          *)
(* Host.Destroy calls race to destroy a VM: at most one tears it down, and  *)
(* only once the VM has left the map.                                       *)
THEOREM TornDownOnce == MgrSafety => []OneTeardown
<1>1. IInv => OneTeardown
  BY DEF IInv, OneWorker, WorkersHold, WorkerHolds, Works, OneTeardown, TearingDown
<1> QED BY <1>1, IInvHolds, PTL

(* On every path of Create and Destroy, error paths included, an address, a *)
(* TAP, a directory or a running process belongs to a session in the map or *)
(* to a goroutine that is still working on the VM, or it is a TAP or a      *)
(* directory that a failed command of the host left.                        *)
THEOREM NothingIsOrphaned == MgrSafety => []NothingOrphaned
<1>1. IInv => NothingOrphaned
  BY DEF IInv, NobodyOrphaned, Attended, Works, NothingOrphaned, Creating, TearingDown
<1> QED BY <1>1, IInvHolds, PTL

(* Destroy and cleanup never release what a running VM uses. *)
THEOREM RunningVMsHoldAll == MgrSafety => []RunningHoldsAll
<1>1. IInv => RunningHoldsAll
  BY SMTT(60) DEF IInv, NobodyOrphaned, Attended, WorkersHold, WorkerHolds, SessionsHold, Works,
         RunningHoldsAll
<1> QED BY <1>1, IInvHolds, PTL

(* Create starts no VM whose image is still mounted on the host, on any    *)
(* path through PrepareRootfs.                                             *)
THEOREM ImageIsNotShared == MgrSafety => []ImageNotShared
<1>1. IInv => ImageNotShared
  BY SMTT(60) DEF IInv, NobodyOrphaned, Attended, WorkersHold, WorkerHolds, SessionsHold, Works,
         ImageNotShared
<1> QED BY <1>1, IInvHolds, PTL

-----------------------------------------------------------------------------
(* Who may build a VM, and who has it afterwards. *)
(* g has asked Create for a VM and not yet been answered or turned away. *)
Builds(g) == pc[g] \in CreateLabels \cup {"wait", "ok"}

(* The Manager's half: who may build a VM and hand it out. *)
BuildersLaunch ==
  \A g \in Goroutines : Builds(g) \/ pc[g] \in {"check", "alloc"} => g \in Callers /\ op[g] = "launch"

BuildersMint == \A g \in Goroutines : Builds(g) => arg[g] \in minted

OneBuilder == \A g, h \in Goroutines : Builds(g) /\ Builds(h) /\ arg[g] = arg[h] => g = h

HandedOnce ==
  /\ handed \subseteq minted
  /\ \A g \in Goroutines : Builds(g) => (arg[g] \in handed <=> pc[g] = "ok")

DoneIsFinal ==
  \A v \in done :
    /\ v \in minted /\ v \notin sessions
    /\ \A g \in Goroutines : pc[g] \in CreateLabels => arg[g] # v

BInv == BuildersLaunch /\ BuildersMint /\ OneBuilder /\ HandedOnce /\ DoneIsFinal

(* A step inside Create or Destroy that hands nothing out. *)
LEMMA MoveKeepsBuilders ==
  ASSUME IInv, BInv, NEW g \in Goroutines, NEW q \in Labels,
         pc' = [pc EXCEPT ![g] = q],
         UNCHANGED <<minted, handed, done, arg, op>>, sessions' \subseteq sessions,
         q \in CreateLabels => pc[g] \in CreateLabels,
         q = "alloc" => pc[g] = "check", q \notin {"check", "wait", "ok"}
  PROVE  BInv'
<1> USE DEF BInv, IInv, MgrTypeOK, Builds
<1>1. BuildersLaunch'
  BY DEF BuildersLaunch
<1>2. BuildersMint'
  BY DEF BuildersMint
<1>3. OneBuilder'
  BY DEF OneBuilder
<1>4. HandedOnce'
  BY DEF HandedOnce
<1>5. DoneIsFinal'
  BY DEF DoneIsFinal
<1> QED BY <1>1, <1>2, <1>3, <1>4, <1>5

(* Alloc picks a VM nobody has built or been handed. *)
LEMMA AllocKeepsBuilders ==
  ASSUME IInv, BInv, NEW g \in Goroutines, CreateAlloc(g)
  PROVE  BInv'
<1>1. CASE minted = VMs /\ Step(g, "alloc", "fail")
           /\ UNCHANGED <<sessions, minted, resources, proc, ready, handed, done, arg, op>>
  BY <1>1, MoveKeepsBuilders DEF Step
<1>2. ASSUME NEW v \in VMs \ minted, Step(g, "alloc", "tap"), minted' = minted \cup {v},
             arg' = [arg EXCEPT ![g] = v], UNCHANGED <<sessions, handed, done, op>>
      PROVE  BInv'
  <2> USE <1>2 DEF BInv, IInv, MgrTypeOK, Builds, Step
  <2>1. BuildersLaunch'
    BY DEF BuildersLaunch
  <2>2. BuildersMint'
    BY DEF BuildersMint
  <2>3. OneBuilder'
    BY SMTT(60) DEF OneBuilder, BuildersMint
  <2>4. HandedOnce'
    BY DEF HandedOnce
  <2>5. DoneIsFinal'
    BY SMTT(60) DEF DoneIsFinal
  <2> QED BY <2>1, <2>2, <2>3, <2>4, <2>5
<1> QED BY <1>1, <1>2 DEF CreateAlloc

(* The builder inserts the VM it builds, and its reaper starts. *)
LEMMA InsertKeepsBuilders ==
  ASSUME IInv, BInv, NEW g \in Goroutines, CreateInsert(g)
  PROVE  BInv'
<1> USE DEF BInv, IInv, MgrTypeOK, Builds, CreateInsert
<1>0. arg[g] \in VMs /\ g \notin VMs
  BY DEF BuildersMint, BuildersLaunch
<1>1. BuildersLaunch'
  BY <1>0 DEF BuildersLaunch
<1>2. BuildersMint'
  BY <1>0 DEF BuildersMint
<1>3. OneBuilder'
  BY <1>0, SMTT(60) DEF OneBuilder
<1>4. HandedOnce'
  BY <1>0 DEF HandedOnce
<1>5. DoneIsFinal'
  BY <1>0 DEF DoneIsFinal
<1> QED BY <1>1, <1>2, <1>3, <1>4, <1>5

(* Launch returns the VM to the one goroutine that built it. *)
LEMMA ReadyKeepsBuilders ==
  ASSUME IInv, BInv, NEW g \in Goroutines, WaitReady(g)
  PROVE  BInv'
<1>1. CASE Step(g, "wait", "destroy")
           /\ UNCHANGED <<sessions, minted, resources, proc, ready, handed, done, arg, op>>
  BY <1>1, MoveKeepsBuilders DEF Step
<1>2. CASE Step(g, "wait", "ok") /\ handed' = handed \cup {arg[g]}
           /\ UNCHANGED <<sessions, minted, resources, proc, ready, done, arg, op>>
  <2> USE <1>2 DEF BInv, IInv, MgrTypeOK, Builds, Step
  <2>1. BuildersLaunch'
    BY DEF BuildersLaunch
  <2>2. BuildersMint'
    BY DEF BuildersMint
  <2>3. OneBuilder'
    BY DEF OneBuilder
  <2>4. HandedOnce'
    BY SMTT(60) DEF HandedOnce, OneBuilder, BuildersMint
  <2>5. DoneIsFinal'
    BY DEF DoneIsFinal
  <2> QED BY <2>1, <2>2, <2>3, <2>4, <2>5
<1> QED BY <1>1, <1>2 DEF WaitReady

(* Destroy closes the channel of a VM it has taken out of the map. *)
LEMMA CloseKeepsBuilders ==
  ASSUME IInv, BInv, NEW g \in Goroutines, DestroyClose(g)
  PROVE  BInv'
<1> USE DEF BInv, Builds
<1>1. /\ pc[g] = "close" /\ pc \in [Goroutines -> Labels] /\ pc' = [pc EXCEPT ![g] = "stop"]
      /\ done' = done \cup {arg[g]} /\ UNCHANGED <<sessions, minted, handed, arg, op>>
  BY DEF DestroyClose, Step, IInv, MgrTypeOK
<1>2. /\ arg[g] \in minted /\ arg[g] \notin sessions
      /\ \A h \in Goroutines : pc[h] \in CreateLabels => arg[h] # arg[g]
  BY <1>1 DEF IInv, WorkersHold, WorkerHolds, OneWorker, Works
<1>3. BuildersLaunch'
  BY <1>1 DEF BuildersLaunch
<1>4. BuildersMint'
  BY <1>1 DEF BuildersMint
<1>5. OneBuilder'
  BY <1>1 DEF OneBuilder
<1>6. HandedOnce'
  BY <1>1 DEF HandedOnce
<1>7. DoneIsFinal'
  BY <1>1, <1>2 DEF DoneIsFinal
<1> QED BY <1>3, <1>4, <1>5, <1>6, <1>7

(* Whatever a goroutine does in the Manager on its own. *)
LEMMA WorkKeepsBuilders ==
  ASSUME IInv, BInv, NEW g \in Goroutines, Work(g)
  PROVE  BInv'
<1>1. CASE CreateCheck(g)
  <2>1. PICK q \in {"capacity", "alloc"} : pc' = [pc EXCEPT ![g] = q]
    BY <1>1 DEF CreateCheck, Step
  <2> QED BY <1>1, <2>1, MoveKeepsBuilders DEF CreateCheck, Step
<1>2. CASE CreateTap(g) \/ CreateDir(g) \/ CreateRootfs(g) \/ CreateWrite(g) \/ CreateLaunch(g)
  <2>1. PICK q \in {"dir", "rootfs", "write", "launch", "insert", "fail"} :
          pc' = [pc EXCEPT ![g] = q] /\ pc[g] \in CreateLabels
    BY <1>2 DEF CreateTap, CreateDir, CreateRootfs, CreateWrite, CreateLaunch, Step
  <2>2. UNCHANGED <<sessions, minted, handed, done, arg, op>>
    BY <1>2 DEF CreateTap, CreateDir, CreateRootfs, CreateWrite, CreateLaunch
  <2> QED BY <2>1, <2>2, MoveKeepsBuilders
<1>3. CASE DestroyTake(g) \/ DestroyStop(g) \/ DestroyFree(g)
  <2>1. PICK q \in {"close", "free", "fail", "notfound", "gone"} : pc' = [pc EXCEPT ![g] = q]
    BY <1>3 DEF DestroyTake, DestroyStop, DestroyFree, Step, Finish
  <2>2. sessions' \subseteq sessions /\ UNCHANGED <<minted, handed, done, arg, op>>
    BY <1>3 DEF DestroyTake, DestroyStop, DestroyFree
  <2> QED BY <2>1, <2>2, MoveKeepsBuilders
<1> QED BY <1>1, <1>2, <1>3, AllocKeepsBuilders, InsertKeepsBuilders, ReadyKeepsBuilders,
           CloseKeepsBuilders DEF Work

(* A step of a goroutine that builds nothing after it; it may close the    *)
(* done channel of a VM that was handed out and is out of the map.         *)
LEMMA BystanderKeepsBuilders ==
  ASSUME BInv, NEW g \in Goroutines,
         \A h \in Goroutines \ {g} : pc'[h] = pc[h] /\ arg'[h] = arg[h] /\ op'[h] = op[h],
         pc'[g] \notin CreateLabels \cup {"wait", "ok", "alloc"},
         pc'[g] = "check" => g \in Callers /\ op'[g] = "launch",
         UNCHANGED <<sessions, minted, handed>>, done' \subseteq done \cup (handed \ sessions)
  PROVE  BInv'
<1> USE DEF BInv, Builds
<1>1. BuildersLaunch'
  BY DEF BuildersLaunch
<1>2. BuildersMint'
  BY DEF BuildersMint
<1>3. OneBuilder'
  BY DEF OneBuilder
<1>4. HandedOnce'
  BY DEF HandedOnce
<1>5. DoneIsFinal'
  BY SMTT(60) DEF DoneIsFinal, HandedOnce
<1> QED BY <1>1, <1>2, <1>3, <1>4, <1>5

(* A caller enters the Manager or takes a result. *)
LEMMA CallsKeepBuilders ==
  ASSUME IInv, BInv, NEW g \in Callers,
         CallLaunch(g) \/ Return(g) \/ \E v \in VMs : CallDestroy(g, v)
  PROVE  BInv'
<1>1. \A h \in Goroutines \ {g} : pc'[h] = pc[h] /\ arg'[h] = arg[h] /\ op'[h] = op[h]
  BY SMTT(60) DEF CallLaunch, Return, CallDestroy, Step, IInv, MgrTypeOK
<1>2. pc'[g] \in {"check", "idle", "destroy"} /\ (pc'[g] = "check" => op'[g] = "launch")
  BY DEF CallLaunch, Return, CallDestroy, Step, IInv, MgrTypeOK
<1>3. UNCHANGED <<sessions, minted, handed, done>>
  BY DEF CallLaunch, Return, CallDestroy
<1> QED BY <1>1, <1>2, <1>3, BystanderKeepsBuilders

(* The reaper wakes up; processes, guests and Host's own CloseDone. *)
LEMMA EnvironmentKeepsBuilders ==
  ASSUME IInv, BInv, NEW v \in VMs, ReaperWakes(v) \/ Environment(v)
  PROVE  BInv'
<1>1. \A h \in Goroutines \ {v} : pc'[h] = pc[h] /\ arg'[h] = arg[h] /\ op'[h] = op[h]
  BY DEF ReaperWakes, Environment, VMExit, GuestHello, CloseDone, Step, IInv, MgrTypeOK
<1>2. pc[v] \in {"idle", "reap", "destroy"} \cup TeardownLabels \cup {"fail", "capacity", "gone", "notfound"}
  BY DEF IInv, ReapersOnlyDestroy, BInv, BuildersLaunch, Builds
<1>3. pc'[v] \in {pc[v], "destroy"}
  BY DEF ReaperWakes, Environment, VMExit, GuestHello, CloseDone, Step, IInv, MgrTypeOK
<1>4. UNCHANGED <<sessions, minted, handed>> /\ done' \subseteq done \cup (handed \ sessions)
  BY DEF ReaperWakes, Environment, VMExit, GuestHello, CloseDone
<1> QED BY <1>1, <1>2, <1>3, <1>4, BystanderKeepsBuilders

(* Every step of the Manager keeps its half of the invariant. *)
LEMMA BInvInductive == IInv /\ BInv /\ [MgrNext]_mgrVars => BInv'
<1> SUFFICES ASSUME IInv, BInv, [MgrNext]_mgrVars PROVE BInv'
  OBVIOUS
<1>1. CASE UNCHANGED mgrVars
  BY <1>1 DEF mgrVars, BInv, BuildersLaunch, BuildersMint, OneBuilder, HandedOnce, DoneIsFinal, Builds
<1> QED BY <1>1, WorkKeepsBuilders, CallsKeepBuilders, EnvironmentKeepsBuilders DEF MgrNext

-----------------------------------------------------------------------------
(* The cap: how many sessions there are and how many creations are under way. *)
Counted == IsFiniteSet(sessions) /\ OvershootBounded

(* Creations under way are callers, so there are finitely many. *)
LEMMA InFlightFinite ==
  /\ IsFiniteSet(InFlight) /\ Cardinality(InFlight) \in Nat
  /\ Cardinality(InFlight) <= Cardinality(Callers) /\ Cardinality(Callers) \in Nat
BY FS_Subset, FS_CardinalityType DEF InFlight

(* A step that adds no session and starts no creation keeps the bound. *)
LEMMA ShrinkingKeepsCount ==
  ASSUME Counted, sessions' \subseteq sessions, InFlight' \subseteq InFlight
  PROVE  Counted'
<1>1. /\ IsFiniteSet(sessions') /\ Cardinality(sessions') <= Cardinality(sessions)
      /\ Cardinality(sessions') \in Nat /\ Cardinality(sessions) \in Nat
  BY FS_Subset, FS_CardinalityType DEF Counted
<1>2. /\ Cardinality(InFlight') <= Cardinality(InFlight)
      /\ Cardinality(InFlight') \in Nat /\ Cardinality(InFlight) \in Nat
  BY InFlightFinite, FS_Subset, FS_CardinalityType
<1>3. Cardinality(Callers) \in Nat
  BY InFlightFinite
<1> QED BY <1>1, <1>2, <1>3 DEF Counted, OvershootBounded

(* The check of Create: whoever passes it saw a free slot, and the others *)
(* under way are at most the other callers.                               *)
LEMMA CreateCheckKeepsCount ==
  ASSUME IInv, Counted, NEW g \in Goroutines, CreateCheck(g) PROVE Counted'
<1>1. CASE Cardinality(sessions) >= MaxConcurrent
  <2>1. sessions' = sessions /\ InFlight' \subseteq InFlight
    BY <1>1 DEF CreateCheck, Step, InFlight, IInv, MgrTypeOK
  <2> QED BY <2>1, ShrinkingKeepsCount
<1>2. CASE ~(Cardinality(sessions) >= MaxConcurrent)
  <2>1. sessions' = sessions /\ InFlight' \subseteq Callers
    BY DEF CreateCheck, InFlight
  <2>2. /\ Cardinality(InFlight') <= Cardinality(Callers)
        /\ Cardinality(InFlight') \in Nat /\ Cardinality(Callers) \in Nat
    BY <2>1, FS_Subset, FS_CardinalityType
  <2>3. Cardinality(sessions) \in Nat
    BY FS_CardinalityType DEF Counted
  <2> QED BY <1>2, <2>1, <2>2, <2>3, SMTT(60) DEF Counted, OvershootBounded
<1> QED BY <1>1, <1>2

(* Insertion trades a creation under way for a session. *)
LEMMA CreateInsertKeepsCount ==
  ASSUME IInv, Counted, NEW g \in Goroutines, CreateInsert(g) PROVE Counted'
<1>1. g \in InFlight
  BY DEF CreateInsert, InFlight, IInv, ReapersOnlyDestroy
<1>2. arg[g] \in VMs
  BY DEF CreateInsert, IInv, MgrTypeOK, WorkersHold, WorkerHolds, Works
<1>3. InFlight' \subseteq InFlight \ {g}
  BY <1>1, <1>2 DEF CreateInsert, InFlight, IInv, MgrTypeOK
<1>4. /\ Cardinality(InFlight') <= Cardinality(InFlight \ {g})
      /\ Cardinality(InFlight \ {g}) = Cardinality(InFlight) - 1
      /\ Cardinality(InFlight') \in Nat /\ Cardinality(InFlight) \in Nat
  <2>1. IsFiniteSet(InFlight \ {g}) /\ Cardinality(InFlight \ {g}) = Cardinality(InFlight) - 1
    BY <1>1, InFlightFinite, FS_RemoveElement
  <2>2. IsFiniteSet(InFlight') /\ Cardinality(InFlight') <= Cardinality(InFlight \ {g})
    BY <1>3, <2>1, FS_Subset
  <2> QED BY <2>1, <2>2, InFlightFinite, FS_CardinalityType
<1>5. /\ IsFiniteSet(sessions') /\ Cardinality(sessions') <= Cardinality(sessions) + 1
      /\ Cardinality(sessions') \in Nat /\ Cardinality(sessions) \in Nat
  <2>1. sessions' = sessions \cup {arg[g]} /\ IsFiniteSet(sessions)
    BY DEF Counted, CreateInsert
  <2>2. /\ IsFiniteSet(sessions')
        /\ Cardinality(sessions') = Cardinality(sessions)
             \/ Cardinality(sessions') = Cardinality(sessions) + 1
    BY <2>1, FS_AddElement
  <2> QED BY <2>1, <2>2, FS_CardinalityType, SMTT(60)
<1>6. Cardinality(Callers) \in Nat
  BY InFlightFinite
<1> QED BY <1>4, <1>5, <1>6, SMTT(60) DEF Counted, OvershootBounded

(* Every other step of the Manager adds no session and starts no creation. *)
LEMMA OtherStepsKeepCount ==
  ASSUME IInv, Counted, [MgrNext]_mgrVars,
         \A g \in Goroutines : ~CreateCheck(g) /\ ~CreateInsert(g)
  PROVE  Counted'
<1> SUFFICES sessions' \subseteq sessions /\ InFlight' \subseteq InFlight
  BY ShrinkingKeepsCount
<1> USE DEF IInv, MgrTypeOK, InFlight, Step
<1>1. ASSUME NEW g \in Callers, CallLaunch(g) \/ Return(g) \/ \E v \in VMs : CallDestroy(g, v)
      PROVE  sessions' \subseteq sessions /\ InFlight' \subseteq InFlight
  BY <1>1, SMTT(60) DEF CallLaunch, Return, CallDestroy
<1>2. ASSUME NEW g \in Goroutines, Work(g)
      PROVE  sessions' \subseteq sessions /\ InFlight' \subseteq InFlight
  <2>1. CASE CreateAlloc(g) \/ CreateTap(g) \/ CreateDir(g)
    BY <2>1 DEF CreateAlloc, CreateTap, CreateDir
  <2>2. CASE CreateRootfs(g) \/ CreateWrite(g) \/ CreateLaunch(g)
    BY <2>2 DEF CreateRootfs, CreateWrite, CreateLaunch
  <2>3. CASE WaitReady(g)
    BY <2>3 DEF WaitReady
  <2>4. CASE DestroyTake(g) \/ DestroyClose(g) \/ DestroyStop(g) \/ DestroyFree(g)
    BY <2>4, SMTT(60) DEF DestroyTake, DestroyClose, DestroyStop, DestroyFree, Finish
  <2> QED BY <1>2, <2>1, <2>2, <2>3, <2>4 DEF Work
<1>3. ASSUME NEW v \in VMs, ReaperWakes(v) \/ Environment(v)
      PROVE  sessions' \subseteq sessions /\ InFlight' \subseteq InFlight
  BY <1>3 DEF ReaperWakes, Environment, VMExit, GuestHello, CloseDone
<1>4. CASE UNCHANGED mgrVars
  BY <1>4 DEF mgrVars
<1> QED BY <1>1, <1>2, <1>3, <1>4 DEF MgrNext

(* The capacity check is not atomic with the insertion; still there are never *)
(* more sessions and creations than MaxConcurrent plus the other callers.     *)
THEOREM CapOvershootIsBounded == MgrSafety => []OvershootBounded
<1>1. MgrInit => Counted
  <2> SUFFICES ASSUME MgrInit PROVE Counted
    OBVIOUS
  <2>1. sessions = {} /\ InFlight = {}
    BY DEF MgrInit, InFlight
  <2>2. IsFiniteSet({}) /\ Cardinality({}) = 0
    BY FS_EmptySet
  <2>3. Cardinality(Callers) \in Nat
    BY InFlightFinite
  <2> QED BY <2>1, <2>2, <2>3 DEF Counted, OvershootBounded
<1>2. IInv /\ Counted /\ [MgrNext]_mgrVars => Counted'
  BY CreateCheckKeepsCount, CreateInsertKeepsCount, OtherStepsKeepCount
<1>3. Counted => OvershootBounded
  BY DEF Counted
<1> QED BY <1>1, <1>2, <1>3, IInvHolds, PTL DEF MgrSafety

-----------------------------------------------------------------------------
(* Host has put v in its live map at some time. *)
Known(v) == watch[v] # "none"

(* c removed v from the live map and has not reported it yet. *)
Owes(c, v) == hvm[c] = v /\ hpc[c] \in {"teardown", "close", "notify"}

(* A goroutine's place in Host determines its place in the Manager. *)
AtPlace(c) ==
  /\ hpc[c] \notin {"launch", "teardown"} => pc[c] = "idle"
  /\ hpc[c] = "launch" => op[c] = "launch"
  /\ hpc[c] = "teardown" =>
       /\ op[c] = "destroy" /\ arg[c] = hvm[c]
       /\ pc[c] \in {"destroy", "gone", "notfound"} \cup TeardownLabels
       /\ pc[c] # "destroy" => hvm[c] \notin sessions
  /\ hpc[c] \in {"close", "notify"} => hvm[c] \notin sessions

InManager == \A c \in Callers : AtPlace(c)

(* Host knows a VM only from a Launch that returned it, and enters it once. *)
KnownHanded ==
  /\ \A v \in VMs : Known(v) => v \in handed
  /\ \A g \in Goroutines : Builds(g) => ~Known(arg[g])
  /\ \A v \in live \cup todo : Known(v)
  /\ \A c \in Callers : hpc[c] \notin {"idle", "check", "launch"} => hvm[c] \in VMs /\ Known(hvm[c])

(* Exactly the one who removed the session owes the report. *)
Answered(v) ==
  /\ gone[v] \in {0, 1}
  /\ gone[v] = 1 => v \notin live /\ watch[v] \in {"wait", "ended"}
  /\ watch[v] = "notify" => v \notin live
  /\ \A c \in Callers : Owes(c, v) => v \notin live /\ gone[v] = 0 /\ watch[v] # "notify"
  /\ \A c, d \in Callers : Owes(c, v) /\ Owes(d, v) => c = d

OneReporter == \A v \in VMs : Answered(v)

(* A row is stamped by a report. *)
StampedReported == \A v \in VMs : row[v] = "reaped" => gone[v] = 1

HInv ==
  /\ TypeOK
  /\ InManager
  /\ KnownHanded
  /\ OneReporter
  /\ StampedReported
  /\ NoStrayVM

-----------------------------------------------------------------------------
USE ManagerAssumption, HostAssumption
    DEF Goroutines, Labels, CreateLabels, TeardownLabels, Results, resources

-----------------------------------------------------------------------------
(* Host uses the Manager as the Manager's specification allows: in         *)
(* particular its own CloseDone comes when the VM is out of the map.       *)
LEMMA HostStepsAreManagerSteps == HInv /\ [Next]_vars => [MgrNext]_mgrVars
<1> SUFFICES ASSUME HInv, [Next]_vars, ~UNCHANGED mgrVars PROVE MgrNext
  OBVIOUS
<1>1. ASSUME NEW c \in Callers, HostWork(c) PROVE MgrNext
  <2>1. CASE HostCheck(c) \/ LaunchFailed(c) \/ HostInsert(c) \/ TeardownReturned(c)
    BY <2>1 DEF HostCheck, LaunchFailed, HostInsert, TeardownReturned, MgrNext
  <2>2. CASE HostDestroy(c)
    BY <2>2 DEF HostDestroy, HInv, TypeOK, MgrNext
  <2>3. CASE HostCloseDone(c)
    <3>1. hpc[c] = "close" /\ hvm[c] \in VMs /\ hvm[c] \in handed \ sessions
      BY <2>3 DEF HostCloseDone, Goto, HInv, InManager, AtPlace, KnownHanded
    <3>2. CloseDone(hvm[c])
      BY <2>3, <3>1 DEF HostCloseDone, CloseDone
    <3> QED BY <3>1, <3>2 DEF MgrNext, Environment
  <2>4. CASE SetOwner(c) \/ InsertRow(c) \/ HostNotify(c) \/ PTYAttach(c)
    BY <2>4 DEF SetOwner, InsertRow, HostNotify, PTYAttach
  <2> QED BY <1>1, <2>1, <2>2, <2>3, <2>4 DEF HostWork
<1>2. CASE \E g \in Goroutines : MgrWork(g)
  BY <1>2 DEF MgrWork, MgrNext
<1>3. CASE \E v \in VMs : WatchWork(v) \/ Reap(v) \/ VMStep(v)
  BY <1>3 DEF WatchWork, WatchWakes, WatchNotify, Reap, VMStep, MgrNext, Environment
<1>4. CASE Requests
  BY <1>4 DEF Requests, PostSessions, PTYWrite, PTYWritten, PTYDetach, DeleteSession, PTYGet, IdlePick
<1>5. CASE MainNext
  BY <1>5 DEF MainNext, Signal, ListSessions, ShutdownOne, Exit
<1> QED BY <1>1, <1>2, <1>3, <1>4, <1>5 DEF Next, vars

-----------------------------------------------------------------------------
(* Only goroutine g moves. *)
OthersStay(g) ==
  /\ \A h \in Goroutines \ {g} : pc'[h] = pc[h] /\ arg'[h] = arg[h] /\ op'[h] = op[h]
  /\ \A d \in Callers \ {g} : hpc'[d] = hpc[d] /\ hvm'[d] = hvm[d]

(* g is about to insert v in the live map or to destroy it. *)
Tends(g, v) == arg[g] = v /\ pc[g] \in {"ok", "destroy"}

(* What a step of g has to show for each conjunct of the invariant.        *)
(* Places: no VM that was handed out enters the Manager's map.             *)
LEMMA PlacesKept ==
  ASSUME InManager, KnownHanded, NEW g \in Goroutines, OthersStay(g),
         sessions' \cap handed \subseteq sessions, g \in Callers => AtPlace(g)'
  PROVE  InManager'
<1> SUFFICES ASSUME NEW c \in Callers, c # g PROVE AtPlace(c)'
  BY DEF InManager
<1>1. AtPlace(c)
  BY DEF InManager
<1>2. hpc[c] \in {"teardown", "close", "notify"} => hvm[c] \in handed
  BY DEF KnownHanded
<1>3. /\ hpc'[c] = hpc[c] /\ hvm'[c] = hvm[c]
      /\ pc'[c] = pc[c] /\ arg'[c] = arg[c] /\ op'[c] = op[c]
  BY DEF OthersStay
<1> QED BY <1>1, <1>2, <1>3 DEF AtPlace

(* Known VMs: g builds no known VM, and works on a known one. *)
LEMMA KnownKept ==
  ASSUME KnownHanded, NEW g \in Goroutines, OthersStay(g),
         handed \subseteq handed', UNCHANGED watch, live' \cup todo' \subseteq live \cup todo,
         Builds(g)' => ~Known(arg'[g]),
         g \in Callers /\ hpc'[g] \notin {"idle", "check", "launch"} =>
           hvm'[g] \in VMs /\ Known(hvm'[g])
  PROVE  KnownHanded'
<1>1. \A v \in VMs : Known(v)' => v \in handed'
  BY DEF KnownHanded, Known
<1>2. \A h \in Goroutines : Builds(h)' => ~Known(arg[h])'
  BY SMTT(60) DEF KnownHanded, Known, Builds, OthersStay
<1>3. \A v \in live' \cup todo' : Known(v)'
  BY DEF KnownHanded, Known
<1>4. \A c \in Callers :
        hpc'[c] \notin {"idle", "check", "launch"} => hvm'[c] \in VMs /\ Known(hvm[c])'
  BY SMTT(60) DEF KnownHanded, Known, OthersStay
<1> QED BY <1>1, <1>2, <1>3, <1>4 DEF KnownHanded

(* Reporters: nobody leaves the live map, and g owes nothing new. *)
LEMMA ReportersKept ==
  ASSUME OneReporter, NEW g \in Goroutines, OthersStay(g), UNCHANGED <<live, watch, gone>>,
         \A v \in VMs : g \in Callers /\ Owes(g, v)' => Owes(g, v)
  PROVE  OneReporter'
<1>1. \A c \in Callers, v \in VMs : Owes(c, v)' => Owes(c, v)
  BY DEF OthersStay, Owes
<1> QED BY <1>1 DEF OneReporter, Answered

(* Stamps: none is added. *)
LEMMA StampsKept ==
  ASSUME StampedReported, UNCHANGED gone, \A v \in VMs : row'[v] = "reaped" => row[v] = "reaped"
  PROVE  StampedReported'
BY DEF StampedReported

(* Strays: a VM that g stops tending, or that leaves the live map, is out  *)
(* of the Manager's map or in good hands.                                  *)
LEMMA StraysKept ==
  ASSUME NoStrayVM, NEW g \in Goroutines, OthersStay(g),
         \A v \in sessions' \cap handed' : v \in sessions \cap handed \/ Tends(g, v)',
         \A v \in sessions' : v \in live \/ Tends(g, v) => v \in live' \/ Tends(g, v)'
  PROVE  NoStrayVM'
<1> SUFFICES ASSUME NEW v \in sessions' \cap handed', v \notin live', ~Tends(g, v)'
             PROVE  \E h \in Goroutines : Tends(h, v)'
  BY SMTT(60) DEF NoStrayVM, Tends
<1>1. v \in sessions \cap handed /\ v \notin live /\ ~Tends(g, v)
  OBVIOUS
<1>2. PICK h \in Goroutines : Tends(h, v)
  BY <1>1 DEF NoStrayVM, Tends
<1>3. h # g
  BY <1>1, <1>2
<1> QED BY <1>2, <1>3 DEF OthersStay, Tends

-----------------------------------------------------------------------------
(* c goes to q in Host, or in its handler, without touching the Manager,   *)
(* the live map or a report.                                               *)
Aside == {"idle", "check", "owner", "row", "destroy", "attach", "attached", "writing"}

Hop(c, q) ==
  /\ hpc[c] \in Aside /\ q \in Aside
  /\ hpc' = [hpc EXCEPT ![c] = q]
  /\ hvm' \in [Callers -> VMs \cup {NoVM}] /\ \A d \in Callers \ {c} : hvm'[d] = hvm[d]
  /\ q \notin {"idle", "check"} => hvm'[c] \in VMs /\ Known(hvm'[c])
  /\ UNCHANGED <<mgrVars, live, watch, gone, phase>>
  /\ owned' \subseteq VMs /\ todo' \subseteq todo
  /\ row' \in [VMs -> {"none", "open", "reaped"}]
  /\ \A v \in VMs : row'[v] = "reaped" => row[v] = "reaped"

(* Such a step keeps Host's half of the invariant. *)
LEMMA HopKeeps ==
  ASSUME HInv, NEW c \in Callers, NEW q, Hop(c, q)
  PROVE  HInv'
<1> USE DEF HInv, Known, Owes, Builds, Goto, Tends
<1>1. /\ hpc[c] \in Aside /\ q \in Aside /\ hpc'[c] = q /\ pc[c] = "idle"
      /\ q \notin {"idle", "check"} => hvm'[c] \in VMs /\ Known(hvm'[c])
      /\ UNCHANGED <<sessions, handed, pc, arg, op, live, watch, gone>> /\ todo' \subseteq todo
      /\ \A v \in VMs : row'[v] = "reaped" => row[v] = "reaped"
  BY DEF Hop, Aside, mgrVars, TypeOK, HostLabels, InManager, AtPlace
<1>2. OthersStay(c)
  BY DEF OthersStay, Hop, mgrVars, TypeOK
<1>3. TypeOK'
  BY DEF Hop, Aside, mgrVars, TypeOK, MgrTypeOK, HostLabels
<1>4. InManager'
  <2>1. AtPlace(c)'
    BY <1>1 DEF AtPlace, Aside
  <2> QED BY <1>1, <1>2, <2>1, PlacesKept
<1>5. KnownHanded'
  BY <1>1, <1>2, KnownKept DEF Aside
<1>6. OneReporter'
  BY <1>1, <1>2, ReportersKept DEF Aside
<1>7. StampedReported'
  BY <1>1, StampsKept
<1>8. NoStrayVM'
  BY <1>1, <1>2, StraysKept
<1> QED BY <1>3, <1>4, <1>5, <1>6, <1>7, <1>8

(* The steps of handlers, of the idle reaper and of main between their     *)
(* calls of Host, and the calls that Host turns down.                      *)
BetweenCalls(c) ==
  \/ PostSessions(c) \/ SetOwner(c) \/ InsertRow(c) \/ PTYAttach(c)
  \/ PTYWrite(c) \/ PTYWritten(c) \/ PTYDetach(c)
  \/ \E v \in VMs : DeleteSession(c, v) \/ PTYGet(c, v) \/ IdlePick(c, v)
  \/ ShutdownOne(c)
  \/ HostCheck(c) /\ UNCHANGED mgrVars
  \/ HostDestroy(c) /\ hvm[c] \notin live

(* They keep the invariant. *)
LEMMA HopsKeep == ASSUME HInv, NEW c \in Callers, BetweenCalls(c) PROVE HInv'
<1>0. hpc[c] \in {"owner", "row", "destroy", "attach", "attached", "writing"} =>
        hvm[c] \in VMs /\ Known(hvm[c])
  BY DEF HInv, KnownHanded
<1>1. CASE PostSessions(c)
  <2>1. Hop(c, "check")
    BY <1>1 DEF PostSessions, Hop, Aside, Goto, HInv, TypeOK
  <2> QED BY <2>1, HopKeeps
<1>2. CASE PTYAttach(c)
  <2>1. CASE Goto(c, "attach", "idle")
    <3>1. Hop(c, "idle")
      BY <1>2, <2>1 DEF PTYAttach, Hop, Aside, Goto, HInv, TypeOK
    <3> QED BY <3>1, HopKeeps
  <2>2. ASSUME NEW q \in {"attached", "writing"}, Goto(c, "attach", q),
               UNCHANGED <<mgrVars, live, watch, owned, row, gone, hvm, phase, todo>>
        PROVE  HInv'
    <3>1. Hop(c, q)
      BY <1>0, <2>2 DEF Hop, Aside, Goto, HInv, TypeOK
    <3> QED BY <3>1, HopKeeps
  <2> QED BY <1>2, <2>1, <2>2 DEF PTYAttach
<1>3. CASE PTYDetach(c)
  <2>1. Hop(c, "idle")
    BY <1>3 DEF PTYDetach, Hop, Aside, Goto, HInv, TypeOK
  <2> QED BY <2>1, HopKeeps
<1>4. CASE SetOwner(c)
  <2>1. Hop(c, "row")
    BY <1>0, <1>4 DEF SetOwner, Hop, Aside, Goto, HInv, TypeOK
  <2> QED BY <2>1, HopKeeps
<1>5. CASE InsertRow(c)
  <2>1. /\ row' \in [VMs -> {"none", "open", "reaped"}]
        /\ \A v \in VMs : row'[v] = "reaped" => row[v] = "reaped"
    BY <1>5 DEF InsertRow, InsertSession, HInv, TypeOK
  <2>2. CASE Goto(c, "row", "idle")
    <3>1. Hop(c, "idle")
      BY <1>5, <2>1, <2>2 DEF InsertRow, Hop, Aside, Goto, HInv, TypeOK
    <3> QED BY <3>1, HopKeeps
  <2>3. CASE Goto(c, "row", "destroy") /\ UNCHANGED <<mgrVars, live, watch, owned, gone, hvm, phase, todo>>
    <3>1. Hop(c, "destroy")
      BY <1>0, <2>1, <2>3 DEF Hop, Aside, Goto, HInv, TypeOK
    <3> QED BY <3>1, HopKeeps
  <2> QED BY <1>5, <2>2, <2>3 DEF InsertRow
<1>6. ASSUME NEW v \in VMs, DeleteSession(c, v) \/ PTYGet(c, v) \/ IdlePick(c, v) PROVE HInv'
  <2>1. Known(v)
    BY <1>6 DEF DeleteSession, PTYGet, IdlePick, HInv, KnownHanded
  <2>2. CASE DeleteSession(c, v) \/ IdlePick(c, v)
    <3>1. Hop(c, "destroy")
      BY <2>1, <2>2, SMTT(60) DEF DeleteSession, IdlePick, Hop, Aside, Goto, HInv, TypeOK
    <3> QED BY <3>1, HopKeeps
  <2>3. CASE PTYGet(c, v)
    <3>1. Hop(c, "attach")
      BY <2>1, <2>3 DEF PTYGet, Hop, Aside, Goto, HInv, TypeOK
    <3> QED BY <3>1, HopKeeps
  <2> QED BY <1>6, <2>2, <2>3
<1>7. CASE ShutdownOne(c)
  <2>1. PICK v \in todo : /\ Goto(c, "idle", "destroy") /\ hvm' = [hvm EXCEPT ![c] = v]
                          /\ todo' = todo \ {v}
                          /\ UNCHANGED <<mgrVars, live, watch, owned, row, gone, phase>>
    BY <1>7 DEF ShutdownOne
  <2>2. v \in VMs /\ Known(v)
    BY DEF HInv, TypeOK, KnownHanded
  <2>3. Hop(c, "destroy")
    BY <2>1, <2>2 DEF Hop, Aside, Goto, HInv, TypeOK
  <2> QED BY <2>3, HopKeeps
<1>8. CASE HostCheck(c) /\ UNCHANGED mgrVars
  <2>1. ~CallLaunch(c)
    BY <1>8 DEF CallLaunch, Step, mgrVars, HInv, TypeOK, MgrTypeOK
  <2>2. Hop(c, "idle")
    BY <1>8, <2>1 DEF HostCheck, Hop, Aside, Goto, HInv, TypeOK
  <2> QED BY <2>2, HopKeeps
<1>9. CASE HostDestroy(c) /\ hvm[c] \notin live
  <2>1. Hop(c, "idle")
    BY <1>9 DEF HostDestroy, Hop, Aside, Goto, HInv, TypeOK
  <2> QED BY <2>1, HopKeeps
<1>10. CASE PTYWrite(c)
  <2>1. Hop(c, "writing")
    BY <1>0, <1>10 DEF PTYWrite, Hop, Aside, Goto, HInv, TypeOK
  <2> QED BY <2>1, HopKeeps
<1>11. CASE PTYWritten(c)
  <2>1. Hop(c, "attached")
    BY <1>0, <1>11 DEF PTYWritten, Hop, Aside, Goto, HInv, TypeOK
  <2> QED BY <2>1, HopKeeps
<1> QED BY <1>1, <1>2, <1>3, <1>4, <1>5, <1>6, <1>7, <1>8, <1>9, <1>10, <1>11 DEF BetweenCalls

(* Host.Create passes its check and calls Launch. *)
LEMMA LaunchCallKeeps ==
  ASSUME IInv, BInv, HInv, NEW c \in Callers, CallLaunch(c), Goto(c, "check", "launch"),
         UNCHANGED <<live, watch, owned, row, gone, hvm, phase, todo>>
  PROVE  HInv'
<1> USE DEF HInv, Known, Owes, Builds, Goto, Tends
<1>1. /\ pc[c] = "idle" /\ pc'[c] = "check" /\ op'[c] = "launch" /\ hpc'[c] = "launch"
      /\ UNCHANGED <<sessions, handed, live, todo, watch, gone, row>>
  BY DEF CallLaunch, Step, TypeOK, MgrTypeOK
<1>2. OthersStay(c)
  BY DEF OthersStay, CallLaunch, Step, TypeOK, MgrTypeOK
<1>3. TypeOK'
  BY DEF CallLaunch, Step, TypeOK, MgrTypeOK, TypeOK, MgrTypeOK, HostLabels
<1>4. InManager'
  <2>1. AtPlace(c)'
    BY <1>1 DEF AtPlace
  <2> QED BY <1>1, <1>2, <2>1, PlacesKept
<1>5. KnownHanded'
  BY <1>1, <1>2, KnownKept
<1>6. OneReporter'
  BY <1>1, <1>2, ReportersKept
<1>7. StampedReported'
  BY <1>1, StampsKept
<1>8. NoStrayVM'
  BY <1>1, <1>2, StraysKept
<1> QED BY <1>3, <1>4, <1>5, <1>6, <1>7, <1>8

(* Launch failed. *)
LEMMA LaunchFailedKeeps ==
  ASSUME IInv, BInv, HInv, NEW c \in Callers, LaunchFailed(c)
  PROVE  HInv'
<1> USE DEF HInv, Known, Owes, Builds, Goto, Tends
<1>1. /\ pc[c] \in {"fail", "capacity"} /\ pc'[c] = "idle" /\ hpc'[c] = "idle"
      /\ UNCHANGED <<sessions, handed, live, todo, watch, gone, row>>
  BY DEF LaunchFailed, Return, TypeOK, MgrTypeOK
<1>2. OthersStay(c)
  BY DEF OthersStay, LaunchFailed, Return, TypeOK, MgrTypeOK
<1>3. TypeOK'
  BY DEF LaunchFailed, Return, TypeOK, MgrTypeOK, TypeOK, MgrTypeOK, HostLabels
<1>4. InManager'
  <2>1. AtPlace(c)'
    BY <1>1 DEF AtPlace
  <2> QED BY <1>1, <1>2, <2>1, PlacesKept
<1>5. KnownHanded'
  BY <1>1, <1>2, KnownKept
<1>6. OneReporter'
  BY <1>1, <1>2, ReportersKept
<1>7. StampedReported'
  BY <1>1, StampsKept
<1>8. NoStrayVM'
  BY <1>1, <1>2, StraysKept
<1> QED BY <1>3, <1>4, <1>5, <1>6, <1>7, <1>8

(* Launch returned a VM: only its builder knows it, so it enters the live  *)
(* map for the first time.                                                 *)
LEMMA HostInsertKeeps ==
  ASSUME IInv, BInv, HInv, NEW c \in Callers, HostInsert(c)
  PROVE  HInv'
<1> USE DEF HInv, Goto
<1>1. /\ pc[c] = "ok" /\ pc'[c] = "idle" /\ hpc'[c] = "owner" /\ hvm'[c] = arg[c]
      /\ live' = live \cup {arg[c]} /\ UNCHANGED <<sessions, handed, todo, gone, row>>
  BY DEF HostInsert, Return, TypeOK, MgrTypeOK
<1>2. OthersStay(c)
  BY DEF OthersStay, HostInsert, Return, TypeOK, MgrTypeOK
<1>3. /\ arg[c] \in VMs /\ arg[c] \in handed /\ watch[arg[c]] = "none"
      /\ \A h \in Goroutines : h # c /\ Builds(h) => arg[h] # arg[c]
  BY <1>1 DEF BInv, BuildersMint, HandedOnce, OneBuilder, Builds, KnownHanded, Known, TypeOK, MgrTypeOK
<1>4. \A v \in VMs : watch'[v] = IF v = arg[c] THEN "wait" ELSE watch[v]
  BY DEF HostInsert, TypeOK
<1>5. TypeOK'
  BY <1>3 DEF HostInsert, Return, TypeOK, MgrTypeOK, HostLabels
<1>6. InManager'
  <2>1. AtPlace(c)'
    BY <1>1 DEF AtPlace
  <2> QED BY <1>1, <1>2, <2>1, PlacesKept
<1>7. KnownHanded'
  <2>1. \A v \in VMs : Known(v)' <=> Known(v) \/ v = arg[c]
    BY <1>3, <1>4 DEF Known
  <2>2. \A v \in VMs : Known(v)' => v \in handed'
    BY <1>1, <1>3, <2>1 DEF KnownHanded
  <2>3. \A h \in Goroutines : Builds(h)' => Builds(h) /\ h # c /\ arg'[h] = arg[h] /\ arg[h] \in VMs
    BY <1>1, <1>2 DEF Builds, OthersStay, BInv, BuildersMint, TypeOK, MgrTypeOK
  <2>4. \A h \in Goroutines : Builds(h)' => ~Known(arg[h])'
    BY <1>3, <1>4, <2>3, SMTT(60) DEF KnownHanded, Known
  <2>5. \A v \in live' \cup todo' : Known(v)'
    <3>1. live \subseteq VMs /\ todo \subseteq VMs /\ \A v \in live \cup todo : watch[v] # "none"
      BY DEF TypeOK, KnownHanded, Known
    <3> QED BY <1>1, <1>3, <1>4, <3>1 DEF Known
  <2>6. \A d \in Callers :
          hpc'[d] \notin {"idle", "check", "launch"} => hvm'[d] \in VMs /\ Known(hvm[d])'
    BY <1>1, <1>2, <1>3, <1>4, SMTT(60) DEF KnownHanded, Known, OthersStay
  <2> QED BY <2>2, <2>4, <2>5, <2>6 DEF KnownHanded
<1>8. OneReporter'
  <2> SUFFICES ASSUME NEW v \in VMs PROVE Answered(v)'
    BY DEF OneReporter
  <2>1. Answered(v)
    BY DEF OneReporter
  <2>2. \A d \in Callers : Owes(d, v)' => Owes(d, v)
    BY <1>1, <1>2 DEF OthersStay, Owes
  <2>3. \A d \in Callers : Owes(d, v) => watch[v] # "none"
    BY DEF KnownHanded, Known, Owes
  <2>4. CASE v = arg[c]
    <3>1. gone[v] = 0 /\ watch'[v] = "wait" /\ \A d \in Callers : ~Owes(d, v)'
      BY <1>3, <1>4, <2>1, <2>2, <2>3, <2>4 DEF Answered
    <3> QED BY <1>1, <3>1, SMTT(60) DEF Answered
  <2>5. CASE v # arg[c]
    BY <1>1, <1>4, <2>1, <2>2, <2>5 DEF Answered
  <2> QED BY <2>4, <2>5
<1>9. StampedReported'
  BY <1>1, StampsKept
<1>10. NoStrayVM'
  BY <1>1, <1>2, StraysKept DEF Tends
<1> QED BY <1>5, <1>6, <1>7, <1>8, <1>9, <1>10

(* Whoever takes the session out of the live map goes on to destroy it, and *)
(* is the only one to owe its report.                                      *)
LEMMA HostDestroyKeeps ==
  ASSUME IInv, BInv, HInv, NEW c \in Callers, HostDestroy(c), hvm[c] \in live
  PROVE  HInv'
<1> USE DEF HInv, Goto
<1>1. /\ pc[c] = "idle" /\ pc'[c] = "destroy" /\ op'[c] = "destroy" /\ arg'[c] = hvm[c]
      /\ hpc[c] = "destroy" /\ hpc'[c] = "teardown" /\ hvm' = hvm /\ live' = live \ {hvm[c]}
      /\ UNCHANGED <<sessions, handed, todo, watch, gone, row>>
  BY SMTT(60) DEF HostDestroy, CallDestroy, Step, TypeOK, MgrTypeOK
<1>2. OthersStay(c)
  BY SMTT(60) DEF OthersStay, HostDestroy, CallDestroy, Step, TypeOK, MgrTypeOK
<1>3. hvm[c] \in VMs /\ Known(hvm[c])
  BY <1>1 DEF KnownHanded
<1>4. TypeOK'
  <2>1. CallDestroy(c, hvm[c])
    BY DEF HostDestroy
  <2>2. MgrTypeOK'
    BY <1>3, <2>1 DEF CallDestroy, Step, TypeOK, MgrTypeOK
  <2> QED BY <1>1, <2>2 DEF HostDestroy, TypeOK, HostLabels
<1>5. InManager'
  <2>1. AtPlace(c)'
    BY <1>1 DEF AtPlace
  <2> QED BY <1>1, <1>2, <2>1, PlacesKept
<1>6. KnownHanded'
  BY <1>1, <1>2, <1>3, KnownKept DEF Builds
<1>7. OneReporter'
  <2> SUFFICES ASSUME NEW v \in VMs PROVE Answered(v)'
    BY DEF OneReporter
  <2>1. Answered(v)
    BY DEF OneReporter
  <2>2. CASE v = hvm[c]
    <3>1. gone[v] = 0 /\ watch[v] # "notify" /\ \A d \in Callers : ~Owes(d, v)
      BY <2>1, <2>2 DEF Answered
    <3>2. \A d \in Callers : Owes(d, v)' => d = c
      BY <1>2, <3>1 DEF OthersStay, Owes
    <3>3. v \notin live' /\ gone'[v] = 0 /\ watch'[v] # "notify"
      BY <1>1, <2>2, <3>1
    <3> QED BY <3>2, <3>3, SMTT(60) DEF Answered
  <2>3. CASE v # hvm[c]
    <3>1. \A d \in Callers : Owes(d, v)' => Owes(d, v)
      BY <1>1, <1>2, <2>3 DEF OthersStay, Owes
    <3> QED BY <1>1, <2>1, <2>3, <3>1 DEF Answered
  <2> QED BY <2>2, <2>3
<1>8. StampedReported'
  BY <1>1, StampsKept
<1>9. NoStrayVM'
  BY <1>1, <1>2, StraysKept DEF Tends
<1> QED BY <1>4, <1>5, <1>6, <1>7, <1>8, <1>9

(* Manager.Destroy returned, with or without having found the session. *)
LEMMA TeardownReturnedKeeps ==
  ASSUME IInv, BInv, HInv, NEW c \in Callers, TeardownReturned(c)
  PROVE  HInv'
<1> USE DEF HInv, Known, Owes, Builds, Goto, Tends
<1>1. /\ pc[c] \in {"gone", "notfound"} /\ pc'[c] = "idle" /\ hpc[c] = "teardown" /\ hpc'[c] = "close"
      /\ hvm'[c] = hvm[c] /\ hvm[c] \in VMs /\ Known(hvm[c]) /\ hvm[c] \notin sessions
      /\ UNCHANGED <<sessions, handed, live, todo, watch, gone, row>>
  BY DEF TeardownReturned, Return, TypeOK, MgrTypeOK, InManager, AtPlace, KnownHanded
<1>2. OthersStay(c)
  BY DEF OthersStay, TeardownReturned, Return, TypeOK, MgrTypeOK
<1>3. TypeOK'
  BY DEF TeardownReturned, Return, TypeOK, MgrTypeOK, HostLabels
<1>4. InManager'
  <2>1. AtPlace(c)'
    BY <1>1 DEF AtPlace
  <2> QED BY <1>1, <1>2, <2>1, PlacesKept
<1>5. KnownHanded'
  BY <1>1, <1>2, KnownKept
<1>6. OneReporter'
  BY <1>1, <1>2, ReportersKept
<1>7. StampedReported'
  BY <1>1, StampsKept
<1>8. NoStrayVM'
  BY <1>1, <1>2, StraysKept
<1> QED BY <1>3, <1>4, <1>5, <1>6, <1>7, <1>8

(* Host closes the done channel itself. *)
LEMMA HostCloseDoneKeeps ==
  ASSUME IInv, BInv, HInv, NEW c \in Callers, HostCloseDone(c)
  PROVE  HInv'
<1> USE DEF HInv, Known, Owes, Builds, Goto, Tends
<1>1. /\ pc' = pc /\ pc[c] = "idle" /\ hpc[c] = "close" /\ hpc'[c] = "notify"
      /\ hvm' = hvm /\ hvm[c] \in VMs /\ Known(hvm[c]) /\ hvm[c] \notin sessions
      /\ UNCHANGED <<sessions, handed, live, todo, watch, gone, row>>
  BY DEF HostCloseDone, TypeOK, InManager, AtPlace, KnownHanded
<1>2. OthersStay(c)
  BY DEF OthersStay, HostCloseDone, TypeOK
<1>3. TypeOK'
  BY <1>1, SMTT(60) DEF HostCloseDone, TypeOK, MgrTypeOK, HostLabels
<1>4. InManager'
  <2>1. AtPlace(c)'
    BY <1>1 DEF AtPlace
  <2> QED BY <1>1, <1>2, <2>1, PlacesKept
<1>5. KnownHanded'
  BY <1>1, <1>2, KnownKept
<1>6. OneReporter'
  BY <1>1, <1>2, ReportersKept
<1>7. StampedReported'
  BY <1>1, StampsKept
<1>8. NoStrayVM'
  BY <1>1, <1>2, StraysKept
<1> QED BY <1>3, <1>4, <1>5, <1>6, <1>7, <1>8

(* The report by the goroutine that called Host.Destroy: it owed it, so    *)
(* nobody else does.                                                       *)
LEMMA HostNotifyKeeps ==
  ASSUME IInv, BInv, HInv, NEW c \in Callers, HostNotify(c)
  PROVE  HInv'
<1> USE DEF HInv, Goto
<1>1. /\ pc' = pc /\ pc[c] = "idle" /\ hpc[c] = "notify" /\ hpc'[c] = "idle" /\ hvm'[c] = NoVM
      /\ hvm[c] \in VMs /\ Known(hvm[c])
      /\ UNCHANGED <<sessions, handed, live, todo, watch>>
  BY DEF HostNotify, mgrVars, TypeOK, InManager, AtPlace, KnownHanded
<1>2. OthersStay(c)
  BY DEF OthersStay, HostNotify, mgrVars, TypeOK
<1>3. /\ \A v \in VMs : gone'[v] = IF v = hvm[c] THEN gone[v] + 1 ELSE gone[v]
      /\ \A v \in VMs : row'[v] = "reaped" => row[v] = "reaped" \/ v = hvm[c]
  BY <1>1 DEF HostNotify, OnGone, MarkSessionReaped, TypeOK
<1>4. TypeOK'
  <2>1. row' \in [VMs -> {"none", "open", "reaped"}] /\ gone' \in [VMs -> Nat]
    <3>1. /\ gone' = [gone EXCEPT ![hvm[c]] = @ + 1]
          /\ row' = row \/ \E x \in {"none", "open", "reaped"} : row' = [row EXCEPT ![hvm[c]] = x]
      BY <1>1 DEF HostNotify, OnGone, MarkSessionReaped, TypeOK
    <3>2. gone' \in [VMs -> Nat]
      BY <1>1, <3>1, SMTT(60) DEF TypeOK
    <3>3. row' \in [VMs -> {"none", "open", "reaped"}]
      BY <1>1, <3>1 DEF TypeOK
    <3> QED BY <3>2, <3>3
  <2>2. MgrTypeOK'
    BY DEF HostNotify, mgrVars, TypeOK, MgrTypeOK
  <2> QED BY <2>1, <2>2 DEF HostNotify, TypeOK, HostLabels
<1>5. InManager'
  <2>1. AtPlace(c)'
    BY <1>1 DEF AtPlace
  <2> QED BY <1>1, <1>2, <2>1, PlacesKept
<1>6. KnownHanded'
  BY <1>1, <1>2, KnownKept DEF Builds
<1>7. /\ gone[hvm[c]] = 0 /\ hvm[c] \notin live /\ watch[hvm[c]] \in {"wait", "ended"}
      /\ \A d \in Callers : Owes(d, hvm[c]) => d = c
  <2>1. Owes(c, hvm[c]) /\ Answered(hvm[c])
    BY <1>1 DEF Owes, OneReporter
  <2>2. watch[hvm[c]] \in {"wait", "notify", "ended"}
    BY <1>1 DEF Known, TypeOK
  <2> QED BY <2>1, <2>2 DEF Answered
<1>8. OneReporter'
  <2> SUFFICES ASSUME NEW v \in VMs PROVE Answered(v)'
    BY DEF OneReporter
  <2>1. Answered(v)
    BY DEF OneReporter
  <2>2. \A d \in Callers : Owes(d, v)' => Owes(d, v) /\ d # c
    BY <1>1, <1>2 DEF OthersStay, Owes
  <2>3. CASE v = hvm[c]
    <3>1. gone'[v] = 1 /\ \A d \in Callers : ~Owes(d, v)'
      BY <1>3, <1>7, <2>2, <2>3, SMTT(60)
    <3> QED BY <1>1, <1>7, <2>3, <3>1 DEF Answered
  <2>4. CASE v # hvm[c]
    BY <1>1, <1>3, <2>1, <2>2, <2>4 DEF Answered
  <2> QED BY <2>3, <2>4
<1>9. StampedReported'
  <2> SUFFICES ASSUME NEW v \in VMs, row'[v] = "reaped" PROVE gone'[v] = 1
    BY DEF StampedReported
  <2>1. CASE v = hvm[c]
    BY <1>3, <1>7, <2>1, SMTT(60)
  <2>2. CASE v # hvm[c]
    BY <1>3, <2>2 DEF StampedReported
  <2> QED BY <2>1, <2>2
<1>10. NoStrayVM'
  BY <1>1, <1>2, StraysKept DEF Tends
<1> QED BY <1>4, <1>5, <1>6, <1>8, <1>9, <1>10

(* The watcher sees the closed channel: the VM is out of the Manager's map, *)
(* so taking it out of the live map loses nothing.                         *)
LEMMA WatchWakesKeeps ==
  ASSUME IInv, BInv, HInv, NEW v \in VMs, WatchWakes(v)
  PROVE  HInv'
<1> USE DEF HInv
<1>1. /\ watch[v] = "wait" /\ live' = live \ {v} /\ v \notin sessions
      /\ UNCHANGED <<sessions, handed, pc, arg, op, hpc, hvm, todo, gone, row>>
  BY DEF WatchWakes, mgrVars, BInv, DoneIsFinal
<1>2. \A w \in VMs :
        watch'[w] = IF w = v THEN (IF v \in live THEN "notify" ELSE "ended") ELSE watch[w]
  BY DEF WatchWakes, TypeOK
<1>3. TypeOK'
  BY DEF WatchWakes, mgrVars, TypeOK, MgrTypeOK
<1>4. InManager'
  BY <1>1 DEF InManager, AtPlace
<1>5. KnownHanded'
  <2>1. \A w \in VMs : Known(w)' <=> Known(w)
    BY <1>1, <1>2 DEF Known
  <2>2. \A g \in Goroutines : Builds(g) => arg[g] \in VMs
    BY DEF BInv, BuildersMint, TypeOK, MgrTypeOK
  <2>3. \A w \in VMs : Known(w)' => w \in handed'
    BY <1>1, <2>1 DEF KnownHanded
  <2>4. \A g \in Goroutines : Builds(g)' => ~Known(arg[g])'
    BY <1>1, <1>2, <2>2 DEF KnownHanded, Builds, Known
  <2>5. \A w \in live' \cup todo' : Known(w)'
    <3>1. live \subseteq VMs /\ todo \subseteq VMs /\ \A w \in live \cup todo : watch[w] # "none"
      BY DEF TypeOK, KnownHanded, Known
    <3> QED BY <1>1, <1>2, <3>1 DEF Known
  <2>6. \A d \in Callers :
          hpc'[d] \notin {"idle", "check", "launch"} => hvm'[d] \in VMs /\ Known(hvm[d])'
    BY <1>1, <1>2 DEF KnownHanded, Known
  <2> QED BY <2>3, <2>4, <2>5, <2>6 DEF KnownHanded
<1>6. OneReporter'
  <2> SUFFICES ASSUME NEW w \in VMs PROVE Answered(w)'
    BY DEF OneReporter
  <2>1. Answered(w)
    BY DEF OneReporter
  <2>2. \A d \in Callers : Owes(d, w)' => Owes(d, w)
    BY <1>1 DEF Owes
  <2>3. CASE w = v /\ v \in live
    BY <1>1, <1>2, <2>1, <2>2, <2>3 DEF Answered
  <2>4. CASE w = v /\ v \notin live
    BY <1>1, <1>2, <2>1, <2>2, <2>4 DEF Answered
  <2>5. CASE w # v
    BY <1>1, <1>2, <2>1, <2>2, <2>5 DEF Answered
  <2> QED BY <2>3, <2>4, <2>5
<1>7. StampedReported'
  BY <1>1, StampsKept
<1>8. NoStrayVM'
  BY <1>1, SMTT(60) DEF NoStrayVM
<1> QED BY <1>3, <1>4, <1>5, <1>6, <1>7, <1>8

(* The report by the watcher: it removed the session itself. *)
LEMMA WatchNotifyKeeps ==
  ASSUME IInv, BInv, HInv, NEW v \in VMs, WatchNotify(v)
  PROVE  HInv'
<1> USE DEF HInv
<1>1. /\ watch[v] = "notify"
      /\ UNCHANGED <<sessions, handed, pc, arg, op, hpc, hvm, todo, live>>
  BY DEF WatchNotify, mgrVars
<1>2. /\ \A w \in VMs : watch'[w] = IF w = v THEN "ended" ELSE watch[w]
      /\ \A w \in VMs : gone'[w] = IF w = v THEN gone[w] + 1 ELSE gone[w]
      /\ \A w \in VMs : row'[w] = "reaped" => row[w] = "reaped" \/ w = v
  BY DEF WatchNotify, OnGone, MarkSessionReaped, TypeOK
<1>3. TypeOK'
  <2>1. row' \in [VMs -> {"none", "open", "reaped"}] /\ gone' \in [VMs -> Nat]
    BY SMTT(60) DEF WatchNotify, OnGone, MarkSessionReaped, TypeOK
  <2>2. MgrTypeOK'
    BY DEF WatchNotify, mgrVars, TypeOK, MgrTypeOK
  <2>3. watch' \in [VMs -> {"none", "wait", "notify", "ended"}]
    BY DEF WatchNotify, TypeOK
  <2>4. UNCHANGED <<live, owned, todo, hpc, hvm, phase>>
    BY DEF WatchNotify
  <2> QED BY <2>1, <2>2, <2>3, <2>4 DEF TypeOK
<1>4. InManager'
  BY <1>1 DEF InManager, AtPlace
<1>5. KnownHanded'
  <2>1. \A w \in VMs : Known(w)' <=> Known(w)
    BY <1>1, <1>2 DEF Known
  <2>2. \A g \in Goroutines : Builds(g) => arg[g] \in VMs
    BY DEF BInv, BuildersMint, TypeOK, MgrTypeOK
  <2>3. \A w \in VMs : Known(w)' => w \in handed'
    BY <1>1, <2>1 DEF KnownHanded
  <2>4. \A g \in Goroutines : Builds(g)' => ~Known(arg[g])'
    BY <1>1, <1>2, <2>2, SMTT(60) DEF KnownHanded, Builds, Known
  <2>5. \A w \in live' \cup todo' : Known(w)'
    <3>1. live \subseteq VMs /\ todo \subseteq VMs /\ \A w \in live \cup todo : watch[w] # "none"
      BY DEF TypeOK, KnownHanded, Known
    <3> QED BY <1>1, <1>2, <3>1 DEF Known
  <2>6. \A d \in Callers :
          hpc'[d] \notin {"idle", "check", "launch"} => hvm'[d] \in VMs /\ Known(hvm[d])'
    BY <1>1, <1>2 DEF KnownHanded, Known
  <2> QED BY <2>3, <2>4, <2>5, <2>6 DEF KnownHanded
<1>6. gone[v] = 0 /\ v \notin live /\ \A d \in Callers : ~Owes(d, v)
  BY <1>1 DEF OneReporter, Answered
<1>7. OneReporter'
  <2> SUFFICES ASSUME NEW w \in VMs PROVE Answered(w)'
    BY DEF OneReporter
  <2>1. Answered(w)
    BY DEF OneReporter
  <2>2. \A d \in Callers : Owes(d, w)' => Owes(d, w)
    BY <1>1 DEF Owes
  <2>3. CASE w = v
    <3>1. gone'[v] = 1 /\ watch'[v] = "ended" /\ v \notin live' /\ \A d \in Callers : ~Owes(d, v)'
      BY <1>1, <1>2, <1>6, <2>2, <2>3, SMTT(60)
    <3> QED BY <2>3, <3>1 DEF Answered
  <2>4. CASE w # v
    BY <1>1, <1>2, <2>1, <2>2, <2>4 DEF Answered
  <2> QED BY <2>3, <2>4
<1>8. StampedReported'
  BY <1>2, <1>6, SMTT(60) DEF StampedReported
<1>9. NoStrayVM'
  BY <1>1 DEF NoStrayVM
<1> QED BY <1>3, <1>4, <1>5, <1>7, <1>8, <1>9

-----------------------------------------------------------------------------
(* A goroutine moves on inside the Manager and hands nothing out. *)
Moves(g, q) ==
  /\ q \in Labels /\ pc[g] \notin {"idle", "ok"} /\ pc' = [pc EXCEPT ![g] = q]
  /\ sessions' \subseteq sessions /\ UNCHANGED <<handed, arg, op, hostVars>>
  /\ q \in CreateLabels \cup {"wait", "ok"} => Builds(g)
  /\ pc[g] = "destroy" => arg[g] \notin sessions'
  /\ g \in Callers /\ op[g] = "destroy" =>
       q \in {"gone", "notfound"} \cup TeardownLabels /\ arg[g] \notin sessions'

(* Such a step keeps Host's half of the invariant. *)
LEMMA MoveKeepsHost ==
  ASSUME HInv, IInv', NEW g \in Goroutines, NEW q, Moves(g, q)
  PROVE  HInv'
<1> USE DEF Moves, HInv, hostVars
<1>1. pc'[g] = q
  BY DEF TypeOK, MgrTypeOK
<1>2. OthersStay(g)
  BY DEF OthersStay, TypeOK, MgrTypeOK
<1>3. TypeOK'
  BY DEF TypeOK, IInv
<1>4. InManager'
  <2>1. ASSUME g \in Callers PROVE AtPlace(g)'
    <3>1. AtPlace(g)
      BY <2>1 DEF InManager
    <3> QED BY <1>1, <2>1, <3>1 DEF AtPlace
  <2> QED BY <1>2, <2>1, PlacesKept
<1>5. KnownHanded'
  <2>1. Builds(g)' => ~Known(arg'[g])
    BY <1>1 DEF Builds, KnownHanded
  <2>2. g \in Callers /\ hpc'[g] \notin {"idle", "check", "launch"} => hvm'[g] \in VMs /\ Known(hvm'[g])
    BY DEF KnownHanded
  <2> QED BY <1>2, <2>1, <2>2, KnownKept
<1>6. OneReporter'
  BY <1>2, ReportersKept DEF Owes
<1>7. StampedReported'
  BY StampsKept
<1>8. NoStrayVM'
  BY <1>1, <1>2, StraysKept DEF Tends
<1> QED BY <1>3, <1>4, <1>5, <1>6, <1>7, <1>8

(* Alloc's VM is one that nobody, Host included, has seen. *)
LEMMA AllocKeepsHost ==
  ASSUME BInv, HInv, IInv', NEW g \in Goroutines, NEW v \in VMs \ minted,
         Step(g, "alloc", "tap"), arg' = [arg EXCEPT ![g] = v],
         UNCHANGED <<sessions, handed, op, hostVars>>
  PROVE  HInv'
<1> USE DEF HInv, hostVars
<1>1. pc[g] = "alloc" /\ pc'[g] = "tap" /\ arg'[g] = v
  BY DEF Step, TypeOK, MgrTypeOK
<1>2. OthersStay(g)
  BY DEF OthersStay, Step, TypeOK, MgrTypeOK
<1>3. g \in Callers /\ op[g] = "launch" /\ v \notin handed
  BY <1>1 DEF BInv, BuildersLaunch, HandedOnce
<1>4. TypeOK'
  BY DEF TypeOK, IInv
<1>5. InManager'
  <2>1. AtPlace(g)
    BY <1>3 DEF InManager
  <2>2. AtPlace(g)'
    BY <1>1, <1>3, <2>1 DEF AtPlace
  <2> QED BY <1>2, <2>2, PlacesKept
<1>6. KnownHanded'
  <2>1. ~Known(arg'[g])
    BY <1>1, <1>3 DEF KnownHanded
  <2>2. hpc'[g] \notin {"idle", "check", "launch"} => hvm'[g] \in VMs /\ Known(hvm'[g])
    BY <1>3 DEF KnownHanded
  <2> QED BY <1>2, <2>1, <2>2, KnownKept
<1>7. OneReporter'
  BY <1>2, ReportersKept DEF Owes
<1>8. StampedReported'
  BY StampsKept
<1>9. NoStrayVM'
  BY <1>1, <1>2, StraysKept DEF Tends
<1> QED BY <1>4, <1>5, <1>6, <1>7, <1>8, <1>9

(* The VM that enters the Manager's map has not been handed out. *)
LEMMA InsertKeepsHost ==
  ASSUME IInv, BInv, HInv, IInv', NEW g \in Goroutines, CreateInsert(g), UNCHANGED hostVars
  PROVE  HInv'
<1> USE DEF HInv, hostVars
<1>1. /\ g \in Callers /\ op[g] = "launch" /\ arg[g] \in VMs /\ arg[g] \notin Callers
      /\ arg[g] \notin handed /\ arg[arg[g]] = arg[g] /\ pc[g] = "insert"
  BY DEF CreateInsert, BInv, BuildersLaunch, BuildersMint, Builds, HandedOnce,
         IInv, ReapersOnlyDestroy, MgrTypeOK
<1>2. /\ sessions' = sessions \cup {arg[g]} /\ UNCHANGED <<handed, arg, op>>
      /\ \A h \in Goroutines :
           pc'[h] = IF h = arg[g] THEN "reap" ELSE IF h = g THEN "wait" ELSE pc[h]
  BY <1>1 DEF CreateInsert, TypeOK, MgrTypeOK
<1>3. TypeOK'
  BY DEF TypeOK, IInv
<1>4. InManager'
  <2> SUFFICES ASSUME NEW c \in Callers PROVE AtPlace(c)'
    BY DEF InManager
  <2>1. AtPlace(c)
    BY DEF InManager
  <2>2. hpc[c] \in {"teardown", "close", "notify"} => hvm[c] # arg[g]
    BY <1>1 DEF KnownHanded
  <2>3. pc'[c] = IF c = g THEN "wait" ELSE pc[c]
    BY <1>1, <1>2
  <2> QED BY <1>1, <1>2, <2>1, <2>2, <2>3 DEF AtPlace
<1>5. KnownHanded'
  <2>1. \A h \in Goroutines : Builds(h)' => Builds(h)
    BY <1>1, <1>2 DEF Builds
  <2> QED BY <1>2, <2>1 DEF KnownHanded, Known
<1>6. OneReporter'
  BY SMTT(60) DEF OneReporter, Answered, Owes
<1>7. StampedReported'
  BY StampsKept
<1>8. NoStrayVM'
  <2> SUFFICES ASSUME NEW v \in sessions' \cap handed', v \notin live
               PROVE  \E h \in Goroutines : Tends(h, v)'
    BY DEF NoStrayVM, Tends
  <2>1. v \in sessions \cap handed /\ v # arg[g]
    BY <1>1, <1>2
  <2>2. PICK h \in Goroutines : Tends(h, v)
    BY <2>1 DEF NoStrayVM, Tends
  <2> QED BY <1>1, <1>2, <2>1, <2>2 DEF Tends
<1> QED BY <1>3, <1>4, <1>5, <1>6, <1>7, <1>8

(* Launch hands a VM out: from here on its caller answers for it. *)
LEMMA ReadyKeepsHost ==
  ASSUME BInv, HInv, IInv', NEW g \in Goroutines, Step(g, "wait", "ok"),
         handed' = handed \cup {arg[g]}, UNCHANGED <<sessions, arg, op, hostVars>>
  PROVE  HInv'
<1> USE DEF HInv, hostVars
<1>1. pc[g] = "wait" /\ pc'[g] = "ok"
  BY DEF Step, TypeOK, MgrTypeOK
<1>2. OthersStay(g)
  BY DEF OthersStay, Step, TypeOK, MgrTypeOK
<1>3. g \in Callers /\ op[g] = "launch"
  BY <1>1 DEF BInv, BuildersLaunch, Builds
<1>4. TypeOK'
  BY DEF TypeOK, IInv
<1>5. InManager'
  <2>1. AtPlace(g)
    BY <1>3 DEF InManager
  <2>2. AtPlace(g)'
    BY <1>1, <1>3, <2>1 DEF AtPlace
  <2> QED BY <1>2, <2>2, PlacesKept
<1>6. KnownHanded'
  <2>1. ~Known(arg'[g])
    BY <1>1 DEF KnownHanded, Builds
  <2>2. hpc'[g] \notin {"idle", "check", "launch"} => hvm'[g] \in VMs /\ Known(hvm'[g])
    BY <1>3 DEF KnownHanded
  <2> QED BY <1>2, <2>1, <2>2, KnownKept
<1>7. OneReporter'
  BY <1>2, ReportersKept DEF Owes
<1>8. StampedReported'
  BY StampsKept
<1>9. NoStrayVM'
  BY <1>1, <1>2, StraysKept DEF Tends
<1> QED BY <1>4, <1>5, <1>6, <1>7, <1>8, <1>9

(* Whatever a goroutine does in the Manager on its own. *)
LEMMA MgrWorkKeeps ==
  ASSUME IInv, BInv, HInv, IInv', NEW g \in Goroutines, MgrWork(g)
  PROVE  HInv'
<1>0. Work(g) /\ UNCHANGED hostVars
  BY DEF MgrWork
<1>1. CASE CreateCheck(g)
  <2>1. PICK q \in {"capacity", "alloc"} : pc' = [pc EXCEPT ![g] = q]
    BY <1>1 DEF CreateCheck, Step
  <2>2. pc[g] = "check" /\ op[g] = "launch" /\ UNCHANGED <<sessions, handed, arg, op>>
    BY <1>1 DEF CreateCheck, Step, BInv, BuildersLaunch
  <2>3. Moves(g, q)
    BY <1>0, <2>1, <2>2 DEF Moves
  <2> QED BY <2>3, MoveKeepsHost
<1>2. CASE CreateTap(g) \/ CreateDir(g) \/ CreateRootfs(g) \/ CreateWrite(g) \/ CreateLaunch(g)
  <2>1. PICK q \in {"dir", "rootfs", "write", "launch", "insert", "fail"} :
          pc' = [pc EXCEPT ![g] = q] /\ pc[g] \in CreateLabels
    BY <1>2 DEF CreateTap, CreateDir, CreateRootfs, CreateWrite, CreateLaunch, Step
  <2>2. UNCHANGED <<sessions, handed, arg, op>>
    BY <1>2 DEF CreateTap, CreateDir, CreateRootfs, CreateWrite, CreateLaunch
  <2>3. op[g] = "launch" /\ Builds(g)
    BY <2>1 DEF BInv, BuildersLaunch, Builds
  <2>4. Moves(g, q)
    BY <1>0, <2>1, <2>2, <2>3 DEF Moves
  <2> QED BY <2>4, MoveKeepsHost
<1>3. CASE DestroyTake(g) \/ DestroyClose(g) \/ DestroyStop(g) \/ DestroyFree(g)
  <2>1. PICK q \in {"close", "stop", "free", "fail", "notfound", "gone"} :
          pc' = [pc EXCEPT ![g] = q] /\ pc[g] \in {"destroy"} \cup TeardownLabels
    BY <1>3 DEF DestroyTake, DestroyClose, DestroyStop, DestroyFree, Step, Finish
  <2>2. sessions' \subseteq sessions /\ UNCHANGED <<handed, arg, op>>
    BY <1>3 DEF DestroyTake, DestroyClose, DestroyStop, DestroyFree
  <2>3. arg[g] \notin sessions'
    BY <1>3 DEF DestroyTake, DestroyClose, DestroyStop, DestroyFree, Step,
                IInv, WorkersHold, WorkerHolds, Works
  <2>4. op[g] = "destroy" => pc'[g] # "fail"
    BY <1>3 DEF DestroyTake, DestroyClose, DestroyStop, DestroyFree, Step, Finish, IInv, MgrTypeOK
  <2>5. pc'[g] = q
    BY <2>1 DEF IInv, MgrTypeOK
  <2>6. Moves(g, q)
    BY <1>0, <2>1, <2>2, <2>3, <2>4, <2>5 DEF Moves
  <2> QED BY <2>6, MoveKeepsHost
<1>4. CASE CreateAlloc(g)
  <2>1. pc[g] = "alloc" /\ op[g] = "launch"
    BY <1>4 DEF CreateAlloc, Step, BInv, BuildersLaunch
  <2>2. CASE Step(g, "alloc", "fail") /\ UNCHANGED <<sessions, handed, arg, op>>
    <3>1. Moves(g, "fail")
      BY <1>0, <2>1, <2>2 DEF Moves, Step
    <3> QED BY <3>1, MoveKeepsHost
  <2> QED BY <1>0, <1>4, <2>2, AllocKeepsHost DEF CreateAlloc
<1>5. CASE WaitReady(g)
  <2>1. pc[g] = "wait" /\ op[g] = "launch"
    BY <1>5 DEF WaitReady, Step, BInv, BuildersLaunch, Builds
  <2>2. CASE Step(g, "wait", "destroy") /\ UNCHANGED <<sessions, handed, arg, op>>
    <3>1. Moves(g, "destroy")
      BY <1>0, <2>1, <2>2 DEF Moves, Step
    <3> QED BY <3>1, MoveKeepsHost
  <2> QED BY <1>0, <1>5, <2>2, ReadyKeepsHost DEF WaitReady
<1> QED BY <1>0, <1>1, <1>2, <1>3, <1>4, <1>5, InsertKeepsHost DEF Work

(* A step that leaves all of this alone. *)
LEMMA NothingMoves ==
  ASSUME HInv, UNCHANGED <<sessions, handed, pc, arg, op, live, watch, row, gone, hpc, hvm>>,
         todo' \subseteq todo \cup live
  PROVE  InManager' /\ KnownHanded' /\ OneReporter' /\ StampedReported' /\ NoStrayVM'
<1> USE DEF HInv
<1>1. InManager'
  BY DEF InManager, AtPlace
<1>2. KnownHanded'
  BY DEF KnownHanded, Known, Builds
<1>3. OneReporter'
  <2>1. \A c \in Callers, v \in VMs : Owes(c, v)' => Owes(c, v)
    BY DEF Owes
  <2> QED BY <2>1 DEF OneReporter, Answered
<1>4. StampedReported'
  BY DEF StampedReported
<1>5. NoStrayVM'
  BY DEF NoStrayVM
<1> QED BY <1>1, <1>2, <1>3, <1>4, <1>5

(* The reaper wakes up, a VM exits or says hello. *)
LEMMA VMStepsKeep ==
  ASSUME IInv, BInv, HInv, IInv', NEW v \in VMs, Reap(v) \/ VMStep(v)
  PROVE  HInv'
<1>1. CASE Reap(v)
  <2>1. /\ pc[v] = "reap" /\ pc' = [pc EXCEPT ![v] = "destroy"] /\ v \notin Callers
        /\ UNCHANGED <<sessions, handed, arg, op, hostVars>>
    BY <1>1 DEF Reap, ReaperWakes, Step
  <2>2. Moves(v, "destroy")
    BY <2>1 DEF Moves
  <2> QED BY <2>2, MoveKeepsHost
<1>2. CASE VMStep(v)
  <2>1. UNCHANGED <<sessions, handed, pc, arg, op, hostVars>>
    BY <1>2 DEF VMStep, VMExit, GuestHello
  <2>2. TypeOK'
    BY <2>1 DEF HInv, TypeOK, IInv, hostVars
  <2>3. UNCHANGED <<sessions, handed, pc, arg, op, live, watch, row, gone, hpc, hvm, todo>>
    BY <2>1 DEF hostVars
  <2> QED BY <2>2, <2>3, NothingMoves DEF HInv
<1> QED BY <1>1, <1>2

(* The signal, the listing and the exit. *)
LEMMA MainKeeps ==
  ASSUME HInv, Signal \/ ListSessions \/ \E m \in Mains : Exit(m)
  PROVE  HInv'
<1>1. TypeOK'
  BY SMTT(60) DEF HInv, TypeOK, MgrTypeOK, mgrVars, Signal, ListSessions, Exit
<1>2. /\ UNCHANGED <<sessions, handed, pc, arg, op, live, watch, row, gone, hpc, hvm>>
      /\ todo' \subseteq todo \cup live
  BY DEF mgrVars, Signal, ListSessions, Exit
<1> QED BY <1>1, <1>2, NothingMoves DEF HInv

-----------------------------------------------------------------------------
(* Nothing is built, handed out or known at the start. *)
LEMMA HostInit == Init => IInv /\ BInv /\ HInv
<1> SUFFICES ASSUME Init PROVE IInv /\ BInv /\ HInv
  OBVIOUS
<1> USE DEF Init
<1>1. IInv
  BY InitIInv
<1>2. BInv
  BY DEF MgrInit, BInv, BuildersLaunch, BuildersMint, OneBuilder, HandedOnce, DoneIsFinal, Builds
<1>3. TypeOK
  BY <1>1 DEF IInv, TypeOK, HostLabels
<1>4. InManager /\ StampedReported /\ NoStrayVM
  BY DEF MgrInit, InManager, AtPlace, StampedReported, NoStrayVM
<1>5. KnownHanded
  BY DEF MgrInit, KnownHanded, Known, Builds
<1>6. OneReporter
  BY SMTT(60) DEF OneReporter, Answered, Owes
<1> QED BY <1>1, <1>2, <1>3, <1>4, <1>5, <1>6 DEF HInv

(* Every step of the daemon keeps the whole invariant. *)
LEMMA HostInductive == IInv /\ BInv /\ HInv /\ [Next]_vars => IInv' /\ BInv' /\ HInv'
<1> SUFFICES ASSUME IInv, BInv, HInv, [Next]_vars PROVE IInv' /\ BInv' /\ HInv'
  OBVIOUS
<1>1. IInv' /\ BInv'
  BY HostStepsAreManagerSteps, IInvInductive, BInvInductive
<1>2. CASE UNCHANGED vars
  <2>1. UNCHANGED <<sessions, handed, pc, arg, op, live, watch, row, gone, hpc, hvm, todo>>
    BY <1>2 DEF vars, mgrVars, hostVars
  <2>2. TypeOK'
    BY <1>2 DEF vars, mgrVars, hostVars, HInv, TypeOK, MgrTypeOK
  <2> QED BY <1>1, <2>1, <2>2, NothingMoves DEF HInv
<1>3. ASSUME NEW c \in Callers, HostWork(c) PROVE HInv'
  <2>1. CASE HostCheck(c)
    <3>1. CASE UNCHANGED mgrVars
      <4>1. BetweenCalls(c)
        BY <2>1, <3>1 DEF BetweenCalls
      <4> QED BY <4>1, HopsKeep
    <3> QED BY <2>1, <3>1, LaunchCallKeeps DEF HostCheck
  <2>2. CASE HostDestroy(c)
    <3>1. CASE hvm[c] \notin live
      <4>1. BetweenCalls(c)
        BY <2>2, <3>1 DEF BetweenCalls
      <4> QED BY <4>1, HopsKeep
    <3> QED BY <2>2, <3>1, HostDestroyKeeps
  <2>3. CASE SetOwner(c) \/ InsertRow(c) \/ PTYAttach(c)
    <3>1. BetweenCalls(c)
      BY <2>3 DEF BetweenCalls
    <3> QED BY <3>1, HopsKeep
  <2> QED BY <1>3, <2>1, <2>2, <2>3, LaunchFailedKeeps, HostInsertKeeps, TeardownReturnedKeeps,
             HostCloseDoneKeeps, HostNotifyKeeps DEF HostWork
<1>4. CASE \E g \in Goroutines : MgrWork(g)
  BY <1>1, <1>4, MgrWorkKeeps
<1>5. CASE \E v \in VMs : WatchWork(v) \/ Reap(v) \/ VMStep(v)
  BY <1>1, <1>5, WatchWakesKeeps, WatchNotifyKeeps, VMStepsKeep DEF WatchWork
<1>6. CASE Requests
  <2>1. PICK c \in Callers : BetweenCalls(c)
    BY <1>6 DEF Requests, BetweenCalls
  <2> QED BY <1>1, <2>1, HopsKeep
<1>7. CASE MainNext
  <2>1. CASE \E m \in Mains : ShutdownOne(m)
    <3>1. PICK m \in Callers : BetweenCalls(m)
      BY <2>1 DEF BetweenCalls
    <3> QED BY <1>1, <3>1, HopsKeep
  <2> QED BY <1>1, <1>7, <2>1, MainKeeps DEF MainNext
<1> QED BY <1>1, <1>2, <1>3, <1>4, <1>5, <1>6, <1>7 DEF Next

(* The invariant holds of every behaviour of the daemon. *)
LEMMA HostInvariant == Safety => [](IInv /\ BInv /\ HInv)
BY HostInit, HostInductive, PTL DEF Safety

(* The composition keeps its types: in particular a caller's place in      *)
(* Host, in its handler and in the Manager stay among those of the code.   *)
THEOREM HostTypeCorrect == Safety => []TypeOK
<1>1. HInv => TypeOK
  BY DEF HInv
<1> QED BY <1>1, HostInvariant, PTL

(* Handlers, idle reaper, watchers and main, whatever their order, drive   *)
(* Manager.Create and Destroy only as the Manager's specification says, so *)
(* what is proved of the Manager by itself holds in the daemon.            *)
THEOREM HostImplementsManager == Safety => MgrSafety
<1>1. Init => MgrInit
  BY DEF Init
<1> QED BY <1>1, HostInvariant, HostStepsAreManagerSteps, PTL DEF Safety, MgrSafety

(* In the daemon, with all its racing callers, a VM is torn down once, its *)
(* resources are neither forgotten (but for what a failed command of the   *)
(* host left there) nor released under it, and the cap is exceeded by no   *)
(* more than the creations under way.                                      *)
THEOREM DaemonKeepsManagerSafe ==
  Safety => [](OneTeardown /\ NothingOrphaned /\ RunningHoldsAll /\ ImageNotShared /\ OvershootBounded)
BY HostImplementsManager, TornDownOnce, NothingIsOrphaned, RunningVMsHoldAll, ImageIsNotShared,
   CapOvershootIsBounded, PTL

(* A VM that the Manager runs and that Launch has returned is in Host's    *)
(* live map or in the hands of a goroutine about to insert or destroy it.  *)
THEOREM NoVMIsForgotten == Safety => []NoStrayVM
<1>1. HInv => NoStrayVM
  BY DEF HInv
<1> QED BY <1>1, HostInvariant, PTL

(* reaped_at is stamped only on sessions that left the live map for good. *)
THEOREM StampIsFinal == Safety => []StampedMeansGone
<1>1. HInv => StampedMeansGone
  BY DEF HInv, StampedReported, OneReporter, Answered, StampedMeansGone
<1> QED BY <1>1, HostInvariant, PTL

-----------------------------------------------------------------------------
(* The status the ledger keeps for a session, as Host's state determines it. *)
StatusOf(v) ==
  IF gone[v] > 0
    THEN IF gone[v] = 1 /\ v \notin live THEN "reported" ELSE "miscounted"
    ELSE IF v \in live THEN "live"
    ELSE IF watch[v] = "none" THEN "absent" ELSE "left"

(* Under the invariant no session is ever miscounted. *)
StatusIs(v) ==
  /\ v \in live => StatusOf(v) = "live"
  /\ gone[v] = 1 => StatusOf(v) = "reported"
  /\ ~Known(v) => StatusOf(v) = "absent"
  /\ v \notin live /\ gone[v] = 0 /\ Known(v) => StatusOf(v) = "left"

(* The invariant determines the status. *)
LEMMA StatusByCase == HInv => \A v \in VMs : StatusIs(v)
<1> SUFFICES ASSUME HInv, NEW v \in VMs PROVE StatusIs(v)
  OBVIOUS
<1>1. Answered(v)
  BY DEF HInv, OneReporter
<1>2. v \in live => Known(v)
  BY DEF HInv, KnownHanded
<1> QED BY <1>1, <1>2, SMTT(60) DEF Answered, Known, StatusOf, StatusIs

(* A step that changes the status of v only. *)
LEMMA LedgerStep ==
  ASSUME NEW v \in VMs, \A w \in VMs \ {v} : StatusOf(w)' = StatusOf(w),
         \/ StatusOf(v) = "absent" /\ StatusOf(v)' = "live"
         \/ StatusOf(v) = "live" /\ StatusOf(v)' = "left"
         \/ StatusOf(v) = "left" /\ StatusOf(v)' = "reported"
  PROVE  Ledger!Next
<1> DEFINE St == [w \in VMs |-> StatusOf(w)]
<1>1. St' = [St EXCEPT ![v] = StatusOf(v)'] /\ St[v] = StatusOf(v)
  OBVIOUS
<1> QED
  BY <1>1
  DEF Ledger!Next, Ledger!Enter, Ledger!Leave, Ledger!Report, Ledger!Change, StatusOf

(* What the steps of Host that enter, remove or report a session do to the *)
(* ledger, and that no other step touches it.                              *)
LEMMA HostStepsAreLedgerSteps ==
  ASSUME IInv, BInv, HInv, HInv', [Next]_vars
  PROVE  Ledger!Next \/ \A v \in VMs : StatusOf(v)' = StatusOf(v)
<1>1. \A v \in VMs : StatusIs(v) /\ Answered(v)
  BY StatusByCase DEF HInv, OneReporter
<1>2. \A v \in VMs : StatusIs(v)'
  <2>1. (\A v \in VMs : StatusIs(v))'
    BY StatusByCase, PTL
  <2> QED BY <2>1
<1>3. ASSUME NEW v \in VMs,
             \A w \in VMs \ {v} :
               /\ w \in live' <=> w \in live
               /\ watch'[w] = watch[w] /\ gone'[w] = gone[w]
      PROVE  \A w \in VMs \ {v} : StatusOf(w)' = StatusOf(w)
  BY <1>3 DEF StatusOf
<1>4. ASSUME NEW c \in Callers, HostInsert(c) PROVE Ledger!Next
  <2>1. pc[c] = "ok" /\ live' = live \cup {arg[c]} /\ gone' = gone
    BY <1>4 DEF HostInsert
  <2>2. PICK v \in VMs : v = arg[c] /\ ~Known(v)
    BY <2>1 DEF BInv, BuildersMint, Builds, HInv, KnownHanded, TypeOK, MgrTypeOK
  <2>3. \A w \in VMs \ {v} : watch'[w] = watch[w]
    BY <1>4, <2>2 DEF HostInsert, HInv, TypeOK
  <2>4. StatusOf(v) = "absent" /\ StatusOf(v)' = "live"
    BY <1>1, <1>2, <2>1, <2>2 DEF StatusIs
  <2>5. \A w \in VMs \ {v} : StatusOf(w)' = StatusOf(w)
    BY <1>3, <2>1, <2>2, <2>3
  <2> QED BY <2>4, <2>5, LedgerStep
<1>5. ASSUME NEW c \in Callers, HostDestroy(c), hvm[c] \in live PROVE Ledger!Next
  <2>1. live' = live \ {hvm[c]} /\ gone' = gone /\ watch' = watch
    BY <1>5 DEF HostDestroy
  <2>2. PICK v \in VMs : v = hvm[c] /\ Known(v)
    BY <1>5 DEF HInv, KnownHanded, TypeOK
  <2>3. gone'[v] = 0 /\ v \notin live' /\ Known(v)'
    BY <1>1, <1>5, <2>1, <2>2 DEF Answered, Known
  <2>4. StatusOf(v) = "live" /\ StatusOf(v)' = "left"
    BY <1>1, <1>2, <1>5, <2>2, <2>3 DEF StatusIs
  <2>5. \A w \in VMs \ {v} : StatusOf(w)' = StatusOf(w)
    BY <1>3, <2>1, <2>2
  <2> QED BY <2>4, <2>5, LedgerStep
<1>6. ASSUME NEW c \in Callers, HostNotify(c) PROVE Ledger!Next
  <2>1. hpc[c] = "notify" /\ live' = live /\ watch' = watch
    BY <1>6 DEF HostNotify, Goto
  <2>2. PICK v \in VMs : v = hvm[c] /\ Known(v)
    BY <2>1 DEF HInv, KnownHanded
  <2>3. \A w \in VMs : gone'[w] = IF w = v THEN gone[w] + 1 ELSE gone[w]
    BY <1>6, <2>2 DEF HostNotify, OnGone, HInv, TypeOK
  <2>4. gone[v] = 0 /\ v \notin live
    BY <1>1, <2>1, <2>2 DEF Answered, Owes
  <2>5. StatusOf(v) = "left" /\ StatusOf(v)' = "reported"
    BY <1>1, <1>2, <2>2, <2>3, <2>4, SMTT(60) DEF StatusIs
  <2>6. \A w \in VMs \ {v} : StatusOf(w)' = StatusOf(w)
    BY <1>3, <2>1, <2>3
  <2> QED BY <2>5, <2>6, LedgerStep
<1>7. ASSUME NEW v \in VMs, WatchWakes(v)
      PROVE  Ledger!Next \/ \A w \in VMs : StatusOf(w)' = StatusOf(w)
  <2>1. watch[v] = "wait" /\ live' = live \ {v} /\ gone' = gone
    BY <1>7 DEF WatchWakes
  <2>2. \A w \in VMs :
          watch'[w] = IF w = v THEN (IF v \in live THEN "notify" ELSE "ended") ELSE watch[w]
    BY <1>7 DEF WatchWakes, HInv, TypeOK
  <2>3. \A w \in VMs \ {v} : StatusOf(w)' = StatusOf(w)
    BY <1>3, <2>1, <2>2
  <2>4. CASE v \in live
    <3>1. gone'[v] = 0 /\ v \notin live' /\ Known(v)'
      BY <1>1, <2>1, <2>2, <2>4 DEF Answered, Known
    <3>2. StatusOf(v) = "live" /\ StatusOf(v)' = "left"
      BY <1>1, <1>2, <2>4, <3>1 DEF StatusIs
    <3> QED BY <2>3, <3>2, LedgerStep
  <2>5. CASE v \notin live
    <3>1. StatusOf(v)' = StatusOf(v)
      BY <2>1, <2>2, <2>5 DEF StatusOf
    <3> QED BY <2>3, <3>1
  <2> QED BY <2>4, <2>5
<1>8. ASSUME NEW v \in VMs, WatchNotify(v) PROVE Ledger!Next
  <2>1. watch[v] = "notify" /\ live' = live
    BY <1>8 DEF WatchNotify
  <2>2. /\ \A w \in VMs : watch'[w] = IF w = v THEN "ended" ELSE watch[w]
        /\ \A w \in VMs : gone'[w] = IF w = v THEN gone[w] + 1 ELSE gone[w]
    BY <1>8 DEF WatchNotify, OnGone, HInv, TypeOK
  <2>3. gone[v] = 0 /\ v \notin live /\ Known(v)
    BY <1>1, <2>1 DEF Answered, Known
  <2>4. StatusOf(v) = "left" /\ StatusOf(v)' = "reported"
    BY <1>1, <1>2, <2>2, <2>3, SMTT(60) DEF StatusIs
  <2>5. \A w \in VMs \ {v} : StatusOf(w)' = StatusOf(w)
    BY <1>3, <2>1, <2>2
  <2> QED BY <2>4, <2>5, LedgerStep
<1>9. ASSUME UNCHANGED <<live, watch, gone>> PROVE \A v \in VMs : StatusOf(v)' = StatusOf(v)
  BY <1>9 DEF StatusOf
<1>10. \/ UNCHANGED <<live, watch, gone>>
       \/ \E c \in Callers : HostInsert(c) \/ HostNotify(c) \/ (HostDestroy(c) /\ hvm[c] \in live)
       \/ \E v \in VMs : WatchWakes(v) \/ WatchNotify(v)
  <2>1. CASE UNCHANGED vars
    BY <2>1 DEF vars, hostVars
  <2>2. ASSUME NEW c \in Callers, HostWork(c)
        PROVE  UNCHANGED <<live, watch, gone>> \/ HostInsert(c) \/ HostNotify(c)
                 \/ (HostDestroy(c) /\ hvm[c] \in live)
    BY <2>2 DEF HostWork, HostCheck, LaunchFailed, SetOwner, InsertRow, HostDestroy,
                TeardownReturned, HostCloseDone, PTYAttach
  <2>3. CASE \E g \in Goroutines : MgrWork(g)
    BY <2>3 DEF MgrWork, hostVars
  <2>4. ASSUME NEW v \in VMs, WatchWork(v) \/ Reap(v) \/ VMStep(v)
        PROVE  UNCHANGED <<live, watch, gone>> \/ WatchWakes(v) \/ WatchNotify(v)
    BY <2>4 DEF WatchWork, Reap, VMStep, hostVars
  <2>5. CASE Requests
    BY <2>5 DEF Requests, PostSessions, PTYWrite, PTYWritten, PTYDetach, DeleteSession, PTYGet, IdlePick
  <2>6. CASE MainNext
    BY <2>6 DEF MainNext, Signal, ListSessions, ShutdownOne, Exit
  <2> QED BY <2>1, <2>2, <2>3, <2>4, <2>5, <2>6 DEF Next
<1> QED BY <1>4, <1>5, <1>6, <1>7, <1>8, <1>9, <1>10

(* onGone is called at most once for a session and only after it left the  *)
(* live map, whoever removes it: Host implements the ledger.               *)
THEOREM HostImplementsLedger == Safety => ReportedAtMostOnce
<1> DEFINE St == [v \in VMs |->
      IF gone[v] > 0
        THEN IF gone[v] = 1 /\ v \notin live THEN "reported" ELSE "miscounted"
        ELSE IF v \in live THEN "live"
        ELSE IF watch[v] = "none" THEN "absent" ELSE "left"]
<1>1. Init => Ledger!Init
  BY SMTT(60) DEF Init, Ledger!Init
<1>2. IInv /\ BInv /\ HInv /\ HInv' /\ [Next]_vars => [Ledger!Next]_St
  <2> SUFFICES ASSUME IInv, BInv, HInv, HInv', [Next]_vars, \A v \in VMs : StatusOf(v)' = StatusOf(v)
               PROVE  St' = St
    BY HostStepsAreLedgerSteps
  <2> QED BY DEF StatusOf
<1> QED BY <1>1, <1>2, HostInvariant, PTL DEF Safety, ReportedAtMostOnce, Ledger!Safety

=============================================================================
