----------------------------- MODULE VMManager -----------------------------
(***************************************************************************)
(* session.Manager, the owner of Firecracker processes and of the host     *)
(* resources they use, together with managerLauncher, through which every  *)
(* VM is created (control-plane/internal/session/manager.go and            *)
(* control-plane/cmd/microvm-terminal/main.go).                            *)
(*                                                                         *)
(* A VM stands for its session id and for its lease: DaemonProofs shows    *)
(* that no two VMs share one, and that an address is never handed out      *)
(* again, so the allocator is the set of VMs not minted yet and Alloc      *)
(* fails once it is empty.                                                 *)
(*                                                                         *)
(* Goroutines are the callers of Launch and Destroy (HTTP handlers, pool   *)
(* builders, the idle reaper, main) and, for each VM, the reaper goroutine *)
(* that Create starts for it; the reaper of v is named v.  A goroutine's   *)
(* step ends where it takes or drops Manager.mu, blocks, or changes        *)
(* something another goroutine can see.                                    *)
(***************************************************************************)
EXTENDS Integers, FiniteSets

CONSTANTS
  VMs,            \* session ids (uuid) with the lease each will get
  Callers,        \* goroutines that call Launch and Destroy
  MaxConcurrent,  \* cfg.MaxConcurrent
  MaxLeft,        \* bound: TAPs and directories left behind before a failure
  NoVM

ASSUME ManagerAssumption ==
  /\ VMs \cap Callers = {}
  /\ NoVM \notin VMs
  /\ IsFiniteSet(Callers)
  /\ MaxConcurrent \in Nat \ {0} /\ MaxLeft \in Nat

VARIABLES
  sessions,   \* m.sessions
  minted,     \* VMs whose lease Alloc has handed out
  ip,         \* VMs whose address is in use in the allocator
  tap,        \* VMs whose TAP device exists
  dir,        \* VMs whose directory exists
  leftTap,    \* history: TAPs that an `ip` command which failed left behind
  leftDir,    \* history: directories that os.RemoveAll failed to remove
  mounted,    \* VMs whose image is mounted on the host
  proc,       \* the Firecracker process of a VM
  ready,      \* VMs whose guest agent completed the handshake
  handed,     \* VMs that Launch has returned to a caller
  done,       \* VMs whose done channel is closed
  pc,         \* where a goroutine is
  arg,        \* the VM it works on
  op          \* the call it serves: "launch", "destroy" or none

tapVars == <<tap, leftTap>>
dirVars == <<dir, leftDir>>
resources == <<ip, tapVars, dirVars, mounted>>
mgrVars == <<sessions, minted, resources, proc, ready, handed, done, pc, arg, op>>

Goroutines == Callers \cup VMs

CreateLabels   == {"tap", "dir", "rootfs", "write", "launch", "insert"}
TeardownLabels == {"close", "stop", "free"}
Results        == {"ok", "fail", "capacity", "gone", "notfound"}
Labels == {"idle", "check", "alloc", "wait", "reap", "destroy"}
            \cup CreateLabels \cup TeardownLabels \cup Results

Step(g, from, to) ==
  /\ pc[g] = from
  /\ pc' = [pc EXCEPT ![g] = to]

MayFail == Cardinality(leftTap) + Cardinality(leftDir) < MaxLeft

(* The operations on the host that Create and Destroy are built from.  The *)
(* code ignores the errors of `ip link del` and os.RemoveAll: what they    *)
(* did not remove stays.                                                   *)
CreateTAP(v) == tap' = tap \cup {v} /\ UNCHANGED leftTap

DeleteTAP(v) ==
  \/ tap' = tap \ {v} /\ UNCHANGED leftTap
  \/ MayFail /\ leftTap' = leftTap \cup {v} /\ UNCHANGED tap

Release(v) == ip' = ip \ {v}

MkdirAll(v) == dir' = dir \cup {v} /\ UNCHANGED leftDir

RemoveAll(v) ==
  \/ dir' = dir \ {v} /\ UNCHANGED leftDir
  \/ MayFail /\ leftDir' = leftDir \cup {v} /\ UNCHANGED dir

(* CreateTAP returns an error: `ip tuntap add` failed, or it succeeded and *)
(* the TAP cannot be attached to the bridge or set up.                     *)
CreateTAPFails(v) ==
  \/ UNCHANGED tapVars
  \/ MayFail /\ tap' = tap \cup {v} /\ leftTap' = leftTap \cup {v}

(* launchVM: firecracker.Launch, or vm.LaunchJailed by way of jailer.sh;   *)
(* the process is started and not waited for.                              *)
Launch(v) == proc' = [proc EXCEPT ![v] = "running"]

(* Process.Stop: SIGTERM, SIGKILL after 5 s, and in both cases wait until  *)
(* the process is gone.                                                    *)
Stop(v) == proc' = [proc EXCEPT ![v] = "exited"]

(* Process.Wait can return. *)
Waited(v) == proc[v] = "exited"

(* cleanup(vmDir, tap, allocator, ip) *)
cleanup(v) == RemoveAll(v) /\ DeleteTAP(v) /\ Release(v)

-----------------------------------------------------------------------------
MgrInit ==
  /\ sessions = {}
  /\ minted = {} /\ ip = {} /\ tap = {} /\ dir = {} /\ mounted = {}
  /\ leftTap = {} /\ leftDir = {}
  /\ proc = [v \in VMs |-> "none"]
  /\ ready = {} /\ handed = {} /\ done = {}
  /\ pc  = [g \in Goroutines |-> "idle"]
  /\ arg = [g \in Goroutines |-> IF g \in VMs THEN g ELSE NoVM]
  /\ op  = [g \in Goroutines |-> IF g \in VMs THEN "destroy" ELSE "none"]

(* A caller enters managerLauncher.Launch. *)
CallLaunch(g) ==
  /\ g \in Callers
  /\ Step(g, "idle", "check")
  /\ op' = [op EXCEPT ![g] = "launch"]
  /\ UNCHANGED <<sessions, minted, resources, proc, ready, handed, done, arg>>

(* A caller enters Manager.Destroy(v), for a session it got from Launch. *)
CallDestroy(g, v) ==
  /\ g \in Callers
  /\ v \in handed
  /\ Step(g, "idle", "destroy")
  /\ op' = [op EXCEPT ![g] = "destroy"]
  /\ arg' = [arg EXCEPT ![g] = v]
  /\ UNCHANGED <<sessions, minted, resources, proc, ready, handed, done>>

(* The call has returned and its caller has taken the result. *)
Return(g) ==
  /\ g \in Callers
  /\ pc[g] \in Results
  /\ pc' = [pc EXCEPT ![g] = "idle"]
  /\ op' = [op EXCEPT ![g] = "none"]
  /\ arg' = [arg EXCEPT ![g] = NoVM]
  /\ UNCHANGED <<sessions, minted, resources, proc, ready, handed, done>>

-----------------------------------------------------------------------------
(* The capacity check with > for >=. *)
CreateCheckOffByOne(g) ==
  /\ Step(g, "check",
          IF Cardinality(sessions) > MaxConcurrent THEN "capacity" ELSE "alloc")
  /\ UNCHANGED <<sessions, minted, resources, proc, ready, handed, done, arg, op>>

(* Manager.Create: the capacity check, under a lock dropped right after.   *)
CreateCheck(g) ==
  /\ Step(g, "check",
          IF Cardinality(sessions) >= MaxConcurrent THEN "capacity" ELSE "alloc")
  /\ UNCHANGED <<sessions, minted, resources, proc, ready, handed, done, arg, op>>

(* allocator.Alloc. *)
CreateAlloc(g) ==
  \/ \E v \in VMs \ minted :
       /\ Step(g, "alloc", "tap")
       /\ minted' = minted \cup {v}
       /\ ip' = ip \cup {v}
       /\ arg' = [arg EXCEPT ![g] = v]
       /\ UNCHANGED <<sessions, tapVars, dirVars, mounted, proc, ready, handed, done, op>>
  \/ /\ minted = VMs
     /\ Step(g, "alloc", "fail")
     /\ UNCHANGED <<sessions, minted, resources, proc, ready, handed, done, arg, op>>

(* firecracker.CreateTAP; a failure gives the address back, and leaves a   *)
(* TAP that was made alone.                                                *)
CreateTap(g) ==
  \/ /\ Step(g, "tap", "dir")
     /\ CreateTAP(arg[g])
     /\ UNCHANGED <<sessions, minted, ip, dirVars, mounted, proc, ready, handed, done, arg, op>>
  \/ /\ Step(g, "tap", "fail")
     /\ CreateTAPFails(arg[g])
     /\ Release(arg[g])
     /\ UNCHANGED <<sessions, minted, dirVars, mounted, proc, ready, handed, done, arg, op>>

(* rand.Read and os.MkdirAll whose failure path forgets DeleteTAP.         *)
CreateDirKeepsTap(g) ==
  \/ /\ Step(g, "dir", "rootfs")
     /\ MkdirAll(arg[g])
     /\ UNCHANGED <<sessions, minted, ip, tapVars, mounted, proc, ready, handed, done, arg, op>>
  \/ /\ Step(g, "dir", "fail")
     /\ Release(arg[g])
     /\ UNCHANGED <<sessions, minted, tapVars, dirVars, mounted, proc, ready, handed, done, arg, op>>

(* rand.Read and os.MkdirAll; a failure deletes the TAP and gives the      *)
(* address back.                                                           *)
CreateDir(g) ==
  \/ /\ Step(g, "dir", "rootfs")
     /\ MkdirAll(arg[g])
     /\ UNCHANGED <<sessions, minted, ip, tapVars, mounted, proc, ready, handed, done, arg, op>>
  \/ /\ Step(g, "dir", "fail")
     /\ DeleteTAP(arg[g])
     /\ Release(arg[g])
     /\ UNCHANGED <<sessions, minted, dirVars, mounted, proc, ready, handed, done, arg, op>>

(* readTokenFile, and PrepareRootfs up to the mount: reflinkCopy,          *)
(* MkdirTemp, mount.  Nothing is mounted when one of them fails.           *)
CreateRootfs(g) ==
  \/ /\ Step(g, "rootfs", "write")
     /\ mounted' = mounted \cup {arg[g]}
     /\ UNCHANGED <<sessions, minted, ip, tapVars, dirVars, proc, ready, handed, done, arg, op>>
  \/ /\ Step(g, "rootfs", "fail")
     /\ cleanup(arg[g])
     /\ UNCHANGED <<sessions, minted, mounted, proc, ready, handed, done, arg, op>>

(* A PrepareRootfs that does not look at the result of umount. *)
CreateWriteUnchecked(g) ==
  /\ Step(g, "write", "launch")
  /\ mounted' \in {mounted, mounted \ {arg[g]}}
  /\ UNCHANGED <<sessions, minted, ip, tapVars, dirVars, proc, ready, handed, done, arg, op>>

(* The rest of PrepareRootfs: the guest's files are written, synced, and   *)
(* the image is unmounted.  After an error, of umount too, the deferred    *)
(* umount has a go at it, whose error is ignored.                          *)
CreateWrite(g) ==
  \/ /\ Step(g, "write", "launch")
     /\ mounted' = mounted \ {arg[g]}
     /\ UNCHANGED <<sessions, minted, ip, tapVars, dirVars, proc, ready, handed, done, arg, op>>
  \/ /\ Step(g, "write", "fail")
     /\ mounted' \in {mounted, mounted \ {arg[g]}}
     /\ cleanup(arg[g])
     /\ UNCHANGED <<sessions, minted, proc, ready, handed, done, arg, op>>

(* launchVM. *)
CreateLaunch(g) ==
  \/ /\ Step(g, "launch", "insert")
     /\ Launch(arg[g])
     /\ UNCHANGED <<sessions, minted, resources, ready, handed, done, arg, op>>
  \/ /\ Step(g, "launch", "fail")
     /\ cleanup(arg[g])
     /\ UNCHANGED <<sessions, minted, mounted, proc, ready, handed, done, arg, op>>

(* The session enters the map; the vsock listener and the reaper goroutine *)
(* start; managerLauncher goes on to wait for the handshake.               *)
CreateInsert(g) ==
  /\ pc[g] = "insert"
  /\ pc' = [pc EXCEPT ![g] = "wait", ![arg[g]] = "reap"]
  /\ sessions' = sessions \cup {arg[g]}
  /\ UNCHANGED <<minted, resources, proc, ready, handed, done, arg, op>>

(* managerLauncher.Launch after Create: WaitReady sees the handshake, or   *)
(* the boot timeout or the closed done channel first and destroys the VM.  *)
WaitReady(g) ==
  \/ /\ arg[g] \in ready
     /\ Step(g, "wait", "ok")
     /\ handed' = handed \cup {arg[g]}
     /\ UNCHANGED <<sessions, minted, resources, proc, ready, done, arg, op>>
  \/ /\ Step(g, "wait", "destroy")
     /\ UNCHANGED <<sessions, minted, resources, proc, ready, handed, done, arg, op>>

-----------------------------------------------------------------------------
Finish(g, result) == IF op[g] = "launch" THEN "fail" ELSE result

(* Manager.Destroy guarded by the done channel instead of by the map, whose *)
(* check is not atomic with the close that follows.                         *)
DestroyTakeRacy(g) ==
  /\ Step(g, "destroy",
          IF arg[g] \in done THEN Finish(g, "notfound") ELSE "close")
  /\ sessions' = sessions \ {arg[g]}
  /\ UNCHANGED <<minted, resources, proc, ready, handed, done, arg, op>>

(* Manager.Destroy: whoever finds the session in the map removes it and    *)
(* tears it down; the others get ErrNotFound.                              *)
DestroyTake(g) ==
  /\ Step(g, "destroy",
          IF arg[g] \in sessions THEN "close" ELSE Finish(g, "notfound"))
  /\ sessions' = sessions \ {arg[g]}
  /\ UNCHANGED <<minted, resources, proc, ready, handed, done, arg, op>>

(* A teardown that forgets s.CloseDone. *)
DestroyKeepsDoneOpen(g) ==
  /\ Step(g, "close", "stop")
  /\ UNCHANGED <<sessions, minted, resources, proc, ready, handed, done, arg, op>>

(* s.CloseDone *)
DestroyClose(g) ==
  /\ Step(g, "close", "stop")
  /\ done' = done \cup {arg[g]}
  /\ UNCHANGED <<sessions, minted, resources, proc, ready, handed, arg, op>>

(* Process.Stop that gives up after SIGTERM instead of killing.            *)
DestroyStopNoKill(g) ==
  /\ Step(g, "stop", "free")
  /\ UNCHANGED <<sessions, minted, resources, proc, ready, handed, done, arg, op>>

(* s.Process.Stop *)
DestroyStop(g) ==
  /\ Step(g, "stop", "free")
  /\ Stop(arg[g])
  /\ UNCHANGED <<sessions, minted, resources, ready, handed, done, arg, op>>

(* DeleteTAP, allocator.Release, os.RemoveAll.  Nothing reads a released   *)
(* resource of this VM again, so the three are one step.                   *)
DestroyFree(g) ==
  /\ Step(g, "free", Finish(g, "gone"))
  /\ cleanup(arg[g])
  /\ UNCHANGED <<sessions, minted, mounted, proc, ready, handed, done, arg, op>>

(* A reaper goroutine that only logs the exit. *)
ReaperLogsOnly(v) ==
  /\ Waited(v)
  /\ Step(v, "reap", "idle")
  /\ UNCHANGED <<sessions, minted, resources, proc, ready, handed, done, arg, op>>

(* The reaper goroutine of v: proc.Wait returns, then Manager.Destroy.     *)
ReaperWakes(v) ==
  /\ Waited(v)
  /\ Step(v, "reap", "destroy")
  /\ UNCHANGED <<sessions, minted, resources, proc, ready, handed, done, arg, op>>

-----------------------------------------------------------------------------
(* Firecracker exits by itself: guest power-off or crash.                  *)
VMExit(v) ==
  /\ proc[v] = "running"
  /\ proc' = [proc EXCEPT ![v] = "exited"]
  /\ UNCHANGED <<sessions, minted, resources, ready, handed, done, pc, arg, op>>

(* The guest agent's hello is accepted on the VM's vsock listener, which   *)
(* exists once Create has started the reaper too: MarkReady.               *)
GuestHello(v) ==
  /\ proc[v] = "running" /\ pc[v] # "idle" /\ v \notin ready
  /\ ready' = ready \cup {v}
  /\ UNCHANGED <<sessions, minted, resources, proc, handed, done, pc, arg, op>>

(* Host.Destroy calls s.CloseDone as well, after Manager.Destroy returned; *)
(* when that was ErrNotFound the channel may still be open.                *)
CloseDone(v) ==
  /\ v \in handed \ sessions
  /\ done' = done \cup {v}
  /\ UNCHANGED <<sessions, minted, resources, proc, ready, handed, pc, arg, op>>

(* Everything goroutine g does on its own once it has been called. *)
Work(g) ==
  \/ CreateCheck(g) \/ CreateAlloc(g) \/ CreateTap(g) \/ CreateDir(g)
  \/ CreateRootfs(g) \/ CreateWrite(g) \/ CreateLaunch(g) \/ CreateInsert(g) \/ WaitReady(g)
  \/ DestroyTake(g) \/ DestroyClose(g) \/ DestroyStop(g) \/ DestroyFree(g)

Environment(v) == VMExit(v) \/ GuestHello(v) \/ CloseDone(v)

MgrNext ==
  \/ \E g \in Callers :
       CallLaunch(g) \/ Return(g) \/ \E v \in VMs : CallDestroy(g, v)
  \/ \E g \in Goroutines : Work(g)
  \/ \E v \in VMs : ReaperWakes(v) \/ Environment(v)

MgrSafety == MgrInit /\ [][MgrNext]_mgrVars

-----------------------------------------------------------------------------
(* Types of the manager's state. *)
MgrTypeOK ==
  /\ sessions \subseteq VMs
  /\ minted \subseteq VMs /\ ip \subseteq VMs /\ tap \subseteq VMs /\ dir \subseteq VMs
  /\ leftTap \subseteq VMs /\ leftDir \subseteq VMs /\ mounted \subseteq VMs
  /\ proc \in [VMs -> {"none", "running", "exited"}]
  /\ ready \subseteq VMs /\ handed \subseteq VMs /\ done \subseteq VMs
  /\ pc \in [Goroutines -> Labels]
  /\ arg \in [Goroutines -> VMs \cup {NoVM}]
  /\ op \in [Goroutines -> {"none", "launch", "destroy"}]

TearingDown(v) == {g \in Goroutines : arg[g] = v /\ pc[g] \in TeardownLabels}
Creating(v)    == {g \in Goroutines : arg[g] = v /\ pc[g] \in CreateLabels}

(* Manager.Destroy of one VM is reached by its reaper, by the launcher     *)
(* after a boot timeout, and by any number of Host.Destroy calls: exactly  *)
(* one of them ever tears it down, and only once it has left the map.      *)
OneTeardown ==
  \A v \in VMs :
    /\ \A g, h \in TearingDown(v) : g = h
    /\ TearingDown(v) # {} => v \notin sessions

(* Nothing is orphaned: an address in use, a running process, a TAP and a  *)
(* directory belong to a session in the map or to a goroutine that is      *)
(* still building it or tearing it down, on every path of Create and       *)
(* Destroy.  The exceptions are what a command of the host that failed     *)
(* left there: a TAP that CreateTAP made and could not set up, or that     *)
(* `ip link del` did not delete, and a directory that os.RemoveAll did not *)
(* remove; the code never comes back to those.                             *)
NothingOrphaned ==
  \A v \in VMs :
    (v \in ip \cup (tap \ leftTap) \cup (dir \ leftDir) \/ proc[v] = "running")
      => v \in sessions \/ Creating(v) # {} \/ TearingDown(v) # {}

(* An address, a TAP or a directory is never released under a running VM.  *)
RunningHoldsAll ==
  \A v \in VMs : proc[v] = "running" => v \in ip /\ v \in tap /\ v \in dir

(* A VM never writes to its image while the host has it mounted, whatever  *)
(* mount, umount and the writes between them return.                       *)
ImageNotShared == \A v \in VMs : proc[v] = "running" => v \notin mounted

InFlight == {g \in Callers : pc[g] \in {"alloc"} \cup CreateLabels}

(* The capacity check is not atomic with the insertion, so the cap can be  *)
(* exceeded, but by no more than the other creations in flight: callers    *)
(* that create one at a time stay within MaxConcurrent.                    *)
OvershootBounded ==
  Cardinality(sessions) + Cardinality(InFlight)
    <= MaxConcurrent + Cardinality(Callers) - 1
=============================================================================
