------------------------------- MODULE Daemon -------------------------------
(***************************************************************************)
(* The life of the control-plane daemon across starts, crashes and         *)
(* restarts (control-plane/cmd/microvm-terminal/main.go, run by systemd    *)
(* with Restart=on-failure): what it finds on the host and in the database *)
(* when it starts, what it leaves there when it dies.                      *)
(*                                                                         *)
(* main runs db.Open, Migrate, NewGate (LoginGate), NewManager with        *)
(* netalloc.New (NetAlloc) and EnsureBridge, and then serves.  Of a        *)
(* session, this module has the lease and the TAP; VMManager has the       *)
(* failures on the way there and SessionHost the rows in Postgres.         *)
(***************************************************************************)
EXTENDS NetAlloc, LoginGate

CONSTANTS
  Migrations,   \* the embedded migrations in the order of their names
  MaxCrashes,   \* bound: crashes of the daemon
  MaxStops,     \* bound: stops by the operator
  MaxFaults     \* bound: calls that fail during a start

ASSUME DaemonAssumption ==
  /\ {MaxCrashes, MaxStops, MaxFaults} \subseteq Nat
  /\ Migrations \in Seq({Migrations[i] : i \in 1..Len(Migrations)})
  /\ \A i, j \in 1..Len(Migrations) : Migrations[i] = Migrations[j] => i = j

(* The iptables rules, in the order in which EnsureBridge installs them.   *)
Rules == <<"masquerade", "forward_out", "forward_back">>

VARIABLES
  pc,           \* where main is
  step,         \* index of its loop: the migration, or the rule
  schema,       \* Up blocks the database has executed
  recorded,     \* schema_migrations
  rules,        \* how often each rule is installed
  taps,         \* TAP devices on the host
  lied,         \* history: checks of a rule that failed though it is there
  crashes, stops, faults

startVars == <<pc, step>>
dbVars == <<schema, recorded>>
hostVars == <<rules, lied, taps>>
budgets == <<crashes, stops, faults>>
daemonVars == <<startVars, dbVars, hostVars, budgets, vars, gateVars>>

DaemonInit ==
  /\ pc = "down" /\ step = 1
  /\ schema = <<>> /\ recorded = {}
  /\ rules = [r \in 1..Len(Rules) |-> 0] /\ lied = [r \in 1..Len(Rules) |-> 0]
  /\ taps = {}
  /\ crashes = 0 /\ stops = 0 /\ faults = 0
  /\ Init /\ GateInit

Goto(l) == pc' = l /\ step' = 1

(* The next round of main's loop, or the label after it. *)
NextRound(last, l) == IF step = last THEN Goto(l) ELSE step' = step + 1 /\ UNCHANGED pc

NoFault == UNCHANGED budgets
Fault == faults < MaxFaults /\ faults' = faults + 1 /\ UNCHANGED <<crashes, stops>>

-----------------------------------------------------------------------------
(* systemd starts main: after a crash or a failed start, and on the        *)
(* operator's word after a stop.                                           *)
Start ==
  /\ pc \in {"down", "stopped"}
  /\ Goto("open")
  /\ UNCHANGED <<dbVars, hostVars, budgets, vars, gateVars>>

(* db.Open reaches the database; Migrate creates its table when missing.   *)
Open ==
  /\ pc = "open"
  /\ Goto(IF Migrations = <<>> THEN "gate" ELSE "check")
  /\ NoFault
  /\ UNCHANGED <<dbVars, hostVars, vars, gateVars>>

(* Every migration is applied on every start. *)
CheckNothing ==
  /\ pc = "check" /\ pc' = "apply" /\ UNCHANGED step
  /\ NoFault
  /\ UNCHANGED <<dbVars, hostVars, vars, gateVars>>

(* A migration that has its row is skipped; the check is a query of its    *)
(* own, outside the transaction.                                           *)
CheckMigration ==
  /\ pc = "check"
  /\ IF Migrations[step] \in recorded
       THEN NextRound(Len(Migrations), "gate")
       ELSE pc' = "apply" /\ UNCHANGED step
  /\ NoFault
  /\ UNCHANGED <<dbVars, hostVars, vars, gateVars>>

(* The Up block (`create table`, which fails when the table is there) and  *)
(* the row that records it, in one transaction.                            *)
Committed ==
  /\ schema' = Append(schema, Migrations[step])
  /\ recorded' = recorded \cup {Migrations[step]}

Applicable == \A i \in 1..Len(schema) : schema[i] # Migrations[step]

(* An Up block that is there already makes Migrate, and main, fail. *)
ApplyMigration ==
  /\ pc = "apply"
  /\ IF ~Applicable THEN Goto("down") /\ UNCHANGED dbVars
     ELSE /\ Committed
          /\ IF step = Len(Migrations) THEN Goto("gate")
             ELSE pc' = "check" /\ step' = step + 1
  /\ NoFault
  /\ UNCHANGED <<hostVars, vars, gateVars>>

(* A migration without the transaction: the connection breaks after Up.    *)
CommitFailsHalfway ==
  /\ pc = "apply" /\ Applicable
  /\ schema' = Append(schema, Migrations[step]) /\ UNCHANGED recorded
  /\ Goto("down") /\ Fault
  /\ UNCHANGED <<hostVars, vars, gateVars>>

(* The connection breaks: the transaction is rolled back, or it was        *)
(* committed and only the answer is lost.  main fails either way.          *)
CommitFails ==
  /\ pc = "apply" /\ Applicable
  /\ Committed \/ UNCHANGED dbVars
  /\ Goto("down") /\ Fault
  /\ UNCHANGED <<hostVars, vars, gateVars>>

-----------------------------------------------------------------------------
(* NewGate: the secret is in its file, or is drawn and written. *)
GateLoads ==
  /\ pc = "gate"
  /\ LoadSecret
  /\ Goto("bridge") /\ NoFault
  /\ UNCHANGED <<dbVars, hostVars, vars>>

GateCreates ==
  /\ pc = "gate"
  /\ \/ CreateSecret(TRUE) /\ NoFault
     \/ CreateSecret(FALSE) /\ Fault
  /\ Goto("write")
  /\ UNCHANGED <<dbVars, hostVars, vars>>

GateWrites ==
  /\ pc = "write"
  /\ WriteSecret
  /\ Goto("bridge") /\ NoFault
  /\ UNCHANGED <<dbVars, hostVars, vars>>

(* EnsureBridge, one rule: `iptables -C`, and `-A` when it does not        *)
(* succeed.  A check can fail for another reason than a missing rule; an   *)
(* add that fails is fatal for the first rule only.                        *)
EnsureRule ==
  /\ pc = "bridge"
  /\ \/ /\ rules[step] > 0
        /\ UNCHANGED <<rules, lied>> /\ NoFault
     \/ /\ rules[step] = 0
        /\ rules' = [rules EXCEPT ![step] = 1] /\ UNCHANGED lied /\ NoFault
     \/ /\ rules[step] > 0
        /\ rules' = [rules EXCEPT ![step] = @ + 1]
        /\ lied' = [lied EXCEPT ![step] = @ + 1] /\ Fault
     \/ /\ rules[step] = 0 /\ step > 1
        /\ UNCHANGED <<rules, lied>> /\ Fault
  /\ NextRound(Len(Rules), "serve")
  /\ UNCHANGED <<dbVars, taps, vars, gateVars>>

(* An allocator that goes on counting its TAPs after a restart. *)
MemoryLostButTaps ==
  /\ next' = host + 1 /\ in_use' = {} /\ cidIdx' = 99 /\ leases' = {} /\ UNCHANGED tapIdx
  /\ GateGone

(* What the process held in memory is gone; the next NewManager begins     *)
(* with an empty map and a new allocator.                                  *)
MemoryLost ==
  /\ next' = host + 1 /\ in_use' = {} /\ tapIdx' = 0 /\ cidIdx' = 99 /\ leases' = {}
  /\ GateGone

(* Any other call of the start fails: the database does not answer, the    *)
(* password cannot be read, the secret file is long enough but not hex, or *)
(* cannot be written, the link, its address or the first rule cannot be    *)
(* set.  main exits with status 1.                                         *)
StartFails ==
  /\ pc \in {"open", "check", "gate", "write"} \/ (pc = "bridge" /\ step = 1)
  /\ MemoryLost
  /\ Goto("down") /\ Fault
  /\ UNCHANGED <<dbVars, hostVars>>

-----------------------------------------------------------------------------
(* A session comes up: its lease, and its TAP (one of that name may be     *)
(* left over from an earlier incarnation: CreateTAP takes it).  A Create   *)
(* that fails on the way is this step and EndSession.                      *)
BootSession ==
  /\ pc = "serve"
  /\ AllocLease
  /\ taps' = taps \cup {tapIdx'}
  /\ UNCHANGED <<startVars, dbVars, rules, lied, budgets, gateVars>>

BootFails ==
  /\ pc = "serve"
  /\ AllocNoFreeIPs
  /\ UNCHANGED <<startVars, dbVars, hostVars, budgets, gateVars>>

(* A session ends, or does not come up: Release, and DeleteTAP, whose      *)
(* errors are ignored.                                                     *)
EndSession(l) ==
  /\ pc = "serve"
  /\ Release(l)
  /\ taps' \in {taps, taps \ {l.tap}}
  /\ UNCHANGED <<startVars, dbVars, rules, lied, budgets, gateVars>>

Serve ==
  /\ pc = "serve"
  /\ \/ \E ip \in IPs, n \in Names, right \in BOOLEAN : SubmitLogin(ip, n, right)
     \/ \E c \in cookies : Logout(c)
  /\ UNCHANGED <<startVars, dbVars, hostVars, budgets, vars>>

(* SIGTERM while serving: main destroys the VMs the host lists, which are  *)
(* not those still booting or pooled, and any DeleteTAP may fail.          *)
Stop ==
  /\ pc = "serve" /\ stops < MaxStops
  /\ stops' = stops + 1 /\ UNCHANGED <<crashes, faults>>
  /\ \E deleted \in SUBSET {l.tap : l \in leases} : taps' = taps \ deleted
  /\ MemoryLost
  /\ Goto("stopped")
  /\ UNCHANGED <<dbVars, rules, lied>>

(* The daemon dies anywhere; systemd kills what is left of its VMs. *)
Crash ==
  /\ pc \notin {"down", "stopped"} /\ crashes < MaxCrashes
  /\ crashes' = crashes + 1 /\ UNCHANGED <<stops, faults>>
  /\ MemoryLost
  /\ Goto("down")
  /\ UNCHANGED <<dbVars, hostVars>>

TimePasses == Tick /\ UNCHANGED <<startVars, dbVars, hostVars, budgets, vars>>

Starting ==
  \/ Start \/ Open \/ CheckMigration \/ ApplyMigration
  \/ GateLoads \/ GateCreates \/ GateWrites \/ EnsureRule

DaemonNext ==
  \/ Starting
  \/ CommitFails \/ StartFails
  \/ BootSession \/ BootFails \/ (\E l \in leases : EndSession(l))
  \/ Serve \/ Stop \/ Crash \/ TimePasses

(* main goes on by itself, and systemd starts it again when it failed.     *)
DaemonSafety == DaemonInit /\ [][DaemonNext]_daemonVars
DaemonSpec == DaemonSafety /\ WF_daemonVars(Starting /\ pc # "stopped")

-----------------------------------------------------------------------------
(* Types of the state of the daemon, its allocator and its login gate. *)
DaemonTypeOK ==
  /\ TypeOK
  /\ pc \in {"down", "open", "check", "apply", "gate", "write", "bridge", "serve", "stopped"}
  /\ step \in 1..(Len(Migrations) + Len(Rules))
  /\ rules \in [1..Len(Rules) -> Nat] /\ lied \in [1..Len(Rules) -> Nat]
  /\ taps \subseteq Nat
  /\ GateTypeOK

(* Whatever fails or crashes in the middle of Migrate, every migration is  *)
(* executed once, in order, and exactly those executed are recorded; the   *)
(* daemon serves only on a complete schema.                                *)
MigratedExactlyOnce ==
  /\ Len(schema) <= Len(Migrations)
  /\ \A i \in 1..Len(schema) : schema[i] = Migrations[i]
  /\ recorded = {schema[i] : i \in 1..Len(schema)}
  /\ pc = "serve" => Len(schema) = Len(Migrations)

(* What starts and crashes leave on the host does not pile up.             *)
(* EnsureBridge is idempotent (network.go: "Avoid stacking duplicate rules *)
(* across restarts"): a rule is there twice only if iptables failed to     *)
(* find it, and a daemon that serves has its NAT rule.  TAPs left by       *)
(* crashed daemons and by deletions that failed are taken over by later    *)
(* sessions: all TAPs on the host have names that one incarnation gives to *)
(* its sessions, and every session has its TAP.                            *)
RestartsDoNotPileUp ==
  /\ \A r \in 1..Len(Rules) : rules[r] <= 1 + lied[r]
  /\ pc = "serve" => rules[1] >= 1
  /\ taps \subseteq 1..(Size - 2)
  /\ {l.tap : l \in leases} \subseteq taps

(* A start that fails or crashes anywhere leaves nothing behind that makes *)
(* a later start fail: once faults stop, the daemon serves.                *)
ServesInTheEnd == (pc \notin {"serve", "stopped"}) ~> (pc = "serve")
=============================================================================
