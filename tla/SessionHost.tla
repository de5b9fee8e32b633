---------------------------- MODULE SessionHost ----------------------------
(***************************************************************************)
(* session.Host on top of the Manager, with the goroutines that use it:    *)
(* the HTTP handlers of POST /sessions, DELETE /sessions/{id} and          *)
(* GET /sessions/{id}/pty, the idle reaper, the watcher goroutine of each  *)
(* session, main's shutdown, and the sessions table                        *)
(* (control-plane/internal/session/host.go, internal/api/sessions.go,      *)
(* internal/db/db.go, cmd/microvm-terminal/main.go).                       *)
(*                                                                         *)
(* A caller's Manager calls are the actions of VMManager; hpc says where   *)
(* it is in Host and in its handler.  Host.mu is dropped between two       *)
(* labels.                                                                 *)
(***************************************************************************)
EXTENDS VMManager

CONSTANTS
  Handlers,    \* goroutines serving HTTP requests
  Idlers,      \* the idle reaper: one goroutine, or none when disabled
  Mains,       \* main on its way out: one goroutine, or none
  DBReliable   \* whether MarkSessionReaped always succeeds

ASSUME HostAssumption ==
  /\ Handlers \cap Idlers = {} /\ Handlers \cap Mains = {} /\ Idlers \cap Mains = {}
  /\ Callers = Handlers \cup Idlers \cup Mains
  /\ DBReliable \in BOOLEAN

VARIABLES
  live,        \* h.sessions
  watch,       \* the goroutine started by h.watch
  owned,       \* sessions whose Owner is set
  row,         \* the session's row in Postgres
  gone,        \* calls of onGone for the session
  hpc, hvm,    \* where a caller is in Host or its handler, and the session
  phase, todo  \* main: serving, draining, destroying the listed, exited

hostVars == <<live, watch, owned, row, gone, hpc, hvm, phase, todo>>
vars == <<mgrVars, hostVars>>

HostLabels == {"idle", "check", "launch", "owner", "row", "destroy", "teardown",
               "close", "notify", "attach", "attached", "writing"}

Init ==
  /\ MgrInit
  /\ live = {} /\ owned = {} /\ todo = {}
  /\ watch = [v \in VMs |-> "none"]
  /\ row   = [v \in VMs |-> "none"]
  /\ gone  = [v \in VMs |-> 0]
  /\ hpc   = [c \in Callers |-> "idle"]
  /\ hvm   = [c \in Callers |-> NoVM]
  /\ phase = "serving"

Alive == phase # "exited"

Goto(c, from, to) ==
  /\ Alive /\ hpc[c] = from
  /\ hpc' = [hpc EXCEPT ![c] = to]

-----------------------------------------------------------------------------
(* POST /sessions *)

PostSessions(c) ==
  /\ c \in Handlers /\ phase = "serving"
  /\ Goto(c, "idle", "check")
  /\ UNCHANGED <<mgrVars, live, watch, owned, row, gone, hvm, phase, todo>>

(* Host.Create: the capacity check under h.mu, then launcher.Launch. *)
HostCheck(c) ==
  \/ /\ Cardinality(live) >= MaxConcurrent
     /\ Goto(c, "check", "idle")
     /\ UNCHANGED <<mgrVars, live, watch, owned, row, gone, hvm, phase, todo>>
  \/ /\ Cardinality(live) < MaxConcurrent
     /\ Goto(c, "check", "launch")
     /\ CallLaunch(c)
     /\ UNCHANGED <<live, watch, owned, row, gone, hvm, phase, todo>>

(* Launch returned an error: the handler answers 503 or 500. *)
LaunchFailed(c) ==
  /\ pc[c] \in {"fail", "capacity"}
  /\ Goto(c, "launch", "idle")
  /\ Return(c)
  /\ UNCHANGED <<live, watch, owned, row, gone, hvm, phase, todo>>

(* Launch returned a session: Host inserts it and starts its watcher. *)
HostInsert(c) ==
  /\ pc[c] = "ok"
  /\ Goto(c, "launch", "owner")
  /\ hvm' = [hvm EXCEPT ![c] = arg[c]]
  /\ live' = live \cup {arg[c]}
  /\ watch' = [watch EXCEPT ![arg[c]] = "wait"]
  /\ Return(c)
  /\ UNCHANGED <<owned, row, gone, phase, todo>>

(* The handler sets s.Owner: from here on the owner's requests match. *)
SetOwner(c) ==
  /\ Goto(c, "owner", "row")
  /\ owned' = owned \cup {hvm[c]}
  /\ UNCHANGED <<mgrVars, live, watch, row, gone, hvm, phase, todo>>

(* Store.InsertSession *)
InsertSession(v) == row' = [row EXCEPT ![v] = "open"]

(* Store.MarkSessionReaped stamps a row that exists and is not stamped yet. *)
MarkSessionReaped(v) == row' = [row EXCEPT ![v] = IF @ = "open" THEN "reaped" ELSE @]

(* InsertSession in the handler; when it fails, which does not tell whether *)
(* the row was written, the handler destroys the session.                   *)
InsertRow(c) ==
  \/ /\ Goto(c, "row", "idle")
     /\ InsertSession(hvm[c])
     /\ hvm' = [hvm EXCEPT ![c] = NoVM]
     /\ UNCHANGED <<mgrVars, live, watch, owned, gone, phase, todo>>
  \/ /\ Goto(c, "row", "destroy")
     /\ InsertSession(hvm[c]) \/ UNCHANGED row
     /\ UNCHANGED <<mgrVars, live, watch, owned, gone, hvm, phase, todo>>

-----------------------------------------------------------------------------
(* Host.Destroy(hvm[c]), for whoever calls it. *)

(* A Destroy that never calls Manager.Destroy. *)
HostDestroyNoTeardown(c) ==
  \/ /\ hvm[c] \in live
     /\ Goto(c, "destroy", "close")
     /\ live' = live \ {hvm[c]}
     /\ UNCHANGED <<mgrVars, watch, owned, row, gone, hvm, phase, todo>>
  \/ /\ hvm[c] \notin live
     /\ Goto(c, "destroy", "idle")
     /\ hvm' = [hvm EXCEPT ![c] = NoVM]
     /\ UNCHANGED <<mgrVars, live, watch, owned, row, gone, phase, todo>>

(* A Destroy that leaves it to the watcher to remove the entry. *)
HostDestroyKeepsEntry(c) ==
  \/ /\ hvm[c] \in live
     /\ Goto(c, "destroy", "teardown")
     /\ CallDestroy(c, hvm[c])
     /\ UNCHANGED <<live, watch, owned, row, gone, hvm, phase, todo>>
  \/ /\ hvm[c] \notin live
     /\ Goto(c, "destroy", "idle")
     /\ hvm' = [hvm EXCEPT ![c] = NoVM]
     /\ UNCHANGED <<mgrVars, live, watch, owned, row, gone, phase, todo>>

(* The session is removed from the live map, or ErrNotFound. *)
HostDestroy(c) ==
  \/ /\ hvm[c] \in live
     /\ Goto(c, "destroy", "teardown")
     /\ live' = live \ {hvm[c]}
     /\ CallDestroy(c, hvm[c])
     /\ UNCHANGED <<watch, owned, row, gone, hvm, phase, todo>>
  \/ /\ hvm[c] \notin live
     /\ Goto(c, "destroy", "idle")
     /\ hvm' = [hvm EXCEPT ![c] = NoVM]
     /\ UNCHANGED <<mgrVars, live, watch, owned, row, gone, phase, todo>>

(* Manager.Destroy returned nil or ErrNotFound. *)
TeardownReturned(c) ==
  /\ pc[c] \in {"gone", "notfound"}
  /\ Goto(c, "teardown", "close")
  /\ Return(c)
  /\ UNCHANGED <<live, watch, owned, row, gone, hvm, phase, todo>>

HostCloseDone(c) ==
  /\ Goto(c, "close", "notify")
  /\ done' = done \cup {hvm[c]}
  /\ UNCHANGED <<sessions, minted, resources, proc, ready, handed, pc, arg, op>>
  /\ UNCHANGED <<live, watch, owned, row, gone, hvm, phase, todo>>

(* The onGone callback; an error of MarkSessionReaped is only logged.      *)
OnGone(v) ==
  /\ gone' = [gone EXCEPT ![v] = @ + 1]
  /\ \/ MarkSessionReaped(v)
     \/ ~DBReliable /\ UNCHANGED row

HostNotify(c) ==
  /\ Goto(c, "notify", "idle")
  /\ OnGone(hvm[c])
  /\ hvm' = [hvm EXCEPT ![c] = NoVM]
  /\ UNCHANGED <<mgrVars, live, watch, owned, phase, todo>>

-----------------------------------------------------------------------------
(* A watcher that reports whether or not it removed the entry. *)
WatchWakesAlways(v) ==
  /\ Alive /\ watch[v] = "wait" /\ v \in done
  /\ watch' = [watch EXCEPT ![v] = "notify"]
  /\ live' = live \ {v}
  /\ UNCHANGED <<mgrVars, owned, row, gone, hpc, hvm, phase, todo>>

(* A watcher that never reports. *)
WatchWakesSilent(v) ==
  /\ Alive /\ watch[v] = "wait" /\ v \in done
  /\ watch' = [watch EXCEPT ![v] = "ended"]
  /\ live' = live \ {v}
  /\ UNCHANGED <<mgrVars, owned, row, gone, hpc, hvm, phase, todo>>

(* The watcher goroutine of v: done is closed, the session leaves the live *)
(* map unless somebody removed it before, and only then is it reported.    *)
WatchWakes(v) ==
  /\ Alive /\ watch[v] = "wait" /\ v \in done
  /\ watch' = [watch EXCEPT ![v] = IF v \in live THEN "notify" ELSE "ended"]
  /\ live' = live \ {v}
  /\ UNCHANGED <<mgrVars, owned, row, gone, hpc, hvm, phase, todo>>

WatchNotify(v) ==
  /\ Alive /\ watch[v] = "notify"
  /\ watch' = [watch EXCEPT ![v] = "ended"]
  /\ OnGone(v)
  /\ UNCHANGED <<mgrVars, live, owned, hpc, hvm, phase, todo>>

(* DELETE /sessions/{id}: Get and the owner check, then Host.Destroy.  For *)
(* a session that is not live the handler only reads its row.              *)
DeleteSession(c, v) ==
  /\ c \in Handlers /\ phase = "serving"
  /\ v \in live \cap owned
  /\ Goto(c, "idle", "destroy")
  /\ hvm' = [hvm EXCEPT ![c] = v]
  /\ UNCHANGED <<mgrVars, live, watch, owned, row, gone, phase, todo>>

(* GET /sessions/{id}/pty: Get and the owner check, the websocket          *)
(* handshake, then Session.Attach.                                         *)
PTYGet(c, v) ==
  /\ c \in Handlers /\ phase = "serving"
  /\ v \in live \cap owned
  /\ Goto(c, "idle", "attach")
  /\ hvm' = [hvm EXCEPT ![c] = v]
  /\ UNCHANGED <<mgrVars, live, watch, owned, row, gone, phase, todo>>

(* websocket.Accept fails, or the handler attaches and starts with the     *)
(* replay of what the terminal showed, when there is any.                  *)
PTYAttach(c) ==
  \/ /\ Goto(c, "attach", "idle")
     /\ hvm' = [hvm EXCEPT ![c] = NoVM]
     /\ UNCHANGED <<mgrVars, live, watch, owned, row, gone, phase, todo>>
  \/ /\ Goto(c, "attach", "attached") \/ Goto(c, "attach", "writing")
     /\ UNCHANGED <<mgrVars, live, watch, owned, row, gone, hvm, phase, todo>>

(* The pump goroutine takes output of the VM, or a ping is due.  It writes *)
(* output to the client without a deadline, and looks at nothing else      *)
(* until the client has read it.                                           *)
PTYWrite(c) ==
  /\ Goto(c, "attached", "writing")
  /\ UNCHANGED <<mgrVars, live, watch, owned, row, gone, hvm, phase, todo>>

PTYWritten(c) ==
  /\ Goto(c, "writing", "attached")
  /\ UNCHANGED <<mgrVars, live, watch, owned, row, gone, hvm, phase, todo>>

(* The pump sees the closed done channel, or the connection breaks; the    *)
(* latter also ends a write.                                               *)
PTYDetach(c) ==
  /\ Goto(c, "attached", "idle") \/ Goto(c, "writing", "idle")
  /\ hvm' = [hvm EXCEPT ![c] = NoVM]
  /\ UNCHANGED <<mgrVars, live, watch, owned, row, gone, phase, todo>>

Attached(v) == {c \in Handlers : hpc[c] \in {"attached", "writing"} /\ hvm[c] = v}

(* ReapIdle: IdleSince says that nobody is attached (and, with time left   *)
(* out, that it has been so for the timeout), then Host.Destroy.           *)
IdlePick(i, v) ==
  /\ i \in Idlers
  /\ v \in live /\ Attached(v) = {}
  /\ Goto(i, "idle", "destroy")
  /\ hvm' = [hvm EXCEPT ![i] = v]
  /\ UNCHANGED <<mgrVars, live, watch, owned, row, gone, phase, todo>>

-----------------------------------------------------------------------------
(* main: a signal arrives and srv.Shutdown starts draining the handlers;   *)
(* it returns when they are done or after 30 s, and main destroys the      *)
(* sessions that Host lists at that moment, then exits.                    *)
Signal ==
  /\ Mains # {} /\ phase = "serving"
  /\ phase' = "draining"
  /\ UNCHANGED <<mgrVars, live, watch, owned, row, gone, hpc, hvm, todo>>

ListSessions ==
  /\ phase = "draining"
  /\ phase' = "destroying"
  /\ todo' = live
  /\ UNCHANGED <<mgrVars, live, watch, owned, row, gone, hpc, hvm>>

ShutdownOne(m) ==
  /\ m \in Mains /\ phase = "destroying"
  /\ \E v \in todo :
       /\ Goto(m, "idle", "destroy")
       /\ hvm' = [hvm EXCEPT ![m] = v]
       /\ todo' = todo \ {v}
  /\ UNCHANGED <<mgrVars, live, watch, owned, row, gone, phase>>

Exit(m) ==
  /\ m \in Mains /\ phase = "destroying" /\ todo = {} /\ hpc[m] = "idle"
  /\ phase' = "exited"
  /\ UNCHANGED <<mgrVars, live, watch, owned, row, gone, hpc, hvm, todo>>

-----------------------------------------------------------------------------
(* What a caller does on its own once its request has started. *)
HostWork(c) ==
  \/ HostCheck(c) \/ LaunchFailed(c) \/ HostInsert(c) \/ SetOwner(c) \/ InsertRow(c)
  \/ HostDestroy(c) \/ TeardownReturned(c) \/ HostCloseDone(c) \/ HostNotify(c)
  \/ PTYAttach(c)

WatchWork(v) == WatchWakes(v) \/ WatchNotify(v)

MgrWork(g) == Alive /\ Work(g) /\ UNCHANGED hostVars

Reap(v) == Alive /\ ReaperWakes(v) /\ UNCHANGED hostVars

(* What the VM itself does; when the daemon has exited its goroutines are  *)
(* gone, the VMs are not.                                                  *)
VMStep(v) ==
  /\ VMExit(v) \/ (Alive /\ GuestHello(v))
  /\ UNCHANGED hostVars

Requests ==
  \/ \E c \in Handlers :
       \/ PostSessions(c) \/ PTYWrite(c) \/ PTYWritten(c) \/ PTYDetach(c)
       \/ \E v \in VMs : DeleteSession(c, v) \/ PTYGet(c, v)
  \/ \E i \in Idlers, v \in VMs : IdlePick(i, v)

MainNext == Signal \/ ListSessions \/ \E m \in Mains : ShutdownOne(m) \/ Exit(m)

Next ==
  \/ \E c \in Callers : HostWork(c)
  \/ \E g \in Goroutines : MgrWork(g)
  \/ \E v \in VMs : WatchWork(v) \/ Reap(v) \/ VMStep(v)
  \/ Requests
  \/ MainNext

Safety == Init /\ [][Next]_vars

(* While the daemon runs, a goroutine that can run runs: the Go scheduler  *)
(* is fair, Stop kills after 5 s, and WaitReady has the boot timeout.  The *)
(* commands of Create and cleanup (ip, cp, mount, umount) have no timeout  *)
(* in the code: they are taken to end, well or badly.  A pump that comes   *)
(* back to its select again and again takes the closed done channel in the *)
(* end, for Go picks among the ready cases at random.  Clients, guests and *)
(* processes owe nothing: a client may never read what is written to it.   *)
Spec ==
  /\ Safety
  /\ \A c \in Callers : WF_vars(HostWork(c) \/ MgrWork(c))
  /\ \A v \in VMs : WF_vars(WatchWork(v)) /\ WF_vars(Reap(v) \/ MgrWork(v))
  /\ \A c \in Handlers : SF_vars(hvm[c] \in done /\ hpc[c] = "attached" /\ PTYDetach(c))

-----------------------------------------------------------------------------
(* Types of Host's and the handlers' state. *)
TypeOK ==
  /\ MgrTypeOK
  /\ live \subseteq VMs /\ owned \subseteq VMs /\ todo \subseteq VMs
  /\ watch \in [VMs -> {"none", "wait", "notify", "ended"}]
  /\ row \in [VMs -> {"none", "open", "reaped"}]
  /\ gone \in [VMs -> Nat]
  /\ hpc \in [Callers -> HostLabels]
  /\ hvm \in [Callers -> VMs \cup {NoVM}]
  /\ phase \in {"serving", "draining", "destroying", "exited"}

(* The life of a session as Host's users see it. *)
Ledger == INSTANCE SessionLedger WITH
  status <- [v \in VMs |->
    IF gone[v] > 0
      THEN IF gone[v] = 1 /\ v \notin live THEN "reported" ELSE "miscounted"
      ELSE IF v \in live THEN "live"
      ELSE IF watch[v] = "none" THEN "absent" ELSE "left"]

(* onGone "is called once for every session that leaves the live map,      *)
(* whatever the reason": DELETE, a failed InsertSession, the idle reaper,  *)
(* main and the watcher race to remove a session, and it is reported once  *)
(* and only after it left.                                                 *)
ReportedAtMostOnce == Ledger!Safety

(* ... and it is reported in the end. *)
LedgerSpec == Ledger!Spec

(* A VM the Manager still runs and that Launch has returned is in Host's   *)
(* live map, or some goroutine is about to insert it or to destroy it: no  *)
(* request can make Host forget a VM that nobody will stop.                *)
NoStrayVM ==
  \A v \in sessions \cap handed :
    \/ v \in live
    \/ \E g \in Goroutines : arg[g] = v /\ pc[g] \in {"ok", "destroy"}

(* A stamped row belongs to a session that left the live map for good. *)
StampedMeansGone == \A v \in VMs : row[v] = "reaped" => v \notin live

(* A VM that exits by itself, or whose process is stopped, frees its slot  *)
(* in Host and in the Manager without a DELETE, and its address, TAP and   *)
(* directory are released, but for a TAP or a directory whose removal      *)
(* failed.                                                                 *)
ExitedIsReleased ==
  \A v \in VMs :
    (v \in sessions \cup live /\ proc[v] = "exited")
      ~> v \notin sessions \cup live \cup ip \cup (tap \ leftTap) \cup (dir \ leftDir)

(* A terminal attached to a VM that exits by itself is dropped: its reaper *)
(* tears the VM down, which closes the channel the terminal's pump waits   *)
(* on.  Only a client that stops reading for good, with the pump in the    *)
(* middle of a write, keeps its handler.                                   *)
TerminalEndsWithVM ==
  \A c \in Handlers, v \in VMs :
    (c \in Attached(v) /\ proc[v] = "exited")
      ~> (c \notin Attached(v) \/ [](hpc[c] = "writing"))

(* Every way out of the live map ends with reaped_at stamped (README.md:   *)
(* "... all end in Manager.Destroy: ... stamp `reaped_at` in Postgres").   *)
GoneIsStamped == \A v \in VMs : gone[v] = 1 => row[v] # "open"
=============================================================================
