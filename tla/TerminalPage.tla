---------------------------- MODULE TerminalPage ----------------------------
(***************************************************************************)
(* The terminal page (control-plane/internal/web/terminal.html) and what   *)
(* it sees of the server (internal/api/sessions.go): requests answered or  *)
(* lost, sockets that open, break or are closed when the VM ends, timers,  *)
(* and the visitor's clicks.  The page runs one callback at a time; what   *)
(* is in flight between the callbacks arrives in any order.                *)
(*                                                                         *)
(* VMs are numbered as their boots begin, all for one owner.  A call is a  *)
(* fetch that is sent, waits for its VM to boot, is answered or failed; it *)
(* is free again when its callback has run.  What the server does for a    *)
(* fetch goes on when the fetch fails.  A socket is free again when its    *)
(* onclose has run.                                                        *)
(***************************************************************************)
EXTENDS Integers, FiniteSets, FiniteSetsExt

CONSTANTS
  Calls,        \* names for fetches in flight, 1..n
  Sockets,      \* names for WebSockets, 1..n
  MaxReconnects,\* reconnects in a row (8)
  MaxVMs,       \* bound: VMs booted
  MaxClicks,    \* bound: clicks of the visitor
  MaxFaults,    \* bound: lost calls, broken sockets, refused or ended VMs,
                \* stops of the daemon, things another tab of the visitor does
  MaxEvents     \* bound: clicks and faults together

(* The page has at most one thing in flight for its start and one for each *)
(* click, so this many names are enough (TypeOK).                          *)
ASSUME PageAssumption ==
  /\ {MaxReconnects, MaxVMs, MaxClicks, MaxFaults, MaxEvents} \subseteq Nat
  /\ Calls \subseteq Nat \ {0} /\ IsFiniteSet(Calls) /\ Cardinality(Calls) > MaxClicks + 1
  /\ Sockets \subseteq Nat \ {0} /\ IsFiniteSet(Sockets) /\ Cardinality(Sockets) > MaxClicks + 1

VARIABLES
  live,         \* VMs of the owner the host lists
  booting,      \* VMs a POST is booting, which the host does not list yet
  minted,       \* VMs whose boot has begun so far
  orphaned,     \* history: the fetch of a POST failed while its VM booted
  subscriber,   \* VM -> the socket attached last, 0: none, -1: another tab's
  up,           \* the daemon runs
  page,         \* the page's variables
  calls,        \* fetches in flight
  socks,        \* the page's WebSockets
  overlapped,   \* history: boot() was entered while another boot() ran
  bootLost,     \* history: a fetch of the last boot() failed
  clicks, faults

hostVars == <<live, booting, minted>>
serverVars == <<hostVars, orphaned, subscriber, up>>
budgets == <<clicks, faults>>
vars == <<serverVars, page, calls, socks, overlapped, bootLost, budgets>>

VMs == 1..MaxVMs

FreeCall == [kind |-> "free", id |-> 0, ans |-> "none"]
FreeSocket == [at |-> "free", vm |-> 0, reason |-> ""]

Request(kind, id) == [kind |-> kind, id |-> id, ans |-> "sent"]

(* The name for the next fetch, or socket. *)
Fresh(f, free) == Min({n \in DOMAIN f : f[n] = free})
Placed(cs, kind, id) == [cs EXCEPT ![Fresh(cs, FreeCall)] = Request(kind, id)]

BootCalls(cs) == {k \in Calls : cs[k].kind \in {"current", "post"}}

(* The script has run: boot() has asked for the current VM. *)
Init ==
  /\ live = {} /\ booting = {} /\ minted = 0 /\ orphaned = FALSE /\ up = TRUE
  /\ subscriber = [v \in VMs |-> 0]
  /\ page = [sessionId |-> 0, ws |-> 0, closing |-> FALSE, attempts |-> 0,
             timer |-> FALSE, overlay |-> "none"]
  /\ calls = Placed([k \in Calls |-> FreeCall], "current", 0)
  /\ socks = [s \in Sockets |-> FreeSocket]
  /\ overlapped = FALSE /\ bootLost = FALSE
  /\ clicks = 0 /\ faults = 0

Fault ==
  /\ faults < MaxFaults /\ clicks + faults < MaxEvents
  /\ faults' = faults + 1 /\ UNCHANGED clicks

Click ==
  /\ clicks < MaxClicks /\ clicks + faults < MaxEvents
  /\ clicks' = clicks + 1 /\ UNCHANGED faults

NoFault == UNCHANGED budgets

-----------------------------------------------------------------------------
(* VM v ends: the host drops it and every PTY handler closes its socket    *)
(* with the reason "vm exited".  A socket the page is closing is answered  *)
(* with either close frame.                                                *)
Ended(v, socksNow) ==
  [s \in Sockets |-> IF socksNow[s].vm = v /\ socksNow[s].at = "open"
                       THEN [socksNow[s] EXCEPT !.at = "closed", !.reason = "vm exited"]
                       ELSE socksNow[s]]

VMExits(v) ==
  /\ v \in live
  /\ live' = live \ {v}
  /\ socks' = Ended(v, socks)

(* The guest shuts down, the idle reaper takes a VM nobody is at, another  *)
(* tab of the visitor ends it, a DELETE whose fetch failed arrives after   *)
(* all, or InsertSession finds that the client of its POST has gone.       *)
VMEnds(v) ==
  /\ VMExits(v)
  /\ Fault
  /\ UNCHANGED <<booting, minted, orphaned, subscriber, up, page, calls, overlapped, bootLost>>

Answered(k, id, ans) == calls' = [calls EXCEPT ![k].id = id, ![k].ans = ans]

(* GET /sessions/current: the newest live VM of the owner. *)
Current(k) ==
  /\ calls[k].kind = "current"
  /\ IF live = {} THEN Answered(k, 0, "no") ELSE Answered(k, Max(live), "yes")
  /\ UNCHANGED <<hostVars, socks, budgets>>

(* POST /sessions: there is no VM to be had, or one begins to boot, ...    *)
Create(k) ==
  /\ calls[k].kind = "post"
  /\ \/ /\ minted < MaxVMs
        /\ minted' = minted + 1 /\ booting' = booting \cup {minted + 1}
        /\ Answered(k, minted + 1, "booting") /\ NoFault
     \/ /\ Answered(k, 0, "no") /\ UNCHANGED <<booting, minted>>
        /\ IF minted < MaxVMs THEN Fault ELSE NoFault
  /\ UNCHANGED <<live, socks>>

(* GET /sessions/{id}: alive, or a row or no row at all. *)
Describe(k) ==
  /\ calls[k].kind = "describe"
  /\ Answered(k, calls[k].id, IF calls[k].id \in live THEN "yes" ELSE "no")
  /\ UNCHANGED <<hostVars, socks, budgets>>

(* DELETE /sessions/{id} *)
Delete(k) ==
  /\ calls[k].kind = "delete"
  /\ Answered(k, calls[k].id, "yes")
  /\ IF calls[k].id \in live THEN VMExits(calls[k].id) ELSE UNCHANGED <<live, socks>>
  /\ UNCHANGED <<booting, minted, budgets>>

Serve(k) ==
  /\ up /\ calls[k].ans = "sent"
  /\ Current(k) \/ Create(k) \/ Describe(k) \/ Delete(k)
  /\ UNCHANGED <<orphaned, subscriber, up, page, overlapped, bootLost>>

(* ... which Host.Create lists when it is up, or gives up, whether or not  *)
(* a client still waits for it (Manager.Create does not look at ctx), ...  *)
Booted(v) ==
  /\ v \in booting
  /\ booting' = booting \ {v}
  /\ \/ live' = live \cup {v} /\ UNCHANGED <<calls, budgets>>
     \/ /\ Fault /\ UNCHANGED live
        /\ calls' = [k \in Calls |-> IF calls[k].ans = "booting" /\ calls[k].id = v
                                      THEN [calls[k] EXCEPT !.ans = "no"] ELSE calls[k]]
  /\ UNCHANGED <<minted, orphaned, subscriber, up, page, socks, overlapped, bootLost>>

(* ... and whose row InsertSession writes before the answer, or cannot,    *)
(* and the VM is destroyed.                                                *)
Created(k) ==
  /\ calls[k].ans = "booting" /\ calls[k].id \notin booting
  /\ \/ Answered(k, calls[k].id, "yes") /\ UNCHANGED <<live, socks, budgets>>
     \/ /\ Answered(k, calls[k].id, "no") /\ Fault
        /\ IF calls[k].id \in live THEN VMExits(calls[k].id) ELSE UNCHANGED <<live, socks>>
  /\ UNCHANGED <<booting, minted, orphaned, subscriber, up, page, overlapped, bootLost>>

(* A request, or its answer, is lost, or the visitor's network is: fetch   *)
(* rejects.  While the daemon is down every request is lost.  A POST that  *)
(* the server has got boots its VM all the same; one that it gets only     *)
(* after the fetch has failed is one whose boot takes longer.              *)
Lost(k) ==
  /\ calls[k].kind # "free" /\ calls[k].ans # "error"
  /\ calls' = [calls EXCEPT ![k].ans = "error"]
  /\ orphaned' = (orphaned \/ (calls[k].ans = "booting" /\ calls[k].id \in booting))
  /\ IF ~up /\ calls[k].ans = "sent" THEN NoFault ELSE Fault
  /\ UNCHANGED <<hostVars, subscriber, up, page, socks, overlapped, bootLost>>

(* The PTY handler accepts and attaches the socket: onopen runs.  A second *)
(* attach to a VM replaces the first, whose socket stays open.             *)
Opened(s) ==
  /\ up /\ socks[s].at = "connecting" /\ socks[s].vm \in live
  /\ socks' = [socks EXCEPT ![s].at = "open"]
  /\ subscriber' = [subscriber EXCEPT ![socks[s].vm] = s]
  /\ page' = [page EXCEPT !.attempts = 0]
  /\ UNCHANGED <<hostVars, orphaned, up, calls, overlapped, bootLost, budgets>>

Detached(s) == [v \in VMs |-> IF subscriber[v] = s THEN 0 ELSE subscriber[v]]

(* The socket is refused, breaks, or has been closed by the page; the      *)
(* handler, if there was one, unsubscribes.                                *)
Breaks(s) ==
  /\ \/ socks[s].at = "connecting" /\ (~up \/ socks[s].vm \notin live) /\ NoFault
     \/ socks[s].at \in {"connecting", "open"} /\ Fault
     \/ socks[s].at = "closing" /\ NoFault
  /\ \E reason \in IF socks[s].at = "closing" /\ socks[s].vm \notin live
                     THEN {"", "vm exited"} ELSE {""} :
       socks' = [socks EXCEPT ![s].at = "closed", ![s].reason = reason]
  /\ subscriber' = Detached(s)
  /\ UNCHANGED <<hostVars, orphaned, up, page, calls, overlapped, bootLost>>

(* The daemon stops and takes its VMs along; a handler may or may not get  *)
(* its close frame out, and a fetch that waits for its VM fails.  Later it *)
(* may start again.                                                        *)
DaemonStops ==
  /\ up /\ Fault
  /\ up' = FALSE /\ live' = {} /\ booting' = {}
  /\ calls' = [k \in Calls |-> IF calls[k].ans = "booting"
                                THEN [calls[k] EXCEPT !.ans = "error"] ELSE calls[k]]
  /\ \E reason \in {"", "vm exited"} :
       socks' = [s \in Sockets |-> IF socks[s].at = "open"
                   THEN [socks[s] EXCEPT !.at = "closed", !.reason = reason] ELSE socks[s]]
  /\ subscriber' = [v \in VMs |-> 0]
  /\ UNCHANGED <<minted, orphaned, page, overlapped, bootLost>>

DaemonStarts ==
  /\ ~up /\ up' = TRUE
  /\ UNCHANGED <<hostVars, orphaned, subscriber, page, calls, socks, overlapped, bootLost, budgets>>

(* Another tab of the visitor attaches to a VM. *)
OtherTab(v) ==
  /\ v \in live /\ Fault
  /\ subscriber' = [subscriber EXCEPT ![v] = -1]
  /\ UNCHANGED <<hostVars, orphaned, up, page, calls, socks, overlapped, bootLost>>

-----------------------------------------------------------------------------
(* A boot() that does not look for a live VM. *)
bootAlwaysPosts(p, cs) ==
  /\ page' = [p EXCEPT !.closing = FALSE, !.attempts = 0]
  /\ calls' = Placed(cs, "post", 0)
  /\ overlapped' = (overlapped \/ BootCalls(cs) # {})
  /\ bootLost' = FALSE
  /\ UNCHANGED socks

(* boot(), entered with the page p and the calls cs. *)
boot(p, cs) ==
  /\ page' = [p EXCEPT !.closing = FALSE, !.attempts = 0]
  /\ calls' = Placed(cs, "current", 0)
  /\ overlapped' = (overlapped \/ BootCalls(cs) # {})
  /\ bootLost' = FALSE
  /\ UNCHANGED socks

Attached(p, s) ==
  /\ socks' = [socks EXCEPT ![s] = [at |-> "connecting", vm |-> p.sessionId, reason |-> ""]]
  /\ page' = [p EXCEPT !.ws = s]

(* A connect() that keeps the socket there is. *)
connectOnce(p) ==
  IF p.sessionId = 0 \/ p.ws # 0
    THEN page' = p /\ UNCHANGED socks
    ELSE Attached(p, Fresh(socks, FreeSocket))

(* connect(), entered with the page p. *)
connect(p) ==
  IF p.sessionId = 0
    THEN page' = p /\ UNCHANGED socks
    ELSE Attached(p, Fresh(socks, FreeSocket))

vmGone(p) == page' = [p EXCEPT !.overlay = "gone"]

(* A reconnect that is not counted. *)
scheduleReconnectForever(p) == page' = [p EXCEPT !.timer = TRUE]

scheduleReconnect(p) ==
  IF p.attempts + 1 > MaxReconnects
    THEN vmGone([p EXCEPT !.attempts = @ + 1])
    ELSE page' = [p EXCEPT !.attempts = @ + 1, !.timer = TRUE]

Freed(k) == [calls EXCEPT ![k] = FreeCall]

(* The answer of boot's first request: reattach, or ask for a VM. *)
OnCurrent(k) ==
  /\ calls[k].kind = "current"
  /\ \/ /\ calls[k].ans = "yes"
        /\ connect([page EXCEPT !.sessionId = calls[k].id])
        /\ calls' = Freed(k) /\ UNCHANGED bootLost
     \/ /\ calls[k].ans = "no"
        /\ calls' = [calls EXCEPT ![k] = Request("post", 0)]
        /\ UNCHANGED <<page, socks, bootLost>>
     \/ /\ calls[k].ans = "error"
        /\ calls' = Freed(k) /\ bootLost' = TRUE /\ UNCHANGED <<page, socks>>
  /\ UNCHANGED overlapped

OnPost(k) ==
  /\ calls[k].kind = "post"
  /\ calls' = Freed(k)
  /\ \/ /\ calls[k].ans = "yes"
        /\ connect([page EXCEPT !.sessionId = calls[k].id]) /\ UNCHANGED bootLost
     \/ /\ calls[k].ans = "no"
        /\ page' = [page EXCEPT !.overlay = "bootfailed"] /\ UNCHANGED <<socks, bootLost>>
     \/ /\ calls[k].ans = "error"
        /\ bootLost' = TRUE /\ UNCHANGED <<page, socks>>
  /\ UNCHANGED overlapped

(* The answer to "Is the VM still there?" *)
OnDescribe(k) ==
  /\ calls[k].kind = "describe"
  /\ calls' = Freed(k)
  /\ IF calls[k].ans = "no" THEN vmGone(page) ELSE scheduleReconnect(page)
  /\ UNCHANGED <<socks, overlapped, bootLost>>

(* DELETE is over, whatever became of it. *)
OnDeleted(k) ==
  /\ calls[k].kind = "delete"
  /\ boot([page EXCEPT !.sessionId = 0], Freed(k))

Callback(k) ==
  /\ calls[k].ans \in {"yes", "no", "error"}
  /\ OnCurrent(k) \/ OnPost(k) \/ OnDescribe(k) \/ OnDeleted(k)
  /\ UNCHANGED <<serverVars, budgets>>

(* An onclose that does not ask. *)
OnCloseGivesUp(s) ==
  /\ socks[s].at = "closed"
  /\ socks' = [socks EXCEPT ![s] = FreeSocket]
  /\ IF page.closing \/ socks[s].reason # "vm exited"
       THEN page' = [page EXCEPT !.ws = 0]
       ELSE vmGone([page EXCEPT !.ws = 0])
  /\ UNCHANGED <<calls, serverVars, overlapped, bootLost, budgets>>

OnClose(s) ==
  /\ socks[s].at = "closed"
  /\ socks' = [socks EXCEPT ![s] = FreeSocket]
  /\ LET p == [page EXCEPT !.ws = 0]
     IN  CASE page.closing -> page' = p /\ UNCHANGED calls
           [] ~page.closing /\ socks[s].reason = "vm exited" -> vmGone(p) /\ UNCHANGED calls
           [] OTHER -> page' = p /\ calls' = Placed(calls, "describe", page.sessionId)
  /\ UNCHANGED <<serverVars, overlapped, bootLost, budgets>>

(* The timer of scheduleReconnect. *)
Reconnect ==
  /\ page.timer
  /\ connect([page EXCEPT !.timer = FALSE])
  /\ UNCHANGED <<serverVars, calls, overlapped, bootLost, budgets>>

(* ws.close(): the socket waits for the server's close frame. *)
Closing == [socks EXCEPT ![page.ws].at = IF @ \in {"connecting", "open"} THEN "closing" ELSE @]

(* The "New VM" button. *)
ClickNewVM ==
  /\ Click
  /\ IF page.sessionId = 0
       THEN boot(page, calls)
       ELSE /\ page' = [page EXCEPT !.closing = TRUE, !.timer = FALSE]
            /\ socks' = IF page.ws = 0 THEN socks ELSE Closing
            /\ calls' = Placed(calls, "delete", page.sessionId)
            /\ UNCHANGED <<overlapped, bootLost>>
  /\ UNCHANGED serverVars

(* The button of the overlay. *)
ClickOverlay ==
  /\ page.overlay # "none" /\ Click
  /\ boot([page EXCEPT !.overlay = "none"], calls)
  /\ UNCHANGED serverVars

-----------------------------------------------------------------------------
(* What happens by itself: the server answers, a boot ends, the browser    *)
(* runs callbacks.                                                         *)
Progress ==
  \/ \E k \in Calls : Serve(k) \/ Created(k) \/ Callback(k) \/ (~up /\ Lost(k))
  \/ \E v \in VMs : Booted(v)
  \/ \E s \in Sockets : Opened(s) \/ OnClose(s)
  \/ \E s \in Sockets : socks[s].at # "open" /\ Breaks(s)
  \/ Reconnect

Next ==
  \/ \E k \in Calls : Serve(k) \/ Created(k) \/ Callback(k) \/ Lost(k)
  \/ \E s \in Sockets : Opened(s) \/ Breaks(s) \/ OnClose(s)
  \/ Reconnect \/ ClickNewVM \/ ClickOverlay
  \/ \E v \in VMs : Booted(v) \/ VMEnds(v) \/ OtherTab(v)
  \/ DaemonStops \/ DaemonStarts

Safety == Init /\ [][Next]_vars
Spec == Safety /\ WF_vars(Progress)

-----------------------------------------------------------------------------
(* Types; names for calls and sockets never run out. *)
TypeOK ==
  /\ live \subseteq 1..minted /\ booting \subseteq 1..minted /\ minted \in 0..MaxVMs
  /\ live \cap booting = {}
  /\ subscriber \in [VMs -> Sockets \cup {0, -1}]
  /\ page \in [sessionId: 0..MaxVMs, ws: Sockets \cup {0}, closing: BOOLEAN,
               attempts: Nat, timer: BOOLEAN,
               overlay: {"none", "gone", "bootfailed"}]
  /\ \E k \in Calls : calls[k] = FreeCall
  /\ \E s \in Sockets : socks[s] = FreeSocket
  /\ \A s \in Sockets : socks[s].at # "free" => socks[s].vm \in VMs

Open(s) == s # 0 /\ socks[s].at = "open"

(* Nothing is in flight and no timer runs: the page waits for its visitor. *)
Settled ==
  /\ \A k \in Calls : calls[k] = FreeCall
  /\ \A s \in Sockets : socks[s].at \in {"free", "open"}
  /\ ~page.timer

(* When everything in flight has arrived, a page that shows no overlay is  *)
(* a working terminal: what is typed goes to its live VM and what the VM   *)
(* writes is shown, unless another tab took the console over.  A boot()    *)
(* whose fetch failed is the exception: it leaves the page as it is.       *)
SettledPageWorks ==
  Settled /\ page.overlay = "none" /\ ~bootLost
    => /\ page.sessionId \in live
       /\ Open(page.ws) /\ socks[page.ws].vm = page.sessionId
       /\ subscriber[page.sessionId] = -1 \/ Open(subscriber[page.sessionId])

(* What is typed never goes to another VM than the page's current one. *)
InputGoesToCurrent ==
  Open(page.ws) => page.sessionId \in {0, socks[page.ws].vm}

(* "Find a live VM or boot one": as long as one boot() runs at a time, and *)
(* no POST's fetch fails while its VM boots, the page's owner has at most  *)
(* one VM, live or booting, whatever else is lost, retried or answered     *)
(* late.  A VM whose fetch has failed is in no answer until it is up, so a *)
(* boot() meanwhile gets a second one.                                     *)
OneVMPerOwner == ~overlapped /\ ~orphaned => Cardinality(live \cup booting) <= 1

(* "Reconnect with backoff if so; otherwise offer a new one": a page never *)
(* keeps trying; it ends connected or with an overlay, or waits for a      *)
(* click.                                                                  *)
ComesToRest == <>[]Settled
=============================================================================
