------------------------- MODULE TerminalPageProofs -------------------------
(***************************************************************************)
(* Proofs about the terminal page, for every number of VMs, faults, clicks *)
(* and reconnection attempts.                                              *)
(*                                                                         *)
(* None of the three invariants is inductive.  PInv adds                   *)
(*   - that the names for fetches and sockets never run out: a callback    *)
(*     starts at most one thing, so at most one fetch, socket or timer is  *)
(*     in flight for loading the page and one for each click (OnePerClick);*)
(*   - that a boot() which asks for a VM does so when there is none, live  *)
(*     or booting, and that a VM that boots has its POST waiting, so the   *)
(*     next boot() would overlap that one (OneBoot);                       *)
(*   - which of the page's facts the server's state backs: an open socket  *)
(*     is to a live VM, the console of a live VM is held by a socket that  *)
(*     is still attached to it, and a page whose socket was displaced has  *)
(*     an onclose coming (AttachedToLive, OutputComes);                    *)
(*   - what the page is waiting for: a closing page for its DELETE, a page *)
(*     without a VM for its boot(), and every page that shows no overlay   *)
(*     for a fetch, a timer or its socket (ClosingDeletes, NoVMBoots,      *)
(*     WaitsOrWorks).                                                      *)
(* The handlers are first restated with a name in place of Fresh, one      *)
(* effect per branch (Step); each conjunct then has its own lemma.         *)
(***************************************************************************)
EXTENDS TerminalPage, FiniteSetTheorems, WellFoundedInduction, TLAPS

(* Zenon first, with more time than the default; leaves that need          *)
(* arithmetic are marked for SMT.                                          *)
USE ZenonT(60), SMTT(60)

(* The values a fetch, a socket and the page's variables have. *)
Call == [kind: {"free", "current", "post", "describe", "delete"}, id: 0..MaxVMs,
         ans: {"none", "sent", "booting", "yes", "no", "error"}]
Socket == [at: {"free", "connecting", "open", "closing", "closed"}, vm: 0..MaxVMs,
           reason: {"", "vm exited"}]
Page == [sessionId: 0..MaxVMs, ws: Sockets \cup {0}, closing: BOOLEAN,
         attempts: Nat, timer: BOOLEAN, overlay: {"none", "gone", "bootfailed"}]

(* A boot() that found or made a VM knows its number; only a POST waits    *)
(* for a VM to boot.                                                       *)
CallOK(c) ==
  /\ c.kind = "free" => c = FreeCall
  /\ c.kind \in {"current", "post"} /\ c.ans = "yes" => c.id # 0
  /\ c.ans = "booting" => c.kind = "post" /\ c.id # 0

(* A socket is to a VM. *)
SocketOK(s) ==
  /\ s.at = "free" => s = FreeSocket
  /\ s.at # "free" => s.vm # 0

CallShapes(cs) == cs \in [Calls -> Call] /\ \A k \in Calls : CallOK(cs[k])
SocketShapes(ss) == ss \in [Sockets -> Socket] /\ \A s \in Sockets : SocketOK(ss[s])

(* Every variable has its type, and only VMs that were made are live or    *)
(* boot, none of them both.                                                *)
Shapes ==
  /\ live \subseteq 1..minted /\ booting \subseteq 1..minted /\ minted \in 0..MaxVMs
  /\ live \cap booting = {} /\ orphaned \in BOOLEAN
  /\ subscriber \in [VMs -> Sockets \cup {0, -1}]
  /\ up \in BOOLEAN /\ overlapped \in BOOLEAN /\ bootLost \in BOOLEAN
  /\ page \in Page
  /\ CallShapes(calls) /\ SocketShapes(socks)
  /\ clicks \in 0..MaxClicks /\ faults \in Nat

(* What is in flight: fetches, sockets, the timer. *)
BusyCalls == {k \in Calls : calls[k].kind # "free"}
BusySockets == {s \in Sockets : socks[s].at # "free"}
Timers == IF page.timer THEN 1 ELSE 0

(* One thing is in flight for loading the page and one for each click. *)
OnePerClick == Cardinality(BusyCalls) + Cardinality(BusySockets) + Timers <= 1 + clicks

(* The page's socket is one it has, for the page's VM. *)
SocketIsCurrent ==
  page.ws # 0 => /\ socks[page.ws].at # "free"
                 /\ page.sessionId \in {0, socks[page.ws].vm}

(* One boot() at a time asks for a VM only when there is none, and a VM    *)
(* that boots has its POST waiting.                                        *)
OneBoot ==
  ~overlapped /\ ~orphaned =>
    /\ \A k, l \in BootCalls(calls) : k = l
    /\ \A k \in BootCalls(calls) :
         calls[k].ans = (IF calls[k].kind = "post" THEN "sent" ELSE "no")
           => live \cup booting = {}
    /\ \A v \in booting : \E k \in BootCalls(calls) : calls[k].ans = "booting" /\ calls[k].id = v
    /\ \A v, w \in live \cup booting : v = w

(* What the server knows of the sockets. *)
AttachedToLive ==
  /\ \A s \in Sockets : socks[s].at = "open" => socks[s].vm \in live
  /\ \A v \in VMs : v > minted \/ v \in booting => subscriber[v] = 0
  /\ \A v \in live : subscriber[v] \in Sockets =>
       socks[subscriber[v]].at \in {"open", "closing"} /\ socks[subscriber[v]].vm = v

(* The page's open socket gets the output, or a socket's onclose is due,   *)
(* which will make the page connect anew.                                  *)
OutputComes ==
  Open(page.ws) => \/ subscriber[socks[page.ws].vm] # 0
                   \/ \E s \in Sockets : socks[s].at = "closed"

(* What the page waits for. *)
ClosingDeletes == page.closing => \E k \in Calls : calls[k].kind = "delete"
NoVMBoots ==
  page.sessionId = 0 /\ page.overlay = "none" /\ ~bootLost => BootCalls(calls) # {}
WaitsOrWorks ==
  page.overlay = "none" /\ ~bootLost => BusyCalls # {} \/ page.timer \/ page.ws # 0

(* The inductive invariant. *)
PInv ==
  /\ Shapes /\ OnePerClick /\ SocketIsCurrent /\ OneBoot
  /\ AttachedToLive /\ OutputComes /\ ClosingDeletes /\ NoVMBoots /\ WaitsOrWorks
-----------------------------------------------------------------------------
(* Every set of numbers has a least one: the order on Nat is well founded. *)
LEMMA LeastNumber ==
  ASSUME NEW T, T \subseteq Nat, T # {}
  PROVE  \E x \in T : \A y \in T : x <= y
<1>1. PICK x \in T : \A y \in T : ~(<<y, x>> \in OpToRel(<, Nat))
  BY NatLessThanWellFounded, WFMin
<1>2. \A y \in T : <<y, x>> \in OpToRel(<, Nat) <=> y < x
  BY DEF OpToRel
<1>3. \A y \in T : x \in Nat /\ y \in Nat /\ ~(y < x)
  BY <1>1, <1>2
<1> QED BY <1>3, SMTT(60)

(* Fresh finds a free name when there is one. *)
LEMMA FreshName ==
  ASSUME NEW f, NEW free, DOMAIN f \subseteq Nat, NEW m \in DOMAIN f, f[m] = free
  PROVE  Fresh(f, free) \in DOMAIN f /\ f[Fresh(f, free)] = free
<1> DEFINE T == {n \in DOMAIN f : f[n] = free}
<1>1. \E x \in T : \A y \in T : x <= y
  BY LeastNumber
<1>2. Min(T) \in T
  BY <1>1 DEF Min
<1> QED BY <1>2 DEF Fresh

(* sessions/current: the newest live VM is one of them. *)
LEMMA NewestIsLive == ASSUME Shapes, live # {} PROVE Max(live) \in live
<1> DEFINE T == {MaxVMs - v : v \in live}
<1>1. MaxVMs \in Nat /\ \A v \in live : v \in 1..MaxVMs
  BY PageAssumption, SMTT(60) DEF Shapes
<1>2. T \subseteq Nat /\ T # {}
  BY <1>1
<1>3. PICK x \in T : \A y \in T : x <= y
  BY <1>2, LeastNumber
<1>4. PICK v \in live : x = MaxVMs - v
  OBVIOUS
<1>5. \A w \in live : v >= w
  <2> TAKE w \in live
  <2>1. MaxVMs - v <= MaxVMs - w
    BY <1>3, <1>4
  <2>2. v \in Int /\ w \in Int /\ MaxVMs \in Int
    BY <1>1
  <2> QED BY <2>1, <2>2
<1> QED BY <1>5 DEF Max

(* What is in flight can be counted. *)
CountTypes ==
  /\ IsFiniteSet(BusyCalls) /\ Cardinality(BusyCalls) \in Nat
  /\ IsFiniteSet(BusySockets) /\ Cardinality(BusySockets) \in Nat
  /\ Timers \in {0, 1}

(* There are finitely many, since there are finitely many names. *)
LEMMA Counts == CountTypes
<1>1. BusyCalls \in SUBSET Calls /\ BusySockets \in SUBSET Sockets
  BY DEF BusyCalls, BusySockets
<1>2. IsFiniteSet(BusyCalls) /\ IsFiniteSet(BusySockets)
  BY <1>1, PageAssumption, FS_Subset
<1> QED BY <1>2, FS_CardinalityType DEF CountTypes, Timers

(* There are more names than things in flight. *)
LEMMA NamesLeft ==
  ASSUME Shapes, OnePerClick
  PROVE  (\E k \in Calls : calls[k] = FreeCall) /\ (\E s \in Sockets : socks[s] = FreeSocket)
<1>1. CountTypes
  BY Counts
<1>2. clicks \in Nat /\ clicks <= MaxClicks /\ MaxClicks \in Nat /\ Timers \in {0, 1}
  BY PageAssumption, SMTT(60) DEF Shapes, Timers
<1>3. Cardinality(BusyCalls) <= MaxClicks + 1 /\ Cardinality(BusySockets) <= MaxClicks + 1
  BY <1>1, <1>2, SMTT(60) DEF OnePerClick, CountTypes
<1>4. Cardinality(Calls) \in Nat /\ Cardinality(Sockets) \in Nat
  BY PageAssumption, FS_CardinalityType
<1>5. BusyCalls # Calls /\ BusySockets # Sockets
  <2>1. MaxClicks \in Nat /\ Cardinality(Calls) > MaxClicks + 1 /\ Cardinality(Sockets) > MaxClicks + 1
    BY PageAssumption
  <2> QED BY <1>3, <1>4, <2>1
<1>6. (\E k \in Calls : calls[k].kind = "free") /\ (\E s \in Sockets : socks[s].at = "free")
  BY <1>5 DEF BusyCalls, BusySockets
<1> QED BY <1>6 DEF Shapes, CallShapes, SocketShapes, CallOK, SocketOK

-----------------------------------------------------------------------------
(* The steps, with the names that Fresh finds. *)
Placement(cs, kind, id) ==
  \E n \in Calls : cs[n] = FreeCall /\ calls' = [cs EXCEPT ![n] = Request(kind, id)]

(* A new socket for the page's VM. *)
Connection(p) ==
  \/ p.sessionId = 0 /\ page' = p /\ socks' = socks
  \/ /\ p.sessionId # 0
     /\ \E s \in Sockets :
          /\ socks[s] = FreeSocket
          /\ socks' = [socks EXCEPT ![s] = [at |-> "connecting", vm |-> p.sessionId, reason |-> ""]]
          /\ page' = [p EXCEPT !.ws = s]

(* boot(), with the page and the fetches it starts from. *)
Booting(p, cs) ==
  /\ page' = [p EXCEPT !.closing = FALSE, !.attempts = 0]
  /\ Placement(cs, "current", 0)
  /\ overlapped' = (overlapped \/ BootCalls(cs) # {})
  /\ bootLost' = FALSE /\ UNCHANGED <<socks, serverVars>>

(* The server has answered k, or the answer is lost. *)
Reply(k, id, ans) ==
  /\ calls' \in [Calls -> Call]
  /\ calls'[k].kind = calls[k].kind /\ calls'[k].id = id /\ calls'[k].ans = ans
  /\ \A l \in Calls \ {k} : calls'[l] = calls[l]

Served(k) ==
  /\ calls[k].ans = "sent"
  /\ \E id \in 0..MaxVMs, ans \in {"yes", "no", "booting"} :
       /\ Reply(k, id, ans)
       /\ \/ /\ calls[k].kind = "current" /\ ans = (IF live = {} THEN "no" ELSE "yes")
             /\ ans = "yes" => id # 0
             /\ UNCHANGED <<hostVars, socks>>
          \/ /\ calls[k].kind = "post" /\ ans = "booting" /\ id = minted + 1 /\ minted < MaxVMs
             /\ minted' = minted + 1 /\ booting' = booting \cup {minted + 1}
             /\ UNCHANGED <<live, socks>>
          \/ /\ calls[k].kind = "post" /\ ans = "no" /\ UNCHANGED <<hostVars, socks>>
          \/ calls[k].kind = "describe" /\ ans # "booting" /\ UNCHANGED <<hostVars, socks>>
          \/ calls[k].kind = "delete" /\ ans # "booting" /\ UNCHANGED <<hostVars, socks>>
          \/ /\ calls[k].kind = "delete" /\ ans # "booting" /\ VMExits(id)
             /\ UNCHANGED <<booting, minted>>
  /\ clicks' = clicks /\ faults' \in Nat
  /\ UNCHANGED <<orphaned, subscriber, up, page, overlapped, bootLost>>

(* Fetches that waited for a VM are answered, or fail, without one. *)
Woken ==
  /\ calls' \in [Calls -> Call]
  /\ \A l \in Calls :
       \/ calls'[l] = calls[l]
       \/ /\ calls[l].ans = "booting" /\ calls'[l].kind = calls[l].kind
          /\ calls'[l].ans \in {"no", "error"}

(* The boot of v is over. *)
BootOver(v) ==
  /\ v \in booting /\ booting' = booting \ {v} /\ Woken
  /\ \/ live' = live \cup {v} /\ calls' = calls
     \/ live' = live
  /\ clicks' = clicks /\ faults' \in Nat
  /\ UNCHANGED <<minted, orphaned, subscriber, up, page, socks, overlapped, bootLost>>

(* The POST k, whose boot is over, is answered. *)
PostOver(k) ==
  /\ calls[k].ans = "booting" /\ calls[k].id \notin booting
  /\ \E ans \in {"yes", "no"} : Reply(k, calls[k].id, ans)
  /\ UNCHANGED <<live, socks>> \/ VMExits(calls[k].id)
  /\ clicks' = clicks /\ faults' \in Nat
  /\ UNCHANGED <<booting, minted, orphaned, subscriber, up, page, overlapped, bootLost>>

Failed(k) ==
  /\ calls[k].kind # "free" /\ Reply(k, calls[k].id, "error")
  /\ orphaned' = (orphaned \/ (calls[k].ans = "booting" /\ calls[k].id \in booting))
  /\ clicks' = clicks /\ faults' \in Nat
  /\ UNCHANGED <<hostVars, subscriber, up, page, socks, overlapped, bootLost>>

(* What a callback does with the answer of k. *)
Reattach(k) ==
  /\ calls[k].kind \in {"current", "post"} /\ calls[k].ans = "yes"
  /\ Connection([page EXCEPT !.sessionId = calls[k].id])
  /\ calls' = Freed(k) /\ UNCHANGED <<serverVars, overlapped, bootLost, budgets>>
AskForVM(k) ==
  /\ calls[k].kind = "current" /\ calls[k].ans = "no"
  /\ calls' = [calls EXCEPT ![k] = Request("post", 0)]
  /\ UNCHANGED <<serverVars, page, socks, overlapped, bootLost, budgets>>
GiveUp(k) ==
  /\ calls[k].kind \in {"current", "post"} /\ calls[k].ans # "booting" /\ calls' = Freed(k)
  /\ \/ bootLost' = TRUE /\ page' = page
     \/ bootLost' = bootLost /\ page' = [page EXCEPT !.overlay = "bootfailed"]
  /\ UNCHANGED <<serverVars, socks, overlapped, budgets>>
Described(k) ==
  /\ calls[k].kind = "describe" /\ calls' = Freed(k)
  /\ \E a \in Nat : \/ page' = [page EXCEPT !.attempts = a, !.timer = TRUE]
                    \/ page' = [page EXCEPT !.attempts = a, !.overlay = "gone"]
  /\ UNCHANGED <<serverVars, socks, overlapped, bootLost, budgets>>
Deleted(k) ==
  /\ calls[k].kind = "delete" /\ Booting([page EXCEPT !.sessionId = 0], Freed(k))
  /\ UNCHANGED budgets
Closed(s) ==
  /\ socks[s].at = "closed" /\ socks' = [socks EXCEPT ![s] = FreeSocket]
  /\ \/ page.closing /\ page' = [page EXCEPT !.ws = 0] /\ calls' = calls
     \/ page' = [page EXCEPT !.ws = 0, !.overlay = "gone"] /\ calls' = calls
     \/ page' = [page EXCEPT !.ws = 0] /\ Placement(calls, "describe", page.sessionId)
  /\ UNCHANGED <<serverVars, overlapped, bootLost, budgets>>
Retry ==
  /\ page.timer /\ Connection([page EXCEPT !.timer = FALSE])
  /\ UNCHANGED <<serverVars, calls, overlapped, bootLost, budgets>>
NewBoot ==
  /\ Click
  /\ \/ Booting(page, calls)
     \/ Booting([page EXCEPT !.overlay = "none"], calls)
NewVM ==
  /\ Click /\ page.sessionId # 0
  /\ page' = [page EXCEPT !.closing = TRUE, !.timer = FALSE]
  /\ socks' = IF page.ws = 0 THEN socks ELSE Closing
  /\ Placement(calls, "delete", page.sessionId)
  /\ UNCHANGED <<serverVars, overlapped, bootLost>>

(* All of them; the steps of sockets, VMs and the daemon are as they are.  *)
Step ==
  \/ \E k \in Calls : Served(k) \/ PostOver(k) \/ Failed(k)
  \/ \E s \in Sockets : Opened(s) \/ Breaks(s)
  \/ \E v \in VMs : BootOver(v) \/ VMEnds(v) \/ OtherTab(v)
  \/ DaemonStops \/ DaemonStarts
  \/ \E k \in Calls : Reattach(k) \/ AskForVM(k) \/ GiveUp(k) \/ Described(k) \/ Deleted(k)
  \/ \E s \in Sockets : Closed(s)
  \/ Retry \/ NewBoot \/ NewVM

(* boot() and connect() find names. *)
LEMMA PlacedIsPlacement ==
  ASSUME NEW cs \in [Calls -> Call], NEW m \in Calls, cs[m] = FreeCall, NEW kind, NEW id,
         calls' = Placed(cs, kind, id)
  PROVE  Placement(cs, kind, id)
<1>1. DOMAIN cs = Calls /\ Calls \subseteq Nat
  BY PageAssumption
<1>2. Fresh(cs, FreeCall) \in Calls /\ cs[Fresh(cs, FreeCall)] = FreeCall
  BY <1>1, FreshName
<1> QED BY <1>2 DEF Placed, Placement

(* connect() opens one socket, under a free name, or none without a VM. *)
LEMMA ConnectIsConnection ==
  ASSUME Shapes, OnePerClick, NEW p, connect(p) PROVE Connection(p)
<1>1. DOMAIN socks = Sockets /\ Sockets \subseteq Nat
  BY PageAssumption DEF Shapes, SocketShapes
<1>2. PICK m \in Sockets : socks[m] = FreeSocket
  BY NamesLeft
<1>3. Fresh(socks, FreeSocket) \in Sockets /\ socks[Fresh(socks, FreeSocket)] = FreeSocket
  BY <1>1, <1>2, FreshName
<1> QED BY <1>3 DEF connect, Attached, Connection

(* boot() sends one fetch, under a free name. *)
LEMMA BootIsBooting ==
  ASSUME NEW cs \in [Calls -> Call], NEW m \in Calls, cs[m] = FreeCall, NEW p, boot(p, cs),
         UNCHANGED serverVars
  PROVE  Booting(p, cs)
<1>1. Placement(cs, "current", 0)
  BY PlacedIsPlacement DEF boot
<1> QED BY <1>1 DEF boot, Booting

(* What the server answers. *)
LEMMA Answers ==
  ASSUME Shapes, NEW k \in Calls, NEW id \in 0..MaxVMs, NEW ans \in {"yes", "no", "booting"},
         Answered(k, id, ans)
  PROVE  Reply(k, id, ans)
<1>1. calls \in [Calls -> Call] /\ calls[k] \in Call
  BY DEF Shapes, CallShapes
<1>2. calls' = [calls EXCEPT ![k].id = id, ![k].ans = ans]
  BY DEF Answered
<1>3. calls'[k].kind = calls[k].kind /\ calls'[k].id = id /\ calls'[k].ans = ans
  BY <1>1, <1>2 DEF Call
<1>4. \A l \in Calls \ {k} : calls'[l] = calls[l]
  BY <1>1, <1>2
<1>5. calls'[k] \in Call
  BY <1>1, <1>2 DEF Call
<1>6. calls' \in [Calls -> Call]
  BY <1>1, <1>2, <1>4, <1>5
<1> QED BY <1>3, <1>4, <1>6 DEF Reply

(* The daemon's handlers answer the fetch they serve, and no other. *)
LEMMA ServeIsServed ==
  ASSUME Shapes, NEW k \in Calls, Serve(k) PROVE Served(k)
<1>1. MaxVMs \in Nat /\ minted \in 0..MaxVMs /\ live \subseteq 1..MaxVMs /\ calls[k].id \in 0..MaxVMs
  BY PageAssumption, SMTT(60) DEF Shapes, CallShapes, Call
<1>2. ASSUME NEW id \in 0..MaxVMs, NEW ans \in {"yes", "no", "booting"}, Answered(k, id, ans)
      PROVE  Reply(k, id, ans)
  BY <1>2, Answers
<1>3. /\ calls[k].ans = "sent" /\ clicks \in Nat /\ faults \in Nat
      /\ UNCHANGED <<orphaned, subscriber, up, page, overlapped, bootLost>>
  BY PageAssumption, SMTT(60) DEF Serve, Shapes
<1>4. CASE Current(k)
  <2>1. UNCHANGED <<hostVars, socks>> /\ clicks' = clicks /\ faults' \in Nat
    BY <1>3, <1>4 DEF Current, budgets
  <2>2. CASE live = {}
    <3>2. 0 \in 0..MaxVMs
      BY <1>1
    <3>1. Reply(k, 0, "no") /\ calls[k].kind = "current"
      BY <1>2, <1>4, <2>2, <3>2 DEF Current
    <3> QED BY <1>3, <2>1, <2>2, <3>1, <3>2 DEF Served
  <2>3. CASE live # {}
    <3>2. Max(live) \in 0..MaxVMs /\ Max(live) # 0
      <4>1. Max(live) \in 1..MaxVMs
        BY <1>1, <2>3, NewestIsLive
      <4> QED BY <1>1, <4>1
    <3>1. Reply(k, Max(live), "yes") /\ calls[k].kind = "current"
      BY <1>2, <1>4, <2>3, <3>2 DEF Current
    <3> QED BY <1>3, <2>1, <2>3, <3>1, <3>2 DEF Served
  <2> QED BY <2>2, <2>3
<1>5. CASE Create(k)
  <2>1. clicks' = clicks /\ faults' \in Nat /\ calls[k].kind = "post" /\ UNCHANGED <<live, socks>>
    BY <1>3, <1>5 DEF Create, Fault, NoFault, budgets
  <2>2. CASE /\ minted < MaxVMs /\ minted' = minted + 1 /\ booting' = booting \cup {minted + 1}
             /\ Answered(k, minted + 1, "booting")
    <3>1. minted + 1 \in 0..MaxVMs
      BY <1>1, <2>2
    <3> QED BY <1>2, <1>3, <2>1, <2>2, <3>1 DEF Served
  <2>3. CASE Answered(k, 0, "no") /\ UNCHANGED <<booting, minted>>
    <3>1. 0 \in 0..MaxVMs
      BY <1>1
    <3> QED BY <1>2, <1>3, <2>1, <2>3, <3>1 DEF Served, hostVars
  <2> QED BY <1>5, <2>2, <2>3 DEF Create
<1>6. CASE Describe(k)
  <2>1. /\ UNCHANGED <<hostVars, socks>> /\ clicks' = clicks /\ faults' \in Nat
        /\ calls[k].kind = "describe"
    BY <1>3, <1>6 DEF Describe, budgets
  <2>2. \E ans \in {"yes", "no"} : Reply(k, calls[k].id, ans)
    BY <1>1, <1>2, <1>6 DEF Describe
  <2> QED BY <1>1, <1>3, <2>1, <2>2 DEF Served
<1>7. CASE Delete(k)
  <2>1. /\ clicks' = clicks /\ faults' \in Nat /\ UNCHANGED <<booting, minted>>
        /\ calls[k].kind = "delete" /\ Reply(k, calls[k].id, "yes")
        /\ VMExits(calls[k].id) \/ UNCHANGED <<live, socks>>
    BY <1>1, <1>2, <1>3, <1>7 DEF Delete, budgets
  <2> QED BY <1>1, <1>3, <2>1 DEF Served, hostVars
<1> QED BY <1>4, <1>5, <1>6, <1>7 DEF Serve

(* The answers to waiting fetches keep the types. *)
LEMMA WakesWaiting ==
  ASSUME CallShapes(calls), NEW ans \in {"no", "error"}, NEW S,
         calls' = [k \in Calls |-> IF calls[k].ans = "booting" /\ calls[k].id \in S
                                     THEN [calls[k] EXCEPT !.ans = ans] ELSE calls[k]]
  PROVE  Woken
<1>1. ASSUME NEW l \in Calls
      PROVE  /\ calls'[l] \in Call
             /\ \/ calls'[l] = calls[l]
                \/ /\ calls[l].ans = "booting" /\ calls'[l].kind = calls[l].kind
                   /\ calls'[l].ans \in {"no", "error"}
  <2>1. calls[l] \in Call
    BY DEF CallShapes
  <2>2. CASE calls[l].ans = "booting" /\ calls[l].id \in S
    <3>1. calls'[l] = [calls[l] EXCEPT !.ans = ans]
      BY <2>2
    <3> QED BY <2>1, <2>2, <3>1 DEF Call
  <2>3. CASE ~(calls[l].ans = "booting" /\ calls[l].id \in S)
    BY <2>1, <2>3
  <2> QED BY <2>2, <2>3
<1>2. calls' \in [Calls -> Call]
  BY <1>1
<1> QED BY <1>1, <1>2 DEF Woken

(* The end of a boot lists the VM, or tells the POST that waits. *)
LEMMA BootedIsOver ==
  ASSUME Shapes, NEW v \in VMs, Booted(v) PROVE BootOver(v)
<1>1. CallShapes(calls) /\ calls \in [Calls -> Call] /\ clicks \in Nat /\ faults \in Nat
  BY PageAssumption, SMTT(60) DEF Shapes, CallShapes
<1>2. CASE live' = live \cup {v} /\ UNCHANGED <<calls, budgets>>
  <2>1. Woken
    BY <1>1, <1>2 DEF Woken
  <2> QED BY <1>1, <1>2, <2>1 DEF Booted, BootOver, budgets
<1>3. CASE /\ Fault /\ UNCHANGED live
           /\ calls' = [k \in Calls |-> IF calls[k].ans = "booting" /\ calls[k].id = v
                                         THEN [calls[k] EXCEPT !.ans = "no"] ELSE calls[k]]
  <2>1. calls' = [k \in Calls |-> IF calls[k].ans = "booting" /\ calls[k].id \in {v}
                                    THEN [calls[k] EXCEPT !.ans = "no"] ELSE calls[k]]
    BY <1>3
  <2>2. Woken
    BY <1>1, <2>1, WakesWaiting
  <2>3. clicks' = clicks /\ faults' \in Nat
    BY <1>1, <1>3, SMTT(60) DEF Fault
  <2> QED BY <1>3, <2>2, <2>3 DEF Booted, BootOver
<1> QED BY <1>2, <1>3 DEF Booted

(* A POST whose boot is over is answered, and no other fetch. *)
LEMMA CreatedIsOver ==
  ASSUME Shapes, NEW k \in Calls, Created(k) PROVE PostOver(k)
<1>1. calls[k].id \in 0..MaxVMs /\ clicks \in Nat /\ faults \in Nat
  BY PageAssumption, SMTT(60) DEF Shapes, CallShapes, Call
<1>2. CASE Answered(k, calls[k].id, "yes") /\ UNCHANGED <<live, socks, budgets>>
  <2>1. Reply(k, calls[k].id, "yes")
    BY <1>1, <1>2, Answers
  <2> QED BY <1>1, <1>2, <2>1 DEF Created, PostOver, budgets
<1>3. CASE /\ Answered(k, calls[k].id, "no") /\ Fault
           /\ UNCHANGED <<live, socks>> \/ VMExits(calls[k].id)
  <2>1. Reply(k, calls[k].id, "no")
    BY <1>1, <1>3, Answers
  <2>2. clicks' = clicks /\ faults' \in Nat
    BY <1>1, <1>3, SMTT(60) DEF Fault
  <2> QED BY <1>3, <2>1, <2>2 DEF Created, PostOver
<1> QED BY <1>2, <1>3 DEF Created

(* The daemon's stop fails the fetches that wait for a VM. *)
LEMMA StopWakes ==
  ASSUME Shapes, DaemonStops PROVE Woken
<1>1. CallShapes(calls) /\ \A k \in Calls : calls[k].id \in 0..MaxVMs
  BY DEF Shapes, CallShapes, Call
<1>2. calls' = [k \in Calls |-> IF calls[k].ans = "booting" /\ calls[k].id \in 0..MaxVMs
                                  THEN [calls[k] EXCEPT !.ans = "error"] ELSE calls[k]]
  BY <1>1 DEF DaemonStops
<1> QED BY <1>1, <1>2, WakesWaiting

(* A lost answer makes the fetch fail, and changes nothing else. *)
LEMMA LostIsFailed ==
  ASSUME Shapes, NEW k \in Calls, Lost(k) PROVE Failed(k)
<1>1. Reply(k, calls[k].id, "error")
  <2>1. calls \in [Calls -> Call] /\ calls[k] \in Call
    BY DEF Shapes, CallShapes
  <2>2. calls' = [calls EXCEPT ![k].ans = "error"]
    BY DEF Lost
  <2>3. calls'[k].kind = calls[k].kind /\ calls'[k].id = calls[k].id /\ calls'[k].ans = "error"
    BY <2>1, <2>2 DEF Call
  <2>4. \A l \in Calls \ {k} : calls'[l] = calls[l]
    BY <2>1, <2>2
  <2>5. calls'[k] \in Call
    BY <2>1, <2>2 DEF Call
  <2> QED BY <2>1, <2>2, <2>3, <2>4, <2>5 DEF Reply
<1>2. clicks' = clicks /\ faults' \in Nat
  BY PageAssumption, SMTT(60) DEF Lost, Fault, NoFault, budgets, Shapes
<1> QED BY <1>1, <1>2 DEF Lost, Failed

(* Every step of the page and of its server is one of these. *)
LEMMA NextIsStep ==
  ASSUME Shapes, OnePerClick, Next PROVE Step
<1>1. PICK m \in Calls : calls[m] = FreeCall
  BY NamesLeft
<1>t. calls \in [Calls -> Call] /\ page \in Page /\ MaxReconnects \in Nat
  BY PageAssumption DEF Shapes, CallShapes
<1>2. ASSUME NEW k \in Calls, Callback(k)
      PROVE  Reattach(k) \/ AskForVM(k) \/ GiveUp(k) \/ Described(k) \/ Deleted(k)
  <2>1. CASE OnCurrent(k)
    <3>1. CASE calls[k].ans = "yes"
      <4>1. connect([page EXCEPT !.sessionId = calls[k].id])
        BY <2>1, <3>1 DEF OnCurrent
      <4>2. Connection([page EXCEPT !.sessionId = calls[k].id])
        BY <4>1, ConnectIsConnection
      <4> QED BY <1>2, <2>1, <3>1, <4>2 DEF OnCurrent, Callback, Reattach
    <3>2. CASE calls[k].ans = "no"
      BY <1>2, <2>1, <3>2 DEF OnCurrent, Callback, AskForVM
    <3>3. CASE calls[k].ans = "error"
      BY <1>2, <2>1, <3>3 DEF OnCurrent, Callback, GiveUp
    <3> QED BY <2>1, <3>1, <3>2, <3>3 DEF OnCurrent
  <2>2. CASE OnPost(k)
    <3>1. CASE calls[k].ans = "yes"
      <4>1. connect([page EXCEPT !.sessionId = calls[k].id])
        BY <2>2, <3>1 DEF OnPost
      <4>2. Connection([page EXCEPT !.sessionId = calls[k].id])
        BY <4>1, ConnectIsConnection
      <4> QED BY <1>2, <2>2, <3>1, <4>2 DEF OnPost, Callback, Reattach
    <3>2. CASE calls[k].ans \in {"no", "error"}
      BY <1>2, <2>2, <3>2 DEF OnPost, Callback, GiveUp
    <3> QED BY <2>2, <3>1, <3>2 DEF OnPost
  <2>3. CASE OnDescribe(k)
    <3>1. page.attempts \in Nat /\ page.attempts + 1 \in Nat
      BY <1>t, SMTT(60) DEF Page
    <3>2. \E a \in Nat : \/ page' = [page EXCEPT !.attempts = a, !.timer = TRUE]
                        \/ page' = [page EXCEPT !.attempts = a, !.overlay = "gone"]
      <4>1. CASE vmGone(page)
        <5>1. page' = [page EXCEPT !.attempts = page.attempts, !.overlay = "gone"]
          BY <1>t, <4>1 DEF vmGone, Page
        <5> QED BY <3>1, <5>1
      <4>2. CASE scheduleReconnect(page)
        <5>1. \/ page' = [page EXCEPT !.attempts = page.attempts + 1, !.timer = TRUE]
              \/ page' = [page EXCEPT !.attempts = page.attempts + 1, !.overlay = "gone"]
          BY <4>2 DEF vmGone, scheduleReconnect
        <5> QED BY <3>1, <5>1
      <4> QED BY <2>3, <4>1, <4>2 DEF OnDescribe
    <3> QED BY <1>2, <2>3, <3>2 DEF OnDescribe, Callback, Described
  <2>4. CASE OnDeleted(k)
    <3>1. Freed(k) \in [Calls -> Call] /\ Freed(k)[k] = FreeCall
      BY <1>t, PageAssumption, SMTT(60) DEF Freed, Call, FreeCall
    <3>2. Booting([page EXCEPT !.sessionId = 0], Freed(k))
      BY <1>2, <2>4, <3>1, BootIsBooting DEF OnDeleted, Callback
    <3> QED BY <1>2, <2>4, <3>2 DEF OnDeleted, Callback, Deleted
  <2> QED BY <1>2, <2>1, <2>2, <2>3, <2>4 DEF Callback
<1>3. ASSUME NEW s \in Sockets, OnClose(s) PROVE Closed(s)
  <2>1. CASE page.closing
    BY <1>3, <2>1 DEF OnClose, Closed
  <2>2. CASE ~page.closing /\ socks[s].reason = "vm exited"
    <3>1. vmGone([page EXCEPT !.ws = 0]) /\ UNCHANGED calls
      BY <1>3, <2>2 DEF OnClose
    <3>2. page' = [page EXCEPT !.ws = 0, !.overlay = "gone"]
      BY <3>1 DEF vmGone
    <3> QED BY <1>3, <3>1, <3>2 DEF OnClose, Closed
  <2>3. CASE ~page.closing /\ socks[s].reason # "vm exited"
    <3>1. page' = [page EXCEPT !.ws = 0] /\ calls' = Placed(calls, "describe", page.sessionId)
      BY <1>3, <2>3 DEF OnClose
    <3>2. Placement(calls, "describe", page.sessionId)
      BY <1>1, <1>t, <3>1, PlacedIsPlacement
    <3> QED BY <1>3, <3>1, <3>2 DEF OnClose, Closed
  <2> QED BY <2>1, <2>2, <2>3
<1>4. CASE Reconnect
  <2>1. Connection([page EXCEPT !.timer = FALSE])
    BY <1>4, ConnectIsConnection DEF Reconnect
  <2>2. Retry
    BY <1>4, <2>1 DEF Reconnect, Retry
  <2> QED BY <2>2 DEF Step
<1>5. CASE ClickNewVM
  <2>1. CASE page.sessionId = 0
    <3>1. Booting(page, calls)
      BY <1>1, <1>t, <1>5, <2>1, BootIsBooting DEF ClickNewVM
    <3>2. NewBoot
      BY <1>5, <3>1 DEF ClickNewVM, NewBoot
    <3> QED BY <3>2 DEF Step
  <2>2. CASE page.sessionId # 0
    <3>1. Placement(calls, "delete", page.sessionId)
      BY <1>1, <1>t, <1>5, <2>2, PlacedIsPlacement DEF ClickNewVM
    <3>2. NewVM
      BY <1>5, <2>2, <3>1 DEF ClickNewVM, NewVM
    <3> QED BY <3>2 DEF Step
  <2> QED BY <2>1, <2>2
<1>6. CASE ClickOverlay
  <2>1. Booting([page EXCEPT !.overlay = "none"], calls)
    BY <1>1, <1>t, <1>6, BootIsBooting DEF ClickOverlay
  <2>2. NewBoot
    BY <1>6, <2>1 DEF ClickOverlay, NewBoot
  <2> QED BY <2>2 DEF Step
<1> QED BY <1>2, <1>3, <1>4, <1>5, <1>6, ServeIsServed, CreatedIsOver, BootedIsOver,
           LostIsFailed DEF Next, Step
-----------------------------------------------------------------------------
(* The types of what a step makes. *)
LEMMA Parts ==
  /\ MaxVMs \in Nat /\ 0 \in 0..MaxVMs
  /\ FreeCall \in Call /\ CallOK(FreeCall) /\ FreeCall.kind = "free"
  /\ FreeSocket \in Socket /\ SocketOK(FreeSocket) /\ FreeSocket.at = "free"
  /\ \A kind \in {"current", "post", "describe", "delete"}, id \in 0..MaxVMs :
       /\ Request(kind, id) \in Call /\ CallOK(Request(kind, id))
       /\ Request(kind, id).kind = kind /\ Request(kind, id).ans = "sent"
<1>1. MaxVMs \in Nat /\ 0 \in 0..MaxVMs
  BY PageAssumption
<1>2. FreeCall \in Call /\ CallOK(FreeCall) /\ FreeCall.kind = "free"
  BY <1>1 DEF FreeCall, Call, CallOK
<1>3. FreeSocket \in Socket /\ SocketOK(FreeSocket) /\ FreeSocket.at = "free"
  BY <1>1 DEF FreeSocket, Socket, SocketOK
<1>4. ASSUME NEW kind \in {"current", "post", "describe", "delete"}, NEW id \in 0..MaxVMs
      PROVE  /\ Request(kind, id) \in Call /\ CallOK(Request(kind, id))
             /\ Request(kind, id).kind = kind /\ Request(kind, id).ans = "sent"
  BY DEF Request, Call, CallOK
<1> QED BY <1>1, <1>2, <1>3, <1>4

(* One call is replaced by another. *)
LEMMA CallSet ==
  ASSUME NEW cs, CallShapes(cs), NEW n \in Calls, NEW c \in Call, CallOK(c)
  PROVE  /\ CallShapes([cs EXCEPT ![n] = c])
         /\ \A l \in Calls : [cs EXCEPT ![n] = c][l] = IF l = n THEN c ELSE cs[l]
  BY DEF CallShapes

(* So does a socket. *)
LEMMA SocketSet ==
  ASSUME NEW ss, SocketShapes(ss), NEW n \in Sockets, NEW c \in Socket, SocketOK(c)
  PROVE  /\ SocketShapes([ss EXCEPT ![n] = c])
         /\ \A l \in Sockets : [ss EXCEPT ![n] = c][l] = IF l = n THEN c ELSE ss[l]
  BY DEF SocketShapes

(* A fetch is sent. *)
Sends(cs, n, kind) ==
  /\ n \in Calls /\ cs[n].kind = "free" /\ calls'[n].kind = kind /\ calls'[n].ans = "sent"
  /\ \A l \in Calls \ {n} : calls'[l] = cs[l]

(* A fetch under a free name is sent, and the others are left alone. *)
LEMMA PlacementSends ==
  ASSUME NEW cs, CallShapes(cs), NEW kind \in {"current", "post", "describe", "delete"},
         NEW id \in 0..MaxVMs, Placement(cs, kind, id)
  PROVE  CallShapes(calls') /\ \E n : Sends(cs, n, kind)
<1>1. PICK n \in Calls : cs[n] = FreeCall /\ calls' = [cs EXCEPT ![n] = Request(kind, id)]
  BY DEF Placement
<1>2. /\ CallShapes(calls')
      /\ \A l \in Calls : calls'[l] = IF l = n THEN Request(kind, id) ELSE cs[l]
  <2>1. Request(kind, id) \in Call /\ CallOK(Request(kind, id))
    BY Parts
  <2>2. PICK c \in Call : c = Request(kind, id) /\ CallOK(c)
    BY <2>1
  <2>3. /\ CallShapes([cs EXCEPT ![n] = c])
        /\ \A l \in Calls : [cs EXCEPT ![n] = c][l] = IF l = n THEN c ELSE cs[l]
    BY <2>2, CallSet, SMTT(60)
  <2> QED BY <1>1, <2>2, <2>3
<1>3. Sends(cs, n, kind)
  BY <1>1, <1>2, Parts, SMTT(60) DEF Sends
<1> QED BY <1>2, <1>3

(* A callback has run. *)
LEMMA FreedFrees ==
  ASSUME CallShapes(calls), NEW k \in Calls
  PROVE  /\ CallShapes(Freed(k)) /\ Freed(k)[k].kind = "free"
         /\ \A l \in Calls \ {k} : Freed(k)[l] = calls[l]
  BY CallSet, Parts, SMTT(60) DEF Freed

(* The server acts on sockets: they keep their VM, and none is freed. *)
Moved ==
  /\ SocketShapes(socks')
  /\ \A s \in Sockets : socks'[s].vm = socks[s].vm /\ (socks'[s].at = "free" <=> socks[s].at = "free")

(* The end of a VM closes the open sockets to it, and no other. *)
LEMMA EndedMoves ==
  ASSUME SocketShapes(socks), NEW v, socks' = Ended(v, socks)
  PROVE  /\ Moved
         /\ \A s \in Sockets :
              IF socks[s].vm = v /\ socks[s].at = "open" THEN socks'[s].at = "closed"
              ELSE socks'[s] = socks[s]
<1>1. socks \in [Sockets -> Socket] /\ \A s \in Sockets : SocketOK(socks[s])
  BY DEF SocketShapes
<1>2. ASSUME NEW s \in Sockets
      PROVE  /\ socks'[s] \in Socket /\ SocketOK(socks'[s]) /\ socks'[s].vm = socks[s].vm
             /\ socks'[s].at = "free" <=> socks[s].at = "free"
             /\ IF socks[s].vm = v /\ socks[s].at = "open" THEN socks'[s].at = "closed"
                ELSE socks'[s] = socks[s]
  <2>1. CASE socks[s].vm = v /\ socks[s].at = "open"
    <3>1. socks'[s] = [socks[s] EXCEPT !.at = "closed", !.reason = "vm exited"]
      BY <2>1 DEF Ended
    <3>2. socks[s] \in Socket /\ SocketOK(socks[s])
      BY <1>1
    <3> QED BY <2>1, <3>1, <3>2 DEF Socket, SocketOK
  <2>2. CASE ~(socks[s].vm = v /\ socks[s].at = "open")
    BY <1>1, <2>2 DEF Ended
  <2> QED BY <2>1, <2>2
<1>3. socks' \in [Sockets -> Socket]
  BY <1>2 DEF Ended
<1> QED BY <1>2, <1>3 DEF Moved, SocketShapes

(* One socket changes its state. *)
LEMMA AtMoves ==
  ASSUME SocketShapes(socks), NEW n \in Sockets, socks[n].at # "free",
         NEW at \in {"connecting", "open", "closing", "closed"}, NEW reason \in {"", "vm exited"},
         \/ socks' = [socks EXCEPT ![n].at = at]
         \/ socks' = [socks EXCEPT ![n].at = at, ![n].reason = reason]
  PROVE  Moved /\ socks'[n].at = at /\ \A s \in Sockets \ {n} : socks'[s] = socks[s]
<1>1. socks \in [Sockets -> Socket] /\ \A s \in Sockets : SocketOK(socks[s])
  BY DEF SocketShapes
<1>2. \A s \in Sockets \ {n} : socks'[s] = socks[s]
  BY <1>1
<1>3. socks'[n].at = at /\ socks'[n].vm = socks[n].vm /\ socks'[n].reason \in {"", "vm exited"}
  BY <1>1 DEF Socket
<1>4. socks'[n] \in Socket
  BY <1>1 DEF Socket
<1>5. socks' \in [Sockets -> Socket]
  BY <1>1, <1>2, <1>4
<1>6. SocketOK(socks'[n])
  BY <1>1, <1>3 DEF SocketOK
<1> QED BY <1>1, <1>2, <1>3, <1>5, <1>6 DEF Moved, SocketShapes

(* The stop of the daemon closes every open socket. *)
LEMMA StopMoves ==
  ASSUME Shapes, DaemonStops
  PROVE  Moved /\ \A s \in Sockets : IF socks[s].at = "open" THEN socks'[s].at = "closed"
                                     ELSE socks'[s] = socks[s]
<1>1. socks \in [Sockets -> Socket] /\ \A s \in Sockets : SocketOK(socks[s])
  BY DEF Shapes, SocketShapes
<1>2. PICK reason \in {"", "vm exited"} :
       socks' = [s \in Sockets |-> IF socks[s].at = "open"
                   THEN [socks[s] EXCEPT !.at = "closed", !.reason = reason] ELSE socks[s]]
  BY DEF DaemonStops
<1>3. ASSUME NEW s \in Sockets
      PROVE  /\ socks'[s] \in Socket /\ SocketOK(socks'[s]) /\ socks'[s].vm = socks[s].vm
             /\ socks'[s].at = "free" <=> socks[s].at = "free"
             /\ IF socks[s].at = "open" THEN socks'[s].at = "closed" ELSE socks'[s] = socks[s]
  <2>1. CASE socks[s].at = "open"
    <3>1. socks'[s] = [socks[s] EXCEPT !.at = "closed", !.reason = reason]
      BY <1>2, <2>1
    <3>2. socks[s] \in Socket /\ SocketOK(socks[s])
      BY <1>1
    <3> QED BY <2>1, <3>1, <3>2 DEF Socket, SocketOK
  <2>2. CASE socks[s].at # "open"
    BY <1>1, <1>2, <2>2
  <2> QED BY <2>1, <2>2
<1>4. socks' \in [Sockets -> Socket]
  BY <1>2, <1>3
<1> QED BY <1>3, <1>4 DEF Moved, SocketShapes
(* ws.close() *)
LEMMA ClosingMoves ==
  ASSUME SocketShapes(socks), page \in Page, socks' = IF page.ws = 0 THEN socks ELSE Closing
  PROVE  /\ Moved
         /\ \A s \in Sockets :
              IF s = page.ws /\ socks[s].at \in {"connecting", "open"} THEN socks'[s].at = "closing"
              ELSE socks'[s] = socks[s]
<1>1. CASE page.ws = 0
  BY <1>1, PageAssumption DEF Moved
<1>2. CASE page.ws # 0
  <2>1. page.ws \in Sockets /\ socks \in [Sockets -> Socket]
    BY <1>2 DEF Page, SocketShapes
  <2>2. CASE socks[page.ws].at \in {"connecting", "open"}
    <3>1. socks' = [socks EXCEPT ![page.ws].at = "closing"]
      BY <1>2, <2>1, <2>2 DEF Closing
    <3>2. socks[page.ws].at # "free"
      BY <2>2
    <3> QED BY <2>1, <2>2, <3>1, <3>2, AtMoves
  <2>3. CASE socks[page.ws].at \notin {"connecting", "open"}
    <3>1. socks' = [socks EXCEPT ![page.ws].at = socks[page.ws].at]
      BY <1>2, <2>1, <2>3 DEF Closing
    <3>2. socks' = socks
      BY <2>1, <3>1 DEF Socket
    <3> QED BY <2>3, <3>2 DEF Moved
  <2> QED BY <2>2, <2>3
<1> QED BY <1>1, <1>2

(* A socket is opened. *)
Attaches(p, s) ==
  /\ s \in Sockets /\ socks[s].at = "free" /\ p.sessionId # 0
  /\ socks'[s].at = "connecting" /\ socks'[s].vm = p.sessionId
  /\ \A r \in Sockets \ {s} : socks'[r] = socks[r]
  /\ page' = [p EXCEPT !.ws = s]

(* connect() attaches a new socket, or does nothing without a VM. *)
LEMMA ConnectionAttaches ==
  ASSUME SocketShapes(socks), NEW p \in Page, Connection(p)
  PROVE  /\ SocketShapes(socks') /\ page' \in Page
         /\ \/ p.sessionId = 0 /\ page' = p /\ socks' = socks
            \/ \E s : Attaches(p, s)
<1>1. CASE p.sessionId = 0 /\ page' = p /\ socks' = socks
  BY <1>1
<1>2. ASSUME p.sessionId # 0, NEW s \in Sockets, socks[s] = FreeSocket,
             socks' = [socks EXCEPT ![s] = [at |-> "connecting", vm |-> p.sessionId, reason |-> ""]],
             page' = [p EXCEPT !.ws = s]
      PROVE  SocketShapes(socks') /\ page' \in Page /\ Attaches(p, s)
  <2>1. p.sessionId \in 0..MaxVMs
    BY DEF Page
  <2> DEFINE c == [at |-> "connecting", vm |-> p.sessionId, reason |-> ""]
  <2>2. c \in Socket /\ c.at = "connecting" /\ c.vm = p.sessionId
    BY <2>1 DEF Socket
  <2>6. socks' = [socks EXCEPT ![s] = c]
    BY <1>2
  <2> HIDE DEF c
  <2>3. SocketOK(c)
    BY <1>2, <2>2 DEF SocketOK
  <2>4. /\ SocketShapes([socks EXCEPT ![s] = c])
        /\ \A r \in Sockets : [socks EXCEPT ![s] = c][r] = IF r = s THEN c ELSE socks[r]
    BY <2>2, <2>3, SocketSet, SMTT(60)
  <2>5. page' \in Page
    BY <1>2 DEF Page
  <2>7. socks[s].at = "free"
    BY <1>2, Parts
  <2> QED BY <1>2, <2>2, <2>4, <2>5, <2>6, <2>7 DEF Attaches
<1> QED BY <1>1, <1>2 DEF Connection

(* boot() has asked for the current VM. *)
LEMMA BootingSends ==
  ASSUME NEW p \in Page, NEW cs, CallShapes(cs), Booting(p, cs)
  PROVE  /\ CallShapes(calls') /\ page' \in Page
         /\ \E n : Sends(cs, n, "current")
         /\ page'.sessionId = p.sessionId /\ page'.ws = p.ws /\ page'.timer = p.timer
         /\ page'.overlay = p.overlay /\ page'.closing = FALSE
<1>1. CallShapes(calls') /\ \E n : Sends(cs, n, "current")
  <2>1. Placement(cs, "current", 0)
    BY DEF Booting
  <2>2. 0 \in 0..MaxVMs
    BY Parts
  <2> QED BY <2>1, <2>2, PlacementSends
<1>2. page' = [p EXCEPT !.closing = FALSE, !.attempts = 0]
  BY DEF Booting
<1>3. /\ page' \in Page
      /\ page'.sessionId = p.sessionId /\ page'.ws = p.ws /\ page'.timer = p.timer
      /\ page'.overlay = p.overlay /\ page'.closing = FALSE
  BY <1>2 DEF Page
<1> QED BY <1>1, <1>3

(* The page's variables in each step. *)
LEMMA PageShapes ==
  ASSUME page \in Page
  PROVE  /\ \A id \in 0..MaxVMs : [page EXCEPT !.sessionId = id] \in Page
         /\ [page EXCEPT !.timer = FALSE] \in Page
         /\ [page EXCEPT !.overlay = "none"] \in Page
         /\ [page EXCEPT !.overlay = "bootfailed"] \in Page
         /\ [page EXCEPT !.ws = 0] \in Page
         /\ [page EXCEPT !.ws = 0, !.overlay = "gone"] \in Page
         /\ [page EXCEPT !.closing = TRUE, !.timer = FALSE] \in Page
         /\ [page EXCEPT !.attempts = 0] \in Page
         /\ \A a \in Nat : /\ [page EXCEPT !.attempts = a, !.timer = TRUE] \in Page
                           /\ [page EXCEPT !.attempts = a, !.overlay = "gone"] \in Page
<1>1. /\ \A id \in 0..MaxVMs : [page EXCEPT !.sessionId = id] \in Page
      /\ [page EXCEPT !.timer = FALSE] \in Page
      /\ [page EXCEPT !.overlay = "none"] \in Page
      /\ [page EXCEPT !.overlay = "bootfailed"] \in Page
  BY DEF Page
<1>2. /\ [page EXCEPT !.ws = 0] \in Page
      /\ [page EXCEPT !.ws = 0, !.overlay = "gone"] \in Page
      /\ [page EXCEPT !.closing = TRUE, !.timer = FALSE] \in Page
      /\ [page EXCEPT !.attempts = 0] \in Page
  BY DEF Page
<1>3. \A a \in Nat : /\ [page EXCEPT !.attempts = a, !.timer = TRUE] \in Page
                    /\ [page EXCEPT !.attempts = a, !.overlay = "gone"] \in Page
  BY DEF Page
<1> QED BY <1>1, <1>2, <1>3
-----------------------------------------------------------------------------
(* Types are preserved. *)
LEMMA ShapesKept ==
  ASSUME Shapes, Step PROVE Shapes'
<1>1. /\ CallShapes(calls) /\ SocketShapes(socks) /\ page \in Page /\ clicks \in 0..MaxClicks
      /\ faults \in Nat /\ live \subseteq 1..minted /\ minted \in 0..MaxVMs
      /\ booting \subseteq 1..minted /\ live \cap booting = {} /\ orphaned \in BOOLEAN
      /\ subscriber \in [VMs -> Sockets \cup {0, -1}]
      /\ up \in BOOLEAN /\ overlapped \in BOOLEAN /\ bootLost \in BOOLEAN
  BY DEF Shapes
<1>2. MaxVMs \in Nat /\ MaxClicks \in Nat
  BY PageAssumption
<1>3. ASSUME Click PROVE clicks' \in 0..MaxClicks /\ faults' \in Nat
  BY <1>1, <1>2, <1>3, SMTT(60) DEF Click
<1>4. ASSUME Fault PROVE clicks' \in 0..MaxClicks /\ faults' \in Nat
  BY <1>1, <1>4, SMTT(60) DEF Fault
<1>5. ASSUME NEW k \in Calls, NEW id, NEW ans, Reply(k, id, ans), calls[k].kind # "free",
             calls[k].kind \in {"current", "post"} /\ ans = "yes" => id # 0,
             ans = "booting" => calls[k].kind = "post" /\ id # 0
      PROVE  CallShapes(calls')
  <2>1. calls' \in [Calls -> Call] /\ CallOK(calls'[k])
    BY <1>5 DEF Reply, CallOK
  <2>2. \A l \in Calls : CallOK(calls'[l])
    BY <1>1, <1>5, <2>1 DEF Reply, CallShapes
  <2> QED BY <2>1, <2>2 DEF CallShapes
<1>6. ASSUME NEW v, VMExits(v)
      PROVE  SocketShapes(socks') /\ live' \subseteq 1..minted /\ live' \cap booting = {}
  BY <1>1, <1>6, EndedMoves DEF VMExits, Moved
<1>w. ASSUME Woken PROVE CallShapes(calls')
  BY <1>1, <1>w DEF Woken, CallShapes, CallOK
<1>7. ASSUME NEW k \in Calls, Served(k) PROVE Shapes'
  <2>1. PICK id \in 0..MaxVMs, ans \in {"yes", "no", "booting"} :
       /\ Reply(k, id, ans)
       /\ \/ /\ calls[k].kind = "current" /\ ans = (IF live = {} THEN "no" ELSE "yes")
             /\ ans = "yes" => id # 0
             /\ UNCHANGED <<hostVars, socks>>
          \/ /\ calls[k].kind = "post" /\ ans = "booting" /\ id = minted + 1 /\ minted < MaxVMs
             /\ minted' = minted + 1 /\ booting' = booting \cup {minted + 1}
             /\ UNCHANGED <<live, socks>>
          \/ /\ calls[k].kind = "post" /\ ans = "no" /\ UNCHANGED <<hostVars, socks>>
          \/ calls[k].kind = "describe" /\ ans # "booting" /\ UNCHANGED <<hostVars, socks>>
          \/ calls[k].kind = "delete" /\ ans # "booting" /\ UNCHANGED <<hostVars, socks>>
          \/ /\ calls[k].kind = "delete" /\ ans # "booting" /\ VMExits(id)
             /\ UNCHANGED <<booting, minted>>
    BY <1>7 DEF Served
  <2>2. CallShapes(calls')
    <3>1. minted + 1 # 0
      BY <1>1, SMTT(60)
    <3>2. /\ calls[k].kind # "free"
          /\ calls[k].kind \in {"current", "post"} /\ ans = "yes" => id # 0
          /\ ans = "booting" => calls[k].kind = "post" /\ id # 0
      BY <2>1, <3>1
    <3> QED BY <1>5, <2>1, <3>2
  <2>3. SocketShapes(socks')
    BY <1>1, <1>6, <2>1
  <2>4. /\ live' \subseteq 1..minted' /\ booting' \subseteq 1..minted' /\ minted' \in 0..MaxVMs
        /\ live' \cap booting' = {}
    <3>1. CASE /\ minted' = minted + 1 /\ booting' = booting \cup {minted + 1} /\ minted < MaxVMs
               /\ live' = live
      <4>1. /\ 1..minted \subseteq 1..(minted + 1) /\ minted + 1 \in 1..(minted + 1)
            /\ minted + 1 \in 0..MaxVMs /\ minted + 1 \notin 1..minted
        BY <1>1, <1>2, <3>1, SMTT(60)
      <4> QED BY <1>1, <3>1, <4>1
    <3>2. CASE minted' = minted /\ booting' = booting /\ (live' = live \/ VMExits(id))
      BY <1>1, <1>6, <3>2
    <3> QED BY <2>1, <3>1, <3>2 DEF hostVars
  <2>5. /\ clicks' = clicks /\ faults' \in Nat
        /\ UNCHANGED <<orphaned, subscriber, up, page, overlapped, bootLost>>
    BY <1>7 DEF Served
  <2> QED BY <1>1, <2>2, <2>3, <2>4, <2>5 DEF Shapes
<1>b. ASSUME NEW v \in VMs, BootOver(v) PROVE Shapes'
  <2>1. CallShapes(calls')
    BY <1>b, <1>w DEF BootOver
  <2>2. live' \subseteq 1..minted /\ booting' \subseteq 1..minted /\ live' \cap booting' = {}
    BY <1>1, <1>b DEF BootOver
  <2> QED BY <1>1, <1>b, <2>1, <2>2 DEF BootOver, Shapes
<1>p. ASSUME NEW k \in Calls, PostOver(k) PROVE Shapes'
  <2>1. CallShapes(calls')
    <3>1. PICK ans \in {"yes", "no"} : Reply(k, calls[k].id, ans)
      BY <1>p DEF PostOver
    <3>2. calls[k].kind = "post" /\ calls[k].id # 0 /\ ans # "booting"
      BY <1>1, <1>p DEF PostOver, CallShapes, CallOK
    <3> QED BY <1>5, <3>1, <3>2
  <2>2. SocketShapes(socks') /\ live' \subseteq 1..minted /\ live' \cap booting = {}
    BY <1>1, <1>6, <1>p DEF PostOver
  <2> QED BY <1>1, <1>p, <2>1, <2>2 DEF PostOver, Shapes
<1>8. ASSUME NEW k \in Calls, Failed(k) PROVE Shapes'
  <2>1. CallShapes(calls')
    BY <1>5, <1>8 DEF Failed
  <2>2. orphaned' \in BOOLEAN
    BY <1>1, <1>8 DEF Failed
  <2> QED BY <1>1, <1>8, <2>1, <2>2 DEF Failed, Shapes, hostVars
<1>9. ASSUME NEW s \in Sockets, Opened(s) PROVE Shapes'
  <2>1. SocketShapes(socks')
    BY <1>1, <1>9, AtMoves DEF Opened, Moved
  <2>2. subscriber' \in [VMs -> Sockets \cup {0, -1}]
    BY <1>1, <1>9 DEF Opened
  <2>3. page' \in Page
    BY <1>1, <1>9, PageShapes DEF Opened
  <2> QED BY <1>1, <1>9, <2>1, <2>2, <2>3 DEF Opened, Shapes, budgets, hostVars
<1>10. ASSUME NEW s \in Sockets, Breaks(s) PROVE Shapes'
  <2>1. SocketShapes(socks')
    BY <1>1, <1>10, AtMoves DEF Breaks, Moved
  <2>2. subscriber' \in [VMs -> Sockets \cup {0, -1}]
    BY <1>1, <1>10 DEF Breaks, Detached
  <2>3. clicks' \in 0..MaxClicks /\ faults' \in Nat
    BY <1>1, <1>4, <1>10 DEF Breaks, NoFault, budgets
  <2> QED BY <1>1, <1>10, <2>1, <2>2, <2>3 DEF Breaks, Shapes, hostVars
<1>11. ASSUME NEW v \in VMs, VMEnds(v) PROVE Shapes'
  <2>1. /\ SocketShapes(socks') /\ live' \subseteq 1..minted /\ live' \cap booting = {}
        /\ clicks' \in 0..MaxClicks /\ faults' \in Nat
    BY <1>4, <1>6, <1>11 DEF VMEnds
  <2> QED BY <1>1, <1>11, <2>1 DEF VMEnds, Shapes
<1>12. ASSUME NEW v \in VMs, OtherTab(v) PROVE Shapes'
  <2>1. subscriber' \in [VMs -> Sockets \cup {0, -1}] /\ clicks' \in 0..MaxClicks /\ faults' \in Nat
    BY <1>1, <1>4, <1>12 DEF OtherTab
  <2> QED BY <1>1, <1>12, <2>1 DEF OtherTab, Shapes, hostVars
<1>13. CASE DaemonStops
  <2>1. SocketShapes(socks') /\ clicks' \in 0..MaxClicks /\ faults' \in Nat
    BY <1>4, <1>13, StopMoves DEF DaemonStops, Moved
  <2>2. subscriber' \in [VMs -> Sockets \cup {0, -1}] /\ live' = {} /\ booting' = {} /\ up' \in BOOLEAN
    BY <1>13 DEF DaemonStops
  <2>3. CallShapes(calls')
    BY <1>13, <1>w, StopWakes
  <2> QED BY <1>1, <1>13, <2>1, <2>2, <2>3 DEF DaemonStops, Shapes
<1>14. CASE DaemonStarts
  BY <1>1, <1>14 DEF DaemonStarts, Shapes, budgets, hostVars
<1>15. ASSUME NEW k \in Calls, Reattach(k) PROVE Shapes'
  <2>1. [page EXCEPT !.sessionId = calls[k].id] \in Page
    <3>1. calls[k].id \in 0..MaxVMs
      BY <1>1 DEF CallShapes, Call
    <3> QED BY <1>1, <3>1, PageShapes
  <2>2. SocketShapes(socks') /\ page' \in Page
    BY <1>1, <1>15, <2>1, ConnectionAttaches DEF Reattach
  <2>3. CallShapes(calls')
    BY <1>1, <1>15, FreedFrees DEF Reattach
  <2> QED BY <1>1, <1>15, <2>2, <2>3 DEF Reattach, Shapes, serverVars, hostVars, budgets
<1>16. ASSUME NEW k \in Calls, AskForVM(k) PROVE Shapes'
  <2>1. CallShapes(calls')
    BY <1>1, <1>16, CallSet, Parts DEF AskForVM
  <2> QED BY <1>1, <1>16, <2>1 DEF AskForVM, Shapes, serverVars, hostVars, budgets
<1>17. ASSUME NEW k \in Calls, GiveUp(k) PROVE Shapes'
  <2>1. CallShapes(calls')
    BY <1>1, <1>17, FreedFrees DEF GiveUp
  <2>2. page' \in Page /\ bootLost' \in BOOLEAN
    BY <1>1, <1>17, PageShapes DEF GiveUp
  <2> QED BY <1>1, <1>17, <2>1, <2>2 DEF GiveUp, Shapes, serverVars, hostVars, budgets
<1>18. ASSUME NEW k \in Calls, Described(k) PROVE Shapes'
  <2>1. CallShapes(calls')
    BY <1>1, <1>18, FreedFrees DEF Described
  <2>2. page' \in Page
    BY <1>1, <1>18, PageShapes DEF Described
  <2> QED BY <1>1, <1>18, <2>1, <2>2 DEF Described, Shapes, serverVars, hostVars, budgets
<1>19. ASSUME NEW p \in Page, NEW cs, CallShapes(cs), Booting(p, cs),
              clicks' \in 0..MaxClicks, faults' \in Nat
       PROVE  Shapes'
  <2>1. CallShapes(calls') /\ page' \in Page
    BY <1>19, BootingSends
  <2>2. overlapped' \in BOOLEAN /\ bootLost' \in BOOLEAN
    BY <1>1, <1>19 DEF Booting
  <2> QED BY <1>1, <1>19, <2>1, <2>2 DEF Booting, Shapes, serverVars, hostVars
<1>20. ASSUME NEW k \in Calls, Deleted(k) PROVE Shapes'
  <2>1. [page EXCEPT !.sessionId = 0] \in Page /\ CallShapes(Freed(k))
    BY <1>1, PageShapes, Parts, FreedFrees
  <2>2. Booting([page EXCEPT !.sessionId = 0], Freed(k)) /\ clicks' \in 0..MaxClicks /\ faults' \in Nat
    BY <1>1, <1>20 DEF Deleted, budgets
  <2> QED BY <1>19, <2>1, <2>2
<1>21. ASSUME NEW s \in Sockets, Closed(s) PROVE Shapes'
  <2>1. SocketShapes(socks')
    BY <1>1, <1>21, SocketSet, Parts DEF Closed
  <2>2. page' \in Page
    BY <1>1, <1>21, PageShapes DEF Closed
  <2>3. CallShapes(calls')
    <3>1. page.sessionId \in 0..MaxVMs
      BY <1>1 DEF Page
    <3>2. calls' = calls \/ Placement(calls, "describe", page.sessionId)
      BY <1>21 DEF Closed
    <3> QED BY <1>1, <3>1, <3>2, PlacementSends
  <2> QED BY <1>1, <1>21, <2>1, <2>2, <2>3 DEF Closed, Shapes, serverVars, hostVars, budgets
<1>22. CASE Retry
  <2>1. SocketShapes(socks') /\ page' \in Page
    BY <1>1, <1>22, PageShapes, ConnectionAttaches DEF Retry
  <2> QED BY <1>1, <1>22, <2>1 DEF Retry, Shapes, serverVars, hostVars, budgets
<1>23. CASE NewBoot
  BY <1>1, <1>3, <1>19, <1>23, PageShapes DEF NewBoot
<1>24. CASE NewVM
  <2>1. CallShapes(calls')
    <3>1. page.sessionId \in 0..MaxVMs
      BY <1>1 DEF Page
    <3> QED BY <1>1, <1>24, <3>1, PlacementSends DEF NewVM
  <2>2. SocketShapes(socks')
    BY <1>1, <1>24, ClosingMoves DEF NewVM, Moved
  <2>3. page' \in Page /\ clicks' \in 0..MaxClicks /\ faults' \in Nat
    BY <1>1, <1>3, <1>24, PageShapes DEF NewVM
  <2> QED BY <1>1, <1>24, <2>1, <2>2, <2>3 DEF NewVM, Shapes, serverVars, hostVars
<1> QED BY <1>7, <1>b, <1>p, <1>8, <1>9, <1>10, <1>11, <1>12, <1>13, <1>14, <1>15, <1>16, <1>17,
           <1>18, <1>20, <1>21, <1>22, <1>23, <1>24 DEF Step
-----------------------------------------------------------------------------
(* How the counts change. *)
LEMMA CountsNext == CountTypes'
  BY Counts, PTL

(* A callback ends a call, and a request adds one. *)
LEMMA EndsCall ==
  ASSUME NEW k \in BusyCalls, calls'[k].kind = "free", \A l \in Calls \ {k} : calls'[l] = calls[l]
  PROVE  Cardinality(BusyCalls)' = Cardinality(BusyCalls) - 1
<1>1. BusyCalls' = BusyCalls \ {k}
  BY DEF BusyCalls
<1>2. Cardinality(BusyCalls \ {k}) = Cardinality(BusyCalls) - 1
  BY Counts, FS_RemoveElement DEF CountTypes
<1> QED BY <1>1, <1>2

(* A fetch sent is one more in flight. *)
LEMMA AddsCall ==
  ASSUME NEW n, NEW kind \in {"current", "post", "describe", "delete"}, Sends(calls, n, kind)
  PROVE  Cardinality(BusyCalls)' = Cardinality(BusyCalls) + 1
<1>1. n \in Calls /\ n \notin BusyCalls /\ calls'[n].kind # "free"
  BY DEF Sends, BusyCalls
<1>2. BusyCalls' = BusyCalls \cup {n}
  BY <1>1 DEF BusyCalls, Sends
<1>3. Cardinality(BusyCalls \cup {n}) = Cardinality(BusyCalls) + 1
  BY <1>1, Counts, FS_AddElement DEF CountTypes
<1> QED BY <1>2, <1>3

(* The same names in use are the same number of fetches in flight... *)
LEMMA SameCalls ==
  ASSUME \A k \in Calls : calls'[k].kind = "free" <=> calls[k].kind = "free"
  PROVE  BusyCalls' = BusyCalls
  BY DEF BusyCalls

(* ... and of sockets. *)
LEMMA SameSockets ==
  ASSUME \A s \in Sockets : socks'[s].at = "free" <=> socks[s].at = "free"
  PROVE  BusySockets' = BusySockets
  BY DEF BusySockets

(* A socket opened is one more in flight. *)
LEMMA AddsSocket ==
  ASSUME NEW p, NEW s, Attaches(p, s)
  PROVE  Cardinality(BusySockets)' = Cardinality(BusySockets) + 1
<1>1. s \in Sockets /\ s \notin BusySockets /\ socks'[s].at # "free"
  BY DEF Attaches, BusySockets
<1>2. BusySockets' = BusySockets \cup {s}
  BY <1>1 DEF BusySockets, Attaches
<1>3. Cardinality(BusySockets \cup {s}) = Cardinality(BusySockets) + 1
  BY <1>1, Counts, FS_AddElement DEF CountTypes
<1> QED BY <1>2, <1>3

(* An onclose that has run is one socket less. *)
LEMMA EndsSocket ==
  ASSUME Shapes, NEW s \in Sockets, Closed(s)
  PROVE  Cardinality(BusySockets)' = Cardinality(BusySockets) - 1
<1>1. s \in BusySockets
  BY DEF Closed, BusySockets
<1>2. socks'[s].at = "free" /\ \A r \in Sockets \ {s} : socks'[r] = socks[r]
  BY SocketSet, Parts, SMTT(60) DEF Closed, Shapes
<1>3. BusySockets' = BusySockets \ {s}
  BY <1>1, <1>2 DEF BusySockets
<1>4. Cardinality(BusySockets \ {s}) = Cardinality(BusySockets) - 1
  BY <1>1, Counts, FS_RemoveElement DEF CountTypes
<1> QED BY <1>3, <1>4

(* The sum is preserved. *)
LEMMA SumKept ==
  ASSUME OnePerClick, clicks \in Nat, clicks' \in Nat, NEW a \in Int, NEW b \in Int, NEW c \in Int,
         Cardinality(BusyCalls)' = Cardinality(BusyCalls) + a,
         Cardinality(BusySockets)' = Cardinality(BusySockets) + b,
         Timers' <= Timers + c, a + b + c <= clicks' - clicks
  PROVE  OnePerClick'
<1>1. /\ Cardinality(BusyCalls) \in Nat /\ Cardinality(BusySockets) \in Nat
      /\ Timers \in Int /\ Timers' \in Int
  BY Counts, CountsNext DEF CountTypes
<1>2. Cardinality(BusyCalls) + Cardinality(BusySockets) + Timers <= 1 + clicks
  BY DEF OnePerClick
<1>3. (Cardinality(BusyCalls) + a) + (Cardinality(BusySockets) + b) + Timers' <= 1 + clicks'
  <2>1. \A x, y, t, u, d, e \in Int : x + y + t <= 1 + d /\ u <= t + c /\ a + b + c <= e - d
                                   => (x + a) + (y + b) + u <= 1 + e
    BY SMTT(60)
  <2>2. /\ Cardinality(BusyCalls) \in Int /\ Cardinality(BusySockets) \in Int
        /\ clicks \in Int /\ clicks' \in Int
    BY <1>1, SMTT(60)
  <2> QED BY <1>1, <1>2, <2>1, <2>2
<1> QED BY <1>3 DEF OnePerClick
(* What is in flight was started by the page or by a click. *)
LEMMA OnePerClickKept ==
  ASSUME Shapes, OnePerClick, Step, Shapes' PROVE OnePerClick'
<1>1. clicks \in Nat /\ clicks' \in Nat /\ CallShapes(calls) /\ SocketShapes(socks) /\ page \in Page
  BY PageAssumption, SMTT(60) DEF Shapes
<1>2. \A x \in Nat : x = x + 0
  BY SMTT(60)
<1>3. Cardinality(BusyCalls) \in Nat /\ Cardinality(BusySockets) \in Nat /\ Timers \in {0, 1} /\ Timers' \in {0, 1}
  BY Counts, CountsNext DEF CountTypes
<1>s. ASSUME \A k \in Calls : calls'[k].kind = "free" <=> calls[k].kind = "free"
      PROVE  Cardinality(BusyCalls)' = Cardinality(BusyCalls) + 0
  BY <1>2, <1>3, <1>s, SameCalls
<1>m. ASSUME \A s \in Sockets : socks'[s].at = "free" <=> socks[s].at = "free"
      PROVE  Cardinality(BusySockets)' = Cardinality(BusySockets) + 0
  BY <1>2, <1>3, <1>m, SameSockets
<1>t. ASSUME page'.timer = page.timer PROVE Timers' <= Timers + 0
  <2>1. Timers' = Timers
    BY <1>t DEF Timers
  <2> QED BY <1>3, <2>1, SMTT(60)
<1>n. 0 \in Int /\ 1 \in Int /\ -1 \in Int /\ 0 + 0 + 0 <= clicks - clicks
  BY <1>1, SMTT(60)
<1>4. ASSUME \A k \in Calls : calls'[k].kind = "free" <=> calls[k].kind = "free",
             \A s \in Sockets : socks'[s].at = "free" <=> socks[s].at = "free",
             page'.timer = page.timer, clicks' = clicks
      PROVE  OnePerClick'
  <2>1. Cardinality(BusyCalls)' = Cardinality(BusyCalls) + 0
    BY <1>4, <1>s
  <2>2. Cardinality(BusySockets)' = Cardinality(BusySockets) + 0
    BY <1>4, <1>m
  <2>3. Timers' <= Timers + 0 /\ 0 + 0 + 0 <= clicks' - clicks
    BY <1>4, <1>n, <1>t
  <2> QED BY <1>1, <1>n, <2>1, <2>2, <2>3, SumKept
<1>5. ASSUME NEW k \in Calls, NEW id, NEW ans, Reply(k, id, ans)
      PROVE  \A l \in Calls : calls'[l].kind = "free" <=> calls[l].kind = "free"
  BY <1>5 DEF Reply
<1>6. ASSUME Moved PROVE \A s \in Sockets : socks'[s].at = "free" <=> socks[s].at = "free"
  BY <1>6 DEF Moved
<1>7. ASSUME NEW k \in Calls, Served(k) PROVE OnePerClick'
  <2>1. \A l \in Calls : calls'[l].kind = "free" <=> calls[l].kind = "free"
    BY <1>5, <1>7 DEF Served
  <2>2. \A s \in Sockets : socks'[s].at = "free" <=> socks[s].at = "free"
    <3>1. socks' = socks \/ \E v : VMExits(v)
      BY <1>7 DEF Served
    <3> QED BY <1>1, <1>6, <3>1, EndedMoves DEF VMExits
  <2> QED BY <1>4, <1>7, <2>1, <2>2 DEF Served
<1>w. ASSUME Woken PROVE \A l \in Calls : calls'[l].kind = "free" <=> calls[l].kind = "free"
  BY <1>w DEF Woken
<1>b. ASSUME NEW v \in VMs, BootOver(v) PROVE OnePerClick'
  BY <1>4, <1>b, <1>w DEF BootOver
<1>p. ASSUME NEW k \in Calls, PostOver(k) PROVE OnePerClick'
  <2>1. \A l \in Calls : calls'[l].kind = "free" <=> calls[l].kind = "free"
    BY <1>5, <1>p DEF PostOver
  <2>2. \A s \in Sockets : socks'[s].at = "free" <=> socks[s].at = "free"
    <3>1. socks' = socks \/ \E v : VMExits(v)
      BY <1>p DEF PostOver
    <3> QED BY <1>1, <1>6, <3>1, EndedMoves DEF VMExits
  <2> QED BY <1>4, <1>p, <2>1, <2>2 DEF PostOver
<1>8. ASSUME NEW k \in Calls, Failed(k) PROVE OnePerClick'
  <2>1. \A l \in Calls : calls'[l].kind = "free" <=> calls[l].kind = "free"
    BY <1>5, <1>8 DEF Failed
  <2> QED BY <1>4, <1>8, <2>1 DEF Failed
<1>9. ASSUME NEW s \in Sockets, Opened(s) PROVE OnePerClick'
  <2>1. Moved /\ page'.timer = page.timer
    BY <1>1, <1>9, AtMoves DEF Opened, Page
  <2> QED BY <1>4, <1>6, <1>9, <2>1 DEF Opened, budgets
<1>10. ASSUME NEW s \in Sockets, Breaks(s) PROVE OnePerClick'
  <2>1. Moved
    BY <1>1, <1>10, AtMoves DEF Breaks
  <2> QED BY <1>4, <1>6, <1>10, <2>1 DEF Breaks, Fault, NoFault, budgets
<1>11. ASSUME NEW v \in VMs, VMEnds(v) PROVE OnePerClick'
  <2>1. Moved
    BY <1>1, <1>11, EndedMoves DEF VMEnds, VMExits
  <2> QED BY <1>4, <1>6, <1>11, <2>1 DEF VMEnds, Fault
<1>12. ASSUME NEW v \in VMs, OtherTab(v) PROVE OnePerClick'
  BY <1>4, <1>12 DEF OtherTab, Fault
<1>13. CASE DaemonStops
  BY <1>4, <1>6, <1>13, <1>w, StopMoves, StopWakes DEF DaemonStops, Fault
<1>14. CASE DaemonStarts
  BY <1>4, <1>14 DEF DaemonStarts, budgets
<1>15. ASSUME NEW k \in Calls, calls' = Freed(k), calls[k].kind # "free"
       PROVE  Cardinality(BusyCalls)' = Cardinality(BusyCalls) + (-1)
  <2>1. Cardinality(BusyCalls)' = Cardinality(BusyCalls) - 1
    BY <1>1, <1>15, FreedFrees, EndsCall DEF BusyCalls
  <2> QED BY <1>3, <2>1, SMTT(60)
<1>16. ASSUME NEW p, NEW s, Attaches(p, s) PROVE Cardinality(BusySockets)' = Cardinality(BusySockets) + 1
  BY <1>16, AddsSocket
<1>17. ASSUME NEW k \in Calls, Reattach(k) PROVE OnePerClick'
  <2> DEFINE p == [page EXCEPT !.sessionId = calls[k].id]
  <2>1. p \in Page /\ p.timer = page.timer
    <3>1. calls[k].id \in 0..MaxVMs
      BY <1>1 DEF CallShapes, Call
    <3> QED BY <1>1, <3>1, PageShapes DEF Page
  <2>2. Connection(p) /\ clicks' = clicks
    BY <1>17 DEF Reattach, budgets
  <2>3. Cardinality(BusyCalls)' = Cardinality(BusyCalls) + (-1)
    BY <1>15, <1>17 DEF Reattach
  <2> HIDE DEF p
  <2>4. CASE page' = p /\ socks' = socks
    <3>1. Cardinality(BusySockets)' = Cardinality(BusySockets) + 0 /\ Timers' <= Timers + 0
      BY <1>m, <1>t, <2>1, <2>4
    <3>2. -1 + 0 + 0 <= clicks' - clicks
      BY <1>1, <2>2, SMTT(60)
    <3> QED BY <1>1, <1>n, <2>3, <3>1, <3>2, SumKept
  <2>5. ASSUME NEW s, Attaches(p, s) PROVE OnePerClick'
    <3>1. page'.timer = page.timer
      BY <2>1, <2>5 DEF Attaches, Page
    <3>2. Cardinality(BusySockets)' = Cardinality(BusySockets) + 1 /\ Timers' <= Timers + 0
      BY <1>16, <1>t, <2>5, <3>1
    <3>3. -1 + 1 + 0 <= clicks' - clicks
      BY <1>1, <2>2, SMTT(60)
    <3> QED BY <1>1, <1>n, <2>3, <3>2, <3>3, SumKept
  <2> QED BY <1>1, <2>1, <2>2, <2>4, <2>5, ConnectionAttaches
<1>18. ASSUME NEW k \in Calls, AskForVM(k) PROVE OnePerClick'
  <2>1. \A l \in Calls : calls'[l].kind = "free" <=> calls[l].kind = "free"
    <3>1. calls' = [calls EXCEPT ![k] = Request("post", 0)] /\ calls[k].kind = "current"
      BY <1>18 DEF AskForVM
    <3>2. \A l \in Calls : calls'[l] = IF l = k THEN Request("post", 0) ELSE calls[l]
      BY <1>1, <3>1 DEF CallShapes
    <3>3. Request("post", 0).kind = "post"
      BY DEF Request
    <3> QED BY <3>1, <3>2, <3>3
  <2> QED BY <1>4, <1>18, <2>1 DEF AskForVM, budgets
<1>19. ASSUME NEW k \in Calls, GiveUp(k) PROVE OnePerClick'
  <2>1. Cardinality(BusyCalls)' = Cardinality(BusyCalls) + (-1)
    BY <1>15, <1>19 DEF GiveUp
  <2>2. page'.timer = page.timer /\ socks' = socks /\ clicks' = clicks
    BY <1>1, <1>19 DEF GiveUp, Page, budgets
  <2>3. Cardinality(BusySockets)' = Cardinality(BusySockets) + 0 /\ Timers' <= Timers + 0
    BY <1>m, <1>t, <2>2
  <2>4. -1 + 0 + 0 <= clicks' - clicks
    BY <1>1, <2>2, SMTT(60)
  <2> QED BY <1>1, <1>n, <2>1, <2>3, <2>4, SumKept
<1>20. ASSUME NEW k \in Calls, Described(k) PROVE OnePerClick'
  <2>1. Cardinality(BusyCalls)' = Cardinality(BusyCalls) + (-1) /\ socks' = socks /\ clicks' = clicks
    BY <1>15, <1>20 DEF Described, budgets
  <2>2. Cardinality(BusySockets)' = Cardinality(BusySockets) + 0
    BY <1>m, <2>1
  <2>3. Timers' <= Timers + 1
    BY <1>3, SMTT(60)
  <2>4. -1 + 0 + 1 <= clicks' - clicks
    BY <1>1, <2>1, SMTT(60)
  <2> QED BY <1>1, <1>n, <2>1, <2>2, <2>3, <2>4, SumKept
<1>21. ASSUME NEW k \in Calls, Deleted(k) PROVE OnePerClick'
  <2> DEFINE p == [page EXCEPT !.sessionId = 0]
  <2>1. p \in Page /\ p.timer = page.timer
    BY <1>1, PageShapes, Parts DEF Page
  <2>2. Booting(p, Freed(k)) /\ clicks' = clicks /\ socks' = socks /\ calls[k].kind = "delete"
    BY <1>21 DEF Deleted, Booting, budgets
  <2> HIDE DEF p
  <2>3. CallShapes(Freed(k)) /\ Freed(k)[k].kind = "free" /\ \A l \in Calls \ {k} : Freed(k)[l] = calls[l]
    BY <1>1, FreedFrees
  <2>4. page'.timer = page.timer /\ \E n : Sends(Freed(k), n, "current")
    BY <2>1, <2>2, <2>3, BootingSends
  <2>5. Cardinality(BusyCalls)' = Cardinality(BusyCalls) + 0
    <3>1. PICK n : Sends(Freed(k), n, "current")
      BY <2>4
    <3>2. CASE n = k
      <4>1. \A l \in Calls : calls'[l].kind = "free" <=> calls[l].kind = "free"
        BY <2>2, <2>3, <3>1, <3>2 DEF Sends
      <4> QED BY <1>s, <4>1
    <3>3. CASE n # k
      <4>1. BusyCalls' = (BusyCalls \ {k}) \cup {n} /\ k \in BusyCalls /\ n \notin BusyCalls
        BY <2>2, <2>3, <3>1, <3>3 DEF Sends, BusyCalls
      <4>2. IsFiniteSet(BusyCalls \ {k}) /\ Cardinality(BusyCalls \ {k}) = Cardinality(BusyCalls) - 1
        BY <4>1, Counts, FS_RemoveElement DEF CountTypes
      <4>3. Cardinality((BusyCalls \ {k}) \cup {n}) = Cardinality(BusyCalls \ {k}) + 1
        BY <4>1, <4>2, FS_AddElement
      <4> QED BY <1>3, <4>1, <4>2, <4>3, SMTT(60)
    <3> QED BY <3>2, <3>3
  <2>6. Cardinality(BusySockets)' = Cardinality(BusySockets) + 0 /\ Timers' <= Timers + 0
    BY <1>m, <1>t, <2>2, <2>4
  <2>7. 0 + 0 + 0 <= clicks' - clicks
    BY <1>n, <2>2
  <2> QED BY <1>1, <1>n, <2>5, <2>6, <2>7, SumKept
<1>22. ASSUME NEW s \in Sockets, Closed(s) PROVE OnePerClick'
  <2>1. Cardinality(BusySockets)' = Cardinality(BusySockets) + (-1)
    <3>1. Cardinality(BusySockets)' = Cardinality(BusySockets) - 1
      BY <1>22, EndsSocket
    <3> QED BY <1>3, <3>1, SMTT(60)
  <2>2. page'.timer = page.timer /\ clicks' = clicks
    BY <1>1, <1>22 DEF Closed, Page, budgets
  <2>3. Timers' <= Timers + 0
    BY <1>t, <2>2
  <2>4. CASE calls' = calls
    <3>1. Cardinality(BusyCalls)' = Cardinality(BusyCalls) + 0
      BY <1>s, <2>4
    <3>2. 0 + (-1) + 0 <= clicks' - clicks
      BY <1>1, <2>2, SMTT(60)
    <3> QED BY <1>1, <1>n, <2>1, <2>3, <3>1, <3>2, SumKept
  <2>5. CASE Placement(calls, "describe", page.sessionId)
    <3>1. \E n : Sends(calls, n, "describe")
      <4>1. page.sessionId \in 0..MaxVMs
        BY <1>1 DEF Page
      <4> QED BY <1>1, <2>5, <4>1, PlacementSends
    <3>2. Cardinality(BusyCalls)' = Cardinality(BusyCalls) + 1
      BY <3>1, AddsCall
    <3>3. 1 + (-1) + 0 <= clicks' - clicks
      BY <1>1, <2>2, SMTT(60)
    <3> QED BY <1>1, <1>n, <2>1, <2>3, <3>2, <3>3, SumKept
  <2> QED BY <1>22, <2>4, <2>5 DEF Closed
<1>23. CASE Retry
  <2> DEFINE p == [page EXCEPT !.timer = FALSE]
  <2>1. p \in Page /\ p.timer = FALSE /\ page.timer
    BY <1>1, <1>23, PageShapes DEF Page, Retry
  <2>2. Connection(p) /\ clicks' = clicks /\ calls' = calls
    BY <1>23 DEF Retry, budgets
  <2> HIDE DEF p
  <2>3. page'.timer = FALSE
    BY <1>1, <2>1, <2>2, ConnectionAttaches DEF Attaches, Page
  <2>4. Timers' <= Timers + (-1)
    <3>1. Timers' = 0 /\ Timers = 1
      BY <2>1, <2>3 DEF Timers
    <3> QED BY <3>1, SMTT(60)
  <2>5. Cardinality(BusyCalls)' = Cardinality(BusyCalls) + 0
    BY <1>s, <2>2
  <2>6. CASE socks' = socks
    <3>1. Cardinality(BusySockets)' = Cardinality(BusySockets) + 0
      BY <1>m, <2>6
    <3>2. 0 + 0 + (-1) <= clicks' - clicks
      BY <1>1, <2>2, SMTT(60)
    <3> QED BY <1>1, <1>n, <2>4, <2>5, <3>1, <3>2, SumKept
  <2>7. CASE \E s : Attaches(p, s)
    <3>1. Cardinality(BusySockets)' = Cardinality(BusySockets) + 1
      BY <1>16, <2>7
    <3>2. 0 + 1 + (-1) <= clicks' - clicks
      BY <1>1, <2>2, SMTT(60)
    <3> QED BY <1>1, <1>n, <2>4, <2>5, <3>1, <3>2, SumKept
  <2> QED BY <1>1, <2>1, <2>2, <2>6, <2>7, ConnectionAttaches
<1>24. ASSUME NEW kind \in {"current", "post", "describe", "delete"}, NEW n, Sends(calls, n, kind),
              \A s \in Sockets : socks'[s].at = "free" <=> socks[s].at = "free",
              page'.timer = page.timer \/ page'.timer = FALSE, Click
       PROVE  OnePerClick'
  <2>1. Cardinality(BusyCalls)' = Cardinality(BusyCalls) + 1 /\ Cardinality(BusySockets)' = Cardinality(BusySockets) + 0
    BY <1>24, <1>m, AddsCall
  <2>2. Timers' <= Timers + 0
    <3>1. Timers' = Timers \/ Timers' = 0
      BY <1>24 DEF Timers
    <3> QED BY <1>3, <3>1, SMTT(60)
  <2>3. 1 + 0 + 0 <= clicks' - clicks
    BY <1>1, <1>24, SMTT(60) DEF Click
  <2> QED BY <1>1, <1>n, <2>1, <2>2, <2>3, SumKept
<1>25. CASE NewBoot
  <2>1. PICK p \in Page : Booting(p, calls) /\ p.timer = page.timer
    BY <1>1, <1>25, PageShapes DEF NewBoot, Page
  <2>2. page'.timer = page.timer /\ (\E n : Sends(calls, n, "current")) /\ socks' = socks
    BY <1>1, <2>1, BootingSends DEF Booting
  <2> QED BY <1>24, <1>25, <2>2 DEF NewBoot
<1>26. CASE NewVM
  <2>1. \E n : Sends(calls, n, "delete")
    <3>1. page.sessionId \in 0..MaxVMs
      BY <1>1 DEF Page
    <3> QED BY <1>1, <1>26, <3>1, PlacementSends DEF NewVM
  <2>2. page'.timer = FALSE /\ Moved
    BY <1>1, <1>26, ClosingMoves DEF NewVM, Page
  <2> QED BY <1>6, <1>24, <1>26, <2>1, <2>2 DEF NewVM
<1> QED BY <1>7, <1>b, <1>p, <1>8, <1>9, <1>10, <1>11, <1>12, <1>13, <1>14, <1>17, <1>18, <1>19,
           <1>20, <1>21, <1>22, <1>23, <1>25, <1>26 DEF Step
-----------------------------------------------------------------------------
(* Most steps leave the page's VM and socket alone. *)
Quiet == page'.ws = page.ws /\ page'.sessionId = page.sessionId /\ Moved

(* The others are boot()'s answer, the DELETE's, an onclose and the timer. *)
LEMMA StepQuiet ==
  ASSUME Shapes, Step
  PROVE  \/ Quiet
         \/ \E k \in Calls : Reattach(k) \/ Deleted(k)
         \/ \E s \in Sockets : Closed(s)
         \/ Retry
<1>1. CallShapes(calls) /\ SocketShapes(socks) /\ page \in Page
  BY DEF Shapes
<1>2. ASSUME socks' = socks PROVE Moved
  BY <1>1, <1>2 DEF Moved
<1>3. ASSUME NEW v, VMExits(v) PROVE Moved
  BY <1>1, <1>3, EndedMoves DEF VMExits
<1>4. ASSUME NEW k \in Calls, Served(k) PROVE Quiet
  <2>1. (socks' = socks \/ \E v : VMExits(v)) /\ page' = page
    BY <1>4 DEF Served
  <2> QED BY <1>2, <1>3, <2>1 DEF Quiet
<1>b. ASSUME NEW v \in VMs, BootOver(v) PROVE Quiet
  BY <1>2, <1>b DEF BootOver, Quiet
<1>p. ASSUME NEW k \in Calls, PostOver(k) PROVE Quiet
  <2>1. (socks' = socks \/ \E v : VMExits(v)) /\ page' = page
    BY <1>p DEF PostOver
  <2> QED BY <1>2, <1>3, <2>1 DEF Quiet
<1>5. ASSUME NEW k \in Calls, Failed(k) PROVE Quiet
  BY <1>2, <1>5 DEF Failed, Quiet
<1>6. ASSUME NEW s \in Sockets, Opened(s) PROVE Quiet
  <2>1. Moved
    BY <1>1, <1>6, AtMoves DEF Opened
  <2>2. page' = [page EXCEPT !.attempts = 0]
    BY <1>6 DEF Opened
  <2> QED BY <1>1, <2>1, <2>2 DEF Quiet, Page
<1>7. ASSUME NEW s \in Sockets, Breaks(s) PROVE Quiet
  <2>1. Moved
    BY <1>1, <1>7, AtMoves DEF Breaks
  <2> QED BY <1>7, <2>1 DEF Breaks, Quiet
<1>8. ASSUME NEW v \in VMs, VMEnds(v) \/ OtherTab(v) PROVE Quiet
  BY <1>2, <1>3, <1>8 DEF VMEnds, OtherTab, Quiet
<1>9. CASE DaemonStops \/ DaemonStarts
  BY <1>2, <1>9, StopMoves DEF DaemonStops, DaemonStarts, Quiet
<1>10. ASSUME NEW k \in Calls, AskForVM(k) \/ GiveUp(k) \/ Described(k) PROVE Quiet
  <2>1. socks' = socks
    BY <1>10 DEF AskForVM, GiveUp, Described
  <2>2. page'.ws = page.ws /\ page'.sessionId = page.sessionId
    BY <1>1, <1>10 DEF AskForVM, GiveUp, Described, Page
  <2> QED BY <1>2, <2>1, <2>2 DEF Quiet
<1>11. CASE NewBoot
  <2>1. PICK p \in Page : Booting(p, calls) /\ p.sessionId = page.sessionId /\ p.ws = page.ws
    <3> DEFINE q == [page EXCEPT !.overlay = "none"]
    <3>1. q \in Page /\ q.sessionId = page.sessionId /\ q.ws = page.ws
      BY <1>1, PageShapes DEF Page
    <3>2. Booting(page, calls) \/ Booting(q, calls)
      BY <1>11 DEF NewBoot
    <3> HIDE DEF q
    <3> QED BY <1>1, <3>1, <3>2
  <2>2. page'.sessionId = page.sessionId /\ page'.ws = page.ws /\ socks' = socks
    BY <1>1, <2>1, BootingSends DEF Booting
  <2> QED BY <1>2, <2>2 DEF Quiet
<1>12. CASE NewVM
  <2>1. Moved
    BY <1>1, <1>12, ClosingMoves DEF NewVM
  <2> QED BY <1>1, <1>12, <2>1 DEF NewVM, Quiet, Page
<1> QED BY <1>4, <1>b, <1>p, <1>5, <1>6, <1>7, <1>8, <1>9, <1>10, <1>11, <1>12 DEF Step

(* The page's VM and socket in the other steps. *)
LEMMA ReattachPage ==
  ASSUME Shapes, NEW k \in Calls, Reattach(k)
  PROVE  /\ page'.sessionId = calls[k].id /\ page'.sessionId # 0 /\ page'.closing = page.closing
         /\ page'.overlay = page.overlay /\ page'.timer = page.timer
         /\ page'.ws \in Sockets /\ socks[page'.ws].at = "free"
         /\ socks'[page'.ws].at = "connecting" /\ socks'[page'.ws].vm = page'.sessionId
         /\ \A r \in Sockets : r = page'.ws \/ socks'[r] = socks[r]
<1>1. calls[k].id \in 0..MaxVMs /\ calls[k].id # 0 /\ page \in Page /\ SocketShapes(socks)
  BY DEF Shapes, CallShapes, Call, CallOK, Reattach
<1> DEFINE p == [page EXCEPT !.sessionId = calls[k].id]
<1>2. /\ p \in Page /\ p.sessionId = calls[k].id
      /\ p.closing = page.closing /\ p.overlay = page.overlay /\ p.timer = page.timer
  BY <1>1, PageShapes DEF Page
<1>3. Connection(p)
  BY DEF Reattach
<1> HIDE DEF p
<1>4. PICK s : Attaches(p, s)
  BY <1>1, <1>2, <1>3, ConnectionAttaches
<1>5. /\ page'.ws = s /\ page'.sessionId = p.sessionId /\ page'.closing = p.closing
      /\ page'.overlay = p.overlay /\ page'.timer = p.timer
  BY <1>2, <1>4 DEF Attaches, Page
<1> QED BY <1>1, <1>2, <1>4, <1>5 DEF Attaches

(* The timer connects to the VM the page already has. *)
LEMMA RetryPage ==
  ASSUME Shapes, Retry
  PROVE  /\ page'.sessionId = page.sessionId /\ page'.closing = page.closing
         /\ page'.overlay = page.overlay
         /\ \/ page.sessionId = 0 /\ page'.ws = page.ws /\ socks' = socks
            \/ /\ page'.ws \in Sockets /\ socks[page'.ws].at = "free"
               /\ socks'[page'.ws].at = "connecting" /\ socks'[page'.ws].vm = page'.sessionId
               /\ \A r \in Sockets : r = page'.ws \/ socks'[r] = socks[r]
<1>1. page \in Page /\ SocketShapes(socks)
  BY DEF Shapes
<1> DEFINE p == [page EXCEPT !.timer = FALSE]
<1>2. /\ p \in Page /\ p.sessionId = page.sessionId /\ p.ws = page.ws
      /\ p.closing = page.closing /\ p.overlay = page.overlay
  BY <1>1, PageShapes DEF Page
<1>3. Connection(p)
  BY DEF Retry
<1> HIDE DEF p
<1>4. CASE p.sessionId = 0 /\ page' = p /\ socks' = socks
  BY <1>2, <1>4
<1>5. ASSUME NEW s, Attaches(p, s)
      PROVE  /\ page'.ws = s /\ page'.sessionId = p.sessionId /\ page'.closing = p.closing
             /\ page'.overlay = p.overlay
  BY <1>2, <1>5 DEF Attaches, Page
<1>6. CASE \E s : Attaches(p, s)
  BY <1>2, <1>5, <1>6 DEF Attaches
<1> QED BY <1>1, <1>2, <1>3, <1>4, <1>6, ConnectionAttaches

(* The DELETE's answer forgets the VM and boots anew. *)
LEMMA DeletedPage ==
  ASSUME Shapes, NEW k \in Calls, Deleted(k)
  PROVE  /\ page'.sessionId = 0 /\ page'.ws = page.ws /\ page'.closing = FALSE /\ socks' = socks
         /\ \E n : Sends(Freed(k), n, "current")
<1>1. page \in Page /\ CallShapes(Freed(k))
  BY FreedFrees DEF Shapes
<1> DEFINE p == [page EXCEPT !.sessionId = 0]
<1>2. p \in Page /\ p.sessionId = 0 /\ p.ws = page.ws
  BY <1>1, PageShapes, Parts DEF Page
<1>3. Booting(p, Freed(k)) /\ socks' = socks
  BY DEF Deleted, Booting
<1> HIDE DEF p
<1> QED BY <1>1, <1>2, <1>3, BootingSends

(* An onclose clears the socket, then asks after the VM, shows the         *)
(* overlay, or leaves a closing page to its DELETE.                        *)
LEMMA ClosedPage ==
  ASSUME Shapes, NEW s \in Sockets, Closed(s)
  PROVE  /\ page'.ws = 0 /\ page'.sessionId = page.sessionId /\ page'.closing = page.closing
         /\ page'.timer = page.timer /\ (page'.overlay = "none" => page.overlay = "none")
         /\ \/ page.closing /\ calls' = calls
            \/ page'.overlay = "gone" /\ calls' = calls
            \/ \E n : Sends(calls, n, "describe")
         /\ socks[s].at = "closed" /\ socks'[s].at = "free"
         /\ \A r \in Sockets \ {s} : socks'[r] = socks[r]
<1>1. page \in Page /\ CallShapes(calls) /\ page.sessionId \in 0..MaxVMs
  BY DEF Shapes, Page
<1>2. socks'[s].at = "free" /\ \A r \in Sockets \ {s} : socks'[r] = socks[r]
  <2>1. socks' = [socks EXCEPT ![s] = FreeSocket] /\ SocketShapes(socks)
    BY DEF Closed, Shapes
  <2> QED BY <2>1, Parts DEF SocketShapes
<1>3. /\ page'.ws = 0 /\ page'.sessionId = page.sessionId /\ page'.closing = page.closing
      /\ page'.timer = page.timer /\ (page'.overlay = "none" => page.overlay = "none")
  BY <1>1 DEF Closed, Page
<1>4. \/ page.closing /\ calls' = calls
      \/ page'.overlay = "gone" /\ calls' = calls
      \/ Placement(calls, "describe", page.sessionId)
  BY <1>1 DEF Closed, Page
<1>5. ASSUME Placement(calls, "describe", page.sessionId) PROVE \E n : Sends(calls, n, "describe")
  BY <1>1, <1>5, PlacementSends
<1> QED BY <1>2, <1>3, <1>4, <1>5 DEF Closed

(* A click on an overlay boots, over a boot() under way if there is one. *)
LEMMA NewBootPage ==
  ASSUME Shapes, NewBoot
  PROVE  /\ page'.closing = FALSE /\ bootLost' = FALSE
         /\ overlapped' = (overlapped \/ BootCalls(calls) # {})
         /\ UNCHANGED <<socks, serverVars>> /\ \E n : Sends(calls, n, "current")
<1>1. page \in Page /\ CallShapes(calls)
  BY DEF Shapes
<1>2. PICK p \in Page : Booting(p, calls)
  BY <1>1, PageShapes DEF NewBoot
<1>3. page'.closing = FALSE /\ \E n : Sends(calls, n, "current")
  BY <1>1, <1>2, BootingSends
<1> QED BY <1>2, <1>3 DEF Booting

(* A click on "new VM" sends the DELETE and keeps VM and socket until it   *)
(* is answered.                                                            *)
LEMMA NewVMPage ==
  ASSUME Shapes, NewVM
  PROVE  /\ page'.sessionId = page.sessionId /\ page'.ws = page.ws /\ page'.overlay = page.overlay
         /\ \E n : Sends(calls, n, "delete")
<1>1. page \in Page /\ CallShapes(calls) /\ page.sessionId \in 0..MaxVMs
  BY DEF Shapes, Page
<1>2. \E n : Sends(calls, n, "delete")
  BY <1>1, PlacementSends DEF NewVM
<1> QED BY <1>1, <1>2 DEF NewVM, Page

-----------------------------------------------------------------------------
(* The page's socket stays the socket of the page's VM: connect() sets     *)
(* both, any onclose clears ws.                                            *)
LEMMA CurrentKept ==
  ASSUME Shapes, SocketIsCurrent, Step PROVE SocketIsCurrent'
<1>1. page.ws # 0 => page.ws \in Sockets
  BY DEF Shapes, Page
<1>2. CASE Quiet
  BY <1>1, <1>2 DEF Quiet, Moved, SocketIsCurrent
<1>3. ASSUME NEW k \in Calls, Reattach(k) PROVE SocketIsCurrent'
  BY <1>3, ReattachPage DEF SocketIsCurrent
<1>4. ASSUME NEW k \in Calls, Deleted(k) PROVE SocketIsCurrent'
  BY <1>4, DeletedPage DEF SocketIsCurrent
<1>5. ASSUME NEW s \in Sockets, Closed(s) PROVE SocketIsCurrent'
  BY <1>5, ClosedPage DEF SocketIsCurrent
<1>6. CASE Retry
  BY <1>6, RetryPage DEF SocketIsCurrent
<1> QED BY <1>2, <1>3, <1>4, <1>5, <1>6, StepQuiet
(* A live VM's subscriber is a socket that is attached to it. *)
LEMMA AttachedKept ==
  ASSUME Shapes, AttachedToLive, Step, Shapes' PROVE AttachedToLive'
<1>1. /\ SocketShapes(socks) /\ page \in Page /\ live \subseteq VMs /\ minted \in 0..MaxVMs
      /\ subscriber \in [VMs -> Sockets \cup {0, -1}] /\ MaxVMs \in Nat
      /\ \A v \in live : v <= minted /\ v \notin booting
  <2>1. MaxVMs \in Nat /\ live \subseteq 1..minted /\ minted \in 0..MaxVMs /\ live \cap booting = {}
    BY PageAssumption DEF Shapes
  <2>2. live \subseteq VMs /\ \A v \in live : v <= minted
    BY <2>1, SMTT(60) DEF VMs
  <2> QED BY <2>1, <2>2 DEF Shapes
<1>2. 0 \notin Sockets /\ -1 \notin Sockets
  BY PageAssumption, SMTT(60)
<1>3. ASSUME UNCHANGED <<hostVars, subscriber>>,
             \A s \in Sockets : \/ socks'[s] = socks[s]
                                \/ socks[s].at \in {"free", "closed"} /\ socks'[s].at # "open"
                                \/ /\ socks[s].at \in {"connecting", "open"}
                                   /\ socks'[s].at = "closing" /\ socks'[s].vm = socks[s].vm
      PROVE  AttachedToLive'
  <2>0. UNCHANGED <<live, booting, minted, subscriber>>
    BY <1>3 DEF hostVars
  <2>1. \A s \in Sockets : socks'[s].at = "open" => socks'[s].vm \in live'
    BY <1>3, <2>0 DEF AttachedToLive
  <2>2. \A v \in VMs : v > minted' \/ v \in booting' => subscriber'[v] = 0
    BY <2>0 DEF AttachedToLive
  <2>3. ASSUME NEW v \in live', subscriber'[v] \in Sockets
        PROVE  socks'[subscriber'[v]].at \in {"open", "closing"} /\ socks'[subscriber'[v]].vm = v
    <3>1. v \in live /\ subscriber'[v] = subscriber[v]
      BY <2>0, <2>3
    <3>2. socks[subscriber[v]].at \in {"open", "closing"} /\ socks[subscriber[v]].vm = v
      BY <2>3, <3>1 DEF AttachedToLive
    <3> QED BY <1>3, <2>3, <3>1, <3>2
  <2> QED BY <2>1, <2>2, <2>3 DEF AttachedToLive
<1>4. ASSUME NEW v, VMExits(v), UNCHANGED <<booting, minted, subscriber>> PROVE AttachedToLive'
  <2>1. /\ live' = live \ {v}
        /\ \A s \in Sockets : socks'[s].vm = socks[s].vm
        /\ \A s \in Sockets : IF socks[s].vm = v /\ socks[s].at = "open" THEN socks'[s].at = "closed"
                               ELSE socks'[s] = socks[s]
    BY <1>1, <1>4, EndedMoves DEF VMExits, Moved
  <2>2. \A s \in Sockets : socks'[s].at = "open" => socks'[s].vm \in live'
    BY <2>1 DEF AttachedToLive
  <2>3. ASSUME NEW w \in live', subscriber'[w] \in Sockets
        PROVE  socks'[subscriber'[w]].at \in {"open", "closing"} /\ socks'[subscriber'[w]].vm = w
    <3>1. w \in live /\ w # v /\ subscriber'[w] = subscriber[w]
      BY <1>4, <2>1, <2>3
    <3>2. socks[subscriber[w]].at \in {"open", "closing"} /\ socks[subscriber[w]].vm = w
      BY <2>3, <3>1 DEF AttachedToLive
    <3> QED BY <2>1, <2>3, <3>1, <3>2
  <2> QED BY <1>4, <2>2, <2>3 DEF AttachedToLive
<1>5. ASSUME NEW k \in Calls, Served(k) PROVE AttachedToLive'
  <2>1. CASE UNCHANGED <<hostVars, socks>>
    BY <1>3, <1>5, <2>1 DEF Served
  <2>2. CASE \E v : VMExits(v) /\ UNCHANGED <<booting, minted>>
    BY <1>4, <1>5, <2>2 DEF Served
  <2>3. CASE /\ minted < MaxVMs /\ minted' = minted + 1 /\ booting' = booting \cup {minted + 1}
             /\ UNCHANGED <<live, socks>>
    <3>1. subscriber' = subscriber
      BY <1>5 DEF Served
    <3>2. minted + 1 > minted /\ \A v \in VMs : v > minted + 1 => v > minted
      BY <1>1, <2>3, SMTT(60) DEF VMs
    <3>3. \A v \in VMs : v > minted' \/ v \in booting' => subscriber'[v] = 0
      BY <2>3, <3>1, <3>2 DEF AttachedToLive
    <3> QED BY <2>3, <3>1, <3>3 DEF AttachedToLive
  <2> QED BY <1>5, <2>1, <2>2, <2>3 DEF Served
<1>b. ASSUME NEW v \in VMs, BootOver(v) PROVE AttachedToLive'
  <2>1. /\ v \in booting /\ booting' = booting \ {v} /\ live' \in {live, live \cup {v}}
        /\ UNCHANGED <<minted, subscriber, socks>>
    BY <1>b DEF BootOver
  <2>2. subscriber[v] \notin Sockets
    BY <1>2, <2>1 DEF AttachedToLive
  <2>3. \A s \in Sockets : socks'[s].at = "open" => socks'[s].vm \in live'
    BY <2>1 DEF AttachedToLive
  <2>4. \A w \in VMs : w > minted' \/ w \in booting' => subscriber'[w] = 0
    BY <2>1 DEF AttachedToLive
  <2>5. ASSUME NEW w \in live', subscriber'[w] \in Sockets
        PROVE  socks'[subscriber'[w]].at \in {"open", "closing"} /\ socks'[subscriber'[w]].vm = w
    <3>1. w \in live
      BY <2>1, <2>2, <2>5
    <3> QED BY <2>1, <2>5, <3>1 DEF AttachedToLive
  <2> QED BY <2>3, <2>4, <2>5 DEF AttachedToLive
<1>p. ASSUME NEW k \in Calls, PostOver(k) PROVE AttachedToLive'
  <2>1. CASE UNCHANGED <<live, socks>>
    <3>1. UNCHANGED <<hostVars, subscriber, socks>>
      BY <1>p, <2>1 DEF PostOver, hostVars
    <3> QED BY <1>3, <3>1
  <2>2. CASE VMExits(calls[k].id)
    BY <1>4, <1>p, <2>2 DEF PostOver
  <2> QED BY <1>p, <2>1, <2>2 DEF PostOver
<1>6. ASSUME NEW s \in Sockets, Opened(s) PROVE AttachedToLive'
  <2>1. /\ socks'[s].at = "open" /\ socks'[s].vm = socks[s].vm /\ socks[s].vm \in live
        /\ \A r \in Sockets \ {s} : socks'[r] = socks[r]
        /\ socks[s].at = "connecting"
    BY <1>1, <1>6, AtMoves DEF Opened, Moved
  <2>2. /\ live' = live /\ minted' = minted /\ booting' = booting
        /\ \A v \in VMs : subscriber'[v] = IF v = socks[s].vm THEN s ELSE subscriber[v]
    BY <1>1, <1>6 DEF Opened, hostVars
  <2>3. \A r \in Sockets : socks'[r].at = "open" => socks'[r].vm \in live'
    BY <2>1, <2>2 DEF AttachedToLive
  <2>4. \A v \in VMs : v > minted' \/ v \in booting' => subscriber'[v] = 0
    <3>1. ~(socks[s].vm > minted) /\ socks[s].vm \notin booting
      <4>1. socks[s].vm \in VMs /\ socks[s].vm <= minted /\ socks[s].vm \notin booting
        BY <1>1, <2>1
      <4>2. \A x \in VMs : x <= minted => ~(x > minted)
        BY <1>1, SMTT(60) DEF VMs
      <4> QED BY <4>1, <4>2
    <3> QED BY <2>2, <3>1 DEF AttachedToLive
  <2>5. ASSUME NEW v \in live', subscriber'[v] \in Sockets
        PROVE  socks'[subscriber'[v]].at \in {"open", "closing"} /\ socks'[subscriber'[v]].vm = v
    <3>1. v \in live /\ v \in VMs
      BY <1>1, <2>2
    <3>2. CASE v = socks[s].vm
      BY <2>1, <2>2, <3>1, <3>2
    <3>3. CASE v # socks[s].vm
      <4>1. subscriber'[v] = subscriber[v]
        BY <2>2, <3>1, <3>3
      <4>2. socks[subscriber[v]].at \in {"open", "closing"} /\ socks[subscriber[v]].vm = v
        BY <2>5, <3>1, <4>1 DEF AttachedToLive
      <4> QED BY <2>1, <2>5, <4>1, <4>2
    <3> QED BY <3>2, <3>3
  <2> QED BY <2>3, <2>4, <2>5 DEF AttachedToLive
<1>7. ASSUME NEW s \in Sockets, Breaks(s) PROVE AttachedToLive'
  <2>1. socks'[s].at = "closed" /\ \A r \in Sockets \ {s} : socks'[r] = socks[r]
    BY <1>1, <1>7, AtMoves DEF Breaks
  <2>2. /\ live' = live /\ minted' = minted /\ booting' = booting
        /\ \A v \in VMs : subscriber'[v] = IF subscriber[v] = s THEN 0 ELSE subscriber[v]
    BY <1>7 DEF Breaks, Detached, hostVars
  <2>3. \A r \in Sockets : socks'[r].at = "open" => socks'[r].vm \in live'
    BY <2>1, <2>2 DEF AttachedToLive
  <2>4. \A v \in VMs : v > minted' \/ v \in booting' => subscriber'[v] = 0
    BY <2>2 DEF AttachedToLive
  <2>5. ASSUME NEW v \in live', subscriber'[v] \in Sockets
        PROVE  socks'[subscriber'[v]].at \in {"open", "closing"} /\ socks'[subscriber'[v]].vm = v
    <3>1. v \in live /\ v \in VMs
      BY <1>1, <2>2
    <3>2. subscriber'[v] = subscriber[v] /\ subscriber[v] # s
      BY <1>2, <2>2, <2>5, <3>1
    <3>3. socks[subscriber[v]].at \in {"open", "closing"} /\ socks[subscriber[v]].vm = v
      BY <2>5, <3>1, <3>2 DEF AttachedToLive
    <3> QED BY <2>1, <2>5, <3>2, <3>3
  <2> QED BY <2>3, <2>4, <2>5 DEF AttachedToLive
<1>8. ASSUME NEW v \in VMs, VMEnds(v) PROVE AttachedToLive'
  BY <1>4, <1>8 DEF VMEnds
<1>9. ASSUME NEW v \in VMs, OtherTab(v) PROVE AttachedToLive'
  <2>1. /\ live' = live /\ minted' = minted /\ booting' = booting /\ socks' = socks
        /\ \A w \in VMs : subscriber'[w] = IF w = v THEN -1 ELSE subscriber[w]
    BY <1>1, <1>9 DEF OtherTab, hostVars
  <2>2. ~(v > minted) /\ v \notin booting
    <3>1. v \in live /\ v <= minted /\ v \notin booting
      BY <1>1, <1>9 DEF OtherTab
    <3> QED BY <1>1, <3>1, SMTT(60) DEF VMs
  <2> QED BY <1>1, <1>2, <2>1, <2>2 DEF AttachedToLive
<1>10. CASE DaemonStops
  <2>1. live' = {} /\ minted' = minted /\ \A v \in VMs : subscriber'[v] = 0
    BY <1>10 DEF DaemonStops
  <2>2. \A s \in Sockets : socks'[s].at # "open"
    BY <1>10, StopMoves
  <2> QED BY <2>1, <2>2 DEF AttachedToLive
<1>11. CASE DaemonStarts \/ (\E k \in Calls : Failed(k) \/ AskForVM(k) \/ GiveUp(k) \/ Described(k)) \/ NewBoot
  <2>1. UNCHANGED <<hostVars, subscriber, socks>>
    BY <1>11, NewBootPage DEF DaemonStarts, Failed, AskForVM, GiveUp, Described, serverVars
  <2> QED BY <1>3, <2>1
<1>12. ASSUME NEW k \in Calls, Reattach(k) PROVE AttachedToLive'
  <2>1. UNCHANGED <<hostVars, subscriber>>
    BY <1>12 DEF Reattach, serverVars
  <2>2. \A s \in Sockets : socks'[s] = socks[s] \/ (socks[s].at = "free" /\ socks'[s].at = "connecting")
    BY <1>12, ReattachPage
  <2> QED BY <1>3, <2>1, <2>2
<1>13. CASE Retry
  <2>1. UNCHANGED <<hostVars, subscriber>>
    BY <1>13 DEF Retry, serverVars
  <2>2. \A s \in Sockets : socks'[s] = socks[s] \/ (socks[s].at = "free" /\ socks'[s].at = "connecting")
    BY <1>13, RetryPage
  <2> QED BY <1>3, <2>1, <2>2
<1>14. ASSUME NEW k \in Calls, Deleted(k) PROVE AttachedToLive'
  <2>1. UNCHANGED <<hostVars, subscriber, socks>>
    BY <1>14 DEF Deleted, Booting, serverVars
  <2> QED BY <1>3, <2>1
<1>15. ASSUME NEW s \in Sockets, Closed(s) PROVE AttachedToLive'
  <2>1. UNCHANGED <<hostVars, subscriber>>
    BY <1>15 DEF Closed, serverVars
  <2> QED BY <1>3, <1>15, <2>1, ClosedPage
<1>16. CASE NewVM
  <2>1. UNCHANGED <<hostVars, subscriber>>
    BY <1>16 DEF NewVM, serverVars
  <2>2. \A s \in Sockets : \/ socks'[s] = socks[s]
                           \/ /\ socks[s].at \in {"connecting", "open"}
                              /\ socks'[s].at = "closing" /\ socks'[s].vm = socks[s].vm
    BY <1>1, <1>16, ClosingMoves DEF NewVM, Moved
  <2> QED BY <1>3, <2>1, <2>2
<1> QED BY <1>5, <1>b, <1>p, <1>6, <1>7, <1>8, <1>9, <1>10, <1>11, <1>12, <1>13, <1>14, <1>15, <1>16 DEF Step

(* Output comes to the page's open socket, or an onclose is due. *)
LEMMA OutputKept ==
  ASSUME Shapes, OutputComes, Step PROVE OutputComes'
<1>1. /\ SocketShapes(socks) /\ page \in Page /\ subscriber \in [VMs -> Sockets \cup {0, -1}]
      /\ page.ws # 0 => page.ws \in Sockets
  BY DEF Shapes, Page
<1>2. 0 \notin Sockets /\ -1 # 0
  BY PageAssumption, SMTT(60)
<1>v. \A s \in Sockets : socks[s].at # "free" => socks[s].vm \in VMs
  <2> SUFFICES ASSUME NEW s \in Sockets, socks[s].at # "free" PROVE socks[s].vm \in VMs
    OBVIOUS
  <2>1. socks[s].vm \in 0..MaxVMs /\ socks[s].vm # 0
    BY <1>1 DEF SocketShapes, SocketOK, Socket
  <2>2. MaxVMs \in Nat
    BY PageAssumption
  <2> QED BY <2>1, <2>2, SMTT(60) DEF VMs
<1>3. ASSUME page'.ws = page.ws, subscriber' = subscriber,
             \A s \in Sockets : /\ socks'[s].vm = socks[s].vm
                                /\ socks'[s].at = "open" => socks[s].at = "open"
                                /\ socks[s].at = "closed" => socks'[s].at = "closed"
      PROVE  OutputComes'
  BY <1>1, <1>3 DEF OutputComes, Open
<1>4. ASSUME NEW v, VMExits(v), page'.ws = page.ws, subscriber' = subscriber PROVE OutputComes'
  <2>1. \A s \in Sockets : /\ socks'[s].vm = socks[s].vm
                           /\ socks'[s].at = "open" => socks[s].at = "open"
                           /\ socks[s].at = "closed" => socks'[s].at = "closed"
    BY <1>1, <1>4, EndedMoves DEF VMExits, Moved
  <2> QED BY <1>3, <1>4, <2>1
<1>5. ASSUME NEW k \in Calls, Served(k) PROVE OutputComes'
  <2>1. page' = page /\ subscriber' = subscriber /\ (socks' = socks \/ \E v : VMExits(v))
    BY <1>5 DEF Served
  <2> QED BY <1>3, <1>4, <2>1
<1>b. ASSUME NEW v \in VMs, BootOver(v) PROVE OutputComes'
  BY <1>3, <1>b DEF BootOver
<1>p. ASSUME NEW k \in Calls, PostOver(k) PROVE OutputComes'
  <2>1. page' = page /\ subscriber' = subscriber /\ (socks' = socks \/ \E v : VMExits(v))
    BY <1>p DEF PostOver
  <2> QED BY <1>3, <1>4, <2>1
<1>6. ASSUME NEW s \in Sockets, Opened(s) PROVE OutputComes'
  <2>1. /\ socks'[s].at = "open" /\ socks'[s].vm = socks[s].vm /\ socks[s].at = "connecting"
        /\ \A r \in Sockets \ {s} : socks'[r] = socks[r]
    BY <1>1, <1>6, AtMoves DEF Opened, Moved
  <2>2. \A v \in VMs : subscriber'[v] = IF v = socks[s].vm THEN s ELSE subscriber[v]
    BY <1>1, <1>6 DEF Opened
  <2>3. page'.ws = page.ws
    BY <1>1, <1>6 DEF Opened, Page
  <2>4. SUFFICES ASSUME Open(page.ws)'
                 PROVE  subscriber'[socks'[page.ws].vm] # 0 \/ \E r \in Sockets : socks'[r].at = "closed"
    BY <2>3 DEF OutputComes
  <2>5. page.ws # 0 /\ page.ws \in Sockets /\ socks'[page.ws].at = "open"
    BY <1>1, <2>3, <2>4 DEF Open
  <2>6. CASE socks[page.ws].vm = socks[s].vm
    BY <1>2, <1>v, <2>1, <2>2, <2>5, <2>6
  <2>7. CASE socks[page.ws].vm # socks[s].vm
    <3>1. page.ws # s /\ socks'[page.ws] = socks[page.ws] /\ Open(page.ws)
      BY <2>1, <2>5, <2>7 DEF Open
    <3>2. subscriber'[socks[page.ws].vm] = subscriber[socks[page.ws].vm]
      BY <1>v, <2>2, <2>5, <2>7, <3>1
    <3>3. \A r \in Sockets : socks[r].at = "closed" => socks'[r].at = "closed"
      BY <2>1
    <3> QED BY <3>1, <3>2, <3>3 DEF OutputComes
  <2> QED BY <2>6, <2>7
<1>7. ASSUME NEW s \in Sockets, Breaks(s) PROVE OutputComes'
  <2>1. socks'[s].at = "closed"
    BY <1>1, <1>7, AtMoves DEF Breaks
  <2> QED BY <2>1 DEF OutputComes
<1>8. ASSUME NEW v \in VMs, VMEnds(v) PROVE OutputComes'
  BY <1>4, <1>8 DEF VMEnds
<1>9. ASSUME NEW v \in VMs, OtherTab(v) PROVE OutputComes'
  <2>1. page' = page /\ socks' = socks /\ \A w \in VMs : subscriber'[w] = IF w = v THEN -1 ELSE subscriber[w]
    BY <1>1, <1>9 DEF OtherTab
  <2>2. Open(page.ws) => socks[page.ws].vm \in VMs
    BY <1>1, <1>v DEF Open
  <2> QED BY <1>2, <2>1, <2>2 DEF OutputComes, Open
<1>10. CASE DaemonStops
  <2>1. page'.ws = page.ws /\ \A s \in Sockets : socks'[s].at # "open"
    BY <1>10, StopMoves DEF DaemonStops
  <2> QED BY <1>1, <2>1 DEF OutputComes, Open
<1>11. CASE DaemonStarts \/ (\E k \in Calls : Failed(k) \/ AskForVM(k) \/ GiveUp(k) \/ Described(k)) \/ NewBoot
  <2>1. UNCHANGED <<subscriber, socks>>
    BY <1>11, NewBootPage DEF DaemonStarts, Failed, AskForVM, GiveUp, Described, serverVars, hostVars
  <2>2. page'.ws = page.ws
    <3>1. CASE DaemonStarts \/ \E k \in Calls : Failed(k) \/ AskForVM(k)
      BY <3>1 DEF DaemonStarts, Failed, AskForVM
    <3>2. CASE \E k \in Calls : GiveUp(k) \/ Described(k)
      BY <1>1, <3>2 DEF GiveUp, Described, Page
    <3>3. CASE NewBoot
      BY <1>1, <3>3 DEF NewBoot, Booting, Page
    <3> QED BY <1>11, <3>1, <3>2, <3>3
  <2> QED BY <1>3, <2>1, <2>2
<1>12. ASSUME NEW k \in Calls, Reattach(k) PROVE OutputComes'
  BY <1>12, ReattachPage DEF OutputComes, Open
<1>13. CASE Retry
  <2>1. CASE page'.ws = page.ws /\ socks' = socks
    BY <1>3, <1>13, <2>1 DEF Retry, serverVars, hostVars
  <2>2. CASE socks'[page'.ws].at = "connecting"
    BY <2>2 DEF OutputComes, Open
  <2> QED BY <1>13, <2>1, <2>2, RetryPage
<1>14. ASSUME NEW k \in Calls, Deleted(k) PROVE OutputComes'
  <2>1. page'.ws = page.ws /\ socks' = socks /\ subscriber' = subscriber
    BY <1>14, DeletedPage DEF Deleted, Booting, serverVars, hostVars
  <2> QED BY <1>3, <2>1
<1>15. ASSUME NEW s \in Sockets, Closed(s) PROVE OutputComes'
  BY <1>15, ClosedPage DEF OutputComes, Open
<1>16. CASE NewVM
  <2>1. subscriber' = subscriber /\ page'.ws = page.ws
    BY <1>16, NewVMPage DEF NewVM, serverVars, hostVars
  <2>2. \A s \in Sockets : /\ socks'[s].vm = socks[s].vm
                           /\ socks'[s].at = "open" => socks[s].at = "open"
                           /\ socks[s].at = "closed" => socks'[s].at = "closed"
    BY <1>1, <1>16, ClosingMoves DEF NewVM, Moved
  <2> QED BY <1>3, <2>1, <2>2
<1> QED BY <1>5, <1>b, <1>p, <1>6, <1>7, <1>8, <1>9, <1>10, <1>11, <1>12, <1>13, <1>14, <1>15, <1>16 DEF Step
-----------------------------------------------------------------------------
(* The page's variables in the steps of the server. *)
LEMMA ServerSteps ==
  ASSUME Shapes, Step
  PROVE  \/ /\ \A k \in Calls : calls'[k].kind = calls[k].kind
            /\ page'.sessionId = page.sessionId /\ page'.ws = page.ws /\ page'.closing = page.closing
            /\ page'.timer = page.timer /\ page'.overlay = page.overlay /\ bootLost' = bootLost
         \/ \E k \in Calls : Reattach(k) \/ AskForVM(k) \/ GiveUp(k) \/ Described(k) \/ Deleted(k)
         \/ (\E s \in Sockets : Closed(s)) \/ NewBoot \/ NewVM \/ Retry
<1>0. page \in Page
  BY DEF Shapes
<1>1. ASSUME NEW k \in Calls, Served(k) \/ PostOver(k) \/ Failed(k)
      PROVE  /\ \A l \in Calls : calls'[l].kind = calls[l].kind
             /\ page' = page /\ bootLost' = bootLost
  BY <1>1 DEF Served, PostOver, Failed, Reply
<1>b. ASSUME NEW v \in VMs, BootOver(v)
      PROVE  /\ \A l \in Calls : calls'[l].kind = calls[l].kind
             /\ page' = page /\ bootLost' = bootLost
  BY <1>b DEF BootOver, Woken
<1>2. ASSUME NEW s \in Sockets, Breaks(s) PROVE calls' = calls /\ page' = page /\ bootLost' = bootLost
  BY <1>2 DEF Breaks
<1>3. ASSUME NEW v \in VMs, VMEnds(v) \/ OtherTab(v) PROVE calls' = calls /\ page' = page /\ bootLost' = bootLost
  BY <1>3 DEF VMEnds, OtherTab
<1>4. ASSUME DaemonStops \/ DaemonStarts
      PROVE  /\ \A l \in Calls : calls'[l].kind = calls[l].kind
             /\ page' = page /\ bootLost' = bootLost
  <2>1. CASE DaemonStops
    BY <2>1, StopWakes DEF DaemonStops, Woken
  <2>2. CASE DaemonStarts
    BY <2>2 DEF DaemonStarts
  <2> QED BY <1>4, <2>1, <2>2
<1>5. ASSUME NEW s \in Sockets, Opened(s)
      PROVE  /\ calls' = calls /\ bootLost' = bootLost
             /\ page'.sessionId = page.sessionId /\ page'.ws = page.ws /\ page'.closing = page.closing
             /\ page'.timer = page.timer /\ page'.overlay = page.overlay
  BY <1>0, <1>5 DEF Opened, Page
<1> QED BY <1>1, <1>b, <1>2, <1>3, <1>4, <1>5 DEF Step

(* How the callbacks change calls and page. *)
LEMMA AskCalls ==
  ASSUME Shapes, NEW k \in Calls, AskForVM(k)
  PROVE  /\ calls'[k].kind = "post" /\ calls'[k].ans = "sent"
         /\ \A l \in Calls \ {k} : calls'[l] = calls[l]
<1>1. calls' = [calls EXCEPT ![k] = Request("post", 0)] /\ CallShapes(calls)
  BY DEF AskForVM, Shapes
<1>2. calls'[k] = Request("post", 0) /\ \A l \in Calls \ {k} : calls'[l] = calls[l]
  BY <1>1 DEF CallShapes
<1>3. Request("post", 0).kind = "post" /\ Request("post", 0).ans = "sent"
  BY DEF Request
<1> QED BY <1>2, <1>3

(* A boot() that gives up shows the overlay, or has lost a fetch. *)
LEMMA GiveUpPage ==
  ASSUME Shapes, NEW k \in Calls, GiveUp(k)
  PROVE  /\ page'.closing = page.closing /\ (bootLost' = TRUE \/ page'.overlay = "bootfailed")
         /\ \A l \in Calls \ {k} : calls'[l] = calls[l]
<1>1. page \in Page /\ CallShapes(calls)
  BY DEF Shapes
<1>2. page'.closing = page.closing /\ (bootLost' = TRUE \/ page'.overlay = "bootfailed")
  BY <1>1 DEF GiveUp, Page
<1>3. \A l \in Calls \ {k} : calls'[l] = calls[l]
  BY <1>1, FreedFrees DEF GiveUp
<1> QED BY <1>2, <1>3

(* The answer about the VM shows the overlay or sets the timer. *)
LEMMA DescribedPage ==
  ASSUME Shapes, NEW k \in Calls, Described(k)
  PROVE  /\ page'.closing = page.closing /\ page'.sessionId = page.sessionId
         /\ page'.overlay = "none" => page.overlay = "none" /\ page'.timer
         /\ calls'[k].kind = "free" /\ \A l \in Calls \ {k} : calls'[l] = calls[l]
<1>1. page \in Page /\ CallShapes(calls)
  BY DEF Shapes
<1>2. PICK a \in Nat : \/ page' = [page EXCEPT !.attempts = a, !.timer = TRUE]
                       \/ page' = [page EXCEPT !.attempts = a, !.overlay = "gone"]
  BY DEF Described
<1>3. /\ page'.closing = page.closing /\ page'.sessionId = page.sessionId
      /\ page'.overlay = "none" => page.overlay = "none" /\ page'.timer
  BY <1>1, <1>2 DEF Page
<1>4. calls'[k].kind = "free" /\ \A l \in Calls \ {k} : calls'[l] = calls[l]
  BY <1>1, FreedFrees DEF Described
<1> QED BY <1>3, <1>4

(* boot()'s last callback frees its fetch and no other. *)
LEMMA ReattachCalls ==
  ASSUME Shapes, NEW k \in Calls, Reattach(k)
  PROVE  calls'[k].kind = "free" /\ \A l \in Calls \ {k} : calls'[l] = calls[l]
  BY FreedFrees DEF Reattach, Shapes

-----------------------------------------------------------------------------
(* While the page is closing, its DELETE is on its way. *)
LEMMA ClosingKept ==
  ASSUME Shapes, ClosingDeletes, Step PROVE ClosingDeletes'
<1>1. ASSUME \A l \in Calls : calls[l].kind = "delete" => calls'[l].kind = "delete",
             page'.closing = page.closing
      PROVE  ClosingDeletes'
  BY <1>1 DEF ClosingDeletes
<1>2. ASSUME NEW k \in Calls, Reattach(k) PROVE ClosingDeletes'
  BY <1>1, <1>2, ReattachPage, ReattachCalls DEF Reattach
<1>3. ASSUME NEW k \in Calls, AskForVM(k) PROVE ClosingDeletes'
  BY <1>1, <1>3, AskCalls DEF AskForVM
<1>4. ASSUME NEW k \in Calls, GiveUp(k) PROVE ClosingDeletes'
  BY <1>1, <1>4, GiveUpPage DEF GiveUp
<1>5. ASSUME NEW k \in Calls, Described(k) PROVE ClosingDeletes'
  BY <1>1, <1>5, DescribedPage DEF Described
<1>6. ASSUME NEW k \in Calls, Deleted(k) PROVE ClosingDeletes'
  BY <1>6, DeletedPage DEF ClosingDeletes
<1>7. ASSUME NEW s \in Sockets, Closed(s) PROVE ClosingDeletes'
  <2>1. page'.closing = page.closing /\ (calls' = calls \/ \E n : Sends(calls, n, "describe"))
    BY <1>7, ClosedPage
  <2> QED BY <1>1, <2>1 DEF Sends
<1>8. CASE NewBoot
  BY <1>8, NewBootPage DEF ClosingDeletes
<1>9. CASE NewVM
  BY <1>9, NewVMPage DEF ClosingDeletes, Sends
<1>10. CASE Retry
  BY <1>1, <1>10, RetryPage DEF Retry
<1> QED BY <1>1, <1>2, <1>3, <1>4, <1>5, <1>6, <1>7, <1>8, <1>9, <1>10, ServerSteps

(* A page without a VM is booting, unless it says that it is not. *)
LEMMA NoVMKept ==
  ASSUME Shapes, NoVMBoots, Step PROVE NoVMBoots'
<1>1. ASSUME \A l \in Calls : calls[l].kind \in {"current", "post"} => calls'[l].kind = calls[l].kind,
             page'.sessionId = page.sessionId, page'.overlay = "none" => page.overlay = "none",
             bootLost' = bootLost
      PROVE  NoVMBoots'
  BY <1>1 DEF NoVMBoots, BootCalls
<1>2. ASSUME NEW n \in Calls, calls'[n].kind \in {"current", "post"} PROVE NoVMBoots'
  BY <1>2 DEF NoVMBoots, BootCalls
<1>3. ASSUME NEW k \in Calls, Reattach(k) PROVE NoVMBoots'
  BY <1>3, ReattachPage DEF NoVMBoots
<1>4. ASSUME NEW k \in Calls, AskForVM(k) PROVE NoVMBoots'
  BY <1>2, <1>4, AskCalls
<1>5. ASSUME NEW k \in Calls, GiveUp(k) PROVE NoVMBoots'
  BY <1>5, GiveUpPage DEF NoVMBoots
<1>6. ASSUME NEW k \in Calls, Described(k) PROVE NoVMBoots'
  BY <1>1, <1>6, DescribedPage DEF Described
<1>7. ASSUME NEW k \in Calls, Deleted(k) PROVE NoVMBoots'
  BY <1>2, <1>7, DeletedPage DEF Sends
<1>8. ASSUME NEW s \in Sockets, Closed(s) PROVE NoVMBoots'
  <2>1. /\ page'.sessionId = page.sessionId /\ (page'.overlay = "none" => page.overlay = "none")
        /\ calls' = calls \/ \E n : Sends(calls, n, "describe")
    BY <1>8, ClosedPage
  <2>2. bootLost' = bootLost
    BY <1>8 DEF Closed
  <2> QED BY <1>1, <2>1, <2>2 DEF Sends
<1>9. CASE NewBoot
  BY <1>2, <1>9, NewBootPage DEF Sends
<1>10. CASE NewVM
  <2>1. /\ page'.sessionId = page.sessionId /\ page'.overlay = page.overlay
        /\ \E n : Sends(calls, n, "delete")
    BY <1>10, NewVMPage
  <2>2. bootLost' = bootLost
    BY <1>10 DEF NewVM
  <2> QED BY <1>1, <2>1, <2>2 DEF Sends
<1>11. CASE Retry
  BY <1>1, <1>11, RetryPage DEF Retry
<1> QED BY <1>1, <1>3, <1>4, <1>5, <1>6, <1>7, <1>8, <1>9, <1>10, <1>11, ServerSteps

(* A page without an overlay waits for something, or has a socket. *)
LEMMA WaitsKept ==
  ASSUME Shapes, WaitsOrWorks, ClosingDeletes, NoVMBoots, Step, Shapes' PROVE WaitsOrWorks'
<1>1. 0 \notin Sockets
  BY PageAssumption
<1>2. ASSUME NEW n \in Calls, calls'[n].kind # "free" PROVE WaitsOrWorks'
  BY <1>2 DEF WaitsOrWorks, BusyCalls
<1>3. ASSUME page'.ws \in Sockets PROVE WaitsOrWorks'
  BY <1>1, <1>3 DEF WaitsOrWorks
<1>4. ASSUME /\ \A k \in Calls : calls'[k].kind = calls[k].kind
             /\ page'.ws = page.ws /\ page'.timer = page.timer
             /\ page'.overlay = page.overlay /\ bootLost' = bootLost
      PROVE  WaitsOrWorks'
  BY <1>4 DEF WaitsOrWorks, BusyCalls
<1>5. ASSUME NEW k \in Calls, Reattach(k) PROVE WaitsOrWorks'
  BY <1>3, <1>5, ReattachPage
<1>6. ASSUME NEW k \in Calls, AskForVM(k) PROVE WaitsOrWorks'
  BY <1>2, <1>6, AskCalls
<1>7. ASSUME NEW k \in Calls, GiveUp(k) PROVE WaitsOrWorks'
  BY <1>7, GiveUpPage DEF WaitsOrWorks
<1>8. ASSUME NEW k \in Calls, Described(k) PROVE WaitsOrWorks'
  BY <1>8, DescribedPage DEF WaitsOrWorks
<1>9. ASSUME NEW k \in Calls, Deleted(k) PROVE WaitsOrWorks'
  BY <1>2, <1>9, DeletedPage DEF Sends
<1>10. ASSUME NEW s \in Sockets, Closed(s) PROVE WaitsOrWorks'
  <2>1. \/ page.closing /\ calls' = calls
        \/ page'.overlay = "gone"
        \/ \E n : Sends(calls, n, "describe")
    BY <1>10, ClosedPage
  <2>2. CASE page.closing /\ calls' = calls
    <3>1. PICK k \in Calls : calls[k].kind = "delete"
      BY <2>2 DEF ClosingDeletes
    <3> QED BY <1>2, <2>2, <3>1
  <2>3. CASE page'.overlay = "gone"
    BY <2>3 DEF WaitsOrWorks
  <2>4. CASE \E n : Sends(calls, n, "describe")
    BY <1>2, <2>4 DEF Sends
  <2> QED BY <2>1, <2>2, <2>3, <2>4
<1>11. CASE NewBoot
  BY <1>2, <1>11, NewBootPage DEF Sends
<1>12. CASE NewVM
  BY <1>2, <1>12, NewVMPage DEF Sends
<1>13. CASE Retry
  <2>1. calls' = calls /\ bootLost' = bootLost /\ page'.overlay = page.overlay
    BY <1>13, RetryPage DEF Retry
  <2>2. page.sessionId = 0 \/ page'.ws \in Sockets
    BY <1>13, RetryPage
  <2>3. CASE page.sessionId = 0
    BY <2>1, <2>3 DEF NoVMBoots, WaitsOrWorks, BootCalls, BusyCalls
  <2> QED BY <1>3, <2>2, <2>3
<1> QED BY <1>4, <1>5, <1>6, <1>7, <1>8, <1>9, <1>10, <1>11, <1>12, <1>13, ServerSteps
(* One boot() at a time finds the live VM or makes the only one. *)
LEMMA OneBootKept ==
  ASSUME Shapes, OneBoot, Step PROVE OneBoot'
<1> DEFINE Goal ==
      /\ \A k, l \in BootCalls(calls') : k = l
      /\ \A k \in BootCalls(calls') :
           calls'[k].ans = (IF calls'[k].kind = "post" THEN "sent" ELSE "no")
             => live' \cup booting' = {}
      /\ \A v \in booting' :
           \E k \in BootCalls(calls') : calls'[k].ans = "booting" /\ calls'[k].id = v
      /\ \A v, w \in live' \cup booting' : v = w
<1>1. SUFFICES ASSUME ~overlapped', ~orphaned' PROVE Goal
  BY DEF OneBoot, BootCalls
<1>2. ~overlapped /\ ~orphaned
  <2>1. ~overlapped
    BY <1>1 DEF Step, Served, PostOver, BootOver, Failed, Opened, Breaks, VMEnds, OtherTab, DaemonStops,
                DaemonStarts, Reattach, AskForVM, GiveUp, Described, Deleted, Booting, Closed, Retry,
                NewBoot, NewVM
  <2>2. ~orphaned
    BY <1>1 DEF Step, Served, PostOver, BootOver, Failed, Opened, Breaks, VMEnds, OtherTab, DaemonStops,
                DaemonStarts, Reattach, AskForVM, GiveUp, Described, Deleted, Booting, Closed, Retry,
                NewBoot, NewVM, serverVars
  <2> QED BY <2>1, <2>2
<1>3. /\ \A k, l \in BootCalls(calls) : k = l
      /\ \A k \in BootCalls(calls) :
           calls[k].ans = (IF calls[k].kind = "post" THEN "sent" ELSE "no") => live \cup booting = {}
      /\ \A v \in booting : \E k \in BootCalls(calls) : calls[k].ans = "booting" /\ calls[k].id = v
      /\ \A v, w \in live \cup booting : v = w
  BY <1>2 DEF OneBoot
<1>w. \A l \in Calls : calls[l].ans = "booting" => calls[l].kind = "post"
  BY DEF Shapes, CallShapes, CallOK
<1>n. ASSUME NEW k \in BootCalls(calls), calls[k].ans # "booting" \/ calls[k].id \notin booting
      PROVE  booting = {}
  BY <1>3, <1>n
<1>4. ASSUME live' \subseteq live, booting' = booting,
             \A l \in Calls : calls'[l].kind \in {"current", "post"} => calls'[l] = calls[l],
             \A l \in Calls : calls[l].ans = "booting" => calls'[l] = calls[l]
      PROVE  Goal
  <2>1. BootCalls(calls') \subseteq BootCalls(calls)
    BY <1>4 DEF BootCalls
  <2>2. \A k \in BootCalls(calls') : calls'[k] = calls[k]
    BY <1>4 DEF BootCalls
  <2>3. \A k \in BootCalls(calls) : calls[k].ans = "booting" => k \in BootCalls(calls') /\ calls'[k] = calls[k]
    BY <1>4 DEF BootCalls
  <2>4. \A k, l \in BootCalls(calls') : k = l
    BY <1>3, <2>1
  <2>5. \A k \in BootCalls(calls') :
          calls'[k].ans = (IF calls'[k].kind = "post" THEN "sent" ELSE "no") => live' \cup booting' = {}
    BY <1>3, <1>4, <2>1, <2>2
  <2>6. ASSUME NEW v \in booting'
        PROVE  \E k \in BootCalls(calls') : calls'[k].ans = "booting" /\ calls'[k].id = v
    <3>1. PICK k \in BootCalls(calls) : calls[k].ans = "booting" /\ calls[k].id = v
      BY <1>3, <1>4
    <3> QED BY <2>3, <3>1
  <2>7. \A v, w \in live' \cup booting' : v = w
    BY <1>3, <1>4
  <2> QED BY <2>4, <2>5, <2>6, <2>7
<1>5. ASSUME NEW k \in Calls, Served(k) PROVE Goal
  <2>1. \A l \in Calls : calls'[l].kind = calls[l].kind
    BY <1>5 DEF Served, Reply
  <2>2. calls[k].ans = "sent" /\ \A l \in Calls \ {k} : calls'[l] = calls[l]
    BY <1>5 DEF Served, Reply
  <2>b. BootCalls(calls') = BootCalls(calls)
    BY <2>1 DEF BootCalls
  <2>3. CASE calls[k].kind \in {"describe", "delete"}
    <3>1. live' \subseteq live /\ booting' = booting
      BY <1>5, <2>3 DEF Served, VMExits, hostVars
    <3> QED BY <1>4, <2>1, <2>2, <2>3, <3>1
  <2>4. CASE calls[k].kind = "current"
    <3>1. live' = live /\ booting' = booting /\ calls'[k].ans = (IF live = {} THEN "no" ELSE "yes")
      BY <1>5, <2>4 DEF Served, Reply, hostVars
    <3>2. k \in BootCalls(calls) /\ booting = {}
      BY <1>n, <2>2, <2>4 DEF BootCalls
    <3>3. \A l \in BootCalls(calls) : l = k
      BY <1>3, <3>2
    <3> QED BY <1>3, <2>1, <2>b, <2>4, <3>1, <3>2, <3>3
  <2>5. CASE calls[k].kind = "post"
    <3>1. k \in BootCalls(calls) /\ live = {} /\ booting = {}
      BY <1>3, <2>2, <2>5 DEF BootCalls
    <3>2. live' = live
      BY <1>5, <2>5 DEF Served, hostVars
    <3>3. \/ /\ booting' = booting \cup {minted + 1}
             /\ calls'[k].ans = "booting" /\ calls'[k].id = minted + 1
          \/ booting' = booting /\ calls'[k].ans = "no"
      BY <1>5, <2>5 DEF Served, Reply, hostVars
    <3>4. calls'[k].kind = "post" /\ \A l \in BootCalls(calls') : l = k
      BY <1>3, <2>1, <2>5, <2>b, <3>1
    <3>5. CASE /\ booting' = booting \cup {minted + 1}
               /\ calls'[k].ans = "booting" /\ calls'[k].id = minted + 1
      <4>1. live' \cup booting' = {minted + 1} /\ \A v \in booting' : v = minted + 1
        BY <3>1, <3>2, <3>5
      <4> QED BY <2>b, <3>1, <3>4, <3>5, <4>1
    <3>6. CASE booting' = booting /\ calls'[k].ans = "no"
      BY <3>1, <3>2, <3>4, <3>6
    <3> QED BY <3>3, <3>5, <3>6
  <2> QED BY <1>5, <2>3, <2>4, <2>5 DEF Served
<1>b. ASSUME NEW v \in VMs, BootOver(v) PROVE Goal
  <2>1. v \in booting /\ booting' = {} /\ live' \subseteq live \cup booting
    BY <1>3, <1>b DEF BootOver
  <2>2. BootCalls(calls') = BootCalls(calls)
    BY <1>b DEF BootOver, Woken, BootCalls
  <2>3. ASSUME NEW l \in BootCalls(calls)
        PROVE  calls'[l].ans # (IF calls'[l].kind = "post" THEN "sent" ELSE "no")
    <3>1. l \in Calls /\ calls[l].ans # (IF calls[l].kind = "post" THEN "sent" ELSE "no")
      BY <1>3, <2>1, <2>3 DEF BootCalls
    <3>2. CASE calls'[l] = calls[l]
      BY <3>1, <3>2
    <3>3. CASE calls[l].ans = "booting" /\ calls'[l].kind = calls[l].kind /\ calls'[l].ans \in {"no", "error"}
      BY <1>w, <3>1, <3>3
    <3> QED BY <1>b, <3>1, <3>2, <3>3 DEF BootOver, Woken
  <2> QED BY <1>3, <2>1, <2>2, <2>3
<1>p. ASSUME NEW k \in Calls, PostOver(k) PROVE Goal
  <2>1. /\ \A l \in Calls : calls'[l].kind = calls[l].kind
        /\ calls'[k].ans \in {"yes", "no"} /\ calls[k].kind = "post"
    BY <1>p, <1>w DEF PostOver, Reply
  <2>2. BootCalls(calls') = BootCalls(calls) /\ k \in BootCalls(calls)
    BY <2>1 DEF BootCalls
  <2>3. booting = {} /\ booting' = {} /\ live' \subseteq live
    BY <1>n, <1>p, <2>2 DEF PostOver, VMExits
  <2>4. \A l \in BootCalls(calls) : l = k
    BY <1>3, <2>2
  <2> QED BY <1>3, <2>1, <2>2, <2>3, <2>4
<1>6. ASSUME NEW k \in Calls, Failed(k) PROVE Goal
  <2>1. /\ \A l \in Calls : calls'[l].kind = calls[l].kind
        /\ calls'[k].ans = "error" /\ \A l \in Calls \ {k} : calls'[l] = calls[l]
    BY <1>6 DEF Failed, Reply
  <2>2. live' = live /\ booting' = booting /\ ~(calls[k].ans = "booting" /\ calls[k].id \in booting)
    BY <1>1, <1>6 DEF Failed, hostVars
  <2>3. BootCalls(calls') = BootCalls(calls)
    BY <2>1 DEF BootCalls
  <2>4. \A l \in BootCalls(calls) :
          calls'[l].ans = (IF calls'[l].kind = "post" THEN "sent" ELSE "no") => live' \cup booting' = {}
    BY <1>3, <2>1, <2>2 DEF BootCalls
  <2>5. ASSUME NEW v \in booting
        PROVE  \E l \in BootCalls(calls) : calls'[l].ans = "booting" /\ calls'[l].id = v
    <3>1. PICK l \in BootCalls(calls) : calls[l].ans = "booting" /\ calls[l].id = v
      BY <1>3
    <3>2. l \in Calls \ {k}
      BY <2>2, <3>1 DEF BootCalls
    <3> QED BY <2>1, <3>1, <3>2
  <2> QED BY <1>3, <2>2, <2>3, <2>4, <2>5
<1>7. ASSUME NEW s \in Sockets, Opened(s) \/ Breaks(s) PROVE Goal
  BY <1>4, <1>7 DEF Opened, Breaks, hostVars
<1>8. ASSUME NEW v \in VMs, VMEnds(v) \/ OtherTab(v) PROVE Goal
  <2>1. live' \subseteq live /\ booting' = booting /\ calls' = calls
    BY <1>8 DEF VMEnds, OtherTab, VMExits, hostVars
  <2> QED BY <1>4, <2>1
<1>9. CASE DaemonStarts \/ Retry
  <2>1. live' = live /\ booting' = booting /\ calls' = calls
    BY <1>9 DEF DaemonStarts, Retry, serverVars, hostVars
  <2> QED BY <1>4, <2>1
<1>s. CASE DaemonStops
  <2>1. live' = {} /\ booting' = {}
    BY <1>s DEF DaemonStops
  <2>2. BootCalls(calls') = BootCalls(calls)
    BY <1>s, StopWakes DEF Woken, BootCalls
  <2> QED BY <1>3, <2>1, <2>2
<1>10. ASSUME NEW k \in Calls, calls' = Freed(k), calls[k].ans # "booting", UNCHANGED hostVars PROVE Goal
  <2>1. Freed(k)[k].kind = "free" /\ \A l \in Calls \ {k} : Freed(k)[l] = calls[l]
    BY FreedFrees DEF Shapes
  <2>2. live' = live /\ booting' = booting
    BY <1>10 DEF hostVars
  <2> QED BY <1>4, <1>10, <2>1, <2>2
<1>11. ASSUME NEW k \in Calls, Reattach(k) \/ GiveUp(k) \/ Described(k) PROVE Goal
  <2>1. calls' = Freed(k) /\ calls[k].ans # "booting"
    BY <1>11, <1>w DEF Reattach, GiveUp, Described
  <2>2. UNCHANGED hostVars
    BY <1>11 DEF Reattach, GiveUp, Described, serverVars
  <2> QED BY <1>10, <2>1, <2>2
<1>12. ASSUME NEW k \in Calls, AskForVM(k) PROVE Goal
  <2>1. live' = {} /\ booting' = {}
    <3>1. k \in BootCalls(calls) /\ calls[k].kind = "current" /\ calls[k].ans = "no"
      BY <1>12 DEF AskForVM, BootCalls
    <3>2. live = {} /\ booting = {}
      BY <1>3, <3>1
    <3> QED BY <1>12, <3>2 DEF AskForVM, serverVars, hostVars
  <2>2. BootCalls(calls') = BootCalls(calls)
    BY <1>12, AskCalls DEF AskForVM, BootCalls
  <2> QED BY <1>3, <2>1, <2>2
<1>13. ASSUME NEW cs, NEW n, Sends(cs, n, "current"), BootCalls(cs) = {}, BootCalls(calls) = {},
              UNCHANGED hostVars
       PROVE  Goal
  <2>1. \A l \in BootCalls(calls') : l = n /\ calls'[l].kind = "current" /\ calls'[l].ans = "sent"
    BY <1>13 DEF Sends, BootCalls
  <2>2. live' = live /\ booting' = {}
    BY <1>3, <1>13 DEF hostVars
  <2> QED BY <1>3, <2>1, <2>2
<1>14. ASSUME NEW k \in Calls, Deleted(k) PROVE Goal
  <2>1. \E n : Sends(Freed(k), n, "current")
    BY <1>14, DeletedPage
  <2>2. BootCalls(Freed(k)) = {} /\ UNCHANGED hostVars /\ calls[k].kind = "delete"
    BY <1>1, <1>14 DEF Deleted, Booting, serverVars
  <2>3. BootCalls(calls) = {}
    <3>1. \A l \in Calls \ {k} : Freed(k)[l] = calls[l]
      BY FreedFrees DEF Shapes
    <3> QED BY <2>2, <3>1 DEF BootCalls
  <2> QED BY <1>13, <2>1, <2>2, <2>3
<1>15. CASE NewBoot
  <2>1. \E n : Sends(calls, n, "current")
    BY <1>15, NewBootPage
  <2>2. BootCalls(calls) = {} /\ UNCHANGED hostVars
    BY <1>1, <1>15, NewBootPage DEF serverVars
  <2> QED BY <1>13, <2>1, <2>2
<1>16. ASSUME NEW n, NEW kind \in {"describe", "delete"}, Sends(calls, n, kind), UNCHANGED hostVars
       PROVE  Goal
  <2>1. \A l \in Calls : calls'[l].kind \in {"current", "post"} => calls'[l] = calls[l]
    BY <1>16 DEF Sends
  <2>2. \A l \in Calls : calls[l].ans = "booting" => calls'[l] = calls[l]
    BY <1>16, <1>w DEF Sends
  <2>3. live' = live /\ booting' = booting
    BY <1>16 DEF hostVars
  <2> QED BY <1>4, <2>1, <2>2, <2>3
<1>17. ASSUME NEW s \in Sockets, Closed(s) PROVE Goal
  <2>1. UNCHANGED hostVars
    BY <1>17 DEF Closed, serverVars
  <2>2. CASE calls' = calls
    BY <1>4, <2>1, <2>2 DEF hostVars
  <2>3. CASE \E n : Sends(calls, n, "describe")
    BY <1>16, <2>1, <2>3
  <2> QED BY <1>17, <2>2, <2>3, ClosedPage
<1>18. CASE NewVM
  <2>1. UNCHANGED hostVars /\ \E n : Sends(calls, n, "delete")
    BY <1>18, NewVMPage DEF NewVM, serverVars
  <2> QED BY <1>16, <2>1
<1> QED BY <1>5, <1>b, <1>p, <1>6, <1>7, <1>8, <1>9, <1>s, <1>11, <1>12, <1>14, <1>15, <1>17,
           <1>18 DEF Step

-----------------------------------------------------------------------------
(* The page has just been loaded. *)
LEMMA InitHolds == Init => PInv
<1> SUFFICES ASSUME Init PROVE PInv
  OBVIOUS
<1> DEFINE cs == [k \in Calls |-> FreeCall]
<1>1. /\ calls = Placed(cs, "current", 0) /\ socks = [s \in Sockets |-> FreeSocket]
      /\ page = [sessionId |-> 0, ws |-> 0, closing |-> FALSE, attempts |-> 0,
                 timer |-> FALSE, overlay |-> "none"]
      /\ live = {} /\ booting = {} /\ minted = 0 /\ orphaned = FALSE /\ up = TRUE
      /\ subscriber = [v \in VMs |-> 0]
      /\ overlapped = FALSE /\ bootLost = FALSE /\ clicks = 0 /\ faults = 0
  BY DEF Init
<1>2. CallShapes(cs)
  BY Parts DEF CallShapes
<1>3. \E m \in Calls : TRUE
  <2>1. Cardinality(Calls) # 0 /\ IsFiniteSet(Calls)
    <3>1. MaxClicks \in Nat /\ Cardinality(Calls) > MaxClicks + 1
      BY PageAssumption
    <3> QED BY <3>1, PageAssumption, SMTT(60)
  <2> QED BY <2>1, FS_EmptySet
<1>4. PICK n \in Calls : n = Fresh(cs, FreeCall)
  <2>1. DOMAIN cs = Calls /\ Calls \subseteq Nat /\ \A m \in Calls : cs[m] = FreeCall
    BY PageAssumption
  <2> HIDE DEF cs
  <2> QED BY <1>3, <2>1, FreshName
<1>5. calls = [cs EXCEPT ![n] = Request("current", 0)]
  BY <1>1, <1>4 DEF Placed
<1>6. Request("current", 0) \in Call /\ CallOK(Request("current", 0)) /\ Request("current", 0).kind = "current"
  BY Parts
<1>7. /\ CallShapes(calls)
      /\ \A l \in Calls : calls[l] = IF l = n THEN Request("current", 0) ELSE FreeCall
  <2>1. \A l \in Calls : cs[l] = FreeCall
    OBVIOUS
  <2> HIDE DEF cs
  <2>2. PICK c \in Call : c = Request("current", 0) /\ CallOK(c)
    BY <1>6
  <2>3. /\ CallShapes([cs EXCEPT ![n] = c])
        /\ \A l \in Calls : [cs EXCEPT ![n] = c][l] = IF l = n THEN c ELSE cs[l]
    BY <1>2, <2>2, CallSet, SMTT(60)
  <2> QED BY <1>5, <2>1, <2>2, <2>3
<1>8. SocketShapes(socks) /\ \A s \in Sockets : socks[s].at = "free"
  BY <1>1, Parts DEF SocketShapes
<1>9. page \in Page
  BY <1>1, Parts DEF Page
<1>10. Shapes
  <2>1. /\ live \subseteq 1..minted /\ booting \subseteq 1..minted /\ minted \in 0..MaxVMs
        /\ live \cap booting = {}
    BY <1>1, Parts
  <2>2. 0 \in 0..MaxClicks /\ 0 \in Nat
    BY PageAssumption, SMTT(60)
  <2>3. subscriber \in [VMs -> Sockets \cup {0, -1}]
    BY <1>1
  <2> QED BY <1>1, <1>7, <1>8, <1>9, <2>1, <2>2, <2>3 DEF Shapes
<1>11. BusyCalls = {n} /\ BootCalls(calls) = {n} /\ BusySockets = {}
  BY <1>6, <1>7, <1>8, Parts, SMTT(60) DEF BusyCalls, BootCalls, BusySockets
<1>12. OnePerClick
  <2>1. Cardinality({n}) = 1 /\ Cardinality({}) = 0
    BY FS_Singleton, FS_EmptySet
  <2>2. Timers = 0
    BY <1>1 DEF Timers
  <2> QED BY <1>1, <1>11, <2>1, <2>2, SMTT(60) DEF OnePerClick
<1>13. page.ws = 0 /\ page.closing = FALSE
  BY <1>1
<1>14. OneBoot
  <2>1. \A k, l \in BootCalls(calls) : k = l
    BY <1>11
  <2> QED BY <1>1, <2>1 DEF OneBoot
<1>15. AttachedToLive /\ SocketIsCurrent /\ OutputComes /\ ClosingDeletes
  BY <1>1, <1>8, <1>13 DEF AttachedToLive, SocketIsCurrent, OutputComes, ClosingDeletes, Open
<1>16. NoVMBoots /\ WaitsOrWorks
  BY <1>11 DEF NoVMBoots, WaitsOrWorks
<1> QED BY <1>10, <1>12, <1>14, <1>15, <1>16 DEF PInv

(* Every step preserves all of it. *)
LEMMA StepHolds == PInv /\ [Next]_vars => PInv'
<1> SUFFICES ASSUME PInv, [Next]_vars PROVE PInv'
  OBVIOUS
<1>1. CASE UNCHANGED vars
  <2>1. /\ UNCHANGED <<page, calls, socks, live, booting, minted, orphaned, subscriber>>
        /\ UNCHANGED <<up, overlapped, bootLost, clicks, faults>>
    BY <1>1 DEF vars, serverVars, hostVars, budgets
  <2>2. Shapes' /\ OnePerClick'
    BY <2>1 DEF PInv, Shapes, OnePerClick, BusyCalls, BusySockets, Timers
  <2>3. SocketIsCurrent' /\ AttachedToLive' /\ OutputComes'
    BY <2>1 DEF PInv, SocketIsCurrent, AttachedToLive, OutputComes, Open
  <2>6. OneBoot'
    <3>1. BootCalls(calls') = BootCalls(calls) /\ OneBoot
      BY <2>1 DEF PInv
    <3> QED BY <2>1, <3>1 DEF OneBoot
  <2>4. ClosingDeletes' /\ NoVMBoots'
    BY <2>1 DEF PInv, ClosingDeletes, NoVMBoots, BootCalls
  <2>5. WaitsOrWorks'
    BY <2>1 DEF PInv, WaitsOrWorks, BusyCalls
  <2> QED BY <2>2, <2>3, <2>4, <2>5, <2>6 DEF PInv
<1>2. CASE Next
  <2>1. Step
    BY <1>2, NextIsStep DEF PInv
  <2>2. Shapes'
    BY <2>1, ShapesKept DEF PInv
  <2>3. OnePerClick'
    BY <2>1, <2>2, OnePerClickKept DEF PInv
  <2>4. SocketIsCurrent' /\ OneBoot' /\ OutputComes' /\ ClosingDeletes' /\ NoVMBoots'
    BY <2>1, CurrentKept, OneBootKept, OutputKept, ClosingKept, NoVMKept DEF PInv
  <2>5. AttachedToLive' /\ WaitsOrWorks'
    BY <2>1, <2>2, AttachedKept, WaitsKept DEF PInv
  <2> QED BY <2>2, <2>3, <2>4, <2>5 DEF PInv
<1> QED BY <1>1, <1>2

(* The inductive invariant holds in every state. *)
LEMMA PageInvariant == Safety => []PInv
  BY InitHolds, StepHolds, PTL DEF Safety

(* The names for fetches and sockets never run out, and every variable of  *)
(* the page has its type: what is in flight was started by loading the     *)
(* page or by a click, since a callback starts at most one thing.          *)
THEOREM PageTypeCorrect == Safety => []TypeOK
<1>1. PInv => TypeOK
  <2> SUFFICES ASSUME PInv PROVE TypeOK
    OBVIOUS
  <2>1. (\E k \in Calls : calls[k] = FreeCall) /\ (\E s \in Sockets : socks[s] = FreeSocket)
    BY NamesLeft DEF PInv
  <2>2. ASSUME NEW s \in Sockets, socks[s].at # "free" PROVE socks[s].vm \in VMs
    <3>1. socks[s].vm \in 0..MaxVMs /\ socks[s].vm # 0
      BY <2>2 DEF PInv, Shapes, SocketShapes, SocketOK, Socket
    <3>2. MaxVMs \in Nat
      BY PageAssumption
    <3> QED BY <3>1, <3>2, SMTT(60) DEF VMs
  <2> QED BY <2>1, <2>2 DEF PInv, Shapes, TypeOK, Page
<1> QED BY <1>1, PageInvariant, PTL

(* What is typed never goes to another VM than the page's current one, in  *)
(* any order of answers, closes, reconnects and clicks: connect() sets     *)
(* the socket together with the VM, and every onclose clears it.           *)
THEOREM InputStaysWithVM == Safety => []InputGoesToCurrent
<1>1. PInv => InputGoesToCurrent
  BY DEF PInv, SocketIsCurrent, InputGoesToCurrent, Open
<1> QED BY <1>1, PageInvariant, PTL

(* "Find a live VM or boot one": with one boot() at a time, none of whose  *)
(* POSTs fails while its VM boots, the page's owner has at most one VM,    *)
(* live or booting, for any number of faults and clicks.                   *)
THEOREM OneVMForOwner == Safety => []OneVMPerOwner
<1>1. PInv => OneVMPerOwner
  <2> DEFINE made == live \cup booting
  <2> SUFFICES ASSUME PInv, ~overlapped, ~orphaned PROVE Cardinality(made) <= 1
    BY DEF OneVMPerOwner
  <2>1. \A v, w \in made : v = w
    BY DEF PInv, OneBoot
  <2> HIDE DEF made
  <2>2. CASE made = {}
    <3>1. Cardinality(made) = 0
      BY <2>2, FS_EmptySet
    <3> QED BY <3>1, SMTT(60)
  <2>3. CASE made # {}
    <3>1. PICK v \in made : TRUE
      BY <2>3
    <3>2. made = {v}
      BY <2>1, <3>1
    <3>3. Cardinality(made) = 1
      BY <3>2, FS_Singleton
    <3> QED BY <3>3, SMTT(60)
  <2> QED BY <2>2, <2>3
<1> QED BY <1>1, PageInvariant, PTL

(* When everything in flight has arrived, a page that shows no overlay and *)
(* whose last boot() lost no fetch is a working terminal: its socket is    *)
(* open, to the page's live VM, and gets the VM's output unless another    *)
(* tab has taken the console.                                              *)
THEOREM RestingPageWorks == Safety => []SettledPageWorks
<1>1. PInv => SettledPageWorks
  <2> SUFFICES ASSUME PInv, Settled, page.overlay = "none", ~bootLost
               PROVE  /\ page.sessionId \in live
                      /\ Open(page.ws) /\ socks[page.ws].vm = page.sessionId
                      /\ subscriber[page.sessionId] = -1 \/ Open(subscriber[page.sessionId])
    BY DEF SettledPageWorks
  <2>1. /\ ~page.timer /\ \A k \in Calls : calls[k].kind = "free"
        /\ \A s \in Sockets : socks[s].at \in {"free", "open"}
    BY DEF Settled, FreeCall
  <2>2. page.ws # 0
    BY <2>1 DEF PInv, WaitsOrWorks, BusyCalls
  <2>3. page.sessionId # 0
    BY <2>1 DEF PInv, NoVMBoots, BootCalls
  <2>4. page.ws \in Sockets /\ subscriber \in [VMs -> Sockets \cup {0, -1}]
    BY <2>2 DEF PInv, Shapes, Page
  <2>5. socks[page.ws].vm = page.sessionId /\ Open(page.ws)
    BY <2>1, <2>2, <2>3, <2>4 DEF PInv, SocketIsCurrent, Open
  <2>6. page.sessionId \in live
    BY <2>4, <2>5 DEF PInv, AttachedToLive, Open
  <2>7. subscriber[page.sessionId] # 0
    BY <2>1, <2>5 DEF PInv, OutputComes
  <2>8. page.sessionId \in VMs
    <3>1. page.sessionId \in 0..MaxVMs /\ MaxVMs \in Nat
      BY PageAssumption DEF PInv, Shapes, Page
    <3> QED BY <2>3, <3>1, SMTT(60) DEF VMs
  <2>9. subscriber[page.sessionId] = -1 \/ subscriber[page.sessionId] \in Sockets
    BY <2>4, <2>7, <2>8
  <2>10. ASSUME subscriber[page.sessionId] \in Sockets PROVE Open(subscriber[page.sessionId])
    BY <2>1, <2>6, <2>7, <2>10 DEF PInv, AttachedToLive, Open
  <2> QED BY <2>5, <2>6, <2>9, <2>10
<1> QED BY <1>1, PageInvariant, PTL
=============================================================================
