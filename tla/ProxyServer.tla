----------------------------- MODULE ProxyServer ----------------------------
(***************************************************************************)
(* The Anthropic proxy: concurrent forwards with their quota, the key pool *)
(* and its rotation (proxy/internal/server/server.go, internal/keys and    *)
(* internal/quota).                                                        *)
(*                                                                         *)
(* A handler is one goroutine slot of the HTTP server that serves one      *)
(* /v1/ request after another.  A key is its ID and its secret.  Tokens    *)
(* of an answer are a pair from Usages; ProxyDaemon says where they come   *)
(* from, and has the audit records and the process's shutdown.             *)
(***************************************************************************)
EXTENDS Quota, Sequences, FiniteSets, Functions

CONSTANTS
  Handlers,   \* forwards that run at once
  Rotators,   \* POST /admin/rotate requests
  Sessions,   \* session tokens
  Pools,      \* key lists an operator loads: sequences of [id, secret]
  Usages,     \* <<input, output>> tokens an answer reports
  MaxStarts, MaxTime,  \* bounds: requests, clock
  None

ASSUME ProxyAssumption ==
  /\ IsFiniteSet(Handlers)
  /\ \A ks \in Pools : ks \in Seq(Range(ks))
  /\ Usages \subseteq Nat \X Nat
  /\ {MaxStarts, MaxTime} \subseteq Nat
  /\ None \notin Buckets

VARIABLES
  clock,
  buckets,       \* quota.Manager.buckets: a bucket per session, or None
  keys,          \* Pool.keys
  keyBySecret,   \* Pool.keyBySecret: the key with an ID, or None
  sessionToKey,  \* Pool.sessionToKey: the ID of the session's key, or None
  rr,            \* Pool.rr
  inflight,      \* Server.inflight
  handler,       \* handler[h]: where handleForward of h is
  rotate,        \* rotate[r]: handleAdminRotate
  next,          \* next[r]: the key list it was sent
  waiter,        \* waiter[r]: its drain goroutine
  held,          \* history: slots of s's window taken and not given back
  starts, swaps  \* requests and swaps so far

quotaVars == <<buckets, held>>
poolVars == <<keys, keyBySecret, sessionToKey, rr>>
rotateVars == <<rotate, next, swaps>>
vars == <<clock, quotaVars, poolVars, inflight, handler, rotateVars, waiter, starts>>

-----------------------------------------------------------------------------
Keys == UNION {Range(ks) : ks \in Pools}
IDs == {k.id : k \in Keys}

(* The map Replace builds: the last key of the list with each ID. *)
ById(ks) ==
  [id \in IDs |-> IF \E i \in 1..Len(ks) : ks[i].id = id
                   THEN CHOOSE k \in Range(ks) : \E i \in 1..Len(ks) :
                          k = ks[i] /\ k.id = id /\ \A j \in (i + 1)..Len(ks) : ks[j].id # id
                   ELSE None]

(* handler[h]: the session, the resolved key, and two history fields: the  *)
(* window the slot was taken in and the rotations before the request.      *)
Idle == [pc |-> "idle", session |-> None, key |-> None, window |-> 0, epoch |-> 0]

Init ==
  /\ clock = 0
  /\ buckets = [s \in Sessions |-> None] /\ held = [s \in Sessions |-> 0]
  /\ keys \in Pools /\ keyBySecret = ById(keys)
  /\ sessionToKey = [s \in Sessions |-> None] /\ rr = 0
  /\ inflight = 0 /\ handler = [h \in Handlers |-> Idle]
  /\ rotate = [r \in Rotators |-> "none"] /\ next = [r \in Rotators |-> <<>>]
  /\ waiter = [r \in Rotators |-> "none"]
  /\ starts = 0 /\ swaps = 0

(* get: the session's bucket, made on first use. *)
get(s) == IF buckets[s] = None THEN NewBucket(clock) ELSE buckets[s]

Goto(h, pc) == handler' = [handler EXCEPT ![h].pc = pc]

(* handleAdminMint: a token pinned to the next key, round robin. *)
MintSessionToken(s) ==
  /\ sessionToKey[s] = None /\ keys # <<>>
  /\ sessionToKey' = [sessionToKey EXCEPT ![s] = keys[(rr % Len(keys)) + 1].id]
  /\ rr' = rr + 1
  /\ UNCHANGED <<clock, quotaVars, keys, keyBySecret, inflight, handler, rotateVars, waiter, starts>>

-----------------------------------------------------------------------------
(* A request arrives. *)
Begin(h, s) ==
  /\ handler[h] = Idle /\ starts < MaxStarts
  /\ inflight' = inflight + 1
  /\ handler' = [handler EXCEPT ![h] = [Idle EXCEPT !.pc = "resolve", !.session = s, !.epoch = swaps]]
  /\ starts' = starts + 1
  /\ UNCHANGED <<clock, quotaVars, poolVars, rotateVars, waiter>>

(* SecretForSession: 401 for an unknown token, 503 for a key that has been *)
(* rotated out.                                                            *)
SecretForSession(h) ==
  /\ handler[h].pc = "resolve"
  /\ LET id == sessionToKey[handler[h].session] IN
     IF id = None \/ keyBySecret[id] = None THEN Goto(h, "leave")
     ELSE handler' = [handler EXCEPT ![h].pc = "reserve", ![h].key = keyBySecret[id]]
  /\ UNCHANGED <<clock, quotaVars, poolVars, inflight, rotateVars, waiter, starts>>

(* Quota.Reserve; a refusal is a 429. *)
Reserve(h) ==
  /\ handler[h].pc = "reserve"
  /\ LET s == handler[h].session
         b == Rolled(get(s), clock)
         now == IF b.windowStart = get(s).windowStart THEN held[s] ELSE 0
     IN  IF WithinCaps(b)
           THEN /\ buckets' = [buckets EXCEPT ![s] = SlotTaken(b)]
                /\ held' = [held EXCEPT ![s] = now + 1]
                /\ handler' = [handler EXCEPT ![h].pc = "send", ![h].window = b.windowStart]
           ELSE /\ buckets' = [buckets EXCEPT ![s] = b]
                /\ held' = [held EXCEPT ![s] = now]
                /\ Goto(h, "leave")
  /\ UNCHANGED <<clock, poolVars, inflight, rotateVars, waiter, starts>>

(* Quota.Refund. *)
Refund(h) ==
  LET s == handler[h].session IN
  /\ buckets' = [buckets EXCEPT ![s] = SlotRefunded(get(s))]
  /\ held' = [held EXCEPT ![s] = IF handler[h].window = get(s).windowStart THEN @ - 1 ELSE @]

(* The body is read and the request goes to Anthropic ... *)
Send(h) ==
  /\ handler[h].pc = "send"
  /\ Goto(h, "upstream")
  /\ UNCHANGED <<clock, quotaVars, poolVars, inflight, rotateVars, waiter, starts>>

(* ... a body that cannot be read is refunded ... *)
BodyFails(h) ==
  /\ handler[h].pc = "send"
  /\ Refund(h)
  /\ Goto(h, "leave")
  /\ UNCHANGED <<clock, poolVars, inflight, rotateVars, waiter, starts>>

(* ... an upstream that cannot be reached is refunded ... *)
UpstreamFails(h) ==
  /\ handler[h].pc = "upstream"
  /\ Refund(h)
  /\ Goto(h, "leave")
  /\ UNCHANGED <<clock, poolVars, inflight, rotateVars, waiter, starts>>

(* ... and an answer is streamed to the client, whole or cut short,        *)
(* and its usage committed.                                                *)
Answer(h, usage) ==
  /\ handler[h].pc = "upstream"
  /\ LET s == handler[h].session IN
     buckets' = [buckets EXCEPT ![s] = Committed(get(s), usage[1], usage[2])]
  /\ Goto(h, "leave")
  /\ UNCHANGED <<clock, held, poolVars, inflight, rotateVars, waiter, starts>>

(* drained.Broadcast. *)
Broadcast == waiter' = [r \in Rotators |-> IF waiter[r] = "waiting" THEN "check" ELSE waiter[r]]

(* A Broadcast that looks at the count before it is lowered. *)
LeaveBroadcastsEarly(h) ==
  /\ handler[h].pc = "leave"
  /\ inflight' = inflight - 1
  /\ IF inflight = 0 THEN Broadcast ELSE UNCHANGED waiter
  /\ handler' = [handler EXCEPT ![h] = Idle]
  /\ UNCHANGED <<clock, quotaVars, poolVars, rotateVars, starts>>

(* The deferred function: the last forward out wakes the drains. *)
Leave(h) ==
  /\ handler[h].pc = "leave"
  /\ inflight' = inflight - 1
  /\ IF inflight' = 0 THEN Broadcast ELSE UNCHANGED waiter
  /\ handler' = [handler EXCEPT ![h] = Idle]
  /\ UNCHANGED <<clock, quotaVars, poolVars, rotateVars, starts>>

-----------------------------------------------------------------------------
(* handleAdminRotate: a list of keys; the drain goroutine starts. *)
AdminRotate(r, ks) ==
  /\ rotate[r] = "none" /\ ks # <<>>
  /\ rotate' = [rotate EXCEPT ![r] = "draining"]
  /\ next' = [next EXCEPT ![r] = ks]
  /\ waiter' = [waiter EXCEPT ![r] = "check"]
  /\ UNCHANGED <<clock, quotaVars, poolVars, inflight, handler, swaps, starts>>

(* The goroutine looks at inflight under s.mu, and waits or is done.  It   *)
(* goes on after the rotation has given up on it.                          *)
Drain(r) ==
  /\ waiter[r] = "check"
  /\ waiter' = [waiter EXCEPT ![r] = IF inflight > 0 THEN "waiting" ELSE "done"]
  /\ UNCHANGED <<clock, quotaVars, poolVars, inflight, handler, rotateVars, starts>>

(* select: done is closed ... *)
Drained(r) ==
  /\ rotate[r] = "draining" /\ waiter[r] = "done"
  /\ rotate' = [rotate EXCEPT ![r] = "drained"]
  /\ UNCHANGED <<clock, quotaVars, poolVars, inflight, handler, next, swaps, waiter, starts>>

(* A drain without a time limit. *)
DrainNeverTimesOut(r) == FALSE /\ UNCHANGED vars

(* ... or 30 s have passed. *)
DrainTimeout(r) ==
  /\ rotate[r] = "draining"
  /\ rotate' = [rotate EXCEPT ![r] = "timedOut"]
  /\ UNCHANGED <<clock, quotaVars, poolVars, inflight, handler, next, swaps, waiter, starts>>

(* A Replace that forgets the map. *)
ReplaceKeepsMap(r) ==
  /\ rotate[r] \in {"drained", "timedOut"}
  /\ keys' = next[r] /\ UNCHANGED keyBySecret
  /\ rotate' = [rotate EXCEPT ![r] = IF @ = "drained" THEN "swapped" ELSE "swappedLate"]
  /\ swaps' = swaps + 1
  /\ UNCHANGED <<clock, quotaVars, sessionToKey, rr, inflight, handler, next, waiter, starts>>

(* Pool.Replace, and the answer to the operator. *)
Replace(r) ==
  /\ rotate[r] \in {"drained", "timedOut"}
  /\ keys' = next[r] /\ keyBySecret' = ById(next[r])
  /\ rotate' = [rotate EXCEPT ![r] = IF @ = "drained" THEN "swapped" ELSE "swappedLate"]
  /\ swaps' = swaps + 1
  /\ UNCHANGED <<clock, quotaVars, sessionToKey, rr, inflight, handler, next, waiter, starts>>

Tick ==
  /\ clock < MaxTime
  /\ clock' = clock + 1
  /\ UNCHANGED <<quotaVars, poolVars, inflight, handler, rotateVars, waiter, starts>>

-----------------------------------------------------------------------------
Forward(h) ==
  \/ \E s \in Sessions : Begin(h, s)
  \/ SecretForSession(h) \/ Reserve(h) \/ Send(h) \/ BodyFails(h)
  \/ UpstreamFails(h) \/ (\E u \in Usages : Answer(h, u)) \/ Leave(h)

Rotation(r) == Drain(r) \/ Drained(r) \/ DrainTimeout(r) \/ Replace(r)

Next ==
  \/ \E s \in Sessions : MintSessionToken(s)
  \/ \E h \in Handlers : Forward(h)
  \/ \E r \in Rotators : Rotation(r) \/ \E ks \in Pools : AdminRotate(r, ks)
  \/ Tick

Safety == Init /\ [][Next]_vars

-----------------------------------------------------------------------------
States == [pc : {"idle", "resolve", "reserve", "send", "upstream", "leave"},
           session : Sessions \cup {None}, key : Keys \cup {None}, window : Nat, epoch : Nat]

(* Types. *)
TypeOK ==
  /\ clock \in 0..MaxTime
  /\ buckets \in [Sessions -> Buckets \cup {None}] /\ held \in [Sessions -> Nat]
  /\ keys \in Pools /\ keyBySecret \in [IDs -> Keys \cup {None}]
  /\ sessionToKey \in [Sessions -> IDs \cup {None}] /\ rr \in Nat
  /\ inflight \in Nat /\ handler \in [Handlers -> States]
  /\ rotate \in [Rotators -> {"none", "draining", "drained", "timedOut", "swapped", "swappedLate"}]
  /\ next \in [Rotators -> Pools \cup {<<>>}]
  /\ waiter \in [Rotators -> {"none", "check", "waiting", "done"}]
  /\ starts \in 0..MaxStarts /\ swaps \in Nat

(* Requests of s that hold a slot and are not committed or refunded yet.   *)
Reserved(s) == {h \in Handlers : handler[h].session = s /\ handler[h].pc \in {"send", "upstream"}}

(* Reserve checks what is committed, so forwards that run at once can pass *)
(* it together; the cap on a session's requests is overshot by at most the *)
(* number of forwards that run at once, less one.                          *)
OvershootBounded ==
  \A s \in Sessions :
    get(s).requests + Cardinality(Reserved(s)) <= MaxRequests - 1 + Cardinality(Handlers)

(* A session that is refused for its rate has used its slots: a window     *)
(* never counts more than the requests that took a slot in it and kept it, *)
(* whatever refunds come late.                                             *)
CountsNoMoreThanHeld ==
  \A s \in Sessions : get(s).windowCount <= held[s]

(* The drain is woken: it never sleeps while nothing is in flight.         *)
NoLostWakeup == \A r \in Rotators : waiter[r] = "waiting" => inflight > 0

(* A request that arrives after a rotation was answered is sent with a key *)
(* of the new pool, not with one that was rotated out.                     *)
NewRequestsUseNewKeys ==
  \A h \in Handlers :
    handler[h].key # None /\ handler[h].epoch = swaps => handler[h].key \in Range(keys)
=============================================================================
