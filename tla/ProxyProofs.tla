---------------------------- MODULE ProxyProofs -----------------------------
(***************************************************************************)
(* Properties of the Anthropic proxy for any number of forwards, rotations *)
(* and sessions, any limits and any answers of the upstream.               *)
(*                                                                         *)
(* - The drain of a rotation never misses its wakeup: NoLostWakeup is      *)
(*   inductive once inflight is an integer.                                *)
(* - The cap on a session's requests is overshot by less than the number   *)
(*   of forwards that run at once.  The argument is a count: Reserve       *)
(*   admits a request only below the cap and at most Handlers hold a slot; *)
(*   Commit turns a slot that is held into a request that is counted.      *)
(* - A window counts no more requests than took a slot in it and kept it:  *)
(*   the invariant knows for every slot the window it was taken in.        *)
(* - A request that arrives after a rotation is sent with a new key: the   *)
(*   invariant follows the key from the pool to the handler that holds it. *)
(* - ProxyDaemon implements ProxyServer, so all of this holds of the       *)
(*   process; the audit records add up to what the quota was charged, and  *)
(*   that is what the upstream reported in the answers the proxy can read  *)
(*   (StreamUsageProofs).                                                  *)
(***************************************************************************)
EXTENDS ProxyDaemon, StreamUsageProofs, FiniteSetTheorems

(* Zenon first, with more time than the default; leaves that need          *)
(* arithmetic are marked for SMT.                                          *)
USE ZenonT(20), SMTT(60)

-----------------------------------------------------------------------------
(* The drain. *)

(* The state of the drain goroutines and of the counter they look at.      *)
DrainTypes ==
  /\ inflight \in Int
  /\ waiter \in [Rotators -> {"none", "check", "waiting", "done"}]

WakeupInv == DrainTypes /\ NoLostWakeup

(* The drain goroutine of a rotation never sleeps while nothing is in      *)
(* flight: Wait and the count are under s.mu, and the forward that brings  *)
(* the count to zero broadcasts before it drops the lock.                  *)
THEOREM NoWakeupIsLost == Safety => []NoLostWakeup
<1>1. Init => WakeupInv
  BY SMTT(60) DEF Init, WakeupInv, DrainTypes, NoLostWakeup
<1>2. WakeupInv /\ [Next]_vars => WakeupInv'
  <2> SUFFICES ASSUME WakeupInv, [Next]_vars PROVE WakeupInv'
    OBVIOUS
  <2> USE DEF WakeupInv, DrainTypes, NoLostWakeup
  <2>1. ASSUME NEW h \in Handlers, NEW s \in Sessions, Begin(h, s) PROVE WakeupInv'
    BY <2>1 DEF Begin
  <2>2. ASSUME NEW h \in Handlers, Leave(h) PROVE WakeupInv'
    <3>1. CASE inflight' = 0
      BY <2>2, <3>1, SMTT(60) DEF Leave, Broadcast
    <3>2. CASE inflight' # 0
      BY <2>2, <3>2 DEF Leave
    <3> QED BY <3>1, <3>2
  <2>3. ASSUME NEW h \in Handlers,
               SecretForSession(h) \/ Reserve(h) \/ Send(h) \/ BodyFails(h)
                 \/ UpstreamFails(h) \/ \E u \in Usages : Answer(h, u)
        PROVE  WakeupInv'
    BY <2>3 DEF SecretForSession, Reserve, Send, BodyFails, UpstreamFails, Answer
  <2>4. ASSUME NEW r \in Rotators, Drain(r) PROVE WakeupInv'
    BY <2>4 DEF Drain
  <2>5. ASSUME NEW r \in Rotators, Drained(r) \/ DrainTimeout(r) \/ Replace(r) PROVE WakeupInv'
    BY <2>5 DEF Drained, DrainTimeout, Replace
  <2>6. ASSUME NEW r \in Rotators, NEW ks \in Pools, AdminRotate(r, ks) PROVE WakeupInv'
    BY <2>6 DEF AdminRotate
  <2>7. ASSUME Tick \/ (\E s \in Sessions : MintSessionToken(s)) \/ UNCHANGED vars PROVE WakeupInv'
    BY <2>7 DEF Tick, MintSessionToken, vars
  <2> QED BY <2>1, <2>2, <2>3, <2>4, <2>5, <2>6, <2>7 DEF Next, Forward, Rotation
<1>3. WakeupInv => NoLostWakeup
  BY DEF WakeupInv
<1> QED BY <1>1, <1>2, <1>3, PTL DEF Safety

-----------------------------------------------------------------------------
(* The part of the type invariant that the count needs: what a handler is   *)
(* doing, and for which session.                                           *)
HandlerTypes ==
  /\ DOMAIN handler = Handlers /\ handler = [h \in Handlers |-> handler[h]]
  /\ \A h \in Handlers :
       /\ handler[h] = [pc |-> handler[h].pc, session |-> handler[h].session, key |-> handler[h].key,
                        window |-> handler[h].window, epoch |-> handler[h].epoch]
       /\ handler[h].pc # "idle" => handler[h].session \in Sessions

QuotaTypes ==
  /\ clock \in Nat
  /\ buckets \in [Sessions -> Buckets \cup {None}]
  /\ HandlerTypes

QuotaInv == QuotaTypes /\ OvershootBounded

(* Slots are held by handlers, so they can be counted.                     *)
LEMMA ReservedFinite ==
  ASSUME NEW s \in Sessions
  PROVE  /\ IsFiniteSet(Reserved(s))
         /\ Cardinality(Reserved(s)) \in Nat
         /\ Cardinality(Handlers) \in Nat
         /\ Cardinality(Reserved(s)) <= Cardinality(Handlers)
<1>1. IsFiniteSet(Handlers) /\ Reserved(s) \subseteq Handlers
  BY ProxyAssumption DEF Reserved
<1> QED BY <1>1, FS_Subset, FS_CardinalityType

(* A step that commits nothing and takes no slot keeps the bound.          *)
LEMMA FewerSlots ==
  ASSUME NEW s \in Sessions, QuotaInv, QuotaTypes',
         get(s)'.requests = get(s).requests,
         Reserved(s)' \subseteq Reserved(s)
  PROVE  (get(s).requests + Cardinality(Reserved(s)) <= MaxRequests - 1 + Cardinality(Handlers))'
<1>1. Cardinality(Reserved(s)') <= Cardinality(Reserved(s)) /\ Cardinality(Reserved(s)') \in Nat
  BY ReservedFinite, FS_Subset, FS_CardinalityType
<1>2. get(s).requests \in Nat
  BY DEF QuotaInv, QuotaTypes, get, NewBucket, Buckets
<1>3. get(s).requests + Cardinality(Reserved(s)) <= MaxRequests - 1 + Cardinality(Handlers)
  BY DEF QuotaInv, OvershootBounded
<1>4. MaxRequests \in Nat
  BY QuotaAssumption
<1> QED BY <1>1, <1>2, <1>3, <1>4, ReservedFinite

(* What get returns is a bucket, made or found.                            *)
LEMMA BucketsAreBuckets ==
  ASSUME QuotaTypes, NEW s \in Sessions
  PROVE  get(s) \in Buckets
BY DEF QuotaTypes, get, NewBucket, Buckets

(* Refund gives back a slot and counts no request.                         *)
LEMMA RefundCountsNothing ==
  ASSUME QuotaTypes, NEW h \in Handlers, handler[h].session \in Sessions, Refund(h), clock' = clock
  PROVE  /\ buckets' \in [Sessions -> Buckets \cup {None}]
         /\ \A s \in Sessions : get(s)'.requests = get(s).requests
<1> DEFINE t == handler[h].session
           b == SlotRefunded(get(t))
<1>1. get(t) \in Buckets
  BY BucketsAreBuckets
<1>2. b \in Buckets /\ b.requests = get(t).requests
  BY <1>1, SMTT(60) DEF SlotRefunded, Buckets
<1>3. buckets' = [buckets EXCEPT ![t] = b]
  BY DEF Refund
<1> HIDE DEF b
<1>4. buckets' \in [Sessions -> Buckets \cup {None}]
  BY <1>2, <1>3 DEF QuotaTypes
<1>5. ASSUME NEW s \in Sessions, s = t PROVE get(s)'.requests = get(s).requests
  BY <1>2, <1>3, <1>5, ProxyAssumption DEF QuotaTypes, get
<1>6. ASSUME NEW s \in Sessions, s # t PROVE get(s)'.requests = get(s).requests
  BY <1>3, <1>6 DEF QuotaTypes, get
<1> QED BY <1>4, <1>5, <1>6

(* Reserve takes a slot only when the requests committed are below the cap, *)
(* and a refusal changes nothing that is counted.                          *)
LEMMA ReserveKeepsBound ==
  ASSUME QuotaInv, NEW h \in Handlers, Reserve(h)
  PROVE  QuotaInv'
<1> DEFINE t == handler[h].session
           b == Rolled(get(t), clock)
           c == IF WithinCaps(b) THEN SlotTaken(b) ELSE b
<1>1. t \in Sessions /\ handler[h].pc = "reserve"
  BY DEF Reserve, QuotaInv, QuotaTypes, HandlerTypes
<1>2. get(t) \in Buckets
  BY <1>1, BucketsAreBuckets DEF QuotaInv
<1>3. b \in Buckets /\ b.requests = get(t).requests
  BY <1>2 DEF Rolled, Buckets, QuotaInv, QuotaTypes
<1>4. /\ c \in Buckets /\ c.requests = get(t).requests
      /\ WithinCaps(b) => c.requests < MaxRequests
  BY <1>3, SMTT(60) DEF SlotTaken, WithinCaps, Buckets
<1>5. buckets' = [buckets EXCEPT ![t] = c] /\ clock' = clock
  BY DEF Reserve
<1>6. /\ HandlerTypes'
      /\ \A i \in Handlers : handler'[i].session = handler[i].session
      /\ \A i \in Handlers \ {h} : handler'[i].pc = handler[i].pc
      /\ handler'[h].pc = IF WithinCaps(b) THEN "send" ELSE "leave"
  BY <1>1, SMTT(60) DEF Reserve, Goto, QuotaInv, QuotaTypes, HandlerTypes
<1> HIDE DEF b, c
<1>7. QuotaTypes'
  BY <1>4, <1>5, <1>6 DEF QuotaInv, QuotaTypes
<1>8. ASSUME NEW s \in Sessions PROVE get(s)'.requests = get(s).requests
  <2>1. CASE s = t
    BY <1>4, <1>5, <2>1, ProxyAssumption DEF QuotaInv, QuotaTypes, get
  <2>2. CASE s # t
    BY <1>5, <2>2 DEF QuotaInv, QuotaTypes, get
  <2> QED BY <2>1, <2>2
<1>9. ASSUME NEW s \in Sessions
      PROVE  (get(s).requests + Cardinality(Reserved(s)) <= MaxRequests - 1 + Cardinality(Handlers))'
  <2>1. CASE s = t /\ WithinCaps(b)
    <3>1. get(s)'.requests \in Nat /\ get(s)'.requests < MaxRequests /\ MaxRequests \in Nat
      BY <1>2, <1>4, <1>8, <2>1, QuotaAssumption DEF Buckets
    <3>2. /\ Cardinality(Reserved(s)') \in Nat /\ Cardinality(Handlers) \in Nat
          /\ Cardinality(Reserved(s)') <= Cardinality(Handlers)
      <4>1. IsFiniteSet(Handlers) /\ Reserved(s)' \subseteq Handlers
        BY ProxyAssumption, <1>6 DEF Reserved, HandlerTypes
      <4> QED BY <4>1, FS_Subset, FS_CardinalityType
    <3> QED BY <3>1, <3>2
  <2>2. CASE ~(s = t /\ WithinCaps(b))
    <3>1. Reserved(s)' \subseteq Reserved(s)
      BY <1>1, <1>6, <2>2 DEF Reserved
    <3> QED BY <1>7, <1>8, <3>1, FewerSlots
  <2> QED BY <2>1, <2>2
<1> QED BY <1>7, <1>9 DEF QuotaInv, OvershootBounded

(* Commit adds an answer's tokens and one request to the bucket.           *)
LEMMA CommitCountsOne ==
  ASSUME NEW b \in Buckets, NEW in \in Nat, NEW out \in Nat
  PROVE  /\ Committed(b, in, out) \in Buckets
         /\ Committed(b, in, out).requests = b.requests + 1
         /\ Committed(b, in, out).tokensIn = b.tokensIn + in
         /\ Committed(b, in, out).tokensOut = b.tokensOut + out
<1> DEFINE x == [b EXCEPT !.tokensIn = b.tokensIn + in]
           y == [x EXCEPT !.tokensOut = b.tokensOut + out]
           z == [y EXCEPT !.requests = b.requests + 1]
<1>1. Committed(b, in, out) = z
  BY DEF Committed
<1>2. x \in Buckets /\ x.tokensIn = b.tokensIn + in
  BY SMTT(60) DEF Buckets
<1> HIDE DEF x
<1>3. y \in Buckets /\ y.tokensIn = x.tokensIn /\ y.tokensOut = b.tokensOut + out
  BY <1>2, SMTT(60) DEF Buckets
<1> HIDE DEF y
<1>4. /\ z \in Buckets /\ z.requests = b.requests + 1
      /\ z.tokensIn = y.tokensIn /\ z.tokensOut = y.tokensOut
  BY <1>3, SMTT(60) DEF Buckets
<1> QED BY <1>1, <1>2, <1>3, <1>4

(* An answer is counted and the slot of its request is given up.           *)
LEMMA AnswerKeepsBound ==
  ASSUME QuotaInv, NEW h \in Handlers, NEW u \in Usages, Answer(h, u)
  PROVE  QuotaInv'
<1> DEFINE t == handler[h].session
           g == get(t)
           c == Committed(g, u[1], u[2])
<1>1. t \in Sessions /\ handler[h].pc = "upstream"
  BY DEF Answer, QuotaInv, QuotaTypes, HandlerTypes
<1>2. g \in Buckets
  BY <1>1, BucketsAreBuckets DEF QuotaInv
<1>3. c \in Buckets /\ c.requests = g.requests + 1
  <2>1. PICK i, o \in Nat : i = u[1] /\ o = u[2]
    BY ProxyAssumption
  <2>2. c = Committed(g, i, o)
    BY <2>1
  <2> HIDE DEF c, g
  <2>3. /\ Committed(g, i, o) \in Buckets
        /\ Committed(g, i, o).requests = g.requests + 1
        /\ Committed(g, i, o).tokensIn = g.tokensIn + i
        /\ Committed(g, i, o).tokensOut = g.tokensOut + o
    BY <1>2, CommitCountsOne
  <2> QED BY <2>1, <2>2, <2>3
<1>4. buckets' = [buckets EXCEPT ![t] = c] /\ clock' = clock
  BY DEF Answer
<1>5. /\ HandlerTypes'
      /\ \A i \in Handlers : /\ handler'[i].session = handler[i].session
                             /\ handler'[i].pc = IF i = h THEN "leave" ELSE handler[i].pc
  <2>1. Goto(h, "leave") /\ HandlerTypes /\ handler[h].pc # "idle"
    BY <1>1 DEF Answer, QuotaInv, QuotaTypes
  <2> QED BY <2>1, SMTT(60) DEF Goto, HandlerTypes
<1> HIDE DEF c
<1>6. QuotaTypes'
  BY <1>3, <1>4, <1>5 DEF QuotaInv, QuotaTypes
<1>7. ASSUME NEW s \in Sessions
      PROVE  (get(s).requests + Cardinality(Reserved(s)) <= MaxRequests - 1 + Cardinality(Handlers))'
  <2>1. CASE s = t
    <3>1. get(s)'.requests = get(s).requests + 1 /\ get(s).requests \in Nat
      BY <1>2, <1>3, <1>4, <2>1, ProxyAssumption DEF QuotaInv, QuotaTypes, get, Buckets
    <3>2. h \in Reserved(s) /\ Reserved(s)' = Reserved(s) \ {h}
      BY <1>1, <1>5, <2>1 DEF Reserved
    <3>3. Cardinality(Reserved(s)') = Cardinality(Reserved(s)) - 1
      BY <3>2, ReservedFinite, FS_RemoveElement
    <3>4. get(s).requests + Cardinality(Reserved(s)) <= MaxRequests - 1 + Cardinality(Handlers)
      BY DEF QuotaInv, OvershootBounded
    <3>5. MaxRequests \in Nat /\ Cardinality(Reserved(s)) \in Nat /\ Cardinality(Handlers) \in Nat
      BY ReservedFinite, QuotaAssumption
    <3> QED BY <3>1, <3>3, <3>4, <3>5
  <2>2. CASE s # t
    <3>1. get(s)'.requests = get(s).requests
      BY <1>4, <2>2 DEF QuotaInv, QuotaTypes, get
    <3>2. Reserved(s)' \subseteq Reserved(s)
      BY <1>1, <1>5 DEF Reserved
    <3> QED BY <1>6, <3>1, <3>2, FewerSlots
  <2> QED BY <2>1, <2>2
<1> QED BY <1>6, <1>7 DEF QuotaInv, OvershootBounded

(* What the count rests on holds in every state. *)
LEMMA QuotaInvHolds == Safety => []QuotaInv
<1>1. Init => QuotaInv
  <2> SUFFICES ASSUME Init PROVE QuotaInv
    OBVIOUS
  <2>1. QuotaTypes
    BY DEF Init, QuotaTypes, HandlerTypes, Idle
  <2>2. ASSUME NEW s \in Sessions
        PROVE  get(s).requests + Cardinality(Reserved(s)) <= MaxRequests - 1 + Cardinality(Handlers)
    <3>1. get(s).requests = 0
      BY DEF Init, get, NewBucket
    <3>2. MaxRequests \in Nat \ {0}
      BY QuotaAssumption
    <3> QED BY <3>1, <3>2, ReservedFinite
  <2> QED BY <2>1, <2>2 DEF QuotaInv, OvershootBounded
<1>2. QuotaInv /\ [Next]_vars => QuotaInv'
  <2> SUFFICES ASSUME QuotaInv, [Next]_vars PROVE QuotaInv'
    OBVIOUS
  <2>0. QuotaTypes /\ HandlerTypes
    BY DEF QuotaInv, QuotaTypes
  <2>1. ASSUME QuotaTypes',
               \A s \in Sessions : /\ get(s)'.requests = get(s).requests
                                   /\ Reserved(s)' \subseteq Reserved(s)
        PROVE  QuotaInv'
    BY <2>1, FewerSlots DEF QuotaInv, OvershootBounded
  <2>2. ASSUME NEW h \in Handlers, NEW r \in Sessions, Begin(h, r) PROVE QuotaInv'
    <3>1. HandlerTypes' /\ \A s \in Sessions : Reserved(s)' \subseteq Reserved(s)
      BY <2>0, <2>2 DEF Begin, Idle, HandlerTypes, Reserved
    <3> QED BY <2>0, <2>1, <2>2, <3>1 DEF Begin, quotaVars, QuotaTypes, get
  <2>3. ASSUME NEW h \in Handlers, SecretForSession(h) PROVE QuotaInv'
    <3>1. HandlerTypes' /\ \A s \in Sessions : Reserved(s)' \subseteq Reserved(s)
      BY <2>0, <2>3, SMTT(60) DEF SecretForSession, Goto, HandlerTypes, Reserved
    <3> QED BY <2>0, <2>1, <2>3, <3>1 DEF SecretForSession, quotaVars, QuotaTypes, get
  <2>4. ASSUME NEW h \in Handlers, Send(h) PROVE QuotaInv'
    <3>1. HandlerTypes' /\ \A s \in Sessions : Reserved(s)' \subseteq Reserved(s)
      BY <2>0, <2>4, SMTT(60) DEF Send, Goto, HandlerTypes, Reserved
    <3> QED BY <2>0, <2>1, <2>4, <3>1 DEF Send, quotaVars, QuotaTypes, get
  <2>5. ASSUME NEW h \in Handlers, BodyFails(h) \/ UpstreamFails(h) PROVE QuotaInv'
    <3>1. /\ handler[h].pc \in {"send", "upstream"} /\ Refund(h) /\ Goto(h, "leave")
          /\ clock' = clock
      BY <2>5 DEF BodyFails, UpstreamFails
    <3>2. handler[h].session \in Sessions
      BY <2>0, <3>1 DEF HandlerTypes
    <3>3. HandlerTypes' /\ \A s \in Sessions : Reserved(s)' \subseteq Reserved(s)
      BY <2>0, <3>1, SMTT(60) DEF Goto, HandlerTypes, Reserved
    <3> QED BY <2>0, <2>1, <3>1, <3>2, <3>3, RefundCountsNothing DEF QuotaTypes
  <2>6. ASSUME NEW h \in Handlers, Leave(h) PROVE QuotaInv'
    <3>1. HandlerTypes' /\ \A s \in Sessions : Reserved(s)' \subseteq Reserved(s)
      BY <2>0, <2>6 DEF Leave, Idle, HandlerTypes, Reserved
    <3> QED BY <2>0, <2>1, <2>6, <3>1 DEF Leave, quotaVars, QuotaTypes, get
  <2>7. ASSUME UNCHANGED <<buckets, handler>>, clock' \in Nat PROVE QuotaInv'
    <3>1. HandlerTypes' /\ \A s \in Sessions : Reserved(s)' \subseteq Reserved(s)
      BY <2>0, <2>7 DEF HandlerTypes, Reserved
    <3>2. \A s \in Sessions : get(s)'.requests = get(s).requests
      BY <2>7 DEF get, NewBucket
    <3> QED BY <2>0, <2>1, <2>7, <3>1, <3>2 DEF QuotaTypes
  <2>8. ASSUME NEW r \in Rotators, Rotation(r) \/ \E ks \in Pools : AdminRotate(r, ks) PROVE QuotaInv'
    BY <2>0, <2>7, <2>8 DEF Rotation, Drain, Drained, DrainTimeout, Replace, AdminRotate, quotaVars, QuotaTypes
  <2>9. ASSUME Tick \/ (\E s \in Sessions : MintSessionToken(s)) \/ UNCHANGED vars PROVE QuotaInv'
    BY <2>0, <2>7, <2>9 DEF Tick, MintSessionToken, vars, quotaVars, QuotaTypes
  <2> QED BY <2>2, <2>3, <2>4, <2>5, <2>6, <2>8, <2>9, ReserveKeepsBound, AnswerKeepsBound
          DEF Next, Forward
<1> QED BY <1>1, <1>2, PTL DEF Safety

(* The cap on a session's requests is overshot by less than the number of  *)
(* forwards that run at once: Reserve compares what is committed, so the   *)
(* forwards that hold a slot at that moment are all it can miss.           *)
THEOREM OvershootIsBounded == Safety => []OvershootBounded
<1>1. QuotaInv => OvershootBounded
  BY DEF QuotaInv
<1> QED BY <1>1, QuotaInvHolds, PTL

-----------------------------------------------------------------------------
(* The slots of s's current window that requests hold. *)
InWindow(s) == {h \in Reserved(s) : handler[h].window = get(s).windowStart}

(* What makes a late refund harmless: slots are taken in the current       *)
(* window or were in an older one, and held counts at least those of the   *)
(* current one.                                                            *)
Accounted(s) ==
  /\ held[s] \in Nat
  /\ get(s).windowStart <= clock
  /\ \A h \in Reserved(s) : /\ buckets[s] # None
                            /\ handler[h].window \in Nat
                            /\ handler[h].window <= get(s).windowStart
  /\ Cardinality(InWindow(s)) <= held[s]
  /\ get(s).windowCount <= held[s]

WindowInv == DOMAIN held = Sessions /\ \A s \in Sessions : Accounted(s)

(* A window's slots can be counted.                                        *)
LEMMA InWindowFinite ==
  ASSUME NEW s \in Sessions
  PROVE  IsFiniteSet(InWindow(s)) /\ Cardinality(InWindow(s)) \in Nat
<1>1. IsFiniteSet(Reserved(s)) /\ InWindow(s) \subseteq Reserved(s)
  BY ReservedFinite DEF InWindow
<1> QED BY <1>1, FS_Subset, FS_CardinalityType

(* Fewer slots of the same window are counted by no more.                  *)
LEMMA FewerInWindow ==
  ASSUME NEW s \in Sessions, InWindow(s)' \subseteq InWindow(s)
  PROVE  Cardinality(InWindow(s)') <= Cardinality(InWindow(s)) /\ Cardinality(InWindow(s)') \in Nat
BY InWindowFinite, FS_Subset, FS_CardinalityType

(* A step that does not touch the session's bucket and takes no slot of    *)
(* it keeps its account; before its first request a session has no slots.  *)
LEMMA AccountKept ==
  ASSUME NEW s \in Sessions, QuotaTypes, Accounted(s), clock' \in Nat, clock <= clock',
         buckets'[s] = buckets[s], held'[s] = held[s],
         Reserved(s)' \subseteq Reserved(s),
         \A h \in Reserved(s)' : handler'[h].window = handler[h].window
  PROVE  Accounted(s)'
<1>1. CASE buckets[s] = None
  <2>1. Reserved(s)' = {}
    BY <1>1 DEF Accounted
  <2>2. InWindow(s)' = {}
    BY <2>1 DEF InWindow
  <2>3. Cardinality(InWindow(s)') = 0
    BY <2>2, FS_EmptySet
  <2>4. get(s)'.windowStart = clock' /\ get(s)'.windowCount = 0
    BY <1>1 DEF get, NewBucket
  <2>5. held'[s] \in Nat
    BY DEF Accounted
  <2> QED BY <2>1, <2>3, <2>4, <2>5 DEF Accounted
<1>2. CASE buckets[s] # None
  <2>1. get(s)' = get(s) /\ get(s) \in Buckets
    BY <1>2, BucketsAreBuckets DEF get
  <2>2. InWindow(s)' \subseteq InWindow(s)
    BY <2>1 DEF InWindow
  <2>3. /\ Cardinality(InWindow(s)') <= Cardinality(InWindow(s))
        /\ Cardinality(InWindow(s)') \in Nat /\ Cardinality(InWindow(s)) \in Nat
    BY <2>2, FewerInWindow, InWindowFinite
  <2>4. /\ held[s] \in Nat /\ get(s).windowStart <= clock
        /\ Cardinality(InWindow(s)) <= held[s] /\ get(s).windowCount <= held[s]
    BY DEF Accounted
  <2>5. Cardinality(InWindow(s)') <= held'[s]
    BY <2>3, <2>4
  <2>6. get(s)'.windowStart <= clock'
    BY <2>1, <2>4, SMTT(60) DEF Buckets, QuotaTypes
  <2>7. \A h \in Reserved(s)' : /\ buckets'[s] # None /\ handler'[h].window \in Nat
                                /\ handler'[h].window <= get(s)'.windowStart
    BY <1>2, <2>1 DEF Accounted
  <2> QED BY <2>1, <2>4, <2>5, <2>6, <2>7 DEF Accounted
<1> QED BY <1>1, <1>2

(* A new window starts later than the old one, and counts from zero.       *)
LEMMA RolledWindow ==
  ASSUME NEW b \in Buckets, NEW now \in Nat, b.windowStart <= now
  PROVE  /\ Rolled(b, now) \in Buckets /\ Rolled(b, now).windowStart <= now
         /\ \/ Rolled(b, now) = b
            \/ Rolled(b, now).windowStart > b.windowStart /\ Rolled(b, now).windowCount = 0
<1>1. b.windowStart \in Nat /\ Minute \in Nat \ {0}
  BY QuotaAssumption DEF Buckets
<1>2. CASE now - b.windowStart >= Minute
  <2>1. now > b.windowStart
    BY <1>1, <1>2
  <2>2. Rolled(b, now) = [b EXCEPT !.windowStart = now, !.windowCount = 0]
    BY <1>2 DEF Rolled
  <2> DEFINE x == [b EXCEPT !.windowStart = now]
  <2>3. x \in Buckets /\ x.windowStart = now
    BY DEF Buckets
  <2>4. Rolled(b, now) = [x EXCEPT !.windowCount = 0]
    BY <2>2
  <2> HIDE DEF x
  <2>5. /\ Rolled(b, now) \in Buckets
        /\ Rolled(b, now).windowStart = now /\ Rolled(b, now).windowCount = 0
    BY <2>3, <2>4, SMTT(60) DEF Buckets
  <2> QED BY <1>1, <2>1, <2>5
<1>3. CASE ~(now - b.windowStart >= Minute)
  BY <1>3 DEF Rolled
<1> QED BY <1>2, <1>3

(* Reserve opens a new window with nothing held in it, or counts the slot  *)
(* it takes twice: in the bucket and in held.                              *)
LEMMA ReserveAccounted ==
  ASSUME QuotaTypes, WindowInv, NEW h \in Handlers, Reserve(h), NEW s \in Sessions
  PROVE  Accounted(s)' /\ DOMAIN held' = Sessions
<1> DEFINE t == handler[h].session
           b == Rolled(get(t), clock)
           c == IF WithinCaps(b) THEN SlotTaken(b) ELSE b
           now == IF b.windowStart = get(t).windowStart THEN held[t] ELSE 0
           n == IF WithinCaps(b) THEN now + 1 ELSE now
<1>1. t \in Sessions /\ handler[h].pc = "reserve" /\ clock \in Nat /\ Accounted(t)
  BY DEF Reserve, QuotaTypes, HandlerTypes, WindowInv
<1>2. get(t) \in Buckets /\ get(t).windowStart <= clock
  BY <1>1, BucketsAreBuckets DEF Accounted
<1>3. /\ b \in Buckets /\ b.windowStart <= clock
      /\ \/ b = get(t)
         \/ b.windowStart > get(t).windowStart /\ b.windowCount = 0
  BY <1>1, <1>2, RolledWindow
<1>4. /\ buckets' = [buckets EXCEPT ![t] = c] /\ clock' = clock
      /\ held' = [held EXCEPT ![t] = n]
  BY DEF Reserve
<1>5. /\ \A i \in Handlers : handler'[i].session = handler[i].session
      /\ \A i \in Handlers \ {h} : handler'[i].pc = handler[i].pc /\ handler'[i].window = handler[i].window
      /\ handler'[h].pc = IF WithinCaps(b) THEN "send" ELSE "leave"
      /\ WithinCaps(b) => handler'[h].window = b.windowStart
  <2>1. HandlerTypes
    BY DEF QuotaTypes
  <2>2. IF WithinCaps(b) THEN handler' = [handler EXCEPT ![h].pc = "send", ![h].window = b.windowStart]
                         ELSE handler' = [handler EXCEPT ![h].pc = "leave"]
    BY DEF Reserve, Goto
  <2> HIDE DEF b
  <2>3. CASE WithinCaps(b)
    <3> DEFINE f == [handler EXCEPT ![h].pc = "send"]
    <3>1. handler' = [f EXCEPT ![h].window = b.windowStart]
      BY <2>2, <2>3
    <3>2. /\ DOMAIN f = Handlers
          /\ \A i \in Handlers \ {h} : f[i] = handler[i]
          /\ f[h] = [handler[h] EXCEPT !.pc = "send"]
      BY <2>1 DEF HandlerTypes
    <3>3. f[h].pc = "send" /\ f[h].session = handler[h].session /\ DOMAIN f[h] = DOMAIN handler[h]
      BY <2>1, <3>2, SMTT(60) DEF HandlerTypes
    <3>4. DOMAIN f[h] = {"pc", "session", "key", "window", "epoch"}
      BY <2>1, <3>3 DEF HandlerTypes
    <3> HIDE DEF f
    <3> QED BY <2>3, <3>1, <3>2, <3>3, <3>4
  <2>4. CASE ~WithinCaps(b)
    BY <2>1, <2>2, <2>4, SMTT(60) DEF HandlerTypes
  <2> QED BY <2>3, <2>4
<1>6. /\ c \in Buckets /\ c.windowStart = b.windowStart
      /\ c.windowCount = IF WithinCaps(b) THEN b.windowCount + 1 ELSE b.windowCount
  BY <1>3, SMTT(60) DEF SlotTaken, Buckets
<1> HIDE DEF b, c, n
<1>7. CASE s # t
  <2>1. buckets'[s] = buckets[s] /\ held'[s] = held[s]
    BY <1>4, <1>7 DEF QuotaTypes, WindowInv
  <2>2. /\ Reserved(s)' \subseteq Reserved(s)
        /\ \A i \in Reserved(s)' : handler'[i].window = handler[i].window
    BY <1>5, <1>7 DEF Reserved
  <2>3. Accounted(s) /\ clock' \in Nat /\ clock <= clock'
    BY <1>1, <1>4 DEF WindowInv
  <2> QED BY <1>4, <2>1, <2>2, <2>3, AccountKept DEF WindowInv
<1>8. CASE s = t
  <2>1. /\ get(s)' = c /\ buckets'[s] # None /\ held'[s] = n
    BY <1>8, <1>1, <1>4, <1>6, ProxyAssumption DEF QuotaTypes, WindowInv, get
  <2>2. h \notin Reserved(s)
    BY <1>8, <1>1 DEF Reserved
  <2>3. Reserved(s)' = IF WithinCaps(b) THEN Reserved(s) \cup {h} ELSE Reserved(s)
    BY <1>8, <1>1, <1>5, <2>2 DEF Reserved
  <2>4. /\ held[s] \in Nat /\ Cardinality(InWindow(s)) <= held[s] /\ get(s).windowCount <= held[s]
        /\ \A i \in Reserved(s) : handler[i].window \in Nat /\ handler[i].window <= get(s).windowStart
    BY <1>8, <1>1 DEF Accounted
  <2>5. Cardinality(InWindow(s)) \in Nat /\ IsFiniteSet(InWindow(s)) /\ h \notin InWindow(s)
    BY <1>8, <1>1, <2>2, InWindowFinite DEF InWindow
  <2>6. \A i \in Reserved(s) : handler'[i].window = handler[i].window
    BY <1>8, <1>5, <2>2 DEF Reserved
  <2>7. b.windowStart \in Nat /\ b.windowCount \in Nat /\ get(s).windowStart \in Nat
    BY <1>8, <1>2, <1>3 DEF Buckets
  <2>8. \A i \in Reserved(s)' : handler'[i].window \in Nat /\ handler'[i].window <= c.windowStart
    <3>1. get(s).windowStart <= b.windowStart
      BY <1>8, <1>3, <2>7
    <3>2. ASSUME NEW i \in Reserved(s)
          PROVE  handler'[i].window \in Nat /\ handler'[i].window <= c.windowStart
      <4>1. /\ handler'[i].window = handler[i].window /\ c.windowStart = b.windowStart
            /\ handler[i].window \in Nat /\ handler[i].window <= get(s).windowStart
        BY <1>6, <2>4, <2>6, <3>2
      <4> QED BY <2>7, <3>1, <4>1, SMTT(60)
    <3>3. WithinCaps(b) => handler'[h].window \in Nat /\ handler'[h].window <= c.windowStart
      BY <1>8, <1>5, <1>6, <2>7
    <3> QED BY <2>3, <3>2, <3>3
  <2>9. n \in Nat /\ Cardinality(InWindow(s)') <= n /\ c.windowCount <= n
    <3>1. CASE b = get(s)
      <4>1. n = IF WithinCaps(b) THEN held[s] + 1 ELSE held[s]
        BY <1>8, <3>1 DEF n
      <4>2. CASE WithinCaps(b)
        <5>1. InWindow(s)' = InWindow(s) \cup {h}
          BY <1>8, <1>5, <1>6, <2>1, <2>3, <2>6, <3>1, <4>2 DEF InWindow
        <5>2. Cardinality(InWindow(s)') = Cardinality(InWindow(s)) + 1
          BY <2>5, <5>1, FS_AddElement
        <5>3. n = held[s] + 1 /\ c.windowCount = get(s).windowCount + 1
          BY <1>6, <3>1, <4>1, <4>2
        <5>4. /\ held[s] \in Nat /\ Cardinality(InWindow(s)) <= held[s] /\ get(s).windowCount <= held[s]
              /\ Cardinality(InWindow(s)) \in Nat /\ get(s).windowCount \in Nat
          BY <2>4, <2>5, <2>7, <3>1
        <5> QED BY <5>2, <5>3, <5>4, SMTT(60)
      <4>3. CASE ~WithinCaps(b)
        <5>1. InWindow(s)' = InWindow(s)
          BY <1>8, <1>6, <2>1, <2>3, <2>6, <3>1, <4>3 DEF InWindow
        <5> QED BY <1>8, <1>6, <2>4, <3>1, <4>1, <4>3, <5>1
      <4> QED BY <4>2, <4>3
    <3>2. CASE b.windowStart > get(s).windowStart /\ b.windowCount = 0
      <4>1. n = IF WithinCaps(b) THEN 1 ELSE 0
        BY <1>8, <2>7, <3>2 DEF n
      <4>2. \A i \in Reserved(s) : handler'[i].window # c.windowStart
        <5> SUFFICES ASSUME NEW i \in Reserved(s) PROVE handler'[i].window # c.windowStart
          OBVIOUS
        <5>1. /\ handler'[i].window = handler[i].window /\ c.windowStart = b.windowStart
              /\ handler[i].window \in Nat /\ handler[i].window <= get(s).windowStart
          BY <1>6, <2>4, <2>6
        <5> QED BY <2>7, <3>2, <5>1, SMTT(60)
      <4>3. CASE WithinCaps(b)
        <5>1. InWindow(s)' = {h}
          BY <1>8, <1>5, <1>6, <2>1, <2>3, <4>2, <4>3 DEF InWindow
        <5>2. Cardinality(InWindow(s)') = 1
          BY <5>1, FS_Singleton
        <5>3. n = 1 /\ c.windowCount = b.windowCount + 1 /\ b.windowCount = 0
          BY <1>6, <3>2, <4>1, <4>3
        <5> QED BY <5>2, <5>3, SMTT(60)
      <4>4. CASE ~WithinCaps(b)
        <5>1. InWindow(s)' = {}
          BY <2>1, <2>3, <4>2, <4>4 DEF InWindow
        <5>2. Cardinality(InWindow(s)') = 0
          BY <5>1, FS_EmptySet
        <5>3. n = 0 /\ c.windowCount = b.windowCount /\ b.windowCount = 0
          BY <1>6, <3>2, <4>1, <4>4
        <5> QED BY <5>2, <5>3, SMTT(60)
      <4> QED BY <4>3, <4>4
    <3> QED BY <1>8, <1>3, <3>1, <3>2
  <2>10. c.windowStart <= clock'
    BY <1>8, <1>3, <1>4, <1>6
  <2>11. Accounted(s)'
    BY <2>1, <2>8, <2>9, <2>10 DEF Accounted
  <2> QED BY <1>4, <1>8, <2>11 DEF WindowInv
<1> QED BY <1>7, <1>8

(* A refund of the current window lowers the count and held together; one  *)
(* that comes late lowers the count alone.                                 *)
LEMMA RefundAccounted ==
  ASSUME QuotaTypes, WindowInv, NEW h \in Handlers, handler[h].pc \in {"send", "upstream"},
         Refund(h), Goto(h, "leave"), clock' = clock, NEW s \in Sessions
  PROVE  Accounted(s)' /\ DOMAIN held' = Sessions
<1> DEFINE t == handler[h].session
           c == SlotRefunded(get(t))
           n == IF handler[h].window = get(t).windowStart THEN held[t] - 1 ELSE held[t]
<1>1. t \in Sessions /\ clock \in Nat /\ Accounted(t) /\ h \in Reserved(t)
  BY DEF QuotaTypes, HandlerTypes, WindowInv, Reserved
<1>2. get(t) \in Buckets /\ get(t).windowStart <= clock
  BY <1>1, BucketsAreBuckets DEF Accounted
<1>3. buckets' = [buckets EXCEPT ![t] = c] /\ held' = [held EXCEPT ![t] = n]
  BY DEF Refund
<1>4. /\ \A i \in Handlers : handler'[i].session = handler[i].session /\ handler'[i].window = handler[i].window
      /\ \A i \in Handlers \ {h} : handler'[i].pc = handler[i].pc
      /\ handler'[h].pc = "leave"
  BY SMTT(60) DEF Goto, QuotaTypes, HandlerTypes
<1>5. /\ c \in Buckets /\ c.windowStart = get(t).windowStart
      /\ c.windowCount = IF get(t).windowCount > 0 THEN get(t).windowCount - 1 ELSE 0
  BY <1>2, SMTT(60) DEF SlotRefunded, Buckets
<1> HIDE DEF c, n
<1>6. CASE s # t
  <2>1. buckets'[s] = buckets[s] /\ held'[s] = held[s]
    BY <1>3, <1>6 DEF QuotaTypes, WindowInv
  <2>2. /\ Reserved(s)' \subseteq Reserved(s)
        /\ \A i \in Reserved(s)' : handler'[i].window = handler[i].window
    BY <1>4 DEF Reserved
  <2>3. Accounted(s) /\ clock' \in Nat /\ clock <= clock'
    BY <1>1 DEF WindowInv
  <2> QED BY <1>3, <2>1, <2>2, <2>3, AccountKept DEF WindowInv
<1>7. CASE s = t
  <2>1. /\ get(s)' = c /\ buckets'[s] # None /\ held'[s] = n
    BY <1>7, <1>1, <1>3, <1>5, ProxyAssumption DEF QuotaTypes, WindowInv, get
  <2>2. Reserved(s)' = Reserved(s) \ {h}
    BY <1>7, <1>1, <1>4 DEF Reserved
  <2>3. /\ held[s] \in Nat /\ Cardinality(InWindow(s)) <= held[s] /\ get(s).windowCount <= held[s]
        /\ \A i \in Reserved(s) : handler[i].window \in Nat /\ handler[i].window <= get(s).windowStart
    BY <1>7, <1>1 DEF Accounted
  <2>4. Cardinality(InWindow(s)) \in Nat /\ IsFiniteSet(InWindow(s))
    BY <1>7, <1>1, InWindowFinite
  <2>5. get(s).windowCount \in Nat
    BY <1>7, <1>2 DEF Buckets
  <2>6. n \in Nat /\ Cardinality(InWindow(s)') <= n /\ c.windowCount <= n
    <3>1. CASE handler[h].window = get(s).windowStart
      <4>1. h \in InWindow(s) /\ InWindow(s)' = InWindow(s) \ {h}
        <5>1. h \in InWindow(s)
          BY <1>7, <1>1, <3>1 DEF InWindow
        <5>2. get(s)'.windowStart = get(s).windowStart
          BY <1>7, <1>5, <2>1
        <5>3. \A i \in Reserved(s)' : handler'[i].window = handler[i].window
          BY <1>4 DEF Reserved
        <5> QED BY <2>2, <5>1, <5>2, <5>3 DEF InWindow
      <4>2. Cardinality(InWindow(s)') = Cardinality(InWindow(s)) - 1 /\ Cardinality(InWindow(s)') \in Nat
        BY <2>4, <4>1, FS_RemoveElement, FS_CardinalityType
      <4>3. n = held[s] - 1
        BY <1>7, <3>1 DEF n
      <4>4. c.windowCount \in Nat /\ c.windowCount <= held[s] - 1 /\ held[s] - 1 \in Nat
        <5>1. c.windowCount = IF get(s).windowCount > 0 THEN get(s).windowCount - 1 ELSE 0
          BY <1>5, <1>7
        <5>2. held[s] \in Nat /\ get(s).windowCount <= held[s] /\ Cardinality(InWindow(s)) <= held[s]
          BY <2>3
        <5> QED BY <2>4, <2>5, <4>2, <5>1, <5>2, SMTT(60)
      <4>5. Cardinality(InWindow(s)') <= held[s] - 1
        <5>1. held[s] \in Nat /\ Cardinality(InWindow(s)) <= held[s]
          BY <2>3
        <5> QED BY <2>4, <4>2, <5>1, SMTT(60)
      <4> QED BY <4>3, <4>4, <4>5
    <3>2. CASE handler[h].window # get(s).windowStart
      <4>1. InWindow(s)' = InWindow(s)
        BY <1>7, <1>1, <1>4, <1>5, <2>1, <2>2, <3>2 DEF InWindow, Reserved
      <4>2. n = held[s]
        BY <1>7, <3>2 DEF n
      <4>3. c.windowCount <= held[s]
        <5>1. c.windowCount = IF get(s).windowCount > 0 THEN get(s).windowCount - 1 ELSE 0
          BY <1>5, <1>7
        <5>2. held[s] \in Nat /\ get(s).windowCount <= held[s]
          BY <2>3
        <5> QED BY <2>5, <5>1, <5>2, SMTT(60)
      <4> QED BY <2>3, <4>1, <4>2, <4>3
    <3> QED BY <3>1, <3>2
  <2>7. \A i \in Reserved(s)' : handler'[i].window \in Nat /\ handler'[i].window <= c.windowStart
    BY <1>7, <1>4, <1>5, <2>2, <2>3 DEF Reserved
  <2>8. Accounted(s)'
    BY <1>7, <1>2, <1>5, <2>1, <2>6, <2>7 DEF Accounted
  <2> QED BY <1>3, <1>7, <2>8 DEF WindowInv
<1> QED BY <1>6, <1>7

(* Commit leaves the window alone.                                         *)
LEMMA CommitKeepsWindow ==
  ASSUME NEW b \in Buckets, NEW in, NEW out
  PROVE  /\ Committed(b, in, out).windowStart = b.windowStart
         /\ Committed(b, in, out).windowCount = b.windowCount
BY DEF Committed, Buckets

(* An answer keeps its slot in the window's count, and stops holding it.   *)
LEMMA AnswerAccounted ==
  ASSUME QuotaTypes, WindowInv, NEW h \in Handlers, NEW u \in Usages, Answer(h, u), NEW s \in Sessions
  PROVE  Accounted(s)' /\ DOMAIN held' = Sessions
<1> DEFINE t == handler[h].session
           g == get(t)
           c == Committed(g, u[1], u[2])
<1>1. t \in Sessions /\ clock \in Nat /\ Accounted(t) /\ h \in Reserved(t)
  BY DEF Answer, QuotaTypes, HandlerTypes, WindowInv, Reserved
<1>2. g \in Buckets /\ g.windowStart <= clock
  BY <1>1, BucketsAreBuckets DEF Accounted
<1>3. buckets' = [buckets EXCEPT ![t] = c] /\ held' = held /\ clock' = clock
  BY DEF Answer
<1>4. /\ \A i \in Handlers : handler'[i].session = handler[i].session /\ handler'[i].window = handler[i].window
      /\ \A i \in Handlers \ {h} : handler'[i].pc = handler[i].pc
      /\ handler'[h].pc = "leave"
  <2>1. Goto(h, "leave") /\ HandlerTypes
    BY DEF Answer, QuotaTypes
  <2> QED BY <2>1, SMTT(60) DEF Goto, HandlerTypes
<1>5. c.windowStart = g.windowStart /\ c.windowCount = g.windowCount
  <2> HIDE DEF g
  <2> QED BY <1>2, CommitKeepsWindow
<1>6. /\ Reserved(s)' \subseteq Reserved(s)
      /\ \A i \in Reserved(s)' : handler'[i].window = handler[i].window
  BY <1>4 DEF Reserved
<1>7. buckets[t] # None /\ g = buckets[t]
  BY <1>1 DEF Accounted, get
<1>8. c \in Buckets
  <2>1. PICK i, o \in Nat : i = u[1] /\ o = u[2]
    BY ProxyAssumption
  <2>2. c = Committed(g, i, o)
    BY <2>1
  <2> HIDE DEF c, g
  <2>3. /\ Committed(g, i, o) \in Buckets
        /\ Committed(g, i, o).requests = g.requests + 1
        /\ Committed(g, i, o).tokensIn = g.tokensIn + i
        /\ Committed(g, i, o).tokensOut = g.tokensOut + o
    BY <1>2, CommitCountsOne
  <2> QED BY <2>2, <2>3
<1> HIDE DEF c, g
<1>9. CASE s # t
  <2>1. buckets'[s] = buckets[s] /\ held'[s] = held[s]
    BY <1>3, <1>9 DEF QuotaTypes
  <2>2. Accounted(s) /\ clock' \in Nat /\ clock <= clock'
    BY <1>1, <1>3 DEF WindowInv
  <2> QED BY <1>3, <1>6, <2>1, <2>2, AccountKept DEF WindowInv
<1>10. CASE s = t
  <2>1. /\ get(s)' = c /\ buckets'[s] # None
    BY <1>10, <1>1, <1>3, <1>8, ProxyAssumption DEF QuotaTypes, get
  <2>2. get(s) = g
    BY <1>10 DEF g
  <2>3. InWindow(s)' \subseteq InWindow(s)
    BY <1>5, <1>6, <1>10, <2>1, <2>2 DEF InWindow
  <2>4. /\ Cardinality(InWindow(s)') <= Cardinality(InWindow(s))
        /\ Cardinality(InWindow(s)') \in Nat /\ Cardinality(InWindow(s)) \in Nat
    BY <1>10, <1>1, <2>3, FewerInWindow, InWindowFinite
  <2>5. /\ held[s] \in Nat /\ Cardinality(InWindow(s)) <= held[s] /\ g.windowCount <= held[s]
        /\ \A i \in Reserved(s) : handler[i].window \in Nat /\ handler[i].window <= g.windowStart
    BY <1>10, <1>1, <2>2 DEF Accounted
  <2>6. Cardinality(InWindow(s)') <= held[s]
    BY <2>4, <2>5
  <2>7. \A i \in Reserved(s)' : handler'[i].window \in Nat /\ handler'[i].window <= c.windowStart
    BY <1>5, <1>6, <1>10, <2>5
  <2>8. Accounted(s)'
    BY <1>10, <1>2, <1>3, <1>5, <2>1, <2>5, <2>6, <2>7 DEF Accounted
  <2> QED BY <1>3, <1>10, <2>8 DEF WindowInv
<1> QED BY <1>9, <1>10

(* A window never counts more than the requests that took a slot in it and *)
(* kept it: Reserve counts a slot where it takes it, and a Refund that     *)
(* comes after the window has rolled finds the count of a window its slot  *)
(* is not in, and can only lower it.                                       *)
THEOREM WindowCountsHeldSlots == Safety => []CountsNoMoreThanHeld
<1>1. Init => WindowInv
  <2> SUFFICES ASSUME Init, NEW s \in Sessions PROVE DOMAIN held = Sessions /\ Accounted(s)
    BY DEF WindowInv, Init
  <2>1. /\ DOMAIN held = Sessions /\ held[s] = 0 /\ clock = 0
        /\ get(s).windowStart = 0 /\ get(s).windowCount = 0
    BY DEF Init, get, NewBucket
  <2>2. Reserved(s) = {} /\ InWindow(s) = {}
    BY DEF Init, Idle, Reserved, InWindow
  <2>3. Cardinality(InWindow(s)) = 0
    BY <2>2, FS_EmptySet
  <2> QED BY <2>1, <2>2, <2>3 DEF Accounted
<1>2. QuotaInv /\ WindowInv /\ [Next]_vars => WindowInv'
  <2> SUFFICES ASSUME QuotaInv, WindowInv, [Next]_vars PROVE WindowInv'
    OBVIOUS
  <2>0. QuotaTypes /\ HandlerTypes /\ clock \in Nat
    BY DEF QuotaInv, QuotaTypes
  <2>1. ASSUME UNCHANGED <<buckets, held>>, clock' \in Nat, clock <= clock',
               \A s \in Sessions : /\ Reserved(s)' \subseteq Reserved(s)
                                   /\ \A h \in Reserved(s)' : handler'[h].window = handler[h].window
        PROVE  WindowInv'
    <3>1. ASSUME NEW s \in Sessions PROVE Accounted(s)'
      BY <2>0, <2>1, AccountKept DEF WindowInv
    <3> QED BY <2>1, <3>1 DEF WindowInv
  <2>2. ASSUME NEW h \in Handlers, UNCHANGED <<clock, buckets, held>>,
               handler'[h].pc \notin {"send", "upstream"},
               \A i \in Handlers \ {h} : handler'[i] = handler[i]
        PROVE  WindowInv'
    <3>1. ASSUME NEW s \in Sessions
          PROVE  /\ Reserved(s)' \subseteq Reserved(s)
                 /\ \A i \in Reserved(s)' : handler'[i].window = handler[i].window
      BY <2>2 DEF Reserved
    <3> QED BY <2>0, <2>1, <2>2, <3>1
  <2>3. ASSUME NEW h \in Handlers, NEW r \in Sessions, Begin(h, r) PROVE WindowInv'
    BY <2>0, <2>2, <2>3 DEF Begin, Idle, HandlerTypes, quotaVars
  <2>4. ASSUME NEW h \in Handlers, SecretForSession(h) PROVE WindowInv'
    BY <2>0, <2>2, <2>4, SMTT(60) DEF SecretForSession, Goto, HandlerTypes, quotaVars
  <2>5. ASSUME NEW h \in Handlers, Send(h) PROVE WindowInv'
    <3>1. /\ handler[h].pc = "send" /\ Goto(h, "upstream") /\ UNCHANGED <<clock, buckets, held>>
      BY <2>5 DEF Send, quotaVars
    <3>2. \A s \in Sessions : /\ Reserved(s)' \subseteq Reserved(s)
                              /\ \A i \in Reserved(s)' : handler'[i].window = handler[i].window
      BY <2>0, <3>1, SMTT(60) DEF Goto, HandlerTypes, Reserved
    <3> QED BY <2>0, <2>1, <3>1, <3>2
  <2>6. ASSUME NEW h \in Handlers, Leave(h) PROVE WindowInv'
    BY <2>0, <2>2, <2>6 DEF Leave, Idle, HandlerTypes, quotaVars
  <2>7. ASSUME NEW h \in Handlers, Reserve(h) PROVE WindowInv'
    <3>1. ASSUME NEW s \in Sessions PROVE Accounted(s)'
      BY <2>0, <2>7, ReserveAccounted
    <3>2. DOMAIN held' = Sessions
      BY <2>7 DEF Reserve, WindowInv
    <3> QED BY <3>1, <3>2 DEF WindowInv
  <2>8. ASSUME NEW h \in Handlers, BodyFails(h) \/ UpstreamFails(h) PROVE WindowInv'
    <3>1. /\ handler[h].pc \in {"send", "upstream"} /\ Refund(h) /\ Goto(h, "leave")
          /\ clock' = clock
      BY <2>8 DEF BodyFails, UpstreamFails
    <3>2. ASSUME NEW s \in Sessions PROVE Accounted(s)'
      BY <2>0, <3>1, RefundAccounted
    <3>3. DOMAIN held' = Sessions
      BY <3>1 DEF Refund, WindowInv
    <3> QED BY <3>2, <3>3 DEF WindowInv
  <2>9. ASSUME NEW h \in Handlers, NEW u \in Usages, Answer(h, u) PROVE WindowInv'
    <3>1. ASSUME NEW s \in Sessions PROVE Accounted(s)'
      BY <2>0, <2>9, AnswerAccounted
    <3>2. DOMAIN held' = Sessions
      BY <2>9 DEF Answer, WindowInv
    <3> QED BY <3>1, <3>2 DEF WindowInv
  <2>10. ASSUME UNCHANGED <<buckets, held, handler>>, clock' \in Nat, clock <= clock' PROVE WindowInv'
    <3>1. \A s \in Sessions : /\ Reserved(s)' \subseteq Reserved(s)
                              /\ \A i \in Reserved(s)' : handler'[i].window = handler[i].window
      BY <2>10 DEF Reserved
    <3> QED BY <2>1, <2>10, <3>1
  <2>11. ASSUME NEW r \in Rotators, Rotation(r) \/ \E ks \in Pools : AdminRotate(r, ks) PROVE WindowInv'
    BY <2>0, <2>10, <2>11, SMTT(60) DEF Rotation, Drain, Drained, DrainTimeout, Replace, AdminRotate, quotaVars
  <2>12. ASSUME Tick \/ (\E s \in Sessions : MintSessionToken(s)) \/ UNCHANGED vars PROVE WindowInv'
    BY <2>0, <2>10, <2>12 DEF Tick, MintSessionToken, vars, quotaVars
  <2> QED BY <2>3, <2>4, <2>5, <2>6, <2>7, <2>8, <2>9, <2>11, <2>12 DEF Next, Forward
<1>3. WindowInv => CountsNoMoreThanHeld
  BY DEF WindowInv, Accounted, CountsNoMoreThanHeld
<1> QED BY <1>1, <1>2, <1>3, QuotaInvHolds, PTL DEF Safety

-----------------------------------------------------------------------------
(* The map that Replace builds names only keys of its list: for an ID that *)
(* occurs there is a last place where it does.                             *)
LEMMA ByIdInList ==
  ASSUME NEW ks \in Pools, NEW id \in IDs, ById(ks)[id] # None
  PROVE  ById(ks)[id] \in Range(ks)
<1> DEFINE T == {n \in 0..(Len(ks) - 1) : ks[Len(ks) - n].id = id}
<1>1. /\ ks \in Seq(Range(ks)) /\ Len(ks) \in Nat
      /\ \A i \in 1..Len(ks) : ks[i] \in Range(ks)
  BY ProxyAssumption
<1>2. PICK i \in 1..Len(ks) : ks[i].id = id
  BY DEF ById
<1>3. Len(ks) - i \in T /\ T \subseteq Nat
  <2>1. Len(ks) - i \in 0..(Len(ks) - 1) /\ Len(ks) - (Len(ks) - i) = i
    BY <1>1
  <2> QED BY <1>1, <1>2, <2>1
<1>4. PICK n \in T : \A m \in T : ~(m < n)
  BY <1>3, LeastNumber
<1>5. Len(ks) - n \in 1..Len(ks) /\ ks[Len(ks) - n].id = id
  BY <1>1, <1>4
<1>6. ASSUME NEW j \in (Len(ks) - n + 1)..Len(ks) PROVE ks[j].id # id
  <2>1. Len(ks) - j \in 0..(Len(ks) - 1) /\ Len(ks) - j < n /\ Len(ks) - (Len(ks) - j) = j
    BY <1>1, <1>4
  <2> QED BY <1>4, <2>1
<1>7. \E k \in Range(ks) : \E l \in 1..Len(ks) :
        k = ks[l] /\ k.id = id /\ \A j \in (l + 1)..Len(ks) : ks[j].id # id
  BY <1>1, <1>5, <1>6
<1> QED BY <1>2, <1>7 DEF ById

(* The pool and its map belong together; a handler's epoch is not ahead.   *)
KeyInv ==
  /\ keys \in Pools /\ keyBySecret = ById(keys)
  /\ sessionToKey \in [Sessions -> IDs \cup {None}] /\ rr \in Nat
  /\ rotate \in [Rotators -> {"none", "draining", "drained", "timedOut", "swapped", "swappedLate"}]
  /\ next \in [Rotators -> Pools \cup {<<>>}]
  /\ \A r \in Rotators : rotate[r] # "none" => next[r] \in Pools
  /\ swaps \in Nat /\ HandlerTypes
  /\ \A h \in Handlers : handler[h].epoch \in Nat /\ handler[h].epoch <= swaps
  /\ NewRequestsUseNewKeys

(* A handler whose record is replaced. *)
LEMMA HandlerSet ==
  ASSUME HandlerTypes, NEW h \in Handlers, NEW r,
         r = [pc |-> r.pc, session |-> r.session, key |-> r.key, window |-> r.window, epoch |-> r.epoch],
         r.pc # "idle" => r.session \in Sessions,
         handler' = [handler EXCEPT ![h] = r]
  PROVE  /\ HandlerTypes'
         /\ \A i \in Handlers : handler'[i] = IF i = h THEN r ELSE handler[i]
<1>1. \A i \in Handlers : handler'[i] = IF i = h THEN r ELSE handler[i]
  BY DEF HandlerTypes
<1>2. DOMAIN handler' = Handlers /\ handler' = [i \in Handlers |-> handler'[i]]
  BY DEF HandlerTypes
<1> QED BY <1>1, <1>2 DEF HandlerTypes

(* Goto changes the place of a handler and nothing else of it. *)
LEMMA GotoKeeps ==
  ASSUME HandlerTypes, NEW h \in Handlers, handler[h].pc # "idle", NEW q, Goto(h, q)
  PROVE  /\ HandlerTypes'
         /\ \A i \in Handlers : handler'[i].key = handler[i].key /\ handler'[i].epoch = handler[i].epoch
<1> DEFINE o == handler[h]
           r == [pc |-> q, session |-> o.session, key |-> o.key, window |-> o.window, epoch |-> o.epoch]
<1>1. o = [pc |-> o.pc, session |-> o.session, key |-> o.key, window |-> o.window, epoch |-> o.epoch]
  BY DEF HandlerTypes
<1>2. [o EXCEPT !.pc = q] = r
  BY <1>1
<1>3. handler' = [handler EXCEPT ![h] = r]
  BY <1>2 DEF Goto
<1>4. r.session \in Sessions
  BY DEF HandlerTypes
<1>5. HandlerTypes' /\ \A i \in Handlers : handler'[i] = IF i = h THEN r ELSE handler[i]
  BY <1>3, <1>4, HandlerSet
<1> QED BY <1>5

(* A step that leaves the pool, the rotations and the handlers alone. *)
LEMMA KeysUntouched ==
  ASSUME KeyInv, UNCHANGED <<poolVars, rotateVars, handler>> PROVE KeyInv'
BY DEF KeyInv, poolVars, rotateVars, HandlerTypes, NewRequestsUseNewKeys

(* A step of one handler that leaves its key and its epoch alone. *)
LEMMA HandlerMoves ==
  ASSUME KeyInv, NEW h \in Handlers, UNCHANGED <<poolVars, rotateVars>>, HandlerTypes',
         \A i \in Handlers : handler'[i].key = handler[i].key /\ handler'[i].epoch = handler[i].epoch
  PROVE  KeyInv'
BY DEF KeyInv, poolVars, rotateVars, NewRequestsUseNewKeys

(* A request that arrives after a rotation was answered is sent with a key *)
(* of the new pool: Replace swaps the list and the map under one lock, and *)
(* SecretForSession looks up the map it finds.                             *)
THEOREM RotatedKeysAreNotUsed == Safety => []NewRequestsUseNewKeys
<1>1. Init => KeyInv
  BY SMTT(60) DEF Init, KeyInv, HandlerTypes, Idle, NewRequestsUseNewKeys
<1>2. KeyInv /\ [Next]_vars => KeyInv'
  <2> SUFFICES ASSUME KeyInv, [Next]_vars PROVE KeyInv'
    OBVIOUS
  <2>1. ASSUME NEW s \in Sessions, MintSessionToken(s) PROVE KeyInv'
    <3> DEFINE k == keys[(rr % Len(keys)) + 1]
    <3>1. keys \in Seq(Range(keys)) /\ keys # <<>> /\ rr \in Nat
      BY <2>1, ProxyAssumption DEF KeyInv, MintSessionToken
    <3>2. (rr % Len(keys)) + 1 \in 1..Len(keys)
      BY <3>1
    <3>3. k.id \in IDs
      <4>1. k \in Range(keys)
        BY <3>1, <3>2
      <4> QED BY <4>1 DEF KeyInv, IDs, Keys
    <3> HIDE DEF k
    <3>4. sessionToKey' = [sessionToKey EXCEPT ![s] = k.id] /\ rr' = rr + 1
      BY <2>1 DEF MintSessionToken, k
    <3>5. UNCHANGED <<keys, keyBySecret, rotate, next, swaps, handler>>
      BY <2>1 DEF MintSessionToken, rotateVars
    <3>6. sessionToKey' \in [Sessions -> IDs \cup {None}]
      BY <3>3, <3>4 DEF KeyInv
    <3>7. rr' \in Nat
      BY <3>1, <3>4, SMTT(60)
    <3>8. HandlerTypes' /\ NewRequestsUseNewKeys'
      BY <3>5 DEF KeyInv, HandlerTypes, NewRequestsUseNewKeys
    <3> QED BY <3>5, <3>6, <3>7, <3>8 DEF KeyInv
  <2>2. ASSUME NEW h \in Handlers, NEW s \in Sessions, Begin(h, s) PROVE KeyInv'
    <3> DEFINE r == [pc |-> "resolve", session |-> s, key |-> None, window |-> 0, epoch |-> swaps]
    <3>1. handler' = [handler EXCEPT ![h] = r]
      <4> DEFINE o1 == [Idle EXCEPT !.pc = "resolve"]
                 o2 == [o1 EXCEPT !.session = s]
      <4>1. o1 = [pc |-> "resolve", session |-> None, key |-> None, window |-> 0, epoch |-> 0]
        BY DEF Idle
      <4>2. handler' = [handler EXCEPT ![h] = [o2 EXCEPT !.epoch = swaps]]
        BY <2>2 DEF Begin
      <4> HIDE DEF o1
      <4>3. o2 = [pc |-> "resolve", session |-> s, key |-> None, window |-> 0, epoch |-> 0]
        BY <4>1
      <4> HIDE DEF o2
      <4>4. [o2 EXCEPT !.epoch = swaps]
              = [pc |-> "resolve", session |-> s, key |-> None, window |-> 0, epoch |-> swaps]
        BY <4>3
      <4> QED BY <4>2, <4>4
    <3>2. /\ r = [pc |-> r.pc, session |-> r.session, key |-> r.key, window |-> r.window, epoch |-> r.epoch]
          /\ r.session \in Sessions /\ r.key = None /\ r.epoch = swaps
      OBVIOUS
    <3> HIDE DEF r
    <3>3. HandlerTypes' /\ \A i \in Handlers : handler'[i] = IF i = h THEN r ELSE handler[i]
      BY <3>1, <3>2, HandlerSet DEF KeyInv
    <3>4. \A i \in Handlers : /\ handler'[i].key = IF i = h THEN None ELSE handler[i].key
                              /\ handler'[i].epoch = IF i = h THEN swaps ELSE handler[i].epoch
      BY <3>2, <3>3
    <3>5. UNCHANGED <<keys, keyBySecret, sessionToKey, rr, rotate, next, swaps>>
      BY <2>2 DEF Begin, poolVars, rotateVars
    <3>6. \A i \in Handlers : handler'[i].epoch \in Nat /\ handler'[i].epoch <= swaps'
      <4>1. swaps \in Nat
        BY DEF KeyInv
      <4>2. swaps <= swaps
        BY <4>1, SMTT(60)
      <4> QED BY <3>4, <3>5, <4>1, <4>2 DEF KeyInv
    <3>7. NewRequestsUseNewKeys'
      BY <3>4, <3>5 DEF KeyInv, NewRequestsUseNewKeys
    <3> QED BY <3>3, <3>5, <3>6, <3>7 DEF KeyInv
  <2>3. ASSUME NEW h \in Handlers, SecretForSession(h) PROVE KeyInv'
    <3> DEFINE id == sessionToKey[handler[h].session]
    <3>1. handler[h].session \in Sessions
      BY <2>3 DEF SecretForSession, KeyInv, HandlerTypes
    <3>2. CASE id = None \/ keyBySecret[id] = None
      <4>1. /\ HandlerTypes'
            /\ \A i \in Handlers : handler'[i].key = handler[i].key /\ handler'[i].epoch = handler[i].epoch
        BY <2>3, <3>2, GotoKeeps DEF SecretForSession, KeyInv
      <4> QED BY <2>3, <4>1, HandlerMoves DEF SecretForSession
    <3>3. CASE ~(id = None \/ keyBySecret[id] = None)
      <4>1. id \in IDs /\ keyBySecret[id] \in Range(keys)
        BY <3>1, <3>3, ByIdInList DEF KeyInv
      <4>2. handler' = [handler EXCEPT ![h].pc = "reserve", ![h].key = keyBySecret[id]]
        BY <2>3, <3>3 DEF SecretForSession
      <4>3. /\ HandlerTypes'
            /\ \A i \in Handlers :
                 /\ handler'[i].key = IF i = h THEN keyBySecret[id] ELSE handler[i].key
                 /\ handler'[i].epoch = handler[i].epoch
        <5> DEFINE o == handler[h]
                   r == [pc |-> "reserve", session |-> o.session, key |-> keyBySecret[id],
                         window |-> o.window, epoch |-> o.epoch]
        <5>1. o = [pc |-> o.pc, session |-> o.session, key |-> o.key, window |-> o.window, epoch |-> o.epoch]
          BY DEF KeyInv, HandlerTypes
        <5> DEFINE o1 == [o EXCEPT !.pc = "reserve"]
        <5>2. o1 = [pc |-> "reserve", session |-> o.session, key |-> o.key, window |-> o.window, epoch |-> o.epoch]
          BY <5>1
        <5>3. handler' = [handler EXCEPT ![h] = [o1 EXCEPT !.key = keyBySecret[id]]]
          BY <4>2 DEF KeyInv, HandlerTypes
        <5> HIDE DEF o1
        <5>4. [o1 EXCEPT !.key = keyBySecret[id]] = r
          BY <5>2
        <5>5. handler' = [handler EXCEPT ![h] = r]
          BY <5>3, <5>4
        <5>6. HandlerTypes' /\ \A i \in Handlers : handler'[i] = IF i = h THEN r ELSE handler[i]
          <6>1. HandlerTypes /\ h \in Handlers /\ (r.pc # "idle" => r.session \in Sessions)
            BY <3>1 DEF KeyInv
          <6>2. r = [pc |-> r.pc, session |-> r.session, key |-> r.key, window |-> r.window, epoch |-> r.epoch]
            OBVIOUS
          <6> HIDE DEF r
          <6> QED BY <5>5, <6>1, <6>2, HandlerSet
        <5>7. r.key = keyBySecret[id] /\ r.epoch = handler[h].epoch
          OBVIOUS
        <5> HIDE DEF r, o
        <5> QED BY <5>6, <5>7
      <4> QED BY <2>3, <4>1, <4>3
              DEF SecretForSession, KeyInv, poolVars, rotateVars, NewRequestsUseNewKeys
    <3> QED BY <3>2, <3>3
  <2>4. ASSUME NEW h \in Handlers, Reserve(h) PROVE KeyInv'
    <3>1. /\ HandlerTypes' /\ UNCHANGED <<poolVars, rotateVars>>
          /\ \A i \in Handlers : handler'[i].key = handler[i].key /\ handler'[i].epoch = handler[i].epoch
      <4> DEFINE o == handler[h]
                 b == Rolled(get(o.session), clock)
                 r == [pc |-> "send", session |-> o.session, key |-> o.key,
                       window |-> b.windowStart, epoch |-> o.epoch]
      <4>1. o = [pc |-> o.pc, session |-> o.session, key |-> o.key, window |-> o.window, epoch |-> o.epoch]
        BY DEF KeyInv, HandlerTypes
      <4>2. o.pc = "reserve" /\ o.session \in Sessions /\ UNCHANGED <<poolVars, rotateVars>>
        BY <2>4 DEF Reserve, KeyInv, HandlerTypes
      <4>3. CASE Goto(h, "leave")
        BY <4>2, <4>3, GotoKeeps DEF KeyInv
      <4>4. CASE handler' = [handler EXCEPT ![h].pc = "send", ![h].window = b.windowStart]
        <5> DEFINE o1 == [o EXCEPT !.pc = "send"]
        <5>1. o1 = [pc |-> "send", session |-> o.session, key |-> o.key, window |-> o.window, epoch |-> o.epoch]
          BY <4>1
        <5>2. handler' = [handler EXCEPT ![h] = [o1 EXCEPT !.window = b.windowStart]]
          BY <4>4 DEF KeyInv, HandlerTypes
        <5> HIDE DEF o1, b
        <5>3. [o1 EXCEPT !.window = b.windowStart] = r
          BY <5>1
        <5>4. handler' = [handler EXCEPT ![h] = r]
          BY <5>2, <5>3
        <5>5. HandlerTypes' /\ \A i \in Handlers : handler'[i] = IF i = h THEN r ELSE handler[i]
          <6>1. /\ r = [pc |-> r.pc, session |-> r.session, key |-> r.key, window |-> r.window, epoch |-> r.epoch]
                /\ r.session \in Sessions
            BY <4>2
          <6>2. HandlerTypes BY DEF KeyInv
          <6> HIDE DEF r
          <6> QED BY <5>4, <6>1, <6>2, HandlerSet
        <5>6. r.key = handler[h].key /\ r.epoch = handler[h].epoch
          OBVIOUS
        <5> HIDE DEF r, o
        <5> QED BY <4>2, <5>5, <5>6
      <4> QED BY <2>4, <4>3, <4>4 DEF Reserve
    <3> QED BY <3>1, HandlerMoves
  <2>5. ASSUME NEW h \in Handlers, Send(h) \/ BodyFails(h) \/ UpstreamFails(h) \/ \E u \in Usages : Answer(h, u)
        PROVE  KeyInv'
    <3>1. PICK q \in {"upstream", "leave"} : Goto(h, q) /\ handler[h].pc # "idle"
      BY <2>5 DEF Send, BodyFails, UpstreamFails, Answer
    <3>2. /\ HandlerTypes'
          /\ \A i \in Handlers : handler'[i].key = handler[i].key /\ handler'[i].epoch = handler[i].epoch
      BY <3>1, GotoKeeps DEF KeyInv
    <3>3. UNCHANGED <<poolVars, rotateVars>>
      BY <2>5 DEF Send, BodyFails, UpstreamFails, Answer
    <3> QED BY <3>2, <3>3, HandlerMoves
  <2>6. ASSUME NEW h \in Handlers, Leave(h) PROVE KeyInv'
    <3>1. /\ HandlerTypes' /\ UNCHANGED <<poolVars, rotateVars>>
          /\ \A i \in Handlers : handler'[i] = IF i = h THEN Idle ELSE handler[i]
      BY <2>6 DEF Leave, KeyInv, HandlerTypes, Idle
    <3>2. Idle.key = None /\ Idle.epoch = 0
      BY DEF Idle
    <3>3. 0 \in Nat /\ 0 <= swaps
      <4>1. swaps \in Nat
        BY DEF KeyInv
      <4> QED BY <4>1, SMTT(60)
    <3>4. UNCHANGED <<keys, keyBySecret, sessionToKey, rr, rotate, next, swaps>>
      BY <3>1 DEF poolVars, rotateVars
    <3>5. \A i \in Handlers : handler'[i].epoch \in Nat /\ handler'[i].epoch <= swaps'
      BY <3>1, <3>2, <3>3, <3>4 DEF KeyInv
    <3>6. NewRequestsUseNewKeys'
      BY <3>1, <3>2, <3>4 DEF KeyInv, NewRequestsUseNewKeys
    <3> QED BY <3>1, <3>4, <3>5, <3>6 DEF KeyInv
  <2>7. ASSUME NEW r \in Rotators, NEW ks \in Pools, AdminRotate(r, ks) PROVE KeyInv'
    BY <2>7 DEF AdminRotate, KeyInv, poolVars, HandlerTypes, NewRequestsUseNewKeys
  <2>8. ASSUME NEW r \in Rotators, Drain(r) PROVE KeyInv'
    BY <2>8, KeysUntouched DEF Drain
  <2>9. ASSUME NEW r \in Rotators, Drained(r) \/ DrainTimeout(r) PROVE KeyInv'
    BY <2>9 DEF Drained, DrainTimeout, KeyInv, poolVars, HandlerTypes, NewRequestsUseNewKeys
  <2>10. ASSUME NEW r \in Rotators, Replace(r) PROVE KeyInv'
    <3>1. keys' \in Pools /\ keyBySecret' = ById(keys)'
      <4>1. keys' = next[r] /\ keyBySecret' = ById(next[r]) /\ next[r] \in Pools
        BY <2>10 DEF Replace, KeyInv
      <4>2. ById(keys)' = ById(next[r])
        BY <4>1, SMTT(60) DEF ById
      <4> QED BY <4>1, <4>2
    <3>2. \A h \in Handlers : handler'[h].epoch # swaps' /\ handler'[h].epoch <= swaps'
      <4>1. swaps' = swaps + 1 /\ handler' = handler
        BY <2>10 DEF Replace
      <4>2. \A h \in Handlers : handler[h].epoch \in Nat /\ handler[h].epoch <= swaps
        BY DEF KeyInv
      <4>3. swaps \in Nat
        BY DEF KeyInv
      <4> QED BY <4>1, <4>2, <4>3
    <3>3. /\ sessionToKey' = sessionToKey /\ rr' = rr /\ next' = next /\ handler' = handler
          /\ rotate' = [rotate EXCEPT ![r] = IF @ = "drained" THEN "swapped" ELSE "swappedLate"]
          /\ rotate[r] # "none"
      BY <2>10 DEF Replace
    <3>4. rotate' \in [Rotators -> {"none", "draining", "drained", "timedOut", "swapped", "swappedLate"}]
      BY <3>3 DEF KeyInv
    <3>5. \A q \in Rotators : rotate'[q] # "none" => next'[q] \in Pools
      BY <3>3 DEF KeyInv
    <3>6. swaps' \in Nat
      <4>1. swaps' = swaps + 1 /\ swaps \in Nat
        BY <2>10 DEF Replace, KeyInv
      <4> QED BY <4>1, SMTT(60)
    <3>7. HandlerTypes' /\ \A h \in Handlers : handler'[h].epoch \in Nat
      BY <3>3 DEF KeyInv, HandlerTypes
    <3>8. NewRequestsUseNewKeys'
      BY <3>2 DEF NewRequestsUseNewKeys
    <3> QED BY <3>1, <3>2, <3>3, <3>4, <3>5, <3>6, <3>7, <3>8 DEF KeyInv
  <2>11. ASSUME Tick \/ UNCHANGED vars PROVE KeyInv'
    BY <2>11, KeysUntouched DEF Tick, vars
  <2> QED BY <2>1, <2>2, <2>3, <2>4, <2>5, <2>6, <2>7, <2>8, <2>9, <2>10, <2>11
          DEF Next, Forward, Rotation
<1>3. KeyInv => NewRequestsUseNewKeys
  BY DEF KeyInv
<1> QED BY <1>1, <1>2, <1>3, PTL DEF Safety

-----------------------------------------------------------------------------
(* A step of the process is a step of the forwards and rotations or leaves *)
(* them alone: the usage an answer's body yields is one of Usages.         *)
LEMMA DaemonStepRefines == [DaemonNext]_allVars => [Next]_vars
<1> SUFFICES ASSUME [DaemonNext]_allVars PROVE [Next]_vars
  OBVIOUS
<1>1. ASSUME NEW h \in Handlers, ForwardStep(h) PROVE Next
  <2>1. ASSUME NEW b \in Bodies, NEW n \in 0..BodyLen(b), AnswerStreamed(h, b, n) PROVE Next
    <3>1. streamBody(b, n) \in Usages /\ Answer(h, streamBody(b, n))
      BY <2>1, BodiesAssumption DEF AnswerStreamed
    <3> QED BY <3>1 DEF Next, Forward
  <2>2. CASE SecretForSession(h) \/ Send(h) \/ BodyFails(h) \/ Leave(h) \/ Reserve(h) \/ UpstreamFails(h)
    BY <2>2 DEF Next, Forward
  <2> QED BY <1>1, <2>1, <2>2 DEF ForwardStep, ReserveAudited, UpstreamFailsAudited
<1>2. ASSUME Accept PROVE Next
  BY <1>2 DEF Accept, Next, Forward
<1>3. ASSUME NEW r \in Rotators, Rotates(r) PROVE Next
  BY <1>3 DEF Rotates, Next
<1>4. ASSUME TimePasses PROVE Next
  BY <1>4 DEF TimePasses, Next
<1>5. ASSUME AuditWrite \/ Signal \/ ShutdownDone \/ ShutdownTimeout PROVE UNCHANGED vars
  BY <1>5 DEF AuditWrite, Signal, ShutdownDone, ShutdownTimeout, Returns
<1>6. ASSUME UNCHANGED allVars PROVE UNCHANGED vars
  BY <1>6 DEF allVars
<1> QED BY <1>1, <1>2, <1>3, <1>4, <1>5, <1>6 DEF DaemonNext

(* The process, with its bodies, audit records and shutdown, implements    *)
(* the forwards and rotations of ProxyServer, so that what is shown of     *)
(* them holds of it.                                                       *)
THEOREM DaemonImplementsServer == DaemonSafety => Safety
<1>1. DaemonInit => Init
  BY DEF DaemonInit
<1> QED BY <1>1, DaemonStepRefines, PTL DEF DaemonSafety, Safety


-----------------------------------------------------------------------------
(* What a session has been charged. *)
Charged(s) == <<get(s).requests, get(s).tokensIn, get(s).tokensOut>>

(* Replacing a session's bucket by one that is charged the same. *)
LEMMA SameCharge ==
  ASSUME QuotaTypes, NEW t \in Sessions, NEW c \in Buckets,
         buckets' = [buckets EXCEPT ![t] = c], clock' = clock,
         <<c.requests, c.tokensIn, c.tokensOut>> = Charged(t)
  PROVE  \A s \in Sessions : Charged(s)' = Charged(s)
<1>1. ASSUME NEW s \in Sessions, s = t PROVE Charged(s)' = Charged(s)
  <2>1. buckets'[s] = c /\ c # None
    BY <1>1, ProxyAssumption DEF QuotaTypes
  <2>2. get(s)' = c
    BY <2>1 DEF get
  <2> QED BY <1>1, <2>2 DEF Charged
<1>2. ASSUME NEW s \in Sessions, s # t PROVE Charged(s)' = Charged(s)
  BY <1>2 DEF QuotaTypes, get, Charged
<1> QED BY <1>1, <1>2

(* Reserve and Refund move slots and charge nothing. *)
LEMMA SlotsChargeNothing ==
  ASSUME QuotaTypes, NEW h \in Handlers, Reserve(h) \/ BodyFails(h) \/ UpstreamFails(h)
  PROVE  \A s \in Sessions : Charged(s)' = Charged(s)
<1> DEFINE t == handler[h].session
<1>1. t \in Sessions /\ get(t) \in Buckets /\ clock' = clock /\ clock \in Nat
  <2>1. t \in Sessions
    BY DEF Reserve, BodyFails, UpstreamFails, QuotaTypes, HandlerTypes
  <2> QED BY <2>1, BucketsAreBuckets DEF Reserve, BodyFails, UpstreamFails, QuotaTypes
<1>2. CASE Reserve(h)
  <2> DEFINE b == Rolled(get(t), clock)
             c == IF WithinCaps(b) THEN SlotTaken(b) ELSE b
  <2>1. b \in Buckets /\ <<b.requests, b.tokensIn, b.tokensOut>> = Charged(t)
    BY <1>1 DEF Rolled, Buckets, Charged
  <2>2. buckets' = [buckets EXCEPT ![t] = c]
    BY <1>2 DEF Reserve
  <2> HIDE DEF b
  <2>3. c \in Buckets /\ <<c.requests, c.tokensIn, c.tokensOut>> = Charged(t)
    BY <2>1, SMTT(60) DEF SlotTaken, Buckets
  <2> QED BY <1>1, <2>2, <2>3, SameCharge
<1>3. CASE BodyFails(h) \/ UpstreamFails(h)
  <2> DEFINE c == SlotRefunded(get(t))
  <2>1. c \in Buckets /\ <<c.requests, c.tokensIn, c.tokensOut>> = Charged(t)
    BY <1>1, SMTT(60) DEF SlotRefunded, Buckets, Charged
  <2>2. buckets' = [buckets EXCEPT ![t] = c]
    BY <1>3 DEF BodyFails, UpstreamFails, Refund
  <2> QED BY <1>1, <2>1, <2>2, SameCharge
<1> QED BY <1>2, <1>3

(* A bucket that is not made yet has no charge, whatever the time. *)
LEMMA NoBucketNoCharge ==
  ASSUME UNCHANGED buckets PROVE \A s \in Sessions : Charged(s)' = Charged(s)
BY DEF Charged, get, NewBucket

AuditInv ==
  /\ audited \in [Sessions -> [records: Nat, tokens: Nat \X Nat, cost: Nat]]
  /\ AuditAgreesWithQuota

(* A step that emits no answer's record charges nothing. *)
LEMMA UnchargedStep ==
  ASSUME AuditInv, UNCHANGED audited, \A s \in Sessions : Charged(s)' = Charged(s)
  PROVE  AuditInv'
BY DEF AuditInv, AuditAgreesWithQuota, Charged

(* What the records of a session add up to when they agree with its bucket. *)
AccountOf(b) ==
  [records |-> b.requests, tokens |-> <<b.tokensIn, b.tokensOut>>,
   cost |-> 3 * b.tokensIn + 15 * b.tokensOut]

(* One more record and one more charge with the same usage still agree. *)
LEMMA AccountGrows ==
  ASSUME NEW b, NEW c, NEW e, NEW u, e = AccountOf(b), u[1] \in Nat, u[2] \in Nat,
         b.tokensIn \in Nat, b.tokensOut \in Nat, c.requests = b.requests + 1,
         c.tokensIn = b.tokensIn + u[1], c.tokensOut = b.tokensOut + u[2]
  PROVE  /\ e.records + 1 = c.requests
         /\ plus(e.tokens, u) = <<c.tokensIn, c.tokensOut>>
         /\ e.cost + estimateCostMicros(u) = 3 * c.tokensIn + 15 * c.tokensOut
<1>1. /\ e.records = b.requests /\ e.tokens[1] = b.tokensIn /\ e.tokens[2] = b.tokensOut
      /\ e.cost = 3 * b.tokensIn + 15 * b.tokensOut
  BY DEF AccountOf
<1>2. e.records + 1 = c.requests
  BY <1>1
<1>3. plus(e.tokens, u) = <<c.tokensIn, c.tokensOut>>
  BY <1>1 DEF plus
<1>4. e.cost + estimateCostMicros(u) = 3 * c.tokensIn + 15 * c.tokensOut
  <2>1. \A x, y, v, w \in Nat :
          (3 * x + 15 * y) + (v * 3 + w * 15) = 3 * (x + v) + 15 * (y + w)
    OBVIOUS
  <2>2. (3 * b.tokensIn + 15 * b.tokensOut) + (u[1] * 3 + u[2] * 15)
          = 3 * (b.tokensIn + u[1]) + 15 * (b.tokensOut + u[2])
    BY <2>1, SMTT(60)
  <2> QED BY <1>1, <2>2 DEF estimateCostMicros
<1> QED BY <1>2, <1>3, <1>4

(* An answer is charged and recorded in the same step with the same usage. *)
LEMMA AnswerAudited ==
  ASSUME AuditInv, QuotaTypes, NEW h \in Handlers, NEW b \in Bodies, NEW n \in 0..BodyLen(b),
         AnswerStreamed(h, b, n)
  PROVE  AuditInv'
<1> DEFINE t == handler[h].session
           u == streamBody(b, n)
           g == get(t)
           c == Committed(g, u[1], u[2])
           e == audited[t]
           r == [records |-> e.records + 1, tokens |-> plus(e.tokens, u),
                 cost |-> e.cost + estimateCostMicros(u)]
<1>1. Answer(h, u) /\ audited' = [audited EXCEPT ![t] = r]
  BY DEF AnswerStreamed, emitAudit
<1>2. t \in Sessions /\ g \in Buckets
  <2>1. t \in Sessions
    BY <1>1 DEF Answer, QuotaTypes, HandlerTypes
  <2> QED BY <2>1, BucketsAreBuckets
<1>3. u[1] \in Nat /\ u[2] \in Nat
  BY BodiesAssumption, ProxyAssumption
<1>4. buckets' = [buckets EXCEPT ![t] = c] /\ clock' = clock
  BY <1>1 DEF Answer
<1>5. e = AccountOf(g)
  BY <1>2 DEF AuditInv, AuditAgreesWithQuota, AccountOf
<1> HIDE DEF u, g, e
<1>c. c = Committed(g, u[1], u[2])
  OBVIOUS
<1> HIDE DEF c
<1>6. /\ c \in Buckets /\ c.requests = g.requests + 1
      /\ c.tokensIn = g.tokensIn + u[1] /\ c.tokensOut = g.tokensOut + u[2]
  <2>1. PICK i, o \in Nat : i = u[1] /\ o = u[2]
    BY <1>3
  <2>2. c = Committed(g, i, o)
    BY <1>c, <2>1
  <2>3. /\ Committed(g, i, o) \in Buckets
        /\ Committed(g, i, o).requests = g.requests + 1
        /\ Committed(g, i, o).tokensIn = g.tokensIn + i
        /\ Committed(g, i, o).tokensOut = g.tokensOut + o
    BY <1>2, CommitCountsOne
  <2> QED BY <2>1, <2>2, <2>3
<1>7. g.tokensIn \in Nat /\ g.tokensOut \in Nat
  BY <1>2 DEF Buckets
<1>8. r = AccountOf(c)
  <2>1. /\ e.records + 1 = c.requests
        /\ plus(e.tokens, u) = <<c.tokensIn, c.tokensOut>>
        /\ e.cost + estimateCostMicros(u) = 3 * c.tokensIn + 15 * c.tokensOut
    BY <1>3, <1>5, <1>6, <1>7, AccountGrows, SMTT(60)
  <2> QED BY <2>1 DEF AccountOf
<1> HIDE DEF r
<1>9. r \in [records: Nat, tokens: Nat \X Nat, cost: Nat]
  <2>1. c.requests \in Nat /\ c.tokensIn \in Nat /\ c.tokensOut \in Nat
    BY <1>6 DEF Buckets
  <2>2. <<c.tokensIn, c.tokensOut>> \in Nat \X Nat /\ 3 * c.tokensIn + 15 * c.tokensOut \in Nat
    BY <2>1
  <2> QED BY <1>8, <2>1, <2>2 DEF AccountOf
<1>10. ASSUME NEW s \in Sessions
      PROVE  (audited[s] = [records |-> get(s).requests, tokens |-> <<get(s).tokensIn, get(s).tokensOut>>,
                            cost |-> 3 * get(s).tokensIn + 15 * get(s).tokensOut])'
  <2>1. CASE s = t
    <3>1. buckets'[s] = c /\ c # None
      BY <1>2, <1>4, <1>6, <2>1, ProxyAssumption DEF QuotaTypes
    <3>2. get(s)' = c
      BY <3>1 DEF get
    <3>3. audited'[s] = r
      BY <1>1, <1>2, <2>1 DEF AuditInv
    <3> QED BY <1>8, <3>2, <3>3 DEF AccountOf
  <2>2. CASE s # t
    <3>1. audited'[s] = audited[s] /\ get(s)' = get(s)
      BY <1>1, <1>4, <2>2 DEF AuditInv, QuotaTypes, get
    <3> QED BY <3>1 DEF AuditInv, AuditAgreesWithQuota
  <2> QED BY <2>1, <2>2
<1> QED BY <1>1, <1>2, <1>9, <1>10 DEF AuditInv, AuditAgreesWithQuota

(* Only an answer changes what is charged and what is recorded. *)
LEMMA AuditInvHolds == DaemonSafety => []AuditInv
<1>1. DaemonInit => AuditInv
  BY SMTT(60) DEF DaemonInit, Init, AuditInv, AuditAgreesWithQuota, get, NewBucket, Zero
<1>2. QuotaInv /\ AuditInv /\ [DaemonNext]_allVars => AuditInv'
  <2> SUFFICES ASSUME QuotaTypes, AuditInv, [DaemonNext]_allVars PROVE AuditInv'
    BY DEF QuotaInv
  <2>1. ASSUME NEW h \in Handlers, ForwardStep(h) PROVE AuditInv'
    <3>1. ASSUME NEW b \in Bodies, NEW n \in 0..BodyLen(b), AnswerStreamed(h, b, n) PROVE AuditInv'
      BY <3>1, AnswerAudited
    <3>2. CASE Reserve(h) /\ UNCHANGED audited
      BY <3>2, SlotsChargeNothing, UnchargedStep
    <3>3. CASE (BodyFails(h) \/ UpstreamFails(h)) /\ UNCHANGED audited
      BY <3>3, SlotsChargeNothing, UnchargedStep
    <3>4. CASE (SecretForSession(h) \/ Send(h) \/ Leave(h)) /\ UNCHANGED audited
      <4>1. UNCHANGED buckets
        BY <3>4 DEF SecretForSession, Send, Leave, quotaVars
      <4> QED BY <3>4, <4>1, NoBucketNoCharge, UnchargedStep
    <3> QED BY <2>1, <3>1, <3>2, <3>3, <3>4
            DEF ForwardStep, ReserveAudited, UpstreamFailsAudited, emitRefusal, daemonVars
  <2>2. ASSUME UNCHANGED <<buckets, audited>> PROVE AuditInv'
    BY <2>2, NoBucketNoCharge, UnchargedStep
  <2>3. ASSUME Accept PROVE AuditInv'
    BY <2>2, <2>3 DEF Accept, MintSessionToken, Begin, AdminRotate, quotaVars, daemonVars
  <2>4. ASSUME NEW r \in Rotators, Rotates(r) PROVE AuditInv'
    BY <2>2, <2>4 DEF Rotates, Rotation, Drain, Drained, DrainTimeout, Replace, quotaVars, daemonVars
  <2>5. ASSUME TimePasses PROVE AuditInv'
    BY <2>2, <2>5 DEF TimePasses, Tick, quotaVars, daemonVars
  <2>6. ASSUME AuditWrite \/ Signal \/ ShutdownDone \/ ShutdownTimeout \/ UNCHANGED allVars
        PROVE  AuditInv'
    BY <2>2, <2>6 DEF AuditWrite, Signal, ShutdownDone, ShutdownTimeout, Returns, allVars, vars,
       quotaVars, daemonVars
  <2> QED BY <2>1, <2>3, <2>4, <2>5, <2>6 DEF DaemonNext
<1> QED BY <1>1, <1>2, DaemonImplementsServer, QuotaInvHolds, PTL DEF DaemonSafety

(* "Audit receives one Record per forwarded request": for every mix of     *)
(* streamed, plain and broken-off answers, refusals, rotations and         *)
(* shutdown, the records emitted for a session's answers account for       *)
(* exactly the requests, tokens and cost its quota was charged.            *)
THEOREM AuditMatchesQuota == DaemonSafety => []AuditAgreesWithQuota
<1>1. AuditInv => AuditAgreesWithQuota
  BY DEF AuditInv
<1> QED BY <1>1, AuditInvHolds, PTL

-----------------------------------------------------------------------------
(* The records of a session's answers and what the proxy could not read    *)
(* make up what the upstream reported.                                     *)
ReportInv ==
  /\ audited \in [Sessions -> [records: Nat, tokens: Nat \X Nat, cost: Nat]]
  /\ reported \in [Sessions -> Nat \X Nat] /\ unread \in [Sessions -> Nat \X Nat]
  /\ \A s \in Sessions : plus(audited[s].tokens, unread[s]) = reported[s]

(* The tokens committed for a session are the totals the upstream had      *)
(* reported when each of its answers ended or broke off, less those in     *)
(* answers the proxy cannot read: an answer is charged and recorded with   *)
(* the same usage, which is what its body reported, or nothing if it is    *)
(* compressed or too long for the capture buffer.                          *)
THEOREM QuotaIsWhatWasReported == DaemonSafety => []QuotaChargesReported
<1>1. DaemonInit => ReportInv
  BY SMTT(60) DEF DaemonInit, ReportInv, Zero, plus
<1>2. AuditInv' /\ ReportInv /\ [DaemonNext]_allVars => ReportInv'
  <2> SUFFICES ASSUME AuditInv', ReportInv, [DaemonNext]_allVars PROVE ReportInv'
    OBVIOUS
  <2>1. CASE UNCHANGED <<audited, history>>
    BY <2>1 DEF ReportInv, history
  <2>2. ASSUME NEW h \in Handlers, NEW b \in Bodies, NEW n \in 0..BodyLen(b), AnswerStreamed(h, b, n)
        PROVE  ReportInv'
    <3> DEFINE t == handler[h].session
               u == streamBody(b, n)
               w == Reported(b, n)
               e == audited[t]
               r == [records |-> e.records + 1, tokens |-> plus(e.tokens, u),
                     cost |-> e.cost + estimateCostMicros(u)]
               q == plus(reported[t], w)
               p == IF Readable(b) THEN unread[t] ELSE plus(unread[t], w)
    <3>1. /\ audited' = [audited EXCEPT ![t] = r] /\ reported' = [reported EXCEPT ![t] = q]
          /\ unread' = IF Readable(b) THEN unread ELSE [unread EXCEPT ![t] = plus(@, w)]
      BY <2>2 DEF AnswerStreamed, emitAudit, Hear
    <3>2. /\ u[1] = IF Readable(b) THEN w[1] ELSE 0
          /\ u[2] = IF Readable(b) THEN w[2] ELSE 0
      <4>1. 1 \in 1..2 /\ 2 \in 1..2
        OBVIOUS
      <4> QED BY <4>1, BodiesAssumption, BodyIsReported
    <3>3. w[1] \in Nat /\ w[2] \in Nat
      BY BodiesAssumption, ReportedIsPair
    <3>4. audited' \in [Sessions -> [records: Nat, tokens: Nat \X Nat, cost: Nat]]
      BY DEF AuditInv
    <3> HIDE DEF u, w
    <3>5. t \in Sessions =>
            /\ q \in Nat \X Nat /\ p \in Nat \X Nat /\ plus(plus(e.tokens, u), p) = q
      <4> SUFFICES ASSUME t \in Sessions
                   PROVE  q \in Nat \X Nat /\ p \in Nat \X Nat /\ plus(plus(e.tokens, u), p) = q
        OBVIOUS
      <4>1. /\ e.tokens \in Nat \X Nat /\ unread[t] \in Nat \X Nat
            /\ reported[t] = plus(e.tokens, unread[t])
        BY SMTT(60) DEF ReportInv
      <4> DEFINE a == e.tokens[1]
                 b1 == e.tokens[2]
                 c == unread[t][1]
                 d == unread[t][2]
      <4>2. a \in Nat /\ b1 \in Nat /\ c \in Nat /\ d \in Nat
        BY <4>1
      <4>3. /\ reported[t][1] = a + c /\ reported[t][2] = b1 + d
            /\ unread[t] = <<c, d>>
        BY <4>1 DEF plus
      <4> HIDE DEF a, b1, c, d
      <4>4. q = <<(a + c) + w[1], (b1 + d) + w[2]>>
        BY <4>3 DEF plus
      <4>5. plus(e.tokens, u) = <<a + u[1], b1 + u[2]>>
        BY DEF plus, a, b1
      <4>6. CASE Readable(b)
        <5>1. p = <<c, d>> /\ plus(e.tokens, u) = <<a + w[1], b1 + w[2]>>
          BY <3>2, <4>3, <4>5, <4>6
        <5>2. (a + w[1]) + c = (a + c) + w[1] /\ (b1 + w[2]) + d = (b1 + d) + w[2]
              /\ (a + c) + w[1] \in Nat /\ (b1 + d) + w[2] \in Nat
          BY <3>3, <4>2
        <5>3. plus(plus(e.tokens, u), p) = <<(a + w[1]) + c, (b1 + w[2]) + d>>
          BY <5>1 DEF plus
        <5> QED BY <4>2, <4>4, <5>1, <5>2, <5>3
      <4>7. CASE ~Readable(b)
        <5>1. p = <<c + w[1], d + w[2]>>
          BY <4>7 DEF plus, c, d
        <5>2. plus(e.tokens, u) = <<a + 0, b1 + 0>>
          BY <3>2, <4>5, <4>7
        <5>3. /\ (a + 0) + (c + w[1]) = (a + c) + w[1] /\ (b1 + 0) + (d + w[2]) = (b1 + d) + w[2]
              /\ (a + c) + w[1] \in Nat /\ (b1 + d) + w[2] \in Nat
              /\ c + w[1] \in Nat /\ d + w[2] \in Nat
          BY <3>3, <4>2
        <5>4. plus(plus(e.tokens, u), p) = <<(a + 0) + (c + w[1]), (b1 + 0) + (d + w[2])>>
          BY <5>1, <5>2 DEF plus
        <5> QED BY <4>4, <5>1, <5>3, <5>4
      <4> QED BY <4>6, <4>7
    <3>6. /\ audited'[t].tokens = plus(e.tokens, u) \/ t \notin Sessions
          /\ \A s \in Sessions \ {t} : audited'[s] = audited[s]
      BY <3>1 DEF ReportInv
    <3> HIDE DEF q
    <3>7. unread' = [unread EXCEPT ![t] = p]
      BY <3>1 DEF ReportInv
    <3> HIDE DEF p, e, r
    <3>8. /\ reported' \in [Sessions -> Nat \X Nat] /\ unread' \in [Sessions -> Nat \X Nat]
      BY <3>1, <3>5, <3>7 DEF ReportInv
    <3>9. ASSUME NEW s \in Sessions PROVE plus(audited'[s].tokens, unread'[s]) = reported'[s]
      <4>1. CASE s = t
        <5>1. unread'[s] = p /\ reported'[s] = q
          BY <3>1, <3>7, <4>1 DEF ReportInv
        <5> QED BY <3>5, <3>6, <4>1, <5>1
      <4>2. CASE s # t
        <5>1. unread'[s] = unread[s] /\ reported'[s] = reported[s] /\ audited'[s] = audited[s]
          BY <3>1, <3>6, <3>7, <4>2 DEF ReportInv
        <5> QED BY <5>1 DEF ReportInv
      <4> QED BY <4>1, <4>2
    <3> QED BY <3>4, <3>8, <3>9 DEF ReportInv
  <2>3. ASSUME NEW h \in Handlers, ForwardStep(h) PROVE ReportInv'
    BY <2>1, <2>2, <2>3 DEF ForwardStep, ReserveAudited, UpstreamFailsAudited, emitRefusal, daemonVars
  <2>4. ASSUME ~\E h \in Handlers : ForwardStep(h) PROVE ReportInv'
    BY <2>1, <2>4 DEF DaemonNext, Accept, Rotates, AuditWrite, TimePasses, Signal, ShutdownDone,
       ShutdownTimeout, Returns, allVars, daemonVars
  <2> QED BY <2>3, <2>4
<1>3. AuditInv /\ ReportInv => QuotaChargesReported
  <2> SUFFICES ASSUME AuditInv, ReportInv, NEW s \in Sessions
               PROVE  plus(<<get(s).tokensIn, get(s).tokensOut>>, unread[s]) = reported[s]
    BY DEF QuotaChargesReported
  <2>1. audited[s].tokens = <<get(s).tokensIn, get(s).tokensOut>>
    BY SMTT(60) DEF AuditInv, AuditAgreesWithQuota
  <2> QED BY <2>1 DEF ReportInv
<1> QED BY <1>1, <1>2, <1>3, AuditInvHolds, PTL DEF DaemonSafety
=============================================================================
