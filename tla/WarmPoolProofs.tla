--------------------------- MODULE WarmPoolProofs ---------------------------
(***************************************************************************)
(* The warm pool never loses a refill, for every target, capacity and set  *)
(* of handlers: RefillsAccountedFor is inductive once the types of the     *)
(* pool's state are known.  The argument is a count.  A token is dropped   *)
(* only when 2 * target others are in the channel; a token is spent        *)
(* without a build only when the pool holds target VMs; every other step   *)
(* moves one unit from a summand to another or adds one.                   *)
(*                                                                         *)
(* A warm VM has one holder, in any interleaving of builders and handlers: *)
(* a builder's VM has a number nobody had, and whoever takes a VM takes it *)
(* from where it was, under the lock.                                      *)
(***************************************************************************)
EXTENDS WarmPool, FiniteSetTheorems, TLAPS

(* Zenon first, with more time than the default; leaves that need          *)
(* arithmetic are marked for SMT.                                          *)
USE ZenonT(20), SMTT(60)

(* A handler that holds a VM has one, and VMs come from Manager.           *)
HeldAreMinted ==
  /\ ready \in Seq(minted)
  /\ \A c \in Handlers :
       /\ hvm[c] \in minted \cup {NoVM}
       /\ hpc[c] \in {"hit", "insert", "booted"} => hvm[c] \in minted

IInv == TypeOK /\ HeldAreMinted /\ RefillsAccountedFor

-----------------------------------------------------------------------------
(* The handlers about to ask for a refill can be counted, and one more or  *)
(* one fewer of them changes the count by one.                             *)
LEMMA PokingFinite == IsFiniteSet(Poking) /\ Cardinality(Poking) \in Nat
<1>1. IsFiniteSet(Poking)
  BY PoolAssumption, FS_Subset DEF Poking
<1> QED BY <1>1, FS_CardinalityType

(* AcquireWarm: the handler is about to ask for a refill. *)
LEMMA PokingGrows ==
  ASSUME NEW c \in Handlers, c \notin Poking, Poking' = Poking \cup {c}
  PROVE  Cardinality(Poking') = Cardinality(Poking) + 1
BY PokingFinite, FS_AddElement

(* AcquirePokes: it has asked. *)
LEMMA PokingShrinks ==
  ASSUME NEW c \in Handlers, c \in Poking, Poking' = Poking \ {c}
  PROVE  Cardinality(Poking') = Cardinality(Poking) - 1
BY PokingFinite, FS_RemoveElement

-----------------------------------------------------------------------------
(* Every step preserves the types. *)
LEMMA TypesPreserved ==
  ASSUME TypeOK, HeldAreMinted, [Next]_vars PROVE TypeOK' /\ HeldAreMinted'
<1> USE PoolAssumption DEF TypeOK, HeldAreMinted, poolVars, vmVars
<1>1. CASE Seed
  BY <1>1, SMTT(60) DEF Seed, PokeReplenish
<1>2. CASE LoopReceives
  BY <1>2, SMTT(60) DEF LoopReceives
<1>3. CASE LoopLooks
  BY <1>3, SMTT(60) DEF LoopLooks
<1>4. CASE BuildStart
  BY <1>4, SMTT(60) DEF BuildStart
<1>5. CASE BuildDone
  <2>1. ASSUME NEW v \in VMs, Booted(v), ready' = Append(ready, v)
        PROVE  ready' \in Seq(VMs) /\ ready' \in Seq(minted')
    <3>1. ready \in Seq(minted')
      BY <2>1, SMTT(60) DEF Booted
    <3>2. v \in minted'
      BY <2>1 DEF Booted
    <3> QED BY <2>1, <3>1, <3>2, SMTT(60)
  <2>2. ready' \in Seq(VMs) /\ ready' \in Seq(minted')
    BY <1>5, <2>1 DEF BuildDone, BootFailed
  <2> QED BY <1>5, <2>2, SMTT(60) DEF BuildDone, Booted, BootFailed
<1>6. ASSUME NEW c \in Handlers, AcquireWarm(c) PROVE TypeOK' /\ HeldAreMinted'
  <2>1. ready # <<>> => /\ Head(ready) \in minted
                        /\ Tail(ready) \in Seq(VMs) /\ Tail(ready) \in Seq(minted)
    BY SMTT(60)
  <2>2. CASE ready = <<>>
    BY <1>6, <2>2, SMTT(60) DEF AcquireWarm
  <2>3. CASE ready # <<>>
    <3>1. /\ hvm' = [hvm EXCEPT ![c] = Head(ready)]
          /\ hpc' = [hpc EXCEPT ![c] = "hit"]
          /\ ready' = Tail(ready)
          /\ requests' = requests + 1 /\ requests < MaxRequests
          /\ UNCHANGED <<replenish, seeds, loopAt, spawned, booting, failed, vmVars, live, phase>>
      BY <1>6, <2>3 DEF AcquireWarm
    <3>2. TypeOK'
      BY <2>1, <2>3, <3>1, SMTT(60)
    <3>3. HeldAreMinted'
      BY <2>1, <2>3, <3>1
    <3> QED BY <3>2, <3>3
  <2> QED BY <2>2, <2>3
<1>7. ASSUME NEW c \in Handlers, AcquirePokes(c) PROVE TypeOK' /\ HeldAreMinted'
  BY <1>7, SMTT(60) DEF AcquirePokes, PokeReplenish
<1>8. ASSUME NEW c \in Handlers, CreateWarm(c) PROVE TypeOK' /\ HeldAreMinted'
  BY <1>8 DEF CreateWarm
<1>9. ASSUME NEW c \in Handlers, Create(c) PROVE TypeOK' /\ HeldAreMinted'
  BY <1>9, SMTT(60) DEF Create, Booted, BootFailed
<1>10. ASSUME NEW v \in VMs, VMExit(v) \/ WatchWakes(v) \/ Destroy(v)
       PROVE  TypeOK' /\ HeldAreMinted'
  BY <1>10 DEF VMExit, WatchWakes, Destroy
<1>11. CASE Shutdown
  BY <1>11 DEF Shutdown
<1>12. CASE UNCHANGED vars
  BY <1>12 DEF vars
<1> QED
  BY <1>1, <1>2, <1>3, <1>4, <1>5, <1>6, <1>7, <1>8, <1>9, <1>10, <1>11, <1>12
  DEF Next, PoolStep, HandlerStep

-----------------------------------------------------------------------------
(* The summands of the count are natural numbers. *)
TypesOfCount ==
  /\ seeds \in Nat /\ replenish \in Nat /\ spawned \in Nat /\ booting \in Nat
  /\ Cardinality(Poking) \in Nat /\ Looking \in Nat
  /\ Len(ready) \in Nat /\ Building \in Nat /\ Asked \in Nat /\ failed \in Nat

(* They are, in every state of the right type. *)
LEMMA CountIsTyped == TypeOK => TypesOfCount
<1> SUFFICES ASSUME TypeOK PROVE TypesOfCount
  OBVIOUS
<1>1. /\ seeds \in Nat /\ replenish \in Nat /\ spawned \in Nat /\ booting \in Nat
      /\ Len(ready) \in Nat /\ failed \in Nat /\ Looking \in Nat
  BY PoolAssumption, SMTT(60) DEF TypeOK, Looking
<1>2. Cardinality(Poking) \in Nat
  BY PokingFinite
<1> QED BY <1>1, <1>2 DEF TypesOfCount, Building, Asked

(* Every step preserves the count. *)
LEMMA CountPreserved ==
  ASSUME TypeOK, RefillsAccountedFor, [Next]_vars, TypeOK' PROVE RefillsAccountedFor'
<1> USE DEF poolVars, vmVars
<1>1. TypesOfCount /\ TypesOfCount'
  BY CountIsTyped, PTL
<1>2. ASSUME \/ Len(ready)' + Building' + Asked' + failed'
                  >= Len(ready) + Building + Asked + failed
             \/ Asked' >= target
             \/ Len(ready)' >= target
      PROVE  RefillsAccountedFor'
  <2>1. /\ Len(ready) \in Nat /\ Building \in Nat /\ Asked \in Nat /\ failed \in Nat
        /\ target \in Nat
    BY <1>1, PoolAssumption DEF TypesOfCount
  <2>2. Len(ready)' \in Nat /\ Building' \in Nat /\ Asked' \in Nat /\ failed' \in Nat
    BY <1>1 DEF TypesOfCount
  <2>3. CASE Asked' >= target
    BY <2>1, <2>2, <2>3 DEF RefillsAccountedFor
  <2>4. CASE Len(ready)' >= target
    BY <2>1, <2>2, <2>4 DEF RefillsAccountedFor
  <2>5. CASE Len(ready)' + Building' + Asked' + failed'
               >= Len(ready) + Building + Asked + failed
    BY <2>1, <2>2, <2>5 DEF RefillsAccountedFor
  <2> QED BY <1>2, <2>3, <2>4, <2>5
<1>3. ASSUME hpc' = hpc PROVE Poking' = Poking
  BY <1>3 DEF Poking
<1>4. CASE Seed
  <2>1. Asked' = Asked \/ Asked' >= target
    BY <1>1, <1>3, <1>4, PoolAssumption DEF Seed, PokeReplenish, Asked, Looking, TypesOfCount
  <2>2. Building' = Building /\ UNCHANGED <<ready, failed>>
    BY <1>4 DEF Seed, Building
  <2> QED BY <1>1, <1>2, <2>1, <2>2 DEF TypesOfCount
<1>5. CASE LoopReceives
  <2>1. Asked' = Asked
    BY <1>1, <1>3, <1>5 DEF LoopReceives, Asked, Looking, TypesOfCount
  <2>2. Building' = Building /\ UNCHANGED <<ready, failed>>
    BY <1>5 DEF LoopReceives, Building
  <2> QED BY <1>1, <1>2, <2>1, <2>2 DEF TypesOfCount
<1>6. CASE LoopLooks
  <2>1. Asked' = Asked - 1
    BY <1>1, <1>3, <1>6 DEF LoopLooks, Asked, Looking, TypesOfCount
  <2>2. Len(ready)' >= target \/ Building' = Building + 1
    BY <1>1, <1>6, PoolAssumption DEF LoopLooks, Building, TypesOfCount
  <2>3. UNCHANGED <<ready, failed>>
    BY <1>6 DEF LoopLooks
  <2> QED BY <1>1, <1>2, <2>1, <2>2, <2>3 DEF TypesOfCount
<1>7. CASE BuildStart
  <2>1. Asked' = Asked /\ ready' = ready
    BY <1>3, <1>7 DEF BuildStart, Asked, Looking
  <2>2. CASE AtCapacity
    <3>1. Building' = Building - 1 /\ failed' = failed + 1
      BY <1>1, <1>7, <2>2 DEF BuildStart, Building, TypesOfCount
    <3> QED BY <1>1, <1>2, <2>1, <3>1 DEF TypesOfCount
  <2>3. CASE ~AtCapacity
    <3>1. Building' = Building /\ failed' = failed
      BY <1>1, <1>7, <2>3 DEF BuildStart, Building, TypesOfCount
    <3> QED BY <1>1, <1>2, <2>1, <3>1 DEF TypesOfCount
  <2> QED BY <2>2, <2>3
<1>8. CASE BuildDone
  <2>1. ASSUME NEW v \in VMs, ready' = Append(ready, v) PROVE Len(ready)' = Len(ready) + 1
    BY <2>1 DEF TypeOK
  <2>2. \/ failed' = failed + 1 /\ ready' = ready
        \/ Len(ready)' = Len(ready) + 1 /\ failed' = failed
    BY <1>8, <2>1 DEF BuildDone
  <2>3. Building' = Building - 1
    BY <1>1, <1>8 DEF BuildDone, Building, TypesOfCount
  <2>4. Asked' = Asked
    BY <1>3, <1>8 DEF BuildDone, Asked, Looking
  <2>5. CASE failed' = failed + 1 /\ ready' = ready
    BY <1>1, <1>2, <2>3, <2>4, <2>5 DEF TypesOfCount
  <2>6. CASE Len(ready)' = Len(ready) + 1 /\ failed' = failed
    BY <1>1, <1>2, <2>3, <2>4, <2>6 DEF TypesOfCount
  <2> QED BY <2>2, <2>5, <2>6
<1>9. ASSUME NEW c \in Handlers, AcquireWarm(c) PROVE RefillsAccountedFor'
  <2>1. c \notin Poking /\ Poking' = Poking \cup {c}
    BY <1>9 DEF AcquireWarm, Poking, TypeOK
  <2>2. Cardinality(Poking') = Cardinality(Poking) + 1
    BY <2>1, PokingGrows
  <2>3. Asked' = Asked + 1
    BY <1>1, <1>9, <2>2, SMTT(60) DEF AcquireWarm, Asked, Looking, TypesOfCount
  <2>4. Len(ready)' >= Len(ready) - 1
    BY <1>9, SMTT(60) DEF AcquireWarm, TypeOK
  <2>5. Building' = Building /\ failed' = failed
    BY <1>9 DEF AcquireWarm, Building
  <2> QED BY <1>1, <1>2, <2>3, <2>4, <2>5 DEF TypesOfCount
<1>10. ASSUME NEW c \in Handlers, AcquirePokes(c) PROVE RefillsAccountedFor'
  <2>1. c \in Poking /\ Poking' = Poking \ {c}
    BY <1>10 DEF AcquirePokes, Poking, TypeOK
  <2>2. Cardinality(Poking') = Cardinality(Poking) - 1
    BY <2>1, PokingShrinks
  <2>3. Asked' = Asked \/ Asked' >= target
    BY <1>1, <1>10, <2>2, PoolAssumption
    DEF AcquirePokes, PokeReplenish, Asked, Looking, TypesOfCount
  <2>4. Building' = Building /\ UNCHANGED <<ready, failed>>
    BY <1>10 DEF AcquirePokes, Building
  <2> QED BY <1>1, <1>2, <2>3, <2>4 DEF TypesOfCount
<1>11. ASSUME UNCHANGED poolVars, Poking' = Poking PROVE RefillsAccountedFor'
  <2>1. Asked' = Asked /\ Building' = Building
    BY <1>11 DEF Asked, Looking, Building
  <2> QED BY <1>1, <1>2, <1>11, <2>1 DEF TypesOfCount
<1>12. ASSUME NEW c \in Handlers, CreateWarm(c) \/ Create(c) PROVE RefillsAccountedFor'
  <2>1. Poking' = Poking
    BY <1>12 DEF CreateWarm, Create, Poking, TypeOK
  <2> QED BY <1>11, <1>12, <2>1 DEF CreateWarm, Create
<1>13. ASSUME NEW v \in VMs, VMExit(v) \/ WatchWakes(v) \/ Destroy(v)
       PROVE  RefillsAccountedFor'
  BY <1>3, <1>11, <1>13 DEF VMExit, WatchWakes, Destroy
<1>14. CASE Shutdown
  BY <1>3, <1>11, <1>14 DEF Shutdown
<1>15. CASE UNCHANGED vars
  BY <1>3, <1>11, <1>15 DEF vars
<1> QED
  BY <1>4, <1>5, <1>6, <1>7, <1>8, <1>9, <1>10, <1>12, <1>13, <1>14, <1>15
  DEF Next, PoolStep, HandlerStep

(* A new pool owes target seeds. *)
LEMMA InitIInv == Init => IInv
<1> SUFFICES ASSUME Init PROVE IInv
  OBVIOUS
<1>1. TypeOK /\ HeldAreMinted
  BY PoolAssumption DEF Init, TypeOK, HeldAreMinted
<1>2. RefillsAccountedFor
  <2>1. TypesOfCount
    BY <1>1, CountIsTyped
  <2> QED BY <2>1 DEF Init, RefillsAccountedFor, TypesOfCount, Asked, Building
<1> QED BY <1>1, <1>2 DEF IInv

(* The invariant holds in every state of the pool. *)
LEMMA IInvHolds == Safety => []IInv
<1>1. IInv /\ [Next]_vars => IInv'
  BY TypesPreserved, CountPreserved DEF IInv
<1> QED BY InitIInv, <1>1, PTL DEF Safety

(* The pool's, the handlers' and Host's state has its types. *)
THEOREM TypeCorrect == Safety => []TypeOK
<1>1. IInv => TypeOK
  BY DEF IInv
<1> QED BY <1>1, IInvHolds, PTL

(* However AcquireWarm, Start, the replenish loop and the builders         *)
(* interleave, the pool misses at most one VM per failed build that nobody *)
(* is building or has asked for.                                           *)
THEOREM NoRefillIsLost == Safety => []RefillsAccountedFor
<1>1. IInv => RefillsAccountedFor
  BY DEF IInv
<1> QED BY <1>1, IInvHolds, PTL

-----------------------------------------------------------------------------
(* OneHolder, place by place: nothing in the pool, in a handler's hands or *)
(* in Host's map is also somewhere else.                                   *)
PlacesDiffer ==
  /\ \A i, j \in 1..Len(ready) : ready[i] = ready[j] => i = j
  /\ \A i \in 1..Len(ready) : ready[i] \notin live
  /\ \A i \in 1..Len(ready), c \in Handlers : ready[i] # hvm[c]
  /\ \A c, d \in Handlers : hvm[c] = hvm[d] /\ hvm[c] # NoVM => c = d
  /\ \A c \in Handlers : hvm[c] \notin live

(* The two say the same. *)
LEMMA HoldersByPlace == TypeOK => (OneHolder <=> PlacesDiffer)
<1> SUFFICES ASSUME TypeOK PROVE OneHolder <=> PlacesDiffer
  OBVIOUS
<1>1. NoVM \notin live /\ \A i \in 1..Len(ready) : ready[i] # NoVM
  BY PoolAssumption, SMTT(60) DEF TypeOK
<1> QED BY <1>1, SMTT(60) DEF OneHolder, PlacesDiffer, Pooled, Held

(* Every step preserves it: a boot yields a VM that was nowhere, and a VM  *)
(* that enters a handler's hands or Host's map leaves where it was.        *)
LEMMA PlacesPreserved ==
  ASSUME TypeOK, HeldAreMinted, PlacesDiffer, [Next]_vars PROVE PlacesDiffer'
<1> USE PoolAssumption DEF PlacesDiffer
<1>0. /\ \A i \in 1..Len(ready) : ready[i] \in minted
      /\ Len(ready) \in Nat /\ live \subseteq minted /\ NoVM \notin minted
      /\ hvm \in [Handlers -> VMs \cup {NoVM}] /\ \A c \in Handlers : hvm[c] \in minted \cup {NoVM}
  BY SMTT(60) DEF TypeOK, HeldAreMinted
<1>1. ASSUME live' \subseteq live, UNCHANGED <<ready, hvm>> PROVE PlacesDiffer'
  BY <1>1
<1>2. CASE Seed \/ LoopReceives \/ LoopLooks \/ BuildStart \/ Shutdown \/ UNCHANGED vars
  BY <1>1, <1>2 DEF Seed, LoopReceives, LoopLooks, BuildStart, Shutdown, poolVars, vars
<1>3. ASSUME NEW v \in VMs, VMExit(v) \/ WatchWakes(v) \/ Destroy(v) PROVE PlacesDiffer'
  BY <1>1, <1>3 DEF VMExit, WatchWakes, Destroy, poolVars
<1>4. CASE BuildDone
  <2>1. ASSUME NEW v \in VMs \ minted, ready' = Append(ready, v), UNCHANGED <<live, hvm>>
        PROVE  PlacesDiffer'
    <3>1. /\ Len(ready') = Len(ready) + 1
          /\ \A i \in 1..Len(ready) : ready'[i] = ready[i]
          /\ ready'[Len(ready) + 1] = v
      BY <2>1, SMTT(60) DEF TypeOK
    <3>2. ASSUME NEW i \in 1..Len(ready')
          PROVE  (i \in 1..Len(ready) /\ ready'[i] = ready[i]) \/ (i = Len(ready) + 1 /\ ready'[i] = v)
      BY <1>0, <3>1, SMTT(60)
    <3>3. v \notin live /\ \A c \in Handlers : hvm[c] # v
      BY <1>0, <2>1, SMTT(60)
    <3>4. \A i \in 1..Len(ready) : ready[i] # v
      BY <1>0, <2>1, SMTT(60)
    <3> QED BY <2>1, <3>2, <3>3, <3>4, SMTT(60)
  <2> QED BY <1>1, <1>4, <2>1 DEF BuildDone, Booted
<1>5. ASSUME NEW c \in Handlers, AcquireWarm(c) PROVE PlacesDiffer'
  <2>1. CASE ready = <<>>
    BY <1>1, <1>5, <2>1 DEF AcquireWarm
  <2>2. CASE ready # <<>>
    <3>1. /\ hvm' = [hvm EXCEPT ![c] = Head(ready)] /\ ready' = Tail(ready) /\ live' = live
      BY <1>5, <2>2 DEF AcquireWarm
    <3>2. /\ Head(ready) = ready[1] /\ 1 \in 1..Len(ready)
          /\ Len(ready') = Len(ready) - 1
          /\ \A i \in 1..Len(ready') : i + 1 \in 1..Len(ready) /\ ready'[i] = ready[i + 1]
      BY <2>2, <3>1, SMTT(60) DEF TypeOK
    <3>3. \A i \in 1..Len(ready') : ready'[i] # ready[1] /\ ready'[i] \notin live
      BY <3>2, SMTT(60)
    <3>4. \A i, j \in 1..Len(ready') : ready'[i] = ready'[j] => i = j
      BY <3>2, SMTT(60)
    <3>5. \A d \in Handlers : hvm'[d] = IF d = c THEN ready[1] ELSE hvm[d]
      BY <1>0, <3>1, <3>2, SMTT(60)
    <3>6. \A i \in 1..Len(ready'), d \in Handlers : ready'[i] # hvm'[d]
      BY <3>2, <3>3, <3>5, SMTT(60)
    <3>7. \A d, e \in Handlers : hvm'[d] = hvm'[e] /\ hvm'[d] # NoVM => d = e
      BY <3>2, <3>5, SMTT(60)
    <3>8. \A d \in Handlers : hvm'[d] \notin live'
      BY <3>1, <3>2, <3>5, SMTT(60)
    <3> QED BY <3>1, <3>3, <3>4, <3>6, <3>7, <3>8
  <2> QED BY <2>1, <2>2
<1>6. ASSUME NEW c \in Handlers, AcquirePokes(c) PROVE PlacesDiffer'
  BY <1>1, <1>6 DEF AcquirePokes
<1>7. ASSUME NEW c \in Handlers, ready' = ready, hvm' = [hvm EXCEPT ![c] = NoVM],
             hvm[c] \in minted, live' \subseteq live \cup {hvm[c]}
      PROVE  PlacesDiffer'
  <2>1. \A d \in Handlers : hvm'[d] = IF d = c THEN NoVM ELSE hvm[d]
    BY <1>0, <1>7
  <2> QED BY <1>0, <1>7, <2>1, SMTT(60)
<1>8. ASSUME NEW c \in Handlers, CreateWarm(c) PROVE PlacesDiffer'
  <2>1. ready' = ready /\ hvm' = [hvm EXCEPT ![c] = NoVM] /\ live' \subseteq live \cup {hvm[c]}
    BY <1>8 DEF CreateWarm, poolVars
  <2>2. hvm[c] \in minted
    BY <1>8 DEF CreateWarm, HeldAreMinted
  <2> QED BY <1>7, <2>1, <2>2
<1>9. ASSUME NEW c \in Handlers, Create(c) PROVE PlacesDiffer'
  <2>1. ready' = ready
    BY <1>9 DEF Create, poolVars
  <2>2. ASSUME NEW v \in VMs \ minted, hvm' = [hvm EXCEPT ![c] = v], live' = live
        PROVE  PlacesDiffer'
    <3>1. \A d \in Handlers : hvm'[d] = IF d = c THEN v ELSE hvm[d]
      BY <1>0, <2>2
    <3> QED BY <1>0, <2>1, <2>2, <3>1, SMTT(60)
  <2>3. \/ UNCHANGED <<hvm, live>>
        \/ /\ hvm' = [hvm EXCEPT ![c] = NoVM] /\ hvm[c] \in minted
           /\ live' \subseteq live \cup {hvm[c]}
        \/ \E v \in VMs \ minted : hvm' = [hvm EXCEPT ![c] = v] /\ live' = live
    BY <1>9 DEF Create, Booted, HeldAreMinted
  <2> QED BY <1>1, <1>7, <2>1, <2>2, <2>3
<1> QED
  BY <1>2, <1>3, <1>4, <1>5, <1>6, <1>8, <1>9 DEF Next, PoolStep, HandlerStep

(* A warm VM goes to one request, however acquisitions, builds and         *)
(* destructions interleave and for any number of them.                     *)
THEOREM OneHolderPerVM == Safety => []OneHolder
<1>1. Init => PlacesDiffer
  BY PoolAssumption, SMTT(60) DEF Init, PlacesDiffer
<1>2. IInv => TypeOK /\ HeldAreMinted
  BY DEF IInv
<1>3. IInv /\ PlacesDiffer /\ [Next]_vars => PlacesDiffer'
  BY <1>2, PlacesPreserved
<1>4. IInv /\ PlacesDiffer => OneHolder
  BY <1>2, HoldersByPlace
<1> QED BY <1>1, <1>3, <1>4, IInvHolds, PTL DEF Safety

=============================================================================
