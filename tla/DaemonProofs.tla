---------------------------- MODULE DaemonProofs ----------------------------
(***************************************************************************)
(* What holds of the control-plane daemon over any number of starts,       *)
(* crashes and failures, for every list of migrations, every prefix and    *)
(* every login rate.                                                       *)
(*                                                                         *)
(* Each result has an invariant of its own.  Migrations: where main is in  *)
(* its loop says how much of the schema is there.  Logins: the attempts    *)
(* since any earlier one, and what is left in the bucket, are at most a    *)
(* full bucket and what came back since.  Leases: the allocator's own, to  *)
(* which every restart returns.  TAPs: their counter stays behind the      *)
(* allocator's cursor.  Cookies: the Gate's secret is the one in its file, *)
(* and Slugify leaves a finished slug alone, which is an induction over    *)
(* the characters of the name.                                             *)
(* Types: the other invariants, and that main is at one of its labels.     *)
(***************************************************************************)
EXTENDS Daemon, WellFoundedInduction, TLAPS

(* Zenon first, with more time than the default; leaves that need          *)
(* arithmetic are marked for SMT.                                          *)
USE ZenonT(20), SMTT(60)

(* The allocator by itself, for every prefix size.  LeasesDistinct is not *)
(* inductive: a new lease differs from the others only because the cursor  *)
(* is ahead of every address in use, and because the TAP and CID counters  *)
(* are ahead of every lease and cannot wrap before the prefix is used up.  *)
(* IInv adds exactly that.                                                 *)
CursorAhead == 2 <= next /\ \A c \in in_use : c < next

CountersAhead ==
  /\ cidIdx = tapIdx + 99
  /\ tapIdx + 2 <= next
  /\ tapIdx <= Size
  /\ \A l \in leases : l.tap <= tapIdx /\ l.cid <= cidIdx

MacFollowsIp == \A l \in leases : l.mac = l.ip

IInv ==
  /\ TypeOK
  /\ LeasesDistinct
  /\ BooksMatchLeases
  /\ CursorAhead
  /\ CountersAhead
  /\ MacFollowsIp

-----------------------------------------------------------------------------
(* A value below the modulus is its own remainder: neither the MAC of an   *)
(* address of the prefix nor the CID counter is truncated.                 *)
LEMMA SmallMod ==
  ASSUME NEW c \in Nat, NEW m \in Nat, c < m
  PROVE  c % m = c
  OBVIOUS

(* The scan of Alloc never skips an address: its first candidate is        *)
(* neither the bridge nor in use, whatever was released before.  Hence the *)
(* loop runs once, and "alloc loop exhausted" is unreachable.              *)
THEOREM ScanIsImmediate ==
  IInv => /\ ~Skipped(next)
          /\ \A c \in next..AddrTop : ScanStopsAt(c) <=> c = next
<1> SUFFICES ASSUME IInv
             PROVE  /\ ~Skipped(next)
                    /\ \A c \in next..AddrTop : ScanStopsAt(c) <=> c = next
  OBVIOUS
<1>1. next \in 0..AddrTop /\ next # host /\ next \notin in_use
  BY DEF IInv, TypeOK, CursorAhead, host
<1>2. ~Skipped(next)
  BY <1>1 DEF Skipped
<1>3. ASSUME NEW c \in next..AddrTop, ScanStopsAt(c) PROVE c = next
  <2>1. CASE c > next
    BY <2>1, <1>1, <1>2, <1>3 DEF ScanStopsAt
  <2> QED BY <2>1, <1>1
<1>4. ScanStopsAt(next)
  BY <1>1, <1>2, SizesAssumption DEF ScanStopsAt
<1> QED BY <1>2, <1>3, <1>4

-----------------------------------------------------------------------------
(* What a successful Alloc returns: the address at the cursor, fresh in    *)
(* each of its four fields.                                                *)
LEMMA LeaseIsFresh ==
  ASSUME IInv, AllocLease
  PROVE  /\ next < Size
         /\ in_use' = in_use \cup {next}
         /\ next' = next + 1
         /\ tapIdx' = tapIdx + 1
         /\ cidIdx' = cidIdx + 1
         /\ leases' = leases \cup
              {[ip |-> next, mac |-> next, tap |-> tapIdx + 1, cid |-> cidIdx + 1]}
<1>1. PICK c \in next..AddrTop :
        /\ ScanStopsAt(c)
        /\ Contains(c)
        /\ next' = NextAddr(c)
        /\ in_use' = in_use \cup {c}
        /\ tapIdx' = tapIdx + 1
        /\ cidIdx' = (cidIdx + 1) % CidLimit
        /\ leases' = leases \cup
             {[ip |-> c, mac |-> Mac(c), tap |-> tapIdx', cid |-> cidIdx']}
  BY DEF AllocLease
<1>2. c = next
  BY <1>1, ScanIsImmediate
<1>3. next \in Nat /\ next < Size /\ tapIdx \in Nat /\ cidIdx \in Nat
  BY <1>1, <1>2, SizesAssumption, SMTT(60) DEF Contains, IInv, TypeOK
<1>4. NextAddr(c) = next + 1
  BY <1>2, <1>3, SizesAssumption DEF NextAddr
<1>5. Mac(c) = next
  BY <1>2, <1>3, SmallMod, SizesAssumption, SMTT(60) DEF Mac
<1>6. (cidIdx + 1) % CidLimit = cidIdx + 1
  <2>1. cidIdx + 1 \in Nat /\ cidIdx + 1 < CidLimit
    BY <1>3, SizesAssumption DEF IInv, CountersAhead
  <2> QED BY <2>1, SmallMod, SizesAssumption
<1> QED BY <1>1, <1>2, <1>3, <1>4, <1>5, <1>6

(* IInv is inductive: Alloc, a failing Alloc and Release all preserve it.  *)
LEMMA IInvInductive == IInv /\ [Next]_vars => IInv'
<1> SUFFICES ASSUME IInv, [Next]_vars PROVE IInv'
  OBVIOUS
<1> USE SizesAssumption
<1>1. CASE AllocLease
  <2> DEFINE new == [ip |-> next, mac |-> next, tap |-> tapIdx + 1, cid |-> cidIdx + 1]
  <2>1. /\ next < Size
        /\ in_use' = in_use \cup {next}
        /\ next' = next + 1
        /\ tapIdx' = tapIdx + 1
        /\ cidIdx' = cidIdx + 1
        /\ leases' = leases \cup {new}
    BY <1>1, LeaseIsFresh
  <2>2. /\ next \in Nat /\ tapIdx \in Nat /\ cidIdx \in Nat
        /\ new \in Lease
        /\ leases \subseteq Lease
    BY SMTT(60) DEF IInv, TypeOK, Lease
  <2>3. TypeOK'
    BY <2>1, <2>2, SMTT(60) DEF IInv, TypeOK
  <2>4. \A l \in leases : /\ l.ip < next /\ l.mac < next
                          /\ l.tap < tapIdx + 1 /\ l.cid < cidIdx + 1
    BY <2>2, SMTT(60) DEF IInv, BooksMatchLeases, CursorAhead, CountersAhead, MacFollowsIp, Lease
  <2>5. LeasesDistinct'
    BY <2>1, <2>2, <2>4, SMTT(60) DEF IInv, LeasesDistinct, Lease
  <2>6. BooksMatchLeases'
    BY <2>1, <2>2, SMTT(60) DEF IInv, BooksMatchLeases, CursorAhead, host
  <2>7. CursorAhead'
    BY <2>1, <2>2 DEF IInv, CursorAhead, TypeOK
  <2>8. CountersAhead'
    BY <2>1, <2>2, <2>4, SMTT(60) DEF IInv, CountersAhead, Lease
  <2>9. MacFollowsIp'
    BY <2>1 DEF IInv, MacFollowsIp
  <2> QED BY <2>3, <2>5, <2>6, <2>7, <2>8, <2>9 DEF IInv
<1>2. CASE AllocNoFreeIPs
  <2>1. /\ next' \in 0..AddrTop /\ next' >= next
        /\ UNCHANGED <<in_use, tapIdx, cidIdx, leases>>
    BY <1>2 DEF AllocNoFreeIPs, NextAddr, IInv, TypeOK
  <2> QED BY <2>1, SMTT(60) DEF IInv, TypeOK, LeasesDistinct, BooksMatchLeases,
                      CursorAhead, CountersAhead, MacFollowsIp
<1>3. ASSUME NEW l \in leases, Release(l) PROVE IInv'
  <2>1. /\ leases' = leases \ {l}
        /\ in_use' = in_use \ {l.ip}
        /\ UNCHANGED <<next, tapIdx, cidIdx>>
    BY <1>3 DEF Release
  <2>2. BooksMatchLeases'
    BY <2>1 DEF IInv, BooksMatchLeases, LeasesDistinct
  <2>3. TypeOK'
    BY <2>1 DEF IInv, TypeOK
  <2>4. LeasesDistinct' /\ MacFollowsIp'
    BY <2>1, SMTT(60) DEF IInv, LeasesDistinct, MacFollowsIp
  <2>5. CursorAhead' /\ CountersAhead'
    BY <2>1 DEF IInv, CursorAhead, CountersAhead
  <2> QED BY <2>2, <2>3, <2>4, <2>5 DEF IInv
<1>4. CASE UNCHANGED vars
  BY <1>4 DEF vars, IInv, TypeOK, LeasesDistinct, BooksMatchLeases,
              CursorAhead, CountersAhead, MacFollowsIp
<1> QED BY <1>1, <1>2, <1>3, <1>4 DEF Next

(* The allocator that New returns, with no address in use.                 *)
LEMMA InitIInv == Init => IInv
BY SizesAssumption DEF Init, IInv, TypeOK, LeasesDistinct, BooksMatchLeases,
   CursorAhead, CountersAhead, MacFollowsIp, host

(* The allocator's fields keep their types. *)
THEOREM TypeCorrect == Spec => []TypeOK
<1>1. IInv => TypeOK
  BY DEF IInv
<1> QED BY <1>1, InitIInv, IInvInductive, PTL DEF Spec

(* For every prefix of at most 2^16 addresses: sessions alive together     *)
(* never share an IP, a MAC, a TAP name or a vsock CID.                    *)
THEOREM LeasesAreDistinct == Spec => []LeasesDistinct
<1>1. IInv => LeasesDistinct
  BY DEF IInv
<1> QED BY <1>1, InitIInv, IInvInductive, PTL DEF Spec

(* The allocator's map is exactly what sessions hold, and never contains   *)
(* the bridge's or the network address.                                    *)
THEOREM BooksAreExact == Spec => []BooksMatchLeases
<1>1. IInv => BooksMatchLeases
  BY DEF IInv
<1> QED BY <1>1, InitIInv, IInvInductive, PTL DEF Spec

-----------------------------------------------------------------------------
Count == Len(Migrations)

(* How far the migrations have come. *)
MigrationInv ==
  /\ step \in Nat
  /\ schema \in Seq({Migrations[i] : i \in 1..Count})
  /\ Len(schema) <= Count
  /\ \A i \in 1..Len(schema) : schema[i] = Migrations[i]
  /\ recorded = {schema[i] : i \in 1..Len(schema)}
  /\ pc = "check" => step \in 1..Count /\ step - 1 <= Len(schema)
  /\ pc = "apply" => step \in 1..Count /\ Len(schema) = step - 1
  /\ pc \in {"gate", "write", "bridge", "serve"} => Len(schema) = Count

(* What the constants are. *)
LEMMA MigrationsType ==
  /\ Count \in Nat /\ (Migrations = <<>> => Count = 0)
  /\ Migrations \in Seq({Migrations[i] : i \in 1..Count})
  /\ \A i, j \in 1..Count : Migrations[i] = Migrations[j] => i = j
  BY DaemonAssumption, SMTT(60) DEF Count

(* A migration is recorded exactly when it is among the executed ones.     *)
LEMMA RecordedIffExecuted ==
  ASSUME MigrationInv, NEW k \in 1..Count
  PROVE  Migrations[k] \in recorded <=> k <= Len(schema)
<1>1. Len(schema) \in Nat /\ Count \in Nat BY MigrationsType, SMTT(60) DEF MigrationInv
<1>2. ASSUME Migrations[k] \in recorded PROVE k <= Len(schema)
  <2>1. PICK i \in 1..Len(schema) : schema[i] = Migrations[k] BY <1>2 DEF MigrationInv
  <2>2. i \in 1..Count /\ Migrations[i] = Migrations[k] BY <2>1, <1>1 DEF MigrationInv
  <2>3. i = k BY <2>2, MigrationsType
  <2> QED BY <2>1, <2>3
<1>3. ASSUME k <= Len(schema) PROVE Migrations[k] \in recorded
  <2>1. k \in 1..Len(schema) BY <1>1, <1>3
  <2> QED BY <2>1 DEF MigrationInv
<1> QED BY <1>2, <1>3

(* Executing the next migration and recording it keeps the books. *)
LEMMA CommittedKeepsBooks ==
  ASSUME MigrationInv, pc = "apply", Committed
  PROVE  /\ schema' \in Seq({Migrations[i] : i \in 1..Count})
         /\ Len(schema') = step
         /\ \A i \in 1..Len(schema') : schema'[i] = Migrations[i]
         /\ recorded' = {schema'[i] : i \in 1..Len(schema')}
<1> DEFINE M == {Migrations[i] : i \in 1..Count}
           n == Len(schema)
<1>1. schema \in Seq(M) /\ n \in Nat /\ step \in 1..Count /\ n = step - 1 /\ step \in Nat
  BY MigrationsType, SMTT(60) DEF MigrationInv
<1>2. Migrations[step] \in M BY <1>1
<1>3. schema' = Append(schema, Migrations[step]) BY DEF Committed
<1> HIDE DEF M
<1>4. /\ schema' \in Seq(M) /\ Len(schema') = n + 1 /\ schema'[n + 1] = Migrations[step]
      /\ \A i \in 1..n : schema'[i] = schema[i]
  BY <1>1, <1>2, <1>3
<1>5. n + 1 = step BY <1>1
<1>6. ASSUME NEW i \in 1..Len(schema') PROVE schema'[i] = Migrations[i]
  <2>1. CASE i = step BY <2>1, <1>4, <1>5
  <2>2. CASE i # step
    <3>1. i \in 1..n BY <2>2, <1>1, <1>4, <1>5
    <3> QED BY <3>1, <1>4 DEF MigrationInv
  <2> QED BY <2>1, <2>2
<1>7. recorded' = {schema'[i] : i \in 1..Len(schema')}
  <2>1. recorded' = {schema[i] : i \in 1..n} \cup {Migrations[step]}
    BY DEF Committed, MigrationInv
  <2>2. 1..Len(schema') = 1..n \cup {n + 1} BY <1>1, <1>4
  <2> QED BY <2>1, <2>2, <1>4, SMTT(60)
<1> QED BY <1>4, <1>5, <1>6, <1>7 DEF M

(* The database as it was, wherever main goes but into the loop or past    *)
(* it.                                                                     *)
LEMMA MigrationsAside ==
  ASSUME MigrationInv, UNCHANGED dbVars, step' \in Nat,
         pc' \notin {"check", "apply"},
         pc' \in {"gate", "write", "bridge", "serve"} => pc \in {"gate", "write", "bridge", "serve"}
  PROVE  MigrationInv'
  BY DEF MigrationInv, dbVars

(* main skips or takes up the migration it is at. *)
LEMMA CheckKeepsMigrations ==
  ASSUME MigrationInv, CheckMigration
  PROVE  MigrationInv'
<1>1. /\ step \in 1..Count /\ step - 1 <= Len(schema) /\ Len(schema) \in Nat /\ Count \in Nat
      /\ Len(schema) <= Count /\ step \in Nat
  BY MigrationsType, SMTT(60) DEF MigrationInv, CheckMigration
<1>2. schema' = schema /\ recorded' = recorded BY DEF CheckMigration, dbVars
<1>3. CASE Migrations[step] \in recorded
  <2>1. step <= Len(schema) BY <1>1, <1>3, RecordedIffExecuted
  <2>2. CASE step = Count
    <3>1. pc' = "gate" /\ step' = 1 BY <1>3, <2>2 DEF CheckMigration, NextRound, Goto, Count
    <3>2. Len(schema) = Count BY <1>1, <2>1, <2>2
    <3> QED BY <1>2, <3>1, <3>2 DEF MigrationInv
  <2>3. CASE step # Count
    <3>1. pc' = pc /\ step' = step + 1 /\ pc = "check"
      BY <1>3, <2>3 DEF CheckMigration, NextRound, Count
    <3>2. step + 1 \in 1..Count /\ (step + 1) - 1 <= Len(schema) /\ step + 1 \in Nat
      BY <1>1, <2>1, <2>3
    <3> QED BY <1>2, <3>1, <3>2 DEF MigrationInv
  <2> QED BY <2>2, <2>3
<1>4. CASE Migrations[step] \notin recorded
  <2>1. ~(step <= Len(schema)) BY <1>1, <1>4, RecordedIffExecuted
  <2>2. Len(schema) = step - 1 BY <1>1, <2>1
  <2>3. pc' = "apply" /\ step' = step BY <1>4 DEF CheckMigration
  <2> QED BY <1>1, <1>2, <2>2, <2>3 DEF MigrationInv
<1> QED BY <1>3, <1>4

(* The migration is executed, and main goes on, fails or dies. *)
LEMMA ApplyKeepsMigrations ==
  ASSUME MigrationInv, ApplyMigration \/ CommitFails
  PROVE  MigrationInv'
<1>1. pc = "apply" /\ step \in 1..Count /\ step \in Nat /\ Count \in Nat
  BY MigrationsType DEF MigrationInv, ApplyMigration, CommitFails
<1>2. CASE UNCHANGED dbVars /\ Goto("down")
  BY <1>2, MigrationsAside DEF Goto
<1>3. CASE Committed /\ Goto("down")
  <2>1. step' = 1 /\ pc' = "down" BY <1>3 DEF Goto
  <2> QED BY <1>1, <1>3, <2>1, CommittedKeepsBooks DEF MigrationInv
<1>4. CASE Committed /\ step = Count /\ Goto("gate")
  <2>1. step' = 1 /\ pc' = "gate" BY <1>4 DEF Goto
  <2> QED BY <1>1, <1>4, <2>1, CommittedKeepsBooks, SMTT(60) DEF MigrationInv
<1>5. CASE Committed /\ step # Count /\ pc' = "check" /\ step' = step + 1
  <2>1. step + 1 \in 1..Count /\ step + 1 \in Nat /\ (step + 1) - 1 = step /\ step <= Count
    BY <1>1, <1>5
  <2> QED BY <1>1, <1>5, <2>1, CommittedKeepsBooks DEF MigrationInv
<1> QED BY <1>2, <1>3, <1>4, <1>5 DEF ApplyMigration, CommitFails, Count

(* Every step keeps the state of the migrations. *)
LEMMA MigrationInductive == MigrationInv /\ [DaemonNext]_daemonVars => MigrationInv'
<1> SUFFICES ASSUME MigrationInv, [DaemonNext]_daemonVars PROVE MigrationInv'
  OBVIOUS
<1>1. CASE Start BY <1>1, MigrationsAside DEF Start, Goto
<1>2. CASE Open
  <2>1. schema' = schema /\ recorded' = recorded /\ step' = 1 BY <1>2 DEF Open, Goto, dbVars
  <2>2. Len(schema) \in Nat /\ Count \in Nat BY MigrationsType, SMTT(60) DEF MigrationInv
  <2>3. CASE Migrations = <<>>
    <3>1. pc' = "gate" BY <1>2, <2>3 DEF Open, Goto
    <3>2. Len(schema) = Count BY <2>2, <2>3, MigrationsType, SMTT(60) DEF MigrationInv
    <3> QED BY <2>1, <3>1, <3>2 DEF MigrationInv
  <2>4. CASE Migrations # <<>>
    <3>1. pc' = "check" BY <1>2, <2>4 DEF Open, Goto
    <3>2. Count # 0 BY <2>4, MigrationsType, SMTT(60) DEF Count
    <3>3. 1 \in 1..Count /\ 1 - 1 <= Len(schema) BY <2>2, <3>2
    <3> QED BY <2>1, <3>1, <3>3 DEF MigrationInv
  <2> QED BY <2>3, <2>4
<1>3. CASE CheckMigration BY <1>3, CheckKeepsMigrations
<1>4. CASE ApplyMigration \/ CommitFails BY <1>4, ApplyKeepsMigrations
<1>5. CASE GateLoads \/ GateCreates \/ GateWrites
  <2>1. /\ UNCHANGED dbVars /\ step' = 1
        /\ pc \in {"gate", "write"} /\ pc' \in {"write", "bridge"}
    BY <1>5 DEF GateLoads, GateCreates, GateWrites, Goto
  <2> QED BY <2>1, MigrationsAside
<1>6. CASE EnsureRule
  <2>1. UNCHANGED dbVars /\ pc = "bridge" BY <1>6 DEF EnsureRule
  <2>2. (pc' = "serve" /\ step' = 1) \/ (pc' = pc /\ step' = step + 1)
    BY <1>6 DEF EnsureRule, NextRound, Goto
  <2>3. step' \in Nat BY <2>2 DEF MigrationInv
  <2> QED BY <2>1, <2>2, <2>3, MigrationsAside
<1>7. CASE StartFails BY <1>7, MigrationsAside DEF StartFails, Goto
<1>8. CASE BootSession \/ BootFails \/ (\E l \in leases : EndSession(l)) \/ Serve
  <2>1. UNCHANGED dbVars /\ pc' = pc /\ step' = step /\ pc = "serve"
    BY <1>8 DEF BootSession, BootFails, EndSession, Serve, startVars
  <2> QED BY <2>1, MigrationsAside DEF MigrationInv
<1>9. CASE Stop \/ Crash BY <1>9, MigrationsAside DEF Stop, Crash, Goto
<1>10. CASE TimePasses \/ UNCHANGED daemonVars
  BY <1>10 DEF TimePasses, daemonVars, startVars, dbVars, MigrationInv
<1> QED BY <1>1, <1>2, <1>3, <1>4, <1>5, <1>6, <1>7, <1>8, <1>9, <1>10 DEF DaemonNext, Starting

(* An empty database has no migration. *)
LEMMA MigrationsInit == DaemonInit => MigrationInv
BY MigrationsType, SMTT(60) DEF DaemonInit, MigrationInv

(* Every migration is executed and recorded once and in order, and the     *)
(* daemon serves on a complete schema only, for any list of migrations and *)
(* any number of crashes and lost connections during Migrate.              *)
THEOREM MigrationsRunOnce == DaemonSafety => []MigratedExactlyOnce
<1>1. DaemonInit => MigrationInv BY MigrationsInit
<1>2. MigrationInv => MigratedExactlyOnce
  BY DEF MigrationInv, MigratedExactlyOnce, Count
<1> QED BY <1>1, <1>2, MigrationInductive, PTL DEF DaemonSafety

-----------------------------------------------------------------------------
(* The login rate: a bucket with tok units in it at time last, after the   *)
(* attempts at the times a.                                                *)
Bucket(a, tok, last) ==
  /\ tok <= Full
  /\ \A i \in 1..Len(a) : (Len(a) - i + 1) * Refill + tok <= Full + (last - a[i])
  /\ \A i \in 1..Len(a) : \A j \in i..Len(a) : (j - i + 1) * Refill <= Full + (a[j] - a[i])

RateInv ==
  /\ clock \in Nat
  /\ rlTokens \in [IPs -> [tokens: Nat, last: Nat]]
  /\ allowedAt \in [IPs -> Seq(Nat)]
  /\ \A ip \in IPs : /\ rlTokens[ip].last <= clock
                     /\ Bucket(allowedAt[ip], rlTokens[ip].tokens, rlTokens[ip].last)

(* The sizes of a bucket. *)
LEMMA BucketSizes == Refill \in Nat /\ Refill > 0 /\ Full \in Nat /\ Refill <= Full
<1>0. Refill \in Nat \ {0} /\ Burst \in Nat \ {0} BY GateAssumption
<1>1. Refill \in Nat /\ Refill > 0 /\ Burst \in Nat /\ Burst > 0 BY <1>0
<1>2. \A b, r \in Nat : b > 0 => b * r \in Nat /\ r <= b * r OBVIOUS
<1> QED BY <1>1, <1>2 DEF Full

(* One more attempt costs one more Refill. *)
LEMMA OneMore ==
  ASSUME NEW n \in Int
  PROVE  n * Refill \in Int /\ (n + 1) * Refill = n * Refill + Refill
  BY BucketSizes

(* Time passes: what comes back is no more than the time that passed. *)
LEMMA BucketGrows ==
  ASSUME NEW a \in Seq(Nat), NEW tok \in Nat, NEW last \in Nat, NEW now \in Nat, last <= now,
         Bucket(a, tok, last), NEW t \in Nat, t <= Full, t <= tok + (now - last)
  PROVE  Bucket(a, t, now)
<1>1. ASSUME NEW i \in 1..Len(a)
      PROVE  (Len(a) - i + 1) * Refill + t <= Full + (now - a[i])
  <2>1. a[i] \in Nat /\ Len(a) \in Nat /\ i \in Int OBVIOUS
  <2>2. (Len(a) - i + 1) * Refill \in Int BY <2>1, OneMore, SMTT(60)
  <2> DEFINE x == (Len(a) - i + 1) * Refill
  <2>3. x + tok <= Full + (last - a[i]) BY DEF Bucket
  <2> HIDE DEF x
  <2>4. x \in Int BY <2>2 DEF x
  <2>5. x + t <= Full + (now - a[i]) BY <2>1, <2>3, <2>4, BucketSizes
  <2> QED BY <2>5 DEF x
<1> QED BY <1>1 DEF Bucket

(* An attempt takes one token of the bucket as it is now. *)
LEMMA BucketTakes ==
  ASSUME NEW a \in Seq(Nat), NEW t \in Nat, NEW now \in Nat, Bucket(a, t, now), Refill <= t
  PROVE  Bucket(Append(a, now), t - Refill, now)
<1> DEFINE b == Append(a, now)
           n == Len(a)
<1>1. /\ n \in Nat /\ Len(b) = n + 1 /\ b[n + 1] = now
      /\ \A i \in 1..n : b[i] = a[i] /\ a[i] \in Nat
  OBVIOUS
<1>2. Refill \in Nat /\ Full \in Nat /\ Refill <= Full /\ t <= Full BY BucketSizes DEF Bucket
<1> HIDE DEF b, n
<1>3. ASSUME NEW i \in 1..Len(b)
      PROVE  (Len(b) - i + 1) * Refill + (t - Refill) <= Full + (now - b[i])
  <2>1. CASE i = n + 1
    <3>1. Len(b) - i + 1 = 1 /\ b[i] = now BY <1>1, <2>1
    <3>2. (Len(b) - i + 1) * Refill = Refill
      <4>1. 1 * Refill = Refill BY <1>2
      <4> QED BY <3>1, <4>1
    <3>3. Refill + (t - Refill) <= Full + (now - now) BY <1>2
    <3> QED BY <3>1, <3>2, <3>3
  <2>2. CASE i # n + 1
    <3>1. i \in 1..n /\ b[i] = a[i] /\ a[i] \in Nat BY <1>1, <2>2
    <3> DEFINE m == n - i + 1
               x == m * Refill
    <3>2. m \in Int /\ Len(b) - i + 1 = m + 1 BY <1>1, <3>1
    <3>3. x + t <= Full + (now - a[i]) BY <3>1 DEF Bucket, n
    <3> HIDE DEF m
    <3>4. x \in Int /\ (m + 1) * Refill = x + Refill BY <3>2, OneMore
    <3> HIDE DEF x
    <3>5. (x + Refill) + (t - Refill) <= Full + (now - a[i]) BY <3>1, <3>3, <3>4, <1>2
    <3> QED BY <3>1, <3>2, <3>4, <3>5
  <2> QED BY <2>1, <2>2
<1>4. ASSUME NEW i \in 1..Len(b), NEW j \in i..Len(b)
      PROVE  (j - i + 1) * Refill <= Full + (b[j] - b[i])
  <2>1. CASE j = n + 1
    <3> DEFINE x == (Len(b) - i + 1) * Refill
    <3>1. j - i + 1 = Len(b) - i + 1 /\ b[j] = now /\ Len(b) - i + 1 \in Int BY <1>1, <2>1
    <3>2. x \in Int BY <3>1, OneMore
    <3>3. x + (t - Refill) <= Full + (now - b[i]) BY <1>3
    <3>4. b[i] \in Nat
      <4>1. i = n + 1 \/ i \in 1..n BY <1>1
      <4> QED BY <4>1, <1>1
    <3> HIDE DEF x
    <3>5. x <= Full + (now - b[i]) BY <3>2, <3>3, <3>4, <1>2
    <3> QED BY <3>1, <3>5 DEF x
  <2>2. CASE j # n + 1
    <3>1. i \in 1..n /\ j \in i..n /\ j \in 1..n BY <1>1, <2>2
    <3>2. b[i] = a[i] /\ b[j] = a[j] BY <1>1, <3>1
    <3> QED BY <3>1, <3>2 DEF Bucket, n
  <2> QED BY <2>1, <2>2
<1>5. t - Refill <= Full BY <1>2
<1> QED BY <1>3, <1>4, <1>5 DEF Bucket, b

(* Empty buckets are full and have no history. *)
LEMMA FreshBuckets ==
  ASSUME clock \in Nat, rlTokens' = EmptyMap, allowedAt' = [ip \in IPs |-> <<>>], clock' = clock
  PROVE  RateInv'
<1>1. rlTokens' \in [IPs -> [tokens: Nat, last: Nat]] BY BucketSizes DEF EmptyMap
<1>2. allowedAt' \in [IPs -> Seq(Nat)] OBVIOUS
<1>3. ASSUME NEW ip \in IPs
      PROVE  rlTokens'[ip].last <= clock' /\ Bucket(allowedAt'[ip], rlTokens'[ip].tokens, rlTokens'[ip].last)
  <2>1. rlTokens'[ip].tokens = Full /\ rlTokens'[ip].last = clock /\ allowedAt'[ip] = <<>>
    BY DEF EmptyMap
  <2>2. Bucket(<<>>, Full, clock) BY BucketSizes DEF Bucket
  <2> QED BY <2>1, <2>2
<1> QED BY <1>1, <1>2, <1>3 DEF RateInv

(* Allow keeps the buckets. *)
LEMMA AllowKeepsRate ==
  ASSUME RateInv, NEW ip \in IPs, Allow(ip), clock' = clock
  PROVE  RateInv'
<1> DEFINE st == rlTokens[ip]
           a == allowedAt[ip]
           T == Tokens(ip)
           T2 == IF Allows(ip) THEN T - Refill ELSE T
           r == [tokens |-> T2, last |-> clock]
<1>1. /\ clock \in Nat /\ st.tokens \in Nat /\ st.last \in Nat /\ a \in Seq(Nat) /\ st.last <= clock
      /\ Bucket(a, st.tokens, st.last)
  BY DEF RateInv
<1>2. T \in Nat /\ T <= Full /\ T <= st.tokens + (clock - st.last)
  BY <1>1, BucketSizes DEF Tokens
<1>3. Bucket(a, T, clock)
  <2> HIDE DEF T, a, st
  <2> QED BY <1>1, <1>2, BucketGrows
<1>4. T2 \in Nat BY <1>2, BucketSizes DEF Allows
<1>5. r \in [tokens: Nat, last: Nat] /\ r.tokens = T2 /\ r.last = clock BY <1>1, <1>4
<1>6. rlTokens' = [rlTokens EXCEPT ![ip] = r] BY DEF Allow
<1>7. /\ rlTokens' \in [IPs -> [tokens: Nat, last: Nat]] /\ rlTokens'[ip] = r
      /\ \A q \in IPs : q # ip => rlTokens'[q] = rlTokens[q]
  <2> HIDE DEF r
  <2> QED BY <1>5, <1>6 DEF RateInv
<1>8. CASE Allows(ip)
  <2>1. allowedAt' = [allowedAt EXCEPT ![ip] = Append(a, clock)] BY <1>8 DEF Allow
  <2>2. Append(a, clock) \in Seq(Nat) BY <1>1
  <2>3. /\ allowedAt' \in [IPs -> Seq(Nat)] /\ allowedAt'[ip] = Append(a, clock)
        /\ \A q \in IPs : q # ip => allowedAt'[q] = allowedAt[q]
    BY <2>1, <2>2 DEF RateInv
  <2>4. T2 = T - Refill /\ Refill <= T BY <1>8, <1>2, BucketSizes DEF Allows
  <2>5. Bucket(Append(a, clock), T - Refill, clock)
    <3> HIDE DEF T, a
    <3> QED BY <1>1, <1>2, <1>3, <2>4, BucketTakes
  <2> HIDE DEF T, T2, a, st, r
  <2>6. rlTokens'[ip].last <= clock' /\ Bucket(allowedAt'[ip], rlTokens'[ip].tokens, rlTokens'[ip].last)
    <3>1. rlTokens'[ip].tokens = T - Refill /\ rlTokens'[ip].last = clock
      BY <1>5, <1>7, <2>4
    <3>2. clock <= clock'
      BY <1>1
    <3> QED BY <2>3, <2>5, <3>1, <3>2
  <2> QED BY <1>7, <2>3, <2>6 DEF RateInv
<1>9. CASE ~Allows(ip)
  <2>1. allowedAt' = allowedAt /\ T2 = T BY <1>9 DEF Allow
  <2> HIDE DEF T, T2, st, r
  <2>2. rlTokens'[ip].last <= clock' /\ Bucket(allowedAt'[ip], rlTokens'[ip].tokens, rlTokens'[ip].last)
    <3>1. rlTokens'[ip].tokens = T /\ rlTokens'[ip].last = clock
      BY <1>5, <1>7, <2>1
    <3>2. clock <= clock' /\ allowedAt'[ip] = a
      BY <1>1, <2>1
    <3> HIDE DEF a
    <3> QED BY <1>3, <3>1, <3>2
  <2> HIDE DEF a
  <2> QED BY <1>7, <2>1, <2>2 DEF RateInv
<1> QED BY <1>8, <1>9

(* Every step keeps the buckets. *)
LEMMA RateInductive == RateInv /\ [DaemonNext]_daemonVars => RateInv'
<1> SUFFICES ASSUME RateInv, [DaemonNext]_daemonVars PROVE RateInv'
  OBVIOUS
<1>1. clock \in Nat BY DEF RateInv
<1>2. CASE UNCHANGED <<clock, rlTokens, allowedAt>> BY <1>2 DEF RateInv
<1>3. ASSUME NEW s, NewGate(s) PROVE RateInv' BY <1>1, <1>3, FreshBuckets DEF NewGate
<1>4. CASE GateGone BY <1>1, <1>4, FreshBuckets DEF GateGone
<1>5. CASE Start \/ Open \/ CheckMigration \/ ApplyMigration \/ CommitFails \/ EnsureRule
  BY <1>2, <1>5 DEF Start, Open, CheckMigration, ApplyMigration, CommitFails, EnsureRule, gateVars
<1>6. CASE GateLoads \/ GateWrites
  BY <1>3, <1>6 DEF GateLoads, GateWrites, LoadSecret, WriteSecret
<1>7. CASE GateCreates BY <1>2, <1>7 DEF GateCreates, CreateSecret
<1>8. CASE StartFails \/ Stop \/ Crash
  BY <1>4, <1>8 DEF StartFails, Stop, Crash, MemoryLost
<1>9. CASE BootSession \/ BootFails \/ (\E l \in leases : EndSession(l))
  BY <1>2, <1>9 DEF BootSession, BootFails, EndSession, gateVars
<1>10. CASE Serve
  <2>1. ASSUME NEW ip \in IPs, NEW n, NEW right, SubmitLogin(ip, n, right) PROVE RateInv'
    BY <2>1, AllowKeepsRate DEF SubmitLogin
  <2>2. ASSUME NEW c, Logout(c) PROVE RateInv' BY <1>2, <2>2 DEF Logout
  <2> QED BY <1>10, <2>1, <2>2 DEF Serve
<1>11. CASE TimePasses
  <2>1. clock' = clock + 1 /\ rlTokens' = rlTokens /\ allowedAt' = allowedAt
    BY <1>11 DEF TimePasses, Tick
  <2>2. ASSUME NEW ip \in IPs PROVE rlTokens[ip].last <= clock + 1 BY DEF RateInv
  <2> QED BY <1>1, <2>1, <2>2 DEF RateInv
<1>12. CASE UNCHANGED daemonVars BY <1>2, <1>12 DEF daemonVars, gateVars
<1> QED BY <1>5, <1>6, <1>7, <1>8, <1>9, <1>10, <1>11, <1>12 DEF DaemonNext, Starting

(* At first every bucket is full. *)
LEMMA RateInit == DaemonInit => RateInv
<1> SUFFICES ASSUME DaemonInit PROVE RateInv
  OBVIOUS
<1>1. clock = 0 /\ rlTokens = EmptyMap /\ allowedAt = [ip \in IPs |-> <<>>]
  BY DEF DaemonInit, GateInit
<1>2. rlTokens \in [IPs -> [tokens: Nat, last: Nat]] /\ allowedAt \in [IPs -> Seq(Nat)]
  BY <1>1, BucketSizes DEF EmptyMap
<1>3. ASSUME NEW ip \in IPs
      PROVE  rlTokens[ip].last <= clock /\ Bucket(allowedAt[ip], rlTokens[ip].tokens, rlTokens[ip].last)
  <2>1. rlTokens[ip].tokens = Full /\ rlTokens[ip].last = 0 /\ allowedAt[ip] = <<>>
    BY <1>1 DEF EmptyMap
  <2>2. Bucket(<<>>, Full, 0) BY BucketSizes DEF Bucket
  <2> QED BY <1>1, <2>1, <2>2
<1> QED BY <1>1, <1>2, <1>3 DEF RateInv

(* In any stretch of time an address gets at most a full bucket of login   *)
(* attempts plus one for every Refill ticks, for every size of the bucket, *)
(* any number of addresses and any times of the attempts.                  *)
THEOREM LoginRateIsBounded == DaemonSafety => []LoginRateBounded
<1>1. DaemonInit => RateInv BY RateInit
<1>2. RateInv => LoginRateBounded BY DEF RateInv, Bucket, LoginRateBounded
<1> QED BY <1>1, <1>2, RateInductive, PTL DEF DaemonSafety

-----------------------------------------------------------------------------
(* What a crash or a stop leaves in memory is a new allocator. *)
LEMMA NewAllocator ==
  ASSUME MemoryLost
  PROVE  IInv' /\ leases' = {} /\ tapIdx' = 0
<1>1. Init' => IInv' BY InitIInv, PTL
<1>2. Init' /\ leases' = {} /\ tapIdx' = 0 BY DEF MemoryLost, Init, host
<1> QED BY <1>1, <1>2

(* Every step of the daemon is a step of the allocator, leaves it alone or *)
(* replaces it by a new one.                                               *)
LEMMA AllocatorSteps ==
  ASSUME [DaemonNext]_daemonVars
  PROVE  \/ UNCHANGED vars
         \/ pc = "serve" /\ Next
         \/ MemoryLost
<1>1. CASE Start \/ Open \/ CheckMigration \/ ApplyMigration \/ CommitFails \/ EnsureRule
  BY <1>1 DEF Start, Open, CheckMigration, ApplyMigration, CommitFails, EnsureRule
<1>2. CASE GateLoads \/ GateCreates \/ GateWrites \/ Serve \/ TimePasses
  BY <1>2 DEF GateLoads, GateCreates, GateWrites, Serve, TimePasses
<1>3. CASE StartFails \/ Stop \/ Crash BY <1>3 DEF StartFails, Stop, Crash
<1>4. CASE BootSession BY <1>4 DEF BootSession, Next
<1>5. CASE BootFails BY <1>5 DEF BootFails, Next
<1>6. CASE \E l \in leases : EndSession(l) BY <1>6 DEF EndSession, Next
<1>7. CASE UNCHANGED daemonVars BY <1>7 DEF daemonVars
<1> QED BY <1>1, <1>2, <1>3, <1>4, <1>5, <1>6, <1>7 DEF DaemonNext, Starting

(* The allocator's invariant holds over restarts. *)
LEMMA AllocatorInductive == IInv /\ [DaemonNext]_daemonVars => IInv'
BY AllocatorSteps, NewAllocator, IInvInductive

(* Sessions alive together never share an IP, a MAC, a TAP name or a CID,  *)
(* also after restarts, which begin to count from the start again.         *)
THEOREM LeasesStayDistinct == DaemonSafety => []LeasesDistinct
<1>1. DaemonInit => IInv BY InitIInv DEF DaemonInit
<1>2. IInv => LeasesDistinct BY DEF IInv
<1> QED BY <1>1, <1>2, AllocatorInductive, PTL DEF DaemonSafety

-----------------------------------------------------------------------------
(* The rules: EnsureBridge does not leave the first one without having it. *)
RuleInv ==
  /\ rules \in [1..3 -> Nat] /\ lied \in [1..3 -> Nat]
  /\ \A r \in 1..3 : rules[r] <= 1 + lied[r]
  /\ pc = "bridge" => step \in 1..3 /\ (step > 1 => rules[1] >= 1)
  /\ pc = "serve" => rules[1] >= 1

(* EnsureBridge installs three rules. *)
LEMMA RulesLen == Len(Rules) = 3
BY DEF Rules

(* One round of EnsureBridge. *)
LEMMA RoundKeepsRules ==
  ASSUME RuleInv, EnsureRule
  PROVE  RuleInv'
<1>1. /\ step \in 1..3 /\ pc = "bridge" /\ (step > 1 => rules[1] >= 1)
      /\ rules \in [1..3 -> Nat] /\ lied \in [1..3 -> Nat]
      /\ rules[step] \in Nat /\ lied[step] \in Nat /\ rules[1] \in Nat
  BY SMTT(60) DEF RuleInv, EnsureRule
<1>2. /\ rules' \in [1..3 -> Nat] /\ lied' \in [1..3 -> Nat]
      /\ \A r \in 1..3 : rules'[r] <= 1 + lied'[r]
      /\ rules'[1] >= 1
  <2>1. CASE rules[step] > 0 /\ UNCHANGED <<rules, lied>>
    <3>1. rules[1] >= 1
      <4>1. CASE step = 1 BY <1>1, <2>1, <4>1
      <4>2. CASE step > 1 BY <1>1, <4>2
      <4> QED BY <1>1, <4>1, <4>2
    <3> QED BY <2>1, <3>1 DEF RuleInv
  <2>2. CASE rules[step] = 0 /\ rules' = [rules EXCEPT ![step] = 1] /\ UNCHANGED lied
    <3>1. /\ rules' \in [1..3 -> Nat] /\ rules'[step] = 1
          /\ \A r \in 1..3 : r # step => rules'[r] = rules[r]
      BY <1>1, <2>2
    <3>2. rules'[1] >= 1
      <4>1. CASE step = 1 BY <3>1, <4>1
      <4>2. CASE step > 1 BY <1>1, <3>1, <4>2, SMTT(60)
      <4> QED BY <1>1, <4>1, <4>2
    <3>3. ASSUME NEW r \in 1..3 PROVE rules'[r] <= 1 + lied'[r]
      <4>0. lied'[r] \in Nat /\ lied'[r] = lied[r] BY <1>1, <2>2
      <4>1. CASE r = step BY <3>1, <4>0, <4>1
      <4>2. CASE r # step BY <3>1, <4>0, <4>2 DEF RuleInv
      <4> QED BY <4>1, <4>2
    <3> QED BY <1>1, <2>2, <3>1, <3>2, <3>3
  <2>3. CASE /\ rules[step] > 0 /\ rules' = [rules EXCEPT ![step] = @ + 1]
             /\ lied' = [lied EXCEPT ![step] = @ + 1]
    <3>1. /\ rules' \in [1..3 -> Nat] /\ rules'[step] = rules[step] + 1
          /\ \A r \in 1..3 : r # step => rules'[r] = rules[r]
      BY <1>1, <2>3, SMTT(60)
    <3>2. /\ lied' \in [1..3 -> Nat] /\ lied'[step] = lied[step] + 1
          /\ \A r \in 1..3 : r # step => lied'[r] = lied[r]
      BY <1>1, <2>3, SMTT(60)
    <3>3. rules'[1] >= 1
      <4>1. CASE step = 1 BY <1>1, <3>1, <4>1, SMTT(60)
      <4>2. CASE step > 1 BY <1>1, <3>1, <4>2, SMTT(60)
      <4> QED BY <1>1, <4>1, <4>2
    <3>4. ASSUME NEW r \in 1..3 PROVE rules'[r] <= 1 + lied'[r]
      <4>0. rules[r] <= 1 + lied[r] /\ rules[r] \in Nat /\ lied[r] \in Nat BY <1>1 DEF RuleInv
      <4>1. CASE r = step BY <3>1, <3>2, <4>0, <4>1
      <4>2. CASE r # step BY <3>1, <3>2, <4>0, <4>2
      <4> QED BY <4>1, <4>2
    <3> QED BY <3>1, <3>2, <3>3, <3>4
  <2>4. CASE step > 1 /\ UNCHANGED <<rules, lied>>
    BY <1>1, <2>4 DEF RuleInv
  <2> QED BY <2>1, <2>2, <2>3, <2>4 DEF EnsureRule
<1>3. CASE step = 3
  <2>1. pc' = "serve" BY <1>3, RulesLen DEF EnsureRule, NextRound, Goto
  <2> QED BY <1>2, <2>1 DEF RuleInv
<1>4. CASE step # 3
  <2>1. pc' = "bridge" /\ step' = step + 1
    BY <1>1, <1>4, RulesLen DEF EnsureRule, NextRound, Goto
  <2> QED BY <1>1, <1>2, <1>4, <2>1, SMTT(60) DEF RuleInv
<1> QED BY <1>3, <1>4

(* A step elsewhere in main. *)
LEMMA RulesAside ==
  ASSUME RuleInv, UNCHANGED <<rules, lied>>,
         \/ UNCHANGED <<pc, step>>
         \/ pc' \notin {"bridge", "serve"}
         \/ pc' = "bridge" /\ step' = 1
  PROVE  RuleInv'
<1>1. CASE UNCHANGED <<pc, step>> BY <1>1 DEF RuleInv
<1>2. CASE pc' \notin {"bridge", "serve"} BY <1>2 DEF RuleInv
<1>3. CASE pc' = "bridge" /\ step' = 1 BY <1>3, SMTT(60) DEF RuleInv
<1> QED BY <1>1, <1>2, <1>3

(* Every step keeps the rules. *)
LEMMA RulesInductive == RuleInv /\ [DaemonNext]_daemonVars => RuleInv'
<1> SUFFICES ASSUME RuleInv, [DaemonNext]_daemonVars PROVE RuleInv'
  OBVIOUS
<1>1. CASE Start \/ Open BY <1>1, RulesAside DEF Start, Open, Goto, hostVars
<1>2. CASE CheckMigration
  <2>1. UNCHANGED <<rules, lied>> /\ (pc' \in {"gate", "apply"} \/ pc' = "check")
    BY <1>2 DEF CheckMigration, NextRound, Goto, hostVars
  <2> QED BY <2>1, RulesAside
<1>3. CASE ApplyMigration
  <2>1. UNCHANGED <<rules, lied>> /\ pc' \in {"down", "gate", "check"}
    BY <1>3 DEF ApplyMigration, Goto, hostVars
  <2> QED BY <2>1, RulesAside
<1>4. CASE CommitFails BY <1>4, RulesAside DEF CommitFails, Goto, hostVars
<1>5. CASE GateLoads \/ GateCreates \/ GateWrites
  <2>1. UNCHANGED <<rules, lied>> /\ step' = 1 /\ pc' \in {"write", "bridge"}
    BY <1>5 DEF GateLoads, GateCreates, GateWrites, Goto, hostVars
  <2> QED BY <2>1, RulesAside
<1>6. CASE StartFails BY <1>6, RulesAside DEF StartFails, Goto, hostVars
<1>7. CASE Stop BY <1>7, RulesAside DEF Stop, Goto
<1>8. CASE Crash BY <1>8, RulesAside DEF Crash, Goto, hostVars
<1>9. CASE BootSession \/ BootFails \/ (\E l \in leases : EndSession(l)) \/ Serve \/ TimePasses
  <2>1. UNCHANGED <<rules, lied, pc, step>>
    BY <1>9 DEF BootSession, BootFails, EndSession, Serve, TimePasses, hostVars, startVars
  <2> QED BY <2>1, RulesAside
<1>10. CASE UNCHANGED daemonVars
  BY <1>10, RulesAside DEF daemonVars, hostVars, startVars
<1> QED BY <1>1, <1>2, <1>3, <1>4, <1>5, <1>6, <1>7, <1>8, <1>9, <1>10, RoundKeepsRules
        DEF DaemonNext, Starting

-----------------------------------------------------------------------------
(* The TAPs. *)
TapInv ==
  /\ taps \subseteq 1..(Size - 2)
  /\ \A l \in leases : l.tap \in taps

(* Every step keeps the TAPs: a new one stays below the cursor, and the    *)
(* one that is deleted is no other session's.                              *)
LEMMA TapsInductive == IInv /\ TapInv /\ [DaemonNext]_daemonVars => TapInv'
<1> SUFFICES ASSUME IInv, TapInv, [DaemonNext]_daemonVars PROVE TapInv'
  OBVIOUS
<1>1. CASE UNCHANGED <<taps, leases>> BY <1>1 DEF TapInv
<1>2. CASE BootSession
  <2> DEFINE new == [ip |-> next, mac |-> next, tap |-> tapIdx + 1, cid |-> cidIdx + 1]
  <2>1. next < Size /\ tapIdx' = tapIdx + 1 /\ leases' = leases \cup {new} /\ taps' = taps \cup {tapIdx'}
    BY <1>2, LeaseIsFresh DEF BootSession
  <2>2. next \in Int /\ Size \in Int /\ tapIdx \in Nat /\ tapIdx + 2 <= next
    BY SizesAssumption DEF IInv, TypeOK, CountersAhead
  <2>3. tapIdx + 1 \in 1..(Size - 2) BY <2>1, <2>2
  <2>4. new.tap = tapIdx + 1 OBVIOUS
  <2> HIDE DEF new
  <2> QED BY <2>1, <2>3, <2>4 DEF TapInv
<1>3. CASE \E l \in leases : EndSession(l)
  <2>1. PICK l \in leases : taps' \in {taps, taps \ {l.tap}} /\ leases' = leases \ {l}
    BY <1>3 DEF EndSession, Release
  <2>2. ASSUME NEW k \in leases' PROVE k.tap \in taps'
    <3>1. k \in leases /\ k # l BY <2>1
    <3>2. k.tap # l.tap BY <3>1 DEF IInv, LeasesDistinct
    <3> QED BY <2>1, <3>1, <3>2 DEF TapInv
  <2> QED BY <2>1, <2>2 DEF TapInv
<1>4. CASE Stop BY <1>4, NewAllocator DEF Stop, TapInv
<1>5. CASE StartFails \/ Crash BY <1>5, NewAllocator DEF StartFails, Crash, TapInv, hostVars
<1>6. CASE Start \/ Open \/ CheckMigration \/ ApplyMigration \/ CommitFails \/ EnsureRule
  BY <1>1, <1>6 DEF Start, Open, CheckMigration, ApplyMigration, CommitFails, EnsureRule, hostVars, vars
<1>7. CASE GateLoads \/ GateCreates \/ GateWrites \/ Serve \/ TimePasses
  BY <1>1, <1>7 DEF GateLoads, GateCreates, GateWrites, Serve, TimePasses, hostVars, vars
<1>8. CASE BootFails BY <1>1, <1>8 DEF BootFails, AllocNoFreeIPs, hostVars
<1>9. CASE UNCHANGED daemonVars BY <1>1, <1>9 DEF daemonVars, hostVars, vars
<1> QED BY <1>2, <1>3, <1>4, <1>5, <1>6, <1>7, <1>8, <1>9 DEF DaemonNext, Starting

(* However often the daemon fails, crashes and is started again: a rule is *)
(* installed twice only if iptables denied that it was there, a daemon     *)
(* that serves has its NAT rule, the TAPs on the host have names that one  *)
(* incarnation gives out, and every session has its TAP.                   *)
THEOREM NothingPilesUp == DaemonSafety => []RestartsDoNotPileUp
<1>1. DaemonInit => IInv /\ RuleInv /\ TapInv
  <2> SUFFICES ASSUME DaemonInit PROVE IInv /\ RuleInv /\ TapInv
    OBVIOUS
  <2>1. IInv BY InitIInv DEF DaemonInit
  <2>2. RuleInv BY RulesLen DEF DaemonInit, RuleInv
  <2>3. TapInv BY DEF DaemonInit, Init, TapInv
  <2> QED BY <2>1, <2>2, <2>3
<1>2. RuleInv /\ TapInv => RestartsDoNotPileUp
  BY RulesLen DEF RuleInv, TapInv, RestartsDoNotPileUp
<1>3. IInv /\ RuleInv /\ TapInv /\ [DaemonNext]_daemonVars => (IInv /\ RuleInv /\ TapInv)'
  BY AllocatorInductive, RulesInductive, TapsInductive
<1> QED BY <1>1, <1>2, <1>3, PTL DEF DaemonSafety

-----------------------------------------------------------------------------
(* Induction over the numbers, for a set instead of a predicate. *)
LEMMA SetInduction ==
  ASSUME NEW S, 0 \in S, \A n \in Nat : n \in S => n + 1 \in S
  PROVE  Nat \subseteq S
<1> DEFINE T == Nat \ S
           R == OpToRel(<, Nat)
<1>1. IsWellFoundedOn(R, Nat)
  BY NatLessThanWellFounded
<1>2. SUFFICES ASSUME T # {} PROVE FALSE
  OBVIOUS
<1>3. PICK x \in T : \A y \in T : ~(<<y, x>> \in R)
  <2> HIDE DEF R, T
  <2>1. T \subseteq Nat
    BY DEF T
  <2> QED BY <1>1, <1>2, <2>1, WFMin
<1>4. x # 0 /\ x - 1 \in Nat /\ x - 1 \in T /\ x - 1 < x
  OBVIOUS
<1>5. <<x - 1, x>> \in R
  BY <1>4 DEF OpToRel
<1> QED BY <1>3, <1>4, <1>5

(* What slugging does with the next character. *)
Slugged(s, ch) ==
  IF ch \in {"a", "A"} THEN Append(s, "a")
  ELSE IF s = <<>> \/ s[Len(s)] = "-" THEN s
  ELSE Append(s, "-")

(* f are the slugs of the first characters of name, up to m of them.       *)
SlugsOf(f, name, m) ==
  f = [n \in 0..m |-> IF n = 0 THEN <<>> ELSE Slugged(f[n - 1], name[n])]

(* There are such slugs, as many as one likes. *)
LEMMA SlugsExist ==
  ASSUME NEW name, NEW m \in Nat
  PROVE  \E f : SlugsOf(f, name, m)
<1> DEFINE S == {k \in Nat : \E f : SlugsOf(f, name, k)}
<1>1. 0 \in S
  <2>1. SlugsOf([n \in 0..0 |-> <<>>], name, 0)
    BY DEF SlugsOf
  <2> QED BY <2>1
<1>2. ASSUME NEW k \in Nat, k \in S PROVE k + 1 \in S
  <2>1. PICK f : SlugsOf(f, name, k)
    BY <1>2
  <2> DEFINE g == [n \in 0..(k + 1) |-> IF n = k + 1 THEN Slugged(f[k], name[k + 1]) ELSE f[n]]
  <2>2. /\ \A n \in 0..k : g[n] = f[n]
        /\ g[k + 1] = Slugged(f[k], name[k + 1]) /\ k + 1 # 0 /\ (k + 1) - 1 = k
    OBVIOUS
  <2>3. \A n \in 0..k : f[n] = IF n = 0 THEN <<>> ELSE Slugged(f[n - 1], name[n])
    BY <2>1 DEF SlugsOf
  <2>4. \A n \in 0..(k + 1) : g[n] = IF n = 0 THEN <<>> ELSE Slugged(g[n - 1], name[n])
    <3>1. ASSUME NEW n \in 0..(k + 1) PROVE g[n] = IF n = 0 THEN <<>> ELSE Slugged(g[n - 1], name[n])
      <4>1. CASE n = k + 1
        BY <2>2, <4>1
      <4>2. CASE n # k + 1
        <5>1. n \in 0..k /\ (n # 0 => n - 1 \in 0..k)
          BY <4>2
        <5> HIDE DEF g
        <5> QED BY <2>2, <2>3, <5>1
      <4> QED BY <4>1, <4>2
    <3> QED BY <3>1
  <2>5. SlugsOf(g, name, k + 1)
    <3>1. g = [n \in 0..(k + 1) |-> g[n]]
      OBVIOUS
    <3> HIDE DEF g
    <3> QED BY <2>4, <3>1 DEF SlugsOf
  <2> QED BY <2>5
<1> HIDE DEF S
<1>3. Nat \subseteq S
  BY <1>1, <1>2, SetInduction
<1> QED BY <1>3 DEF S

(* Dashed is the last of them. *)
LEMMA DashedIsLast ==
  ASSUME NEW name, Len(name) \in Nat
  PROVE  \E f : SlugsOf(f, name, Len(name)) /\ Dashed(name) = f[Len(name)]
<1> DEFINE F == CHOOSE f : SlugsOf(f, name, Len(name))
<1>1. SlugsOf(F, name, Len(name))
  BY SlugsExist
<1>2. Dashed(name) = F[Len(name)]
  BY DEF Dashed, SlugsOf, Slugged
<1> QED BY <1>1, <1>2

(* What a slug looks like while it is made: it begins with a character and *)
(* has no two dashes in a row.                                             *)
SlugForm(s) ==
  /\ s \in Seq({"a", "-"})
  /\ s # <<>> => s[1] = "a"
  /\ \A i \in 1..(Len(s) - 1) : s[i] = "a" \/ s[i + 1] = "a"

(* One more character keeps that form.                                     *)
LEMMA SluggedForm ==
  ASSUME NEW s, SlugForm(s), NEW ch
  PROVE  SlugForm(Slugged(s, ch))
<1>1. s \in Seq({"a", "-"}) /\ Len(s) \in Nat
  BY DEF SlugForm
<1>2. ASSUME NEW e \in {"a", "-"}, s = <<>> => e = "a", s # <<>> => e = "a" \/ s[Len(s)] = "a"
      PROVE  SlugForm(Append(s, e))
  <2> DEFINE t == Append(s, e)
  <2>1. /\ t \in Seq({"a", "-"}) /\ Len(t) = Len(s) + 1 /\ t[Len(s) + 1] = e
        /\ \A i \in 1..Len(s) : t[i] = s[i]
    BY <1>1
  <2> HIDE DEF t
  <2>2. t[1] = "a"
    <3>1. CASE s = <<>>
      BY <1>1, <1>2, <2>1, <3>1, SMTT(60)
    <3>2. CASE s # <<>>
      <4>1. 1 \in 1..Len(s)
        BY <1>1, <3>2
      <4> QED BY <2>1, <3>2, <4>1 DEF SlugForm
    <3> QED BY <3>1, <3>2
  <2>3. ASSUME NEW i \in 1..(Len(t) - 1) PROVE t[i] = "a" \/ t[i + 1] = "a"
    <3>1. CASE i = Len(s)
      <4>1. s # <<>>
        BY <1>1, <3>1
      <4> QED BY <1>1, <1>2, <2>1, <3>1, <4>1
    <3>2. CASE i # Len(s)
      <4>1. i \in 1..(Len(s) - 1) /\ i \in 1..Len(s) /\ i + 1 \in 1..Len(s)
        BY <1>1, <2>1, <3>2
      <4> QED BY <2>1, <4>1 DEF SlugForm
    <3> QED BY <3>1, <3>2
  <2>4. SlugForm(t)
    BY <2>1, <2>2, <2>3 DEF SlugForm
  <2> QED BY <2>4 DEF t
<1>3. s # <<>> => s[Len(s)] \in {"a", "-"}
  BY <1>1
<1>4. CASE ch \in {"a", "A"}
  BY <1>2, <1>4 DEF Slugged
<1>5. CASE ch \notin {"a", "A"} /\ (s = <<>> \/ s[Len(s)] = "-")
  BY <1>5 DEF Slugged
<1>6. CASE ch \notin {"a", "A"} /\ ~(s = <<>> \/ s[Len(s)] = "-")
  BY <1>2, <1>3, <1>6 DEF Slugged
<1> QED BY <1>4, <1>5, <1>6

(* Dashed brings every name into that form.                                *)
LEMMA DashedForm ==
  ASSUME NEW name, Len(name) \in Nat
  PROVE  SlugForm(Dashed(name))
<1>1. PICK f : SlugsOf(f, name, Len(name)) /\ Dashed(name) = f[Len(name)]
  BY DashedIsLast
<1>2. \A n \in 0..Len(name) : f[n] = IF n = 0 THEN <<>> ELSE Slugged(f[n - 1], name[n])
  BY <1>1 DEF SlugsOf
<1> DEFINE S == {k \in Nat : k <= Len(name) => SlugForm(f[k])}
<1>3. 0 \in S
  <2>1. f[0] = <<>>
    BY <1>2
  <2>2. SlugForm(<<>>)
    BY DEF SlugForm
  <2> QED BY <2>1, <2>2
<1>4. ASSUME NEW k \in Nat, k \in S PROVE k + 1 \in S
  <2>1. SUFFICES ASSUME k + 1 <= Len(name) PROVE SlugForm(f[k + 1])
    OBVIOUS
  <2>2. SlugForm(f[k])
    BY <1>4, <2>1
  <2>3. f[k + 1] = Slugged(f[k], name[k + 1])
    BY <1>2, <2>1
  <2> QED BY <2>2, <2>3, SluggedForm
<1> HIDE DEF S
<1>5. Nat \subseteq S
  BY <1>3, <1>4, SetInduction
<1>6. SlugForm(f[Len(name)])
  BY <1>5 DEF S
<1> QED BY <1>1, <1>6

(* A slug is cut off anywhere without losing its form.                     *)
LEMMA CutForm ==
  ASSUME NEW s, SlugForm(s), NEW k \in 0..Len(s)
  PROVE  SlugForm(SubSeq(s, 1, k)) /\ Len(SubSeq(s, 1, k)) = k
<1> DEFINE t == SubSeq(s, 1, k)
<1>1. s \in Seq({"a", "-"}) /\ Len(s) \in Nat
  BY DEF SlugForm
<1>2. t \in Seq({"a", "-"}) /\ Len(t) = k /\ \A i \in 1..k : t[i] = s[i]
  BY <1>1
<1> HIDE DEF t
<1>3. t # <<>> => t[1] = "a"
  <2>1. t # <<>> => 1 \in 1..k /\ s # <<>>
    BY <1>1, <1>2
  <2> QED BY <1>2, <2>1 DEF SlugForm
<1>4. ASSUME NEW i \in 1..(Len(t) - 1) PROVE t[i] = "a" \/ t[i + 1] = "a"
  <2>1. i \in 1..(Len(s) - 1) /\ i \in 1..k /\ i + 1 \in 1..k
    BY <1>1, <1>2
  <2> QED BY <1>2, <2>1 DEF SlugForm
<1>5. SlugForm(t)
  BY <1>2, <1>3, <1>4 DEF SlugForm
<1> QED BY <1>2, <1>5 DEF t

(* A finished slug: it ends with a character, too, and is not too long.    *)
Slug(s) ==
  /\ SlugForm(s)
  /\ s # <<>> => s[Len(s)] = "a"
  /\ Len(s) <= MaxNameLen

(* Trimming a slug leaves no dash at its end: before a dash there is none. *)
LEMMA TrimmedForm ==
  ASSUME NEW s, SlugForm(s)
  PROVE  /\ SlugForm(TrimDash(s)) /\ Len(TrimDash(s)) <= Len(s)
         /\ TrimDash(s) # <<>> => TrimDash(s)[Len(TrimDash(s))] = "a"
<1>1. s \in Seq({"a", "-"}) /\ Len(s) \in Nat
  BY DEF SlugForm
<1>2. CASE s # <<>> /\ s[Len(s)] = "-"
  <2> DEFINE k == Len(s) - 1
             t == SubSeq(s, 1, k)
  <2>1. k \in 0..Len(s) /\ k <= Len(s) /\ k + 1 = Len(s)
    BY <1>1, <1>2
  <2>2. SlugForm(t) /\ Len(t) = k
    BY <2>1, CutForm
  <2>3. TrimDash(s) = t
    BY <1>2 DEF TrimDash
  <2>4. ASSUME t # <<>> PROVE t[k] = "a"
    <3>1. k \in 1..k /\ k \in 1..(Len(s) - 1)
      BY <1>1, <2>1, <2>2, <2>4 DEF SlugForm
    <3>2. s[k] = "a"
      BY <1>2, <2>1, <3>1 DEF SlugForm
    <3>3. t[k] = s[k]
      BY <1>1, <2>1, <3>1
    <3> QED BY <3>2, <3>3
  <2> HIDE DEF t, k
  <2> QED BY <2>1, <2>2, <2>3, <2>4
<1>3. CASE ~(s # <<>> /\ s[Len(s)] = "-")
  <2>1. TrimDash(s) = s
    BY <1>3 DEF TrimDash
  <2>2. s # <<>> => s[Len(s)] \in {"a", "-"}
    BY <1>1
  <2> QED BY <1>1, <1>3, <2>1, <2>2
<1> QED BY <1>2, <1>3

(* What Slugify returns is a finished slug.                                *)
LEMMA SlugifyMakesSlugs ==
  ASSUME NEW name, Len(name) \in Nat
  PROVE  Slug(Slugify(name))
<1> DEFINE s == TrimDash(Dashed(name))
<1>1. SlugForm(s) /\ (s # <<>> => s[Len(s)] = "a")
  BY DashedForm, TrimmedForm
<1>2. Slugify(name) = IF Len(s) > MaxNameLen THEN TrimDash(SubSeq(s, 1, MaxNameLen)) ELSE s
  BY DEF Slugify
<1> HIDE DEF s
<1>3. Len(s) \in Nat /\ MaxNameLen \in Nat
  <2>1. s \in Seq({"a", "-"})
    BY <1>1 DEF SlugForm
  <2>2. MaxNameLen \in Nat
    BY GateAssumption
  <2> QED BY <2>1, <2>2
<1>4. CASE Len(s) > MaxNameLen
  <2> DEFINE t == SubSeq(s, 1, MaxNameLen)
  <2>1. MaxNameLen \in 0..Len(s)
    BY <1>3, <1>4
  <2>2. SlugForm(t) /\ Len(t) = MaxNameLen
    BY <1>1, <2>1, CutForm
  <2> HIDE DEF t
  <2>3. /\ SlugForm(TrimDash(t)) /\ Len(TrimDash(t)) <= MaxNameLen
        /\ TrimDash(t) # <<>> => TrimDash(t)[Len(TrimDash(t))] = "a"
    BY <2>2, TrimmedForm
  <2>4. Slugify(name) = TrimDash(t)
    BY <1>2, <1>4 DEF t
  <2> QED BY <2>3, <2>4 DEF Slug
<1>5. CASE ~(Len(s) > MaxNameLen)
  BY <1>1, <1>2, <1>3, <1>5 DEF Slug
<1> QED BY <1>4, <1>5

(* Slugify leaves a finished slug as it is: Verify, which compares the     *)
(* owner in a cookie with its slug, accepts what Slugify made.             *)
LEMMA SlugsStay ==
  ASSUME NEW s, Slug(s)
  PROVE  Slugify(s) = s
<1>1. s \in Seq({"a", "-"}) /\ Len(s) \in Nat
  BY DEF Slug, SlugForm
<1>2. PICK f : SlugsOf(f, s, Len(s)) /\ Dashed(s) = f[Len(s)]
  BY <1>1, DashedIsLast
<1>3. \A n \in 0..Len(s) : f[n] = IF n = 0 THEN <<>> ELSE Slugged(f[n - 1], s[n])
  BY <1>2 DEF SlugsOf
<1> DEFINE S == {k \in Nat : k <= Len(s) => f[k] = SubSeq(s, 1, k)}
<1>4. 0 \in S
  <2>1. f[0] = <<>>
    BY <1>1, <1>3
  <2>2. SubSeq(s, 1, 0) = <<>>
    BY <1>1
  <2> QED BY <2>1, <2>2
<1>5. ASSUME NEW k \in Nat, k \in S PROVE k + 1 \in S
  <2>1. SUFFICES ASSUME k + 1 <= Len(s) PROVE f[k + 1] = SubSeq(s, 1, k + 1)
    OBVIOUS
  <2> DEFINE t == SubSeq(s, 1, k)
  <2>2. f[k] = t
    BY <1>1, <1>5, <2>1
  <2>3. f[k + 1] = Slugged(t, s[k + 1])
    <3> HIDE DEF t, S
    <3>1. k + 1 \in 0..Len(s) /\ k + 1 # 0 /\ (k + 1) - 1 = k
      BY <1>1, <2>1
    <3>2. f[k + 1] = Slugged(f[(k + 1) - 1], s[k + 1])
      BY <1>3, <3>1
    <3> QED BY <2>2, <3>1, <3>2
  <2>4. t \in Seq({"a", "-"}) /\ Len(t) = k /\ \A i \in 1..k : t[i] = s[i]
    BY <1>1, <2>1
  <2>5. Append(t, s[k + 1]) = SubSeq(s, 1, k + 1)
    BY <1>1, <2>1
  <2> HIDE DEF t, S
  <2>6. s[k + 1] \in {"a", "-"}
    BY <1>1, <2>1
  <2>7. CASE s[k + 1] = "a"
    BY <2>3, <2>5, <2>7 DEF Slugged
  <2>8. CASE s[k + 1] = "-"
    <3>1. k # 0
      BY <1>1, <2>1, <2>8 DEF Slug, SlugForm
    <3>2. k \in 1..(Len(s) - 1) /\ k \in 1..k
      BY <1>1, <2>1, <3>1
    <3>3. s[k] = "a"
      BY <2>8, <3>2 DEF Slug, SlugForm
    <3>4. t # <<>> /\ t[Len(t)] = "a"
      BY <2>4, <3>1, <3>2, <3>3
    <3> QED BY <2>3, <2>5, <2>8, <3>4 DEF Slugged
  <2> QED BY <2>6, <2>7, <2>8
<1> HIDE DEF S
<1>6. Nat \subseteq S
  BY <1>4, <1>5, SetInduction
<1>7. Dashed(s) = SubSeq(s, 1, Len(s))
  BY <1>1, <1>2, <1>6 DEF S
<1>8. Dashed(s) = s
  BY <1>1, <1>7
<1>9. TrimDash(s) = s
  BY <1>1 DEF Slug, TrimDash
<1>10. ~(Len(s) > MaxNameLen)
  <2>1. MaxNameLen \in Nat
    BY GateAssumption
  <2> QED BY <1>1, <2>1 DEF Slug
<1> QED BY <1>8, <1>9, <1>10 DEF Slugify

(* Where the secret of the cookies is: a Gate has the one in the file, and *)
(* unless a good file was replaced, the cookies are signed with it.        *)
CookieInv ==
  /\ pc \notin {"bridge", "serve"} => secret = 0
  /\ secret # 0 => secret = secretFile
  /\ pc = "write" => secretFile = 0
  /\ ~secretLost => \A c \in cookies : c.key = secretFile /\ secretFile # 0
  /\ \A c \in cookies : c.owner # <<>> /\ Slugify(c.owner) = c.owner

(* A name is a sequence of characters. *)
LEMMA NamesHaveLength == \A n \in Names : Len(n) \in Nat
<1> SUFFICES ASSUME NEW n \in Names PROVE Len(n) \in Nat
  OBVIOUS
<1>1. PICK C : C = {"a", "A", "_"}
  OBVIOUS
<1>2. n \in Seq(C)
  BY <1>1, GateAssumption
<1> QED BY <1>2

(* A login leaves cookies of finished slugs, signed with the Gate's secret. *)
LEMMA LoginKeepsCookies ==
  ASSUME CookieInv, NEW ip \in IPs, NEW n \in Names, NEW right \in BOOLEAN,
         SubmitLogin(ip, n, right), pc' = pc
  PROVE  CookieInv'
<1>1. /\ UNCHANGED <<secret, secretFile, secretLost>> /\ secret # 0
      /\ \A c \in cookies' : c \in cookies \/ (c = Cookie(Slugify(n)) /\ Slugify(n) # <<>>)
  BY DEF SubmitLogin
<1>2. Slugify(Slugify(n)) = Slugify(n)
  <2>1. Len(n) \in Nat
    BY NamesHaveLength
  <2> QED BY <2>1, SlugifyMakesSlugs, SlugsStay
<1>3. Cookie(Slugify(n)).owner = Slugify(n) /\ Cookie(Slugify(n)).key = secret
  BY DEF Cookie
<1>4. secret = secretFile
  BY <1>1 DEF CookieInv
<1> QED BY <1>1, <1>2, <1>3, <1>4 DEF CookieInv

(* A step that leaves the Gate, its file and the cookies alone, or ends    *)
(* the Gate.                                                               *)
LEMMA CookiesAside ==
  ASSUME CookieInv, UNCHANGED <<secretFile, secretLost>>, cookies' \subseteq cookies,
         secret' \in {0, secret}, pc' \notin {"bridge", "serve"} => secret' = 0,
         pc' = "write" => secretFile = 0
  PROVE  CookieInv'
BY DEF CookieInv

(* Every step keeps the cookies valid. *)
LEMMA CookiesInductive == CookieInv /\ [DaemonNext]_daemonVars => CookieInv'
<1> SUFFICES ASSUME CookieInv, [DaemonNext]_daemonVars PROVE CookieInv'
  OBVIOUS
<1>1. CASE Start \/ Open \/ CheckMigration \/ ApplyMigration \/ CommitFails
  <2>1. UNCHANGED gateVars /\ pc \notin {"bridge", "serve"} /\ pc' # "write"
    BY <1>1 DEF Start, Open, CheckMigration, ApplyMigration, CommitFails, NextRound, Goto
  <2>2. UNCHANGED <<secretFile, secretLost, cookies, secret>> /\ secret = 0
    BY <2>1 DEF gateVars, CookieInv
  <2> QED BY <2>1, <2>2, CookiesAside
<1>2. CASE GateLoads
  <2>1. /\ secret' = secretFile /\ UNCHANGED <<secretFile, secretLost, cookies>> /\ pc' = "bridge"
    BY <1>2 DEF GateLoads, LoadSecret, NewGate, Goto
  <2> QED BY <2>1 DEF CookieInv
<1>3. CASE GateCreates
  <2>1. PICK readable \in BOOLEAN : CreateSecret(readable)
    BY <1>3 DEF GateCreates
  <2>2. /\ secretLost' = (secretLost \/ secretFile # 0) /\ secretFile' = 0
        /\ UNCHANGED <<secret, cookies>>
    BY <2>1 DEF CreateSecret
  <2>3. pc = "gate" /\ pc' = "write"
    BY <1>3 DEF GateCreates, Goto
  <2> QED BY <2>2, <2>3 DEF CookieInv
<1>4. CASE GateWrites
  <2>1. /\ secretFile' = secretsMade /\ secret' = secretsMade /\ UNCHANGED <<cookies, secretLost>>
        /\ pc = "write" /\ pc' = "bridge"
    BY <1>4 DEF GateWrites, WriteSecret, NewGate, Goto
  <2> QED BY <2>1 DEF CookieInv
<1>5. CASE EnsureRule
  <2>1. UNCHANGED gateVars /\ pc = "bridge" /\ pc' \in {"bridge", "serve"}
    BY <1>5 DEF EnsureRule, NextRound, Goto
  <2>2. UNCHANGED <<secretFile, secretLost, cookies, secret>>
    BY <2>1 DEF gateVars
  <2> QED BY <2>1, <2>2, CookiesAside
<1>6. CASE StartFails \/ Stop \/ Crash
  <2>1. GateGone /\ pc' \in {"down", "stopped"}
    BY <1>6 DEF StartFails, Stop, Crash, MemoryLost, Goto
  <2>2. secret' = 0 /\ UNCHANGED <<secretFile, secretLost, cookies>>
    BY <2>1 DEF GateGone
  <2> QED BY <2>1, <2>2, CookiesAside
<1>7. CASE BootSession \/ BootFails \/ (\E l \in leases : EndSession(l)) \/ UNCHANGED daemonVars
  <2>1. UNCHANGED gateVars /\ pc' = pc
    BY <1>7 DEF BootSession, BootFails, EndSession, startVars, daemonVars
  <2>2. UNCHANGED <<secretFile, secretLost, cookies, secret>>
    BY <2>1 DEF gateVars
  <2> QED BY <2>1, <2>2 DEF CookieInv
<1>8. CASE Serve
  <2>1. pc' = pc /\ pc = "serve"
    BY <1>8 DEF Serve, startVars
  <2>2. CASE \E ip \in IPs, n \in Names, right \in BOOLEAN : SubmitLogin(ip, n, right)
    BY <2>1, <2>2, LoginKeepsCookies
  <2>3. CASE \E c \in cookies : Logout(c)
    <3>1. UNCHANGED <<secretFile, secretLost, secret>> /\ cookies' \subseteq cookies
      BY <2>3 DEF Logout
    <3> QED BY <2>1, <3>1, CookiesAside
  <2> QED BY <1>8, <2>2, <2>3 DEF Serve
<1>9. CASE TimePasses
  <2>1. UNCHANGED <<pc, secretFile, secretLost, cookies, secret>>
    BY <1>9 DEF TimePasses, Tick, startVars
  <2> QED BY <2>1 DEF CookieInv
<1> QED BY <1>1, <1>2, <1>3, <1>4, <1>5, <1>6, <1>7, <1>8, <1>9 DEF DaemonNext, Starting

(* What SubmitLogin issued, whatever the name, Verify accepts until it     *)
(* runs out, over any number of crashes and restarts: Slugify is           *)
(* idempotent, and loadOrCreateSecret finds the secret it wrote unless the *)
(* file could not be read.                                                 *)
THEOREM CookiesSurvive == DaemonSafety => []IssuedCookiesWork
<1>1. DaemonInit => CookieInv
  BY DEF DaemonInit, GateInit, CookieInv
<1>2. CookieInv => IssuedCookiesWork
  BY DEF CookieInv, IssuedCookiesWork, Verify
<1> QED BY <1>1, <1>2, CookiesInductive, PTL DEF DaemonSafety
-----------------------------------------------------------------------------
(* Where main is. *)
Labels == {"down", "open", "check", "apply", "gate", "write", "bridge", "serve", "stopped"}

PlaceInv ==
  pc \in Labels /\ (pc \notin {"check", "apply", "bridge"} => step = 1)

(* main stays where it is, goes on in a loop, or gets to a new label. *)
LEMMA MainMoves ==
  ASSUME [DaemonNext]_daemonVars
  PROVE  \/ UNCHANGED <<pc, step>>
         \/ pc' \in {"check", "apply", "bridge"}
         \/ \E l \in Labels : Goto(l)
<1>1. CASE Start \/ Open \/ CommitFails \/ GateLoads \/ GateCreates \/ GateWrites
  BY <1>1 DEF Start, Open, CommitFails, GateLoads, GateCreates, GateWrites, Labels
<1>2. CASE CheckMigration
  BY <1>2 DEF CheckMigration, NextRound, Labels
<1>3. CASE ApplyMigration
  BY <1>3 DEF ApplyMigration, Labels
<1>4. CASE EnsureRule
  BY <1>4 DEF EnsureRule, NextRound, Labels
<1>5. CASE StartFails \/ Stop \/ Crash
  BY <1>5 DEF StartFails, Stop, Crash, Labels
<1>6. CASE BootSession \/ BootFails \/ (\E l \in leases : EndSession(l)) \/ Serve \/ TimePasses
  BY <1>6 DEF BootSession, BootFails, EndSession, Serve, TimePasses, startVars
<1>7. CASE UNCHANGED daemonVars
  BY <1>7 DEF daemonVars, startVars
<1> QED BY <1>1, <1>2, <1>3, <1>4, <1>5, <1>6, <1>7 DEF DaemonNext, Starting

(* Every step keeps main at one of its labels.                             *)
LEMMA PlaceInductive == PlaceInv /\ [DaemonNext]_daemonVars => PlaceInv'
BY MainMoves DEF PlaceInv, Goto, Labels

(* The gate's secrets are ones it has drawn, and so are its cookies'.      *)
SecretInv ==
  /\ clock \in 0..MaxClock
  /\ secretsMade \in Nat /\ {secretFile, secret} \subseteq 0..secretsMade
  /\ allowedAt \in [IPs -> Seq(0..MaxClock)]
  /\ secretLost \in BOOLEAN
  /\ \A c \in cookies : c.exp \in Nat /\ c.key \in 1..secretsMade

(* A login signs with the secret of the gate. *)
LEMMA LoginKeepsSecrets ==
  ASSUME SecretInv, NEW ip \in IPs, NEW n, NEW right, SubmitLogin(ip, n, right)
  PROVE  SecretInv'
<1>1. /\ UNCHANGED <<clock, secretFile, secret, secretsMade, secretLost>> /\ secret # 0
      /\ \A c \in cookies' : c \in cookies \/ c = Cookie(Slugify(n))
  BY DEF SubmitLogin
<1>2. Cookie(Slugify(n)).exp \in Nat /\ Cookie(Slugify(n)).key \in 1..secretsMade
  <2>1. Cookie(Slugify(n)).exp = clock + CookieMaxAge /\ Cookie(Slugify(n)).key = secret
    BY DEF Cookie
  <2>2. clock \in Nat /\ CookieMaxAge \in Nat /\ secret \in 0..secretsMade /\ secretsMade \in Nat
    <3>1. CookieMaxAge \in Nat /\ MaxClock \in Nat
      BY GateAssumption
    <3>2. clock \in 0..MaxClock /\ secret \in 0..secretsMade /\ secretsMade \in Nat
      BY DEF SecretInv
    <3> QED BY <3>1, <3>2, SMTT(60)
  <2> QED BY <1>1, <2>1, <2>2, SMTT(60)
<1>3. allowedAt' \in [IPs -> Seq(0..MaxClock)]
  <2>1. allowedAt \in [IPs -> Seq(0..MaxClock)] /\ clock \in 0..MaxClock
    BY DEF SecretInv
  <2>2. Append(allowedAt[ip], clock) \in Seq(0..MaxClock)
    BY <2>1, SMTT(60)
  <2>3. \/ allowedAt' = [allowedAt EXCEPT ![ip] = Append(allowedAt[ip], clock)]
        \/ allowedAt' = allowedAt
    BY DEF SubmitLogin, Allow
  <2> QED BY <2>1, <2>2, <2>3
<1> QED BY <1>1, <1>2, <1>3 DEF SecretInv

(* Every step keeps the secrets. *)
LEMMA SecretsInductive == SecretInv /\ [DaemonNext]_daemonVars => SecretInv'
<1> SUFFICES ASSUME SecretInv, [DaemonNext]_daemonVars PROVE SecretInv'
  OBVIOUS
<1>0. [ip \in IPs |-> <<>>] \in [IPs -> Seq(0..MaxClock)]
  BY SMTT(60)
<1>1. secretsMade \in Nat /\ secretsMade \in 0..secretsMade /\ 0 \in 0..secretsMade
  BY SMTT(60) DEF SecretInv
<1>2. CASE UNCHANGED gateVars
  BY <1>2 DEF SecretInv, gateVars
<1>3. CASE Start \/ Open \/ CheckMigration \/ ApplyMigration \/ CommitFails \/ EnsureRule
  BY <1>2, <1>3 DEF Start, Open, CheckMigration, ApplyMigration, CommitFails, EnsureRule
<1>4. CASE GateLoads \/ GateWrites
  <2>1. /\ secretFile' \in {secretFile, secretsMade} /\ secret' \in {secretFile, secretsMade}
        /\ allowedAt' = [ip \in IPs |-> <<>>] /\ UNCHANGED <<clock, cookies, secretsMade, secretLost>>
    BY <1>4 DEF GateLoads, GateWrites, LoadSecret, WriteSecret, NewGate
  <2> QED BY <1>0, <1>1, <2>1 DEF SecretInv
<1>5. CASE GateCreates
  <2>1. /\ secretsMade' = secretsMade + 1 /\ secretFile' = 0 /\ secretLost' \in BOOLEAN
        /\ UNCHANGED <<clock, secret, cookies, allowedAt>>
    BY <1>5 DEF GateCreates, CreateSecret
  <2>2. /\ secretsMade' \in Nat /\ 0 \in 0..secretsMade' /\ 0..secretsMade \subseteq 0..secretsMade'
        /\ 1..secretsMade \subseteq 1..secretsMade'
    BY <1>1, <2>1, SMTT(60)
  <2> QED BY <2>1, <2>2 DEF SecretInv
<1>6. CASE StartFails \/ Stop \/ Crash
  <2>1. /\ secret' = 0 /\ allowedAt' = [ip \in IPs |-> <<>>]
        /\ UNCHANGED <<clock, secretFile, secretsMade, cookies, secretLost>>
    BY <1>6 DEF StartFails, Stop, Crash, MemoryLost, GateGone
  <2> QED BY <1>0, <1>1, <2>1 DEF SecretInv
<1>7. CASE BootSession \/ BootFails \/ (\E l \in leases : EndSession(l))
  BY <1>2, <1>7 DEF BootSession, BootFails, EndSession
<1>8. CASE Serve
  <2>1. ASSUME NEW c, Logout(c) PROVE SecretInv'
    BY <2>1 DEF Logout, SecretInv
  <2> QED BY <1>8, <2>1, LoginKeepsSecrets DEF Serve
<1>9. CASE TimePasses
  <2>1. /\ clock' = clock + 1 /\ clock < MaxClock
        /\ UNCHANGED <<secretFile, secret, secretsMade, cookies, allowedAt, secretLost>>
    BY <1>9 DEF TimePasses, Tick
  <2>2. clock' \in 0..MaxClock
    <3>1. clock \in 0..MaxClock /\ MaxClock \in Nat
      BY GateAssumption DEF SecretInv
    <3> QED BY <2>1, <3>1, SMTT(60)
  <2> QED BY <2>1, <2>2 DEF SecretInv
<1>10. CASE UNCHANGED daemonVars
  BY <1>2, <1>10 DEF daemonVars
<1> QED BY <1>3, <1>4, <1>5, <1>6, <1>7, <1>8, <1>9, <1>10 DEF DaemonNext, Starting

(* Over any number of starts the daemon's state has its type: main never   *)
(* runs past the end of the migrations or the rules, a bucket is never     *)
(* overdrawn or over-full, and every cookie is signed with a secret that   *)
(* was drawn.                                                              *)
THEOREM DaemonTypeCorrect == DaemonSafety => []DaemonTypeOK
<1> DEFINE J == IInv /\ MigrationInv /\ RuleInv /\ TapInv /\ RateInv /\ PlaceInv /\ SecretInv
<1>1. DaemonInit => J
  <2> SUFFICES ASSUME DaemonInit PROVE J
    OBVIOUS
  <2>1. IInv BY InitIInv DEF DaemonInit
  <2>2. MigrationInv BY MigrationsInit
  <2>3. RuleInv BY RulesLen DEF DaemonInit, RuleInv
  <2>4. TapInv BY DEF DaemonInit, Init, TapInv
  <2>5. RateInv BY RateInit
  <2>6. PlaceInv BY SMTT(60) DEF DaemonInit, PlaceInv, Labels
  <2>7. SecretInv
    <3>1. 0 \in 0..MaxClock
      <4>1. MaxClock \in Nat BY GateAssumption
      <4> QED BY <4>1, SMTT(60)
    <3>2. [ip \in IPs |-> <<>>] \in [IPs -> Seq(0..MaxClock)] BY SMTT(60)
    <3>3. 0 \in Nat /\ 0 \in 0..0 BY SMTT(60)
    <3> QED BY <3>1, <3>2, <3>3 DEF DaemonInit, GateInit, SecretInv
  <2> QED BY <2>1, <2>2, <2>3, <2>4, <2>5, <2>6, <2>7
<1>2. J /\ [DaemonNext]_daemonVars => J'
  BY AllocatorInductive, MigrationInductive, RulesInductive, TapsInductive, RateInductive,
     PlaceInductive, SecretsInductive
<1>3. J => DaemonTypeOK
  <2> SUFFICES ASSUME J PROVE DaemonTypeOK
    OBVIOUS
  <2>1. TypeOK BY DEF IInv
  <2>2. step \in 1..(Len(Migrations) + Len(Rules))
    <3>1. Count \in Nat BY MigrationsType
    <3>2. CASE pc \in {"check", "apply"}
      <4>1. step \in 1..Count BY <3>2 DEF MigrationInv
      <4> QED BY <3>1, <4>1, RulesLen, SMTT(60) DEF Count
    <3>3. CASE pc = "bridge"
      <4>1. step \in 1..3 BY <3>3 DEF RuleInv
      <4> QED BY <3>1, <4>1, RulesLen, SMTT(60) DEF Count
    <3>4. CASE pc \notin {"check", "apply", "bridge"}
      <4>1. step = 1 BY <3>4 DEF PlaceInv
      <4> QED BY <3>1, <4>1, RulesLen, SMTT(60) DEF Count
    <3> QED BY <3>2, <3>3, <3>4
  <2>3. rules \in [1..Len(Rules) -> Nat] /\ lied \in [1..Len(Rules) -> Nat]
    BY RulesLen DEF RuleInv
  <2>4. taps \subseteq Nat
    <3>1. taps \subseteq 1..(Size - 2) BY DEF TapInv
    <3> QED BY <3>1, SizesAssumption, SMTT(60)
  <2>5. rlTokens \in [IPs -> [tokens: 0..Full, last: 0..MaxClock]]
    <3>1. rlTokens \in [IPs -> [tokens: Nat, last: Nat]] BY DEF RateInv
    <3>2. ASSUME NEW ip \in IPs PROVE rlTokens[ip].tokens \in 0..Full /\ rlTokens[ip].last \in 0..MaxClock
      <4>1. /\ rlTokens[ip].tokens \in Nat /\ rlTokens[ip].last \in Nat
            /\ rlTokens[ip].last <= clock /\ rlTokens[ip].tokens <= Full
        BY DEF RateInv, Bucket
      <4>2. clock \in 0..MaxClock /\ MaxClock \in Nat /\ Full \in Nat
        BY GateAssumption, BucketSizes DEF SecretInv
      <4> QED BY <4>1, <4>2, SMTT(60)
    <3> QED BY <3>1, <3>2
  <2>6. GateTypeOK BY <2>5 DEF SecretInv, GateTypeOK
  <2> QED BY <2>1, <2>2, <2>3, <2>4, <2>6 DEF PlaceInv, Labels, DaemonTypeOK
<1> HIDE DEF J
<1> QED BY <1>1, <1>2, <1>3, PTL DEF DaemonSafety
=============================================================================
