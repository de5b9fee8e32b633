# microvm-terminal: TLA+ models, checks and proofs

This directory models the parts of microvm-terminal whose correctness depends on
concurrency, faults or restarts: the control plane that boots, hands out and
tears down Firecracker VMs, its start and its login gate, the terminal and
control channels of a VM, the terminal page in the browser, and the Anthropic
proxy. `PROJECT.json` maps every definition to its source lines and lists the
runs, the mutants that show that each property can fail, the disagreements found
between code and documentation, the hazards, and the theorems.

## 1. The system

| Part | Source (under `src/`) | State | Operations |
|---|---|---|---|
| Address allocator | `control-plane/internal/netalloc` | cursor, addresses in use, TAP and CID counters | Alloc, Release |
| VM manager | `control-plane/internal/session/manager.go`, `firecracker/` | session map; address, TAP, directory, mounted image and process of a VM | Create, Destroy, the reaper goroutine of each VM |
| Session host | `session/host.go`, `api/sessions.go`, `db/db.go`, `cmd/microvm-terminal/main.go` | live map, owner, row, watchers | Create, CreateWarm, Destroy, watch, ReapIdle, shutdown; POST, DELETE and PTY handlers |
| Warm pool | `session/warmpool.go` | ready VMs, replenish channel | Start, loop, buildOne, AcquireWarm |
| Serial console | `session/serial.go` | ring, subscriber, channels | drain, Attach, cleanup |
| Guest channel | `session/vsock_listener.go`, `session/session.go`, guest agent | stored connection, geometry, tty | handshake, Resize, SendToGuest, redial |
| Start and stop of the daemon | `cmd/microvm-terminal/main.go`, `db/db.go`, `firecracker/network.go` | schema and its records, iptables rules, TAPs | Migrate, EnsureBridge, serving, shutdown; a crash anywhere |
| Login gate | `auth/auth.go`, `api/pages.go` | cookie secret and its file, attempt buckets | NewGate, Allow, Slugify, Cookie, Verify, login, logout |
| Terminal page | `web/terminal.html`, `api/sessions.go` | session id, socket, timer, overlay | boot, connect, reconnect, the two buttons |
| Proxy | `proxy/internal/server`, `quota`, `keys` | in-flight count, buckets, key pool, session pins | forward, rotate, mint, Reserve, Commit, Refund, Replace |
| Proxy's process | `proxy/internal/server/stream.go`, `audit`, `cmd/claude-proxy` | usage seen, audit records, phase of `main` | streamBody, emitAudit, Write, shutdown |
| Jailed launch, router, configuration, scripts | `vm/jailer.go`, `api/router.go`, `internal/config`, `infra` | - | - |

How they interact: the page asks the sessions API for the visitor's VM, or for a
new one; the handler asks `Host` for a session; `Host` asks the launcher (or the
warm pool, which asks the launcher ahead of time); the launcher calls
`Manager.Create` and waits for the guest's handshake. A session can end through
DELETE, the idle reaper, a failed insert of its row, shutdown, or the death of
its VM, and all of these can happen at once. `Manager`'s map decides who tears a
VM down, `Host`'s map decides who reports its end, and the session's done
channel connects the two. When the daemon starts it finds on the host and in the
database whatever an earlier one left there.

The hard behaviours are therefore check-then-act across two critical sections,
teardown from several goroutines, values copied under a lock and used after it,
failures in the middle of `Create` and of a start, crashes, dropped channel
tokens, redials, answers and closing sockets that arrive late at the page,
refunds that arrive late, answers cut short, and a drain that waits on a
condition variable.

## 2. Modules

| Module | Models | Composition |
|---|---|---|
| `NetAlloc` | the allocator; an address is its offset in the prefix | - |
| `VMManager` | `Manager`, `PrepareRootfs` and `managerLauncher.Launch`; one goroutine per caller and one reaper per VM, each with a program counter `pc` | a VM identity stands for its address, TAP, directory and image |
| `SessionHost` | `Host`, the session handlers, the idle reaper, `main`; `hpc` is the caller's place in the handler | EXTENDS `VMManager`; its steps call `CallLaunch`, `CallDestroy`, `Return` |
| `SessionLedger` | what `Host` promises: a session enters the live map once, leaves once, is reported once | abstract; `SessionHost` implements it |
| `WarmPool` | the pool with a coarse `Host` and `Manager` (one step per boot) | - |
| `SerialTee` | the tee; a byte is its position in the VM's output | - |
| `GuestChannel` | the vsock handler, `Resize` and the agent | - |
| `LoginGate` | secret, rate limit, names and cookies | - |
| `Daemon` | starts, crashes and stops of the control plane | EXTENDS `NetAlloc` and `LoginGate`; a session is one step |
| `TerminalPage` | the page's script against a coarse sessions API | - |
| `Quota`, `StreamUsage` | buckets, and the usage of an answer, as pure operators | - |
| `ProxyServer` | forwards, rotation and key pool; an answer reports any usage | EXTENDS `Quota` |
| `ProxyDaemon` | the proxy's process: streamed answers, audit records, shutdown | EXTENDS `ProxyServer` and `StreamUsage`, and implements `ProxyServer` |
| `*Proofs` | theorems and their lemmas | EXTEND the module they are about |
| `MC*` | instances for TLC | |

A step of a model is what the code does between two points where another
goroutine can interfere: a critical section, a channel operation, a command, a
callback of the page. The three releases at the end of `Manager.Destroy` are one
step because nothing reads them in between. Operators with names such as
`CreateCheckOffByOne` are mutants: they stand before the definition they change
and no specification uses them.

Abstractions. Times are left out except for the proxy's quota window and the
login gate, where they are ticks; any other timeout may fire whenever its other
conditions hold. Tokens, rootfs contents, JSON and HTTP answers are left out
except for what a property is about: a name is a sequence of three classes of
characters, a signature is the key it was made with, a JSON document is what it
says of usage in each of the three places the proxy looks. A fallible command is
a step that succeeds or fails; `CreateTAP` can fail with the TAP already there,
and a removal whose error the code ignores can leave the TAP or the directory
(`leftTap`, `leftDir`, at most `MaxLeft`). A compressed answer is one the proxy
finds no usage in (`AsRead`): it forwards the client's `Accept-Encoding` and
decodes nothing. `InsertSession` that fails may or may not have
written the row; `MarkSessionReaped` may fail unless `DBReliable`; a transaction
whose commit fails may or may not have happened. Sending on a closed channel
sets `panicked` and stops the model. In `Daemon` a session is one step, because
`VMManager` and `SessionHost` have its inside; in `TerminalPage` a POST begins a
boot that takes its time, the sessions API answers from the set of VMs that are
up, and the redirect after a 401, which leaves the page, is left out.

### State and actions

| Module | Variables and what they stand for | Actions and the code they translate |
|---|---|---|
| `NetAlloc` | `next`, `in_use` (cursor and map), counters, leases held | `AllocLease`, `AllocNoFreeIPs` (the two outcomes of `Alloc`), `Release` |
| `VMManager` | `sessions` (`m.sessions`); `ip`, `tap`, `dir`, `mounted`, `proc` (what a VM holds on the host); `leftTap`, `leftDir` (what failed commands left); `ready`, `done` (the session's channels); `pc`, `arg`, `op` per goroutine | `CreateCheck`, `CreateAlloc`, `CreateTap`, `CreateDir`, `CreateRootfs`, `CreateWrite`, `CreateLaunch`, `CreateInsert` (`Manager.Create`, each with its error path); `WaitReady`; `DestroyTake`, `DestroyClose`, `DestroyStop`, `DestroyFree` (`Manager.Destroy`); `ReaperWakes`; `VMExit`, `GuestHello` |
| `SessionHost` | `live` (`h.sessions`), `owned`, `row` (the row's state), `gone` (calls of `onGone`), `watch`, `hpc`, `hvm`, `phase` of `main` | `HostCheck`, `HostInsert`, `SetOwner`, `InsertRow` (POST); `HostDestroy`, `TeardownReturned`, `HostCloseDone`, `HostNotify` (`Host.Destroy`); `WatchWakes`, `WatchNotify`; `DeleteSession`; `PTYGet`, `PTYAttach`, `PTYWrite`, `PTYWritten`, `PTYDetach`; `IdlePick`; `Signal`, `ListSessions`, `ShutdownOne`, `Exit` |
| `WarmPool` | `ready`, `replenish` (tokens in the channel), `seeds`, `spawned`, `booting`, `failed` | `Seed`, `LoopReceives`, `LoopLooks`, `BuildStart`, `BuildDone`, `AcquireWarm`, `AcquirePokes`, `CreateWarm`, `Create` |
| `SerialTee` | `ring`, `subscriber`; `sub`, `chunk` (what `drain` copied under the lock); `updates` (channels), `seen` and `dropped` (per client) | `Read`, `Send`, `EndOfOutput` (`drain`); `Attach`, `Unsubscribe`, `CloseChannel` (its cleanup); `Receive` |
| `GuestChannel` | `win`, `guestConn`, `ready`; `pty` and `handler` threads; `wire`, `agent`, `tty` | `Resize`, `ResizeCopies`, `ResizeWrites`; `Hello`, `HelloFails`, `MarkReady`, `ReadSize`, `ReplayCopies`, `ReplayWrites`, `Disconnected`; `Dial`, `ApplyWinsize`, `Drop` (the agent) |
| `LoginGate` | `secretFile`, `secret`, `rlTokens`, `cookies` (held by browsers), `clock` | `LoadSecret`, `CreateSecret`, `WriteSecret` (`loadOrCreateSecret`); `SubmitLogin`, `Logout`; `GateGone`, `Tick` |
| `Daemon` | `pc`, `step` (where `main` is); `schema`, `recorded` (the database); `rules`, `taps` (the host) | `Start`, `Open`, `CheckMigration`, `ApplyMigration`, `CommitFails`; `GateLoads`, `GateCreates`, `GateWrites`; `EnsureRule`; `StartFails`; `BootSession`, `BootFails`, `EndSession`, `Serve`; `Stop`, `Crash` |
| `TerminalPage` | `page` (the script's variables), `calls` (fetches), `socks` (WebSockets); `live`, `booting`, `subscriber`, `up` (the server) | `OnCurrent`, `OnPost`, `OnDescribe`, `OnDeleted`, `OnClose`, `Opened`, `Reconnect`, `ClickNewVM`, `ClickOverlay`; `Current`, `Create`, `Booted`, `Created`, `Describe`, `Delete`; `VMEnds`, `Breaks`, `Lost`, `DaemonStops`, `DaemonStarts`, `OtherTab` |
| `ProxyServer` | `buckets`, `keys`, `keyBySecret`, `sessionToKey`, `inflight`, `handler`, `rotate`, `waiter`; `held` (slots kept in a window) | `Begin`, `SecretForSession`, `Reserve`, `Send`, `BodyFails`, `UpstreamFails`, `Answer`, `Leave` (`handleForward`); `AdminRotate`, `Drain`, `Drained`, `DrainTimeout`, `Replace`; `MintSessionToken`; `Tick` |
| `ProxyDaemon` | `phase` of `main`, `pending` audit goroutines, `audited` (sum of the records); `reported`, `unread` (what the upstream said, and what of it the proxy could not read) | `AnswerStreamed`, `ReserveAudited`, `UpstreamFailsAudited`, `AuditWrite`, `Accept`, `Signal`, `ShutdownDone`, `ShutdownTimeout` |

## 3. Runs

| Run | Instance | What it shows |
|---|---|---|
| `daemon` | 4 addresses, 2 migrations, 1 crash, 1 stop, 1 fault, 1 client | leases never share anything; migrations run once and in order; neither rules nor TAPs pile up over restarts; the login rate is bounded; visitors stay logged in over restarts; the daemon serves in the end |
| `manager` | 2 VMs, 2 callers, 1 slot, 2 failed removals | one goroutine tears a VM down; nothing is orphaned on any error path but what a failed command of the host left; nothing is freed under a running VM; no VM runs from an image the host has mounted; the cap is exceeded by less than the number of callers |
| `host_races` | 1 VM, 2 handlers, idle reaper, `main` | `Host` uses `Manager` as `VMManager` allows (`MgrSafety`), forgets no running VM, stamps no live session, reports each departure at most once |
| `host_liveness` | 1 VM, 2 handlers, idle reaper | `Host` implements `SessionLedger` with its liveness; a dead VM is released and frees its slot, and its terminals are dropped unless a write to one of them never ends |
| `pool` | 3 VMs, 2 handlers, target 1, 1 failure | a warm VM has one holder; no refill is lost with a token that does not fit the channel; without failures the pool returns to its target |
| `serial` | 3 clients, ring of 2, channel of 1, 4 bytes | replay and stream join without gap or repetition; a replaced client that leaves does not detach the new one; a client cannot stall the VM |
| `guest` | 1 client, 3 connections, 2 drops or sizes the console refuses | a size reaches the tty on the first connection that does not break; a closed connection is never stored |
| `page` | 3 VMs, 2 reconnects in a row, up to 3 clicks and faults | a page at rest without an overlay is a working terminal; typed input goes to the current VM only; the owner gets a second VM only by two boots at once or a POST lost while its VM boots; the page comes to rest |
| `proxy` | 2 forwards, 3 requests, 1 rotation, 2 windows, 4 bodies | request overshoot is bounded; the window never counts too much; the drain is woken; requests after a rotation use its keys; the quota is charged what the upstream reported in the answers the proxy can read, and the audit records say the same; a hung upstream wedges neither rotation nor shutdown |
| `netalloc_reuse` (violation) | 8 addresses | the cursor never wraps, so a released address is not handed out again |
| `pool_leak` (violation) | 2 VMs, 2 handlers, 1 slot | a warm VM popped at capacity belongs to nobody |
| `serial_closed` (violation) | 2 clients | `drain` sends on a channel that was closed in between |

A violation run checks what a comment or the README of the repository says, and
TLC finds a behaviour of the code that breaks it; the findings quote the line.

The runs check one type invariant, of `Daemon` with `NetAlloc` and `LoginGate`.
It is proved, and so are those of `NetAlloc`, `VMManager`, `SessionHost`,
`WarmPool`, `GuestChannel` and `TerminalPage`. Those of `SerialTee` and of the
proxy were checked with TLC on the instances above and are kept as
documentation; what the proofs need of them is part of their invariants.

Bounds. One slot and two VMs make the races for capacity and for teardown
happen; VMs share only the slot count. Two handlers, the idle reaper and `main`
are all the kinds of callers of `Host`. With one VM the capacity errors of
`Host` and `Manager` still occur; two VMs at once in `Host` are not in a kept
run. Two things that failed removals left are enough for a TAP and a directory,
of one VM or of two. A pool with a target of one has a channel for two tokens;
the tokens of the seed and of two requests overflow it. The pool
runs out of VM identities after one or two requests, and `PoolFillsUp` says
nothing from then on. The ring of two bytes, chunks of up to two and a channel
of one make trimming, full channels and replacement occur; three clients let a
replaced one leave after a third attached. Two drops let three handlers overlap.

In `daemon` two migrations let a crash fall before, between and after them; one
crash, one stop and one fault in any order give up to four starts, and two
sessions at once leave up to two TAPs behind. A bucket of two attempts that
refills one in two ticks is full, empty and in between within the two ticks of
the clock; the longer of the two names needs lower case and is cut right after a
dash. In `page` four names for calls and sockets never run out
(`PageTypeCorrect`), three VMs are one for loading the page and one for each of
two clicks, and three events are enough for a fault while the visitor clicks twice. In `proxy`
three requests of two forwards make the overshoot happen, two ticks roll the
quota window once, the stream repeats a total, one JSON answer just fits the
capture buffer, one does not, and one answer is compressed. One rotation is
enough for the wakeup and the swap; overlapping rotations and other key pools
are covered by the theorems.

Symmetry is used in `host_races` only, for handlers, which no definition
distinguishes, with invariants and safety properties. Deadlock is not checked
where the system may stop: in `host_races` the daemon exits, and in the pool,
serial, guest, page and proxy models a bounded number of requests, bytes or
events is used up.

Fairness. Goroutines that can run do (the Go scheduler). In `VMManager` this
covers `Stop`, which kills after 5 s, `WaitReady`, which has the boot timeout, and
the commands `Create` and `Destroy` run. For these it is an assumption on the
host: `runCmd` and the copy of the image have no timeout, and `ip`, `mount`,
`umount` or a copy that never returns would hold its caller for ever. In
`SessionHost` it also covers watchers and the pump that notices a closed done
channel, but not a write to a client, which has no deadline. In `WarmPool` a boot
ends, and since no terminal attaches there the idle reaper destroys every live
VM. In `GuestChannel` the agent redials for ever, as its loop does. In `Daemon`
`main` goes on and systemd restarts it after a failure (`Restart=on-failure`), but
not after a stop. In `TerminalPage` the server answers or the request fails, and
the browser runs callbacks and timers. In `ProxyDaemon` only the rotation and the
30 s of the shutdown are fair: nothing is assumed of an upstream. Guests,
clients, visitors, operators and VM exits owe nothing.

## 4. Other disagreements the models show

These statements of the repository also fail in the models. Each was checked with
TLC and is not kept as a run. To reproduce one, check the formula as an
invariant (or a property, where it is temporal) of the module. For the guest
channel, `Quiet` is `agent # None /\ handler[agent].pc = "serve" /\ wire[agent] =
<<>> /\ (\A c \in Clients : pty[c] = Idle) /\ (\A k \in Conns : handler[k].pc \in
{"idle", "serve", "closed"})`.

| Statement | Formula that fails | Behaviour |
|---|---|---|
| "at most MaxConcurrent sessions at a time" (`manager.go:2`) | `Cardinality(sessions) <= MaxConcurrent` | two `Create` calls pass the check together; `OvershootBounded` is what holds |
| "skip broadcast (last in /24) and network address" (`netalloc.go:64`) | `in_use \cap {0, Size - 1} = {}` | the last address is handed out |
| "The idle reaper only considers sessions with zero attached clients" (`session.go:178`) | `[][\A i \in Idlers : hpc[i] = "destroy" /\ hpc'[i] = "teardown" => Attached(hvm[i]) = {}]_vars` | a terminal attaches between `IdleSince` and `Destroy` |
| "... a Firecracker crash all end in `Manager.Destroy`: ... stamp `reaped_at` in Postgres" (`README.md:64`) | `GoneIsStamped` of `SessionHost`, with `DBReliable = TRUE` | the VM is gone before its row is inserted, and the row is never stamped |
| "ErrNotFound means the reaper already tore the VM down" (`host.go:144`) | `\A c \in Callers : pc[c] = "notfound" => arg[c] \notin ip \cup tap \cup dir` | the reaper is still at work |
| "Tear down every VM so no Firecracker process outlives the daemon." (`main.go:134`) | `phase = "exited" => \A v \in VMs : proc[v] # "running"`; in `WarmPool`, `phase = "exited" => up \cap Pooled = {}` | a VM being launched, or in the pool, is not in `host.List`; systemd's `KillMode=mixed` stops it |
| "all end in `Manager.Destroy`: ... delete TAP, release IP, remove the VM directory" (`README.md:64`) | `tap \cup dir \subseteq ip` | `CreateTAP` fails after `ip tuntap add` and nobody deletes the TAP; the errors of `ip link del` and of `RemoveAll` are ignored |
| a terminal ends with its VM (`api/sessions.go:202`) | `\A c \in Handlers, v \in VMs : (c \in Attached(v) /\ proc[v] = "exited") ~> c \notin Attached(v)` | the pump is writing to a client that does not read, and never looks at the done channel |
| the deferred `umount` of `PrepareRootfs` (`rootfs.go`) | `mounted \subseteq dir` | `umount` fails twice: `Create` has failed and the image is still mounted |
| "refill so the pool heals toward target" (`warmpool.go:59`) | `<>[](minted = VMs \/ ~Alive \/ Len(ready) >= target)` | a failed build is not retried until the next request |
| "browser that connects during boot still gets a correctly sized tty" (`session.go:150`) | `Quiet => tty = win` | the replay of an old size overtakes a newer resize |
| "SetGuestConn stores the live guest vsock connection" (`session.go:114`) | `Quiet => guestConn = agent` | the deferred clear of an old connection hits the new one |
| "If cookieSecretFile is missing, a random 32-byte secret is generated" (`auth.go:60`) | `IssuedCookiesWork` without `~secretLost` | the secret is also replaced when the file is there and cannot be read: all visitors are logged out |
| "5 attempts per 60 s" (`auth.go:132`) | `\A ip \in IPs : \A i, j \in 1..Len(allowedAt[ip]) : allowedAt[ip][j] - allowedAt[ip][i] < Full => j - i + 1 <= Burst` | a full bucket and what comes back during the 60 s add up to almost twice that; `LoginRateBounded` is what holds |
| "every rule `-C` checked first so restarts do not stack duplicates" (`README.md:77`) | `\A r \in 1..Len(Rules) : rules[r] <= 1`; `pc = "serve" => \A r \in 1..Len(Rules) : rules[r] >= 1` | a `-C` that fails for another reason adds a second rule; a forward rule that cannot be added is ignored |
| no code at start looks at what a crashed daemon left | `pc = "serve" => taps = {l.tap : l \in leases}` | its TAPs stay until a session takes their names |
| "1. Find a live VM or boot one." (`terminal.html:87`) | `~orphaned => Cardinality(live \cup booting) <= 1`; `~overlapped => Cardinality(live \cup booting) <= 1` | "New VM" clicked during a boot starts a second one; a POST's fetch fails during its boot, the visitor tries again, and the lookup finds no VM yet (the first one goes once `InsertSession` fails on the cancelled context); `OneVMPerOwner` is what holds |
| the overlay says that the VM is gone (`terminal.html`) | `Settled /\ page.overlay = "gone" => page.sessionId \notin live` | the last reconnect failed, or the socket of an older VM closed |
| a page without an overlay (`terminal.html`) | `Settled /\ page.overlay = "none" => page.sessionId \in live` | a fetch of `boot()` failed, and nothing is shown |
| `ws` is the page's socket (`terminal.html`) | `Settled => \A s \in Sockets : socks[s].at = "open" => page.ws = s` | two boots leave two open sockets, and `onclose` of one clears `ws` |
| "MaxRequests is the total request count per session" (`quota.go:19`) | `\A s \in Sessions : get(s).requests <= MaxRequests` | concurrent forwards pass the last request; `OvershootBounded` is what holds |
| "MaxRequestsPerMinute caps burst rate across the session" (`quota.go:21`) | `\A s \in Sessions : held[s] <= MaxRequestsPerMinute` | a late refund frees a slot of another window |
| "wait for in-flight forwards to complete before the swap" (`server.go:271`) | `(\E r \in Rotators : rotate[r] = "swapped") => \A h \in Handlers : handler[h].key # None => handler[h].key \in Range(keys)` | a forward starts between drain and swap |
| "the exact counts reported by Anthropic" (`quota.go:135`) | `\A s \in Sessions : <<get(s).tokensIn, get(s).tokensOut>> = reported[s]` | an answer that is compressed, or larger than the capture buffer, counts as zero tokens; `QuotaChargesReported` is what holds |
| "Audit receives one Record per forwarded request" (`server.go:40`) | `phase = "exited" => pending = 0` | what the audit goroutines have not written when `main` returns is lost |

Four more were read in the code and need no model: the comment on `mergeUsage`
says "additive for output tokens (SSE emits incremental deltas)" (`stream.go:133`)
and the code takes the larger value, which is right for running totals
(`QuotaChargesReported`; the comment's version is the mutant); the rows of the
sessions of a daemon that crashed stay open for ever, since no code at start looks
at them; `quota.Reset` is "Called on session teardown."
(`quota.go:164`) and nothing calls it; `docs/firecracker-boot.md` says that
teardown removes the jailer's chroot, and no code does.

## 5. Proofs

Every invariant that a passing run checks is proved, and every refinement but
for its liveness.

| Module | Theorems | Argument |
|---|---|---|
| `DaemonProofs` | of the allocator: `TypeCorrect`, `LeasesAreDistinct`, `BooksAreExact`, `ScanIsImmediate` | the cursor is ahead of every address in use, and the counters are ahead of every lease; distinctness is not inductive without that |
| | of the daemon: `DaemonTypeCorrect`, `MigrationsRunOnce`, `LoginRateIsBounded`, `LeasesStayDistinct`, `NothingPilesUp`, `CookiesSurvive` | one invariant each, below |
| `SessionHostProofs` | of the manager: `TypeCorrect`, `TornDownOnce`, `NothingIsOrphaned`, `RunningVMsHoldAll`, `ImageIsNotShared`, `CapOvershootIsBounded` | at most one goroutine works on a VM, that VM is then not in the map, and the goroutine's place says what the VM holds, but for what failed commands left, which stays in `leftTap` and `leftDir`; a VM enters the map only through a caller that saw a free slot |
| | of the host: `HostTypeCorrect`, `HostImplementsManager`, `DaemonKeepsManagerSafe`, `NoVMIsForgotten`, `StampIsFinal`, `HostImplementsLedger` | a caller's place in `Host` fixes its place in `Manager`, and whoever removes a session from the live map owes its report; below |
| `WarmPoolProofs` | `TypeCorrect`, `NoRefillIsLost`, `OneHolderPerVM` | a token is dropped only when twice the target are queued, and spent without a build only when the pool is full; every other step moves one unit between summands. A VM moves from one place to another in one step, and a new one was nowhere |
| `SerialTeeProofs` | `ReplayIsTail`, `OutputIsInOrder`, `LatestIsServed` | what a client has, what is queued for it and what `drain` is about to send follow each other; the position where that ends is the end of the output for the subscriber, and lies before it for a client that was replaced |
| `GuestChannelProofs` | `TypeCorrect`, `StoredIsNeverClosed` | a stored connection's handler is past its hello and has not run its deferred clear |
| `TerminalPageProofs` | `PageTypeCorrect`, `InputStaysWithVM`, `OneVMForOwner`, `RestingPageWorks` | one thing in flight per click, and what the page is waiting for; below |
| `StreamUsageProofs` | `BodyIsReported` | the largest of running totals is the last one |
| `ProxyProofs` | `NoWakeupIsLost`, `OvershootIsBounded`, `WindowCountsHeldSlots`, `RotatedKeysAreNotUsed`, `AuditMatchesQuota`, `QuotaIsWhatWasReported`, `DaemonImplementsServer` | the forward that brings the count to zero broadcasts under the lock; `Reserve` admits below the cap and slots are held by handlers, while `Commit` turns a slot into a request; a slot remembers its window; `Replace` drops the pins with the keys; every `Commit` has its record, and what it misses of an answer is in `unread` |

`DaemonProofs` is about any number of starts, faults and crashes. Migrations:
where `main` is in its loop says how much of the schema is there, and a
migration is recorded exactly when it is among those executed. Logins: for every
earlier attempt of an address, the attempts since and what is left in the bucket
are together at most a full bucket and what came back since; the documented
form, over pairs of attempts, is not inductive without the bucket. Leases: every
restart returns the allocator to its initial state, so its own invariant carries
over. TAPs: their counter stays two behind the allocator's cursor, which bounds
the names; a TAP deleted at the end of a session is no other session's, because
leases are distinct. Cookies: a Gate uses the secret in its file, and the
cookies are signed with it unless a good file was replaced; `Verify` slugs the
owner again, so the proof needs that `Slugify` leaves its own results alone.

`SessionHostProofs`. Neither `NoStrayVM` nor `StampedMeansGone` is inductive. The
invariant has a half about `Manager` (`BInv`): a VM has one
builder, the builder hands it out once, and a VM whose done channel is closed is
out of `Manager`'s map and will not come back. `Host`'s half (`HInv`): `AtPlace`
ties the place of a caller in `Host` to its place in `Manager`; a VM is known to
`Host` only from a `Launch` that returned it; and for every session that left
the live map exactly one goroutine owes the report, or it has been made
(`OneReporter`). `HostImplementsManager` then says that each of `Host`'s steps is
one of `Manager`'s or leaves it alone, so `Manager`'s theorems hold in the
composition (`DaemonKeepsManagerSafe`), and `HostImplementsLedger` that each is a
step of `SessionLedger`: entering, leaving, reporting, or none.

`TerminalPageProofs`. The model gives fetches and sockets names from finite sets;
`OnePerClick` shows that these are no restriction. A callback starts at most one
fetch, socket or timer, so what is in flight is at most one thing for loading
the page and one for each click, and `PageAssumption` asks for one name more.
`SettledPageWorks` says that nothing is stuck, so its invariant says what each
state waits for: a closing page has its DELETE in flight, a page without a VM has
a `boot()` in flight, a page that shows no overlay has a fetch, a timer or a
socket, an open socket is to a live VM, and a page whose socket no longer gets
the output has an `onclose` coming that makes it connect again. `OneVMPerOwner`
needs (`OneBoot`) that a POST not yet served, or a lookup that found nothing,
implies that there is no VM, live or booting, and that a VM that boots has its
POST waiting for it. The first holds as long as one `boot()` runs at a time, the
second as long as no POST is lost during its boot; without the second a lookup
may find nothing although a VM is about to be up.

`StreamUsageProofs` is about `streamSSE` and `streamJSON`. Their loops are
recursive functions on the rounds; that such a function exists and what it has
after each round are inductions over the numbers. The same holds for `Slugify`.
The library's induction rules cannot be instantiated by the provers here; both
`DaemonProofs` and `StreamUsageProofs` derive induction for a set of numbers
from the well-foundedness of `<` on `Nat` (`SetInduction`) and use it with the
set of rounds at which the claim holds. `DaemonImplementsServer` is a
refinement: what `ProxyDaemon` does with the forwards, including during its
shutdown, is what `ProxyServer` allows, for every set of bodies; `ProxyServer`'s
theorems therefore hold of the process too. `SerialTeeProofs` begins with the
lemmas on sequences that the tee needs, about rings cut at their front and runs
of consecutive positions.

The inductive invariants were checked with TLC on the instances of the runs
before they were proved.

The theorems hold for every value of the constants that satisfies the named
`ASSUME`s: finite sets of handlers or callers, positive limits, model values that
are not members of the sets they are distinguished from, migrations with
different names, more names for the page's fetches and sockets than clicks, and
for the allocator a prefix of /16 or longer, for which two octets identify an
address. Of a body they assume that its usage is one of `Usages` and that the
counts in it are running totals (`RunningTotals`), which is how the upstream
reports them and what `mergeUsage`, which takes the larger value, relies on;
bodies that the proxy cannot read are not excluded. TLC
evaluates the assumptions on every run. Bounds such as `MaxCrashes` and
`MaxResizes` are constants too, so the theorems hold for each of their values.

Only model-checked: liveness, since the prover has no reasoning about fairness
or ENABLED. That is `ServesInTheEnd`, `ExitedIsReleased`, `LedgerSpec` beyond its
safety part, `TerminalEndsWithVM`, `PoolFillsUp`,
`NeverBlocksVM`, `SizeReachesGuest`, `HungUpstreamWedgesNothing` and
`ComesToRest`.

## 6. Not modelled

- Configuration (`config.go`) is read once; its values are the CONSTANTS.
- Router, middleware, response helpers and types have no state that changes.
- The jailed launch (`vm/jailer.go`, `jailer.sh`) does to the manager's state
  what the plain launch does, which `VMManager` has. The chroot and the cgroup
  the script makes are in no state of the control plane.
- `extractGooseUp` is a line filter over one fixed file. The bootstrap and image
  scripts are run once by hand.
- `Manager.Shutdown`, `quota.Reset`, `RegisterSessionToken` and
  `RevokeSessionToken` are not called by the programs.
- `TouchSessionAttached` sets a timestamp that nothing reads.
- The assignment of `s.Owner`, made without a lock while a handler may read it,
  is one step of `SessionHost`.
- Output of a VM that is still in the pipe when the VM ends may be lost, and a
  pooled VM may be dead when it is handed out; the first is outside `SerialTee`,
  the second a state of `WarmPool` that no property forbids.

## 7. Plan

1. `WarmPool` composed with `SessionHost` instead of its coarse host.
2. `Host` with two VMs at once under TLC, when an instance of it fits into a few
   minutes; its safety is proved for any number.
3. The jailer's chroot, which outlives its VM.
