----------------------------- MODULE SerialTee -----------------------------
(***************************************************************************)
(* The serial console of a VM: the tee that drains Firecracker's stdout    *)
(* into a ring and to the attached terminal                                *)
(* (control-plane/internal/session/serial.go), and the part of the PTY     *)
(* handler that attaches to it (internal/api/sessions.go).                 *)
(*                                                                         *)
(* A byte is its position in the VM's output, 1, 2, 3, ...; a chunk is     *)
(* what one Read returns.  A client is one GET /sessions/{id}/pty, with a  *)
(* channel of its own; it attaches once.                                   *)
(***************************************************************************)
EXTENDS Integers, Sequences, FiniteSets, Functions

CONSTANTS
  Clients,    \* terminal connections
  ringLimit,  \* t.ringLimit (256 KiB)
  ChanCap,    \* capacity of a client's channel (64)
  MaxChunk,   \* the most bytes one Read returns (4096)
  MaxOutput,  \* bound: bytes the VM writes
  None

ASSUME TeeAssumption ==
  /\ {ringLimit, ChanCap, MaxChunk} \subseteq Nat \ {0} /\ MaxOutput \in Nat
  /\ None \notin Clients

VARIABLES
  written,     \* bytes read from the VM so far
  ring,        \* t.ring
  subscriber,  \* t.subscriber: the client whose channel it is, or None
  drain,       \* the drain goroutine: "read", "send", "ended"
  chunk, sub,  \* its buf[:n] and its copy of t.subscriber
  at,          \* the PTY handler: "none", "attached", "unsubscribed", "closed"
  updates,     \* the client's channel
  seen,        \* bytes sent to the client
  dropped,     \* bytes dropped because its channel was full
  panicked,    \* the daemon died in drain
  latest       \* history: the client that attached last

teeVars == <<written, ring, subscriber, drain, chunk, sub>>
vars == <<teeVars, at, updates, seen, dropped, panicked, latest>>

Init ==
  /\ written = 0 /\ ring = <<>> /\ subscriber = None
  /\ drain = "read" /\ chunk = <<>> /\ sub = None
  /\ at = [c \in Clients |-> "none"]
  /\ updates = [c \in Clients |-> <<>>]
  /\ seen = [c \in Clients |-> <<>>]
  /\ dropped = [c \in Clients |-> {}]
  /\ panicked = FALSE /\ latest = None

-----------------------------------------------------------------------------
(* The ring after Write and the trim that follows it. *)
Trim(r) == IF Len(r) > ringLimit THEN SubSeq(r, Len(r) - ringLimit + 1, Len(r)) ELSE r

(* drain reads a chunk; under t.mu it goes into the ring and the           *)
(* subscriber is copied.                                                   *)
Read(n) ==
  /\ ~panicked /\ drain = "read" /\ written + n <= MaxOutput
  /\ written' = written + n
  /\ chunk' = [i \in 1..n |-> written + i]
  /\ ring' = Trim(ring \o chunk')
  /\ sub' = subscriber
  /\ drain' = IF subscriber = None THEN "read" ELSE "send"
  /\ UNCHANGED <<subscriber, at, updates, seen, dropped, panicked, latest>>

(* A send that waits for room. *)
SendBlocks ==
  /\ ~panicked /\ drain = "send"
  /\ Len(updates[sub]) < ChanCap
  /\ IF at[sub] = "closed"
       THEN panicked' = TRUE /\ UNCHANGED <<drain, updates, dropped>>
       ELSE /\ drain' = "read"
            /\ updates' = [updates EXCEPT ![sub] = Append(@, chunk)]
            /\ UNCHANGED <<dropped, panicked>>
  /\ UNCHANGED <<written, ring, subscriber, chunk, sub, at, seen, latest>>

(* A send to whoever is subscribed by then. *)
SendToCurrent ==
  /\ ~panicked /\ drain = "send"
  /\ drain' = "read"
  /\ IF subscriber # None /\ Len(updates[subscriber]) < ChanCap
       THEN /\ updates' = [updates EXCEPT ![subscriber] = Append(@, chunk)]
            /\ UNCHANGED dropped
       ELSE /\ dropped' = [c \in Clients |-> IF c = subscriber THEN dropped[c] \cup Range(chunk)
                                             ELSE dropped[c]]
            /\ UNCHANGED updates
  /\ UNCHANGED <<written, ring, subscriber, chunk, sub, at, seen, panicked, latest>>

(* The lock is dropped; the chunk is sent without waiting.  Sending on a   *)
(* channel that has been closed is a panic.                                *)
Send ==
  /\ ~panicked /\ drain = "send"
  /\ IF at[sub] = "closed"
       THEN panicked' = TRUE /\ UNCHANGED <<drain, updates, dropped>>
       ELSE /\ drain' = "read"
            /\ IF Len(updates[sub]) < ChanCap
                 THEN /\ updates' = [updates EXCEPT ![sub] = Append(@, chunk)]
                      /\ UNCHANGED dropped
                 ELSE /\ dropped' = [dropped EXCEPT ![sub] = @ \cup Range(chunk)]
                      /\ UNCHANGED updates
            /\ UNCHANGED panicked
  /\ UNCHANGED <<written, ring, subscriber, chunk, sub, at, seen, latest>>

(* Read returns an error: Firecracker is gone. *)
EndOfOutput ==
  /\ ~panicked /\ drain = "read"
  /\ drain' = "ended"
  /\ UNCHANGED <<written, ring, subscriber, chunk, sub, at, updates, seen, dropped, panicked, latest>>

-----------------------------------------------------------------------------
(* Serial.Attach, and the replay the handler sends first.  A client that   *)
(* was attached before is replaced.                                        *)
Attach(c) ==
  /\ ~panicked /\ at[c] = "none"
  /\ at' = [at EXCEPT ![c] = "attached"]
  /\ seen' = [seen EXCEPT ![c] = ring]
  /\ subscriber' = c /\ latest' = c
  /\ UNCHANGED <<written, ring, drain, chunk, sub, updates, dropped, panicked>>

(* The handler's pump forwards a chunk. *)
Receive(c) ==
  /\ ~panicked /\ at[c] = "attached" /\ updates[c] # <<>>
  /\ seen' = [seen EXCEPT ![c] = @ \o Head(updates[c])]
  /\ updates' = [updates EXCEPT ![c] = Tail(@)]
  /\ UNCHANGED <<teeVars, at, dropped, panicked, latest>>

(* A cleanup that does not look who is subscribed. *)
UnsubscribeAnyone(c) ==
  /\ ~panicked /\ at[c] = "attached"
  /\ at' = [at EXCEPT ![c] = "unsubscribed"]
  /\ subscriber' = None
  /\ UNCHANGED <<written, ring, drain, chunk, sub, updates, seen, dropped, panicked, latest>>

(* The handler returns: cleanup unsubscribes its channel unless it has     *)
(* been replaced, drops the lock, ...                                      *)
Unsubscribe(c) ==
  /\ ~panicked /\ at[c] = "attached"
  /\ at' = [at EXCEPT ![c] = "unsubscribed"]
  /\ subscriber' = IF subscriber = c THEN None ELSE subscriber
  /\ UNCHANGED <<written, ring, drain, chunk, sub, updates, seen, dropped, panicked, latest>>

(* ... and closes the channel. *)
CloseChannel(c) ==
  /\ ~panicked /\ at[c] = "unsubscribed"
  /\ at' = [at EXCEPT ![c] = "closed"]
  /\ UNCHANGED <<teeVars, updates, seen, dropped, panicked, latest>>

Next ==
  \/ \E n \in 1..MaxChunk : Read(n)
  \/ Send
  \/ EndOfOutput
  \/ \E c \in Clients : Attach(c) \/ Receive(c) \/ Unsubscribe(c) \/ CloseChannel(c)

Safety == Init /\ [][Next]_vars

(* drain is a goroutine: it goes on when it can.  Clients owe nothing.     *)
Spec == Safety /\ WF_vars(Send)

-----------------------------------------------------------------------------
(* Types of the tee's and the handlers' state. *)
TypeOK ==
  /\ written \in 0..MaxOutput
  /\ ring \in Seq(1..MaxOutput) /\ Len(ring) <= ringLimit
  /\ subscriber \in Clients \cup {None} /\ sub \in Clients \cup {None}
  /\ drain \in {"read", "send", "ended"} /\ (drain = "send" => sub \in Clients)
  /\ at \in [Clients -> {"none", "attached", "unsubscribed", "closed"}]
  /\ \A c \in Clients :
       /\ Len(updates[c]) <= ChanCap
       /\ seen[c] \in Seq(1..MaxOutput) /\ dropped[c] \subseteq 1..MaxOutput

(* What a client sees, replay and stream together, is the VM's output in   *)
(* order and without repetition from the oldest byte of the replay on; the *)
(* only bytes missing are those dropped because the client was too slow.   *)
SeesOutputInOrder ==
  \A c \in Clients : \A i \in 1..(Len(seen[c]) - 1) :
    /\ seen[c][i] < seen[c][i + 1]
    /\ (seen[c][i] + 1)..(seen[c][i + 1] - 1) \subseteq dropped[c]

LastSeen(c) == IF seen[c] = <<>> THEN 0 ELSE seen[c][Len(seen[c])]

InChannel(c) == UNION {Range(updates[c][i]) : i \in 1..Len(updates[c])}

(* The client attached last misses nothing while it stays: what it has    *)
(* not been sent yet is in its channel, in drain's hands or was dropped    *)
(* because it was too slow, also when the client it replaced detaches.     *)
LatestMissesNothing ==
  \A c \in Clients : at[c] = "attached" /\ latest = c
    => (LastSeen(c) + 1)..written
         \subseteq InChannel(c) \cup dropped[c]
                     \cup (IF drain = "send" /\ sub = c THEN Range(chunk) ELSE {})

(* A reconnecting terminal is replayed the last ringLimit bytes the VM     *)
(* wrote, or all of them when there were fewer.                            *)
RingIsTail ==
  LET n == IF written < ringLimit THEN written ELSE ringLimit
  IN  ring = [i \in 1..n |-> written - n + i]

(* "The VM's serial pipe never blocks on write": whatever clients do,      *)
(* drain gets back to reading.                                             *)
NeverBlocksVM == (drain = "send") ~> (drain = "read" \/ panicked)

(* The tee "broadcasts new bytes to any currently-attached subscriber"     *)
(* (comment of SerialTee): never to one that has closed its channel.       *)
SendsOnlyToAttached == ~panicked
=============================================================================
