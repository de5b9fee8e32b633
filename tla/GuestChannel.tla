---------------------------- MODULE GuestChannel ----------------------------
(***************************************************************************)
(* The vsock control channel of one session: the guest agent dials and     *)
(* says hello, the host's listener attaches it and replays the terminal    *)
(* geometry, and browsers resize the terminal                              *)
(* (control-plane/internal/session/session.go and vsock_listener.go, with  *)
(* the loop of guest-agent/cmd/microvm-guest-agent/main.go).               *)
(*                                                                         *)
(* A geometry (cols, rows) is one member of Sizes; NoSize is 0 x 0, which  *)
(* Resize rejects.  Each lock of the code is one step; what happens        *)
(* between two locks may be interleaved with anything.                     *)
(***************************************************************************)
EXTENDS Integers, Sequences, FiniteSets

CONSTANTS
  Clients,     \* PTY handlers, each with one read loop
  Conns,       \* vsock connections the guest dials, one after another
  Sizes,       \* geometries a browser asks for
  MaxResizes,  \* bound: Resize calls
  MaxDrops,    \* bound: connections that break, and sizes the console refuses
  None, NoSize

ASSUME GuestAssumption ==
  /\ MaxResizes \in Nat /\ MaxDrops \in Nat
  /\ None \notin Conns /\ NoSize \notin Sizes

VARIABLES
  win,        \* s.cols, s.rows
  guestConn,  \* s.guestConn
  ready,      \* s.ready is closed
  pty,        \* pty[c]: where client c's Resize is, with its arguments
  handler,    \* handler[k]: where handleGuestConn of connection k is
  agent,      \* the connection the guest agent serves, or None
  wire,       \* wire[k]: frames written to k and not read yet
  tty,        \* geometry of the guest's /dev/ttyS0
  resizes,    \* Resize calls so far
  drops       \* connections broken and sizes refused so far

sessionVars == <<win, guestConn, ready>>
vars == <<sessionVars, pty, handler, agent, wire, tty, resizes, drops>>

(* A thread that sends: where it is, what it sends, and its copy of the    *)
(* connection.                                                             *)
At(pc, size, conn) == [pc |-> pc, size |-> size, conn |-> conn]
Idle == At("idle", NoSize, None)
Closed == At("closed", NoSize, None)

Init ==
  /\ win = NoSize /\ guestConn = None /\ ready = FALSE
  /\ pty = [c \in Clients |-> Idle]
  /\ handler = [k \in Conns |-> Idle]
  /\ agent = None
  /\ wire = [k \in Conns |-> <<>>]
  /\ tty = NoSize
  /\ resizes = 0 /\ drops = 0

-----------------------------------------------------------------------------
(* SendToGuest writes to the connection it copied under guestMu.  A frame  *)
(* written to a connection that has broken is lost: the call fails.        *)
Write(size, k) ==
  wire' = IF k = agent THEN [wire EXCEPT ![k] = Append(@, size)] ELSE wire

(* Resize: the geometry is stored under winMu ... *)
Resize(c, size) ==
  /\ pty[c] = Idle /\ resizes < MaxResizes
  /\ win' = size
  /\ pty' = [pty EXCEPT ![c] = At("copy", size, None)]
  /\ resizes' = resizes + 1
  /\ UNCHANGED <<guestConn, ready, handler, agent, wire, tty, drops>>

(* ... SendToGuest copies the connection under guestMu; ErrNoGuest is      *)
(* success ...                                                             *)
ResizeCopies(c) ==
  /\ pty[c].pc = "copy"
  /\ pty' = [pty EXCEPT ![c] = IF guestConn = None THEN Idle
                               ELSE At("write", @.size, guestConn)]
  /\ UNCHANGED <<sessionVars, handler, agent, wire, tty, resizes, drops>>

(* ... and writes the frame. *)
ResizeWrites(c) ==
  /\ pty[c].pc = "write"
  /\ Write(pty[c].size, pty[c].conn)
  /\ pty' = [pty EXCEPT ![c] = Idle]
  /\ UNCHANGED <<sessionVars, handler, agent, tty, resizes, drops>>

-----------------------------------------------------------------------------
(* The guest agent dials; the listener accepts and starts a handler; the   *)
(* agent sends its hello.                                                  *)
Dial(k) ==
  /\ agent = None /\ handler[k] = Idle
  /\ agent' = k
  /\ handler' = [handler EXCEPT ![k] = At("hello", NoSize, None)]
  /\ UNCHANGED <<sessionVars, pty, wire, tty, resizes, drops>>

(* A handler that looks up the geometry before it attaches. *)
HelloReadsSizeFirst(k) ==
  /\ handler[k].pc = "hello"
  /\ \/ /\ handler[k].conn = None
        /\ handler' = [handler EXCEPT ![k] = At("hello", win, k)]
        /\ UNCHANGED <<guestConn, ready>>
     \/ /\ handler[k].conn = k
        /\ guestConn' = k /\ ready' = TRUE
        /\ handler' = [handler EXCEPT ![k] = At(IF @.size = NoSize THEN "serve" ELSE "copy", @.size, None)]
  /\ UNCHANGED <<win, pty, agent, wire, tty, resizes, drops>>

(* A hello with the right token: SetGuestConn. *)
Hello(k) ==
  /\ handler[k].pc = "hello"
  /\ guestConn' = k
  /\ handler' = [handler EXCEPT ![k] = At("ready", NoSize, None)]
  /\ UNCHANGED <<win, ready, pty, agent, wire, tty, resizes, drops>>

(* No hello within the deadline, or one of the wrong type or token: the    *)
(* connection is closed.                                                   *)
HelloFails(k) ==
  /\ handler[k].pc = "hello" /\ (agent # k \/ drops < MaxDrops)
  /\ handler' = [handler EXCEPT ![k] = Closed]
  /\ agent' = IF agent = k THEN None ELSE agent
  /\ drops' = IF agent = k THEN drops + 1 ELSE drops
  /\ wire' = [wire EXCEPT ![k] = <<>>]
  /\ UNCHANGED <<sessionVars, pty, tty, resizes>>

(* MarkReady. *)
MarkReady(k) ==
  /\ handler[k].pc = "ready"
  /\ ready' = TRUE
  /\ handler' = [handler EXCEPT ![k] = At("size", NoSize, None)]
  /\ UNCHANGED <<win, guestConn, pty, agent, wire, tty, resizes, drops>>

(* WindowSize, read under winMu. *)
ReadSize(k) ==
  /\ handler[k].pc = "size"
  /\ handler' = [handler EXCEPT ![k] = IF win = NoSize THEN At("serve", NoSize, None)
                                       ELSE At("copy", win, None)]
  /\ UNCHANGED <<sessionVars, pty, agent, wire, tty, resizes, drops>>

(* The replay copies the connection, whichever is stored by now ... *)
ReplayCopies(k) ==
  /\ handler[k].pc = "copy"
  /\ handler' = [handler EXCEPT ![k] = IF guestConn = None THEN At("serve", NoSize, None)
                                       ELSE At("write", @.size, guestConn)]
  /\ UNCHANGED <<sessionVars, pty, agent, wire, tty, resizes, drops>>

(* ... and writes the frame. *)
ReplayWrites(k) ==
  /\ handler[k].pc = "write"
  /\ Write(handler[k].size, handler[k].conn)
  /\ handler' = [handler EXCEPT ![k] = At("serve", NoSize, None)]
  /\ UNCHANGED <<sessionVars, pty, agent, tty, resizes, drops>>

(* The end of a connection that stays stored. *)
DisconnectedKeepsConn(k) ==
  /\ handler[k].pc = "serve" /\ agent # k
  /\ handler' = [handler EXCEPT ![k] = Closed]
  /\ UNCHANGED <<sessionVars, pty, agent, wire, tty, resizes, drops>>

(* The read loop meets the end of a broken connection: the deferred        *)
(* SetGuestConn(nil), whatever connection is stored, and Close.            *)
Disconnected(k) ==
  /\ handler[k].pc = "serve" /\ agent # k
  /\ guestConn' = None
  /\ handler' = [handler EXCEPT ![k] = Closed]
  /\ UNCHANGED <<win, ready, pty, agent, wire, tty, resizes, drops>>

-----------------------------------------------------------------------------
(* The guest agent reads the next frame and applies it to the console; if  *)
(* the console cannot be opened or the ioctl fails, the error is logged    *)
(* and the loop goes on.                                                   *)
ApplyWinsize ==
  /\ agent # None /\ wire[agent] # <<>>
  /\ wire' = [wire EXCEPT ![agent] = Tail(@)]
  /\ \/ tty' = Head(wire[agent]) /\ UNCHANGED drops
     \/ drops < MaxDrops /\ drops' = drops + 1 /\ UNCHANGED tty
  /\ UNCHANGED <<sessionVars, pty, handler, agent, resizes>>

(* The connection breaks, or the agent is restarted: it will redial. *)
Drop ==
  /\ agent # None /\ drops < MaxDrops
  /\ agent' = None
  /\ wire' = [wire EXCEPT ![agent] = <<>>]
  /\ drops' = drops + 1
  /\ UNCHANGED <<sessionVars, pty, handler, tty, resizes>>

-----------------------------------------------------------------------------
Sending(c) == ResizeCopies(c) \/ ResizeWrites(c)

Handling(k) ==
  \/ Hello(k) \/ HelloFails(k) \/ MarkReady(k) \/ ReadSize(k)
  \/ ReplayCopies(k) \/ ReplayWrites(k) \/ Disconnected(k)

Next ==
  \/ \E c \in Clients : Sending(c) \/ \E size \in Sizes : Resize(c, size)
  \/ \E k \in Conns : Dial(k) \/ Handling(k)
  \/ ApplyWinsize \/ Drop

Safety == Init /\ [][Next]_vars

(* Threads go on when they can and the agent keeps dialling; nobody has to *)
(* resize, and no connection has to break.                                 *)
Spec ==
  /\ Safety
  /\ \A c \in Clients : WF_vars(Sending(c))
  /\ \A k \in Conns : WF_vars(Handling(k)) /\ WF_vars(Dial(k))
  /\ WF_vars(ApplyWinsize)

-----------------------------------------------------------------------------
Threads == [pc : {"idle", "hello", "ready", "size", "copy", "write", "serve", "closed"},
            size : Sizes \cup {NoSize}, conn : Conns \cup {None}]

(* Types; what is written to the guest is always a geometry, never 0 x 0,  *)
(* which applyWinsize would refuse.                                        *)
TypeOK ==
  /\ win \in Sizes \cup {NoSize} /\ tty \in Sizes \cup {NoSize}
  /\ guestConn \in Conns \cup {None} /\ agent \in Conns \cup {None}
  /\ ready \in BOOLEAN
  /\ pty \in [Clients -> Threads] /\ handler \in [Conns -> Threads]
  /\ wire \in [Conns -> Seq(Sizes)]
  /\ resizes \in 0..MaxResizes /\ drops \in 0..MaxDrops

(* A connection the handler has closed is not the one Resize sends on,     *)
(* however redials and the deferred clearing interleave.                   *)
NeverStoresClosed == guestConn # None => handler[guestConn] # Closed

(* A geometry asked for, even before the guest has booted, is not lost     *)
(* between Resize and the replay: the tty gets one, unless the connection  *)
(* breaks or the console refuses it.                                       *)
SizeReachesGuest == (win # NoSize) ~> (tty # NoSize \/ drops > 0)
=============================================================================
