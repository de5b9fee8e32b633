------------------------ MODULE GuestChannelProofs -------------------------
(***************************************************************************)
(* Facts about the control channel for any number of terminals,            *)
(* connections and geometries: its types, in particular that only real     *)
(* geometries are written to the guest, and that Resize never sends on a   *)
(* connection that the listener has closed.                                *)
(*                                                                         *)
(* NeverStoresClosed is not inductive: HelloFails closes a connection too. *)
(* The strengthening says that a connection is stored only from its hello  *)
(* on, and that its handler leaves that stretch only by clearing it.       *)
(***************************************************************************)
EXTENDS GuestChannel, TLAPS

(* Zenon first, with more time than the default; leaves that need          *)
(* arithmetic are marked for SMT.                                          *)
USE ZenonT(20), SMTT(60)

Places == {"idle", "hello", "ready", "size", "copy", "write", "serve", "closed"}

(* A thread about to send has a geometry, and one about to write has a     *)
(* connection.                                                             *)
Sender(t) ==
  /\ t.pc \in {"copy", "write"} => t.size \in Sizes
  /\ t.pc = "write" => t.conn \in Conns

Types ==
  /\ TypeOK
  /\ \A c \in Clients : Sender(pty[c])
  /\ \A k \in Conns : Sender(handler[k])

(* A stored connection has had its hello and is not closed. *)
StoredIsAttached ==
  guestConn # None => handler[guestConn].pc \in {"ready", "size", "copy", "write", "serve"}

(* A thread record has the fields it was made of. *)
LEMMA AtFields ==
  ASSUME NEW p \in Places, NEW s \in Sizes \cup {NoSize}, NEW k \in Conns \cup {None}
  PROVE  /\ At(p, s, k) \in Threads
         /\ At(p, s, k).pc = p /\ At(p, s, k).size = s /\ At(p, s, k).conn = k
  BY DEF At, Threads, Places

(* A thread that is not about to send is a thread and owes nothing.        *)
LEMMA RestingThread ==
  ASSUME NEW p \in Places \ {"copy", "write"}
  PROVE  At(p, NoSize, None) \in Threads /\ Sender(At(p, NoSize, None))
         /\ At(p, NoSize, None).pc = p
  BY AtFields, SMTT(60) DEF Sender

(* Replacing one thread keeps them all well formed.                        *)
LEMMA ReplaceThread ==
  ASSUME NEW S, NEW f \in [S -> Threads], NEW x \in S, NEW t \in Threads,
         \A y \in S : Sender(f[y]), Sender(t)
  PROVE  /\ [f EXCEPT ![x] = t] \in [S -> Threads]
         /\ \A y \in S : Sender([f EXCEPT ![x] = t][y])
  OBVIOUS

(* A frame written to a wire, or taken from it, leaves geometries on it.   *)
LEMMA WireKeepsType ==
  ASSUME NEW w \in [Conns -> Seq(Sizes)], NEW k \in Conns
  PROVE  /\ \A s \in Sizes : [w EXCEPT ![k] = Append(@, s)] \in [Conns -> Seq(Sizes)]
         /\ [w EXCEPT ![k] = <<>>] \in [Conns -> Seq(Sizes)]
         /\ w[k] # <<>> => /\ Head(w[k]) \in Sizes
                           /\ [w EXCEPT ![k] = Tail(@)] \in [Conns -> Seq(Sizes)]
<1>1. w[k] \in Seq(Sizes) OBVIOUS
<1>2. <<>> \in Seq(Sizes) OBVIOUS
<1>3. \A s \in Sizes : Append(w[k], s) \in Seq(Sizes) BY <1>1
<1>4. w[k] # <<>> => Head(w[k]) \in Sizes /\ Tail(w[k]) \in Seq(Sizes) BY <1>1
<1> QED BY <1>1, <1>2, <1>3, <1>4

(* A step of a client keeps the types.                                     *)
LEMMA ClientKeepsTypes ==
  ASSUME Types, NEW c \in Clients, Sending(c) \/ \E size \in Sizes : Resize(c, size)
  PROVE  Types'
<1> USE GuestAssumption
<1>1. pty[c] \in Threads /\ Sender(pty[c]) BY DEF Types, TypeOK
<1>2. ASSUME NEW size \in Sizes, Resize(c, size) PROVE Types'
  <2>1. At("copy", size, None) \in Threads /\ Sender(At("copy", size, None))
    BY AtFields, SMTT(60) DEF Sender, Places
  <2>2. pty' \in [Clients -> Threads] /\ \A d \in Clients : Sender(pty'[d])
    BY <1>2, <2>1, ReplaceThread, SMTT(60) DEF Resize, Types, TypeOK
  <2> QED BY <1>2, <2>2, SMTT(60) DEF Resize, Types, TypeOK
<1>3. CASE ResizeCopies(c)
  <2> DEFINE t == IF guestConn = None THEN Idle ELSE At("write", pty[c].size, guestConn)
  <2>1. CASE guestConn = None
    BY <2>1, <1>3, RestingThread, ReplaceThread DEF Idle, Places, ResizeCopies, Types, TypeOK, sessionVars
  <2>2. CASE guestConn # None
    <3>1. pty[c].size \in Sizes BY <1>1, <1>3 DEF Sender, ResizeCopies
    <3>2. t \in Threads /\ Sender(t)
      BY <2>2, <3>1, AtFields, SMTT(60) DEF Sender, Places, Types, TypeOK
    <3>3. pty' = [pty EXCEPT ![c] = t] BY <1>3 DEF ResizeCopies
    <3>4. pty' \in [Clients -> Threads] /\ \A d \in Clients : Sender(pty'[d])
      <4> HIDE DEF t
      <4> QED BY <3>2, <3>3, ReplaceThread DEF Types, TypeOK
    <3> QED BY <1>3, <3>4 DEF ResizeCopies, Types, TypeOK, sessionVars
  <2> QED BY <2>1, <2>2
<1>4. CASE ResizeWrites(c)
  <2>1. pty[c].size \in Sizes /\ pty[c].conn \in Conns BY <1>1, <1>4 DEF Sender, ResizeWrites
  <2>2. wire' \in [Conns -> Seq(Sizes)]
    BY <1>4, <2>1, WireKeepsType DEF ResizeWrites, Write, Types, TypeOK
  <2>3. pty' \in [Clients -> Threads] /\ \A d \in Clients : Sender(pty'[d])
    BY <1>4, RestingThread, ReplaceThread DEF Idle, Places, ResizeWrites, Types, TypeOK
  <2> QED BY <1>4, <2>2, <2>3 DEF ResizeWrites, Types, TypeOK, sessionVars
<1> QED BY <1>2, <1>3, <1>4 DEF Sending

(* A step of the handler of a connection, or a dial, keeps the types.      *)
LEMMA HandlerKeepsTypes ==
  ASSUME Types, NEW k \in Conns, Dial(k) \/ Handling(k)
  PROVE  Types'
<1> USE GuestAssumption
<1>1. handler[k] \in Threads /\ Sender(handler[k]) BY DEF Types, TypeOK
<1> DEFINE Same == \A t \in Threads : Sender(t) /\ handler' = [handler EXCEPT ![k] = t]
                     => handler' \in [Conns -> Threads] /\ \A j \in Conns : Sender(handler'[j])
<1>2. Same BY ReplaceThread, SMTT(60) DEF Types, TypeOK
<1> HIDE DEF Same
<1>3. ASSUME NEW p \in Places \ {"copy", "write"},
             handler' = [handler EXCEPT ![k] = At(p, NoSize, None)]
      PROVE  handler' \in [Conns -> Threads] /\ \A j \in Conns : Sender(handler'[j])
  BY <1>2, <1>3, RestingThread DEF Same
<1>4. CASE Dial(k)
  BY <1>4, <1>3 DEF Dial, Places, Types, TypeOK, sessionVars
<1>5. CASE Hello(k)
  BY <1>5, <1>3 DEF Hello, Places, Types, TypeOK
<1>6. CASE HelloFails(k)
  <2>1. wire' \in [Conns -> Seq(Sizes)] BY <1>6, WireKeepsType DEF HelloFails, Types, TypeOK
  <2>2. drops' \in 0..MaxDrops BY <1>6, SMTT(60) DEF HelloFails, Types, TypeOK
  <2>3. handler' \in [Conns -> Threads] /\ \A j \in Conns : Sender(handler'[j])
    BY <1>6, <1>3 DEF HelloFails, Closed, Places
  <2> QED BY <1>6, <2>1, <2>2, <2>3 DEF HelloFails, Types, TypeOK, sessionVars
<1>7. CASE MarkReady(k)
  BY <1>7, <1>3 DEF MarkReady, Places, Types, TypeOK
<1>8. CASE ReadSize(k)
  <2>1. CASE win = NoSize
    BY <2>1, <1>8, <1>3 DEF ReadSize, Places, Types, TypeOK, sessionVars
  <2>2. CASE win # NoSize
    <3>1. At("copy", win, None) \in Threads /\ Sender(At("copy", win, None))
      BY <2>2, AtFields, SMTT(60) DEF Sender, Places, Types, TypeOK
    <3>2. handler' \in [Conns -> Threads] /\ \A j \in Conns : Sender(handler'[j])
      BY <1>8, <2>2, <1>2, <3>1 DEF ReadSize, Same
    <3> QED BY <1>8, <3>2 DEF ReadSize, Types, TypeOK, sessionVars
  <2> QED BY <2>1, <2>2
<1>9. CASE ReplayCopies(k)
  <2>1. CASE guestConn = None
    BY <2>1, <1>9, <1>3 DEF ReplayCopies, Places, Types, TypeOK, sessionVars
  <2>2. CASE guestConn # None
    <3> DEFINE t == At("write", handler[k].size, guestConn)
    <3>1. handler[k].size \in Sizes BY <1>1, <1>9 DEF Sender, ReplayCopies
    <3>2. t \in Threads /\ Sender(t)
      BY <2>2, <3>1, AtFields, SMTT(60) DEF Sender, Places, Types, TypeOK
    <3>3. handler' = [handler EXCEPT ![k] = t] BY <1>9, <2>2 DEF ReplayCopies
    <3>4. handler' \in [Conns -> Threads] /\ \A j \in Conns : Sender(handler'[j])
      <4> HIDE DEF t
      <4> QED BY <3>2, <3>3, <1>2 DEF Same
    <3> QED BY <1>9, <3>4 DEF ReplayCopies, Types, TypeOK, sessionVars
  <2> QED BY <2>1, <2>2
<1>10. CASE ReplayWrites(k)
  <2>1. handler[k].size \in Sizes /\ handler[k].conn \in Conns
    BY <1>1, <1>10 DEF Sender, ReplayWrites
  <2>2. wire' \in [Conns -> Seq(Sizes)]
    BY <1>10, <2>1, WireKeepsType DEF ReplayWrites, Write, Types, TypeOK
  <2>3. handler' \in [Conns -> Threads] /\ \A j \in Conns : Sender(handler'[j])
    BY <1>10, <1>3 DEF ReplayWrites, Places
  <2> QED BY <1>10, <2>2, <2>3 DEF ReplayWrites, Types, TypeOK, sessionVars
<1>11. CASE Disconnected(k)
  BY <1>11, <1>3 DEF Disconnected, Closed, Places, Types, TypeOK
<1> QED BY <1>4, <1>5, <1>6, <1>7, <1>8, <1>9, <1>10, <1>11 DEF Handling

(* The types are inductive. *)
LEMMA TypesInductive ==
  /\ Init => Types
  /\ Types /\ [Next]_vars => Types'
<1> USE GuestAssumption
<1>1. ASSUME Init PROVE Types
  <2>1. Idle \in Threads /\ Sender(Idle) BY RestingThread DEF Idle, Places
  <2>2. pty \in [Clients -> Threads] /\ \A c \in Clients : Sender(pty[c])
    BY <1>1, <2>1 DEF Init
  <2>3. handler \in [Conns -> Threads] /\ \A k \in Conns : Sender(handler[k])
    BY <1>1, <2>1 DEF Init
  <2>4. wire \in [Conns -> Seq(Sizes)] BY <1>1 DEF Init
  <2>5. ready \in BOOLEAN BY <1>1 DEF Init
  <2>6. resizes \in 0..MaxResizes /\ drops \in 0..MaxDrops BY <1>1 DEF Init
  <2>7. /\ win \in Sizes \cup {NoSize} /\ tty \in Sizes \cup {NoSize}
        /\ guestConn \in Conns \cup {None} /\ agent \in Conns \cup {None}
    BY <1>1 DEF Init
  <2> QED BY <2>2, <2>3, <2>4, <2>5, <2>6, <2>7 DEF Types, TypeOK
<1>2. ASSUME Types, [Next]_vars PROVE Types'
  <2>1. CASE \E c \in Clients : Sending(c) \/ \E size \in Sizes : Resize(c, size)
    BY <1>2, <2>1, ClientKeepsTypes
  <2>2. CASE \E k \in Conns : Dial(k) \/ Handling(k)
    BY <1>2, <2>2, HandlerKeepsTypes
  <2>3. CASE ApplyWinsize
    <3>1. agent \in Conns BY <1>2, <2>3 DEF ApplyWinsize, Types, TypeOK
    <3>2. tty' \in Sizes \cup {NoSize} /\ wire' \in [Conns -> Seq(Sizes)]
      BY <1>2, <2>3, <3>1, WireKeepsType DEF ApplyWinsize, Types, TypeOK
    <3>3. drops' \in 0..MaxDrops BY <1>2, <2>3, SMTT(60) DEF ApplyWinsize, Types, TypeOK
    <3> QED BY <1>2, <2>3, <3>2, <3>3 DEF ApplyWinsize, Types, TypeOK, sessionVars
  <2>4. CASE Drop
    <3>1. agent \in Conns BY <1>2, <2>4 DEF Drop, Types, TypeOK
    <3>2. wire' \in [Conns -> Seq(Sizes)]
      BY <1>2, <2>4, <3>1, WireKeepsType DEF Drop, Types, TypeOK
    <3>3. drops' \in 0..MaxDrops BY <1>2, <2>4, SMTT(60) DEF Drop, Types, TypeOK
    <3> QED BY <1>2, <2>4, <3>2, <3>3 DEF Drop, Types, TypeOK, sessionVars
  <2>5. CASE UNCHANGED vars
    BY <1>2, <2>5 DEF vars, sessionVars, Types, TypeOK
  <2> QED BY <1>2, <2>1, <2>2, <2>3, <2>4, <2>5 DEF Next
<1> QED BY <1>1, <1>2

(* Type correctness of the channel; the listener and Resize write only     *)
(* geometries with columns and rows to the guest.                          *)
THEOREM TypeCorrect == Safety => []TypeOK
<1>1. Types => TypeOK BY DEF Types
<1> QED BY <1>1, TypesInductive, PTL DEF Safety

(* A handler step keeps a stored connection attached: Hello stores its own *)
(* connection, and the only ways to "closed" start before the hello or     *)
(* clear the slot.                                                         *)
LEMMA HandlerKeepsAttached ==
  ASSUME Types, StoredIsAttached, NEW k \in Conns, Dial(k) \/ Handling(k)
  PROVE  StoredIsAttached'
<1> USE GuestAssumption
<1> DEFINE After == {"ready", "size", "copy", "write", "serve"}
<1>1. handler \in [Conns -> Threads] /\ guestConn \in Conns \cup {None} BY DEF Types, TypeOK
<1>2. ASSUME NEW t, handler' = [handler EXCEPT ![k] = t], guestConn' = guestConn,
             guestConn = k => t.pc \in After
      PROVE  StoredIsAttached'
  BY <1>1, <1>2 DEF StoredIsAttached
<1>3. handler[k].pc \in {"idle", "hello"} => guestConn # k
  BY DEF StoredIsAttached
<1>4. CASE Dial(k)
  <2>1. handler[k].pc = "idle" BY <1>4 DEF Dial, Idle, At
  <2>2. handler' = [handler EXCEPT ![k] = At("hello", NoSize, None)] /\ guestConn' = guestConn
    BY <1>4 DEF Dial, sessionVars
  <2> QED BY <2>1, <2>2, <1>3, <1>2
<1>5. CASE Hello(k)
  BY <1>5, <1>1 DEF Hello, StoredIsAttached, At
<1>6. CASE HelloFails(k)
  BY <1>6, <1>3, <1>2 DEF HelloFails, sessionVars
<1>7. CASE MarkReady(k)
  BY <1>7, <1>2 DEF MarkReady, At
<1>8. CASE ReadSize(k)
  <2>1. CASE win = NoSize BY <2>1, <1>8, <1>2 DEF ReadSize, At, sessionVars
  <2>2. CASE win # NoSize BY <2>2, <1>8, <1>2 DEF ReadSize, At, sessionVars
  <2> QED BY <2>1, <2>2
<1>9. CASE ReplayCopies(k)
  <2>1. CASE guestConn = None BY <2>1, <1>9, <1>2 DEF ReplayCopies, At, sessionVars
  <2>2. CASE guestConn # None BY <2>2, <1>9, <1>2 DEF ReplayCopies, At, sessionVars
  <2> QED BY <2>1, <2>2
<1>10. CASE ReplayWrites(k)
  BY <1>10, <1>2 DEF ReplayWrites, At, sessionVars
<1>11. CASE Disconnected(k)
  BY <1>11 DEF Disconnected, StoredIsAttached
<1> QED BY <1>4, <1>5, <1>6, <1>7, <1>8, <1>9, <1>10, <1>11 DEF Handling

(* Resize and the replay never pick up a connection that its handler has   *)
(* closed, for any number of redials and terminals.                        *)
THEOREM StoredIsNeverClosed == Safety => []NeverStoresClosed
<1> USE GuestAssumption
<1>1. Init => StoredIsAttached BY DEF Init, StoredIsAttached
<1>2. Types /\ StoredIsAttached /\ [Next]_vars => StoredIsAttached'
  <2> SUFFICES ASSUME Types, StoredIsAttached, [Next]_vars PROVE StoredIsAttached'
    OBVIOUS
  <2>1. CASE \E c \in Clients : Sending(c) \/ \E size \in Sizes : Resize(c, size)
    BY <2>1 DEF Sending, Resize, ResizeCopies, ResizeWrites, sessionVars, StoredIsAttached
  <2>2. CASE \E k \in Conns : Dial(k) \/ Handling(k)
    BY <2>2, HandlerKeepsAttached
  <2>3. CASE ApplyWinsize \/ Drop
    BY <2>3 DEF ApplyWinsize, Drop, sessionVars, StoredIsAttached
  <2>4. CASE UNCHANGED vars
    BY <2>4 DEF vars, sessionVars, StoredIsAttached
  <2> QED BY <2>1, <2>2, <2>3, <2>4 DEF Next
<1>3. StoredIsAttached => NeverStoresClosed
  BY DEF StoredIsAttached, NeverStoresClosed, Closed, At
<1> QED BY <1>1, <1>2, <1>3, TypesInductive, PTL DEF Safety
=============================================================================
