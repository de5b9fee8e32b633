----------------------------- MODULE ProxyDaemon ----------------------------
(***************************************************************************)
(* The proxy's process: the forwards of ProxyServer with the body of every *)
(* answer streamed (StreamUsage), the audit goroutine that each one leaves *)
(* behind (proxy/internal/server/server.go, internal/audit/audit.go), and  *)
(* the shutdown in main (cmd/claude-proxy/main.go).                        *)
(*                                                                         *)
(* ProxyServer says of an answer only that its usage is one of Usages;     *)
(* this module computes it, and implements that one.                       *)
(***************************************************************************)
EXTENDS ProxyServer, StreamUsage

CONSTANTS
  Bodies    \* answers of the upstream

ASSUME BodiesAssumption ==
  \A b \in Bodies :
    /\ RunningTotals(b)
    /\ \A n \in 0..BodyLen(b) : streamBody(b, n) \in Usages

VARIABLES
  phase,    \* main: "serving", "draining" (httpSrv.Shutdown), "exited"
  pending,  \* audit goroutines that have not written their record yet
  audited,  \* per session, what the records emitted for answers add up to
  reported, \* history: tokens the upstream reported, per session
  unread    \* history: those of them in answers the proxy cannot read

history == <<reported, unread>>
daemonVars == <<phase, pending, audited, history>>
allVars == <<vars, daemonVars>>

DaemonInit ==
  /\ Init
  /\ phase = "serving" /\ pending = 0
  /\ audited = [s \in Sessions |-> [records |-> 0, tokens |-> Zero, cost |-> 0]]
  /\ reported = [s \in Sessions |-> Zero] /\ unread = [s \in Sessions |-> Zero]

plus(a, b) == <<a[1] + b[1], a[2] + b[2]>>

(* emitAudit of an answer: the write is left to a goroutine. *)
emitAudit(s, u) ==
  /\ pending' = pending + 1
  /\ audited' = [audited EXCEPT ![s] = [records |-> @.records + 1, tokens |-> plus(@.tokens, u),
                                       cost |-> @.cost + estimateCostMicros(u)]]

(* emitAudit of a refusal, which has no tokens. *)
emitRefusal == pending' = pending + 1 /\ UNCHANGED <<phase, audited, history>>

(* Audit.Write has inserted its row, failed or run into its 3 s. *)
AuditWrite ==
  /\ phase # "exited" /\ pending > 0
  /\ pending' = pending - 1
  /\ UNCHANGED <<vars, phase, audited, history>>

-----------------------------------------------------------------------------
(* A refusal of the quota, and an upstream that cannot be reached, are     *)
(* audited; a token that does not resolve and a body that cannot be read   *)
(* are not.                                                                *)
ReserveAudited(h) ==
  /\ Reserve(h)
  /\ IF handler'[h].pc = "leave" THEN emitRefusal ELSE UNCHANGED daemonVars

UpstreamFailsAudited(h) == UpstreamFails(h) /\ emitRefusal

(* What the upstream said in the part of an answer that was copied. *)
Hear(s, body, read) ==
  LET said == Reported(body, read) IN
  /\ reported' = [reported EXCEPT ![s] = plus(@, said)]
  /\ unread' = IF Readable(body) THEN unread ELSE [unread EXCEPT ![s] = plus(@, said)]

(* An answer that is audited only when the client got all of it. *)
AnswerAuditsWhole(h, body, read) ==
  LET u == streamBody(body, read) s == handler[h].session IN
  /\ Answer(h, u)
  /\ IF read = BodyLen(body) THEN emitAudit(s, u) ELSE UNCHANGED <<pending, audited>>
  /\ Hear(s, body, read)
  /\ UNCHANGED phase

(* The answer is streamed until it ends or the copy breaks off; what was   *)
(* seen of its usage is committed and audited either way.                  *)
AnswerStreamed(h, body, read) ==
  LET u == streamBody(body, read) s == handler[h].session IN
  /\ Answer(h, u)
  /\ emitAudit(s, u)
  /\ Hear(s, body, read)
  /\ UNCHANGED phase

(* A forward that is in flight goes on during the shutdown. *)
ForwardStep(h) ==
  /\ phase # "exited"
  /\ \/ (SecretForSession(h) \/ Send(h) \/ BodyFails(h) \/ Leave(h)) /\ UNCHANGED daemonVars
     \/ ReserveAudited(h) \/ UpstreamFailsAudited(h)
     \/ \E b \in Bodies : \E n \in 0..BodyLen(b) : AnswerStreamed(h, b, n)

(* Requests come in as long as main has not been told to stop. *)
Accept ==
  /\ phase = "serving"
  /\ \/ \E s \in Sessions : MintSessionToken(s)
     \/ \E h \in Handlers, s \in Sessions : Begin(h, s)
     \/ \E r \in Rotators, ks \in Pools : AdminRotate(r, ks)
  /\ UNCHANGED daemonVars

Rotates(r) == phase # "exited" /\ Rotation(r) /\ UNCHANGED daemonVars

TimePasses == phase # "exited" /\ Tick /\ UNCHANGED daemonVars

(* SIGTERM: Shutdown stops accepting ... *)
Signal ==
  /\ phase = "serving" /\ phase' = "draining"
  /\ UNCHANGED <<vars, pending, audited, history>>

(* Handlers still running. *)
Busy ==
  \/ \E h \in Handlers : handler[h].pc # "idle"
  \/ \E r \in Rotators : rotate[r] \in {"draining", "drained", "timedOut"}

(* main returns: the database is closed, and what the audit goroutines     *)
(* have not written yet, pending, never will be.                           *)
Returns ==
  /\ phase = "draining"
  /\ phase' = "exited"
  /\ UNCHANGED <<vars, pending, audited, history>>

(* ... and waits until no handler runs; ... *)
ShutdownDone == ~Busy /\ Returns

(* ... after 30 s it gives up on them. *)
ShutdownTimeout == Busy /\ Returns

DaemonNext ==
  \/ Accept
  \/ \E h \in Handlers : ForwardStep(h)
  \/ \E r \in Rotators : Rotates(r)
  \/ AuditWrite
  \/ TimePasses
  \/ Signal \/ ShutdownDone \/ ShutdownTimeout

DaemonSafety == DaemonInit /\ [][DaemonNext]_allVars

(* The rotation's goroutines go on when they can, its timer fires, and so  *)
(* does the shutdown's.  Nothing is assumed of forwards: an upstream may   *)
(* hang.                                                                   *)
DaemonFairness ==
  /\ \A r \in Rotators : WF_allVars(Rotates(r))
  /\ WF_allVars(ShutdownDone \/ ShutdownTimeout)

DaemonSpec == DaemonSafety /\ DaemonFairness

-----------------------------------------------------------------------------
(* Types. *)
DaemonTypeOK ==
  /\ TypeOK
  /\ phase \in {"serving", "draining", "exited"}
  /\ pending \in Nat
  /\ audited \in [Sessions -> [records: Nat, tokens: Nat \X Nat, cost: Nat]]
  /\ reported \in [Sessions -> Nat \X Nat] /\ unread \in [Sessions -> Nat \X Nat]

(* The caps count what the upstream reports, as far as the proxy can read  *)
(* it: over all answers of a session, whole or cut short, streamed or not, *)
(* the tokens committed are the totals reported by then, less those in     *)
(* answers that are compressed or too long for the capture buffer.  A      *)
(* frame that repeats a running total is not counted again.  Commit's      *)
(* "exact counts reported by Anthropic" holds without the exception only   *)
(* if there are no such answers.                                           *)
QuotaChargesReported ==
  \A s \in Sessions : plus(<<get(s).tokensIn, get(s).tokensOut>>, unread[s]) = reported[s]

(* "Audit receives one Record per forwarded request": the records of a     *)
(* session's answers account for exactly the requests, the tokens and so   *)
(* the cost that its quota was charged.                                    *)
AuditAgreesWithQuota ==
  \A s \in Sessions :
    LET b == get(s) IN
    audited[s] = [records |-> b.requests, tokens |-> <<b.tokensIn, b.tokensOut>>,
                  cost |-> 3 * b.tokensIn + 15 * b.tokensOut]

(* A hung upstream wedges nothing: every rotation swaps the keys ("30s cap *)
(* so a hung upstream cannot wedge rotation forever") or the process ends  *)
(* first, and a process that is told to end does.                          *)
HungUpstreamWedgesNothing ==
  /\ \A r \in Rotators :
       (rotate[r] = "draining") ~> (rotate[r] \in {"swapped", "swappedLate"} \/ phase = "exited")
  /\ (phase = "draining") ~> (phase = "exited")
=============================================================================
