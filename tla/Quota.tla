------------------------------- MODULE Quota --------------------------------
(***************************************************************************)
(* The per-session caps of the Anthropic proxy                             *)
(* (proxy/internal/quota/quota.go) as functions of a session's bucket.     *)
(* Time is an integer; Minute ticks are one minute.                        *)
(***************************************************************************)
EXTENDS Integers

CONSTANTS
  MaxTokensIn, MaxTokensOut, MaxRequests, MaxRequestsPerMinute,  \* Limits
  Minute

ASSUME QuotaAssumption ==
  {MaxTokensIn, MaxTokensOut, MaxRequests, MaxRequestsPerMinute, Minute} \subseteq Nat \ {0}

Buckets == [tokensIn : Nat, tokensOut : Nat, requests : Nat,
            windowStart : Nat, windowCount : Nat]

(* get, for a session it has not seen. *)
NewBucket(now) ==
  [tokensIn |-> 0, tokensOut |-> 0, requests |-> 0, windowStart |-> now, windowCount |-> 0]

(* A new window that inherits the count of the old one. *)
RolledKeepsCount(b, now) ==
  IF now - b.windowStart >= Minute THEN [b EXCEPT !.windowStart = now] ELSE b

(* Reserve first starts a new window when the old one is a minute old. *)
Rolled(b, now) ==
  IF now - b.windowStart >= Minute
    THEN [b EXCEPT !.windowStart = now, !.windowCount = 0] ELSE b

(* Caps that let one request too many through. *)
WithinCapsOffByOne(b) ==
  /\ b.windowCount <= MaxRequestsPerMinute
  /\ b.requests <= MaxRequests
  /\ b.tokensIn < MaxTokensIn /\ b.tokensOut < MaxTokensOut

(* The four checks of Reserve. *)
WithinCaps(b) ==
  /\ b.windowCount < MaxRequestsPerMinute
  /\ b.requests < MaxRequests
  /\ b.tokensIn < MaxTokensIn /\ b.tokensOut < MaxTokensOut

(* The slot Reserve takes ... *)
SlotTaken(b) == [b EXCEPT !.windowCount = @ + 1]

(* ... and Refund gives back. *)
SlotRefunded(b) == IF b.windowCount > 0 THEN [b EXCEPT !.windowCount = @ - 1] ELSE b

(* Commit. *)
Committed(b, in, out) ==
  [b EXCEPT !.tokensIn = @ + in, !.tokensOut = @ + out, !.requests = @ + 1]
=============================================================================
