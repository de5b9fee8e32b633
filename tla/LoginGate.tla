----------------------------- MODULE LoginGate -----------------------------
(***************************************************************************)
(* The login gate of the control plane: the cookie secret, the rate limit  *)
(* on login attempts, the name a visitor is known by and the signed cookie *)
(* (control-plane/internal/auth/auth.go), with the POST /login handler     *)
(* that uses them (internal/api/pages.go).                                 *)
(*                                                                         *)
(* Time is counted in ticks.  A bucket counts tokens in units of 1/Refill, *)
(* so that a tick adds one unit and an attempt costs Refill of them.  A    *)
(* character of a name is one of three classes: "a" (a-z, 0-9), "A" (A-Z), *)
(* and anything else, written "_" or, in a slug, "-".                      *)
(***************************************************************************)
EXTENDS Integers, Sequences, FiniteSets

CONSTANTS
  IPs,          \* client addresses
  Names,        \* display names visitors type
  MaxNameLen,   \* longest slug (32)
  Burst,        \* tokens of a full bucket (5)
  Refill,       \* ticks in which one token comes back (12 s)
  CookieMaxAge, \* life of a cookie (30 days)
  MaxClock,     \* bound: ticks
  MaxAttempts   \* bound: attempts let through per address and incarnation

ASSUME GateAssumption ==
  /\ {MaxNameLen, Burst, Refill} \subseteq Nat \ {0}
  /\ {CookieMaxAge, MaxClock, MaxAttempts} \subseteq Nat
  /\ \A n \in Names : n \in Seq({"a", "A", "_"})

VARIABLES
  clock,        \* time.Now()
  secretFile,   \* the secret in cookie_secret_file; 0: missing or too short
  secret,       \* g.cookieSecret; 0: there is no Gate yet
  secretsMade,  \* secrets drawn so far: a new one is different from them all
  rlTokens,     \* g.rlTokens
  cookies,      \* cookies visitors hold
  allowedAt,    \* history: when Allow said yes, by address
  secretLost    \* history: a good secret file could not be read

gateVars == <<clock, secretFile, secret, secretsMade, rlTokens, cookies, allowedAt, secretLost>>

Full == Burst * Refill

(* An address that is not in g.rlTokens yet behaves as one with a full     *)
(* bucket: Allow inserts it with 5 tokens.                                 *)
EmptyMap == [ip \in IPs |-> [tokens |-> Full, last |-> clock]]

GateInit ==
  /\ clock = 0
  /\ secretFile = 0 /\ secret = 0 /\ secretsMade = 0
  /\ rlTokens = EmptyMap
  /\ cookies = {}
  /\ allowedAt = [ip \in IPs |-> <<>>]
  /\ secretLost = FALSE

-----------------------------------------------------------------------------
(* strings.Trim(s, "-") for a slug without leading or doubled dashes.      *)
TrimDash(s) == IF s # <<>> /\ s[Len(s)] = "-" THEN SubSeq(s, 1, Len(s) - 1) ELSE s

(* Lower case, and one dash for each run of anything else; a leading run   *)
(* leaves nothing.                                                         *)
Dashed(name) ==
  LET slug[n \in 0..Len(name)] ==
        IF n = 0 THEN <<>>
        ELSE LET s == slug[n - 1]
             IN  IF name[n] \in {"a", "A"} THEN Append(s, "a")
                 ELSE IF s = <<>> \/ s[Len(s)] = "-" THEN s
                 ELSE Append(s, "-")
  IN  slug[Len(name)]

Slugify(name) ==
  LET s == TrimDash(Dashed(name))
  IN  IF Len(s) > MaxNameLen THEN TrimDash(SubSeq(s, 1, MaxNameLen)) ELSE s

(* What is in the bucket now. *)
Tokens(ip) ==
  LET st == rlTokens[ip]
      grown == st.tokens + (clock - st.last)
  IN  IF grown < Full THEN grown ELSE Full

(* Allow(ip), which takes a token when it says yes; a refused attempt      *)
(* moves st.last all the same.                                             *)
Allows(ip) == Tokens(ip) >= Refill

(* An Allow that takes a token also when it refuses. *)
AllowTakesAlways(ip) ==
  /\ rlTokens' = [rlTokens EXCEPT ![ip] = [tokens |-> Tokens(ip) - Refill, last |-> clock]]
  /\ allowedAt' = IF Allows(ip) THEN [allowedAt EXCEPT ![ip] = Append(@, clock)] ELSE allowedAt

(* An Allow that leaves st.last where it was. *)
AllowKeepsLast(ip) ==
  /\ rlTokens' = [rlTokens EXCEPT ![ip].tokens = IF Allows(ip) THEN Tokens(ip) - Refill ELSE Tokens(ip)]
  /\ allowedAt' = IF Allows(ip) THEN [allowedAt EXCEPT ![ip] = Append(@, clock)] ELSE allowedAt

Allow(ip) ==
  /\ rlTokens' = [rlTokens EXCEPT ![ip] =
                    [tokens |-> IF Allows(ip) THEN Tokens(ip) - Refill ELSE Tokens(ip),
                     last |-> clock]]
  /\ allowedAt' = IF Allows(ip) THEN [allowedAt EXCEPT ![ip] = Append(@, clock)] ELSE allowedAt

Cookie(owner) == [owner |-> owner, exp |-> clock + CookieMaxAge, key |-> secret]

Verify(c) ==
  /\ c.key = secret
  /\ clock <= c.exp
  /\ c.owner # <<>> /\ Slugify(c.owner) = c.owner

(* POST /login with the right or a wrong password: the limit is applied    *)
(* first, and a cookie is set only at the end of the handler.              *)
SubmitLogin(ip, name, right) ==
  /\ secret # 0 /\ (Allows(ip) => Len(allowedAt[ip]) < MaxAttempts)
  /\ Allow(ip)
  /\ cookies' = IF Allows(ip) /\ Slugify(name) # <<>> /\ right
                  THEN cookies \cup {Cookie(Slugify(name))} ELSE cookies
  /\ UNCHANGED <<clock, secretFile, secret, secretsMade, secretLost>>

(* POST /logout: the browser drops the cookie; the server keeps no record. *)
Logout(c) ==
  /\ secret # 0
  /\ cookies' = cookies \ {c}
  /\ UNCHANGED <<clock, secretFile, secret, secretsMade, rlTokens, allowedAt, secretLost>>

Tick ==
  /\ clock < MaxClock
  /\ clock' = clock + 1
  /\ UNCHANGED <<secretFile, secret, secretsMade, rlTokens, cookies, allowedAt, secretLost>>

-----------------------------------------------------------------------------
(* A Gate with a secret of its own: the map of buckets starts empty.       *)
NewGate(s) ==
  /\ secret' = s
  /\ rlTokens' = EmptyMap
  /\ allowedAt' = [ip \in IPs |-> <<>>]
  /\ UNCHANGED <<clock, cookies>>

(* loadOrCreateSecret finds a secret in the file (one that does not decode *)
(* makes it, and the start, fail) ...                                      *)
LoadSecret ==
  /\ secretFile # 0
  /\ NewGate(secretFile)
  /\ UNCHANGED <<secretFile, secretsMade, secretLost>>

(* ... or none, or cannot read it: it draws one, and WriteFile begins by   *)
(* truncating the file.                                                    *)
CreateSecret(readable) ==
  /\ readable => secretFile = 0
  /\ secretsMade' = secretsMade + 1
  /\ secretLost' = (secretLost \/ secretFile # 0)
  /\ secretFile' = 0
  /\ UNCHANGED <<clock, secret, rlTokens, cookies, allowedAt>>

(* A Gate that keeps its new secret to itself. *)
WriteSecretNot ==
  /\ NewGate(secretsMade)
  /\ UNCHANGED <<secretFile, secretsMade, secretLost>>

(* WriteFile is done; the Gate uses what was written. *)
WriteSecret ==
  /\ secretFile' = secretsMade
  /\ NewGate(secretsMade)
  /\ UNCHANGED <<secretsMade, secretLost>>

(* The process ends and the Gate with it. *)
GateGone ==
  /\ secret' = 0
  /\ rlTokens' = EmptyMap
  /\ allowedAt' = [ip \in IPs |-> <<>>]
  /\ UNCHANGED <<clock, secretFile, secretsMade, cookies, secretLost>>

-----------------------------------------------------------------------------
(* Types of the gate's state. *)
GateTypeOK ==
  /\ clock \in 0..MaxClock
  /\ secretsMade \in Nat /\ {secretFile, secret} \subseteq 0..secretsMade
  /\ rlTokens \in [IPs -> [tokens: 0..Full, last: 0..MaxClock]]
  /\ allowedAt \in [IPs -> Seq(0..MaxClock)]
  /\ secretLost \in BOOLEAN
  /\ \A c \in cookies : c.exp \in Nat /\ c.key \in 1..secretsMade

(* "5 attempts per 60 s" as the bucket really enforces it: in any stretch  *)
(* of time an address gets at most a full bucket of attempts plus one for  *)
(* every Refill ticks of the stretch.                                      *)
LoginRateBounded ==
  \A ip \in IPs : \A i \in 1..Len(allowedAt[ip]) : \A j \in i..Len(allowedAt[ip]) :
    (j - i + 1) * Refill <= Full + (allowedAt[ip][j] - allowedAt[ip][i])

(* A visitor who logged in stays logged in until the cookie runs out: what *)
(* SubmitLogin issued, whatever the name, Verify accepts, also after the   *)
(* daemon crashed and started again (the secret is kept in a file so that  *)
(* it survives).  A secret file that exists and cannot be read is the      *)
(* exception: it is replaced.                                              *)
IssuedCookiesWork ==
  secret # 0 /\ ~secretLost => \A c \in cookies : clock <= c.exp => Verify(c)
=============================================================================
