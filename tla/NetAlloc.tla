------------------------------ MODULE NetAlloc ------------------------------
(***************************************************************************)
(* The address allocator of the control plane                              *)
(* (control-plane/internal/netalloc/netalloc.go).                          *)
(*                                                                         *)
(* Addresses are offsets from the network address of the configured        *)
(* prefix: 0 is the network address, 1 the bridge (host), Size - 1 the     *)
(* broadcast address.  Every method holds a.mu for its whole body, so each *)
(* call is one action.  What callers hold is the set of leases, the tuples *)
(* that Alloc returned and that were not given back yet.                   *)
(***************************************************************************)
EXTENDS Integers, FiniteSets

CONSTANTS
  Size,        \* number of addresses of a.base (256 for a /24)
  AddrTop,     \* offset at which netip.Addr.Next() leaves the IPv4 space
  LoopLimit,   \* iterations of the scan in Alloc (1 << 16)
  MacLimit,    \* distinct (b[2], b[3]) pairs (2^16)
  CidLimit     \* cidIdx is a uint32 (2^32)

(***************************************************************************)
(* The prefix fits in the address space; it is a /16 or longer, so that    *)
(* the two low octets tell its addresses apart; the CID counter, which     *)
(* starts at 99, cannot wrap within one prefix.                            *)
(***************************************************************************)
ASSUME SizesAssumption ==
  /\ Size \in Nat \ {0}
  /\ AddrTop \in Nat /\ Size <= AddrTop /\ 2 <= AddrTop
  /\ LoopLimit \in Nat \ {0}
  /\ MacLimit \in Nat /\ Size <= MacLimit
  /\ CidLimit \in Nat /\ Size + 100 <= CidLimit

VARIABLES
  next,        \* a.next, the next candidate
  in_use,      \* a.in_use
  tapIdx,      \* a.tapIdx
  cidIdx,      \* a.cidIdx
  leases       \* tuples handed out by Alloc and not released

vars == <<next, in_use, tapIdx, cidIdx, leases>>

host == 1

(* a.base.Contains(c) *)
Contains(c) == c < Size

(* A MAC that lacks the last bit of the address. *)
MacTruncated(c) == c \div 2

(* netip.Addr.Next(): past the last address the result is the invalid      *)
(* address, whose successors are outside every prefix as well.             *)
NextAddr(c) == IF c >= AddrTop THEN AddrTop ELSE c + 1

(* AA:BB:CC:00:b[2]:b[3] *)
Mac(c) == c % MacLimit

Lease == [ip: Nat, mac: Nat, tap: Nat, cid: Nat]

-----------------------------------------------------------------------------
(* New: the first usable address is the one after the bridge. *)
Init ==
  /\ next = host + 1
  /\ in_use = {}
  /\ tapIdx = 0
  /\ cidIdx = 99
  /\ leases = {}

(* The loop's two `continue` cases: an address of the prefix that is the   *)
(* bridge's or already in use.                                             *)
Skipped(c) == Contains(c) /\ (c = host \/ c \in in_use)

(* The scan stops at c: everything from a.next up to c was skipped.        *)
ScanStopsAt(c) ==
  /\ c - next < LoopLimit
  /\ ~Skipped(c)
  /\ \A d \in next..(c - 1) : Skipped(d)

(* Alloc returns a tuple.                                                  *)
AllocLease ==
  \E c \in next..AddrTop :
    /\ ScanStopsAt(c)
    /\ Contains(c)
    /\ next' = NextAddr(c)
    /\ in_use' = in_use \cup {c}
    /\ tapIdx' = tapIdx + 1
    /\ cidIdx' = (cidIdx + 1) % CidLimit
    /\ leases' = leases \cup
         {[ip |-> c, mac |-> Mac(c), tap |-> tapIdx', cid |-> cidIdx']}

(* Alloc returns "no free IPs"; the cursor moves all the same.  The third  *)
(* outcome, "alloc loop exhausted", needs LoopLimit skipped addresses in a *)
(* row: DaemonProofs!ScanIsImmediate shows that no address is skipped.     *)
AllocNoFreeIPs ==
  \E c \in next..AddrTop :
    /\ ScanStopsAt(c)
    /\ ~Contains(c)
    /\ next' = NextAddr(c)
    /\ UNCHANGED <<in_use, tapIdx, cidIdx, leases>>

(* Release(ip), called by the holder of the lease. *)
Release(l) ==
  /\ leases' = leases \ {l}
  /\ in_use' = in_use \ {l.ip}
  /\ UNCHANGED <<next, tapIdx, cidIdx>>

Next ==
  \/ AllocLease
  \/ AllocNoFreeIPs
  \/ \E l \in leases : Release(l)

Spec == Init /\ [][Next]_vars

-----------------------------------------------------------------------------
(* Types of the allocator's fields. *)
TypeOK ==
  /\ next \in 0..AddrTop
  /\ in_use \subseteq 0..(Size - 1)
  /\ tapIdx \in Nat
  /\ cidIdx \in Nat
  /\ leases \subseteq Lease

(* Alloc "returns a unique (VM IP, MAC, TAP name, guest vsock CID) tuple": *)
(* two sessions that are alive together share none of the four.            *)
LeasesDistinct ==
  \A k, l \in leases :
    k # l => k.ip # l.ip /\ k.mac # l.mac /\ k.tap # l.tap /\ k.cid # l.cid

(* Neither the bridge's address nor the network address is ever held by a  *)
(* session, and the allocator's own book-keeping is exactly what sessions  *)
(* hold: no address is lost by an Alloc or a Release.                      *)
BooksMatchLeases ==
  /\ in_use = {l.ip : l \in leases}
  /\ {0, host} \cap in_use = {}

(* What the package comment promises: "when a session ends, its IP returns *)
(* to the pool", and Alloc reports an error only "if the pool is           *)
(* exhausted".                                                             *)
ReleasedAddressesReusable ==
  ~Contains(next) => in_use = (host + 1)..(Size - 1)
=============================================================================
