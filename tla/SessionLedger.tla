--------------------------- MODULE SessionLedger ---------------------------
(***************************************************************************)
(* What session.Host promises about every session, whatever ends it: it    *)
(* enters the live map once, leaves it once, and after that its departure  *)
(* is reported to the onGone callback exactly once.                        *)
(***************************************************************************)
CONSTANT VMs

VARIABLE status

Statuses == {"absent", "live", "left", "reported"}

Init == status = [v \in VMs |-> "absent"]

Change(v, from, to) ==
  /\ status[v] = from
  /\ status' = [status EXCEPT ![v] = to]

Enter(v)  == Change(v, "absent", "live")
Leave(v)  == Change(v, "live", "left")
Report(v) == Change(v, "left", "reported")

Next == \E v \in VMs : Enter(v) \/ Leave(v) \/ Report(v)

Safety == Init /\ [][Next]_status

(* A departure is always reported in the end. *)
Spec == Safety /\ \A v \in VMs : WF_status(Report(v))
=============================================================================
