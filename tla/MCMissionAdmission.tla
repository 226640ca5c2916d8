------------------------- MODULE MCMissionAdmission -------------------------
(* Requests of an instance of MissionAdmission for TLC: a Lead with nested     *)
(* specialists in both lanes.                                                 *)
EXTENDS MissionAdmission

CONSTANTS lead, a, b, c, r0, r1, r2

Req(id, kind, recipient, writer, budget, par) ==
  [id |-> id, kind |-> kind, recipient |-> recipient, writer |-> writer,
   budget |-> budget, parent |-> par]

(* A Lead; a writer with budget for one child; that child, or the same key    *)
(* asking to be its own parent; and a second writer on the child's instance.  *)
DelegationRequests ==
  {Req(lead, "lead", r0, FALSE, 0, None),
   Req(a, "specialist", r1, TRUE, 1, None),
   Req(b, "specialist", r2, FALSE, 0, a),
   Req(b, "specialist", r2, FALSE, 0, b),
   Req(c, "specialist", r2, TRUE, 0, None)}
=============================================================================
