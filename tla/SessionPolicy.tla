--------------------------- MODULE SessionPolicy ---------------------------
(***************************************************************************)
(* The constant tables every other module leans on: which statuses exist,  *)
(* which of them hold a calendar slot, which are settled, and which        *)
(* actions each of them admits (policies/sessions.ts, conflicts.ts,        *)
(* booking.ts, sharedSession.ts).                                          *)
(*                                                                         *)
(* Permissions are not repeated here: a caller in the models is one whose  *)
(* roles let it ask, and a refusal for want of a permission changes no     *)
(* state.  What status a session must be in is a rule about state, and it  *)
(* is modelled exactly.                                                    *)
(***************************************************************************)

Status == {"REQUESTED", "REJECTED", "SCHEDULED", "RESCHEDULED",
           "IN_PROGRESS", "COMPLETED", "CANCELLED", "MISSED"}

(* Statuses that hold their slot: the list in the code and the predicate   *)
(* of both exclusion constraints.                                          *)
BLOCKING_STATUSES == {"SCHEDULED", "RESCHEDULED", "IN_PROGRESS"}

(* Statuses a series-wide edit leaves alone.                               *)
SETTLED_STATUSES == {"COMPLETED", "MISSED", "CANCELLED", "REJECTED"}

LiveActions == {"edit", "reschedule", "cancel", "complete", "mark_missed",
                "attendance", "delete"}

ACTIONS_BY_STATUS ==
  [REQUESTED   |-> {"approve", "reject", "edit", "cancel", "delete"},
   REJECTED    |-> {"restore", "delete"},
   SCHEDULED   |-> LiveActions,
   RESCHEDULED |-> LiveActions,
   IN_PROGRESS |-> {"edit", "complete", "attendance"},
   COMPLETED   |-> {"attendance", "correct_actuals"},
   CANCELLED   |-> {"restore", "delete"},
   MISSED      |-> {"attendance", "restore"}]

StatusAllows(status, action) == action \in ACTIONS_BY_STATUS[status]

(* Derived from the table, as the code derives it.                         *)
CANCELLABLE_STATUSES == {s \in Status : StatusAllows(s, "cancel")}

(* The school application knows four session statuses.                     *)
SharedStatus == {"SCHEDULED", "LIVE", "COMPLETED", "CANCELLED"}

ToSharedStatusVerbatim(status) == status
ToSharedStatus(status) ==
  CASE status = "IN_PROGRESS" -> "LIVE"
    [] status = "COMPLETED" -> "COMPLETED"
    [] status \in {"CANCELLED", "REJECTED", "MISSED"} -> "CANCELLED"
    [] OTHER -> "SCHEDULED"
=============================================================================
