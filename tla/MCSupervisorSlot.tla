-------------------------- MODULE MCSupervisorSlot --------------------------
(* Instances of SupervisorSlot: one slot, two leases of one ticket, so that *)
(* the pane still shows the work of the first when the second arrives.     *)
EXTENDS SupervisorSlot
=============================================================================
