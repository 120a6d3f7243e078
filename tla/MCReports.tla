----------------------------- MODULE MCReports -----------------------------
(* Values for Reports: an unset limit paces by two ticks. *)
EXTENDS Reports
MCIntervalOf == [unset |-> 2, unlimited |-> 0]
=============================================================================
