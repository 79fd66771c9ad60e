------------------------------ MODULE MCJobCloud ------------------------------
(* The cloud job under either bucket role, with the fleet, the batch and the *)
(* processes of MCJobTick.                                                   *)
EXTENDS MCJobTick, JobRoles
=============================================================================
