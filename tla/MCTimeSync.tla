----------------------------- MODULE MCTimeSync -----------------------------
(* Finite instances of TimeSync: the capacities a caller may choose.         *)
EXTENDS TimeSync

Small == {[imu |-> 3, cp |-> 2], [imu |-> 2, cp |-> 3]}
=============================================================================
