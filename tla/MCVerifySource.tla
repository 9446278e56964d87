--------------------------- MODULE MCVerifySource ---------------------------
(* The instance of VerifySource for TLC: the bind timer is three and the     *)
(* idle timer one unit of time, so that a browse may outlast the first while *)
(* messages keep pushing back the second.                                    *)
EXTENDS VerifySource

BindUnits == 3
IdleUnits == 1
=============================================================================
