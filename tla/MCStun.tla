------------------------------- MODULE MCStun -------------------------------
(* Ports, callers and the missing address are model values.                *)
EXTENDS Stun
=============================================================================
