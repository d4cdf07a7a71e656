------------------------------ MODULE MCNoise ------------------------------
(* One handshake shows the disagreement; a second is left for a restart.   *)
EXTENDS Noise
=============================================================================
