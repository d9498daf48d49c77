------------------------------ MODULE MCColaIO ------------------------------
(* Small instances of ColaIO: two processes, a SLEEP device that never       *)
(* disconnects and one that may, and a STDOUT device that never does.        *)
EXTENDS ColaIO, TLC

CONSTANTS p1, p2, firme, fragil, salida

MCPedidos == p1 :> 2 @@ p2 :> 1
MCClase == firme :> "SLEEP" @@ fragil :> "SLEEP" @@ salida :> "STDOUT"
MCClaseUna == firme :> "SLEEP" @@ fragil :> "SLEEP"
=============================================================================
