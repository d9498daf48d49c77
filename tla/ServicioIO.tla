----------------------------- MODULE ServicioIO -----------------------------
(***************************************************************************)
(* What the queues of IO promise: a request of a process is carried out by   *)
(* one device of its class, once, and the process goes on because that       *)
(* device has answered and for no other reason.  There are no queues, no     *)
(* tokens, no suspensions and no devices that come and go here.              *)
(***************************************************************************)
CONSTANTS Pids, Ios, Clase, Nada

VARIABLES
    pedido,    \* the class of the device each process waits for, or Nada
    trabaja    \* the process each device works for, or Nada

Pedir(p, clase) ==
    /\ pedido[p] = Nada
    /\ pedido' = [pedido EXCEPT ![p] = clase]
    /\ UNCHANGED trabaja

Comenzar(d, p) ==
    /\ trabaja[d] = Nada /\ pedido[p] = Clase[d]
    /\ \A e \in Ios : trabaja[e] # p
    /\ trabaja' = [trabaja EXCEPT ![d] = p]
    /\ UNCHANGED pedido

Responder(d) ==
    /\ trabaja[d] # Nada
    /\ pedido' = [pedido EXCEPT ![trabaja[d]] = Nada]
    /\ trabaja' = [trabaja EXCEPT ![d] = Nada]

Init == pedido = [p \in Pids |-> Nada] /\ trabaja = [d \in Ios |-> Nada]

Next ==
    \/ \E p \in Pids, d \in Ios : Pedir(p, Clase[d]) \/ Comenzar(d, p)
    \/ \E d \in Ios : Responder(d)

Spec == Init /\ [][Next]_<<pedido, trabaja>>

=============================================================================
