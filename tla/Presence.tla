------------------------------ MODULE Presence ------------------------------
(***************************************************************************)
(* What the transport promises, without the handler map that TcpServer     *)
(* keeps: a client holds at most one name, a name has at most one holder,  *)
(* and a payload is handed, once, to the client that held the addressed    *)
(* name when the send was made, together with the name the sender held.    *)
(***************************************************************************)
EXTENDS Sequences, Maps

CONSTANTS Names, Clients, Callers, Payloads, NoName

VARIABLES
  session,   \* the name each client holds, or NoName
  pending,   \* the sends that have found their receiver, per caller,
             \* with the name that each was addressed to
  received   \* what each client was handed, in order

vars == <<session, pending, received>>

Init ==
  /\ session = [c \in Clients |-> NoName]
  /\ pending = EmptyMap
  /\ received = [c \in Clients |-> <<>>]

SignOn(c, u) ==
  /\ session[c] = NoName
  /\ \A d \in Clients : session[d] # u
  /\ session' = [session EXCEPT ![c] = u]
  /\ UNCHANGED <<pending, received>>

SignOff(c) ==
  /\ session[c] # NoName
  /\ session' = [session EXCEPT ![c] = NoName]
  /\ UNCHANGED <<pending, received>>

(* Only the client that holds the addressed name can be the receiver.      *)
Send(k, c, d, to, p) ==
  /\ k \notin DOMAIN pending
  /\ session[c] # NoName
  /\ session[d] = to
  /\ pending' = Emplace(pending, k,
                  [to |-> to, handler |-> d, from |-> session[c], payload |-> p])
  /\ UNCHANGED <<session, received>>

HandOver(k) ==
  /\ k \in DOMAIN pending
  /\ received' = [received EXCEPT ![pending[k].handler] =
                    Append(@, [from |-> pending[k].from, payload |-> pending[k].payload])]
  /\ pending' = Erase(pending, k)
  /\ UNCHANGED session

Next ==
  \/ \E c \in Clients, u \in Names : SignOn(c, u)
  \/ \E c \in Clients : SignOff(c)
  \/ \E k \in Callers, c, d \in Clients, to \in Names, p \in Payloads :
       Send(k, c, d, to, p)
  \/ \E k \in Callers : HandOver(k)

Spec == Init /\ [][Next]_vars

=============================================================================
