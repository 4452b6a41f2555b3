--------------------------- MODULE TcpServerProofs --------------------------
(***************************************************************************)
(* TypeOK and RegistryAgrees hold in every reachable state, whatever the   *)
(* names, clients and callers, and with them every step of the transport   *)
(* is a step of Presence.  Neither half is inductive alone: a send gives   *)
(* the sender's username_ to the receiver, and that this is a name and not *)
(* the empty string follows from the registry.                             *)
(***************************************************************************)
EXTENDS TcpServer, TLAPS

USE NoNameAssumption

(* Emplacing a key that is not there adds it with its value and keeps the  *)
(* rest, as std::unordered_map::emplace does.                              *)
LEMMA EmplaceNew ==
  ASSUME NEW map, NEW k, NEW v, NEW S,
         map \in [DOMAIN map -> S], k \notin DOMAIN map, v \in S
  PROVE  /\ DOMAIN Emplace(map, k, v) = DOMAIN map \cup {k}
         /\ Emplace(map, k, v) \in [DOMAIN map \cup {k} -> S]
         /\ Emplace(map, k, v)[k] = v
         /\ \A x \in DOMAIN map : Emplace(map, k, v)[x] = map[x]
  BY DEF Emplace

(* Erasing a key removes it and keeps the rest, as erase does.             *)
LEMMA EraseKey ==
  ASSUME NEW map, NEW k, NEW S, map \in [DOMAIN map -> S]
  PROVE  /\ DOMAIN Erase(map, k) = DOMAIN map \ {k}
         /\ Erase(map, k) \in [DOMAIN map \ {k} -> S]
         /\ \A x \in DOMAIN map \ {k} : Erase(map, k)[x] = map[x]
  BY DEF Erase, Restrict

IInv == TypeOK /\ RegistryAgrees

(* IInv holds at the start.                                                *)
LEMMA InitIInv == Init => IInv
<1> SUFFICES ASSUME Init PROVE IInv
  OBVIOUS
<1>1. <<>> \in Seq(Call)
  OBVIOUS
<1>2. TypeOK
  BY <1>1 DEF Init, TypeOK, EmptyMap
<1>3. RegistryAgrees
  BY DEF Init, RegistryAgrees, EmptyMap
<1> QED
  BY <1>2, <1>3 DEF IInv

(* A successful connect adds one entry, for a name that was free and a     *)
(* client that had no name.                                                *)
LEMMA ConnectIInv ==
  ASSUME IInv, NEW c \in Clients, NEW u \in Names, Connect(c, u)
  PROVE  IInv'
<1>1. u \notin DOMAIN handlers /\ ~connected[c]
  BY DEF Connect, CanConnect, IsOnline
<1>2. /\ DOMAIN handlers' = DOMAIN handlers \cup {u}
      /\ handlers' \in [DOMAIN handlers \cup {u} -> Clients]
      /\ handlers'[u] = c
      /\ \A x \in DOMAIN handlers : handlers'[x] = handlers[x]
  <2>1. handlers \in [DOMAIN handlers -> Clients] /\ handlers' = Emplace(handlers, u, c)
    BY DEF Connect, IInv, TypeOK
  <2> QED
    BY <1>1, <2>1 DEF Emplace
<1>3. /\ connected' = [connected EXCEPT ![c] = TRUE]
      /\ username' = [username EXCEPT ![c] = u]
      /\ UNCHANGED <<sending, inbox>>
  BY DEF Connect
<1>4. TypeOK'
  BY <1>2, <1>3 DEF IInv, TypeOK
<1>5. RegistryAgrees'
  <2>1. ASSUME NEW d \in Clients
        PROVE  /\ connected'[d] => /\ username'[d] \in DOMAIN handlers'
                                   /\ handlers'[username'[d]] = d
               /\ ~connected'[d] => username'[d] = NoName
    BY <1>1, <1>2, <1>3 DEF IInv, TypeOK, RegistryAgrees
  <2>2. ASSUME NEW n \in DOMAIN handlers'
        PROVE  connected'[handlers'[n]] /\ username'[handlers'[n]] = n
    BY <1>1, <1>2, <1>3 DEF IInv, TypeOK, RegistryAgrees
  <2> QED
    BY <2>1, <2>2 DEF RegistryAgrees
<1> QED
  BY <1>4, <1>5 DEF IInv

(* A disconnect erases the entry of the client's own name: by the registry *)
(* it is this client's, so no other client loses its entry.                *)
LEMMA DisconnectIInv ==
  ASSUME IInv, NEW c \in Clients, Disconnect(c)
  PROVE  IInv'
<1>1. connected[c] /\ handlers' = Erase(handlers, username[c])
  BY DEF Disconnect
<1>2. /\ DOMAIN handlers' = DOMAIN handlers \ {username[c]}
      /\ handlers' \in [DOMAIN handlers \ {username[c]} -> Clients]
      /\ \A x \in DOMAIN handlers \ {username[c]} : handlers'[x] = handlers[x]
  <2>1. handlers \in [DOMAIN handlers -> Clients]
    BY DEF IInv, TypeOK
  <2> QED
    BY <1>1, <2>1, EraseKey
<1>3. /\ connected' = [connected EXCEPT ![c] = FALSE]
      /\ username' = [username EXCEPT ![c] = NoName]
      /\ UNCHANGED <<sending, inbox>>
  BY DEF Disconnect
<1>4. TypeOK'
  BY <1>2, <1>3 DEF IInv, TypeOK
<1>5. RegistryAgrees'
  <2>1. ASSUME NEW d \in Clients
        PROVE  /\ connected'[d] => /\ username'[d] \in DOMAIN handlers'
                                   /\ handlers'[username'[d]] = d
               /\ ~connected'[d] => username'[d] = NoName
    BY <1>1, <1>2, <1>3 DEF IInv, TypeOK, RegistryAgrees
  <2>2. ASSUME NEW n \in DOMAIN handlers'
        PROVE  connected'[handlers'[n]] /\ username'[handlers'[n]] = n
    BY <1>1, <1>2, <1>3 DEF IInv, TypeOK, RegistryAgrees
  <2> QED
    BY <2>1, <2>2 DEF RegistryAgrees
<1> QED
  BY <1>4, <1>5 DEF IInv

(* A lookup keeps IInv.                                                    *)
LEMMA SendLookupIInv ==
  ASSUME IInv, NEW k \in Callers, NEW c \in Clients, NEW to \in Names,
         NEW p \in Payloads, SendLookup(k, c, to, p)
  PROVE  IInv'
<1> DEFINE frame == [to |-> to, handler |-> handlers[to], from |-> username[c], payload |-> p]
<1>1. frame \in PendingCall
  BY DEF SendLookup, Reaches, IsOnline, RegistryAgrees, TypeOK, IInv, PendingCall
<1>2. k \notin DOMAIN sending /\ sending' = Emplace(sending, k, frame)
  BY DEF SendLookup
<1> HIDE DEF frame
<1>3. /\ DOMAIN sending' = DOMAIN sending \cup {k}
      /\ sending' \in [DOMAIN sending \cup {k} -> PendingCall]
  BY <1>1, <1>2, EmplaceNew DEF IInv, TypeOK
<1>4. UNCHANGED <<handlers, connected, username, inbox>>
  BY DEF SendLookup
<1> QED
  BY <1>3, <1>4 DEF IInv, TypeOK, RegistryAgrees

(* A call of a handler keeps IInv.                                         *)
LEMMA DeliverIInv ==
  ASSUME IInv, NEW k \in Callers, Deliver(k)
  PROVE  IInv'
<1> DEFINE call == [from |-> sending[k].from, payload |-> sending[k].payload]
<1>1. sending[k] \in PendingCall
  BY DEF Deliver, IInv, TypeOK
<1>2. call \in Call /\ sending[k].handler \in Clients
  BY <1>1 DEF PendingCall, Call
<1>3. inbox' = [inbox EXCEPT ![sending[k].handler] = Append(@, call)]
  BY DEF Deliver
<1> HIDE DEF call
<1>4. inbox' \in [Clients -> Seq(Call)]
  BY <1>2, <1>3 DEF IInv, TypeOK
<1>5. /\ DOMAIN sending' = DOMAIN sending \ {k}
      /\ sending' \in [DOMAIN sending \ {k} -> PendingCall]
  BY EraseKey DEF Deliver, IInv, TypeOK
<1>6. UNCHANGED <<handlers, connected, username>>
  BY DEF Deliver
<1> QED
  BY <1>4, <1>5, <1>6 DEF IInv, TypeOK, RegistryAgrees

(* Every step keeps IInv.                                                  *)
LEMMA NextIInv == IInv /\ [Next]_vars => IInv'
<1> SUFFICES ASSUME IInv, [Next]_vars PROVE IInv'
  OBVIOUS
<1>1. CASE UNCHANGED vars
  BY <1>1 DEF vars, IInv, TypeOK, RegistryAgrees
<1> QED
  BY <1>1, ConnectIInv, DisconnectIInv, SendLookupIInv, DeliverIInv DEF Next

(* The map of handlers and the clients' flags, names and calls keep their  *)
(* types; in particular every call a handler gets names a real sender.     *)
THEOREM TypeCorrect == Spec => []TypeOK
<1>1. IInv => TypeOK
  BY DEF IInv
<1> QED
  BY <1>1, InitIInv, NextIInv, PTL DEF Spec

(* The server's map and the clients' flags always agree, for any number of *)
(* clients that connect under any names.                                   *)
THEOREM RegistryCorrect == Spec => []RegistryAgrees
<1>1. IInv => RegistryAgrees
  BY DEF IInv
<1> QED
  BY <1>1, InitIInv, NextIInv, PTL DEF Spec

(* The transport implements Presence: a connect is a SignOn because the    *)
(* registry shows that a name without a handler is a name nobody holds,    *)
(* and a lookup for a name is a Send to that name because the handler that *)
(* the map has for a name belongs to the client that holds it.             *)
THEOREM PresenceCorrect == Spec => ImplementsPresence
<1>1. Init => P!Init
  BY DEF Init, P!Init, EmptyMap, P!EmptyMap
<1>2. ASSUME IInv, [Next]_vars PROVE [P!Next]_(P!vars)
  <2>1. ASSUME NEW c \in Clients, NEW u \in Names, Connect(c, u) PROVE P!SignOn(c, u)
    <3>1. \A d \in Clients : username[d] # u
      BY <1>2, <2>1 DEF Connect, CanConnect, IsOnline, IInv, RegistryAgrees
    <3> QED
      BY <1>2, <2>1, <3>1 DEF Connect, CanConnect, P!SignOn, IInv, RegistryAgrees
  <2>2. ASSUME NEW c \in Clients, Disconnect(c) PROVE P!SignOff(c)
    <3>1. username[c] # NoName
      BY <1>2, <2>2 DEF Disconnect, IInv, TypeOK, RegistryAgrees
    <3> QED
      BY <2>2, <3>1 DEF Disconnect, P!SignOff
  <2>3. ASSUME NEW k \in Callers, NEW c \in Clients, NEW to \in Names,
               NEW p \in Payloads, SendLookup(k, c, to, p)
        PROVE  P!Send(k, c, handlers[to], to, p)
    <3>1. username[c] # NoName /\ username[handlers[to]] = to
      BY <1>2, <2>3 DEF SendLookup, Reaches, IsOnline, IInv, TypeOK, RegistryAgrees
    <3> QED
      BY <2>3, <3>1 DEF SendLookup, P!Send, Emplace, P!Emplace
  <2>4. ASSUME NEW k \in Callers, Deliver(k) PROVE P!HandOver(k)
    BY <2>4 DEF Deliver, P!HandOver, Erase, P!Erase, Restrict, P!Restrict
  <2>5. CASE UNCHANGED vars
    BY <2>5 DEF vars, P!vars
  <2>6. \A to \in DOMAIN handlers : handlers[to] \in Clients
    BY <1>2 DEF IInv, TypeOK
  <2>7. CASE \E k \in Callers, c \in Clients, to \in Names, p \in Payloads :
               Room /\ SendLookup(k, c, to, p)
    BY <2>3, <2>6, <2>7 DEF SendLookup, Reaches, IsOnline, P!Next
  <2> QED
    BY <1>2, <2>1, <2>2, <2>4, <2>5, <2>7 DEF Next, P!Next
<1> QED
  BY <1>1, <1>2, InitIInv, NextIInv, PTL DEF Spec, ImplementsPresence, P!Spec

=============================================================================
