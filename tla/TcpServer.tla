----------------------------- MODULE TcpServer ------------------------------
(***************************************************************************)
(* The in-process transport: TcpServer (the map of online names to receive *)
(* handlers) and the TcpClient objects that connect to it.                 *)
(*                                                                         *)
(* sendTo copies the receiver's handler while it holds the mutex and calls *)
(* it after the mutex is released, so a send is two steps, SendLookup and  *)
(* Deliver; a caller is one activation of sendTo that is between the two.  *)
(* A handler is the lambda of TcpClient::connect, which captures its       *)
(* client, so a handler is represented by that client.                     *)
(***************************************************************************)
EXTENDS Naturals, Sequences, FiniteSets, Maps

CONSTANTS
  Names,      \* user names
  Clients,    \* TcpClient objects
  Callers,    \* activations of sendTo
  Payloads,   \* serialized messages
  NoName,     \* the empty string of username_.clear()
  MaxInbox    \* bound: calls of one client's handler

ASSUME NoNameAssumption == NoName \notin Names
ASSUME MaxInboxAssumption == MaxInbox \in Nat

VARIABLES
  handlers,   \* handlers_: online name -> client whose handler is registered
  connected,  \* connected_ of each client
  username,   \* username_ of each client
  sending,    \* caller -> the arguments of sendTo and the handler it copied
  inbox       \* what each client's handler was called with, in order

vars == <<handlers, connected, username, sending, inbox>>

Call == [from : Names, payload : Payloads]
PendingCall == [to : Names, handler : Clients, from : Names, payload : Payloads]

TypeOK ==
  /\ DOMAIN handlers \subseteq Names
  /\ handlers \in [DOMAIN handlers -> Clients]
  /\ connected \in [Clients -> BOOLEAN]
  /\ username \in [Clients -> Names \cup {NoName}]
  /\ DOMAIN sending \subseteq Callers
  /\ sending \in [DOMAIN sending -> PendingCall]
  /\ inbox \in [Clients -> Seq(Call)]

Init ==
  /\ handlers = EmptyMap
  /\ connected = [c \in Clients |-> FALSE]
  /\ username = [c \in Clients |-> NoName]
  /\ sending = EmptyMap
  /\ inbox = [c \in Clients |-> <<>>]

-----------------------------------------------------------------------------

IsOnline(u) == u \in DOMAIN handlers

(* Variant: a connect that forgets the connected_ check. *)
CanConnectTwice(c, u) == ~IsOnline(u)

(* Variant: a connect that does not look at the result of emplace. *)
CanAlwaysConnect(c, u) == ~connected[c]

(* TcpClient::connect succeeds for a client that is not connected and a    *)
(* name that nobody has; otherwise it returns false and changes nothing.   *)
CanConnect(c, u) == ~connected[c] /\ ~IsOnline(u)

(* Variant: a connect that takes emplace for an assignment. *)
ConnectReplacing(c, u) ==
  /\ ~connected[c]
  /\ handlers' = Assign(handlers, u, c)
  /\ connected' = [connected EXCEPT ![c] = TRUE]
  /\ username' = [username EXCEPT ![c] = u]
  /\ UNCHANGED <<sending, inbox>>

Connect(c, u) ==
  /\ CanConnect(c, u)
  /\ handlers' = Emplace(handlers, u, c)
  /\ connected' = [connected EXCEPT ![c] = TRUE]
  /\ username' = [username EXCEPT ![c] = u]
  /\ UNCHANGED <<sending, inbox>>

Disconnect(c) ==
  /\ connected[c]
  /\ handlers' = Erase(handlers, username[c])
  /\ connected' = [connected EXCEPT ![c] = FALSE]
  /\ username' = [username EXCEPT ![c] = NoName]
  /\ UNCHANGED <<sending, inbox>>

(* Variant: a send that forgets the connected_ check. *)
ReachesUnguarded(c, to) == IsOnline(to)

(* TcpClient::send returns false, without a call of any handler, unless    *)
(* this holds.                                                             *)
Reaches(c, to) == connected[c] /\ IsOnline(to)

(* Variant: a sendTo that searches handlers_ for the sender's name. *)
SendLookupOfSender(k, c, to, p) ==
  /\ k \notin DOMAIN sending
  /\ Reaches(c, to)
  /\ sending' = Emplace(sending, k, [to |-> to, handler |-> handlers[username[c]],
                                    from |-> username[c], payload |-> p])
  /\ UNCHANGED <<handlers, connected, username, inbox>>

SendLookup(k, c, to, p) ==
  /\ k \notin DOMAIN sending
  /\ Reaches(c, to)
  /\ sending' = Emplace(sending, k, [to |-> to, handler |-> handlers[to],
                                    from |-> username[c], payload |-> p])
  /\ UNCHANGED <<handlers, connected, username, inbox>>

Deliver(k) ==
  /\ k \in DOMAIN sending
  /\ inbox' = [inbox EXCEPT ![sending[k].handler] =
                 Append(@, [from |-> sending[k].from, payload |-> sending[k].payload])]
  /\ sending' = Erase(sending, k)
  /\ UNCHANGED <<handlers, connected, username>>

Room == \A c \in Clients : Len(inbox[c]) + Cardinality(DOMAIN sending) < MaxInbox

Next ==
  \/ \E c \in Clients, u \in Names : Connect(c, u)
  \/ \E c \in Clients : Disconnect(c)
  \/ \E k \in Callers, c \in Clients, to \in Names, p \in Payloads :
       Room /\ SendLookup(k, c, to, p)
  \/ \E k \in Callers : Deliver(k)

Spec == Init /\ [][Next]_vars

-----------------------------------------------------------------------------

(* The server's map and the clients' own flags, which are written on       *)
(* different sides of the connect and disconnect calls, tell the same      *)
(* story: a client believes it is connected exactly when the map leads     *)
(* from its name to its handler, and a map entry belongs to a client that  *)
(* still holds that name.                                                  *)
RegistryAgrees ==
  /\ \A c \in Clients :
       /\ connected[c] => /\ username[c] \in DOMAIN handlers
                          /\ handlers[username[c]] = c
       /\ ~connected[c] => username[c] = NoName
  /\ \A u \in DOMAIN handlers :
       connected[handlers[u]] /\ username[handlers[u]] = u

(* Seen from the clients alone, the transport is the Presence service:     *)
(* names are exclusive, and a send to a name is handed to the client that  *)
(* held that very name when it was looked up, exactly once and under the   *)
(* sender's own name.                                                      *)
P == INSTANCE Presence WITH session <- username, pending <- sending, received <- inbox

ImplementsPresence == P!Spec

=============================================================================
