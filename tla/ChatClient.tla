----------------------------- MODULE ChatClient -----------------------------
(***************************************************************************)
(* The messenger: ChatClient objects that share one ChatServer and its     *)
(* TcpServer inside one process, and the key files on disk.                *)
(*                                                                         *)
(* The mutexes make each operation of the two servers atomic, but a client *)
(* operation makes several of them, and sendTo calls the receiver's        *)
(* handler, which notifies observers that may call any client again before *)
(* the sender goes on.  A caller is one activation of sendMessage or       *)
(* sendGroupMessage, a thread or a call nested in a notification; its      *)
(* steps interleave freely with every other operation.                     *)
(*                                                                         *)
(* RSA keys are numbers: a pair n has the public key n and the private key *)
(* n, and a session key sealed with the public key n opens with the        *)
(* private key n only.  A password stands for its SHA-256 digest.  The     *)
(* text of a message, the session key it is encrypted with and the         *)
(* ciphertext are one payload number, fresh for every send.                *)
(***************************************************************************)
EXTENDS Naturals, Sequences, FiniteSets, Maps

CONSTANTS
  Names,         \* user names, numbered in their order
  Clients,       \* ChatClient objects
  NameOf,        \* username_ of each client; two clients may share a name
  Callers,       \* activations of the two send operations
  Passwords,
  GroupNames,
  Delimited,     \* the user and group names that hold a '|'
  NoName,        \* the empty user name
  NoChat,        \* the empty chat id
  NoMessage,     \* no message built yet
  Contacts,      \* inputs: names given to addContact and removeContact
  Invitations,   \* inputs: member lists given to createGroup
  SaveOutcomes,  \* what saving may do to the two key files
  MaxKeys,       \* bound: key pairs generated
  MaxGroups,     \* bound: groups created
  MaxSends,      \* bound: send operations started
  MaxRestarts    \* bound: restarts of the process

NoKey == 0
FileWrite == {"written", "emptied", "kept"}

ASSUME NamesAssumption == Names \subseteq Nat
ASSUME NameOfAssumption == NameOf \in [Clients -> Names]
ASSUME NoNameAssumption == NoName \notin Names
ASSUME NoChatAssumption == NoChat \notin (Nat \ {0}) \X GroupNames
ASSUME SaveOutcomesAssumption == SaveOutcomes \subseteq [priv : FileWrite, pub : FileWrite]
ASSUME BoundsAssumption ==
  MaxKeys \in Nat /\ MaxGroups \in Nat /\ MaxSends \in Nat /\ MaxRestarts \in Nat

VARIABLES
  \* ChatServer
  users, groups, nextGroupId, history, groupHistory, places, erased,
  \* TcpServer and TcpClient
  handlers, connected, username, sending, inbox,
  \* ChatClient
  registered,   \* registered_
  loggedIn,     \* loggedIn_
  keyPair,      \* keyPair_
  events,       \* what each client's observers were notified of, in order
  calls,        \* the send operations that have not returned
  \* the disk
  privFile,     \* name -> key in <name>.priv.pem, NoKey when the file is empty
  pubFile,      \* name -> key in <name>.pub.pem
  \* the sources of fresh values, and the restarts so far
  nextKey, nextMessage, nextPayload, restarts

serverVars == <<users, groups, nextGroupId, history, groupHistory, places, erased>>
netVars == <<handlers, connected, username, sending, inbox>>
sessionVars == <<registered, loggedIn, keyPair>>
diskVars == <<privFile, pubFile>>
sendVars == <<calls, events, nextMessage, nextPayload>>
vars == <<serverVars, netVars, sessionVars, diskVars, sendVars, nextKey, restarts>>

Keys == Nat \ {NoKey}
ChatIds == ((Nat \ {0}) \X GroupNames) \cup {NoChat}

(* struct Message.  sealedFor and selfSealedFor are the public keys that   *)
(* encryptedSessionKey and encryptedSelfSessionKey were made with; NoKey   *)
(* is the empty vector.  timestamp has no effect, and deletedForAll is     *)
(* false in every message the program builds.                              *)
Message ==
  {m \in [messageId : Nat, sender : Names, receiver : Names, chatId : ChatIds,
          sealedFor : Keys, selfSealedFor : Nat, payload : Nat,
          status : {"Sent", "Delivered"}, isGroupMessage : BOOLEAN] :
     m.isGroupMessage <=> m.chatId # NoChat}

ASSUME NoMessageAssumption == NoMessage \notin Message

Server == INSTANCE ChatServer
            WITH Hashes <- Passwords, PublicKeys <- Keys, Messages <- Message,
                 MaxPlaces <- MaxSends

Net == INSTANCE TcpServer WITH Payloads <- Message, MaxInbox <- MaxSends

Frame == [client : Clients, chat : ChatIds, left : SUBSET Names, payload : Nat,
          msg : Message \cup {NoMessage}, pc : {"build", "send", "handing", "store"}]

TypeOK ==
  /\ Server!TypeOK
  /\ Net!TypeOK
  /\ registered \in [Clients -> BOOLEAN]
  /\ loggedIn \in [Clients -> BOOLEAN]
  /\ keyPair \in [Clients -> [pub : Nat, priv : Nat]]
  /\ events \in [Clients -> Seq([from : Names, messageId : Nat])]
  /\ DOMAIN calls \subseteq Callers
  /\ calls \in [DOMAIN calls -> Frame]
  /\ DOMAIN privFile \subseteq Names
  /\ privFile \in [DOMAIN privFile -> Nat]
  /\ DOMAIN pubFile \subseteq Names
  /\ pubFile \in [DOMAIN pubFile -> Nat]
  /\ nextKey \in Keys
  /\ nextMessage \in Nat
  /\ nextPayload \in Nat
  /\ restarts \in Nat

(* A process that has just started: an empty server and new clients. *)
Fresh ==
  /\ Server!Init
  /\ Net!Init
  /\ registered = [c \in Clients |-> FALSE]
  /\ loggedIn = [c \in Clients |-> FALSE]
  /\ keyPair = [c \in Clients |-> [pub |-> NoKey, priv |-> NoKey]]
  /\ events = [c \in Clients |-> <<>>]
  /\ calls = EmptyMap

Init ==
  /\ Fresh
  /\ privFile = EmptyMap
  /\ pubFile = EmptyMap
  /\ nextKey = 1
  /\ nextMessage = 1
  /\ nextPayload = 1
  /\ restarts = 0

-----------------------------------------------------------------------------
(* Accounts and sessions. *)

(* One of the two key files after saveKeyPairToDisk: opening it truncates  *)
(* it, and no failure is noticed.                                          *)
Write(file, u, key, how) ==
  CASE how = "written" -> Assign(file, u, key)
    [] how = "emptied" -> Assign(file, u, NoKey)
    [] how = "kept"    -> file

(* registerOnServer makes the new key pair the client's own before it      *)
(* knows whether the name is free, and saves it only when it was.          *)
Register(c, password, saving) ==
  LET u == NameOf[c] IN
  /\ ~registered[c]
  /\ keyPair' = [keyPair EXCEPT ![c] = [pub |-> nextKey, priv |-> nextKey]]
  /\ nextKey' = nextKey + 1
  /\ \/ /\ Server!RegisterUser(u, password, nextKey)
        /\ registered' = [registered EXCEPT ![c] = TRUE]
        /\ privFile' = Write(privFile, u, nextKey, saving.priv)
        /\ pubFile' = Write(pubFile, u, nextKey, saving.pub)
     \/ /\ Server!Registered(u)
        /\ UNCHANGED <<registered, serverVars, diskVars>>
  /\ UNCHANGED <<netVars, loggedIn, sendVars, restarts>>

(* Variant: a login that goes on with the pair in memory. *)
KeptKeyPair(c) == keyPair[c]

(* loadKeyPairFromDisk: the private key is in place before the public one  *)
(* is looked for, and whether the two belong together is not checked.      *)
LoadedKeyPair(c) ==
  LET u == NameOf[c] IN
  [pub  |-> IF u \in DOMAIN privFile \cap DOMAIN pubFile THEN pubFile[u] ELSE keyPair[c].pub,
   priv |-> IF u \in DOMAIN privFile THEN privFile[u] ELSE keyPair[c].priv]

Loads(c) == NameOf[c] \in DOMAIN privFile \cap DOMAIN pubFile

(* A login that succeeds. *)
LogIn(c, password) ==
  /\ ~loggedIn[c]
  /\ Server!Authenticates(NameOf[c], password)
  /\ Loads(c)
  /\ keyPair' = [keyPair EXCEPT ![c] = LoadedKeyPair(c)]
  /\ Net!Connect(c, NameOf[c])
  /\ loggedIn' = [loggedIn EXCEPT ![c] = TRUE]
  /\ registered' = [registered EXCEPT ![c] = TRUE]
  /\ UNCHANGED <<serverVars, diskVars, sendVars, nextKey, restarts>>

(* A login with the right password that fails, because a key file is       *)
(* missing or the name is online, may still have replaced keyPair_.        *)
LogInFails(c, password) ==
  /\ ~loggedIn[c]
  /\ Server!Authenticates(NameOf[c], password)
  /\ ~Loads(c) \/ ~Net!CanConnect(c, NameOf[c])
  /\ keyPair' = [keyPair EXCEPT ![c] = LoadedKeyPair(c)]
  /\ UNCHANGED <<serverVars, netVars, registered, loggedIn, diskVars, sendVars, nextKey, restarts>>

LogOut(c) ==
  /\ loggedIn[c]
  /\ Net!Disconnect(c)
  /\ loggedIn' = [loggedIn EXCEPT ![c] = FALSE]
  /\ UNCHANGED <<serverVars, registered, keyPair, diskVars, sendVars, nextKey, restarts>>

(* The process ends and is started again: only the key files survive.      *)
Restart ==
  /\ users' = EmptyMap /\ groups' = EmptyMap /\ nextGroupId' = 1
  /\ history' = {} /\ groupHistory' = {} /\ places' = 0 /\ erased' = {}
  /\ handlers' = EmptyMap /\ sending' = EmptyMap
  /\ connected' = [c \in Clients |-> FALSE]
  /\ username' = [c \in Clients |-> NoName]
  /\ inbox' = [c \in Clients |-> <<>>]
  /\ registered' = [c \in Clients |-> FALSE]
  /\ loggedIn' = [c \in Clients |-> FALSE]
  /\ keyPair' = [c \in Clients |-> [pub |-> NoKey, priv |-> NoKey]]
  /\ events' = [c \in Clients |-> <<>>]
  /\ calls' = EmptyMap
  /\ restarts' = restarts + 1
  /\ UNCHANGED <<diskVars, nextKey, nextMessage, nextPayload>>

-----------------------------------------------------------------------------
(* Contacts, groups and deletion: one call of the server each.  Only       *)
(* deletion asks for a login.                                              *)

aloneVars == <<netVars, sessionVars, diskVars, sendVars, nextKey, restarts>>

AddContact(c, u) == Server!AddContact(NameOf[c], u) /\ UNCHANGED aloneVars
RemoveContact(c, u) == Server!RemoveContact(NameOf[c], u) /\ UNCHANGED aloneVars
CreateGroup(c, name, invited) ==
  Server!CreateGroup(NameOf[c], name, invited) /\ UNCHANGED aloneVars

DeleteMessageForAll(c, id) ==
  /\ loggedIn[c]
  /\ Server!DeleteMessageForAll(NameOf[c], id)
  /\ UNCHANGED aloneVars

-----------------------------------------------------------------------------
(* Sending. *)

(* Message::build, with the session key sealed for the receiver's key on   *)
(* the server and, for a direct message, for the sender's own.             *)
Build(from, to, chat, selfKey, payload) ==
  [messageId |-> nextMessage, sender |-> from, receiver |-> to, chatId |-> chat,
   sealedFor |-> Server!GetPublicKey(to), selfSealedFor |-> selfKey,
   payload |-> payload, status |-> "Sent", isGroupMessage |-> chat # NoChat]

(* Variant: an id that is given out again. *)
SameId == UNCHANGED nextMessage
(* generateId: an id no message has had. *)
NewId == nextMessage' = nextMessage + 1

(* Variant: the answer of the transport is not looked at. *)
StatusDelivered(sent) == "Delivered"
(* The answer of the transport becomes the status of the message. *)
Status(sent) == IF sent THEN "Delivered" ELSE "Sent"

(* Variant: the sender gets no copy. *)
Others(c, g) == Server!GetGroupMembers(g) \ {NameOf[c]}
(* The receivers of a group message: all members, the sender among them.   *)
Recipients(c, g) == Server!GetGroupMembers(g)

SetCall(k, frame) == calls' = [calls EXCEPT ![k] = frame]

restVars == <<sessionVars, diskVars, nextKey, restarts>>

(* sendMessage up to the call of the transport.  With an empty key pair    *)
(* encryptWithPublicKey throws before anything has changed.                *)
BeginSend(k, c, to) ==
  LET m == Build(NameOf[c], to, NoChat, keyPair[c].pub, nextPayload) IN
  /\ k \notin DOMAIN calls
  /\ loggedIn[c]
  /\ Server!Registered(to)
  /\ keyPair[c].pub # NoKey
  /\ calls' = Emplace(calls, k, [client |-> c, chat |-> NoChat, left |-> {},
                                 payload |-> nextPayload, msg |-> m, pc |-> "send"])
  /\ NewId
  /\ nextPayload' = nextPayload + 1
  /\ UNCHANGED <<serverVars, netVars, events, restVars>>

(* sendGroupMessage up to its loop, which goes over the members the group  *)
(* has now.  The sender need not be one of them.                           *)
BeginGroupSend(k, c, g) ==
  /\ k \notin DOMAIN calls
  /\ loggedIn[c]
  /\ Recipients(c, g) # {}
  /\ calls' = Emplace(calls, k, [client |-> c, chat |-> g, left |-> Recipients(c, g),
                                 payload |-> nextPayload, msg |-> NoMessage, pc |-> "build"])
  /\ nextPayload' = nextPayload + 1
  /\ UNCHANGED <<serverVars, netVars, events, nextMessage, restVars>>

(* One iteration up to the call of the transport: the next member in the   *)
(* order of the names gets a message with an id of its own.  That every    *)
(* member has a key, so that the loop's continue is never taken, follows   *)
(* from the server's ReferencesResolve.                                    *)
NextMember(k) ==
  LET f == calls[k] IN
  /\ k \in DOMAIN calls
  /\ f.pc = "build"
  /\ \E to \in f.left :
       /\ \A other \in f.left : to <= other
       /\ Server!Registered(to)
       /\ SetCall(k, [f EXCEPT !.left = @ \ {to}, !.pc = "send",
                               !.msg = Build(NameOf[f.client], to, f.chat, NoKey, f.payload)])
  /\ NewId
  /\ UNCHANGED <<serverVars, netVars, events, nextPayload, restVars>>

EndGroupSend(k) ==
  /\ k \in DOMAIN calls
  /\ calls[k].pc = "build"
  /\ calls[k].left = {}
  /\ calls' = Erase(calls, k)
  /\ UNCHANGED <<serverVars, netVars, events, nextMessage, nextPayload, restVars>>

(* TcpClient::send, when sender and receiver are online: the receiver's    *)
(* handler is copied.                                                      *)
FindReceiver(k) ==
  LET f == calls[k] IN
  /\ k \in DOMAIN calls
  /\ f.pc = "send"
  /\ Net!SendLookup(k, f.client, f.msg.receiver, f.msg)
  /\ SetCall(k, [f EXCEPT !.pc = "handing"])
  /\ UNCHANGED <<serverVars, events, nextMessage, nextPayload, restVars>>

(* Variant: a send that has no answer for a sender who logged out. *)
MissWhileOnline(k) ==
  LET f == calls[k] IN
  /\ k \in DOMAIN calls
  /\ f.pc = "send"
  /\ connected[f.client]
  /\ ~Net!IsOnline(f.msg.receiver)
  /\ SetCall(k, [f EXCEPT !.pc = "store", !.msg.status = Status(FALSE)])
  /\ UNCHANGED <<serverVars, netVars, events, nextMessage, nextPayload, restVars>>

(* ... and when one of them is not: the message keeps the status Sent.     *)
MissReceiver(k) ==
  LET f == calls[k] IN
  /\ k \in DOMAIN calls
  /\ f.pc = "send"
  /\ ~Net!Reaches(f.client, f.msg.receiver)
  /\ SetCall(k, [f EXCEPT !.pc = "store", !.msg.status = Status(FALSE)])
  /\ UNCHANGED <<serverVars, netVars, events, nextMessage, nextPayload, restVars>>

(* MessageProtocol joins the fields with '|' and refuses a line with too   *)
(* many of them.                                                           *)
Parses(m) ==
  /\ m.sender \notin Delimited
  /\ m.receiver \notin Delimited
  /\ m.isGroupMessage => m.chatId[2] \notin Delimited

(* Variants: the choice of the key forgets one of its two conditions. *)
ReceiversKey(u, m) == m.sealedFor
SelfKeyFirst(u, m) == IF m.selfSealedFor # NoKey THEN m.selfSealedFor ELSE m.sealedFor

(* decryptToView and handleIncoming choose the sealed session key alike.   *)
KeyToUse(u, m) ==
  IF m.sender = u /\ m.selfSealedFor # NoKey THEN m.selfSealedFor ELSE m.sealedFor
Opens(c, m) == keyPair[c].priv = KeyToUse(NameOf[c], m)

(* The receiver's handler runs: handleIncoming notifies the observers, or  *)
(* drops a message it cannot read.  Either way sendTo returns true.        *)
HandOver(k) ==
  LET f == calls[k]
      c == sending[k].handler
      m == sending[k].payload IN
  /\ k \in DOMAIN calls
  /\ f.pc = "handing"
  /\ Net!Deliver(k)
  /\ events' = IF Parses(m) /\ Opens(c, m)
                 THEN [events EXCEPT ![c] =
                         Append(@, [from |-> sending[k].from, messageId |-> m.messageId])]
                 ELSE events
  /\ SetCall(k, [f EXCEPT !.pc = "store", !.msg.status = Status(TRUE)])
  /\ UNCHANGED <<serverVars, nextMessage, nextPayload, restVars>>

(* The message goes to the history after its delivery: sendMessage         *)
(* returns, sendGroupMessage turns to the next member.                     *)
Store(k) ==
  LET f == calls[k] IN
  /\ k \in DOMAIN calls
  /\ f.pc = "store"
  /\ Server!StoreMessage(f.msg)
  /\ IF f.chat = NoChat
       THEN calls' = Erase(calls, k)
       ELSE SetCall(k, [f EXCEPT !.pc = "build", !.msg = NoMessage])
  /\ UNCHANGED <<netVars, events, nextMessage, nextPayload, restVars>>

CallStep(k) ==
  \/ NextMember(k)
  \/ EndGroupSend(k)
  \/ FindReceiver(k)
  \/ MissReceiver(k)
  \/ HandOver(k)
  \/ Store(k)

Next ==
  \/ \E c \in Clients, p \in Passwords, saving \in SaveOutcomes :
       nextKey <= MaxKeys /\ Register(c, p, saving)
  \/ \E c \in Clients, p \in Passwords : LogIn(c, p) \/ LogInFails(c, p)
  \/ \E c \in Clients : LogOut(c)
  \/ restarts < MaxRestarts /\ nextKey <= MaxKeys /\ Restart
  \/ \E c \in Clients, u \in Contacts : AddContact(c, u) \/ RemoveContact(c, u)
  \/ \E c \in Clients, name \in GroupNames, invited \in Invitations :
       nextGroupId <= MaxGroups /\ CreateGroup(c, name, invited)
  \/ \E c \in Clients, e \in history \cup groupHistory : DeleteMessageForAll(c, e.msg.messageId)
  \/ \E k \in Callers, c \in Clients, to \in Names :
       nextPayload <= MaxSends /\ BeginSend(k, c, to)
  \/ \E k \in Callers, c \in Clients, g \in DOMAIN groups :
       nextPayload <= MaxSends /\ BeginGroupSend(k, c, g)
  \/ \E k \in Callers : CallStep(k)

Spec == Init /\ [][Next]_vars

(* A send that was started goes on: nothing in it waits for another caller *)
(* or blocks, and the steps it needs are always enabled.                   *)
FairSpec == Spec /\ \A k \in Callers : WF_vars(CallStep(k))

-----------------------------------------------------------------------------
(* What is checked.  A message leaves a trace: stored until its sender     *)
(* deletes it, remembered in erased afterwards.                            *)

Stored == history \cup groupHistory
Entries == Stored \cup {x.entry : x \in erased}
MessagesSent == {e.msg : e \in Entries}

(* A logged-in client is online under its own name, so that no two clients *)
(* are logged in under one name, and logged-out clients are offline: the   *)
(* three flags registered_, loggedIn_ and connected_ never drift apart.    *)
SessionsExclusive ==
  /\ \A c \in Clients :
       /\ loggedIn[c] = connected[c]
       /\ loggedIn[c] => registered[c] /\ username[c] = NameOf[c]
  /\ \A c, d \in Clients : loggedIn[c] /\ loggedIn[d] /\ NameOf[c] = NameOf[d] => c = d

(* The key pair of a logged-in client is the one whose public half the     *)
(* server hands to everyone who writes to it, however registrations that   *)
(* fail, other client objects of the same name, logins and restarts come   *)
(* in between, as long as saving the key files succeeds.                   *)
KeysAgree ==
  \A c \in Clients : loggedIn[c] =>
    /\ keyPair[c].priv = Server!GetPublicKey(NameOf[c])
    /\ keyPair[c].pub = Server!GetPublicKey(NameOf[c])

(* getConversation and getGroupConversation decrypt all they return: the   *)
(* first entry a client cannot open makes the whole call throw.  Every     *)
(* logged-in client can open every entry it is shown.                      *)
HistoryReadable ==
  \A c \in Clients : loggedIn[c] =>
    /\ \A peer \in Names : \A e \in Server!GetConversation(NameOf[c], peer) : Opens(c, e.msg)
    /\ \A e \in groupHistory : e.msg.receiver = NameOf[c] => Opens(c, e.msg)

(* The handler calls that carried a message. *)
Handed(m) ==
  {h \in UNION {{c} \X DOMAIN inbox[c] : c \in Clients} :
     inbox[h[1]][h[2]].payload.messageId = m.messageId}

(* The status in the history is true: Delivered means that the handler of  *)
(* a client of the receiver was called with the message exactly once, from *)
(* the sender, and Sent that none was, whoever logs in or out meanwhile.   *)
StatusTrue ==
  \A m \in MessagesSent :
    /\ Cardinality(Handed(m)) = (IF m.status = "Delivered" THEN 1 ELSE 0)
    /\ \A h \in Handed(m) : /\ NameOf[h[1]] = m.receiver
                            /\ inbox[h[1]][h[2]].from = m.sender

(* Delivered also means shown, provided that key files are saved: the      *)
(* observers of one client of the receiver were notified, once, and nobody *)
(* else's; those of a message that cannot be parsed were not.              *)
DeliveredShown ==
  \A m \in MessagesSent :
    LET shown == {c \in Clients : \E i \in DOMAIN events[c] :
                                   events[c][i].messageId = m.messageId} IN
    IF m.status = "Delivered" /\ Parses(m)
      THEN \E c \in Clients :
             /\ shown = {c} /\ NameOf[c] = m.receiver
             /\ Cardinality({i \in DOMAIN events[c] : events[c][i].messageId = m.messageId}) = 1
      ELSE shown = {}

(* Each message is stored under one place and each place holds one         *)
(* message, also when calls overlap.                                       *)
StoredOnce ==
  \A d, e \in Entries : d.place = e.place \/ d.msg.messageId = e.msg.messageId => d = e

(* The copies of one group message have one receiver each, and when the    *)
(* call is over the receivers are exactly the members; until then those    *)
(* of the members that the loop still has to come to have none.            *)
FanoutExact ==
  /\ \A e \in Entries : e.msg.isGroupMessage =>
       LET copies == {d.msg : d \in {x \in Entries : x.msg.payload = e.msg.payload}}
           running == {k \in DOMAIN calls : calls[k].payload = e.msg.payload}
           late == UNION {calls[k].left \cup
                            IF calls[k].msg = NoMessage THEN {} ELSE {calls[k].msg.receiver} :
                          k \in running}
       IN /\ \A m, n \in copies : m.receiver = n.receiver => m = n
          /\ \A m \in copies : m.chatId = e.msg.chatId /\ m.sender = e.msg.sender
          /\ {m.receiver : m \in copies} = groups[e.msg.chatId].members \ late

(* A message deleted for all never comes back to a history, although the   *)
(* sender's own copies are stored one after the other and a deletion may   *)
(* come between any two steps of the call.                                 *)
ErasedStaysErased ==
  \A x \in erased : \A e \in Stored : e.msg.messageId # x.entry.msg.messageId

(* The life of the message with this id, as the histories, the calls and   *)
(* the handlers show it.                                                   *)
LifeOf(id) ==
  LET at(stage, m) == [at |-> stage, handed |-> Cardinality(Handed(m)), status |-> m.status]
      has(m) == m # NoMessage /\ m.messageId = id IN
  IF \E k \in DOMAIN calls : has(calls[k].msg)
    THEN at("sending", calls[CHOOSE k \in DOMAIN calls : has(calls[k].msg)].msg)
  ELSE IF \E e \in Stored : has(e.msg)
    THEN at("stored", (CHOOSE e \in Stored : has(e.msg)).msg)
  ELSE IF \E x \in erased : has(x.entry.msg)
    THEN at("erased", (CHOOSE x \in erased : has(x.entry.msg)).entry.msg)
  ELSE [at |-> "lost", handed |-> 0, status |-> "Sent"]

Lives == [id \in 1 .. nextMessage - 1 |-> LifeOf(id)]

Life == INSTANCE MessageLife WITH life <- Lives

(* Every message leads the life that MessageLife allows, step by step:     *)
(* handed over at most once and before it is stored, stored with the true  *)
(* status, unchanged afterwards, and gone for good when it is deleted,     *)
(* although these are steps of different calls on different objects and    *)
(* anything may come between them.                                         *)
ImplementsMessageLife == Life!Spec

(* Every send that was started returns, whatever the others do. *)
CallsReturn == \A k \in Callers : k \in DOMAIN calls ~> k \notin DOMAIN calls

-----------------------------------------------------------------------------
(* What the documents say and the program does not do; a run shows each of *)
(* them violated.                                                          *)

(* README.md:169: a message that its sender deletes disappears for all     *)
(* participants.  For a group, once the call that sent it has returned,    *)
(* the deletion of one copy should have removed every member's.            *)
DeletedForEveryone ==
  \A x \in erased : \A e \in Stored :
    e.msg.payload = x.entry.msg.payload =>
      \E k \in DOMAIN calls : calls[k].payload = e.msg.payload

(* ChatClient.cpp:40: a login whose private key is corrupted is refused.   *)
(* Nobody should be logged in with a file that was opened and not written. *)
CorruptedKeyRefused == \A c \in Clients : loggedIn[c] => keyPair[c].priv # NoKey

=============================================================================
