-------------------------- MODULE ChatClientProofs --------------------------
(***************************************************************************)
(* SessionsExclusive, KeysAgree, HistoryReadable and TypeOK for every      *)
(* number of users, client objects and overlapping sends.  Each invariant  *)
(* rests on the one before it, the types on the first; each lemma shows it *)
(* for the actions that change what it speaks of, and frame lemmas cover   *)
(* the others.                                                             *)
(***************************************************************************)
EXTENDS ChatClient, TLAPS

USE NamesAssumption, NameOfAssumption, NoNameAssumption

-----------------------------------------------------------------------------
(* Sessions.  Two clients cannot be logged in under one name because the   *)
(* one handler registered under the name would be the handler of both.     *)

SessionTypes ==
  /\ loggedIn \in [Clients -> BOOLEAN]
  /\ registered \in [Clients -> BOOLEAN]
  /\ connected \in [Clients -> BOOLEAN]
  /\ username \in [Clients -> Names \cup {NoName}]
  /\ handlers \in [DOMAIN handlers -> Clients]

LoggedInRegistered ==
  \A c \in Clients :
    /\ loggedIn[c] = connected[c]
    /\ loggedIn[c] => registered[c] /\ username[c] = NameOf[c]

SInv == SessionTypes /\ Net!RegistryAgrees /\ LoggedInRegistered

registryVars == <<handlers, connected, username>>

(* SInv says more than SessionsExclusive.                                  *)
LEMMA SInvExclusive == SInv => SessionsExclusive
  BY DEF SInv, SessionTypes, LoggedInRegistered, Net!RegistryAgrees, SessionsExclusive

(* A new process keeps SInv: nobody is connected.                          *)
LEMMA FreshSInv == Fresh => SInv
  BY DEF Fresh, Net!Init, Net!EmptyMap, EmptyMap, SInv, SessionTypes,
         LoggedInRegistered, Net!RegistryAgrees

(* What changes neither flags nor registry keeps SInv.                     *)
LEMMA SessionFrame == SInv /\ UNCHANGED <<registryVars, registered, loggedIn>> => SInv'
  BY DEF registryVars, SInv, SessionTypes, LoggedInRegistered, Net!RegistryAgrees

(* A login keeps SInv: connecting takes a name that nobody holds.          *)
LEMMA LogInSInv ==
  ASSUME SInv, NEW c \in Clients, NEW p \in Passwords, LogIn(c, p)
  PROVE  SInv'
<1> DEFINE u == NameOf[c]
<1>1. u \in Names /\ ~connected[c] /\ u \notin DOMAIN handlers
  BY DEF LogIn, Net!Connect, Net!CanConnect, Net!IsOnline
<1>2. /\ handlers' = Net!Emplace(handlers, u, c)
      /\ connected' = [connected EXCEPT ![c] = TRUE]
      /\ username' = [username EXCEPT ![c] = u]
      /\ loggedIn' = [loggedIn EXCEPT ![c] = TRUE]
      /\ registered' = [registered EXCEPT ![c] = TRUE]
  BY DEF LogIn, Net!Connect
<1>3. /\ DOMAIN handlers' = DOMAIN handlers \cup {u}
      /\ handlers' \in [DOMAIN handlers' -> Clients]
      /\ handlers'[u] = c
      /\ \A n \in DOMAIN handlers : handlers'[n] = handlers[n]
  BY <1>1, <1>2 DEF Net!Emplace, SInv, SessionTypes
<1> HIDE DEF u
<1>4. SessionTypes'
  BY <1>1, <1>2, <1>3 DEF SInv, SessionTypes
<1>5. LoggedInRegistered'
  BY <1>2 DEF u, SInv, SessionTypes, LoggedInRegistered
<1>6. Net!RegistryAgrees'
  <2>1. ASSUME NEW d \in Clients
        PROVE  /\ connected'[d] => /\ username'[d] \in DOMAIN handlers'
                                   /\ handlers'[username'[d]] = d
               /\ ~connected'[d] => username'[d] = NoName
    BY <1>1, <1>2, <1>3 DEF SInv, SessionTypes, Net!RegistryAgrees
  <2>2. ASSUME NEW n \in DOMAIN handlers'
        PROVE  connected'[handlers'[n]] /\ username'[handlers'[n]] = n
    BY <1>1, <1>2, <1>3 DEF SInv, SessionTypes, Net!RegistryAgrees
  <2> QED
    BY <2>1, <2>2 DEF Net!RegistryAgrees
<1> QED
  BY <1>4, <1>5, <1>6 DEF SInv

(* A logout keeps SInv: it frees the client's own name and no other.       *)
LEMMA LogOutSInv ==
  ASSUME SInv, NEW c \in Clients, LogOut(c)
  PROVE  SInv'
<1>1. /\ connected[c]
      /\ handlers' = Net!Erase(handlers, username[c])
      /\ connected' = [connected EXCEPT ![c] = FALSE]
      /\ username' = [username EXCEPT ![c] = NoName]
      /\ loggedIn' = [loggedIn EXCEPT ![c] = FALSE]
      /\ registered' = registered
  BY DEF LogOut, Net!Disconnect
<1>2. /\ DOMAIN handlers' = DOMAIN handlers \ {username[c]}
      /\ handlers' \in [DOMAIN handlers' -> Clients]
      /\ \A n \in DOMAIN handlers' : handlers'[n] = handlers[n]
  BY <1>1 DEF Net!Erase, Net!Restrict, SInv, SessionTypes
<1>3. SessionTypes'
  BY <1>1, <1>2 DEF SInv, SessionTypes
<1>4. LoggedInRegistered'
  BY <1>1 DEF SInv, SessionTypes, LoggedInRegistered
<1>5. Net!RegistryAgrees'
  <2>1. ASSUME NEW d \in Clients
        PROVE  /\ connected'[d] => /\ username'[d] \in DOMAIN handlers'
                                   /\ handlers'[username'[d]] = d
               /\ ~connected'[d] => username'[d] = NoName
    BY <1>1, <1>2 DEF SInv, SessionTypes, Net!RegistryAgrees
  <2>2. ASSUME NEW n \in DOMAIN handlers'
        PROVE  connected'[handlers'[n]] /\ username'[handlers'[n]] = n
    BY <1>1, <1>2 DEF SInv, SessionTypes, Net!RegistryAgrees
  <2> QED
    BY <2>1, <2>2 DEF Net!RegistryAgrees
<1> QED
  BY <1>3, <1>4, <1>5 DEF SInv

(* A restart makes a new process.                                          *)
LEMMA RestartSInv == Restart => SInv'
  BY DEF Restart, EmptyMap, SInv, SessionTypes, LoggedInRegistered, Net!RegistryAgrees

(* The steps of a send change what is on its way, and no session. *)
LEMMA CallFrame ==
  ASSUME NEW k \in Callers, CallStep(k)
  PROVE  UNCHANGED <<registryVars, sessionVars, diskVars, users, groups, nextKey, restarts>>
<1>1. CASE NextMember(k)
  BY <1>1 DEF NextMember, restVars, netVars, serverVars, registryVars
<1>2. CASE EndGroupSend(k)
  BY <1>2 DEF EndGroupSend, restVars, netVars, serverVars, registryVars
<1>3. CASE FindReceiver(k)
  BY <1>3 DEF FindReceiver, Net!SendLookup, restVars, serverVars, registryVars
<1>4. CASE MissReceiver(k)
  BY <1>4 DEF MissReceiver, restVars, netVars, serverVars, registryVars
<1>5. CASE HandOver(k)
  BY <1>5 DEF HandOver, Net!Deliver, restVars, serverVars, registryVars
<1>6. CASE Store(k)
  BY <1>6 DEF Store, Server!StoreMessage, restVars, netVars, registryVars
<1> QED
  BY <1>1, <1>2, <1>3, <1>4, <1>5, <1>6 DEF CallStep

(* Every step keeps SInv.                                                  *)
LEMMA NextSInv == SInv /\ [Next]_vars => SInv'
<1> SUFFICES ASSUME SInv, [Next]_vars PROVE SInv'
  OBVIOUS
<1>1. CASE UNCHANGED vars
  BY <1>1, SessionFrame DEF vars, netVars, sessionVars, registryVars
<1>2. ASSUME NEW c \in Clients, NEW p \in Passwords, NEW saving \in SaveOutcomes,
             Register(c, p, saving)
      PROVE  SInv'
  <2>1. registered' = registered \/ registered' = [registered EXCEPT ![c] = TRUE]
    BY <1>2 DEF Register
  <2>2. registered' \in [Clients -> BOOLEAN] /\ \A d \in Clients : registered[d] => registered'[d]
    BY <2>1 DEF SInv, SessionTypes
  <2>3. UNCHANGED <<registryVars, loggedIn>>
    BY <1>2 DEF Register, netVars, registryVars
  <2> QED
    BY <2>2, <2>3 DEF registryVars, SInv, SessionTypes, LoggedInRegistered, Net!RegistryAgrees
<1>3. ASSUME NEW c \in Clients, NEW p \in Passwords, LogInFails(c, p) PROVE SInv'
  BY <1>3, SessionFrame DEF LogInFails, netVars, registryVars
<1>4. ASSUME NEW c \in Clients, NEW u \in Contacts, AddContact(c, u) \/ RemoveContact(c, u)
      PROVE  SInv'
  BY <1>4, SessionFrame DEF AddContact, RemoveContact, aloneVars, netVars, sessionVars, registryVars
<1>5. ASSUME NEW c \in Clients, NEW name \in GroupNames, NEW invited \in Invitations,
             CreateGroup(c, name, invited)
      PROVE  SInv'
  BY <1>5, SessionFrame DEF CreateGroup, aloneVars, netVars, sessionVars, registryVars
<1>6. ASSUME NEW c \in Clients, NEW id, DeleteMessageForAll(c, id) PROVE SInv'
  BY <1>6, SessionFrame DEF DeleteMessageForAll, aloneVars, netVars, sessionVars, registryVars
<1>7. ASSUME NEW k \in Callers, NEW c \in Clients, NEW to \in Names, BeginSend(k, c, to)
      PROVE  SInv'
  BY <1>7, SessionFrame DEF BeginSend, restVars, netVars, sessionVars, registryVars
<1>8. ASSUME NEW k \in Callers, NEW c \in Clients, NEW g, BeginGroupSend(k, c, g) PROVE SInv'
  BY <1>8, SessionFrame DEF BeginGroupSend, restVars, netVars, sessionVars, registryVars
<1>9. ASSUME NEW k \in Callers, CallStep(k) PROVE SInv'
  BY <1>9, CallFrame, SessionFrame DEF sessionVars
<1> QED
  BY <1>1, <1>2, <1>3, <1>4, <1>5, <1>6, <1>7, <1>8, <1>9, LogInSInv, LogOutSInv, RestartSInv
     DEF Next

(* A logged-in client is online under its own name and is the only one,    *)
(* whatever registrations, logins, logouts and restarts come in any order. *)
THEOREM SessionsCorrect == Spec => []SessionsExclusive
<1>1. Init => SInv
  BY FreshSInv DEF Init
<1> QED
  BY <1>1, NextSInv, SInvExclusive, PTL DEF Spec

-----------------------------------------------------------------------------
(* Keys.  When saving succeeds, the key files of every account hold the    *)
(* account's own pair, and a login takes its pair from them.               *)

Saves == SaveOutcomes = {[priv |-> "written", pub |-> "written"]}

AccountTypes ==
  /\ DOMAIN users \subseteq Names
  /\ users \in [DOMAIN users -> [passwordHash : Passwords, publicKeyPem : Keys,
                                 contacts : SUBSET Names]]
  /\ keyPair \in [Clients -> [pub : Nat, priv : Nat]]
  /\ nextKey \in Keys

FilesMatch ==
  \A u \in DOMAIN users :
    /\ u \in DOMAIN privFile /\ privFile[u] = users[u].publicKeyPem
    /\ u \in DOMAIN pubFile /\ pubFile[u] = users[u].publicKeyPem

(* Registered rather than logged in: a handler that was copied for a       *)
(* delivery runs although its client has logged out meanwhile.             *)
OwnKeys ==
  \A c \in Clients : registered[c] =>
    /\ NameOf[c] \in DOMAIN users
    /\ keyPair[c].priv = users[NameOf[c]].publicKeyPem
    /\ keyPair[c].pub = users[NameOf[c]].publicKeyPem

KInv == AccountTypes /\ FilesMatch /\ OwnKeys

(* No account disappears or changes its key. *)
UsersKept ==
  /\ DOMAIN users \subseteq DOMAIN users'
  /\ \A u \in DOMAIN users : users'[u].publicKeyPem = users[u].publicKeyPem

(* KInv says more than KeysAgree.                                          *)
LEMMA KInvAgree == SInv /\ KInv => KeysAgree
  BY DEF SInv, LoggedInRegistered, KInv, OwnKeys, KeysAgree, Server!GetPublicKey, Server!Registered

(* What changes no account, key pair or key file keeps KInv.               *)
LEMMA KeyFrame ==
  KInv /\ UNCHANGED <<users, keyPair, registered, diskVars, nextKey>> => KInv'
  BY DEF diskVars, KInv, AccountTypes, FilesMatch, OwnKeys

(* A registration keeps KInv, the failed one included, which replaces      *)
(* keyPair_ of a client without an account.                                *)
LEMMA RegisterKInv ==
  ASSUME Saves, SInv, KInv, NEW c \in Clients, NEW p \in Passwords,
         NEW saving \in SaveOutcomes, Register(c, p, saving)
  PROVE  KInv' /\ UsersKept
<1> DEFINE u == NameOf[c]
<1>1. u \in Names /\ ~registered[c]
  BY DEF Register
<1>2. /\ keyPair' = [keyPair EXCEPT ![c] = [pub |-> nextKey, priv |-> nextKey]]
      /\ nextKey' = nextKey + 1
  BY DEF Register
<1>3. nextKey' \in Keys /\ keyPair' \in [Clients -> [pub : Nat, priv : Nat]]
      /\ \A d \in Clients \ {c} : keyPair'[d] = keyPair[d]
  BY <1>2 DEF Keys, NoKey, KInv, AccountTypes
<1>4. CASE UNCHANGED <<registered, serverVars, diskVars>>
  <2>1. UNCHANGED <<users, registered, privFile, pubFile>>
    BY <1>4 DEF serverVars, diskVars
  <2> QED
    BY <1>1, <1>2, <1>3, <2>1 DEF KInv, AccountTypes, FilesMatch, OwnKeys, UsersKept
<1>5. CASE /\ Server!RegisterUser(u, p, nextKey)
           /\ registered' = [registered EXCEPT ![c] = TRUE]
           /\ privFile' = Write(privFile, u, nextKey, saving.priv)
           /\ pubFile' = Write(pubFile, u, nextKey, saving.pub)
  <2> DEFINE account == [passwordHash |-> p, publicKeyPem |-> nextKey, contacts |-> {}]
  <2>1. u \notin DOMAIN users /\ users' = Server!Emplace(users, u, account)
    BY <1>5 DEF Server!RegisterUser, Server!Registered
  <2>2. /\ account \in [passwordHash : Passwords, publicKeyPem : Keys, contacts : SUBSET Names]
        /\ account.publicKeyPem = nextKey
    BY DEF KInv, AccountTypes
  <2> HIDE DEF account, u
  <2>3. /\ DOMAIN users' = DOMAIN users \cup {u}
        /\ users' \in [DOMAIN users' -> [passwordHash : Passwords, publicKeyPem : Keys,
                                         contacts : SUBSET Names]]
        /\ users'[u] = account
        /\ \A v \in DOMAIN users : users'[v] = users[v]
    BY <2>1, <2>2 DEF Server!Emplace, KInv, AccountTypes
  <2>4. saving.priv = "written" /\ saving.pub = "written"
    BY DEF Saves
  <2>5. privFile' = Assign(privFile, u, nextKey) /\ pubFile' = Assign(pubFile, u, nextKey)
    BY <1>5, <2>4 DEF Write
  <2>6. FilesMatch'
    BY <2>1, <2>2, <2>3, <2>5 DEF Assign, KInv, FilesMatch
  <2>7. OwnKeys'
    BY <1>1, <1>2, <1>3, <1>5, <2>2, <2>3 DEF KInv, OwnKeys, SInv, SessionTypes, u
  <2> QED
    BY <1>1, <1>3, <2>3, <2>6, <2>7 DEF KInv, AccountTypes, UsersKept
<1> QED
  BY <1>4, <1>5 DEF Register

(* A login, successful or not, keeps KInv: it loads the pair of the        *)
(* account.                                                                *)
LEMMA LogInKInv ==
  ASSUME SInv, KInv, NEW c \in Clients, NEW p \in Passwords, LogIn(c, p) \/ LogInFails(c, p)
  PROVE  KInv' /\ UsersKept
<1>1. /\ NameOf[c] \in DOMAIN users
      /\ keyPair' = [keyPair EXCEPT ![c] = LoadedKeyPair(c)]
      /\ \A d \in Clients \ {c} : registered'[d] = registered[d]
      /\ UNCHANGED <<users, privFile, pubFile, nextKey>>
  BY DEF LogIn, LogInFails, Server!Authenticates, Server!Registered, serverVars, diskVars,
         SInv, SessionTypes
<1>2. LoadedKeyPair(c) = [pub |-> users[NameOf[c]].publicKeyPem,
                          priv |-> users[NameOf[c]].publicKeyPem]
  BY <1>1 DEF LoadedKeyPair, KInv, FilesMatch
<1>3. users[NameOf[c]].publicKeyPem \in Nat
  BY <1>1 DEF KInv, AccountTypes, Keys
<1>4. keyPair' = [keyPair EXCEPT ![c] = [pub |-> users[NameOf[c]].publicKeyPem,
                                         priv |-> users[NameOf[c]].publicKeyPem]]
  BY <1>1, <1>2
<1> QED
  BY <1>1, <1>3, <1>4 DEF KInv, AccountTypes, FilesMatch, OwnKeys, UsersKept

(* Contacts have nothing to do with keys.                                  *)
LEMMA ContactsKInv ==
  ASSUME KInv, NEW c \in Clients, NEW u \in Contacts, AddContact(c, u) \/ RemoveContact(c, u)
  PROVE  KInv' /\ UsersKept
<1>1. PICK new \in SUBSET Names :
        /\ NameOf[c] \in DOMAIN users
        /\ users' = [users EXCEPT ![NameOf[c]].contacts = new]
  BY DEF AddContact, RemoveContact, Server!AddContact, Server!RemoveContact,
         Server!Registered, KInv, AccountTypes
<1>2. UNCHANGED <<keyPair, registered, privFile, pubFile, nextKey>>
  BY DEF AddContact, RemoveContact, aloneVars, sessionVars, diskVars
<1>3. /\ DOMAIN users' = DOMAIN users
      /\ users' \in [DOMAIN users -> [passwordHash : Passwords, publicKeyPem : Keys,
                                      contacts : SUBSET Names]]
      /\ \A v \in DOMAIN users : users'[v].publicKeyPem = users[v].publicKeyPem
  BY <1>1 DEF KInv, AccountTypes
<1> QED
  BY <1>2, <1>3 DEF KInv, AccountTypes, FilesMatch, OwnKeys, UsersKept

(* Every step but a restart keeps the accounts. *)
LEMMA StepKInv ==
  ASSUME Saves, SInv, KInv, [Next]_vars, ~Restart
  PROVE  KInv' /\ UsersKept
<1>1. ASSUME UNCHANGED <<users, keyPair, registered, diskVars, nextKey>> PROVE KInv' /\ UsersKept
  BY <1>1, KeyFrame DEF UsersKept
<1>2. CASE UNCHANGED vars
  BY <1>1, <1>2 DEF vars, serverVars, sessionVars
<1>3. ASSUME NEW c \in Clients, LogOut(c) PROVE KInv' /\ UsersKept
  BY <1>1, <1>3 DEF LogOut, serverVars
<1>4. ASSUME NEW c \in Clients, NEW name \in GroupNames, NEW invited \in Invitations,
             CreateGroup(c, name, invited)
      PROVE  KInv' /\ UsersKept
  BY <1>1, <1>4 DEF CreateGroup, Server!CreateGroup, aloneVars, sessionVars
<1>5. ASSUME NEW c \in Clients, NEW id, DeleteMessageForAll(c, id) PROVE KInv' /\ UsersKept
  BY <1>1, <1>5 DEF DeleteMessageForAll, Server!DeleteMessageForAll, aloneVars, sessionVars
<1>6. ASSUME NEW k \in Callers, NEW c \in Clients, NEW to \in Names, BeginSend(k, c, to)
      PROVE  KInv' /\ UsersKept
  BY <1>1, <1>6 DEF BeginSend, restVars, serverVars, sessionVars
<1>7. ASSUME NEW k \in Callers, NEW c \in Clients, NEW g, BeginGroupSend(k, c, g)
      PROVE  KInv' /\ UsersKept
  BY <1>1, <1>7 DEF BeginGroupSend, restVars, serverVars, sessionVars
<1>8. ASSUME NEW k \in Callers, CallStep(k) PROVE KInv' /\ UsersKept
  BY <1>1, <1>8, CallFrame DEF sessionVars
<1> QED
  BY <1>2, <1>3, <1>4, <1>5, <1>6, <1>7, <1>8, RegisterKInv, LogInKInv, ContactsKInv DEF Next

(* Every step keeps KInv.                                                  *)
LEMMA NextKInv == ASSUME Saves PROVE SInv /\ KInv /\ [Next]_vars => KInv'
<1> SUFFICES ASSUME SInv, KInv, [Next]_vars PROVE KInv'
  OBVIOUS
<1>1. CASE Restart
  BY <1>1 DEF Restart, EmptyMap, NoKey, diskVars, KInv, AccountTypes, FilesMatch, OwnKeys
<1> QED
  BY <1>1, StepKInv

(* KInv holds at the start.                                                *)
LEMMA InitKInv == Init => KInv
  BY DEF Init, Fresh, Server!Init, Server!EmptyMap, EmptyMap, NoKey, Keys,
         KInv, AccountTypes, FilesMatch, OwnKeys

(* When the key files are saved, a logged-in client holds both halves of   *)
(* the pair whose public half the server gives to all who write to it.     *)
THEOREM KeysCorrect == ASSUME Saves PROVE Spec => []KeysAgree
<1>1. Init => SInv /\ KInv
  BY FreshSInv, InitKInv DEF Init
<1>2. SInv /\ KInv /\ [Next]_vars => (SInv /\ KInv)'
  BY NextSInv, NextKInv
<1>3. SInv /\ KInv => KeysAgree
  BY KInvAgree
<1> QED
  BY <1>1, <1>2, <1>3, PTL DEF Spec

-----------------------------------------------------------------------------
(* The history.  A message is sealed for the keys that its two parties     *)
(* have on the server, from its building to its storing and ever after,    *)
(* for no account changes its key while there is a message.                *)

MsgFields == {"messageId", "sender", "receiver", "chatId", "sealedFor", "selfSealedFor",
              "payload", "status", "isGroupMessage"}
FrameFields == {"client", "chat", "left", "payload", "msg", "pc"}

Sealed(m) ==
  /\ DOMAIN m = MsgFields
  /\ m.sender \in DOMAIN users
  /\ m.receiver \in DOMAIN users
  /\ m.sealedFor = users[m.receiver].publicKeyPem
  /\ m.selfSealedFor # NoKey => m.selfSealedFor = users[m.sender].publicKeyPem
  /\ ~m.isGroupMessage => m.selfSealedFor # NoKey

GoodFrame(f) ==
  /\ DOMAIN f = FrameFields
  /\ f.client \in Clients /\ NameOf[f.client] \in DOMAIN users
  /\ f.chat # NoChat \/ f.pc # "build"
  /\ f.pc # "build" => Sealed(f.msg)

CallsSealed == \A k \in DOMAIN calls : GoodFrame(calls[k])

HistoriesSealed ==
  /\ \A e \in history : /\ Sealed(e.msg)
                        /\ ~e.msg.isGroupMessage
                        /\ e.key = Server!ConversationKey(e.msg.sender, e.msg.receiver)
  /\ \A e \in groupHistory : Sealed(e.msg)

GroupIds == nextGroupId \in Nat \ {0} /\ NoChat \notin DOMAIN groups

HInv == CallsSealed /\ HistoriesSealed /\ GroupIds

(* A sealed message stays sealed for its parties while accounts keep their *)
(* keys.                                                                   *)
LEMMA SealedStays ==
  ASSUME UsersKept, NEW m, Sealed(m)
  PROVE  Sealed(m)'
  BY DEF UsersKept, Sealed

(* ... and so does the message of a send.                                  *)
LEMMA FrameStays ==
  ASSUME UsersKept, NEW f, GoodFrame(f)
  PROVE  GoodFrame(f)'
  BY SealedStays DEF UsersKept, GoodFrame

(* The status is no part of what is sealed. *)
LEMMA SealedStatus ==
  ASSUME NEW m, Sealed(m), NEW status
  PROVE  Sealed([m EXCEPT !.status = status])
  BY DEF Sealed, MsgFields

(* The histories and the sends stay as they are. *)
LEMMA HFrame ==
  ASSUME UsersKept, HInv, UNCHANGED <<calls, history, groupHistory, groups, nextGroupId>>
  PROVE  HInv'
<1>1. CallsSealed'
  BY FrameStays DEF HInv, CallsSealed, GoodFrame, Sealed, UsersKept
<1>2. HistoriesSealed'
  BY SealedStays DEF HInv, HistoriesSealed, Sealed, Server!ConversationKey, UsersKept
<1> QED
  BY <1>1, <1>2 DEF HInv, GroupIds

(* A step of one send changes its own frame. *)
LEMMA CallHInv ==
  ASSUME HInv, UNCHANGED <<users, groups, nextGroupId>>, HistoriesSealed',
         NEW k, NEW f, GoodFrame(f),
         \/ calls' = Emplace(calls, k, f) /\ k \notin DOMAIN calls
         \/ calls' = [calls EXCEPT ![k] = f]
         \/ calls' = Erase(calls, k)
  PROVE  HInv'
<1>1. ASSUME NEW j \in DOMAIN calls'
      PROVE  calls'[j] = f \/ (j \in DOMAIN calls /\ calls'[j] = calls[j])
  <2>1. CASE calls' = Emplace(calls, k, f) /\ k \notin DOMAIN calls
    BY <1>1, <2>1 DEF Emplace
  <2>2. CASE calls' = [calls EXCEPT ![k] = f]
    BY <1>1, <2>2
  <2>3. CASE calls' = Erase(calls, k)
    BY <1>1, <2>3 DEF Erase, Restrict
  <2> QED
    BY <2>1, <2>2, <2>3
<1>2. ASSUME NEW j \in DOMAIN calls' PROVE GoodFrame(calls'[j])
  BY <1>1 DEF HInv, CallsSealed
<1>3. CallsSealed'
  BY <1>2 DEF CallsSealed, GoodFrame, Sealed
<1> QED
  BY <1>3 DEF HInv, GroupIds

(* The two messages the program builds are sealed for their parties. *)
LEMMA BuildSealed ==
  ASSUME AccountTypes, NEW from \in DOMAIN users, NEW to \in DOMAIN users, NEW chat, NEW selfKey,
         NEW payload,
         selfKey # NoKey => selfKey = users[from].publicKeyPem,
         chat = NoChat => selfKey # NoKey
  PROVE  Sealed(Build(from, to, chat, selfKey, payload))
  BY DEF Build, Sealed, MsgFields, Server!GetPublicKey, Server!Registered

(* Storing files a sealed message under the key of its two parties, or in  *)
(* the history of its group.                                               *)
LEMMA StoreHistories ==
  ASSUME HInv, NEW m, Sealed(m), Server!StoreMessage(m)
  PROVE  HistoriesSealed'
<1>1. UNCHANGED <<users, groups, nextGroupId>>
  BY DEF Server!StoreMessage
<1>2. CASE m.isGroupMessage
  BY <1>1, <1>2 DEF Server!StoreMessage, HInv, HistoriesSealed, Sealed, Server!ConversationKey
<1>3. CASE ~m.isGroupMessage
  BY <1>1, <1>3 DEF Server!StoreMessage, HInv, HistoriesSealed, Sealed, Server!ConversationKey
<1> QED
  BY <1>2, <1>3

(* What changes neither accounts nor histories leaves the histories        *)
(* sealed.                                                                 *)
LEMMA SameHistories ==
  HInv /\ UNCHANGED <<users, history, groupHistory>> => HistoriesSealed'
  BY DEF HInv, HistoriesSealed, Sealed, Server!ConversationKey

(* A direct message is sealed for its receiver and, with the sender's own  *)
(* key, for its sender.                                                    *)
LEMMA BeginSendHInv ==
  ASSUME SInv, AccountTypes, OwnKeys, HInv, NEW k \in Callers, NEW c \in Clients, NEW to \in Names,
         BeginSend(k, c, to)
  PROVE  HInv'
<1> DEFINE m == Build(NameOf[c], to, NoChat, keyPair[c].pub, nextPayload)
           f == [client |-> c, chat |-> NoChat, left |-> {}, payload |-> nextPayload,
                 msg |-> m, pc |-> "send"]
<1>1. /\ k \notin DOMAIN calls /\ calls' = Emplace(calls, k, f)
      /\ UNCHANGED <<users, groups, nextGroupId, history, groupHistory>>
  BY DEF BeginSend, serverVars
<1>2. /\ NameOf[c] \in DOMAIN users /\ to \in DOMAIN users
      /\ keyPair[c].pub = users[NameOf[c]].publicKeyPem /\ keyPair[c].pub # NoKey
  BY DEF BeginSend, SInv, LoggedInRegistered, OwnKeys, Server!Registered
<1>3. Sealed(m)
  BY <1>2, BuildSealed
<1> HIDE DEF m
<1>4. GoodFrame(f)
  BY <1>2, <1>3 DEF GoodFrame, FrameFields
<1> HIDE DEF f
<1> QED
  BY <1>1, <1>4, CallHInv, SameHistories

(* A group send starts with no message.                                    *)
LEMMA BeginGroupSendHInv ==
  ASSUME SInv, OwnKeys, HInv, NEW k \in Callers, NEW c \in Clients, NEW g \in DOMAIN groups,
         BeginGroupSend(k, c, g)
  PROVE  HInv'
<1> DEFINE f == [client |-> c, chat |-> g, left |-> Recipients(c, g), payload |-> nextPayload,
                 msg |-> NoMessage, pc |-> "build"]
<1>1. /\ k \notin DOMAIN calls /\ calls' = Emplace(calls, k, f)
      /\ UNCHANGED <<users, groups, nextGroupId, history, groupHistory>>
  BY DEF BeginGroupSend, serverVars
<1>2. NameOf[c] \in DOMAIN users /\ g # NoChat
  BY DEF BeginGroupSend, SInv, LoggedInRegistered, OwnKeys, HInv, GroupIds
<1>3. GoodFrame(f)
  BY <1>2 DEF GoodFrame, FrameFields
<1> HIDE DEF f
<1> QED
  BY <1>1, <1>3, CallHInv, SameHistories

(* Each copy is sealed for its member and for the sender.                  *)
LEMMA NextMemberHInv ==
  ASSUME AccountTypes, HInv, NEW k \in Callers, NextMember(k)
  PROVE  HInv'
<1> DEFINE f == calls[k]
<1>1. k \in DOMAIN calls /\ f.pc = "build" /\ GoodFrame(f)
  BY DEF NextMember, HInv, CallsSealed
<1>2. PICK to \in f.left :
        /\ to \in DOMAIN users
        /\ calls' = [calls EXCEPT ![k] = [f EXCEPT !.left = @ \ {to}, !.pc = "send",
              !.msg = Build(NameOf[f.client], to, f.chat, NoKey, f.payload)]]
  BY DEF NextMember, SetCall, Server!Registered
<1> DEFINE m == Build(NameOf[f.client], to, f.chat, NoKey, f.payload)
           g == [f EXCEPT !.left = @ \ {to}, !.pc = "send", !.msg = m]
<1>3. Sealed(m)
  <2>1. NameOf[f.client] \in DOMAIN users /\ f.chat # NoChat
    BY <1>1 DEF GoodFrame
  <2> QED
    BY <1>2, <2>1, BuildSealed
<1>4. calls' = [calls EXCEPT ![k] = g]
  BY <1>2
<1> HIDE DEF m, f
<1>5. GoodFrame(g)
  BY <1>1, <1>3 DEF GoodFrame, FrameFields
<1>6. UNCHANGED <<users, groups, nextGroupId, history, groupHistory>>
  BY DEF NextMember, serverVars
<1> HIDE DEF g
<1> QED
  BY <1>4, <1>5, <1>6, CallHInv, SameHistories

(* The three steps that do not change what is stored nor what is sealed. *)
LEMMA TransportHInv ==
  ASSUME HInv, NEW k \in Callers, FindReceiver(k) \/ MissReceiver(k) \/ HandOver(k)
  PROVE  HInv'
<1> DEFINE f == calls[k]
<1>1. k \in DOMAIN calls /\ f.pc # "build" /\ GoodFrame(f)
  BY DEF FindReceiver, MissReceiver, HandOver, HInv, CallsSealed
<1>2. UNCHANGED <<users, groups, nextGroupId, history, groupHistory>>
  BY DEF FindReceiver, MissReceiver, HandOver, serverVars
<1>3. CASE FindReceiver(k)
  <2> DEFINE g == [f EXCEPT !.pc = "handing"]
  <2>1. calls' = [calls EXCEPT ![k] = g]
    BY <1>3 DEF FindReceiver, SetCall
  <2> HIDE DEF f
  <2>2. GoodFrame(g)
    BY <1>1 DEF GoodFrame, FrameFields
  <2> HIDE DEF g
  <2> QED
    BY <1>2, <2>1, <2>2, CallHInv, SameHistories
<1>4. CASE MissReceiver(k) \/ HandOver(k)
  <2>1. PICK sent \in BOOLEAN :
          calls' = [calls EXCEPT ![k] = [f EXCEPT !.pc = "store", !.msg.status = Status(sent)]]
    BY <1>4 DEF MissReceiver, HandOver, SetCall
  <2> DEFINE m == [f.msg EXCEPT !.status = Status(sent)]
             g == [f EXCEPT !.pc = "store", !.msg = m]
  <2> HIDE DEF f
  <2>2. Sealed(f.msg)
    BY <1>1 DEF GoodFrame
  <2>3. Sealed(m)
    BY <2>2, SealedStatus
  <2>4. calls' = [calls EXCEPT ![k] = g]
    BY <1>1, <2>1 DEF GoodFrame, FrameFields
  <2> HIDE DEF m
  <2>5. GoodFrame(g)
    BY <1>1, <2>3 DEF GoodFrame, FrameFields
  <2> HIDE DEF g
  <2> QED
    BY <1>2, <2>4, <2>5, CallHInv, SameHistories
<1> QED
  BY <1>3, <1>4

(* What a send stores was sealed when it was built.                        *)
LEMMA StoreHInv ==
  ASSUME HInv, NEW k \in Callers, Store(k)
  PROVE  HInv'
<1> DEFINE f == calls[k]
           g == [f EXCEPT !.pc = "build", !.msg = NoMessage]
<1>1. k \in DOMAIN calls /\ GoodFrame(f) /\ Sealed(f.msg)
  BY DEF Store, HInv, CallsSealed, GoodFrame
<1>2. UNCHANGED <<users, groups, nextGroupId>> /\ HistoriesSealed'
  BY <1>1, StoreHistories DEF Store, Server!StoreMessage
<1>3. CASE f.chat = NoChat
  BY <1>1, <1>2, <1>3, CallHInv DEF Store
<1>4. CASE f.chat # NoChat
  <2>1. calls' = [calls EXCEPT ![k] = g]
    BY <1>4 DEF Store, SetCall
  <2> HIDE DEF f
  <2>2. GoodFrame(g)
    BY <1>1, <1>4 DEF GoodFrame, FrameFields
  <2> HIDE DEF g
  <2> QED
    BY <1>2, <2>1, <2>2, CallHInv
<1> QED
  BY <1>3, <1>4

(* The end of a group send leaves the histories as they are.               *)
LEMMA EndGroupSendHInv ==
  ASSUME HInv, NEW k \in Callers, EndGroupSend(k)
  PROVE  HInv'
<1>1. GoodFrame(calls[k]) /\ calls' = Erase(calls, k)
      /\ UNCHANGED <<users, groups, nextGroupId, history, groupHistory>>
  BY DEF EndGroupSend, HInv, CallsSealed, serverVars
<1> QED
  BY <1>1, CallHInv, SameHistories

(* What is sealed for the keys of its parties they can open.               *)
LEMMA HInvReadable == SInv /\ AccountTypes /\ OwnKeys /\ HInv => HistoryReadable
<1> SUFFICES ASSUME SInv, AccountTypes, OwnKeys, HInv, NEW c \in Clients, loggedIn[c]
             PROVE  /\ \A peer \in Names :
                         \A e \in Server!GetConversation(NameOf[c], peer) : Opens(c, e.msg)
                    /\ \A e \in groupHistory : e.msg.receiver = NameOf[c] => Opens(c, e.msg)
  BY DEF HistoryReadable
<1> DEFINE u == NameOf[c]
<1>1. u \in Names /\ u \in Nat /\ keyPair[c].priv = users[u].publicKeyPem
  BY DEF SInv, LoggedInRegistered, OwnKeys
<1>2. ASSUME NEW m, Sealed(m), m.receiver = u PROVE Opens(c, m)
  BY <1>1, <1>2 DEF Sealed, Opens, KeyToUse
<1>3. ASSUME NEW m, Sealed(m), m.sender = u, ~m.isGroupMessage PROVE Opens(c, m)
  BY <1>1, <1>3 DEF Sealed, Opens, KeyToUse
<1>4. ASSUME NEW peer \in Names, NEW e \in Server!GetConversation(u, peer) PROVE Opens(c, e.msg)
  <2>1. /\ e \in history
        /\ Server!ConversationKey(e.msg.sender, e.msg.receiver) = Server!ConversationKey(u, peer)
        /\ Sealed(e.msg) /\ ~e.msg.isGroupMessage
    BY <1>4 DEF Server!GetConversation, HInv, HistoriesSealed
  <2>2. e.msg.sender \in Nat /\ e.msg.receiver \in Nat /\ peer \in Nat
    BY <2>1 DEF Sealed, AccountTypes
  <2>3. e.msg.sender = u \/ e.msg.receiver = u
    BY <1>1, <2>1, <2>2 DEF Server!ConversationKey
  <2> QED
    BY <1>2, <1>3, <2>1, <2>3
<1>5. ASSUME NEW e \in groupHistory, e.msg.receiver = u PROVE Opens(c, e.msg)
  BY <1>2, <1>5 DEF HInv, HistoriesSealed
<1> QED
  BY <1>4, <1>5

(* The other operations send and store nothing; two of them create a group *)
(* or remove entries.                                                      *)
LEMMA CreateGroupHInv ==
  ASSUME UsersKept, HInv, NEW c \in Clients, NEW name \in GroupNames, NEW invited,
         CreateGroup(c, name, invited)
  PROVE  HInv'
<1>1. /\ DOMAIN groups' = DOMAIN groups \cup {<<nextGroupId, name>>}
      /\ nextGroupId' = nextGroupId + 1
      /\ UNCHANGED <<users, history, groupHistory, calls>>
  BY DEF CreateGroup, Server!CreateGroup, Server!Emplace, aloneVars, sendVars
<1>2. GroupIds'
  BY <1>1, NoChatAssumption DEF HInv, GroupIds
<1>3. CallsSealed'
  BY <1>1 DEF HInv, CallsSealed, GoodFrame, Sealed
<1> QED
  BY <1>1, <1>2, <1>3, SameHistories DEF HInv

(* A deletion takes away from the histories only.                          *)
LEMMA DeleteHInv ==
  ASSUME HInv, NEW c \in Clients, NEW id, DeleteMessageForAll(c, id)
  PROVE  HInv'
<1>1. /\ history' \subseteq history /\ groupHistory' \subseteq groupHistory
      /\ UNCHANGED <<users, groups, nextGroupId, calls>>
  BY DEF DeleteMessageForAll, Server!DeleteMessageForAll, aloneVars, sendVars
<1>2. CallsSealed'
  BY <1>1 DEF HInv, CallsSealed, GoodFrame, Sealed
<1>3. HistoriesSealed'
  BY <1>1 DEF HInv, HistoriesSealed, Sealed, Server!ConversationKey
<1> QED
  BY <1>1, <1>2, <1>3 DEF HInv, GroupIds

(* A new process has no message.                                           *)
LEMMA FreshHInv == Fresh => HInv
  BY DEF Fresh, Server!Init, Server!EmptyMap, EmptyMap, HInv, CallsSealed, HistoriesSealed, GroupIds

(* A restart makes a new process.                                          *)
LEMMA RestartHInv == Restart => HInv'
  BY DEF Restart, EmptyMap, HInv, CallsSealed, HistoriesSealed, GroupIds

(* Every step keeps HInv.                                                  *)
LEMMA NextHInv ==
  ASSUME Saves
  PROVE  SInv /\ KInv /\ HInv /\ [Next]_vars => HInv'
<1> SUFFICES ASSUME SInv, KInv, HInv, [Next]_vars, ~Restart PROVE HInv'
  BY RestartHInv
<1> USE DEF KInv
<1>1. UsersKept
  BY StepKInv
<1>2. ASSUME UNCHANGED <<calls, history, groupHistory, groups, nextGroupId>> PROVE HInv'
  BY <1>1, <1>2, HFrame
<1>3. CASE UNCHANGED vars
  BY <1>2, <1>3 DEF vars, serverVars, sendVars
<1>4. ASSUME NEW c \in Clients, NEW p \in Passwords, NEW saving \in SaveOutcomes,
             Register(c, p, saving)
      PROVE  HInv'
  BY <1>2, <1>4 DEF Register, Server!RegisterUser, serverVars, sendVars
<1>5. ASSUME NEW c \in Clients, NEW p \in Passwords, LogIn(c, p) \/ LogInFails(c, p) PROVE HInv'
  BY <1>2, <1>5 DEF LogIn, LogInFails, serverVars, sendVars
<1>6. ASSUME NEW c \in Clients, LogOut(c) PROVE HInv'
  BY <1>2, <1>6 DEF LogOut, serverVars, sendVars
<1>7. ASSUME NEW c \in Clients, NEW u \in Contacts, AddContact(c, u) \/ RemoveContact(c, u)
      PROVE  HInv'
  BY <1>2, <1>7 DEF AddContact, RemoveContact, Server!AddContact, Server!RemoveContact,
                    aloneVars, sendVars
<1>8. ASSUME NEW k \in Callers, CallStep(k) PROVE HInv'
  BY <1>8, NextMemberHInv, EndGroupSendHInv, TransportHInv, StoreHInv DEF CallStep
<1> QED
  BY <1>1, <1>3, <1>4, <1>5, <1>6, <1>7, <1>8, CreateGroupHInv, DeleteHInv, BeginSendHInv,
     BeginGroupSendHInv
     DEF Next

(* When the key files are saved, no history ever holds a message that one  *)
(* of the clients it is shown to cannot open, however sends overlap with   *)
(* each other and with logins, deletions and restarts.                     *)
THEOREM HistoryCorrect == ASSUME Saves PROVE Spec => []HistoryReadable
<1>1. Init => SInv /\ KInv /\ HInv
  BY FreshSInv, InitKInv, FreshHInv DEF Init
<1>2. SInv /\ KInv /\ HInv /\ [Next]_vars => (SInv /\ KInv /\ HInv)'
  BY NextSInv, NextKInv, NextHInv
<1>3. SInv /\ KInv /\ HInv => HistoryReadable
  BY HInvReadable DEF KInv
<1> QED
  BY <1>1, <1>2, <1>3, PTL DEF Spec

-----------------------------------------------------------------------------
(* Types.  Those of the two servers are shown operation by operation, then *)
(* those of the clients' own state.  What TypeOK lacks to be inductive is  *)
(* FrameOK, which says at which places of a send there is a message and    *)
(* whose it is, and that a connected client has a name (SInv).             *)

USE NoMessageAssumption

(* A send has a message from its building to its storing, and it is one of *)
(* the call's own; a direct send ends when its message is stored.          *)
FrameOK(f) ==
  /\ f \in Frame
  /\ f.msg = NoMessage <=> f.pc = "build"
  /\ f.chat = NoChat => f.pc # "build" /\ f.left = {}
  /\ f.pc # "build" => /\ f.msg.sender = NameOf[f.client]
                       /\ f.msg.chatId = f.chat
                       /\ f.msg.payload = f.payload

CallTypes ==
  /\ DOMAIN calls \subseteq Callers
  /\ calls \in [DOMAIN calls -> Frame]
  /\ \A k \in DOMAIN calls : FrameOK(calls[k])

KeyTypes ==
  /\ keyPair \in [Clients -> [pub : Nat, priv : Nat]]
  /\ DOMAIN privFile \subseteq Names /\ privFile \in [DOMAIN privFile -> Nat]
  /\ DOMAIN pubFile \subseteq Names /\ pubFile \in [DOMAIN pubFile -> Nat]
  /\ nextKey \in Keys

Event == [from : Names, messageId : Nat]

RestTypes ==
  /\ registered \in [Clients -> BOOLEAN]
  /\ loggedIn \in [Clients -> BOOLEAN]
  /\ events \in [Clients -> Seq(Event)]
  /\ nextMessage \in Nat /\ nextPayload \in Nat /\ restarts \in Nat

TInv == Server!TypeOK /\ Net!TypeOK /\ CallTypes /\ KeyTypes /\ RestTypes

(* TInv says more than TypeOK.                                             *)
LEMMA TInvTypeOK == TInv => TypeOK
  BY DEF TInv, CallTypes, KeyTypes, RestTypes, Event, TypeOK

-----------------------------------------------------------------------------
(* The server. *)

(* What leaves the server alone keeps its types.                           *)
LEMMA ServerSame == Server!TypeOK /\ UNCHANGED serverVars => Server!TypeOK'
  BY DEF serverVars, Server!TypeOK

(* registerUser keeps the types of the server.                             *)
LEMMA RegisterTyped ==
  ASSUME Server!TypeOK, NEW u \in Names, NEW p \in Passwords, NEW key \in Keys,
         Server!RegisterUser(u, p, key)
  PROVE  Server!TypeOK'
<1> DEFINE account == [passwordHash |-> p, publicKeyPem |-> key, contacts |-> {}]
<1>1. account \in Server!UserRecord
  BY DEF Server!UserRecord
<1>2. users' = Server!Emplace(users, u, account)
      /\ UNCHANGED <<groups, nextGroupId, history, groupHistory, places, erased>>
  BY DEF Server!RegisterUser
<1> HIDE DEF account
<1>3. DOMAIN users' \subseteq Names /\ users' \in [DOMAIN users' -> Server!UserRecord]
  BY <1>1, <1>2 DEF Server!Emplace, Server!TypeOK
<1> QED
  BY <1>2, <1>3 DEF Server!TypeOK

(* addContact and removeContact keep the types of the server.              *)
LEMMA ContactsTyped ==
  ASSUME Server!TypeOK, NEW u \in Names, NEW v, Server!AddContact(u, v) \/ Server!RemoveContact(u, v)
  PROVE  Server!TypeOK'
<1>1. PICK new \in SUBSET Names : users' = [users EXCEPT ![u].contacts = new]
  BY DEF Server!AddContact, Server!RemoveContact, Server!Registered, Server!TypeOK, Server!UserRecord
<1>2. UNCHANGED <<groups, nextGroupId, history, groupHistory, places, erased>>
      /\ u \in DOMAIN users
  BY DEF Server!AddContact, Server!RemoveContact, Server!Registered
<1>3. DOMAIN users' \subseteq Names /\ users' \in [DOMAIN users' -> Server!UserRecord]
  BY <1>1, <1>2 DEF Server!TypeOK, Server!UserRecord
<1> QED
  BY <1>2, <1>3 DEF Server!TypeOK

(* createGroup keeps the types of the server.                              *)
LEMMA GroupTyped ==
  ASSUME Server!TypeOK, NEW u \in Names, NEW name \in GroupNames, NEW invited,
         Server!CreateGroup(u, name, invited)
  PROVE  Server!TypeOK'
<1> DEFINE id == <<nextGroupId, name>>
           record == [groupName |-> name, owner |-> u,
                      members |-> {u} \cup {m \in invited : Server!Registered(m)}]
<1>1. record \in Server!GroupRecord /\ id \in Server!GroupIds
  BY DEF Server!GroupRecord, Server!GroupIds, Server!Registered, Server!TypeOK
<1>2. groups' = Server!Emplace(groups, id, record) /\ nextGroupId' = nextGroupId + 1
      /\ UNCHANGED <<users, history, groupHistory, places, erased>>
  BY DEF Server!CreateGroup
<1> HIDE DEF id, record
<1>3. DOMAIN groups' \subseteq Server!GroupIds /\ groups' \in [DOMAIN groups' -> Server!GroupRecord]
  BY <1>1, <1>2 DEF Server!Emplace, Server!TypeOK
<1> QED
  BY <1>2, <1>3 DEF Server!TypeOK

(* storeMessage keeps the types of the server.                             *)
LEMMA StoreTyped ==
  ASSUME Server!TypeOK, NEW m \in Message, Server!StoreMessage(m)
  PROVE  Server!TypeOK'
<1>1. /\ m.sender \in Names /\ m.receiver \in Names
      /\ m.isGroupMessage => m.chatId \in Server!GroupIds
  BY DEF Message, ChatIds, Server!GroupIds
<1>2. places \in Nat /\ places' = places + 1 /\ UNCHANGED <<users, groups, nextGroupId, erased>>
  BY DEF Server!StoreMessage, Server!TypeOK
<1>3. CASE m.isGroupMessage
  <2>1. [key |-> m.chatId, place |-> places, msg |-> m] \in Server!GroupEntry
    BY <1>1, <1>2, <1>3 DEF Server!GroupEntry
  <2> QED
    BY <1>2, <1>3, <2>1 DEF Server!StoreMessage, Server!TypeOK
<1>4. CASE ~m.isGroupMessage
  <2>1. Server!ConversationKey(m.sender, m.receiver) \in Names \X Names
    BY <1>1 DEF Server!ConversationKey
  <2>2. [key |-> Server!ConversationKey(m.sender, m.receiver), place |-> places, msg |-> m]
           \in Server!DirectEntry
    BY <1>2, <2>1 DEF Server!DirectEntry
  <2> QED
    BY <1>2, <1>4, <2>2 DEF Server!StoreMessage, Server!TypeOK
<1> QED
  BY <1>3, <1>4

(* deleteMessageForAll keeps the types of the server.                      *)
LEMMA DeleteTyped ==
  ASSUME Server!TypeOK, NEW u \in Names, NEW id, Server!DeleteMessageForAll(u, id)
  PROVE  Server!TypeOK'
<1>1. PICK gone \in SUBSET (history \cup groupHistory) :
        /\ history' = history \ gone /\ groupHistory' = groupHistory \ gone
        /\ erased' = erased \cup {[by |-> u, entry |-> e] : e \in gone}
  BY DEF Server!DeleteMessageForAll
<1>2. UNCHANGED <<users, groups, nextGroupId, places>>
  BY DEF Server!DeleteMessageForAll
<1>3. gone \subseteq Server!DirectEntry \cup Server!GroupEntry
  BY <1>1 DEF Server!TypeOK
<1>4. erased' \subseteq [by : Names, entry : Server!DirectEntry \cup Server!GroupEntry]
  BY <1>1, <1>3 DEF Server!TypeOK
<1> QED
  BY <1>1, <1>2, <1>4 DEF Server!TypeOK

-----------------------------------------------------------------------------
(* The transport. *)

(* What leaves the transport alone keeps its types.                        *)
LEMMA NetSame == Net!TypeOK /\ UNCHANGED netVars => Net!TypeOK'
  BY DEF netVars, Net!TypeOK

(* connect keeps the types of the transport.                               *)
LEMMA ConnectTyped ==
  ASSUME Net!TypeOK, NEW c \in Clients, NEW u \in Names, Net!Connect(c, u)
  PROVE  Net!TypeOK'
<1>1. /\ handlers' = Net!Emplace(handlers, u, c)
      /\ connected' = [connected EXCEPT ![c] = TRUE]
      /\ username' = [username EXCEPT ![c] = u]
      /\ UNCHANGED <<sending, inbox>>
  BY DEF Net!Connect
<1>2. DOMAIN handlers' \subseteq Names /\ handlers' \in [DOMAIN handlers' -> Clients]
  BY <1>1 DEF Net!Emplace, Net!TypeOK
<1> QED
  BY <1>1, <1>2 DEF Net!TypeOK

(* disconnect keeps the types of the transport.                            *)
LEMMA DisconnectTyped ==
  ASSUME Net!TypeOK, NEW c \in Clients, Net!Disconnect(c)
  PROVE  Net!TypeOK'
<1>1. /\ handlers' = Net!Erase(handlers, username[c])
      /\ connected' = [connected EXCEPT ![c] = FALSE]
      /\ username' = [username EXCEPT ![c] = NoName]
      /\ UNCHANGED <<sending, inbox>>
  BY DEF Net!Disconnect
<1>2. DOMAIN handlers' \subseteq Names /\ handlers' \in [DOMAIN handlers' -> Clients]
  BY <1>1 DEF Net!Erase, Net!Restrict, Net!TypeOK
<1> QED
  BY <1>1, <1>2 DEF Net!TypeOK

(* The sender of a lookup is connected, so the name it gives is its own.   *)
LEMMA LookupTyped ==
  ASSUME SInv, Net!TypeOK, NEW k \in Callers, NEW c \in Clients, NEW to, NEW m \in Message,
         Net!SendLookup(k, c, to, m)
  PROVE  Net!TypeOK'
<1> DEFINE pending == [to |-> to, handler |-> handlers[to],
                       from |-> username[c], payload |-> m]
<1>1. username[c] \in Names
  BY DEF Net!SendLookup, Net!Reaches, SInv, SessionTypes, LoggedInRegistered
<1>2. pending \in Net!PendingCall
  BY <1>1 DEF Net!SendLookup, Net!Reaches, Net!IsOnline, Net!PendingCall, Net!TypeOK
<1>3. sending' = Net!Emplace(sending, k, pending)
      /\ UNCHANGED <<handlers, connected, username, inbox>>
  BY DEF Net!SendLookup
<1> HIDE DEF pending
<1>4. DOMAIN sending' \subseteq Callers /\ sending' \in [DOMAIN sending' -> Net!PendingCall]
  BY <1>2, <1>3 DEF Net!Emplace, Net!TypeOK
<1> QED
  BY <1>3, <1>4 DEF Net!TypeOK

(* A call of a handler keeps the types of the transport.                   *)
LEMMA DeliverTyped ==
  ASSUME Net!TypeOK, NEW k \in Callers, Net!Deliver(k)
  PROVE  Net!TypeOK'
<1> DEFINE call == [from |-> sending[k].from, payload |-> sending[k].payload]
<1>1. sending[k] \in Net!PendingCall
  BY DEF Net!Deliver, Net!TypeOK
<1>2. call \in Net!Call /\ sending[k].handler \in Clients
  BY <1>1 DEF Net!PendingCall, Net!Call
<1>3. inbox' = [inbox EXCEPT ![sending[k].handler] = Append(@, call)]
      /\ sending' = Net!Erase(sending, k)
      /\ UNCHANGED <<handlers, connected, username>>
  BY DEF Net!Deliver
<1> HIDE DEF call
<1>4. inbox' \in [Clients -> Seq(Net!Call)]
  BY <1>2, <1>3 DEF Net!TypeOK
<1>5. DOMAIN sending' \subseteq Callers /\ sending' \in [DOMAIN sending' -> Net!PendingCall]
  BY <1>3 DEF Net!Erase, Net!Restrict, Net!TypeOK
<1> QED
  BY <1>3, <1>4, <1>5 DEF Net!TypeOK

-----------------------------------------------------------------------------
(* The clients. *)

(* What leaves the sends alone keeps their types.                          *)
LEMMA CallsSame == CallTypes /\ UNCHANGED calls => CallTypes'
  BY DEF CallTypes, FrameOK

(* What leaves the keys alone keeps their types.                           *)
LEMMA KeysSame == KeyTypes /\ UNCHANGED <<keyPair, diskVars, nextKey>> => KeyTypes'
  BY DEF diskVars, KeyTypes

(* What leaves the rest alone keeps its types.                             *)
LEMMA RestSame ==
  RestTypes /\ UNCHANGED <<registered, loggedIn, events, nextMessage, nextPayload, restarts>>
    => RestTypes'
  BY DEF RestTypes

(* One call begins with the frame f, goes on with it, or ends. *)
LEMMA CallTyped ==
  ASSUME CallTypes, NEW k \in Callers, NEW f,
         \/ FrameOK(f) /\ k \notin DOMAIN calls /\ calls' = Emplace(calls, k, f)
         \/ FrameOK(f) /\ k \in DOMAIN calls /\ calls' = [calls EXCEPT ![k] = f]
         \/ calls' = Erase(calls, k)
  PROVE  CallTypes'
<1>1. CASE FrameOK(f) /\ k \notin DOMAIN calls /\ calls' = Emplace(calls, k, f)
  <2>1. DOMAIN calls' = DOMAIN calls \cup {k} /\ calls' \in [DOMAIN calls' -> Frame]
    BY <1>1 DEF Emplace, CallTypes, FrameOK
  <2>2. \A j \in DOMAIN calls' : calls'[j] = f \/ (j \in DOMAIN calls /\ calls'[j] = calls[j])
    BY <1>1 DEF Emplace
  <2> QED
    BY <1>1, <2>1, <2>2 DEF CallTypes, FrameOK
<1>2. CASE FrameOK(f) /\ k \in DOMAIN calls /\ calls' = [calls EXCEPT ![k] = f]
  <2>1. DOMAIN calls' = DOMAIN calls /\ calls' \in [DOMAIN calls' -> Frame]
    BY <1>2 DEF CallTypes, FrameOK
  <2>2. \A j \in DOMAIN calls' : calls'[j] = f \/ calls'[j] = calls[j]
    BY <1>2 DEF CallTypes
  <2> QED
    BY <1>2, <2>1, <2>2 DEF CallTypes, FrameOK
<1>3. CASE calls' = Erase(calls, k)
  <2>1. DOMAIN calls' \subseteq DOMAIN calls /\ calls' \in [DOMAIN calls' -> Frame]
    BY <1>3 DEF Erase, Restrict, CallTypes
  <2>2. \A j \in DOMAIN calls' : calls'[j] = calls[j]
    BY <1>3 DEF Erase, Restrict
  <2> QED
    BY <2>1, <2>2 DEF CallTypes, FrameOK
<1> QED
  BY <1>1, <1>2, <1>3

(* Message::build fills every field with a value of its type. *)
LEMMA BuildTyped ==
  ASSUME Server!TypeOK, NEW from \in Names, NEW to \in DOMAIN users, NEW chat \in ChatIds,
         NEW selfKey \in Nat, NEW payload \in Nat, nextMessage \in Nat
  PROVE  Build(from, to, chat, selfKey, payload) \in Message
<1>1. Server!GetPublicKey(to) \in Keys /\ to \in Names
  BY DEF Server!GetPublicKey, Server!Registered, Server!TypeOK, Server!UserRecord
<1> QED
  BY <1>1 DEF Build, Message

(* A message with its status set is a message.                             *)
LEMMA StatusTyped ==
  ASSUME NEW m \in Message, NEW sent \in BOOLEAN
  PROVE  [m EXCEPT !.status = Status(sent)] \in Message
  BY DEF Message, Status

-----------------------------------------------------------------------------
(* The actions. *)

(* A new process has the types of all that does not outlive it.            *)
LEMMA FreshTyped ==
  ASSUME Fresh
  PROVE  /\ Server!TypeOK /\ Net!TypeOK /\ CallTypes
         /\ keyPair \in [Clients -> [pub : Nat, priv : Nat]]
         /\ registered \in [Clients -> BOOLEAN] /\ loggedIn \in [Clients -> BOOLEAN]
         /\ events \in [Clients -> Seq(Event)]
<1>1. <<>> \in Seq(Event) /\ <<>> \in Seq(Net!Call)
  OBVIOUS
<1>2. Server!TypeOK
  BY DEF Fresh, Server!Init, Server!EmptyMap, Server!TypeOK
<1>3. Net!TypeOK
  BY <1>1 DEF Fresh, Net!Init, Net!EmptyMap, Net!TypeOK
<1>4. CallTypes
  BY DEF Fresh, EmptyMap, CallTypes
<1> QED
  BY <1>1, <1>2, <1>3, <1>4 DEF Fresh, NoKey

(* TInv holds at the start.                                                *)
LEMMA InitTInv == Init => TInv
<1> SUFFICES ASSUME Init PROVE TInv
  OBVIOUS
<1>1. KeyTypes
  BY FreshTyped DEF Init, EmptyMap, KeyTypes, Keys, NoKey
<1>2. RestTypes
  BY FreshTyped DEF Init, RestTypes
<1> QED
  BY <1>1, <1>2, FreshTyped DEF Init, TInv

(* A restart keeps TInv.                                                   *)
LEMMA RestartTInv == TInv /\ Restart => TInv'
<1> SUFFICES ASSUME TInv, Restart PROVE TInv'
  OBVIOUS
<1>1. <<>> \in Seq(Event) /\ <<>> \in Seq(Net!Call)
  OBVIOUS
<1>2. Server!TypeOK'
  BY DEF Restart, EmptyMap, Server!TypeOK
<1>3. Net!TypeOK'
  BY <1>1 DEF Restart, EmptyMap, Net!TypeOK
<1>4. CallTypes'
  BY DEF Restart, EmptyMap, CallTypes
<1>5. KeyTypes'
  BY DEF Restart, diskVars, NoKey, TInv, KeyTypes
<1>6. RestTypes'
  BY <1>1 DEF Restart, TInv, RestTypes
<1> QED
  BY <1>2, <1>3, <1>4, <1>5, <1>6 DEF TInv

(* Whatever saving does to a file, it holds a key or nothing. *)
LEMMA WriteTyped ==
  ASSUME NEW file, DOMAIN file \subseteq Names, file \in [DOMAIN file -> Nat],
         NEW u \in Names, NEW key \in Nat, NEW how \in FileWrite
  PROVE  /\ DOMAIN Write(file, u, key, how) \subseteq Names
         /\ Write(file, u, key, how) \in [DOMAIN Write(file, u, key, how) -> Nat]
<1>1. CASE how = "written"
  BY <1>1 DEF Write, Assign
<1>2. CASE how = "emptied"
  BY <1>2 DEF Write, Assign, NoKey
<1>3. CASE how = "kept"
  BY <1>3 DEF Write
<1> QED
  BY <1>1, <1>2, <1>3 DEF FileWrite

(* A registration keeps TInv.                                              *)
LEMMA RegisterTInv ==
  ASSUME TInv, NEW c \in Clients, NEW p \in Passwords, NEW saving \in SaveOutcomes,
         Register(c, p, saving)
  PROVE  TInv'
<1> DEFINE u == NameOf[c]
<1>1. u \in Names /\ nextKey \in Keys /\ nextKey \in Nat /\ nextKey + 1 \in Keys
  BY DEF TInv, KeyTypes, Keys, NoKey
<1>2. UNCHANGED <<netVars, loggedIn, sendVars, restarts>>
      /\ nextKey' = nextKey + 1
      /\ keyPair' = [keyPair EXCEPT ![c] = [pub |-> nextKey, priv |-> nextKey]]
  BY DEF Register
<1>3. keyPair' \in [Clients -> [pub : Nat, priv : Nat]] /\ nextKey' \in Keys
  BY <1>1, <1>2 DEF TInv, KeyTypes
<1>4. saving.priv \in FileWrite /\ saving.pub \in FileWrite
  BY SaveOutcomesAssumption
<1>5. Net!TypeOK' /\ CallTypes'
  BY <1>2, NetSame, CallsSame DEF TInv, sendVars
<1>6. CASE /\ Server!RegisterUser(u, p, nextKey)
           /\ registered' = [registered EXCEPT ![c] = TRUE]
           /\ privFile' = Write(privFile, u, nextKey, saving.priv)
           /\ pubFile' = Write(pubFile, u, nextKey, saving.pub)
  <2>1. Server!TypeOK'
    BY <1>1, <1>6, RegisterTyped DEF TInv
  <2>2. DOMAIN privFile' \subseteq Names /\ privFile' \in [DOMAIN privFile' -> Nat]
    BY <1>1, <1>4, <1>6, WriteTyped DEF TInv, KeyTypes
  <2>3. DOMAIN pubFile' \subseteq Names /\ pubFile' \in [DOMAIN pubFile' -> Nat]
    BY <1>1, <1>4, <1>6, WriteTyped DEF TInv, KeyTypes
  <2>4. KeyTypes'
    BY <1>3, <2>2, <2>3 DEF KeyTypes
  <2>5. RestTypes'
    BY <1>2, <1>6 DEF TInv, RestTypes, sendVars
  <2> QED
    BY <1>5, <2>1, <2>4, <2>5 DEF TInv
<1>7. CASE UNCHANGED <<registered, serverVars, diskVars>>
  <2>1. KeyTypes'
    BY <1>3, <1>7 DEF TInv, KeyTypes, diskVars
  <2>2. RestTypes'
    BY <1>2, <1>7, RestSame DEF TInv, sendVars
  <2> QED
    BY <1>5, <1>7, <2>1, <2>2, ServerSame DEF TInv
<1> QED
  BY <1>6, <1>7 DEF Register

(* What is loaded from the key files is a pair, of empty keys where a file *)
(* is missing.                                                             *)
LEMMA LoadedTyped ==
  ASSUME KeyTypes, NEW c \in Clients
  PROVE  LoadedKeyPair(c) \in [pub : Nat, priv : Nat]
  BY DEF LoadedKeyPair, KeyTypes

(* Logins and logouts keep TInv.                                           *)
LEMMA SessionTInv ==
  ASSUME TInv, NEW c \in Clients,
         (\E p \in Passwords : LogIn(c, p) \/ LogInFails(c, p)) \/ LogOut(c)
  PROVE  TInv'
<1>1. UNCHANGED <<serverVars, diskVars, sendVars, nextKey, restarts>>
  BY DEF LogIn, LogInFails, LogOut
<1>2. Server!TypeOK' /\ CallTypes'
  BY <1>1, ServerSame, CallsSame DEF TInv, sendVars
<1>3. NameOf[c] \in Names
  OBVIOUS
<1>4. Net!TypeOK'
  BY <1>3, NetSame, ConnectTyped, DisconnectTyped DEF LogIn, LogInFails, LogOut, TInv
<1>5. keyPair' = keyPair \/ keyPair' = [keyPair EXCEPT ![c] = LoadedKeyPair(c)]
  BY DEF LogIn, LogInFails, LogOut
<1>6. KeyTypes'
  BY <1>1, <1>5, LoadedTyped DEF TInv, KeyTypes, diskVars
<1>7. /\ registered' = registered \/ registered' = [registered EXCEPT ![c] = TRUE]
      /\ \/ loggedIn' = loggedIn
         \/ loggedIn' = [loggedIn EXCEPT ![c] = TRUE]
         \/ loggedIn' = [loggedIn EXCEPT ![c] = FALSE]
  BY DEF LogIn, LogInFails, LogOut
<1>8. RestTypes'
  BY <1>1, <1>7 DEF TInv, RestTypes, sendVars
<1> QED
  BY <1>2, <1>4, <1>6, <1>8 DEF TInv

(* The calls that only the server changes its state in. *)
LEMMA AloneTInv ==
  ASSUME TInv, UNCHANGED aloneVars, Server!TypeOK'
  PROVE  TInv'
<1>1. Net!TypeOK' /\ CallTypes'
  BY NetSame, CallsSame DEF TInv, aloneVars, sendVars
<1>2. KeyTypes' /\ RestTypes'
  BY KeysSame, RestSame DEF TInv, aloneVars, sendVars, sessionVars
<1> QED
  BY <1>1, <1>2 DEF TInv

(* The start of a direct send keeps TInv.                                  *)
LEMMA BeginSendTInv ==
  ASSUME TInv, NEW k \in Callers, NEW c \in Clients, NEW to \in Names, BeginSend(k, c, to)
  PROVE  TInv'
<1> DEFINE m == Build(NameOf[c], to, NoChat, keyPair[c].pub, nextPayload)
           f == [client |-> c, chat |-> NoChat, left |-> {}, payload |-> nextPayload,
                 msg |-> m, pc |-> "send"]
<1>1. /\ k \notin DOMAIN calls /\ calls' = Emplace(calls, k, f)
      /\ nextMessage' = nextMessage + 1 /\ nextPayload' = nextPayload + 1
      /\ UNCHANGED <<serverVars, netVars, events, restVars>>
      /\ to \in DOMAIN users
  BY DEF BeginSend, NewId, Server!Registered
<1>2. /\ NameOf[c] \in Names /\ keyPair[c].pub \in Nat /\ nextPayload \in Nat /\ nextMessage \in Nat
      /\ NoChat \in ChatIds
  BY DEF TInv, KeyTypes, RestTypes, ChatIds
<1>3. /\ m \in Message
      /\ m.sender = NameOf[c] /\ m.chatId = NoChat /\ m.payload = nextPayload
  BY <1>1, <1>2, BuildTyped DEF TInv, Build
<1> HIDE DEF m
<1>4. FrameOK(f)
  BY <1>2, <1>3 DEF FrameOK, Frame
<1> HIDE DEF f
<1>5. CallTypes'
  BY <1>1, <1>4, CallTyped DEF TInv
<1>6. KeyTypes' /\ RestTypes'
  BY <1>1, KeysSame DEF TInv, RestTypes, restVars, sessionVars
<1> QED
  BY <1>1, <1>5, <1>6, ServerSame, NetSame DEF TInv

(* The start of a group send keeps TInv.                                   *)
LEMMA BeginGroupSendTInv ==
  ASSUME TInv, NEW k \in Callers, NEW c \in Clients, NEW g \in DOMAIN groups,
         BeginGroupSend(k, c, g)
  PROVE  TInv'
<1> DEFINE f == [client |-> c, chat |-> g, left |-> Recipients(c, g), payload |-> nextPayload,
                 msg |-> NoMessage, pc |-> "build"]
<1>1. /\ k \notin DOMAIN calls /\ calls' = Emplace(calls, k, f)
      /\ nextPayload' = nextPayload + 1
      /\ UNCHANGED <<serverVars, netVars, events, nextMessage, restVars>>
  BY DEF BeginGroupSend
<1>2. /\ g \in ChatIds /\ g # NoChat /\ Recipients(c, g) \subseteq Names /\ nextPayload \in Nat
  BY NoChatAssumption DEF TInv, RestTypes, ChatIds, Recipients, Server!GetGroupMembers,
     Server!TypeOK, Server!GroupIds, Server!GroupRecord
<1>3. FrameOK(f)
  BY <1>2 DEF FrameOK, Frame
<1> HIDE DEF f
<1>4. CallTypes'
  BY <1>1, <1>3, CallTyped DEF TInv
<1>5. KeyTypes' /\ RestTypes'
  BY <1>1, KeysSame DEF TInv, RestTypes, restVars, sessionVars
<1> QED
  BY <1>1, <1>4, <1>5, ServerSame, NetSame DEF TInv

(* A turn of the loop over the members keeps TInv.                         *)
LEMMA NextMemberTInv ==
  ASSUME TInv, NEW k \in Callers, NextMember(k)
  PROVE  TInv'
<1> DEFINE f == calls[k]
<1>1. /\ k \in DOMAIN calls /\ f.pc = "build" /\ FrameOK(f)
      /\ nextMessage' = nextMessage + 1
      /\ UNCHANGED <<serverVars, netVars, events, nextPayload, restVars>>
  BY DEF NextMember, NewId, TInv, CallTypes
<1>2. PICK to \in f.left :
        /\ to \in DOMAIN users
        /\ calls' = [calls EXCEPT ![k] = [f EXCEPT !.left = @ \ {to}, !.pc = "send",
              !.msg = Build(NameOf[f.client], to, f.chat, NoKey, f.payload)]]
  BY DEF NextMember, SetCall, Server!Registered
<1> DEFINE m == Build(NameOf[f.client], to, f.chat, NoKey, f.payload)
           g == [f EXCEPT !.left = @ \ {to}, !.pc = "send", !.msg = m]
<1>3. /\ f \in Frame /\ f.client \in Clients /\ NameOf[f.client] \in Names /\ f.chat \in ChatIds
      /\ f.payload \in Nat /\ f.chat # NoChat
  BY <1>1 DEF FrameOK, Frame
<1>4. /\ m \in Message
      /\ m.sender = NameOf[f.client] /\ m.chatId = f.chat /\ m.payload = f.payload
  <2>1. NoKey \in Nat /\ nextMessage \in Nat /\ Server!TypeOK
    BY DEF NoKey, TInv, RestTypes
  <2>2. m \in Message
    BY <1>2, <1>3, <2>1, BuildTyped
  <2> QED
    BY <2>2 DEF Build
<1>5. calls' = [calls EXCEPT ![k] = g]
  BY <1>2
<1> HIDE DEF m, f
<1>6. FrameOK(g)
  <2>1. g \in Frame
    BY <1>3, <1>4 DEF Frame
  <2>2. /\ g.client = f.client /\ g.chat = f.chat /\ g.payload = f.payload
        /\ g.msg = m /\ g.pc = "send"
    BY <1>3 DEF Frame
  <2> HIDE DEF g
  <2> QED
    BY <1>3, <1>4, <2>1, <2>2 DEF FrameOK
<1> HIDE DEF g
<1>7. CallTypes'
  BY <1>1, <1>5, <1>6, CallTyped DEF TInv
<1>8. KeyTypes' /\ RestTypes'
  BY <1>1, KeysSame DEF TInv, RestTypes, restVars, sessionVars
<1> QED
  BY <1>1, <1>7, <1>8, ServerSame, NetSame DEF TInv

(* The end of a group send keeps TInv.                                     *)
LEMMA EndGroupSendTInv ==
  ASSUME TInv, NEW k \in Callers, EndGroupSend(k)
  PROVE  TInv'
<1>1. /\ calls' = Erase(calls, k)
      /\ UNCHANGED <<serverVars, netVars, events, nextMessage, nextPayload, restVars>>
  BY DEF EndGroupSend
<1>2. CallTypes'
  BY <1>1, CallTyped DEF TInv
<1>3. KeyTypes' /\ RestTypes'
  BY <1>1, KeysSame, RestSame DEF TInv, restVars, sessionVars
<1> QED
  BY <1>1, <1>2, <1>3, ServerSame, NetSame DEF TInv

(* What a send's frame becomes while its message is on the transport. *)
LEMMA MovedFrame ==
  ASSUME NEW f, FrameOK(f), f.pc # "build", NEW pc \in {"send", "handing", "store"},
         NEW m \in Message, m.sender = f.msg.sender, m.chatId = f.msg.chatId,
         m.payload = f.msg.payload
  PROVE  FrameOK([f EXCEPT !.pc = pc, !.msg = m])
<1> DEFINE g == [f EXCEPT !.pc = pc, !.msg = m]
<1>1. f \in Frame
  BY DEF FrameOK
<1>2. g \in Frame /\ g.client = f.client /\ g.chat = f.chat /\ g.payload = f.payload
      /\ g.msg = m /\ g.pc = pc /\ g.left = f.left
  BY <1>1 DEF Frame
<1> HIDE DEF g
<1>3. FrameOK(g)
  BY <1>2 DEF FrameOK
<1> QED
  BY <1>3 DEF g

(* The three steps of a send on the transport: the message is the same but *)
(* for its status.                                                         *)
LEMMA TransportFrame ==
  ASSUME CallTypes, NEW k \in Callers, FindReceiver(k) \/ MissReceiver(k) \/ HandOver(k)
  PROVE  \E g : FrameOK(g) /\ calls' = [calls EXCEPT ![k] = g]
<1> DEFINE f == calls[k]
<1>1. /\ k \in DOMAIN calls /\ FrameOK(f) /\ f.pc # "build" /\ f \in Frame /\ f.msg \in Message
  BY DEF FindReceiver, MissReceiver, HandOver, CallTypes, FrameOK, Frame
<1>2. CASE FindReceiver(k)
  <2>1. calls' = [calls EXCEPT ![k] = [f EXCEPT !.pc = "handing", !.msg = f.msg]]
    BY <1>1, <1>2 DEF FindReceiver, SetCall, Frame
  <2> HIDE DEF f
  <2> QED
    BY <1>1, <2>1, MovedFrame
<1>3. CASE MissReceiver(k) \/ HandOver(k)
  <2>1. PICK sent \in BOOLEAN :
          calls' = [calls EXCEPT ![k] = [f EXCEPT !.pc = "store", !.msg.status = Status(sent)]]
    BY <1>3 DEF MissReceiver, HandOver, SetCall
  <2> DEFINE m == [f.msg EXCEPT !.status = Status(sent)]
  <2>2. /\ m \in Message /\ m.sender = f.msg.sender /\ m.chatId = f.msg.chatId
        /\ m.payload = f.msg.payload
    BY <1>1, StatusTyped DEF Message
  <2>3. calls' = [calls EXCEPT ![k] = [f EXCEPT !.pc = "store", !.msg = m]]
    BY <1>1, <2>1 DEF Frame
  <2> HIDE DEF f, m
  <2> QED
    BY <1>1, <2>2, <2>3, MovedFrame
<1> QED
  BY <1>2, <1>3

(* The transport's part of a send keeps TInv.                              *)
LEMMA TransportTInv ==
  ASSUME SInv, TInv, NEW k \in Callers, FindReceiver(k) \/ MissReceiver(k) \/ HandOver(k)
  PROVE  TInv'
<1>1. k \in DOMAIN calls /\ UNCHANGED <<serverVars, nextMessage, nextPayload, restVars>>
  BY DEF FindReceiver, MissReceiver, HandOver
<1>2. CallTypes'
  <2>1. PICK g : FrameOK(g) /\ calls' = [calls EXCEPT ![k] = g]
    BY TransportFrame DEF TInv
  <2> QED
    BY <1>1, <2>1, CallTyped DEF TInv
<1>3. Net!TypeOK'
  <2>1. CASE FindReceiver(k)
    <3>1. calls[k].client \in Clients /\ calls[k].msg \in Message
      BY <2>1 DEF FindReceiver, TInv, CallTypes, FrameOK, Frame
    <3> QED
      BY <2>1, <3>1, LookupTyped DEF FindReceiver, TInv
  <2>2. CASE MissReceiver(k)
    BY <2>2, NetSame DEF MissReceiver, TInv
  <2>3. CASE HandOver(k)
    BY <2>3, DeliverTyped DEF HandOver, TInv
  <2> QED
    BY <2>1, <2>2, <2>3
<1>4. events' \in [Clients -> Seq(Event)]
  <2>1. CASE events' = events
    BY <2>1 DEF TInv, RestTypes
  <2>2. CASE events' # events
    <3> DEFINE c == sending[k].handler
               e == [from |-> sending[k].from, messageId |-> sending[k].payload.messageId]
    <3>1. HandOver(k)
      BY <2>2 DEF FindReceiver, MissReceiver
    <3>2. sending[k] \in Net!PendingCall
      BY <3>1 DEF HandOver, Net!Deliver, TInv, Net!TypeOK
    <3>3. c \in Clients /\ e \in Event
      BY <3>2 DEF Net!PendingCall, Message, Event
    <3>4. events' = [events EXCEPT ![c] = Append(@, e)]
      BY <2>2, <3>1 DEF HandOver
    <3> HIDE DEF c, e
    <3> QED
      BY <3>3, <3>4 DEF TInv, RestTypes
  <2> QED
    BY <2>1, <2>2
<1>5. KeyTypes' /\ RestTypes'
  BY <1>1, <1>4, KeysSame DEF TInv, RestTypes, restVars, sessionVars
<1> QED
  BY <1>1, <1>2, <1>3, <1>5, ServerSame DEF TInv

(* Storing keeps TInv.                                                     *)
LEMMA StoreTInv ==
  ASSUME TInv, NEW k \in Callers, Store(k)
  PROVE  TInv'
<1> DEFINE f == calls[k]
           g == [f EXCEPT !.pc = "build", !.msg = NoMessage]
<1>1. /\ k \in DOMAIN calls /\ FrameOK(f) /\ f \in Frame /\ f.msg \in Message
      /\ Server!StoreMessage(f.msg)
      /\ UNCHANGED <<netVars, events, nextMessage, nextPayload, restVars>>
  BY DEF Store, TInv, CallTypes, FrameOK, Frame
<1>2. Server!TypeOK'
  BY <1>1, StoreTyped DEF TInv
<1>3. CallTypes'
  <2>1. CASE f.chat = NoChat
    BY <2>1, CallTyped DEF Store, TInv
  <2>2. CASE f.chat # NoChat
    <3>1. calls' = [calls EXCEPT ![k] = g]
      BY <2>2 DEF Store, SetCall
    <3> HIDE DEF f
    <3>2. g \in Frame /\ g.chat = f.chat /\ g.msg = NoMessage /\ g.pc = "build"
      BY <1>1 DEF Frame
    <3>3. FrameOK(g)
      BY <2>2, <3>2 DEF FrameOK
    <3> HIDE DEF g
    <3> QED
      BY <1>1, <3>1, <3>3, CallTyped DEF TInv
  <2> QED
    BY <2>1, <2>2
<1>4. KeyTypes' /\ RestTypes'
  BY <1>1, KeysSame, RestSame DEF TInv, restVars, sessionVars
<1> QED
  BY <1>1, <1>2, <1>3, <1>4, NetSame DEF TInv

(* Every step keeps TInv.                                                  *)
LEMMA NextTInv == SInv /\ TInv /\ [Next]_vars => TInv'
<1> SUFFICES ASSUME SInv, TInv, [Next]_vars PROVE TInv'
  OBVIOUS
<1>1. CASE UNCHANGED vars
  BY <1>1, ServerSame, NetSame, CallsSame, KeysSame, RestSame DEF TInv, vars, sendVars, sessionVars
<1>2. ASSUME NEW c \in Clients, NEW u \in Contacts, AddContact(c, u) \/ RemoveContact(c, u)
      PROVE  TInv'
  <2>1. Server!TypeOK' /\ UNCHANGED aloneVars
    BY <1>2, ContactsTyped DEF AddContact, RemoveContact, TInv
  <2> QED
    BY <2>1, AloneTInv
<1>3. ASSUME NEW c \in Clients, NEW name \in GroupNames, NEW invited \in Invitations,
             CreateGroup(c, name, invited)
      PROVE  TInv'
  BY <1>3, GroupTyped, AloneTInv DEF CreateGroup, TInv
<1>4. ASSUME NEW c \in Clients, NEW id, DeleteMessageForAll(c, id) PROVE TInv'
  BY <1>4, DeleteTyped, AloneTInv DEF DeleteMessageForAll, TInv
<1>5. ASSUME NEW k \in Callers, CallStep(k) PROVE TInv'
  BY <1>5, NextMemberTInv, EndGroupSendTInv, TransportTInv, StoreTInv DEF CallStep
<1> QED
  BY <1>1, <1>2, <1>3, <1>4, <1>5, RegisterTInv, SessionTInv, RestartTInv, BeginSendTInv,
     BeginGroupSendTInv
     DEF Next

(* The state keeps its types for any number of users, clients and sends.   *)
(* In particular nothing but a built message is ever stored or handed      *)
(* over, and a handler is told the name of a user as the sender.           *)
THEOREM ClientTypesCorrect == Spec => []TypeOK
<1>1. Init => SInv /\ TInv
  BY FreshSInv, InitTInv DEF Init
<1>2. SInv /\ TInv /\ [Next]_vars => (SInv /\ TInv)'
  BY NextSInv, NextTInv
<1> QED
  BY <1>1, <1>2, TInvTypeOK, PTL DEF Spec

=============================================================================
