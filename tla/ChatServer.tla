----------------------------- MODULE ChatServer -----------------------------
(***************************************************************************)
(* ChatServer: the accounts with their contacts, the groups, and the two   *)
(* histories of encrypted messages.  Every operation runs under one mutex  *)
(* and calls nothing outside, so an operation is one step.                 *)
(*                                                                         *)
(* A user name is a natural number, its place in the order of std::string. *)
(* A vector of a history map is the set of its entries; an entry's place   *)
(* is the moment it was appended, so the order and the repetitions of the  *)
(* vector are kept.                                                        *)
(***************************************************************************)
EXTENDS Naturals, FiniteSets, Maps

CONSTANTS
  Names,       \* user names
  Hashes,      \* password hashes
  PublicKeys,  \* public keys in PEM
  NoKey,       \* the empty string getPublicKey returns for an unknown name
  GroupNames,  \* names given to groups
  NoChat,      \* the empty chatId of a direct message
  Messages,    \* messages storeMessage may be given
  MaxGroups,   \* bound: groups created
  MaxPlaces    \* bound: messages stored

GroupIds == (Nat \ {0}) \X GroupNames

ASSUME NamesAssumption == Names \subseteq Nat
ASSUME NoKeyAssumption == NoKey \notin PublicKeys
ASSUME MessagesAssumption ==
  \A m \in Messages : /\ m.sender \in Names
                      /\ m.receiver \in Names
                      /\ m.isGroupMessage \in BOOLEAN
                      /\ m.isGroupMessage => m.chatId \in GroupIds
                      /\ ~m.isGroupMessage => m.chatId = NoChat

VARIABLES
  users,         \* users_: name -> account
  groups,        \* groups_: group id -> group
  nextGroupId,   \* nextGroupId_
  history,       \* history_: entries of direct conversations
  groupHistory,  \* groupHistory_: entries of group conversations
  places,        \* how many messages were stored so far
  erased         \* the entries deleteMessageForAll removed, and at whose request

vars == <<users, groups, nextGroupId, history, groupHistory, places, erased>>

UserRecord == [passwordHash : Hashes, publicKeyPem : PublicKeys, contacts : SUBSET Names]
GroupRecord == [groupName : GroupNames, owner : Names, members : SUBSET Names]
DirectEntry == [key : Names \X Names, place : Nat, msg : Messages]
GroupEntry == [key : GroupIds, place : Nat, msg : Messages]

TypeOK ==
  /\ DOMAIN users \subseteq Names
  /\ users \in [DOMAIN users -> UserRecord]
  /\ DOMAIN groups \subseteq GroupIds
  /\ groups \in [DOMAIN groups -> GroupRecord]
  /\ nextGroupId \in Nat \ {0}
  /\ history \subseteq DirectEntry
  /\ groupHistory \subseteq GroupEntry
  /\ places \in Nat
  /\ erased \subseteq [by : Names, entry : DirectEntry \cup GroupEntry]

Init ==
  /\ users = EmptyMap
  /\ groups = EmptyMap
  /\ nextGroupId = 1
  /\ history = {}
  /\ groupHistory = {}
  /\ places = 0
  /\ erased = {}

-----------------------------------------------------------------------------
(* What the read-only operations return. *)

Registered(u) == u \in DOMAIN users
Authenticates(u, hash) == Registered(u) /\ users[u].passwordHash = hash
GetPublicKey(u) == IF Registered(u) THEN users[u].publicKeyPem ELSE NoKey
GetGroupMembers(g) == IF g \in DOMAIN groups THEN groups[g].members ELSE {}
ListGroups(u) == {g \in DOMAIN groups : u \in groups[g].members}

(* Variant: a key that keeps the order of its arguments. *)
UnorderedConversationKey(a, b) == <<a, b>>

(* makeConversationKey joins the two names, the smaller one first, with    *)
(* "::".  The pair stands for the joined string: the two are one-to-one    *)
(* when no name holds a colon, which is the assumption of this module.     *)
ConversationKey(a, b) == IF a <= b THEN <<a, b>> ELSE <<b, a>>

GetConversation(a, b) == {e \in history : e.key = ConversationKey(a, b)}
GetGroupConversation(g) == {e \in groupHistory : e.key = g}

-----------------------------------------------------------------------------
(* Variant: a registration that skips the search for the name. *)
RegisterOver(u, hash, key) ==
  /\ users' = Assign(users, u, [passwordHash |-> hash, publicKeyPem |-> key, contacts |-> {}])
  /\ UNCHANGED <<groups, nextGroupId, history, groupHistory, places, erased>>

RegisterUser(u, hash, key) ==
  /\ ~Registered(u)
  /\ users' = Emplace(users, u, [passwordHash |-> hash, publicKeyPem |-> key, contacts |-> {}])
  /\ UNCHANGED <<groups, nextGroupId, history, groupHistory, places, erased>>

(* Variant: an insertion that looks for the owner only. *)
AddAnyContact(u, contact) ==
  /\ Registered(u)
  /\ contact \notin users[u].contacts
  /\ users' = [users EXCEPT ![u].contacts = @ \cup {contact}]
  /\ UNCHANGED <<groups, nextGroupId, history, groupHistory, places, erased>>

AddContact(u, contact) ==
  /\ Registered(u)
  /\ Registered(contact)
  /\ contact \notin users[u].contacts
  /\ users' = [users EXCEPT ![u].contacts = @ \cup {contact}]
  /\ UNCHANGED <<groups, nextGroupId, history, groupHistory, places, erased>>

RemoveContact(u, contact) ==
  /\ Registered(u)
  /\ contact \in users[u].contacts
  /\ users' = [users EXCEPT ![u].contacts = @ \ {contact}]
  /\ UNCHANGED <<groups, nextGroupId, history, groupHistory, places, erased>>

(* Variant: a creation that does not advance the counter. *)
CreateGroupSameNumber(u, name, invited) ==
  /\ Registered(u)
  /\ groups' = Assign(groups, <<nextGroupId, name>>,
                 [groupName |-> name, owner |-> u,
                  members |-> {u} \cup {m \in invited : Registered(m)}])
  /\ UNCHANGED <<users, nextGroupId, history, groupHistory, places, erased>>

(* The id "group-" n "-" name is the pair of the counter and the name. *)
CreateGroup(u, name, invited) ==
  /\ Registered(u)
  /\ groups' = Emplace(groups, <<nextGroupId, name>>,
                 [groupName |-> name, owner |-> u,
                  members |-> {u} \cup {m \in invited : Registered(m)}])
  /\ nextGroupId' = nextGroupId + 1
  /\ UNCHANGED <<users, history, groupHistory, places, erased>>

(* Variant: a storeMessage that files every message under its chatId. *)
StoreByChat(m) ==
  /\ groupHistory' = groupHistory \cup {[key |-> m.chatId, place |-> places, msg |-> m]}
  /\ places' = places + 1
  /\ UNCHANGED <<users, groups, nextGroupId, history, erased>>

StoreMessage(m) ==
  /\ IF m.isGroupMessage
       THEN /\ groupHistory' = groupHistory \cup {[key |-> m.chatId, place |-> places, msg |-> m]}
            /\ UNCHANGED history
       ELSE /\ history' = history \cup
                 {[key |-> ConversationKey(m.sender, m.receiver), place |-> places, msg |-> m]}
            /\ UNCHANGED groupHistory
  /\ places' = places + 1
  /\ UNCHANGED <<users, groups, nextGroupId, erased>>

(* Variant: a match that does not compare the sender. *)
MatchesId(e, requester, id) == e.msg.messageId = id

Matches(e, requester, id) == e.msg.messageId = id /\ e.msg.sender = requester

(* deleteMessageForAll; with nothing to remove it returns false. *)
DeleteMessageForAll(requester, id) ==
  LET gone == {e \in history \cup groupHistory : Matches(e, requester, id)} IN
  /\ gone # {}
  /\ history' = history \ gone
  /\ groupHistory' = groupHistory \ gone
  /\ erased' = erased \cup {[by |-> requester, entry |-> e] : e \in gone}
  /\ UNCHANGED <<users, groups, nextGroupId, places>>

Next ==
  \/ \E u \in Names, h \in Hashes, k \in PublicKeys : RegisterUser(u, h, k)
  \/ \E u, contact \in Names : AddContact(u, contact)
  \/ \E u, contact \in Names : RemoveContact(u, contact)
  \/ \E u \in Names, name \in GroupNames, invited \in SUBSET Names :
       nextGroupId <= MaxGroups /\ CreateGroup(u, name, invited)
  \/ \E m \in Messages : places < MaxPlaces /\ StoreMessage(m)
  \/ \E requester \in Names, m \in Messages : DeleteMessageForAll(requester, m.messageId)

Spec == Init /\ [][Next]_vars

-----------------------------------------------------------------------------
(* Every name that a contact list or a group holds is an account, so the   *)
(* loops over contacts and members never meet a user without a key; the    *)
(* owner of a group is one of its members.                                 *)
ReferencesResolve ==
  /\ \A u \in DOMAIN users : users[u].contacts \subseteq DOMAIN users
  /\ \A g \in DOMAIN groups : /\ groups[g].members \subseteq DOMAIN users
                              /\ groups[g].owner \in groups[g].members

(* The counter in an id is used for one group: the numbers given out are   *)
(* 1 .. nextGroupId - 1, no two groups share one, and the next createGroup *)
(* cannot hit an id whose emplace would be ignored.                        *)
GroupNumbersUnique ==
  /\ \A g \in DOMAIN groups : g[1] < nextGroupId
  /\ \A g, h \in DOMAIN groups : g[1] = h[1] => g = h

(* The two parties of a conversation, whichever of them asks, get all the  *)
(* direct messages between them and no message of anyone else; a group     *)
(* conversation holds the messages sent to that group and no direct one.   *)
(* This is for names without a colon, which is what makes a ConversationKey *)
(* of the pair of names the same as the code's string of the two joined     *)
(* with "::"; the code checks no name, and with colons two pairs may meet   *)
(* in one string.                                                           *)
ConversationsExact ==
  /\ \A a, b \in Names :
       GetConversation(a, b) = {e \in history : {e.msg.sender, e.msg.receiver} = {a, b}}
  /\ \A e \in history : ~e.msg.isGroupMessage
  /\ \A e \in groupHistory : e.msg.isGroupMessage /\ e.key = e.msg.chatId

(* A registered name keeps its password hash and its public key for good:  *)
(* a second registration under the name cannot take the account over.      *)
AccountsPermanent ==
  [][\A u \in DOMAIN users :
       /\ u \in DOMAIN users'
       /\ users'[u].passwordHash = users[u].passwordHash
       /\ users'[u].publicKeyPem = users[u].publicKeyPem]_vars

(* A group, once created, is never changed or replaced by a later one.     *)
GroupsPermanent ==
  [][\A g \in DOMAIN groups : g \in DOMAIN groups' /\ groups'[g] = groups[g]]_vars

(* No step loses a stored message, except that its own sender removed it;  *)
(* storing and deleting one message leaves every other entry in its place. *)
NothingLost ==
  [][\A e \in (history \cup groupHistory) \ (history' \cup groupHistory') :
       [by |-> e.msg.sender, entry |-> e] \in erased']_vars

=============================================================================
