-------------------------- MODULE ChatServerProofs --------------------------
(***************************************************************************)
(* The server's invariants hold for every set of names, messages and       *)
(* groups.  The inductive invariant IInv adds to the checked invariants    *)
(* only Filed: a direct entry lies under the key of its own two parties.   *)
(***************************************************************************)
EXTENDS ChatServer, TLAPS

USE NamesAssumption, MessagesAssumption

Filed == \A e \in history : e.key = ConversationKey(e.msg.sender, e.msg.receiver)

Sorted ==
  /\ \A e \in history : ~e.msg.isGroupMessage
  /\ \A e \in groupHistory : e.msg.isGroupMessage /\ e.key = e.msg.chatId

IInv == TypeOK /\ ReferencesResolve /\ GroupNumbersUnique /\ Filed /\ Sorted

(* Two pairs of names have the same conversation key exactly when they are *)
(* the same two names, as makeConversationKey intends by ordering them.    *)
LEMMA KeyIdentifiesPair ==
  ASSUME NEW a \in Names, NEW b \in Names, NEW c \in Names, NEW d \in Names
  PROVE  (ConversationKey(a, b) = ConversationKey(c, d)) <=> ({a, b} = {c, d})
<1>1. a \in Nat /\ b \in Nat /\ c \in Nat /\ d \in Nat
  OBVIOUS
<1>2. CASE a <= b /\ c <= d
  BY <1>1, <1>2 DEF ConversationKey
<1>3. CASE a <= b /\ ~(c <= d)
  BY <1>1, <1>3 DEF ConversationKey
<1>4. CASE ~(a <= b) /\ c <= d
  BY <1>1, <1>4 DEF ConversationKey
<1>5. CASE ~(a <= b) /\ ~(c <= d)
  BY <1>1, <1>5 DEF ConversationKey
<1> QED
  BY <1>2, <1>3, <1>4, <1>5

(* IInv holds at the start.                                                *)
LEMMA InitIInv == Init => IInv
  BY DEF Init, IInv, TypeOK, ReferencesResolve, GroupNumbersUnique, Filed, Sorted, EmptyMap

(* A registration adds an account without contacts. *)
LEMMA RegisterUserIInv ==
  ASSUME IInv, NEW u \in Names, NEW hash \in Hashes, NEW key \in PublicKeys,
         RegisterUser(u, hash, key)
  PROVE  IInv'
<1> DEFINE record == [passwordHash |-> hash, publicKeyPem |-> key, contacts |-> {}]
<1>1. record \in UserRecord /\ record.contacts = {}
  BY DEF UserRecord
<1>2. u \notin DOMAIN users /\ users' = Emplace(users, u, record)
  BY DEF RegisterUser, Registered
<1>3. UNCHANGED <<groups, nextGroupId, history, groupHistory, places, erased>>
  BY DEF RegisterUser
<1> HIDE DEF record
<1>4. /\ DOMAIN users' = DOMAIN users \cup {u}
      /\ users' \in [DOMAIN users \cup {u} -> UserRecord]
      /\ users'[u] = record
      /\ \A x \in DOMAIN users : users'[x] = users[x]
  BY <1>1, <1>2 DEF Emplace, IInv, TypeOK
<1>5. TypeOK'
  BY <1>3, <1>4 DEF IInv, TypeOK
<1>6. ReferencesResolve'
  BY <1>1, <1>3, <1>4 DEF IInv, ReferencesResolve
<1> QED
  BY <1>3, <1>5, <1>6 DEF IInv, GroupNumbersUnique, Filed, Sorted

(* The contacts of one account change, to names that are accounts. *)
LEMMA ContactsIInv ==
  ASSUME IInv, NEW u \in DOMAIN users, NEW contacts \in SUBSET DOMAIN users,
         users' = [users EXCEPT ![u].contacts = contacts],
         UNCHANGED <<groups, nextGroupId, history, groupHistory, places, erased>>
  PROVE  IInv'
<1>1. contacts \in SUBSET Names
  BY DEF IInv, TypeOK
<1>2. users' = [users EXCEPT ![u] = [users[u] EXCEPT !.contacts = contacts]]
  OBVIOUS
<1>3. [users[u] EXCEPT !.contacts = contacts] \in UserRecord
  BY <1>1 DEF IInv, TypeOK, UserRecord
<1>4. /\ DOMAIN users' = DOMAIN users
      /\ users' \in [DOMAIN users -> UserRecord]
  BY <1>2, <1>3 DEF IInv, TypeOK
<1>5. TypeOK'
  BY <1>4 DEF IInv, TypeOK
<1>6. ReferencesResolve'
  BY <1>2, <1>4 DEF IInv, TypeOK, UserRecord, ReferencesResolve
<1> QED
  BY <1>5, <1>6 DEF IInv, GroupNumbersUnique, Filed, Sorted

(* A new group gets the counter's number, which no group has, and members  *)
(* that are accounts.                                                      *)
LEMMA CreateGroupIInv ==
  ASSUME IInv, NEW u \in Names, NEW name \in GroupNames, NEW invited \in SUBSET Names,
         CreateGroup(u, name, invited)
  PROVE  IInv'
<1> DEFINE id == <<nextGroupId, name>>
           record == [groupName |-> name, owner |-> u,
                      members |-> {u} \cup {m \in invited : Registered(m)}]
<1>1. /\ record \in GroupRecord
      /\ record.members \subseteq DOMAIN users
      /\ record.owner \in record.members
  BY DEF CreateGroup, Registered, GroupRecord, IInv, TypeOK
<1>2. id \in GroupIds /\ id[1] = nextGroupId /\ nextGroupId \in Nat
  BY DEF GroupIds, IInv, TypeOK
<1>3. /\ groups' = Emplace(groups, id, record)
      /\ nextGroupId' = nextGroupId + 1
      /\ UNCHANGED <<users, history, groupHistory, places, erased>>
  BY DEF CreateGroup
<1> HIDE DEF id, record
<1>4. \A g \in DOMAIN groups : g \in GroupIds /\ g[1] \in Nat /\ g[1] < nextGroupId
  BY DEF IInv, TypeOK, GroupIds, GroupNumbersUnique
<1>5. id \notin DOMAIN groups
  BY <1>2, <1>4
<1>6. /\ DOMAIN groups' = DOMAIN groups \cup {id}
      /\ groups' \in [DOMAIN groups \cup {id} -> GroupRecord]
      /\ groups'[id] = record
      /\ \A g \in DOMAIN groups : groups'[g] = groups[g]
  BY <1>1, <1>3, <1>5 DEF Emplace, IInv, TypeOK
<1>7. TypeOK'
  BY <1>2, <1>3, <1>6 DEF IInv, TypeOK
<1>8. ReferencesResolve'
  BY <1>1, <1>3, <1>6 DEF IInv, ReferencesResolve
<1>9. GroupNumbersUnique'
  BY <1>2, <1>3, <1>4, <1>6 DEF IInv, GroupNumbersUnique
<1> QED
  BY <1>3, <1>7, <1>8, <1>9 DEF IInv, Filed, Sorted

(* A stored message goes to one of the histories, under the key of its own *)
(* parties or of its own group.                                            *)
LEMMA StoreMessageIInv ==
  ASSUME IInv, NEW m \in Messages, StoreMessage(m)
  PROVE  IInv'
<1>1. /\ m.sender \in Names /\ m.receiver \in Names
      /\ m.isGroupMessage => m.chatId \in GroupIds
  OBVIOUS
<1>2. /\ places \in Nat /\ places' = places + 1
      /\ UNCHANGED <<users, groups, nextGroupId, erased>>
  BY DEF StoreMessage, IInv, TypeOK
<1>3. CASE m.isGroupMessage
  <2> DEFINE entry == [key |-> m.chatId, place |-> places, msg |-> m]
  <2>1. /\ groupHistory' = groupHistory \cup {entry} /\ history' = history
        /\ entry \in GroupEntry /\ entry.key = m.chatId /\ entry.msg = m
    BY <1>1, <1>2, <1>3 DEF StoreMessage, GroupEntry
  <2> HIDE DEF entry
  <2> QED
    BY <1>2, <1>3, <2>1
    DEF IInv, TypeOK, ReferencesResolve, GroupNumbersUnique, Filed, Sorted
<1>4. CASE ~m.isGroupMessage
  <2> DEFINE key == ConversationKey(m.sender, m.receiver)
             entry == [key |-> key, place |-> places, msg |-> m]
  <2>1. key \in Names \X Names
    BY <1>1 DEF ConversationKey
  <2> HIDE DEF key
  <2>2. entry \in DirectEntry /\ entry.key = key /\ entry.msg = m
    BY <1>2, <2>1 DEF DirectEntry
  <2>3. history' = history \cup {entry} /\ groupHistory' = groupHistory
    BY <1>4 DEF StoreMessage, key
  <2> HIDE DEF entry
  <2> QED
    BY <1>2, <1>4, <2>2, <2>3
    DEF IInv, TypeOK, ReferencesResolve, GroupNumbersUnique, Filed, Sorted, key
<1> QED
  BY <1>3, <1>4

(* A deletion keeps IInv.                                                  *)
LEMMA DeleteMessageForAllIInv ==
  ASSUME IInv, NEW requester \in Names, NEW id, DeleteMessageForAll(requester, id)
  PROVE  IInv'
<1> DEFINE gone == {e \in history \cup groupHistory : Matches(e, requester, id)}
<1>1. /\ history' = history \ gone
      /\ groupHistory' = groupHistory \ gone
      /\ erased' = erased \cup {[by |-> requester, entry |-> e] : e \in gone}
      /\ UNCHANGED <<users, groups, nextGroupId, places>>
  BY DEF DeleteMessageForAll
<1>2. gone \subseteq DirectEntry \cup GroupEntry
  BY DEF IInv, TypeOK
<1> HIDE DEF gone
<1>3. erased' \subseteq [by : Names, entry : DirectEntry \cup GroupEntry]
  BY <1>1, <1>2 DEF IInv, TypeOK
<1>4. TypeOK'
  BY <1>1, <1>3 DEF IInv, TypeOK
<1> QED
  BY <1>1, <1>4 DEF IInv, ReferencesResolve, GroupNumbersUnique, Filed, Sorted

(* Every step keeps IInv.                                                  *)
LEMMA NextIInv == IInv /\ [Next]_vars => IInv'
<1> SUFFICES ASSUME IInv, [Next]_vars PROVE IInv'
  OBVIOUS
<1>1. ASSUME NEW u \in Names, NEW contact \in Names, AddContact(u, contact) PROVE IInv'
  <2>1. users[u].contacts \cup {contact} \in SUBSET DOMAIN users
    BY <1>1 DEF AddContact, Registered, IInv, ReferencesResolve
  <2> QED
    BY <1>1, <2>1, ContactsIInv DEF AddContact, Registered
<1>2. ASSUME NEW u \in Names, NEW contact \in Names, RemoveContact(u, contact) PROVE IInv'
  <2>1. users[u].contacts \ {contact} \in SUBSET DOMAIN users
    BY <1>2 DEF RemoveContact, Registered, IInv, ReferencesResolve
  <2> QED
    BY <1>2, <2>1, ContactsIInv DEF RemoveContact, Registered
<1>3. CASE UNCHANGED vars
  BY <1>3 DEF vars, IInv, TypeOK, ReferencesResolve, GroupNumbersUnique, Filed, Sorted
<1> QED
  BY <1>1, <1>2, <1>3, RegisterUserIInv, CreateGroupIInv, StoreMessageIInv,
     DeleteMessageForAllIInv DEF Next

(* IInv is an invariant of ChatServer.                                     *)
LEMMA InvariantIInv == Spec => []IInv
  BY InitIInv, NextIInv, PTL DEF Spec

-----------------------------------------------------------------------------
(* Every map of the server keeps its type under every operation. *)
THEOREM TypeCorrect == Spec => []TypeOK
<1>1. IInv => TypeOK
  BY DEF IInv
<1> QED
  BY <1>1, InvariantIInv, PTL

(* Contacts, members and owners are always registered names. *)
THEOREM ReferencesCorrect == Spec => []ReferencesResolve
<1>1. IInv => ReferencesResolve
  BY DEF IInv
<1> QED
  BY <1>1, InvariantIInv, PTL

(* createGroup never gives out a number twice. *)
THEOREM GroupNumbersCorrect == Spec => []GroupNumbersUnique
<1>1. IInv => GroupNumbersUnique
  BY DEF IInv
<1> QED
  BY <1>1, InvariantIInv, PTL

(* A conversation read back by either party is exactly the messages        *)
(* between the two, for any number of users.                               *)
THEOREM ConversationsCorrect == Spec => []ConversationsExact
<1>1. ASSUME IInv PROVE ConversationsExact
  <2>1. ASSUME NEW a \in Names, NEW b \in Names, NEW e \in history
        PROVE  (e.key = ConversationKey(a, b)) <=> ({e.msg.sender, e.msg.receiver} = {a, b})
    <3> DEFINE from == e.msg.sender
               to == e.msg.receiver
    <3>1. from \in Names /\ to \in Names
      BY <1>1 DEF IInv, TypeOK, DirectEntry
    <3>2. e.key = ConversationKey(from, to)
      BY <1>1 DEF IInv, Filed
    <3> HIDE DEF from, to
    <3>3. (ConversationKey(from, to) = ConversationKey(a, b)) <=> ({from, to} = {a, b})
      BY <3>1, KeyIdentifiesPair
    <3> QED
      BY <3>2, <3>3 DEF from, to
  <2>2. ASSUME NEW a \in Names, NEW b \in Names
        PROVE  GetConversation(a, b) =
                 {e \in history : {e.msg.sender, e.msg.receiver} = {a, b}}
    <3>1. \A e \in history : (e.key = ConversationKey(a, b)) <=> ({e.msg.sender, e.msg.receiver} = {a, b})
      BY ONLY <2>1, a \in Names, b \in Names
    <3> QED
      BY ONLY <3>1 DEF GetConversation
  <2> QED
    BY <1>1, <2>2 DEF ConversationsExact, IInv, Sorted
<1> QED
  BY <1>1, InvariantIInv, PTL

(* An account's hash and key are never overwritten. *)
THEOREM AccountsPermanentCorrect == Spec => AccountsPermanent
<1> DEFINE Kept == \A u \in DOMAIN users :
                     /\ u \in DOMAIN users'
                     /\ users'[u].passwordHash = users[u].passwordHash
                     /\ users'[u].publicKeyPem = users[u].publicKeyPem
<1>1. ASSUME IInv, [Next]_vars PROVE [Kept]_vars
  <2>1. ASSUME NEW u \in Names, NEW h \in Hashes, NEW k \in PublicKeys,
               RegisterUser(u, h, k)
        PROVE  Kept
    BY <2>1 DEF RegisterUser, Emplace
  <2>2. ASSUME NEW u, NEW contacts, users' = [users EXCEPT ![u].contacts = contacts]
        PROVE  Kept
    <3>1. users \in [DOMAIN users -> UserRecord]
      BY <1>1 DEF IInv, TypeOK
    <3> QED
      BY <2>2, <3>1 DEF UserRecord
  <2>3. ASSUME NEW u \in Names, NEW contact \in Names,
               AddContact(u, contact) \/ RemoveContact(u, contact)
        PROVE  Kept
    BY <2>2, <2>3 DEF AddContact, RemoveContact
  <2>4. ASSUME UNCHANGED users PROVE Kept
    BY <2>4
  <2> QED
    BY <1>1, <2>1, <2>3, <2>4
    DEF Next, CreateGroup, StoreMessage, DeleteMessageForAll, vars
<1> QED
  BY <1>1, InvariantIInv, PTL DEF Spec, AccountsPermanent

(* A group is never changed, because a new id is never an old one. *)
THEOREM GroupsPermanentCorrect == Spec => GroupsPermanent
<1> DEFINE Kept == \A g \in DOMAIN groups : g \in DOMAIN groups' /\ groups'[g] = groups[g]
<1>1. ASSUME [Next]_vars PROVE [Kept]_vars
  <2>1. ASSUME NEW u \in Names, NEW name \in GroupNames, NEW invited \in SUBSET Names,
               CreateGroup(u, name, invited)
        PROVE  Kept
    BY <2>1 DEF CreateGroup, Emplace
  <2>2. ASSUME UNCHANGED groups PROVE Kept
    BY <2>2
  <2> QED
    BY <1>1, <2>1, <2>2
    DEF Next, RegisterUser, AddContact, RemoveContact, StoreMessage, DeleteMessageForAll, vars
<1> QED
  BY <1>1, PTL DEF Spec, GroupsPermanent

(* Nothing but a deletion asked by the sender removes a stored message. *)
THEOREM NothingLostCorrect == Spec => NothingLost
<1> DEFINE Accounted ==
      \A e \in (history \cup groupHistory) \ (history' \cup groupHistory') :
        [by |-> e.msg.sender, entry |-> e] \in erased'
<1>1. ASSUME [Next]_vars PROVE [Accounted]_vars
  <2>1. ASSUME NEW requester \in Names, NEW m \in Messages,
               DeleteMessageForAll(requester, m.messageId)
        PROVE  Accounted
    BY <2>1 DEF DeleteMessageForAll, Matches
  <2>2. ASSUME NEW m \in Messages, StoreMessage(m) PROVE Accounted
    BY <2>2 DEF StoreMessage
  <2>3. ASSUME UNCHANGED <<history, groupHistory>> PROVE Accounted
    BY <2>3
  <2> QED
    BY <1>1, <2>1, <2>2, <2>3
    DEF Next, RegisterUser, AddContact, RemoveContact, CreateGroup, vars
<1> QED
  BY <1>1, PTL DEF Spec, NothingLost

=============================================================================
