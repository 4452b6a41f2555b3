----------------------------- MODULE WindowBase -----------------------------
(***************************************************************************)
(* What the Qt and the Cocoa window have in common: the server and the     *)
(* clients that a window owns, reduced to what it shows of them, the open  *)
(* chat and the rows of the message table.  One user at a time is logged   *)
(* in, and each slot runs to its end before the next.  Saving and loading  *)
(* keys succeeds: see ChatClient for the rest.                             *)
(***************************************************************************)
EXTENDS Naturals, Sequences, FiniteSetsExt, SequencesExt

CONSTANTS
  Names,      \* user names, numbered in their order
  Nobody,     \* no current client
  NoChat,     \* no chat selected, and the chat of a direct message
  MaxGroups,  \* bound: groups created
  MaxSends    \* bound: messages sent

ASSUME NamesAssumption ==
  /\ Names \subseteq Nat \ {0}
  /\ IsFiniteSet(Names)
  /\ Nobody \notin Names
ASSUME BoundsAssumption == MaxGroups \in 0 .. 9 /\ MaxSends \in Nat

VARIABLES
  users,     \* registered names
  contacts,  \* name -> contacts
  groups,    \* members of each group, in the order of the creations
  stored,    \* the history, in the order of storing
  sent,      \* payload -> sender, of every send
  deleted,   \* the messages deleted for all
  current,   \* the client that is logged in
  watches,   \* name -> how often its client's observers_ hold the window
  selected,  \* kind and id of the selected chat
  rows,      \* the rows of the message table
  row        \* its current row, or 0

serverVars == <<users, contacts, groups, stored, sent, deleted>>
baseVars == <<serverVars, current, watches, selected, rows, row>>

Direct(u) == [kind |-> "direct", id |-> u]
Group(g) == [kind |-> "group", id |-> g]

(* Temp is the id of a row that the window made up. *)
Temp == 0
Row(id, payload) == [id |-> id, payload |-> payload]

Chats == {Direct(u) : u \in Names} \cup {Group(g) : g \in 1 .. MaxGroups}
ASSUME NoChatAssumption == NoChat \notin Chats

Ids == 1 .. MaxSends * Cardinality(Names)
Messages == [id : Ids, from : Names, to : Names, chat : Chats \cup {NoChat},
             payload : 1 .. MaxSends]

BaseTypeOK ==
  /\ users \subseteq Names
  /\ contacts \in [Names -> SUBSET users]
  /\ groups \in Seq(SUBSET users)
  /\ stored \in Seq(Messages)
  /\ sent \in Seq(users)
  /\ deleted \subseteq Messages
  /\ current \in users \cup {Nobody}
  /\ watches \in [Names -> Nat]
  /\ selected \in Chats \cup {NoChat}
  /\ rows \in Seq([id : Ids \cup {Temp}, payload : 0 .. MaxSends])
  /\ row \in 0 .. Len(rows)

BaseInit ==
  /\ users = {}
  /\ contacts = [u \in Names |-> {}]
  /\ groups = <<>>
  /\ stored = <<>>
  /\ sent = <<>>
  /\ deleted = {}
  /\ current = Nobody
  /\ watches = [u \in Names |-> 0]
  /\ selected = NoChat
  /\ rows = <<>>
  /\ row = 0

-----------------------------------------------------------------------------
(* The numbers of a finite set, the least first, and the entries that a    *)
(* sequence has at some of its places, in their order.  SetToSortSeq and   *)
(* SelectSeq give the same, but no proof can expand them.                  *)
Ascending(S) ==
  [i \in 1 .. Cardinality(S) |-> CHOOSE x \in S : Cardinality({y \in S : y <= x}) = i]
AtPlaces(s, S) == [i \in 1 .. Cardinality(S) |-> s[Ascending(S)[i]]]

(* What the server returns to a client. *)

ListContacts(u) == Ascending(contacts[u])
ListGroups(u) == Ascending({g \in DOMAIN groups : u \in groups[g]})

(* The list of chats: contacts come first. *)
ChatList(u) ==
  [i \in DOMAIN ListContacts(u) |-> Direct(ListContacts(u)[i])] \o
  [i \in DOMAIN ListGroups(u) |-> Group(ListGroups(u)[i])]

(* getConversation, and getGroupConversation with its filter on receivers. *)
Belongs(m, u, chat) ==
  IF chat.kind = "direct"
    THEN m.chat = NoChat /\ {m.from, m.to} = {u, chat.id}
    ELSE m.chat = chat /\ m.to = u

Conversation(u, chat) ==
  AtPlaces(stored, {k \in DOMAIN stored : Belongs(stored[k], u, chat)})

(* Variant: the newest message comes first. *)
FetchedBackwards(u, chat) ==
  LET msgs == Reverse(Conversation(u, chat)) IN
  [i \in DOMAIN msgs |-> Row(msgs[i].id, msgs[i].payload)]

(* What a refresh shows. *)
Fetched(u, chat) ==
  LET msgs == Conversation(u, chat) IN
  [i \in DOMAIN msgs |-> Row(msgs[i].id, msgs[i].payload)]

-----------------------------------------------------------------------------
(* The calls that slots make on a client, without what they show of it. *)

Attach(u) == [watches EXCEPT ![u] = @ + 1]

(* Variant: a detach that forgets to erase what remove moved to the end. *)
DetachNothing(u) == watches
(* Every occurrence of the window is removed. *)
Detach(u) == [watches EXCEPT ![u] = 0]

Registering(u) ==
  /\ current = Nobody
  /\ u \notin users
  /\ users' = users \cup {u}
  /\ UNCHANGED <<contacts, groups, stored, sent, deleted, current, watches>>

LoggingIn(u) ==
  /\ current = Nobody
  /\ u \in users
  /\ current' = u
  /\ watches' = Attach(u)
  /\ UNCHANGED serverVars

LoggingOut ==
  /\ current # Nobody
  /\ current' = Nobody
  /\ watches' = Detach(current)
  /\ UNCHANGED serverVars

(* The name of a contact is refused, like a name that does not exist. *)
AddingContact(v) ==
  /\ current # Nobody
  /\ v \in users \ contacts[current]
  /\ contacts' = [contacts EXCEPT ![current] = @ \cup {v}]
  /\ UNCHANGED <<users, groups, stored, sent, deleted, current, watches>>

CreatingGroup(members) ==
  /\ current # Nobody
  /\ groups' = Append(groups, {current} \cup (members \cap users))
  /\ UNCHANGED <<users, contacts, stored, sent, deleted, current, watches>>

(* The messages of a send, in the order of their receivers. *)
Copies(from, chat) ==
  LET to == IF chat.kind = "direct"
              THEN <<chat.id>>
              ELSE Ascending(groups[chat.id])
      base == Len(sent) * Cardinality(Names) IN
  [i \in DOMAIN to |->
     [id |-> base + i, from |-> from, to |-> to[i],
      chat |-> IF chat.kind = "direct" THEN NoChat ELSE chat,
      payload |-> Len(sent) + 1]]

Sending(copies) ==
  /\ current # Nobody
  /\ selected # NoChat
  /\ stored' = stored \o copies
  /\ sent' = Append(sent, current)
  /\ UNCHANGED <<users, contacts, groups, deleted, current, watches>>

(* Only its sender deletes a message. *)
Deleting(id) ==
  /\ current # Nobody
  /\ \E m \in Range(stored) :
       /\ m.id = id
       /\ m.from = current
       /\ stored' = AtPlaces(stored, {k \in DOMAIN stored : stored[k] # m})
       /\ deleted' = deleted \cup {m}
  /\ UNCHANGED <<users, contacts, groups, sent, current, watches>>

-----------------------------------------------------------------------------
(* The window observes the client that is logged in, once, and no other:   *)
(* a second occurrence in observers_, left by an earlier session, would    *)
(* show each notification twice, and one of another client the messages    *)
(* of another user.                                                        *)
WatchedOnce == \A u \in Names : watches[u] = IF u = current THEN 1 ELSE 0

(* README.md:169: a message that was selected and deleted disappears for   *)
(* all participants.  The user who sent and deleted it, at least, should   *)
(* not see it any more.                                                    *)
DeletedDisappears ==
  \A m \in deleted, i \in DOMAIN rows : m.from = current => rows[i].payload # m.payload

=============================================================================
