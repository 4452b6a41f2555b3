------------------------------ MODULE QtWindow ------------------------------
(***************************************************************************)
(* MessengerMainWindow, the Qt window.                                     *)
(*                                                                         *)
(* It keeps the selected chat twice, as the current item of the list and   *)
(* as selectedChatId_, which the slot of the list's selection sets.  That  *)
(* slot reads the current item, and where Qt changes the selection before  *)
(* the current item, it reads the old one: the two part.  The messages of  *)
(* the chat in selectedChatId_, the open one, are rows that are refreshed, *)
(* appended to and removed from separately; messages_ holds what they hold. *)
(***************************************************************************)
EXTENDS WindowBase

VARIABLES
  items,   \* the items of chatList_
  marked   \* the current item of chatList_

vars == <<baseVars, items, marked>>

(* The hint shown while nobody is logged in. *)
Hint == Row(Temp, 0)

TypeOK ==
  /\ BaseTypeOK
  /\ items \in Seq(Chats)
  /\ marked \in Range(items) \cup {NoChat}

Init == BaseInit /\ items = <<>> /\ marked = NoChat

-----------------------------------------------------------------------------
(* The parts the slots are made of. *)

(* Variant: the index is remembered instead of the id. *)
RowByIndex(new) == IF row <= Len(new) THEN row ELSE 0

(* refreshMessages remembers the id of the current row and makes the row   *)
(* that has it afterwards, if any, current again.                          *)
KeptRow(new) ==
  IF row # 0 /\ \E i \in DOMAIN new : new[i].id = rows[row].id
    THEN CHOOSE i \in DOMAIN new : new[i].id = rows[row].id
    ELSE 0

(* refreshMessages for a chat that is open from now on. *)
Open(chat) ==
  /\ selected' = chat
  /\ rows' = Fetched(current, chat)
  /\ row' = KeptRow(rows')

(* The item that a list which is filled anew has as its current one. *)
FirstOf(list) == IF list = <<>> THEN NoChat ELSE list[1]

(* refreshChatList and selectDirectChat or selectGroupChat.  When the list *)
(* is cleared the slot opens what was marked; when the chat is selected,   *)
(* the slot opens the first item, which is current until then.  The row is *)
(* kept if both refreshes find its id.                                     *)
ListAndSelect(chat) ==
  /\ items' = ChatList(current)'
  /\ marked' = chat
  /\ selected' = FirstOf(items')
  /\ rows' = Fetched(current, selected')
  /\ row' = IF marked # NoChat /\ KeptRow(Fetched(current, marked)) = 0
              THEN 0
              ELSE KeptRow(rows')

-----------------------------------------------------------------------------
(* The slots. *)

Register(u) == Registering(u) /\ UNCHANGED <<items, marked, selected, rows, row>>

(* Variant: a change of users that keeps the selected chat. *)
LogInKeeping(u) ==
  /\ LoggingIn(u)
  /\ items' = ChatList(u)
  /\ marked' = FirstOf(items')
  /\ rows' = <<>>
  /\ row' = 0
  /\ UNCHANGED selected

(* switchCurrentUser empties the window, and refreshChatList marks the     *)
(* first chat; the slot of the selection runs while there is no current    *)
(* item, so no chat is open.                                               *)
LogIn(u) ==
  /\ LoggingIn(u)
  /\ items' = ChatList(u)
  /\ marked' = FirstOf(items')
  /\ selected' = NoChat
  /\ rows' = <<>>
  /\ row' = 0

(* The slot clears selectedChatId_ and the table and then the list, whose  *)
(* clear drops the selection while the current item is still there: the    *)
(* slot of the selection runs once more, for nobody, and selects its chat. *)
LogOut ==
  /\ LoggingOut
  /\ items' = <<>>
  /\ marked' = NoChat
  /\ selected' = marked
  /\ rows' = IF marked = NoChat THEN <<>> ELSE <<Hint>>
  /\ row' = 0

(* The list is cleared, which opens the chat that was marked, and filled   *)
(* anew, which marks the first one and opens nothing; what is open is      *)
(* fetched again.                                                          *)
Refresh ==
  /\ current # Nobody
  /\ items' = ChatList(current)
  /\ marked' = FirstOf(items')
  /\ IF marked = NoChat
       THEN rows' = <<>> /\ row' = 0 /\ UNCHANGED selected
       ELSE Open(marked)
  /\ UNCHANGED <<serverVars, current, watches>>

NewChat(v) == AddingContact(v) /\ ListAndSelect(Direct(v))

CreateGroup(members) == CreatingGroup(members) /\ ListAndSelect(Group(Len(groups')))

(* A press of the mouse changes the current item and then the selection.   *)
ClickChat(chat) ==
  /\ current # Nobody
  /\ chat # marked
  /\ marked' = chat
  /\ Open(chat)
  /\ UNCHANGED <<serverVars, current, watches, items>>

(* A key, or the mouse drawn to another item, changes the selection first: *)
(* the slot opens the chat that is being left.                             *)
MoveToChat(chat) ==
  /\ current # Nobody
  /\ chat # marked
  /\ marked' = chat
  /\ Open(marked)
  /\ UNCHANGED <<serverVars, current, watches, items>>

SelectRow(i) ==
  /\ row' = i
  /\ UNCHANGED <<serverVars, current, watches, items, marked, selected, rows>>

(* onNotify, once for each time the window observes the client: of the     *)
(* copies only the user's own is handed over, as nobody else is online,    *)
(* and it is for the chat that is open.                                    *)
Notified(copies) ==
  LET own == AtPlaces(copies, {k \in DOMAIN copies : copies[k].to = current}) IN
  FlattenSeq([i \in DOMAIN own |->
                [j \in 1 .. watches[current] |-> Row(own[i].id, own[i].payload)]])

(* Variant: a send whose row is expected from the notification alone. *)
NoEcho == <<>>
(* The row the window adds after a send, whether or not one was added by   *)
(* the notification.                                                       *)
Echo == <<Row(Temp, Len(sent) + 1)>>

SendCurrentMessage ==
  LET copies == Copies(current, selected) IN
  /\ Sending(copies)
  /\ rows' = rows \o Notified(copies) \o Echo
  /\ UNCHANGED <<items, marked, selected, row>>

(* Variant: the current row is left where it was. *)
RowUnmoved(new) == row
(* After the removal the next row is current, or the last. *)
RowAfterRemoval(new) == IF row > Len(new) THEN Len(new) ELSE row

DeleteSelectedMessage ==
  /\ row # 0
  /\ rows[row].id # Temp
  /\ Deleting(rows[row].id)
  /\ rows' = RemoveAt(rows, row)
  /\ row' = RowAfterRemoval(rows')
  /\ UNCHANGED <<items, marked, selected>>

Next ==
  \/ \E u \in Names : Register(u) \/ LogIn(u) \/ NewChat(u)
  \/ LogOut
  \/ Refresh
  \/ \E members \in SUBSET Names : Len(groups) < MaxGroups /\ CreateGroup(members)
  \/ \E i \in DOMAIN items : ClickChat(items[i]) \/ MoveToChat(items[i])
  \/ \E i \in DOMAIN rows : SelectRow(i)
  \/ Len(sent) < MaxSends /\ SendCurrentMessage
  \/ DeleteSelectedMessage

Spec == Init /\ [][Next]_vars

-----------------------------------------------------------------------------
(* While somebody is logged in, the list shows that user's chats with one  *)
(* of them marked, and what the next message goes to, if any chat is open, *)
(* is a contact or a group of that user too: the chat that a logout leaves *)
(* selected is never the next user's.                                      *)
SelectionOwn ==
  current # Nobody =>
    /\ items = ChatList(current)
    /\ items # <<>> => marked \in Range(items)
    /\ selected # NoChat => selected \in Range(items)

(* The rows tell the truth about the open conversation: each row with an   *)
(* id is a message of it that is still in the history, in the order of the *)
(* history and shown once, and each of its messages has a row, with its id *)
(* or added after the send.                                                *)
RowsTrue ==
  /\ \A i, j \in DOMAIN rows :
       i < j /\ rows[i].id # Temp /\ rows[j].id # Temp => rows[i].id < rows[j].id
  /\ \A i \in DOMAIN rows : rows[i].id # Temp =>
       \E k \in DOMAIN stored : /\ stored[k].id = rows[i].id
                                /\ Belongs(stored[k], current, selected)
  /\ current # Nobody /\ selected # NoChat =>
       \A m \in Range(Conversation(current, selected)) :
         \E i \in DOMAIN rows :
           rows[i] = Row(m.id, m.payload) \/ rows[i] = Row(Temp, m.payload)

(* A refresh, a change of chats or a send never moves the current row to   *)
(* another message, which the button Delete would then remove.             *)
MarkStays ==
  [][row # 0 /\ row' # 0 /\ rows' # rows /\ deleted' = deleted
       => rows'[row'] = rows[row]]_vars

(* README.md:167: to send a message, choose the chat, type the text and    *)
(* press Send.  The chat that it is sent to should be the one that the     *)
(* list has marked.                                                        *)
SentToMarked ==
  [][sent' # sent => stored' = stored \o Copies(current, marked)]_vars

=============================================================================
