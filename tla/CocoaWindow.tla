---------------------------- MODULE CocoaWindow ----------------------------
(***************************************************************************)
(* MessengerController, the Cocoa window.                                  *)
(*                                                                         *)
(* Its two tables show _chats and _messages, which are fetched anew after  *)
(* each operation, and hold their selection by index.  One delegate method *)
(* hears of both selections and only looks at that of the chats, so that   *)
(* marking a message fetches the messages again.                           *)
(*                                                                         *)
(* Of AppKit this is assumed: reloadData keeps the selected index where    *)
(* the table still has so many rows; refreshMessages reloads twice, the    *)
(* first time with no rows, and whether the table notices that in between  *)
(* is left open; a selection made by code reaches the delegate.            *)
(***************************************************************************)
EXTENDS WindowBase

VARIABLES
  chats,   \* _chats
  chatRow  \* selectedRow of _chatTableView, or 0

vars == <<baseVars, chats, chatRow>>

TypeOK ==
  /\ BaseTypeOK
  /\ chats \in Seq(Chats)
  /\ chatRow \in 0 .. Len(chats)

Init == BaseInit /\ chats = <<>> /\ chatRow = 0

-----------------------------------------------------------------------------
(* The parts the methods are made of. *)

(* What a table makes of its selected index when it reloads. *)
Reloaded(i, data) == IF i <= Len(data) THEN i ELSE 0

(* Variant: the table is not told to reload at the end. *)
RefreshUnnoticed ==
  /\ rows' = IF current' = Nobody \/ selected' = NoChat
               THEN <<>> ELSE Fetched(current, selected)'
  /\ row' = row

(* refreshMessages, for the user and the chat of after the step. *)
RefreshMessages ==
  /\ rows' = IF current' = Nobody \/ selected' = NoChat
               THEN <<>> ELSE Fetched(current, selected)'
  /\ row' \in {0, Reloaded(row, rows')}

(* refreshChats and refreshMessages.  The first chat is selected, and by   *)
(* the delegate opened, if none is.                                        *)
RefreshAll ==
  /\ chats' = ChatList(current)'
  /\ chatRow' = IF Reloaded(chatRow, chats') = 0 /\ chats' # <<>>
                  THEN 1 ELSE Reloaded(chatRow, chats')
  /\ selected' = IF Reloaded(chatRow, chats') = 0 /\ chats' # <<>>
                   THEN chats'[1] ELSE selected
  /\ RefreshMessages

(* refreshChats, which may open another chat, and selectChatWithKind. *)
RefreshAndOpen(chat) ==
  /\ chats' = ChatList(current)'
  /\ chatRow' = SelectInSeq(chats', LAMBDA c : c = chat)
  /\ selected' = chat
  /\ RefreshMessages

-----------------------------------------------------------------------------
(* The buttons. *)

OnRegister(u) == Registering(u) /\ UNCHANGED <<chats, chatRow, selected, rows, row>>

OnLogin(u) == LoggingIn(u) /\ RefreshAll

(* Variant: the selected chat is not cleared. *)
OnLogoutKeeping ==
  /\ LoggingOut
  /\ chats' = <<>> /\ chatRow' = 0
  /\ rows' = <<>> /\ row' = 0
  /\ UNCHANGED selected

OnLogout ==
  /\ LoggingOut
  /\ selected' = NoChat
  /\ chats' = <<>> /\ chatRow' = 0
  /\ rows' = <<>> /\ row' = 0

OnRefresh ==
  /\ current # Nobody
  /\ UNCHANGED <<serverVars, current, watches>>
  /\ RefreshAll

OnNewChat(v) == AddingContact(v) /\ RefreshAndOpen(Direct(v))
OnCreateGroup(members) == CreatingGroup(members) /\ RefreshAndOpen(Group(Len(groups')))

(* Variant: the refresh is left to the notification, which comes before    *)
(* the message is stored.                                                  *)
OnSendNotified ==
  /\ Sending(Copies(current, selected))
  /\ UNCHANGED <<chats, chatRow, selected, rows, row>>

(* What the user's own copy of a message to oneself or to a group causes   *)
(* before it is stored, a refresh, is done again at the end of the method. *)
OnSend ==
  /\ Sending(Copies(current, selected))
  /\ UNCHANGED <<chats, chatRow, selected>>
  /\ RefreshMessages

(* Variant: a deletion that leaves the rows as they are. *)
OnDeleteUnrefreshed ==
  /\ row # 0
  /\ Deleting(rows[row].id)
  /\ UNCHANGED <<chats, chatRow, selected, rows, row>>

OnDelete ==
  /\ row # 0
  /\ Deleting(rows[row].id)
  /\ UNCHANGED <<chats, chatRow, selected>>
  /\ RefreshMessages

OnChatDoubleClick ==
  /\ current # Nobody
  /\ UNCHANGED <<serverVars, current, watches, chats, chatRow, selected>>
  /\ RefreshMessages

-----------------------------------------------------------------------------
(* tableViewSelectionDidChange, after a click in one of the two tables. *)

ClickChat(i) ==
  /\ i # chatRow
  /\ chatRow' = i
  /\ selected' = chats[i]
  /\ UNCHANGED <<serverVars, current, watches, chats>>
  /\ RefreshMessages

(* The delegate returns early: the open chat stays open. *)
DeselectChat ==
  /\ chatRow # 0
  /\ chatRow' = 0
  /\ UNCHANGED <<serverVars, current, watches, chats, selected, rows, row>>

(* With a chat selected in its table the messages are fetched again, and   *)
(* the mark that was just set may be gone.                                 *)
ClickMessage(i) ==
  /\ UNCHANGED <<serverVars, current, watches, chats, chatRow>>
  /\ IF chatRow = 0
       THEN row' = i /\ UNCHANGED <<selected, rows>>
       ELSE /\ selected' = chats[chatRow]
            /\ rows' = Fetched(current, selected)'
            /\ row' \in {0, Reloaded(i, rows')}

Next ==
  \/ \E u \in Names : OnRegister(u) \/ OnLogin(u) \/ OnNewChat(u)
  \/ OnLogout
  \/ OnRefresh
  \/ \E members \in SUBSET Names : Len(groups) < MaxGroups /\ OnCreateGroup(members)
  \/ Len(sent) < MaxSends /\ OnSend
  \/ OnDelete
  \/ OnChatDoubleClick
  \/ \E i \in DOMAIN chats : ClickChat(i)
  \/ DeselectChat
  \/ \E i \in DOMAIN rows : ClickMessage(i)

Spec == Init /\ [][Next]_vars

-----------------------------------------------------------------------------
(* The list is that of the user, the chat that is open is one of it, and   *)
(* where a line of the list is selected it is the line of that chat, also  *)
(* when a new contact has moved the lines below it; after a logout nothing *)
(* is left that the next user could write to.                              *)
SelectionOwn ==
  IF current = Nobody
    THEN chats = <<>> /\ selected = NoChat
    ELSE /\ chats = ChatList(current)
         /\ selected \in Range(chats) \cup {NoChat}
         /\ chatRow # 0 => selected = chats[chatRow]

(* The rows are the open conversation, message by message, as the history  *)
(* has it: after every method nothing is missing, doubled or left over.    *)
RowsExact ==
  rows = IF current = Nobody \/ selected = NoChat
           THEN <<>> ELSE Fetched(current, selected)

(* The mark is an index.  It still never moves to another message of the   *)
(* open chat unless a message was deleted, because a history only grows at *)
(* its end.                                                                *)
MarkStays ==
  [][row # 0 /\ row' # 0 /\ rows' # rows /\ selected' = selected /\ deleted' = deleted
       => rows'[row'] = rows[row]]_vars

=============================================================================
