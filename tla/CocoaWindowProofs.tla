------------------------- MODULE CocoaWindowProofs -------------------------
(***************************************************************************)
(* The Cocoa window always shows the list and the open conversation of the *)
(* user who is logged in.                                                  *)
(***************************************************************************)
EXTENDS CocoaWindow, WindowProofs

(* The two marks are indices of their tables.                              *)
Marks == chatRow \in 0 .. Len(chats) /\ row \in 0 .. Len(rows)

(* A user deletes what the window shows, which in a group is the user's    *)
(* own copy.                                                               *)
OwnDeleted == \A m \in deleted : m.chat # NoChat => m.to = m.from

Inv ==
  /\ ServerOK
  /\ WatchedOnce
  /\ HistoryOK
  /\ SelectionOwn
  /\ RowsExact
  /\ Marks
  /\ OwnDeleted

-----------------------------------------------------------------------------
(* The open chat is in the list, and the list is that of the user.         *)
LEMMA OpenIsOwn == ServerOK /\ SelectionOwn => OpenOwn
<1> SUFFICES ASSUME ServerOK, SelectionOwn, current # Nobody, selected # NoChat
             PROVE  selected \in OwnChats(current)
  BY DEF OpenOwn
<1>1. current \in Names
  BY DEF ServerOK
<1>2. selected \in Range(ChatList(current))
  BY DEF SelectionOwn
<1> QED BY <1>1, <1>2, ChatListFacts DEF ChatListsRight

(* Every step of the window is one of the calls.                           *)
LEMMA NextIsBase == Next => BaseNext
<1> SUFFICES ASSUME Next PROVE BaseNext
  OBVIOUS
<1>1. CASE \E u \in Names : OnRegister(u) \/ OnLogin(u) \/ OnNewChat(u)
  BY <1>1 DEF OnRegister, OnLogin, OnNewChat, BaseNext
<1>2. CASE OnLogout
  BY <1>2 DEF OnLogout, BaseNext
<1>3. CASE \E members \in SUBSET Names : Len(groups) < MaxGroups /\ OnCreateGroup(members)
  BY <1>3 DEF OnCreateGroup, BaseNext
<1>4. CASE Len(sent) < MaxSends /\ OnSend
  BY <1>4 DEF OnSend, BaseNext
<1>5. CASE OnDelete
  BY <1>5 DEF OnDelete, BaseNext
<1>6. CASE OnRefresh \/ OnChatDoubleClick \/ DeselectChat
  BY <1>6 DEF OnRefresh, OnChatDoubleClick, DeselectChat, BaseNext
<1>7. CASE (\E i \in DOMAIN chats : ClickChat(i)) \/ (\E i \in DOMAIN rows : ClickMessage(i))
  BY <1>7 DEF ClickChat, ClickMessage, BaseNext
<1> QED BY <1>1, <1>2, <1>3, <1>4, <1>5, <1>6, <1>7 DEF Next

(* SelectInSeq finds an entry that is there.                               *)
LEMMA IndexFound ==
  ASSUME NEW T, NEW s \in Seq(T), NEW x \in Range(s)
  PROVE  /\ SelectInSeq(s, LAMBDA c : c = x) \in 1 .. Len(s)
         /\ s[SelectInSeq(s, LAMBDA c : c = x)] = x
<1> DEFINE I == {i \in 1 .. Len(s) : s[i] = x}
<1>1. I # {} /\ I \in SUBSET Nat
  BY LenProperties DEF Range
<1>2. PICK m \in I : \A y \in I : m <= y
  <2>1. PICK i \in I : TRUE
    BY <1>1
  <2>2. IsFiniteSet(I) /\ Cardinality(I) \in Nat
    <3>1. IsFiniteSet(1 .. Len(s))
      BY LenProperties, FS_Interval
    <3> QED BY <3>1, FS_Subset, FS_CardinalityType
  <2>3. Cardinality(I) # 0
    BY <1>1, <2>2, FS_EmptySet
  <2> HIDE DEF I
  <2>4. 1 \in 1 .. Cardinality(I)
    BY <2>2, <2>3
  <2>5. /\ \A j \in 1 .. Cardinality(I) : Ascending(I)[j] \in I
        /\ \A y \in I : \E j \in 1 .. Cardinality(I) : Ascending(I)[j] = y
        /\ \A j, k \in 1 .. Cardinality(I) : j < k => Ascending(I)[j] < Ascending(I)[k]
    BY <1>1, <2>2, AscendingFacts
  <2>6. ASSUME NEW y \in I PROVE Ascending(I)[1] <= y
    <3>1. PICK j \in 1 .. Cardinality(I) : Ascending(I)[j] = y
      BY <2>5
    <3>2. PICK a \in I : a = Ascending(I)[1]
      BY <2>4, <2>5
    <3>3. j = 1 \/ a < y
      BY <2>2, <2>4, <2>5, <3>1, <3>2
    <3>4. a \in Nat /\ y \in Nat
      BY <1>1
    <3> QED BY <3>1, <3>2, <3>3, <3>4
  <2> QED BY <2>4, <2>5, <2>6
<1>3. Min(I) \in I
  <2> HIDE DEF I
  <2> QED BY <1>2 DEF Min
<1>4. SelectInSeq(s, LAMBDA c : c = x) = Min(I)
  BY <1>1 DEF SelectInSeq
<1> QED BY <1>3, <1>4

-----------------------------------------------------------------------------
(* The list and the open chat.                                             *)

ListOK == SelectionOwn /\ chatRow \in 0 .. Len(chats)

(* refreshChats keeps the open chat, or opens the first one.               *)
LEMMA RefreshedList ==
  ASSUME ServerOK', current' \in Names, RefreshAll, chatRow \in Nat,
         selected = NoChat \/ selected \in Range(chats'),
         chatRow # 0 /\ chatRow <= Len(chats') => selected = chats'[chatRow]
  PROVE  ListOK'
<1>1. chats' = ChatList(current)'
  BY DEF RefreshAll
<1>2. /\ chats' \in Seq(Chats)
      /\ DOMAIN chats' = 1 .. Len(chats') /\ Len(chats') \in Nat
      /\ current' # Nobody
  BY <1>1, NewList
<1>3. CASE Reloaded(chatRow, chats') = 0 /\ chats' # <<>>
  <2>1. chatRow' = 1 /\ selected' = chats'[1]
    BY <1>3 DEF RefreshAll
  <2>2. 1 \in DOMAIN chats'
    BY <1>2, <1>3, EmptySeq
  <2>3. selected' \in Range(chats')
    BY <2>1, <2>2 DEF Range
  <2> QED BY <1>1, <1>2, <2>1, <2>2, <2>3 DEF ListOK, SelectionOwn
<1>4. CASE ~ (Reloaded(chatRow, chats') = 0 /\ chats' # <<>>)
  <2>1. chatRow' = Reloaded(chatRow, chats') /\ selected' = selected
    BY <1>4 DEF RefreshAll
  <2>2. chatRow' \in 0 .. Len(chats') /\ (chatRow' # 0 => selected' = chats'[chatRow'])
    BY <1>2, <2>1 DEF Reloaded
  <2>3. selected' \in Range(chats') \cup {NoChat}
    BY <2>1
  <2> QED BY <1>1, <1>2, <2>2, <2>3 DEF ListOK, SelectionOwn
<1> QED BY <1>3, <1>4

(* A chat that was just made is found in the list.                         *)
LEMMA OpenedList ==
  ASSUME ServerOK', current' \in Names, NEW chat, chat \in OwnChats(current)',
         RefreshAndOpen(chat)
  PROVE  ListOK'
<1>1. chats' = ChatList(current)' /\ selected' = chat
  BY DEF RefreshAndOpen
<1>2. /\ chats' \in Seq(Chats)
      /\ chat \in Range(chats')
      /\ current' # Nobody
  BY <1>1, NewList
<1>3. chatRow' = SelectInSeq(chats', LAMBDA c : c = chat)
  BY DEF RefreshAndOpen
<1>4. chatRow' \in 1 .. Len(chats') /\ chats'[chatRow'] = chat
  <2>1. PICK s \in Seq(Chats) : s = chats'
    BY <1>2
  <2>2. /\ SelectInSeq(s, LAMBDA c : c = chat) \in 1 .. Len(s)
        /\ s[SelectInSeq(s, LAMBDA c : c = chat)] = chat
    BY <1>2, <2>1, IndexFound
  <2> QED BY <1>3, <2>1, <2>2
<1> QED BY <1>1, <1>2, <1>4 DEF ListOK, SelectionOwn

(* Each step keeps the list and the open chat right.                       *)
LEMMA ListStep == ServerOK /\ ServerOK' /\ ListOK /\ Next => ListOK'
<1> SUFFICES ASSUME ServerOK, ServerOK', ListOK, Next PROVE ListOK'
  OBVIOUS
<1>1. ASSUME UNCHANGED <<current, contacts, groups, chats, chatRow, selected>>
      PROVE  ListOK'
  BY <1>1 DEF ListOK, SelectionOwn, ChatList, ListContacts, ListGroups
<1>2. current # Nobody => current \in Names
  BY DEF ServerOK
<1>3. current # Nobody => /\ chats = ChatList(current)
                          /\ chats \in Seq(Chats)
                          /\ DOMAIN chats = 1 .. Len(chats) /\ Len(chats) \in Nat
  <2>1. current # Nobody => chats = ChatList(current) /\ chats \in Seq(Chats)
    BY <1>2, ChatListFacts DEF ListOK, SelectionOwn, ChatListsRight
  <2> QED BY <2>1, LenProperties
<1>4. CASE \E u \in Names : OnRegister(u)
  <2>1. PICK u \in Names : OnRegister(u)
    BY <1>4
  <2> QED BY <2>1 DEF OnRegister, Registering, ListOK, SelectionOwn
<1>5. CASE \E u \in Names : OnLogin(u)
  <2>1. PICK u \in Names : OnLogin(u)
    BY <1>5
  <2>2. current = Nobody /\ current' \in Names /\ RefreshAll
    BY <2>1 DEF OnLogin, LoggingIn
  <2>3. chatRow = 0 /\ selected = NoChat
    BY <2>2 DEF ListOK, SelectionOwn
  <2> QED BY <2>2, <2>3, RefreshedList
<1>6. CASE \E v \in Names : OnNewChat(v)
  <2>1. PICK v \in Names : AddingContact(v) /\ RefreshAndOpen(Direct(v))
    BY <1>6 DEF OnNewChat
  <2>2. current' = current /\ current \in Names /\ Direct(v) \in OwnChats(current)'
    BY <2>1, ContactAdded
  <2> QED BY <2>1, <2>2, OpenedList
<1>7. CASE OnLogout
  BY <1>7 DEF OnLogout, LoggingOut, ListOK, SelectionOwn
<1>8. CASE OnRefresh
  <2>1. current # Nobody /\ UNCHANGED <<current, contacts, groups>> /\ RefreshAll
    BY <1>8 DEF OnRefresh, serverVars
  <2>2. chats' = chats
    BY <1>3, <2>1 DEF RefreshAll, ChatList, ListContacts, ListGroups
  <2>3. current' \in Names /\ chatRow \in Nat
    BY <1>2, <1>3, <2>1 DEF ListOK
  <2>4. /\ selected = NoChat \/ selected \in Range(chats')
        /\ chatRow # 0 => selected = chats'[chatRow]
    BY <2>1, <2>2 DEF ListOK, SelectionOwn
  <2> QED BY <2>1, <2>3, <2>4, RefreshedList
<1>9. CASE \E members \in SUBSET Names : Len(groups) < MaxGroups /\ OnCreateGroup(members)
  <2>1. PICK members \in SUBSET Names :
          Len(groups) < MaxGroups /\ CreatingGroup(members) /\ RefreshAndOpen(Group(Len(groups')))
    BY <1>9 DEF OnCreateGroup
  <2>2. current' = current /\ current \in Names /\ Group(Len(groups')) \in OwnChats(current)'
    BY <2>1, GroupCreated
  <2> QED BY <2>1, <2>2, OpenedList
<1>10. CASE OnSend \/ OnDelete \/ OnChatDoubleClick
  BY <1>1, <1>10 DEF OnSend, OnDelete, OnChatDoubleClick, Sending, Deleting, serverVars
<1>11. CASE \E i \in DOMAIN chats : ClickChat(i)
  <2>1. PICK i \in DOMAIN chats : ClickChat(i)
    BY <1>11
  <2>2. current # Nobody
    BY DEF ListOK, SelectionOwn
  <2>3. /\ UNCHANGED <<current, contacts, groups, chats>>
        /\ chatRow' = i /\ selected' = chats[i]
    BY <2>1 DEF ClickChat, serverVars
  <2>4. chats' = ChatList(current)' /\ current' # Nobody
    BY <1>3, <2>2, <2>3 DEF ChatList, ListContacts, ListGroups
  <2>5. chatRow' \in 0 .. Len(chats') /\ selected' = chats'[chatRow']
    BY <1>3, <2>2, <2>3
  <2>6. selected' \in Range(chats')
    BY <2>3 DEF Range
  <2> QED BY <2>4, <2>5, <2>6 DEF ListOK, SelectionOwn
<1>12. CASE DeselectChat
  <2>1. UNCHANGED <<current, contacts, groups, chats, selected>> /\ chatRow' = 0
    BY <1>12 DEF DeselectChat, serverVars
  <2>2. chatRow' \in 0 .. Len(chats')
    BY <1>3, <2>1 DEF ListOK, SelectionOwn
  <2> QED BY <2>1, <2>2 DEF ListOK, SelectionOwn, ChatList, ListContacts, ListGroups
<1>13. CASE \E i \in DOMAIN rows : ClickMessage(i)
  <2>1. UNCHANGED <<current, contacts, groups, chats, chatRow>>
    BY <1>13 DEF ClickMessage, serverVars
  <2>2. CASE chatRow = 0
    BY <1>1, <1>13, <2>1, <2>2 DEF ClickMessage
  <2>3. CASE chatRow # 0
    <3>1. selected' = chats[chatRow]
      BY <1>13, <2>3 DEF ClickMessage
    <3>2. current # Nobody
      BY <2>3 DEF ListOK, SelectionOwn
    <3>3. selected' = selected
      BY <2>3, <3>1, <3>2 DEF ListOK, SelectionOwn
    <3> QED BY <1>1, <2>1, <3>3
  <2> QED BY <2>2, <2>3
<1> QED BY <1>4, <1>5, <1>6, <1>7, <1>8, <1>9, <1>10, <1>11, <1>12, <1>13 DEF Next

-----------------------------------------------------------------------------
(* The rows and their mark.                                                *)

RowsOK == RowsExact /\ row \in 0 .. Len(rows)

(* Rows that are the open conversation are a table, and there are none     *)
(* without a user and an open chat.                                        *)
LEMMA RowsFacts ==
  ServerOK /\ RowsExact =>
    /\ rows \in Seq([id : Ids \cup {Temp}, payload : 0 .. MaxSends])
    /\ DOMAIN rows = 1 .. Len(rows) /\ Len(rows) \in Nat
    /\ \A i \in DOMAIN rows :
         /\ current # Nobody
         /\ selected # NoChat
         /\ \E k \in DOMAIN stored : /\ Belongs(stored[k], current, selected)
                                     /\ rows[i] = Row(stored[k].id, stored[k].payload)
<1> SUFFICES ASSUME ServerOK, RowsExact
             PROVE  /\ rows \in Seq([id : Ids \cup {Temp}, payload : 0 .. MaxSends])
                    /\ DOMAIN rows = 1 .. Len(rows) /\ Len(rows) \in Nat
                    /\ \A i \in DOMAIN rows :
                         /\ current # Nobody
                         /\ selected # NoChat
                         /\ \E k \in DOMAIN stored :
                              /\ Belongs(stored[k], current, selected)
                              /\ rows[i] = Row(stored[k].id, stored[k].payload)
  OBVIOUS
<1>1. CASE current = Nobody \/ selected = NoChat
  <2>1. rows = <<>>
    BY <1>1 DEF RowsExact
  <2> QED BY <2>1, EmptySeq
<1>2. CASE current # Nobody /\ selected # NoChat
  <2> DEFINE P == Places(current, selected)
  <2>1. rows = Fetched(current, selected)
    BY <1>2 DEF RowsExact
  <2>2. /\ rows \in Seq([id : Ids \cup {Temp}, payload : 0 .. MaxSends])
        /\ DOMAIN rows = 1 .. Cardinality(P)
        /\ Len(rows) = Cardinality(P) /\ Cardinality(P) \in Nat
    BY <2>1, FetchedFacts DEF FetchedRight
  <2>3. ASSUME NEW i \in DOMAIN rows
        PROVE  \E k \in P : rows[i] = Row(stored[k].id, stored[k].payload)
    BY <2>1, <2>2, FetchedFacts DEF FetchedRight
  <2>4. \A k \in P : k \in DOMAIN stored /\ Belongs(stored[k], current, selected)
    BY DEF Places
  <2> HIDE DEF P
  <2> QED BY <1>2, <2>2, <2>3, <2>4
<1> QED BY <1>1, <1>2

(* The same of the table after a step.                                     *)
LEMMA RowsFactsNext ==
  ServerOK' /\ RowsExact' => /\ Len(rows') \in Nat
                             /\ DOMAIN rows' = 1 .. Len(rows')
<1> DEFINE Table == Len(rows) \in Nat /\ DOMAIN rows = 1 .. Len(rows)
<1>1. ServerOK /\ RowsExact => Table
  BY RowsFacts
<1> HIDE DEF Table
<1>2. (ServerOK /\ RowsExact => Table)'
  BY <1>1, PTL
<1> QED BY <1>2 DEF Table

(* refreshMessages makes the rows right, whatever they were.               *)
LEMMA RefreshedRows ==
  ASSUME ServerOK', row \in Nat, RefreshMessages
  PROVE  RowsOK'
<1>1. RowsExact'
  BY DEF RefreshMessages, RowsExact
<1>2. Len(rows') \in Nat
  BY <1>1, RowsFactsNext
<1> QED BY <1>1, <1>2 DEF RefreshMessages, Reloaded, RowsOK

(* Each step keeps the rows right.                                         *)
LEMMA RowsStep == ServerOK /\ ServerOK' /\ ListOK /\ ListOK' /\ RowsOK /\ Next => RowsOK'
<1> SUFFICES ASSUME ServerOK, ServerOK', ListOK, ListOK', RowsOK, Next PROVE RowsOK'
  OBVIOUS
<1>1. row \in Nat /\ Len(rows) \in Nat
  BY RowsFacts DEF RowsOK
<1>2. ASSUME UNCHANGED <<current, selected, stored, rows>>, row' \in 0 .. Len(rows)
      PROVE  RowsOK'
  BY <1>2 DEF RowsOK, RowsExact, Fetched, Conversation
<1>3. ASSUME RefreshMessages PROVE RowsOK'
  BY <1>1, <1>3, RefreshedRows
<1>4. CASE \E u \in Names : OnRegister(u)
  BY <1>2, <1>4 DEF OnRegister, Registering, RowsOK
<1>5. CASE (\E u \in Names : OnLogin(u) \/ OnNewChat(u)) \/ OnRefresh
           \/ (\E members \in SUBSET Names : Len(groups) < MaxGroups /\ OnCreateGroup(members))
  BY <1>3, <1>5 DEF OnLogin, OnNewChat, OnRefresh, OnCreateGroup, RefreshAll, RefreshAndOpen
<1>6. CASE OnLogout
  <2>1. rows' = <<>> /\ row' = 0 /\ current' = Nobody
    BY <1>6 DEF OnLogout, LoggingOut
  <2> QED BY <2>1, EmptySeq DEF RowsOK, RowsExact
<1>7. CASE OnSend \/ OnDelete \/ OnChatDoubleClick \/ (\E i \in DOMAIN chats : ClickChat(i))
  BY <1>3, <1>7 DEF OnSend, OnDelete, OnChatDoubleClick, ClickChat
<1>8. CASE DeselectChat
  BY <1>2, <1>8 DEF DeselectChat, serverVars, RowsOK
<1>9. CASE \E i \in DOMAIN rows : ClickMessage(i)
  <2>1. PICK i \in DOMAIN rows : ClickMessage(i)
    BY <1>9
  <2>2. i \in 1 .. Len(rows) /\ i \in Nat /\ current # Nobody
    BY <2>1, RowsFacts DEF RowsOK
  <2>3. CASE chatRow = 0
    BY <1>2, <2>1, <2>2, <2>3 DEF ClickMessage, serverVars
  <2>4. CASE chatRow # 0
    <3>1. /\ current' = current /\ selected' = chats[chatRow]
          /\ rows' = Fetched(current, selected)' /\ row' \in {0, Reloaded(i, rows')}
      BY <2>1, <2>4 DEF ClickMessage
    <3>2. selected' # NoChat
      <4>1. chats \in Seq(Chats)
        BY <2>2, ChatListFacts DEF ListOK, SelectionOwn, ChatListsRight, ServerOK
      <4>2. chats[chatRow] \in Chats
        BY <2>4, <4>1, ElementOfSeq, LenProperties DEF ListOK
      <4> QED BY <3>1, <4>2, NoChatAssumption
    <3>3. RowsExact'
      BY <2>2, <3>1, <3>2 DEF RowsExact
    <3>4. Len(rows') \in Nat
      BY <3>3, RowsFactsNext
    <3> QED BY <2>2, <3>1, <3>3, <3>4 DEF Reloaded, RowsOK
  <2> QED BY <2>3, <2>4
<1> QED BY <1>4, <1>5, <1>6, <1>7, <1>8, <1>9 DEF Next

-----------------------------------------------------------------------------
(* What the button Delete deletes is a message of the open conversation.   *)
LEMMA DeletedShownHere ==
  ASSUME ServerOK, HistoryOK, RowsOK, row # 0, NEW k \in DOMAIN stored,
         stored[k].id = rows[row].id
  PROVE  Belongs(stored[k], current, selected)
<1>1. row \in DOMAIN rows
  BY RowsFacts DEF RowsOK
<1>2. PICK j \in DOMAIN stored : /\ Belongs(stored[j], current, selected)
                                 /\ rows[row] = Row(stored[j].id, stored[j].payload)
  BY <1>1, RowsFacts DEF RowsOK
<1>3. stored[j].id = stored[k].id
  BY <1>2 DEF Row
<1>4. j = k
  BY <1>3, IdsUnique
<1> QED BY <1>2, <1>4

(* Each step keeps to deletions of own copies.                             *)
LEMMA OwnDeletedStep ==
  ServerOK /\ HistoryOK /\ RowsOK /\ OwnDeleted /\ Next => OwnDeleted'
<1> SUFFICES ASSUME ServerOK, HistoryOK, RowsOK, OwnDeleted, Next PROVE OwnDeleted'
  OBVIOUS
<1>1. CASE OnDelete
  <2>1. row # 0 /\ Deleting(rows[row].id)
    BY <1>1 DEF OnDelete
  <2>2. PICK k \in DOMAIN stored : /\ stored[k].id = rows[row].id
                                   /\ stored[k].from = current
                                   /\ deleted' = deleted \cup {stored[k]}
    BY <2>1, DeletingFacts
  <2>3. Belongs(stored[k], current, selected)
    BY <2>1, <2>2, DeletedShownHere
  <2>4. stored[k].chat # NoChat => stored[k].to = stored[k].from
    BY <2>2, <2>3 DEF Belongs
  <2> QED BY <2>2, <2>4 DEF OwnDeleted
<1>2. CASE UNCHANGED deleted
  BY <1>2 DEF OwnDeleted
<1>3. OnDelete \/ UNCHANGED deleted
  BY DEF Next, OnRegister, OnLogin, OnNewChat, OnLogout, OnRefresh, OnCreateGroup, OnSend,
         OnChatDoubleClick, ClickChat, DeselectChat, ClickMessage, Registering, LoggingIn,
         LoggingOut, AddingContact, CreatingGroup, Sending, serverVars
<1> QED BY <1>1, <1>2, <1>3

-----------------------------------------------------------------------------
(* The first state, before anybody registers.                              *)
LEMMA InvInit == Init => Inv
<1> SUFFICES ASSUME Init PROVE Inv
  OBVIOUS
<1>1. ServerOK /\ WatchedOnce /\ HistoryOK
  BY BaseStart DEF Init
<1>2. SelectionOwn /\ RowsExact /\ Marks /\ OwnDeleted
  BY EmptySeq DEF Init, BaseInit, SelectionOwn, RowsExact, Marks, OwnDeleted
<1> QED BY <1>1, <1>2 DEF Inv

(* Each step keeps all parts of the invariant.                             *)
LEMMA InvNext == Inv /\ [Next]_vars => Inv'
<1> SUFFICES ASSUME Inv, [Next]_vars PROVE Inv'
  OBVIOUS
<1>1. ListOK /\ RowsOK /\ OpenOwn
  BY OpenIsOwn DEF Inv, Marks, ListOK, RowsOK
<1>2. CASE Next
  <2>1. BaseNext
    BY <1>2, NextIsBase
  <2>2. ServerOK' /\ WatchedOnce' /\ HistoryOK'
    BY <1>1, <2>1, ServerStep, WatchedStep, HistoryStep DEF Inv
  <2>3. ListOK'
    BY <1>1, <1>2, <2>2, ListStep DEF Inv
  <2>4. RowsOK'
    BY <1>1, <1>2, <2>2, <2>3, RowsStep DEF Inv
  <2>5. OwnDeleted'
    BY <1>1, <1>2, OwnDeletedStep DEF Inv
  <2> QED BY <2>2, <2>3, <2>4, <2>5 DEF Inv, Marks, ListOK, RowsOK
<1>3. CASE UNCHANGED vars
  <2>1. ServerOK' /\ WatchedOnce' /\ OwnDeleted'
    BY <1>3 DEF vars, baseVars, serverVars, Inv, ServerOK, WatchedOnce, OwnDeleted
  <2>2. HistoryOK'
    BY <1>3 DEF vars, baseVars, serverVars, Inv, HistoryOK, Known
  <2>3. SelectionOwn'
    BY <1>3 DEF vars, baseVars, serverVars, Inv, SelectionOwn, ChatList, ListContacts, ListGroups
  <2>4. RowsExact' /\ Marks'
    BY <1>3 DEF vars, baseVars, serverVars, Inv, RowsExact, Fetched, Conversation, Marks
  <2> QED BY <2>1, <2>2, <2>3, <2>4 DEF Inv
<1> QED BY <1>2, <1>3

(* The invariant holds in every reachable state.                           *)
LEMMA InvAlways == Spec => []Inv
  BY InvInit, InvNext, PTL DEF Spec

(* Once per session the window is in observers_ of the client that is      *)
(* logged in, and in those of no other client.                             *)
THEOREM WatchedCorrect == Spec => []WatchedOnce
<1>1. Inv => WatchedOnce
  BY DEF Inv
<1> QED BY <1>1, InvAlways, PTL

(* The list and the open chat are those of the user who is logged in, and  *)
(* the mark in the list is on the open chat: what is typed goes there.     *)
THEOREM SelectionCorrect == Spec => []SelectionOwn
<1>1. Inv => SelectionOwn
  BY DEF Inv
<1> QED BY <1>1, InvAlways, PTL

(* After every method the rows are the open conversation.                  *)
THEOREM RowsCorrect == Spec => []RowsExact
<1>1. Inv => RowsExact
  BY DEF Inv
<1> QED BY <1>1, InvAlways, PTL

(* Every variable keeps its type.                                          *)
THEOREM TypeCorrect == Spec => []TypeOK
<1>1. Inv => TypeOK
  <2> SUFFICES ASSUME Inv PROVE TypeOK
    OBVIOUS
  <2>1. chats \in Seq(Chats) /\ selected \in Chats \cup {NoChat}
    <3>1. CASE current = Nobody
      BY <3>1, EmptySeq DEF Inv, SelectionOwn
    <3>2. CASE current # Nobody
      <4>1. current \in Names
        BY <3>2 DEF Inv, ServerOK
      <4>2. chats \in Seq(Chats)
        BY <3>2, <4>1, ChatListFacts DEF Inv, SelectionOwn, ChatListsRight
      <4> QED BY <3>2, <4>2, RangeOfSeq DEF Inv, SelectionOwn
    <3> QED BY <3>1, <3>2
  <2>2. rows \in Seq([id : Ids \cup {Temp}, payload : 0 .. MaxSends])
    BY RowsFacts DEF Inv
  <2> QED BY <2>1, <2>2 DEF Inv, ServerOK, Marks, TypeOK, BaseTypeOK
<1> QED BY <1>1, InvAlways, PTL

(* A message that its sender deleted is never again among the rows that    *)
(* the sender sees: no other copy of it is in a conversation of theirs.    *)
THEOREM DeletedCorrect == Spec => []DeletedDisappears
<1>1. Inv => DeletedDisappears
  <2> SUFFICES ASSUME Inv, NEW m \in deleted, NEW i \in DOMAIN rows,
                      m.from = current, rows[i].payload = m.payload
               PROVE  FALSE
    BY DEF DeletedDisappears
  <2>1. PICK k \in DOMAIN stored : /\ Belongs(stored[k], current, selected)
                                   /\ rows[i] = Row(stored[k].id, stored[k].payload)
    BY RowsFacts DEF Inv
  <2>2. stored[k] \in Known /\ m \in Known /\ stored[k].payload = m.payload
    BY <2>1 DEF Known, Range, Row
  <2>3. /\ stored[k].chat = m.chat
        /\ stored[k].to = m.to \/ m.chat = NoChat => stored[k] = m
    BY <2>2 DEF Inv, HistoryOK
  <2>4. stored[k] # m
    BY DEF Inv, HistoryOK, Range
  <2>5. m.chat # NoChat /\ m.to = current
    BY <2>3, <2>4 DEF Inv, OwnDeleted
  <2>6. stored[k].to = current
    BY <2>1, <2>3, <2>5 DEF Belongs
  <2> QED BY <2>3, <2>4, <2>5, <2>6
<1> QED BY <1>1, InvAlways, PTL

(* A step that keeps the open chat and deletes nothing leaves the mark on  *)
(* its message or takes it away.                                           *)
THEOREM MarkCorrect == Spec => MarkStays
<1> DEFINE Kept == row # 0 /\ row' # 0 /\ rows' # rows /\ selected' = selected
                     /\ deleted' = deleted
                   => rows'[row'] = rows[row]
<1>1. Inv /\ Inv' /\ [Next]_vars => [Kept]_vars
  <2> SUFFICES ASSUME Inv, Inv', Next, row # 0, row' # 0, rows' # rows, selected' = selected,
                      deleted' = deleted
               PROVE  rows'[row'] = rows[row]
    BY DEF Kept
  <2>1. RowsOK /\ OpenOwn /\ RowsExact /\ RowsExact'
    BY OpenIsOwn DEF Inv, Marks, RowsOK
  <2>2. row \in DOMAIN rows /\ current # Nobody /\ selected # NoChat
    BY <2>1, RowsFacts DEF Inv, RowsOK
  <2>3. rows = Fetched(current, selected)
    BY <2>1, <2>2 DEF RowsExact
  <2>4. CASE UNCHANGED <<current, stored>>
    <3>1. Fetched(current, selected)' = Fetched(current, selected)
      BY <2>4 DEF Fetched, Conversation
    <3> QED BY <2>1, <2>2, <2>3, <2>4, <3>1 DEF RowsExact
  <2>5. CASE Len(sent) < MaxSends /\ OnSend
    <3>1. /\ Sending(Copies(current, selected)) /\ RefreshMessages /\ current' = current
      BY <2>5 DEF OnSend, Sending
    <3>2. row' = row
      BY <3>1 DEF RefreshMessages, Reloaded
    <3>3. PICK u, chat : u = current /\ chat = selected
      OBVIOUS
    <3>4. /\ Fetched(u, chat)' = Fetched(current, selected)'
          /\ Fetched(u, chat) = Fetched(current, selected)
      BY <3>1, <3>3, OpenFetched
    <3>5. rows' = Fetched(current, selected)'
      BY <2>1, <2>2, <3>1 DEF RowsExact
    <3>6. Fetched(u, chat)'[row] = Fetched(u, chat)[row]
      BY <2>1, <2>2, <2>3, <2>5, <3>1, <3>4, FetchedGrows DEF Inv
    <3> QED BY <2>3, <3>2, <3>4, <3>5, <3>6
  <2>6. CASE OnDelete
    BY <2>6, DeletingFacts DEF OnDelete, Inv
  <2>7. CASE OnLogout \/ (\E u \in Names : OnLogin(u))
    BY <2>2, <2>7 DEF OnLogout, OnLogin, LoggingIn
  <2>8. \/ UNCHANGED <<current, stored>>
        \/ Len(sent) < MaxSends /\ OnSend
        \/ OnDelete
        \/ OnLogout \/ (\E u \in Names : OnLogin(u))
    BY DEF Next, OnRegister, OnNewChat, OnRefresh, OnCreateGroup, OnChatDoubleClick, ClickChat,
           DeselectChat, ClickMessage, Registering, AddingContact, CreatingGroup, serverVars
  <2> QED BY <2>4, <2>5, <2>6, <2>7, <2>8
<1>2. Inv /\ [Next]_vars => Inv'
  BY InvNext
<1> QED BY <1>1, <1>2, InvAlways, PTL DEF Spec, MarkStays

=============================================================================
