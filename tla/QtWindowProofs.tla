--------------------------- MODULE QtWindowProofs ---------------------------
(***************************************************************************)
(* What the Qt window shows of the open conversation is true although its  *)
(* rows are refreshed, appended to and removed from separately.            *)
(***************************************************************************)
EXTENDS QtWindow, WindowProofs

Rows == [id : Ids \cup {Temp}, payload : 0 .. MaxSends]

(* The rows fit a conversation: they are in the order of the ids; a row    *)
(* with an id is a message of it; and each message has a row.              *)
Fit(history, u, chat, table) ==
  /\ table \in Seq(Rows)
  /\ \A i, j \in DOMAIN table :
       i < j /\ table[i].id # Temp /\ table[j].id # Temp => table[i].id < table[j].id
  /\ \A i \in DOMAIN table : table[i].id # Temp =>
       \E k \in DOMAIN history : /\ table[i] = Row(history[k].id, history[k].payload)
                                 /\ Belongs(history[k], u, chat)
  /\ \A k \in DOMAIN history : Belongs(history[k], u, chat) =>
       \E i \in DOMAIN table : \/ table[i] = Row(history[k].id, history[k].payload)
                               \/ table[i] = Row(Temp, history[k].payload)

(* No row is a message.                                                    *)
Blank(table) == table \in Seq(Rows) /\ \A i \in DOMAIN table : table[i].id = Temp

RowsOK ==
  /\ row \in 0 .. Len(rows)
  /\ IF current = Nobody \/ selected = NoChat
       THEN Blank(rows)
       ELSE Fit(stored, current, selected, rows)

(* Nobody has no list, and the list of a user is the user's.               *)
ListOK ==
  /\ SelectionOwn
  /\ selected \in Chats \cup {NoChat}
  /\ marked \in Range(items) \cup {NoChat}
  /\ current = Nobody => items = <<>> /\ marked = NoChat

Inv ==
  /\ ServerOK
  /\ WatchedOnce
  /\ HistoryOK
  /\ ListOK
  /\ RowsOK

-----------------------------------------------------------------------------
(* The open chat is one of the user.                                       *)
LEMMA OpenIsOwn == ServerOK /\ SelectionOwn => OpenOwn
<1> SUFFICES ASSUME ServerOK, SelectionOwn, current # Nobody, selected # NoChat
             PROVE  selected \in OwnChats(current)
  BY DEF OpenOwn
<1>1. current \in Names
  BY DEF ServerOK
<1>2. selected \in Range(ChatList(current))
  BY DEF SelectionOwn
<1> QED BY <1>1, <1>2, ChatListFacts DEF ChatListsRight

(* Every step of the window is one of the calls.                           *)
LEMMA NextIsBase == Next => BaseNext
<1> SUFFICES ASSUME Next PROVE BaseNext
  OBVIOUS
<1>1. CASE \E u \in Names : Register(u) \/ LogIn(u) \/ NewChat(u)
  BY <1>1 DEF Register, LogIn, NewChat, BaseNext
<1>2. CASE LogOut
  BY <1>2 DEF LogOut, BaseNext
<1>3. CASE \E members \in SUBSET Names : Len(groups) < MaxGroups /\ CreateGroup(members)
  BY <1>3 DEF CreateGroup, BaseNext
<1>4. CASE Len(sent) < MaxSends /\ SendCurrentMessage
  BY <1>4 DEF SendCurrentMessage, BaseNext
<1>5. CASE DeleteSelectedMessage
  BY <1>5 DEF DeleteSelectedMessage, BaseNext
<1>6. CASE Refresh \/ (\E i \in DOMAIN items : ClickChat(items[i]) \/ MoveToChat(items[i]))
                   \/ (\E i \in DOMAIN rows : SelectRow(i))
  BY <1>6 DEF Refresh, ClickChat, MoveToChat, SelectRow, BaseNext
<1> QED BY <1>1, <1>2, <1>3, <1>4, <1>5, <1>6 DEF Next

(* A chat of the new list is marked if it has any, and one of them or none *)
(* is open.                                                                *)
LEMMA NewItemsOpen ==
  ASSUME ServerOK', current' \in Names, items' = ChatList(current)',
         marked' \in Range(items') \cup {NoChat}, items' # <<>> => marked' \in Range(items'),
         selected' \in Range(items') \cup {NoChat}
  PROVE  ListOK'
<1>1. items' \in Seq(Chats) /\ current' # Nobody
  BY NewList
<1>2. selected' \in Chats \cup {NoChat}
  BY <1>1, RangeOfSeq
<1> QED BY <1>1, <1>2 DEF ListOK, SelectionOwn

(* The first chat of a list that is not empty.                             *)
LEMMA FirstItem ==
  ASSUME NEW T, NEW s \in Seq(T)
  PROVE  /\ FirstOf(s) \in Range(s) \cup {NoChat}
         /\ s # <<>> => FirstOf(s) \in Range(s)
<1>1. ASSUME s # <<>> PROVE 1 \in DOMAIN s
  BY <1>1, EmptySeq, LenProperties
<1> QED BY <1>1 DEF Range, FirstOf

(* When a new chat is in the list, the list has a first one.               *)
LEMMA NewChatListed ==
  ASSUME ServerOK', current' \in Names, NEW chat, chat \in OwnChats(current)',
         ListAndSelect(chat)
  PROVE  ListOK' /\ selected' \in Chats
<1>1. /\ items' = ChatList(current)' /\ marked' = chat /\ selected' = FirstOf(items')
  BY DEF ListAndSelect
<1>2. items' \in Seq(Chats) /\ chat \in Range(items')
  BY <1>1, NewList
<1>3. items' # <<>>
  BY <1>2, EmptySeq DEF Range
<1>4. selected' \in Range(items')
  BY <1>1, <1>2, <1>3, FirstItem
<1>5. ListOK'
  BY <1>1, <1>2, <1>4, NewItemsOpen
<1> QED BY <1>2, <1>4, <1>5, RangeOfSeq

(* Each step keeps the list and the open chat right.                       *)
LEMMA ListStep == ServerOK /\ ServerOK' /\ ListOK /\ Next => ListOK'
<1> SUFFICES ASSUME ServerOK, ServerOK', ListOK, Next PROVE ListOK'
  OBVIOUS
<1>1. ASSUME UNCHANGED <<current, contacts, groups, items, marked, selected>>
      PROVE  ListOK'
  BY <1>1 DEF ListOK, SelectionOwn, ChatList, ListContacts, ListGroups
<1>2. current # Nobody => current \in Names
  BY DEF ServerOK
<1>3. current # Nobody => /\ items = ChatList(current)
                          /\ items \in Seq(Chats)
                          /\ selected \in Range(items) \cup {NoChat}
                          /\ marked \in Range(items) \cup {NoChat}
                          /\ items # <<>> => marked \in Range(items)
  BY <1>2, ChatListFacts DEF ListOK, SelectionOwn, ChatListsRight
<1>4. CASE \E u \in Names : Register(u)
  <2>1. PICK u \in Names : Register(u)
    BY <1>4
  <2> QED BY <2>1 DEF Register, Registering, ListOK, SelectionOwn
<1>5. CASE \E u \in Names : LogIn(u)
  <2>1. PICK u \in Names : LogIn(u)
    BY <1>5
  <2>2. current' = u /\ UNCHANGED <<contacts, groups>> /\ items' = ChatList(u)
    BY <2>1 DEF LogIn, LoggingIn, serverVars
  <2>3. items' = ChatList(current)'
    BY <2>2 DEF ChatList, ListContacts, ListGroups
  <2>4. marked' = FirstOf(items') /\ selected' = NoChat
    BY <2>1 DEF LogIn
  <2>5. items' \in Seq(Chats)
    BY <2>2, <2>3, NewList
  <2>6. marked' \in Range(items') \cup {NoChat} /\ (items' # <<>> => marked' \in Range(items'))
    BY <2>4, <2>5, FirstItem
  <2> QED BY <2>2, <2>3, <2>4, <2>6, NewItemsOpen
<1>6. CASE \E v \in Names : NewChat(v)
  <2>1. PICK v \in Names : AddingContact(v) /\ ListAndSelect(Direct(v))
    BY <1>6 DEF NewChat
  <2>2. current' = current /\ current \in Names /\ Direct(v) \in OwnChats(current)'
    BY <2>1, ContactAdded
  <2> QED BY <2>1, <2>2, NewChatListed
<1>7. CASE LogOut
  <2>1. items' = <<>> /\ marked' = NoChat /\ selected' = marked /\ current' = Nobody
    BY <1>7 DEF LogOut, LoggingOut
  <2>2. marked \in Chats \cup {NoChat}
    BY <1>3, RangeOfSeq DEF ListOK, SelectionOwn
  <2> QED BY <2>1, <2>2 DEF ListOK, SelectionOwn
<1>8. CASE Refresh
  <2>1. /\ current # Nobody /\ UNCHANGED <<current, contacts, groups>>
        /\ items' = ChatList(current)
    BY <1>8 DEF Refresh, serverVars
  <2>2. items' = items /\ items' = ChatList(current)' /\ current' \in Names
    BY <1>2, <1>3, <2>1 DEF ChatList, ListContacts, ListGroups
  <2>3. marked' = FirstOf(items')
    BY <1>8 DEF Refresh
  <2>4. marked' \in Range(items') \cup {NoChat} /\ (items' # <<>> => marked' \in Range(items'))
    BY <1>3, <2>1, <2>2, <2>3, FirstItem
  <2>5. selected' \in Range(items') \cup {NoChat}
    BY <1>3, <1>8, <2>1, <2>2 DEF Refresh, Open
  <2> QED BY <2>2, <2>4, <2>5, NewItemsOpen
<1>9. CASE \E members \in SUBSET Names : Len(groups) < MaxGroups /\ CreateGroup(members)
  <2>1. PICK members \in SUBSET Names :
          Len(groups) < MaxGroups /\ CreatingGroup(members) /\ ListAndSelect(Group(Len(groups')))
    BY <1>9 DEF CreateGroup
  <2>2. current' = current /\ current \in Names /\ Group(Len(groups')) \in OwnChats(current)'
    BY <2>1, GroupCreated
  <2> QED BY <2>1, <2>2, NewChatListed
<1>10. CASE \E i \in DOMAIN items : ClickChat(items[i]) \/ MoveToChat(items[i])
  <2>1. PICK i \in DOMAIN items : ClickChat(items[i]) \/ MoveToChat(items[i])
    BY <1>10
  <2>2. /\ UNCHANGED <<current, contacts, groups, items>> /\ current # Nobody
        /\ marked' = items[i] /\ selected' \in {items[i], marked}
    BY <2>1 DEF ClickChat, MoveToChat, Open, serverVars
  <2>3. items' = ChatList(current)' /\ current' \in Names
    BY <1>2, <1>3, <2>2 DEF ChatList, ListContacts, ListGroups
  <2>4. marked' \in Range(items') /\ selected' \in Range(items') \cup {NoChat}
    BY <1>3, <2>2 DEF Range
  <2> QED BY <2>2, <2>3, <2>4, NewItemsOpen
<1>11. CASE \E i \in DOMAIN rows : SelectRow(i)
  BY <1>1, <1>11 DEF SelectRow, serverVars
<1>12. CASE SendCurrentMessage \/ DeleteSelectedMessage
  BY <1>1, <1>12 DEF SendCurrentMessage, DeleteSelectedMessage, Sending, Deleting
<1> QED BY <1>4, <1>5, <1>6, <1>7, <1>8, <1>9, <1>10, <1>11, <1>12 DEF Next

-----------------------------------------------------------------------------
(* The rows.                                                               *)

(* The ids of messages are not those of rows that the window made up.      *)
LEMMA IdsOfMessages ==
  ServerOK => \A k \in DOMAIN stored :
                /\ stored[k] \in Messages
                /\ stored[k].id \in Nat /\ stored[k].id # Temp
                /\ Row(stored[k].id, stored[k].payload) \in Rows
<1> SUFFICES ASSUME ServerOK, NEW k \in DOMAIN stored
             PROVE  /\ stored[k] \in Messages
                    /\ stored[k].id \in Nat /\ stored[k].id # Temp
                    /\ Row(stored[k].id, stored[k].payload) \in Rows
  OBVIOUS
<1>1. stored[k] \in Messages
  BY ElementOfSeq, LenProperties DEF ServerOK
<1>2. stored[k].id \in Ids /\ stored[k].payload \in 1 .. MaxSends
  BY <1>1 DEF Messages
<1>3. stored[k].id \in Nat /\ stored[k].id # Temp
  BY <1>2 DEF Ids, Temp
<1>4. stored[k].payload \in 0 .. MaxSends
  BY <1>2, BoundsAssumption
<1> QED BY <1>1, <1>2, <1>3, <1>4 DEF Row, Rows

(* A row and its entry have the same id and payload.                       *)
LEMMA RowFields == \A id, payload : Row(id, payload).id = id /\ Row(id, payload).payload = payload
  BY DEF Row

(* What a refresh fetches fits.                                            *)
LEMMA FetchedFits ==
  ServerOK /\ HistoryOK => \A u, chat : Fit(stored, u, chat, Fetched(u, chat))
<1> SUFFICES ASSUME ServerOK, HistoryOK, NEW u, NEW chat
             PROVE  Fit(stored, u, chat, Fetched(u, chat))
  OBVIOUS
<1> DEFINE P == Places(u, chat)
           n == Cardinality(P)
           A == Ascending(P)
           F == Fetched(u, chat)
<1>1. /\ IsFiniteSet(P) /\ P \in SUBSET Nat /\ n \in Nat
      /\ F \in Seq(Rows)
      /\ DOMAIN F = 1 .. n
      /\ \A i \in 1 .. n : A[i] \in P /\ F[i] = Row(stored[A[i]].id, stored[A[i]].payload)
      /\ \A k \in P : \E i \in DOMAIN F : F[i] = Row(stored[k].id, stored[k].payload)
  <2>1. FetchedRight
    BY FetchedFacts
  <2>2. IsFiniteSet(P) /\ P \in SUBSET Nat /\ n \in Nat /\ DOMAIN F = 1 .. n
    BY <2>1 DEF FetchedRight
  <2>3. F \in Seq(Rows)
    BY <2>1 DEF FetchedRight, Rows
  <2>4. \A i \in 1 .. n : A[i] \in P /\ F[i] = Row(stored[A[i]].id, stored[A[i]].payload)
    BY <2>1 DEF FetchedRight
  <2>5. \A k \in P : \E i \in DOMAIN F : F[i] = Row(stored[k].id, stored[k].payload)
    BY <2>1 DEF FetchedRight
  <2> QED BY <2>2, <2>3, <2>4, <2>5
<1>2. \A k : k \in P <=> k \in DOMAIN stored /\ Belongs(stored[k], u, chat)
  BY DEF Places
<1>3. \A i, j \in 1 .. n : i < j => A[i] < A[j]
  BY <1>1, AscendingFacts
<1> HIDE DEF P, n, A, F
<1>4. ASSUME NEW i \in DOMAIN F, NEW j \in DOMAIN F, i < j PROVE F[i].id < F[j].id
  <2>1. A[i] \in DOMAIN stored /\ A[j] \in DOMAIN stored /\ A[i] < A[j]
    BY <1>1, <1>2, <1>3, <1>4
  <2>2. F[i].id = stored[A[i]].id /\ F[j].id = stored[A[j]].id
    BY <1>1, RowFields
  <2> QED BY <2>1, <2>2 DEF HistoryOK
<1>5. \A i \in DOMAIN F : \E k \in DOMAIN stored :
        F[i] = Row(stored[k].id, stored[k].payload) /\ Belongs(stored[k], u, chat)
  BY <1>1, <1>2
<1> QED BY <1>1, <1>2, <1>4, <1>5 DEF Fit, F

(* The row that has the same id is current again.                          *)
LEMMA KeptRowFacts ==
  ASSUME NEW table \in Seq(Rows)
  PROVE  /\ KeptRow(table) \in 0 .. Len(table)
         /\ KeptRow(table) # 0 => row # 0 /\ table[KeptRow(table)].id = rows[row].id
<1>1. DOMAIN table = 1 .. Len(table) /\ Len(table) \in Nat
  BY LenProperties
<1> QED BY <1>1 DEF KeptRow

(* The messages of a chat are fetched anew, and the row that was current   *)
(* is kept or not.                                                         *)
Refetched(chat) == rows' = Fetched(current, chat) /\ row' \in {0, KeptRow(rows')}

(* Where a chat is opened its messages are fetched.                        *)
LEMMA OpenRefetches ==
  /\ \A chat : Open(chat) => Refetched(chat)
  /\ \A chat : ListAndSelect(chat) => Refetched(selected')
  BY DEF Open, ListAndSelect, Refetched

(* The messages that are fetched are those of the chat that is open then.  *)
LEMMA RefetchedRows ==
  ASSUME ServerOK, HistoryOK, current # Nobody, NEW chat, chat # NoChat,
         UNCHANGED <<current, stored>>, selected' = chat, Refetched(chat)
  PROVE  RowsOK'
<1>1. rows' = Fetched(current, chat) /\ row' \in {0, KeptRow(rows')}
  BY DEF Refetched
<1>2. rows' \in Seq(Rows)
  BY <1>1, FetchedFacts DEF FetchedRight, Rows
<1>3. row' \in 0 .. Len(rows')
  BY <1>1, <1>2, KeptRowFacts, LenProperties
<1>4. Fit(stored, current, chat, Fetched(current, chat))
  BY FetchedFits
<1> QED BY <1>1, <1>3, <1>4 DEF RowsOK

(* Tables without rows, and with the hint, show no message.                *)
LEMMA BlankTables == Blank(<<>>) /\ Blank(<<Hint>>)
<1>1. Hint \in Rows /\ Hint.id = Temp
  BY BoundsAssumption DEF Hint, Row, Rows
<1>2. <<Hint>> \in Seq(Rows) /\ DOMAIN <<Hint>> = {1} /\ <<Hint>>[1] = Hint
  BY <1>1
<1> QED BY <1>1, <1>2, EmptySeq DEF Blank

-----------------------------------------------------------------------------
(* The rows after a deletion.                                              *)

(* RemoveAt closes the gap.                                                *)
LEMMA RemoveAtFacts ==
  ASSUME NEW T, NEW s \in Seq(T), NEW i \in 1 .. Len(s)
  PROVE  /\ RemoveAt(s, i) \in Seq(T)
         /\ Len(RemoveAt(s, i)) = Len(s) - 1
         /\ DOMAIN RemoveAt(s, i) = 1 .. Len(s) - 1
         /\ \A j \in 1 .. Len(s) - 1 : RemoveAt(s, i)[j] = IF j < i THEN s[j] ELSE s[j + 1]
<1> DEFINE a == SubSeq(s, 1, i - 1)
           b == SubSeq(s, i + 1, Len(s))
<1>1. Len(s) \in Nat /\ i \in Nat /\ \A j \in 1 .. Len(s) : s[j] \in T
  BY LenProperties, ElementOfSeq
<1>2. /\ a \in Seq(T) /\ Len(a) = i - 1
      /\ \A j \in 1 .. i - 1 : a[j] = s[j]
  <2>1. \A j \in 1 .. i - 1 : s[j] \in T
    BY <1>1
  <2>2. /\ a \in Seq(T)
        /\ Len(a) = IF 1 <= i - 1 THEN (i - 1) - 1 + 1 ELSE 0
        /\ \A j \in 1 .. (i - 1) - 1 + 1 : a[j] = s[1 + j - 1]
    BY <1>1, <2>1, SubSeqProperties
  <2> HIDE DEF a
  <2> QED BY <1>1, <2>2
<1>3. /\ b \in Seq(T) /\ Len(b) = Len(s) - i
      /\ \A j \in 1 .. Len(s) - i : b[j] = s[i + j]
  <2>1. \A j \in i + 1 .. Len(s) : s[j] \in T
    BY <1>1
  <2>2. /\ b \in Seq(T)
        /\ Len(b) = IF i + 1 <= Len(s) THEN Len(s) - (i + 1) + 1 ELSE 0
        /\ \A j \in 1 .. Len(s) - (i + 1) + 1 : b[j] = s[(i + 1) + j - 1]
    BY <1>1, <2>1, SubSeqProperties
  <2> HIDE DEF b
  <2>3. \A j \in 1 .. Len(s) - i : b[j] = s[(i + 1) + j - 1] /\ (i + 1) + j - 1 = i + j
    BY <1>1, <2>2
  <2> QED BY <1>1, <2>2, <2>3
<1>4. RemoveAt(s, i) = a \o b
  BY DEF RemoveAt
<1> HIDE DEF a, b
<1>5. /\ a \o b \in Seq(T)
      /\ Len(a \o b) = Len(a) + Len(b)
      /\ \A j \in 1 .. Len(a) + Len(b) :
           (a \o b)[j] = IF j <= Len(a) THEN a[j] ELSE b[j - Len(a)]
  BY <1>2, <1>3, ConcatProperties, Zenon
<1> DEFINE c == a \o b
<1>6. c \in Seq(T) /\ Len(c) = Len(s) - 1 /\ DOMAIN c = 1 .. Len(s) - 1
  <2>1. c \in Seq(T) /\ Len(c) = Len(a) + Len(b)
    BY <1>5
  <2> HIDE DEF c
  <2> QED BY <1>1, <1>2, <1>3, <2>1, LenProperties
<1>7. ASSUME NEW j \in 1 .. Len(s) - 1 PROVE c[j] = IF j < i THEN s[j] ELSE s[j + 1]
  <2>1. c[j] = IF j <= i - 1 THEN a[j] ELSE b[j - (i - 1)]
    <3>1. j \in 1 .. Len(a) + Len(b)
      BY <1>1, <1>2, <1>3
    <3>2. c[j] = IF j <= Len(a) THEN a[j] ELSE b[j - Len(a)]
      BY <1>5, <3>1
    <3> HIDE DEF c
    <3> QED BY <1>2, <3>2
  <2> HIDE DEF c
  <2>2. CASE j < i
    <3>1. j \in 1 .. i - 1 /\ j <= i - 1
      BY <1>1, <2>2
    <3> QED BY <1>2, <2>1, <2>2, <3>1
  <2>3. CASE ~ (j < i)
    <3>1. ~ (j <= i - 1) /\ j - (i - 1) \in 1 .. Len(s) - i /\ i + (j - (i - 1)) = j + 1
      BY <1>1, <2>3
    <3>2. b[j - (i - 1)] = s[i + (j - (i - 1))]
      BY <1>3, <3>1
    <3> QED BY <2>1, <2>3, <3>1, <3>2
  <2> QED BY <2>2, <2>3
<1> HIDE DEF c
<1> QED BY <1>4, <1>6, <1>7 DEF c

(* The row of a message that is deleted is the one that is removed, and    *)
(* the others still fit.                                                   *)
LEMMA DeletedRows ==
  ASSUME ServerOK, HistoryOK, RowsOK, DeleteSelectedMessage
  PROVE  RowsOK'
<1> DEFINE new == RemoveAt(rows, row)
           old(i) == IF i < row THEN i ELSE i + 1
<1>1. /\ row # 0 /\ rows[row].id # Temp
      /\ Deleting(rows[row].id)
      /\ rows' = new /\ row' = RowAfterRemoval(rows')
      /\ UNCHANGED <<current, selected>>
  BY DEF DeleteSelectedMessage, Deleting
<1>2. /\ rows \in Seq(Rows) /\ Len(rows) \in Nat
      /\ DOMAIN rows = 1 .. Len(rows) /\ row \in DOMAIN rows
  <2>1. rows \in Seq(Rows)
    BY DEF RowsOK, Blank, Fit
  <2>2. Len(rows) \in Nat /\ DOMAIN rows = 1 .. Len(rows)
    BY <2>1, LenProperties
  <2> QED BY <1>1, <2>1, <2>2 DEF RowsOK
<1>3. current # Nobody /\ selected # NoChat /\ Fit(stored, current, selected, rows)
  BY <1>1, <1>2 DEF RowsOK, Blank
<1>4. PICK k \in DOMAIN stored : /\ stored[k].id = rows[row].id
                                 /\ stored' = AtPlaces(stored, DOMAIN stored \ {k})
  BY <1>1, DeletingFacts
<1>5. /\ \A j \in DOMAIN stored : j # k => \E h \in DOMAIN stored' : stored'[h] = stored[j]
      /\ \A h \in DOMAIN stored' : \E j \in DOMAIN stored : stored'[h] = stored[j] /\ j # k
  <2> DEFINE K == DOMAIN stored \ {k}
  <2>1. stored \in Seq(Messages) /\ K \in SUBSET DOMAIN stored /\ stored' = AtPlaces(stored, K)
    BY <1>4 DEF ServerOK
  <2>2. \A j : j \in K <=> j \in DOMAIN stored /\ j # k
    OBVIOUS
  <2> HIDE DEF K
  <2>3. /\ DOMAIN stored' = 1 .. Cardinality(K)
        /\ \A i \in 1 .. Cardinality(K) : /\ Ascending(K)[i] \in K
                                          /\ stored'[i] = stored[Ascending(K)[i]]
        /\ \A j \in K : \E i \in 1 .. Cardinality(K) : stored'[i] = stored[j]
    BY <2>1, AtPlacesFacts
  <2> QED BY <2>2, <2>3
<1>6. /\ new \in Seq(Rows) /\ Len(new) = Len(rows) - 1
      /\ DOMAIN new = 1 .. Len(rows) - 1
      /\ \A i \in DOMAIN new : new[i] = rows[old(i)]
  <2>1. \A i \in 1 .. Len(rows) - 1 : new[i] = IF i < row THEN rows[i] ELSE rows[i + 1]
    BY <1>2, RemoveAtFacts
  <2>2. new \in Seq(Rows) /\ Len(new) = Len(rows) - 1 /\ DOMAIN new = 1 .. Len(rows) - 1
    BY <1>2, RemoveAtFacts
  <2> HIDE DEF new
  <2> QED BY <2>1, <2>2
<1> HIDE DEF new
<1>7. /\ \A i \in DOMAIN new : old(i) \in DOMAIN rows /\ old(i) # row
      /\ \A i, j \in DOMAIN new : i < j => old(i) < old(j)
      /\ \A i \in DOMAIN rows : i # row => \E j \in DOMAIN new : old(j) = i
  <2>1. \A i \in DOMAIN new : old(i) \in DOMAIN rows /\ old(i) # row
    BY <1>2, <1>6
  <2>2. \A i, j \in DOMAIN new : i < j => old(i) < old(j)
    BY <1>2, <1>6
  <2>3. ASSUME NEW i \in DOMAIN rows, i # row PROVE \E j \in DOMAIN new : old(j) = i
    <3>1. CASE i < row
      <4>1. i \in DOMAIN new /\ old(i) = i
        BY <1>2, <1>6, <3>1
      <4> QED BY <4>1
    <3>2. CASE row < i
      <4>1. i - 1 \in DOMAIN new /\ old(i - 1) = i
        BY <1>2, <1>6, <3>2
      <4> QED BY <4>1
    <3> QED BY <1>2, <2>3, <3>1, <3>2
  <2> QED BY <2>1, <2>2, <2>3
<1> HIDE DEF old
<1>8. /\ \A i, j \in DOMAIN rows :
           i < j /\ rows[i].id # Temp /\ rows[j].id # Temp => rows[i].id < rows[j].id
      /\ \A i \in DOMAIN rows : rows[i].id # Temp =>
           \E j \in DOMAIN stored : /\ rows[i] = Row(stored[j].id, stored[j].payload)
                                    /\ Belongs(stored[j], current, selected)
      /\ \A j \in DOMAIN stored : Belongs(stored[j], current, selected) =>
           \E i \in DOMAIN rows : \/ rows[i] = Row(stored[j].id, stored[j].payload)
                                  \/ rows[i] = Row(Temp, stored[j].payload)
  BY <1>3 DEF Fit
<1>9. \A i, j \in DOMAIN new :
        i < j /\ new[i].id # Temp /\ new[j].id # Temp => new[i].id < new[j].id
  BY <1>6, <1>7, <1>8
<1>10. ASSUME NEW i \in DOMAIN new, new[i].id # Temp
       PROVE  \E h \in DOMAIN stored' : /\ new[i] = Row(stored'[h].id, stored'[h].payload)
                                        /\ Belongs(stored'[h], current, selected)
  <2>1. old(i) \in DOMAIN rows /\ old(i) # row /\ new[i] = rows[old(i)]
    BY <1>6, <1>7
  <2>2. PICK j \in DOMAIN stored : /\ new[i] = Row(stored[j].id, stored[j].payload)
                                   /\ Belongs(stored[j], current, selected)
    BY <1>8, <1>10, <2>1
  <2>3. j # k
    <3>1. SUFFICES ASSUME j = k PROVE FALSE
      OBVIOUS
    <3>2. rows[old(i)].id = rows[row].id
      BY <1>4, <2>1, <2>2, <3>1, RowFields
    <3>3. old(i) < row \/ row < old(i)
      BY <1>2, <2>1
    <3>4. rows[row].id < rows[row].id
      BY <1>1, <1>2, <1>8, <2>1, <3>2, <3>3
    <3>5. rows[row].id \in Nat
      BY <1>4, IdsOfMessages
    <3> QED BY <3>4, <3>5
  <2>4. PICK h \in DOMAIN stored' : stored'[h] = stored[j]
    BY <1>5, <2>3
  <2> QED BY <2>2, <2>4
<1>11. ASSUME NEW h \in DOMAIN stored', Belongs(stored'[h], current, selected)
       PROVE  \E i \in DOMAIN new : \/ new[i] = Row(stored'[h].id, stored'[h].payload)
                                    \/ new[i] = Row(Temp, stored'[h].payload)
  <2>1. PICK j \in DOMAIN stored : stored'[h] = stored[j] /\ j # k
    BY <1>5
  <2>2. PICK i \in DOMAIN rows : \/ rows[i] = Row(stored[j].id, stored[j].payload)
                                 \/ rows[i] = Row(Temp, stored[j].payload)
    BY <1>8, <1>11, <2>1
  <2>3. i # row
    BY <1>1, <1>4, <2>1, <2>2, RowFields, IdsUnique
  <2>4. PICK g \in DOMAIN new : old(g) = i
    BY <1>7, <2>3
  <2> QED BY <1>6, <2>1, <2>2, <2>4
<1>12. Fit(stored', current, selected, new)
  BY <1>6, <1>9, <1>10, <1>11 DEF Fit
<1>13. row' \in 0 .. Len(new)
  BY <1>1, <1>2, <1>6 DEF RowAfterRemoval
<1> QED BY <1>1, <1>3, <1>12, <1>13 DEF RowsOK

-----------------------------------------------------------------------------
(* The rows after a send.                                                  *)

(* FlattenSeq on a sequence of no and of one sequence.                     *)
LEMMA FlattenShort ==
  /\ FlattenSeq(<<>>) = <<>>
  /\ \A s : FlattenSeq([i \in 1 .. 1 |-> s]) = s
<1>1. FlattenSeq(<<>>) = <<>>
  BY DEF FlattenSeq
<1>2. ASSUME NEW s PROVE FlattenSeq([i \in 1 .. 1 |-> s]) = s
  <2> DEFINE one == [i \in 1 .. 1 |-> s]
             f == CHOOSE f : f = [i \in 1 .. 1 |-> IF i = 1 THEN s ELSE f[i - 1] \o s]
  <2>1. one = [i \in 1 .. 1 |-> IF i = 1 THEN s ELSE one[i - 1] \o s]
    OBVIOUS
  <2>2. f = [i \in 1 .. 1 |-> IF i = 1 THEN s ELSE f[i - 1] \o s]
    BY <2>1, Zenon
  <2>3. f[1] = s
    BY <2>2
  <2> QED BY <2>3 DEF FlattenSeq
<1> QED BY <1>1, <1>2

(* The notification adds the row of the user's own copy, if there is one.  *)
LEMMA NotifiedFacts ==
  ASSUME NEW c \in Seq(Messages), current # Nobody, watches[current] = 1,
         \A i, j \in DOMAIN c : c[i].to = c[j].to => i = j
  PROVE  \/ Notified(c) = <<>>
         \/ \E x \in DOMAIN c : /\ c[x].to = current
                                /\ Notified(c) = <<Row(c[x].id, c[x].payload)>>
<1> DEFINE K == {k \in DOMAIN c : c[k].to = current}
           own == AtPlaces(c, K)
           lists == [i \in DOMAIN own |->
                       [j \in 1 .. watches[current] |-> Row(own[i].id, own[i].payload)]]
<1>1. Notified(c) = FlattenSeq(lists)
  BY DEF Notified
<1>4. DOMAIN own = 1 .. Cardinality(K)
  BY DEF AtPlaces
<1>2. CASE K = {}
  <2>1. DOMAIN own = 1 .. 0
    <3> HIDE DEF K, own
    <3> QED BY <1>2, <1>4, FS_EmptySet
  <2>2. lists = <<>>
    <3> HIDE DEF own
    <3>1. lists \in [1 .. 0 -> {<<>>}]
      BY <2>1
    <3> HIDE DEF lists
    <3>2. lists \in Seq({<<>>}) /\ Len(lists) = 0
      BY <3>1, SeqDef
    <3> QED BY <3>2, EmptySeq
  <2> QED BY <1>1, <2>2, FlattenShort
<1>3. CASE K # {}
  <2>1. PICK x \in DOMAIN c : x \in K /\ K = {x}
    BY <1>3
  <2>2. Cardinality(K) = 1 /\ K \in SUBSET Nat /\ IsFiniteSet(K)
    <3>1. x \in Nat
      BY LenProperties
    <3>2. Cardinality({x}) = 1 /\ IsFiniteSet({x})
      BY FS_Singleton
    <3> HIDE DEF K
    <3> QED BY <2>1, <3>1, <3>2
  <2>3. Ascending(K)[1] = x
    <3> HIDE DEF K
    <3>1. \A i \in 1 .. Cardinality(K) : Ascending(K)[i] \in K
      BY <2>2, AscendingFacts
    <3>2. 1 \in 1 .. Cardinality(K)
      BY <2>2
    <3>3. Ascending(K)[1] \in {x}
      BY <2>1, <3>1, <3>2
    <3> QED BY <3>3
  <2>4. own = [i \in 1 .. 1 |-> c[x]]
    <3> HIDE DEF K
    <3>1. own = [i \in 1 .. 1 |-> c[Ascending(K)[i]]]
      BY <2>2 DEF AtPlaces
    <3> QED BY <2>3, <3>1
  <2> DEFINE r == Row(c[x].id, c[x].payload)
  <2>5. lists = [i \in 1 .. 1 |-> [j \in 1 .. 1 |-> r]]
    <3> HIDE DEF own, r
    <3>1. \A i \in DOMAIN own : i \in 1 .. 1 /\ own[i] = c[x]
      BY <2>4
    <3>2. DOMAIN own = 1 .. 1
      BY <2>4
    <3> QED BY <3>1, <3>2 DEF r
  <2>6. FlattenSeq(lists) = [j \in 1 .. 1 |-> r]
    <3> HIDE DEF lists, r
    <3> QED BY <2>5, FlattenShort
  <2>7. [j \in 1 .. 1 |-> r] = <<r>>
    <3> HIDE DEF r
    <3> QED OBVIOUS
  <2>8. c[x].to = current
    BY <2>1
  <2> QED BY <1>1, <2>6, <2>7, <2>8
<1> QED BY <1>2, <1>3

(* The entries of a table with one more row.                               *)
LEMMA AppendedRow ==
  ASSUME NEW T, NEW s \in Seq(T), NEW e \in T
  PROVE  /\ s \o <<e>> \in Seq(T)
         /\ Len(s \o <<e>>) = Len(s) + 1
         /\ DOMAIN (s \o <<e>>) = 1 .. Len(s) + 1
         /\ \A i \in DOMAIN s : (s \o <<e>>)[i] = s[i]
         /\ (s \o <<e>>)[Len(s) + 1] = e
         /\ DOMAIN s = 1 .. Len(s) /\ Len(s) \in Nat
<1>1. Append(s, e) = s \o <<e>>
  BY AppendIsConcat
<1>2. DOMAIN Append(s, e) = 1 .. Len(s) + 1
  BY AppendProperties, LenProperties
<1> QED BY <1>1, <1>2, AppendProperties, LenProperties

(* A row without an id fits anywhere, and covers the new messages when     *)
(* it has their payload.                                                   *)
LEMMA EchoFits ==
  ASSUME NEW history, NEW more, NEW u, NEW chat, NEW table, NEW p \in 0 .. MaxSends,
         table \in Seq(Rows),
         \A i, j \in DOMAIN table :
           i < j /\ table[i].id # Temp /\ table[j].id # Temp => table[i].id < table[j].id,
         \A i \in DOMAIN table : table[i].id # Temp =>
           \E k \in DOMAIN more : /\ table[i] = Row(more[k].id, more[k].payload)
                                  /\ Belongs(more[k], u, chat),
         \A k \in DOMAIN more : Belongs(more[k], u, chat) =>
           \/ more[k].payload = p
           \/ \E i \in DOMAIN table : \/ table[i] = Row(more[k].id, more[k].payload)
                                      \/ table[i] = Row(Temp, more[k].payload)
  PROVE  Fit(more, u, chat, table \o <<Row(Temp, p)>>)
<1> DEFINE e == Row(Temp, p)
           new == table \o <<e>>
           n == Len(table)
<1>1. e \in Rows /\ e.id = Temp
  BY DEF Row, Rows
<1>2. /\ new \in Seq(Rows) /\ DOMAIN new = 1 .. n + 1 /\ n \in Nat
      /\ DOMAIN table = 1 .. n
      /\ \A i \in DOMAIN table : new[i] = table[i]
      /\ new[n + 1] = e
  <2> HIDE DEF e
  <2> QED BY <1>1, AppendedRow
<1> HIDE DEF new, n
<1>3. \A i \in DOMAIN new : i \in DOMAIN table \/ i = n + 1
  BY <1>2
<1>4. \A i, j \in DOMAIN new :
        i < j /\ new[i].id # Temp /\ new[j].id # Temp => new[i].id < new[j].id
  <2> HIDE DEF e
  <2> QED BY <1>1, <1>2, <1>3
<1>5. \A i \in DOMAIN new : new[i].id # Temp =>
        \E k \in DOMAIN more : /\ new[i] = Row(more[k].id, more[k].payload)
                               /\ Belongs(more[k], u, chat)
  <2> HIDE DEF e
  <2> QED BY <1>1, <1>2, <1>3
<1>6. \A k \in DOMAIN more : Belongs(more[k], u, chat) =>
        \E i \in DOMAIN new : \/ new[i] = Row(more[k].id, more[k].payload)
                              \/ new[i] = Row(Temp, more[k].payload)
  <2> SUFFICES ASSUME NEW k \in DOMAIN more, Belongs(more[k], u, chat)
               PROVE  \E i \in DOMAIN new : \/ new[i] = Row(more[k].id, more[k].payload)
                                            \/ new[i] = Row(Temp, more[k].payload)
    OBVIOUS
  <2>1. CASE more[k].payload = p
    <3>1. n + 1 \in DOMAIN new
      BY <1>2
    <3> QED BY <1>2, <2>1, <3>1
  <2>2. CASE more[k].payload # p
    <3>1. DOMAIN table \subseteq DOMAIN new
      BY <1>2
    <3> QED BY <1>2, <2>2, <3>1
  <2> QED BY <2>1, <2>2
<1> QED BY <1>2, <1>4, <1>5, <1>6 DEF Fit, new, e

(* The row of the own copy and the one the window adds.                    *)
LEMMA SentRows ==
  ASSUME ServerOK, WatchedOnce, HistoryOK, OpenOwn, RowsOK,
         Len(sent) < MaxSends, SendCurrentMessage
  PROVE  RowsOK' /\ \A i \in DOMAIN rows : rows'[i] = rows[i]
<1> DEFINE c == Copies(current, selected)
           to == Receivers(selected)
           base == Len(sent) * Cardinality(Names)
           p == Len(sent) + 1
           n == Len(stored)
<1>1. /\ Sending(c) /\ current # Nobody /\ selected # NoChat
      /\ selected \in OwnChats(current) /\ current \in Names /\ current \in users
  BY DEF SendCurrentMessage, Sending, OpenOwn, ServerOK
<1>2. c \in Seq(Messages) /\ Len(c) = Len(to) /\ DOMAIN c = 1 .. Len(c)
  BY <1>1, CopiesFacts, LenProperties
<1>3. \A x \in DOMAIN c : /\ c[x].id = base + x
                          /\ c[x].from = current
                          /\ c[x].to = to[x]
                          /\ c[x].chat = IF selected.kind = "direct" THEN NoChat ELSE selected
                          /\ c[x].payload = p
  <2> SUFFICES ASSUME NEW x \in DOMAIN c
               PROVE  /\ c[x].id = base + x
                      /\ c[x].from = current
                      /\ c[x].to = to[x]
                      /\ c[x].chat = IF selected.kind = "direct" THEN NoChat ELSE selected
                      /\ c[x].payload = p
    OBVIOUS
  <2>1. x \in 1 .. Len(to)
    BY <1>2
  <2>2. c[x] = [id |-> base + x, from |-> current, to |-> to[x],
                chat |-> IF selected.kind = "direct" THEN NoChat ELSE selected,
                payload |-> p]
    BY <1>1, <2>1, CopiesFacts
  <2> HIDE DEF c, to, base, p
  <2> QED BY <2>2
<1>4. \A x, y \in DOMAIN c : c[x].to = c[y].to => x = y
  BY <1>1, <1>2, <1>3, ReceiversFacts
<1>5. Len(sent) \in Nat /\ p \in 0 .. MaxSends /\ base \in Nat
  <2>1. Len(sent) \in Nat /\ Cardinality(Names) \in Nat /\ MaxSends \in Nat
    BY LenProperties, NamesAssumption, BoundsAssumption, FS_CardinalityType DEF ServerOK
  <2> DEFINE a == Len(sent)
             b == Cardinality(Names)
  <2>2. a \in Nat /\ b \in Nat
    BY <2>1
  <2> HIDE DEF a, b
  <2>3. a * b \in Nat
    BY <2>2
  <2> QED BY <2>1, <2>3 DEF a, b
<1>6. /\ n \in Nat /\ DOMAIN stored = 1 .. n
      /\ Len(c) \in Nat
      /\ DOMAIN stored' = 1 .. n + Len(c)
      /\ \A k \in DOMAIN stored : stored'[k] = stored[k]
      /\ \A x \in DOMAIN c : stored'[n + x] = c[x]
  <2> DEFINE new == stored \o c
  <2>1. /\ new \in Seq(Messages)
        /\ Len(new) = n + Len(c)
        /\ \A k \in 1 .. n + Len(c) : new[k] = IF k <= n THEN stored[k] ELSE c[k - n]
    BY <1>2, ConcatProperties, Zenon DEF ServerOK
  <2>2. /\ DOMAIN new = 1 .. n + Len(c) /\ n \in Nat /\ Len(c) \in Nat
        /\ DOMAIN stored = 1 .. n
    BY <1>2, <2>1, LenProperties DEF ServerOK
  <2>3. stored' = new
    BY <1>1 DEF Sending
  <2> HIDE DEF new, c, n
  <2>4. \A k \in DOMAIN stored : k \in 1 .. n + Len(c) /\ k <= n
    BY <2>2
  <2>5. \A x \in DOMAIN c : n + x \in 1 .. n + Len(c) /\ ~ (n + x <= n) /\ (n + x) - n = x
    BY <1>2, <2>2
  <2>6. \A x \in DOMAIN c : new[n + x] = c[(n + x) - n]
    BY <2>1, <2>5
  <2>7. \A x \in DOMAIN c : new[n + x] = c[x]
    BY <2>5, <2>6
  <2>8. \A k \in DOMAIN stored : new[k] = stored[k]
    BY <2>1, <2>4
  <2> QED BY <2>2, <2>3, <2>7, <2>8
<1>7. \A k \in DOMAIN stored' : k \in DOMAIN stored \/ \E x \in DOMAIN c : k = n + x
  <2> HIDE DEF c, n
  <2> SUFFICES ASSUME NEW k \in DOMAIN stored', k \notin DOMAIN stored
               PROVE  \E x \in DOMAIN c : k = n + x
    OBVIOUS
  <2>1. k - n \in DOMAIN c /\ k = n + (k - n)
    BY <1>2, <1>6
  <2> QED BY <2>1
<1>8. Fit(stored, current, selected, rows)
  BY <1>1 DEF RowsOK
<1>9. \A k \in DOMAIN stored : stored[k].id <= base
  BY DEF HistoryOK, Known, Range
<1> DEFINE note == Notified(c)
           table == rows \o note
<1>10. rows' = table \o <<Row(Temp, p)>> /\ UNCHANGED <<row, current, selected>>
  BY DEF SendCurrentMessage, Sending, Echo
<1> HIDE DEF c, to, base, n, p
<1>11. /\ rows \in Seq(Rows) /\ DOMAIN rows = 1 .. Len(rows) /\ Len(rows) \in Nat
       /\ \A i, j \in DOMAIN rows :
            i < j /\ rows[i].id # Temp /\ rows[j].id # Temp => rows[i].id < rows[j].id
       /\ \A i \in DOMAIN rows : rows[i].id # Temp =>
            \E k \in DOMAIN stored : /\ rows[i] = Row(stored[k].id, stored[k].payload)
                                     /\ Belongs(stored[k], current, selected)
       /\ \A k \in DOMAIN stored : Belongs(stored[k], current, selected) =>
            \E i \in DOMAIN rows : \/ rows[i] = Row(stored[k].id, stored[k].payload)
                                   \/ rows[i] = Row(Temp, stored[k].payload)
  <2>1. rows \in Seq(Rows)
    BY <1>8 DEF Fit
  <2> QED BY <1>8, <2>1, LenProperties DEF Fit
<1>12. /\ table \in Seq(Rows) /\ Len(rows) <= Len(table)
       /\ \A i \in DOMAIN rows : i \in DOMAIN table /\ table[i] = rows[i]
       /\ \A i \in DOMAIN table : i \in DOMAIN rows \/
            \E x \in DOMAIN c : /\ i = Len(rows) + 1
                                /\ c[x].to = current
                                /\ table[i] = Row(c[x].id, c[x].payload)
  <2>1. watches[current] = 1
    BY <1>1 DEF WatchedOnce
  <2>2. CASE note = <<>>
    <3>1. table = rows
      BY <1>11, <2>2, ConcatEmptySeq
    <3> QED BY <1>11, <3>1
  <2>3. CASE \E x \in DOMAIN c : /\ c[x].to = current
                                 /\ note = <<Row(c[x].id, c[x].payload)>>
    <3>1. PICK x \in DOMAIN c : /\ c[x].to = current
                                /\ note = <<Row(c[x].id, c[x].payload)>>
      BY <2>3
    <3> DEFINE e == Row(c[x].id, c[x].payload)
    <3>2. e \in Rows
      <4>1. c[x] \in Messages
        BY <1>2, ElementOfSeq
      <4>2. c[x].id \in Ids /\ c[x].payload \in 0 .. MaxSends
        BY <1>3, <1>5, <4>1 DEF Messages
      <4> QED BY <4>2 DEF Row, Rows
    <3>3. table = rows \o <<e>>
      BY <3>1
    <3> HIDE DEF e, table
    <3>4. /\ table \in Seq(Rows) /\ Len(table) = Len(rows) + 1
          /\ DOMAIN table = 1 .. Len(rows) + 1
          /\ \A i \in DOMAIN rows : table[i] = rows[i]
          /\ table[Len(rows) + 1] = e
      BY <1>11, <3>2, <3>3, AppendedRow
    <3> QED BY <1>11, <3>1, <3>4 DEF e
  <2> HIDE DEF note
  <2>4. note = <<>> \/ \E x \in DOMAIN c : /\ c[x].to = current
                                           /\ note = <<Row(c[x].id, c[x].payload)>>
    BY <1>1, <1>2, <1>4, <2>1, NotifiedFacts DEF note
  <2> QED BY <2>2, <2>3, <2>4
<1> HIDE DEF table, note
<1>13. ASSUME NEW x \in DOMAIN c, c[x].to = current PROVE Belongs(c[x], current, selected)
  <2>1. CASE selected.kind = "direct"
    <3>1. to = <<selected.id>> /\ x = 1
      BY <1>1, <1>2, <2>1, ReceiversFacts DEF Receivers, to
    <3>2. selected.id = current
      BY <1>3, <1>13, <3>1
    <3> QED BY <1>3, <1>13, <2>1, <3>2 DEF Belongs
  <2>2. CASE selected.kind # "direct"
    BY <1>3, <1>13, <2>2 DEF Belongs
  <2> QED BY <2>1, <2>2
<1>14. ASSUME NEW i \in DOMAIN table, NEW j \in DOMAIN table, i < j,
              table[i].id # Temp, table[j].id # Temp
       PROVE  table[i].id < table[j].id
  <2>1. CASE i \in DOMAIN rows /\ j \in DOMAIN rows
    BY <1>11, <1>12, <1>14, <2>1
  <2>2. CASE i \in DOMAIN rows /\ j \notin DOMAIN rows
    <3>1. PICK k \in DOMAIN stored : table[i] = Row(stored[k].id, stored[k].payload)
      BY <1>11, <1>12, <1>14, <2>2
    <3>2. PICK x \in DOMAIN c : table[j] = Row(c[x].id, c[x].payload)
      BY <1>12, <2>2
    <3>3. table[i].id = stored[k].id /\ table[j].id = base + x
      BY <1>3, <3>1, <3>2, RowFields
    <3>4. x \in Nat /\ x >= 1
      BY <1>2
    <3> QED BY <1>5, <1>9, <3>3, <3>4, IdsOfMessages
  <2>3. CASE i \notin DOMAIN rows
    <3>1. i = Len(rows) + 1 /\ (j \in DOMAIN rows \/ j = Len(rows) + 1)
      BY <1>12, <2>3
    <3> QED BY <1>11, <1>14, <3>1
  <2> QED BY <2>1, <2>2, <2>3
<1>15. ASSUME NEW i \in DOMAIN table, table[i].id # Temp
       PROVE  \E k \in DOMAIN stored' : /\ table[i] = Row(stored'[k].id, stored'[k].payload)
                                        /\ Belongs(stored'[k], current, selected)
  <2>1. CASE i \in DOMAIN rows
    <3>1. DOMAIN stored \subseteq DOMAIN stored'
      BY <1>6
    <3>2. PICK k \in DOMAIN stored : /\ rows[i] = Row(stored[k].id, stored[k].payload)
                                     /\ Belongs(stored[k], current, selected)
      BY <1>11, <1>12, <1>15, <2>1
    <3>3. k \in DOMAIN stored' /\ stored'[k] = stored[k] /\ table[i] = rows[i]
      BY <1>6, <1>12, <2>1, <3>1
    <3> QED BY <3>2, <3>3
  <2>2. CASE i \notin DOMAIN rows
    <3>1. PICK x \in DOMAIN c : c[x].to = current /\ table[i] = Row(c[x].id, c[x].payload)
      BY <1>12, <2>2
    <3>2. n + x \in DOMAIN stored' /\ stored'[n + x] = c[x]
      BY <1>2, <1>6
    <3> QED BY <1>13, <3>1, <3>2
  <2> QED BY <2>1, <2>2
<1>16. ASSUME NEW k \in DOMAIN stored', Belongs(stored'[k], current, selected)
       PROVE  \/ stored'[k].payload = p
              \/ \E i \in DOMAIN table : \/ table[i] = Row(stored'[k].id, stored'[k].payload)
                                         \/ table[i] = Row(Temp, stored'[k].payload)
  <2>1. CASE k \in DOMAIN stored
    <3>1. PICK i \in DOMAIN rows : \/ rows[i] = Row(stored[k].id, stored[k].payload)
                                   \/ rows[i] = Row(Temp, stored[k].payload)
      BY <1>6, <1>11, <1>16, <2>1
    <3> QED BY <1>6, <1>12, <2>1, <3>1
  <2>2. CASE k \notin DOMAIN stored
    BY <1>3, <1>6, <1>7, <2>2
  <2> QED BY <2>1, <2>2
<1>17. Fit(stored', current, selected, table \o <<Row(Temp, p)>>)
  BY <1>5, <1>12, <1>14, <1>15, <1>16, EchoFits
<1>18. /\ Len(rows') \in Nat /\ Len(rows) <= Len(rows')
       /\ \A i \in DOMAIN rows : rows'[i] = rows[i]
  <2>1. Row(Temp, p) \in Rows
    BY <1>5 DEF Row, Rows
  <2> DEFINE e == Row(Temp, p)
  <2> HIDE DEF e
  <2>2. /\ Len(table) \in Nat /\ Len(table \o <<e>>) = Len(table) + 1
        /\ \A i \in DOMAIN table : (table \o <<e>>)[i] = table[i]
    BY <1>12, <2>1, AppendedRow DEF e
  <2> QED BY <1>10, <1>11, <1>12, <2>2 DEF e
<1>19. row' \in 0 .. Len(rows')
  BY <1>10, <1>11, <1>18 DEF RowsOK
<1> QED BY <1>1, <1>10, <1>17, <1>18, <1>19 DEF RowsOK

-----------------------------------------------------------------------------
(* Each slot leaves rows that fit what is open then.                       *)
LEMMA RowsStep ==
  ASSUME ServerOK, ServerOK', WatchedOnce, HistoryOK, HistoryOK', ListOK, ListOK', RowsOK, Next
  PROVE  RowsOK'
<1>1. OpenOwn
  BY OpenIsOwn DEF ListOK
<1>2. \A chat \in Chats : chat # NoChat
  BY NoChatAssumption
<1>3. NoChat \notin Range(items)
  <2>1. CASE current = Nobody
    BY <2>1 DEF ListOK, Range
  <2>2. CASE current # Nobody
    <3>1. current \in Names
      BY <2>2 DEF ServerOK
    <3>2. items \in Seq(Chats)
      BY <2>2, <3>1, ChatListFacts DEF ListOK, SelectionOwn, ChatListsRight
    <3> QED BY <1>2, <3>2, RangeOfSeq
  <2> QED BY <2>1, <2>2
<1>4. ASSUME UNCHANGED <<stored, current, selected, rows>>, row' \in 0 .. Len(rows')
      PROVE  RowsOK'
  BY <1>4 DEF RowsOK
<1>5. CASE \E u \in Names : Register(u)
  BY <1>4, <1>5 DEF Register, Registering, RowsOK
<1>6. CASE \E u \in Names : LogIn(u)
  <2>1. PICK u \in Names : LogIn(u)
    BY <1>6
  <2>2. selected' = NoChat /\ rows' = <<>> /\ row' = 0
    BY <2>1 DEF LogIn
  <2>3. row' \in 0 .. Len(rows')
    BY <2>2
  <2> QED BY <2>2, <2>3, BlankTables DEF RowsOK
<1>7. CASE LogOut
  <2>1. current' = Nobody /\ row' = 0 /\ (rows' = <<>> \/ rows' = <<Hint>>)
    BY <1>7 DEF LogOut, LoggingOut
  <2>2. row' \in 0 .. Len(rows')
    BY <2>1
  <2> QED BY <2>1, <2>2, BlankTables DEF RowsOK
<1>8. CASE Refresh
  <2>1. current # Nobody /\ UNCHANGED <<current, stored>>
    BY <1>8 DEF Refresh, serverVars
  <2>2. CASE marked = NoChat
    <3>1. rows' = <<>> /\ row' = 0 /\ selected' = selected
      BY <1>8, <2>2 DEF Refresh
    <3>2. items = <<>>
      BY <1>3, <2>1, <2>2 DEF ListOK, SelectionOwn
    <3>3. selected' = NoChat
      BY <2>1, <3>1, <3>2 DEF ListOK, SelectionOwn, Range
    <3>4. row' \in 0 .. Len(rows')
      BY <3>1
    <3> QED BY <3>1, <3>3, <3>4, BlankTables DEF RowsOK
  <2>3. CASE marked # NoChat
    <3>1. Refetched(marked) /\ selected' = marked
      BY <1>8, <2>3, OpenRefetches DEF Refresh, Open
    <3> QED BY <2>1, <2>3, <3>1, RefetchedRows
  <2> QED BY <2>2, <2>3
<1>9. CASE \E v \in Names : NewChat(v)
  <2>1. PICK v \in Names : AddingContact(v) /\ ListAndSelect(Direct(v))
    BY <1>9 DEF NewChat
  <2>2. current' = current /\ current \in Names /\ Direct(v) \in OwnChats(current)'
    BY <2>1, ContactAdded
  <2>3. selected' \in Chats /\ Refetched(selected')
    BY <2>1, <2>2, NewChatListed, OpenRefetches
  <2>4. current # Nobody /\ UNCHANGED <<current, stored>>
    BY <2>1 DEF AddingContact
  <2> QED BY <1>2, <2>3, <2>4, RefetchedRows
<1>10. CASE \E members \in SUBSET Names : Len(groups) < MaxGroups /\ CreateGroup(members)
  <2>1. PICK members \in SUBSET Names :
          Len(groups) < MaxGroups /\ CreatingGroup(members) /\ ListAndSelect(Group(Len(groups')))
    BY <1>10 DEF CreateGroup
  <2>2. current' = current /\ current \in Names /\ Group(Len(groups')) \in OwnChats(current)'
    BY <2>1, GroupCreated
  <2>3. selected' \in Chats /\ Refetched(selected')
    BY <2>1, <2>2, NewChatListed, OpenRefetches
  <2>4. current # Nobody /\ UNCHANGED <<current, stored>>
    BY <2>1 DEF CreatingGroup
  <2> QED BY <1>2, <2>3, <2>4, RefetchedRows
<1>11. CASE \E i \in DOMAIN items : ClickChat(items[i]) \/ MoveToChat(items[i])
  <2>1. PICK i \in DOMAIN items : ClickChat(items[i]) \/ MoveToChat(items[i])
    BY <1>11
  <2>2. current # Nobody /\ UNCHANGED <<current, stored>>
    BY <2>1 DEF ClickChat, MoveToChat, serverVars
  <2>3. items[i] # NoChat /\ items # <<>>
    BY <1>3, EmptySeq DEF Range
  <2>4. marked # NoChat
    BY <1>3, <2>2, <2>3 DEF ListOK, SelectionOwn
  <2>5. PICK chat \in {items[i], marked} : Open(chat)
    BY <2>1 DEF ClickChat, MoveToChat
  <2>6. selected' = chat /\ Refetched(chat) /\ chat # NoChat
    BY <2>3, <2>4, <2>5, OpenRefetches DEF Open
  <2> QED BY <2>2, <2>6, RefetchedRows
<1>12. CASE \E i \in DOMAIN rows : SelectRow(i)
  <2>1. PICK i \in DOMAIN rows : SelectRow(i)
    BY <1>12
  <2>2. rows \in Seq(Rows)
    BY DEF RowsOK, Blank, Fit
  <2>3. row' \in 0 .. Len(rows')
    BY <2>1, <2>2, LenProperties DEF SelectRow
  <2> QED BY <1>4, <2>1, <2>3 DEF SelectRow, serverVars
<1>13. CASE Len(sent) < MaxSends /\ SendCurrentMessage
  BY <1>1, <1>13, SentRows
<1>14. CASE DeleteSelectedMessage
  BY <1>14, DeletedRows
<1> QED BY <1>5, <1>6, <1>7, <1>8, <1>9, <1>10, <1>11, <1>12, <1>13, <1>14 DEF Next

(* The first state, before anybody registers.                              *)
LEMMA InvInit == Init => Inv
<1> SUFFICES ASSUME Init PROVE Inv
  OBVIOUS
<1>1. ServerOK /\ WatchedOnce /\ HistoryOK
  BY BaseStart DEF Init
<1>2. ListOK
  BY DEF Init, BaseInit, ListOK, SelectionOwn
<1>3. RowsOK
  BY BlankTables, EmptySeq DEF Init, BaseInit, RowsOK
<1> QED BY <1>1, <1>2, <1>3 DEF Inv

(* Each step keeps all parts of the invariant.                             *)
LEMMA InvNext == Inv /\ [Next]_vars => Inv'
<1> SUFFICES ASSUME Inv, [Next]_vars PROVE Inv'
  OBVIOUS
<1>1. OpenOwn
  BY OpenIsOwn DEF Inv, ListOK
<1>2. CASE Next
  <2>1. BaseNext
    BY <1>2, NextIsBase
  <2>2. ServerOK' /\ WatchedOnce' /\ HistoryOK'
    BY <1>1, <2>1, ServerStep, WatchedStep, HistoryStep DEF Inv
  <2>3. ListOK'
    BY <1>2, <2>2, ListStep DEF Inv
  <2>4. RowsOK'
    BY <1>2, <2>2, <2>3, RowsStep DEF Inv
  <2> QED BY <2>2, <2>3, <2>4 DEF Inv
<1>3. CASE UNCHANGED vars
  BY <1>3 DEF vars, baseVars, serverVars, Inv, ServerOK, WatchedOnce, HistoryOK, Known, ListOK,
     SelectionOwn, ChatList, ListContacts, ListGroups, RowsOK
<1> QED BY <1>2, <1>3

(* The invariant holds in every reachable state.                           *)
LEMMA InvAlways == Spec => []Inv
  BY InvInit, InvNext, PTL DEF Spec

-----------------------------------------------------------------------------
(* Once per session the window is in observers_ of the client that is      *)
(* logged in, and in those of no other client.                             *)
THEOREM WatchedCorrect == Spec => []WatchedOnce
<1>1. Inv => WatchedOnce
  BY DEF Inv
<1> QED BY <1>1, InvAlways, PTL

(* The list has a chat of the user who is logged in marked, and what the   *)
(* next message goes to is one of that user's chats too.                   *)
THEOREM SelectionCorrect == Spec => []SelectionOwn
<1>1. Inv => SelectionOwn
  BY DEF Inv, ListOK
<1> QED BY <1>1, InvAlways, PTL

(* Every variable keeps its type.                                          *)
THEOREM TypeCorrect == Spec => []TypeOK
<1>1. Inv => TypeOK
  <2> SUFFICES ASSUME Inv PROVE TypeOK
    OBVIOUS
  <2>1. items \in Seq(Chats)
    <3>1. CASE current = Nobody
      BY <3>1, EmptySeq DEF Inv, ListOK
    <3>2. CASE current # Nobody
      <4>1. current \in Names
        BY <3>2 DEF Inv, ServerOK
      <4> QED BY <3>2, <4>1, ChatListFacts DEF Inv, ListOK, SelectionOwn, ChatListsRight
    <3> QED BY <3>1, <3>2
  <2>2. rows \in Seq([id : Ids \cup {Temp}, payload : 0 .. MaxSends]) /\ row \in 0 .. Len(rows)
    BY DEF Inv, RowsOK, Blank, Fit, Rows
  <2> QED BY <2>1, <2>2 DEF Inv, ServerOK, ListOK, TypeOK, BaseTypeOK
<1> QED BY <1>1, InvAlways, PTL

(* The rows that slots refresh, append to and remove from one by one tell  *)
(* the truth about the open conversation.                                  *)
THEOREM RowsCorrect == Spec => []RowsTrue
<1>1. Inv => RowsTrue
  <2> SUFFICES ASSUME Inv PROVE RowsTrue
    OBVIOUS
  <2>1. CASE current = Nobody \/ selected = NoChat
    BY <2>1 DEF Inv, RowsOK, Blank, RowsTrue
  <2>2. CASE current # Nobody /\ selected # NoChat
    <3>1. Fit(stored, current, selected, rows)
      BY <2>2 DEF Inv, RowsOK
    <3>2. \A i \in DOMAIN rows : rows[i].id # Temp =>
            \E k \in DOMAIN stored : /\ stored[k].id = rows[i].id
                                     /\ Belongs(stored[k], current, selected)
      BY <3>1, RowFields DEF Fit
    <3>3. ASSUME NEW m \in Range(Conversation(current, selected))
          PROVE  \E i \in DOMAIN rows :
                   rows[i] = Row(m.id, m.payload) \/ rows[i] = Row(Temp, m.payload)
      <4> DEFINE P == Places(current, selected)
      <4>1. Conversation(current, selected) = AtPlaces(stored, P)
        BY DEF Conversation, Places
      <4>2. stored \in Seq(Messages) /\ P \in SUBSET DOMAIN stored
        BY DEF Places, Inv, ServerOK
      <4> HIDE DEF P
      <4>3. PICK i \in 1 .. Cardinality(P) : m = AtPlaces(stored, P)[i]
        BY <4>1, <4>2, AtPlacesFacts DEF Range
      <4>4. Ascending(P)[i] \in P /\ m = stored[Ascending(P)[i]]
        BY <4>2, <4>3, AtPlacesFacts
      <4>5. PICK k \in DOMAIN stored : m = stored[k] /\ Belongs(stored[k], current, selected)
        BY <4>4 DEF P, Places
      <4> QED BY <3>1, <4>5 DEF Fit
    <3> QED BY <3>1, <3>2, <3>3 DEF Fit, RowsTrue
  <2> QED BY <2>1, <2>2
<1> QED BY <1>1, InvAlways, PTL

(* The current row that is kept when a chat is fetched is the same message. *)
LEMMA RefetchKeeps ==
  ASSUME ServerOK, HistoryOK, RowsOK, UNCHANGED stored, NEW chat, Refetched(chat),
         row # 0, row' # 0
  PROVE  rows'[row'] = rows[row]
<1> DEFINE P == Places(current, chat)
           F == Fetched(current, chat)
<1>1. rows' = F /\ row' = KeptRow(F)
  BY DEF Refetched
<1>2. /\ F \in Seq(Rows)
      /\ DOMAIN F = 1 .. Cardinality(P) /\ Len(F) = Cardinality(P) /\ Cardinality(P) \in Nat
      /\ \A i \in 1 .. Cardinality(P) : \E k \in P : F[i] = Row(stored[k].id, stored[k].payload)
  <2>1. FetchedRight
    BY FetchedFacts
  <2>2. F \in Seq(Rows)
    BY <2>1 DEF FetchedRight, Rows
  <2>3. DOMAIN F = 1 .. Cardinality(P) /\ Len(F) = Cardinality(P) /\ Cardinality(P) \in Nat
    BY <2>1 DEF FetchedRight
  <2>4. \A i \in 1 .. Cardinality(P) :
          /\ Ascending(P)[i] \in P
          /\ F[i] = Row(stored[Ascending(P)[i]].id, stored[Ascending(P)[i]].payload)
    BY <2>1 DEF FetchedRight
  <2> QED BY <2>2, <2>3, <2>4
<1>3. \A k \in P : k \in DOMAIN stored
  BY DEF Places
<1> HIDE DEF P, F
<1>4. row' \in 1 .. Cardinality(P) /\ F[row'].id = rows[row].id
  BY <1>1, <1>2, KeptRowFacts
<1>5. PICK k \in DOMAIN stored : F[row'] = Row(stored[k].id, stored[k].payload)
  BY <1>2, <1>3, <1>4
<1>6. rows[row].id = stored[k].id /\ rows[row].id # Temp
  BY <1>4, <1>5, RowFields, IdsOfMessages
<1>7. row \in DOMAIN rows
  <2>1. rows \in Seq(Rows)
    BY DEF RowsOK, Blank, Fit
  <2> QED BY <2>1, LenProperties DEF RowsOK
<1>8. PICK j \in DOMAIN stored : rows[row] = Row(stored[j].id, stored[j].payload)
  BY <1>6, <1>7 DEF RowsOK, Blank, Fit
<1>9. j = k
  BY <1>6, <1>8, RowFields, IdsUnique
<1> QED BY <1>1, <1>5, <1>8, <1>9

(* The current row stays on its message, or none is current.               *)
THEOREM MarkCorrect == Spec => MarkStays
<1> DEFINE Kept == row # 0 /\ row' # 0 /\ rows' # rows /\ deleted' = deleted
                   => rows'[row'] = rows[row]
<1>1. Inv /\ [Next]_vars => [Kept]_vars
  <2> SUFFICES ASSUME Inv, Next, row # 0, row' # 0, rows' # rows, deleted' = deleted
               PROVE  rows'[row'] = rows[row]
    BY DEF Kept
  <2>1. CASE \E chat : Refetched(chat) /\ UNCHANGED stored
    BY <2>1, RefetchKeeps DEF Inv
  <2>2. CASE Len(sent) < MaxSends /\ SendCurrentMessage
    <3>1. row \in DOMAIN rows /\ row' = row
      <4>1. rows \in Seq(Rows)
        BY DEF Inv, RowsOK, Blank, Fit
      <4> QED BY <2>2, <4>1, LenProperties DEF Inv, RowsOK, SendCurrentMessage
    <3>2. OpenOwn
      BY OpenIsOwn DEF Inv, ListOK
    <3> QED BY <2>2, <3>1, <3>2, SentRows DEF Inv
  <2>3. ~ DeleteSelectedMessage
    BY DeletingFacts DEF DeleteSelectedMessage, Inv
  <2>4. ASSUME Refresh PROVE \E chat : Refetched(chat) /\ UNCHANGED stored
    BY <2>4, OpenRefetches DEF Refresh, serverVars
  <2>5. ASSUME NEW u \in Names, Register(u) \/ LogIn(u) \/ NewChat(u)
        PROVE  \E chat : Refetched(chat) /\ UNCHANGED stored
    BY <2>5, OpenRefetches DEF Register, LogIn, NewChat, AddingContact
  <2>6. ASSUME NEW members, CreateGroup(members)
        PROVE  \E chat : Refetched(chat) /\ UNCHANGED stored
    BY <2>6, OpenRefetches DEF CreateGroup, CreatingGroup
  <2>7. ASSUME NEW i, ClickChat(items[i]) \/ MoveToChat(items[i])
        PROVE  \E chat : Refetched(chat) /\ UNCHANGED stored
    BY <2>7, OpenRefetches DEF ClickChat, MoveToChat, serverVars
  <2>8. ~ LogOut /\ \A i : ~ SelectRow(i)
    BY DEF LogOut, SelectRow
  <2> QED BY <2>1, <2>2, <2>3, <2>4, <2>5, <2>6, <2>7, <2>8 DEF Next
<1> QED BY <1>1, InvAlways, PTL DEF Spec, MarkStays

=============================================================================
