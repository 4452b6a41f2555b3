---------------------------- MODULE MCChatServer ----------------------------
(* Three names, so that a conversation has an outsider and both orders of  *)
(* a pair occur, and messages that cross, repeat an id, go to oneself and  *)
(* go to a group.                                                          *)
EXTENDS ChatServer

Team == CHOOSE g \in GroupNames : TRUE

Direct(id, from, to) ==
  [messageId |-> id, sender |-> from, receiver |-> to, chatId |-> NoChat, isGroupMessage |-> FALSE]
Group(id, from, to) ==
  [messageId |-> id, sender |-> from, receiver |-> to, chatId |-> <<1, Team>>, isGroupMessage |-> TRUE]

MCMessages ==
  {Direct("a", 1, 2), Direct("b", 2, 1), Direct("c", 3, 2), Direct("d", 2, 2),
   Direct("a", 2, 3), Group("e", 2, 1), Group("f", 2, 3)}

(* The contacts that are in some list. *)
Kept == {p \in Names \X Names : Registered(p[1]) /\ p[2] \in users[p[1]].contacts}

(* Bound: accounts, contacts, groups and messages together; where it stops *)
(* a state, the removals and deletions from it were still taken.           *)
Few == Cardinality(DOMAIN users) + Cardinality(Kept) + (nextGroupId - 1) + places <= 5
=============================================================================
