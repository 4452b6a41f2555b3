------------------------- MODULE MessageLifeProofs -------------------------
(***************************************************************************)
(* The life of messages for every number of members, clients and           *)
(* overlapping sends.  StoredOnce and ErasedStaysErased rest on the        *)
(* freshness of ids: an id belongs to one send or to one entry, and when   *)
(* the send stores its message the id passes from the one to the other.    *)
(* StatusTrue adds what the transport still has to deliver (DInv), and     *)
(* with both each step of ChatClient is a step of one message's life, so   *)
(* that it implements MessageLife.  At the end FanoutExact, which is about *)
(* the copies of group messages, and DeliveredShown, which is about what   *)
(* the handlers did with what they were given.                             *)
(***************************************************************************)
EXTENDS ChatClientProofs, FiniteSetTheorems, SequenceTheorems

(* A send that has built a message and has not stored it carries its id.   *)
Carries(f) == f.pc # "build"
Old(id) == id \in Nat \ {0} /\ id < nextMessage

CallIds ==
  /\ nextMessage \in Nat \ {0}
  /\ \A k \in DOMAIN calls :
       /\ DOMAIN calls[k] = FrameFields
       /\ Carries(calls[k]) => DOMAIN calls[k].msg = MsgFields /\ Old(calls[k].msg.messageId)
  /\ \A j, k \in DOMAIN calls :
       Carries(calls[j]) /\ Carries(calls[k])
         /\ calls[j].msg.messageId = calls[k].msg.messageId => j = k

EntryIds ==
  /\ places \in Nat
  /\ \A e \in Entries : Old(e.msg.messageId) /\ e.place \in Nat /\ e.place < places
  /\ StoredOnce
  /\ ErasedStaysErased

Apart ==
  \A k \in DOMAIN calls, e \in Entries :
    Carries(calls[k]) => calls[k].msg.messageId # e.msg.messageId

LInv == CallIds /\ EntryIds /\ Apart

bookVars == <<history, groupHistory, erased, places>>

(* What leaves the histories alone leaves their entries alone.             *)
LEMMA EntriesSame == UNCHANGED bookVars => Entries' = Entries /\ Stored' = Stored
  BY DEF bookVars, Entries, Stored

(* What leaves the histories alone keeps EntryIds.                         *)
LEMMA SameBooks ==
  ASSUME EntryIds, UNCHANGED bookVars, nextMessage' \in Nat, nextMessage \in Nat,
         nextMessage' >= nextMessage
  PROVE  EntryIds'
<1>1. Entries' = Entries /\ Stored' = Stored /\ erased' = erased /\ places' = places
  BY EntriesSame DEF bookVars
<1>2. StoredOnce' /\ ErasedStaysErased'
  BY <1>1 DEF EntryIds, StoredOnce, ErasedStaysErased
<1>3. \A e \in Entries' : Old(e.msg.messageId)'
  BY <1>1 DEF EntryIds, Old
<1> QED
  BY <1>1, <1>2, <1>3 DEF EntryIds

(* What changes neither histories, sends nor the counter of ids keeps      *)
(* LInv.                                                                   *)
LEMMA LFrame == LInv /\ UNCHANGED <<bookVars, calls, nextMessage>> => LInv'
<1> SUFFICES ASSUME LInv, UNCHANGED <<bookVars, calls, nextMessage>> PROVE LInv'
  OBVIOUS
<1>1. CallIds'
  BY DEF LInv, CallIds, Old, Carries
<1>2. EntryIds'
  BY SameBooks DEF LInv, CallIds
<1>3. Apart'
  BY EntriesSame DEF LInv, Apart, Carries
<1> QED
  BY <1>1, <1>2, <1>3 DEF LInv

(* One call gets the frame f, which carries the id the call carried before *)
(* or a new one, or it ends.                                               *)
LEMMA OneCall ==
  ASSUME CallIds, NEW k, NEW f, DOMAIN f = FrameFields,
         nextMessage' = nextMessage \/ nextMessage' = nextMessage + 1,
         Carries(f) =>
           /\ DOMAIN f.msg = MsgFields
           /\ \/ /\ k \in DOMAIN calls /\ Carries(calls[k])
                 /\ f.msg.messageId = calls[k].msg.messageId
              \/ f.msg.messageId = nextMessage /\ nextMessage' = nextMessage + 1,
         \/ calls' = Emplace(calls, k, f) /\ k \notin DOMAIN calls
         \/ calls' = [calls EXCEPT ![k] = f]
         \/ calls' = Erase(calls, k)
  PROVE  /\ CallIds'
         /\ nextMessage' \in Nat /\ nextMessage' >= nextMessage
         /\ \A j \in DOMAIN calls' : Carries(calls'[j]) =>
              \/ calls'[j].msg.messageId = nextMessage
              \/ j \in DOMAIN calls /\ Carries(calls[j])
                   /\ calls'[j].msg.messageId = calls[j].msg.messageId
<1>1. ASSUME NEW j \in DOMAIN calls'
      PROVE  (j = k /\ calls'[j] = f) \/ (j # k /\ j \in DOMAIN calls /\ calls'[j] = calls[j])
             \/ (j = k /\ j \in DOMAIN calls /\ calls'[j] = calls[j])
  <2>1. CASE calls' = Emplace(calls, k, f) /\ k \notin DOMAIN calls
    BY <1>1, <2>1 DEF Emplace
  <2>2. CASE calls' = [calls EXCEPT ![k] = f]
    BY <1>1, <2>2
  <2>3. CASE calls' = Erase(calls, k)
    BY <1>1, <2>3 DEF Erase, Restrict
  <2> QED
    BY <2>1, <2>2, <2>3
<1>2. nextMessage \in Nat /\ nextMessage' \in Nat /\ nextMessage' >= nextMessage
  BY DEF CallIds
<1>3. ASSUME NEW j \in DOMAIN calls'
      PROVE  /\ DOMAIN calls'[j] = FrameFields
             /\ Carries(calls'[j]) =>
                  /\ DOMAIN calls'[j].msg = MsgFields
                  /\ \/ /\ calls'[j].msg.messageId = nextMessage
                        /\ j = k /\ nextMessage' = nextMessage + 1
                     \/ /\ j \in DOMAIN calls /\ Carries(calls[j])
                        /\ calls'[j].msg.messageId = calls[j].msg.messageId
  BY <1>1, <1>3 DEF CallIds
<1>4. ASSUME NEW j \in DOMAIN calls', Carries(calls'[j])
      PROVE  calls'[j].msg.messageId \in Nat /\ calls'[j].msg.messageId < nextMessage'
  BY <1>2, <1>3, <1>4 DEF CallIds, Old
<1>5. ASSUME NEW i \in DOMAIN calls', NEW j \in DOMAIN calls', Carries(calls'[i]),
             Carries(calls'[j]), calls'[i].msg.messageId = calls'[j].msg.messageId
      PROVE  i = j
  BY <1>2, <1>3, <1>5 DEF CallIds, Old
<1> QED
  BY <1>2, <1>3, <1>4, <1>5 DEF CallIds, Carries, Old

(* The same while nothing is stored or deleted. *)
LEMMA OneCallLInv ==
  ASSUME LInv, UNCHANGED bookVars, NEW k, NEW f, DOMAIN f = FrameFields,
         nextMessage' = nextMessage \/ nextMessage' = nextMessage + 1,
         Carries(f) =>
           /\ DOMAIN f.msg = MsgFields
           /\ \/ /\ k \in DOMAIN calls /\ Carries(calls[k])
                 /\ f.msg.messageId = calls[k].msg.messageId
              \/ f.msg.messageId = nextMessage /\ nextMessage' = nextMessage + 1,
         \/ calls' = Emplace(calls, k, f) /\ k \notin DOMAIN calls
         \/ calls' = [calls EXCEPT ![k] = f]
         \/ calls' = Erase(calls, k)
  PROVE  LInv'
<1>1. /\ CallIds'
      /\ nextMessage' \in Nat /\ nextMessage' >= nextMessage
      /\ \A j \in DOMAIN calls' : Carries(calls'[j]) =>
           \/ calls'[j].msg.messageId = nextMessage
           \/ j \in DOMAIN calls /\ Carries(calls[j])
                /\ calls'[j].msg.messageId = calls[j].msg.messageId
  <2> HIDE DEF Carries, CallIds
  <2> QED
    BY OneCall DEF LInv
<1>2. nextMessage \in Nat
  BY DEF LInv, CallIds
<1>3. EntryIds'
  BY <1>1, <1>2, SameBooks DEF LInv
<1>4. Apart'
  <2> SUFFICES ASSUME NEW j \in DOMAIN calls', NEW e \in Entries, Carries(calls'[j])
               PROVE  calls'[j].msg.messageId # e.msg.messageId
    BY EntriesSame DEF Apart, Carries
  <2>1. Old(e.msg.messageId)
    BY DEF LInv, EntryIds
  <2> QED
    BY <1>1, <1>2, <2>1 DEF LInv, Apart, Old
<1> QED
  BY <1>1, <1>3, <1>4 DEF LInv

-----------------------------------------------------------------------------
(* The steps of a send. *)

(* A message is built with the next id.                                    *)
LEMMA BuildId ==
  ASSUME NEW from, NEW to, NEW chat, NEW selfKey, NEW payload
  PROVE  /\ DOMAIN Build(from, to, chat, selfKey, payload) = MsgFields
         /\ Build(from, to, chat, selfKey, payload).messageId = nextMessage
  BY DEF Build, MsgFields

(* A direct send takes a fresh id.                                         *)
LEMMA BeginSendLInv ==
  ASSUME LInv, NEW k \in Callers, NEW c \in Clients, NEW to \in Names, BeginSend(k, c, to)
  PROVE  LInv'
<1> DEFINE m == Build(NameOf[c], to, NoChat, keyPair[c].pub, nextPayload)
           f == [client |-> c, chat |-> NoChat, left |-> {}, payload |-> nextPayload,
                 msg |-> m, pc |-> "send"]
<1>1. /\ k \notin DOMAIN calls /\ calls' = Emplace(calls, k, f)
      /\ nextMessage' = nextMessage + 1
      /\ UNCHANGED bookVars
  BY DEF BeginSend, NewId, serverVars, bookVars
<1>2. DOMAIN m = MsgFields /\ m.messageId = nextMessage
  BY BuildId
<1> HIDE DEF m
<1>3. DOMAIN f = FrameFields /\ f.msg = m
  BY DEF FrameFields
<1> HIDE DEF f
<1> QED
  BY <1>1, <1>2, <1>3, OneCallLInv

(* A group send starts with no id.                                         *)
LEMMA BeginGroupSendLInv ==
  ASSUME LInv, NEW k \in Callers, NEW c \in Clients, NEW g, BeginGroupSend(k, c, g)
  PROVE  LInv'
<1> DEFINE f == [client |-> c, chat |-> g, left |-> Recipients(c, g), payload |-> nextPayload,
                 msg |-> NoMessage, pc |-> "build"]
<1>1. /\ k \notin DOMAIN calls /\ calls' = Emplace(calls, k, f)
      /\ nextMessage' = nextMessage
      /\ UNCHANGED bookVars
  BY DEF BeginGroupSend, serverVars, bookVars
<1>2. DOMAIN f = FrameFields /\ ~Carries(f)
  BY DEF FrameFields, Carries
<1> HIDE DEF f
<1> QED
  BY <1>1, <1>2, OneCallLInv

(* Each copy takes a fresh id.                                             *)
LEMMA NextMemberLInv ==
  ASSUME LInv, NEW k \in Callers, NextMember(k)
  PROVE  LInv'
<1> DEFINE f == calls[k]
<1>1. DOMAIN f = FrameFields
  BY DEF NextMember, LInv, CallIds
<1>2. PICK to \in f.left :
        calls' = [calls EXCEPT ![k] = [f EXCEPT !.left = @ \ {to}, !.pc = "send",
           !.msg = Build(NameOf[f.client], to, f.chat, NoKey, f.payload)]]
  BY DEF NextMember, SetCall
<1>3. nextMessage' = nextMessage + 1 /\ UNCHANGED bookVars
  BY DEF NextMember, NewId, serverVars, bookVars
<1> DEFINE m == Build(NameOf[f.client], to, f.chat, NoKey, f.payload)
           g == [f EXCEPT !.left = @ \ {to}, !.pc = "send", !.msg = m]
<1>4. DOMAIN m = MsgFields /\ m.messageId = nextMessage
  BY BuildId
<1>5. calls' = [calls EXCEPT ![k] = g]
  BY <1>2
<1> HIDE DEF m, f
<1>6. DOMAIN g = FrameFields /\ g.msg = m
  BY <1>1 DEF FrameFields
<1> HIDE DEF g
<1> QED
  BY <1>3, <1>4, <1>5, <1>6, OneCallLInv

(* The end of a group send keeps LInv.                                     *)
LEMMA EndGroupSendLInv ==
  ASSUME LInv, NEW k \in Callers, EndGroupSend(k)
  PROVE  LInv'
<1>1. /\ DOMAIN calls[k] = FrameFields /\ ~Carries(calls[k])
      /\ calls' = Erase(calls, k) /\ nextMessage' = nextMessage
      /\ UNCHANGED bookVars
  BY DEF EndGroupSend, LInv, CallIds, Carries, serverVars, bookVars
<1> QED
  BY <1>1, OneCallLInv

(* The transport does not change ids.                                      *)
LEMMA TransportLInv ==
  ASSUME LInv, NEW k \in Callers, FindReceiver(k) \/ MissReceiver(k) \/ HandOver(k)
  PROVE  LInv'
<1> DEFINE f == calls[k]
<1>1. /\ k \in DOMAIN calls /\ Carries(f)
      /\ DOMAIN f = FrameFields /\ DOMAIN f.msg = MsgFields
  BY DEF FindReceiver, MissReceiver, HandOver, LInv, CallIds, Carries
<1>2. UNCHANGED bookVars /\ nextMessage' = nextMessage
  BY DEF FindReceiver, MissReceiver, HandOver, serverVars, bookVars
<1>3. CASE FindReceiver(k)
  <2> DEFINE g == [f EXCEPT !.pc = "handing"]
  <2>1. calls' = [calls EXCEPT ![k] = g]
    BY <1>3 DEF FindReceiver, SetCall
  <2>2. DOMAIN g = FrameFields /\ g.msg = f.msg
    BY <1>1 DEF FrameFields
  <2> HIDE DEF g
  <2> QED
    BY <1>1, <1>2, <2>1, <2>2, OneCallLInv
<1>4. CASE MissReceiver(k) \/ HandOver(k)
  <2>1. PICK sent \in BOOLEAN :
          calls' = [calls EXCEPT ![k] = [f EXCEPT !.pc = "store", !.msg.status = Status(sent)]]
    BY <1>4 DEF MissReceiver, HandOver, SetCall
  <2> DEFINE m == [f.msg EXCEPT !.status = Status(sent)]
             g == [f EXCEPT !.pc = "store", !.msg = m]
  <2>2. DOMAIN m = MsgFields /\ m.messageId = f.msg.messageId
    BY <1>1 DEF MsgFields
  <2>3. calls' = [calls EXCEPT ![k] = g]
    BY <1>1, <2>1 DEF FrameFields
  <2> HIDE DEF m
  <2>4. DOMAIN g = FrameFields /\ g.msg = m
    BY <1>1 DEF FrameFields
  <2> HIDE DEF g
  <2> QED
    BY <1>1, <1>2, <2>2, <2>3, <2>4, OneCallLInv
<1> QED
  BY <1>3, <1>4

(* Storing adds one entry with the id of the call at a new place, and the  *)
(* call has it no longer.                                                  *)
LEMMA StoreLInv ==
  ASSUME LInv, NEW k \in Callers, Store(k)
  PROVE  LInv'
<1> DEFINE f == calls[k]
           m == f.msg
           g == [f EXCEPT !.pc = "build", !.msg = NoMessage]
<1>1. /\ k \in DOMAIN calls /\ Carries(f) /\ DOMAIN f = FrameFields
      /\ Old(m.messageId)
      /\ \A e \in Entries : e.msg.messageId # m.messageId
      /\ nextMessage \in Nat /\ places \in Nat
  BY DEF Store, LInv, CallIds, EntryIds, Apart, Carries
<1>2. /\ nextMessage' = nextMessage /\ places' = places + 1 /\ erased' = erased
      /\ Server!StoreMessage(m)
  BY DEF Store, Server!StoreMessage
<1>3. PICK n : /\ n.place = places /\ n.msg = m
               /\ Entries' = Entries \cup {n} /\ Stored' = Stored \cup {n}
  <2>1. CASE m.isGroupMessage
    <3> DEFINE n == [key |-> m.chatId, place |-> places, msg |-> m]
    <3>1. groupHistory' = groupHistory \cup {n} /\ history' = history
      BY <1>2, <2>1 DEF Server!StoreMessage
    <3>2. n.place = places /\ n.msg = m
      OBVIOUS
    <3> HIDE DEF n
    <3> QED
      BY <1>2, <3>1, <3>2 DEF Entries, Stored
  <2>2. CASE ~m.isGroupMessage
    <3> DEFINE n == [key |-> Server!ConversationKey(m.sender, m.receiver),
                     place |-> places, msg |-> m]
    <3>1. history' = history \cup {n} /\ groupHistory' = groupHistory
      BY <1>2, <2>2 DEF Server!StoreMessage
    <3>2. n.place = places /\ n.msg = m
      OBVIOUS
    <3> HIDE DEF n
    <3> QED
      BY <1>2, <3>1, <3>2 DEF Entries, Stored
  <2> QED
    BY <2>1, <2>2
<1>4. EntryIds'
  <2>1. ASSUME NEW e \in Entries'
        PROVE  /\ e.msg.messageId \in Nat \ {0} /\ e.msg.messageId < nextMessage'
               /\ e.place \in Nat /\ e.place < places'
    BY <1>1, <1>2, <1>3 DEF LInv, EntryIds, Old
  <2>2. StoredOnce'
    BY <1>1, <1>3 DEF LInv, EntryIds, StoredOnce
  <2>3. ErasedStaysErased'
    BY <1>1, <1>2, <1>3 DEF LInv, EntryIds, ErasedStaysErased, Entries
  <2> QED
    BY <1>1, <1>2, <2>1, <2>2, <2>3 DEF EntryIds, Old
<1>5. /\ CallIds'
      /\ k \in DOMAIN calls' => ~Carries(calls'[k])
      /\ \A j \in DOMAIN calls' : j # k => j \in DOMAIN calls /\ calls'[j] = calls[j]
  <2>1. CASE f.chat = NoChat
    <3>1. calls' = Erase(calls, k)
      BY <2>1 DEF Store
    <3>2. DOMAIN m = MsgFields
      BY <1>1 DEF LInv, CallIds
    <3> HIDE DEF f
    <3>3. f = calls[k] /\ f.msg = m
      BY DEF f
    <3> HIDE DEF m
    <3>4. CallIds'
      BY <1>1, <1>2, <3>1, <3>2, <3>3, OneCall DEF LInv
    <3> QED
      BY <3>1, <3>4 DEF Erase, Restrict
  <2>2. CASE f.chat # NoChat
    <3>1. calls' = [calls EXCEPT ![k] = g]
      BY <2>2 DEF Store, SetCall
    <3>2. DOMAIN g = FrameFields /\ ~Carries(g)
      BY <1>1 DEF FrameFields, Carries
    <3> HIDE DEF g
    <3>3. CallIds'
      BY <1>2, <3>1, <3>2, OneCall DEF LInv
    <3> QED
      BY <1>1, <3>1, <3>2, <3>3
  <2> QED
    BY <2>1, <2>2
<1>6. Apart'
  <2> SUFFICES ASSUME NEW j \in DOMAIN calls', NEW e \in Entries', Carries(calls'[j])
               PROVE  calls'[j].msg.messageId # e.msg.messageId
    BY DEF Apart, Carries
  <2>1. j # k /\ j \in DOMAIN calls /\ calls'[j] = calls[j]
    BY <1>5
  <2>2. calls[j].msg.messageId # m.messageId
    BY <1>1, <2>1 DEF LInv, CallIds
  <2> QED
    BY <1>3, <2>1, <2>2 DEF LInv, Apart
<1> QED
  BY <1>4, <1>5, <1>6 DEF LInv

(* A deletion moves the entries it finds from the histories to erased.     *)
LEMMA DeleteStep ==
  ASSUME NEW c \in Clients, NEW id, DeleteMessageForAll(c, id)
  PROVE  /\ Entries' = Entries
         /\ \E gone \in SUBSET Stored :
              /\ gone # {} /\ \A e \in gone : e.msg.messageId = id
              /\ Stored' = Stored \ gone
              /\ erased' = erased \cup {[by |-> NameOf[c], entry |-> e] : e \in gone}
         /\ UNCHANGED <<users, groups, places, netVars, sendVars, registered, keyPair>>
<1>1. PICK gone \in SUBSET Stored :
        /\ gone # {} /\ \A e \in gone : e.msg.messageId = id
        /\ Stored' = Stored \ gone
        /\ erased' = erased \cup {[by |-> NameOf[c], entry |-> e] : e \in gone}
  <2> DEFINE all == {e \in Stored : Server!Matches(e, NameOf[c], id)}
  <2>1. /\ all \in SUBSET Stored /\ all # {}
        /\ erased' = erased \cup {[by |-> NameOf[c], entry |-> e] : e \in all}
        /\ history' = history \ all /\ groupHistory' = groupHistory \ all
    BY DEF DeleteMessageForAll, Server!DeleteMessageForAll, Stored
  <2>2. \A e \in all : e.msg.messageId = id
    BY DEF Server!Matches
  <2> HIDE DEF all
  <2>3. Stored' = Stored \ all
    BY <2>1 DEF Stored
  <2> QED
    BY <2>1, <2>2, <2>3
<1>2. UNCHANGED <<users, groups, places, netVars, sendVars, registered, keyPair>>
  BY DEF DeleteMessageForAll, Server!DeleteMessageForAll, aloneVars, sessionVars
<1>3. Entries' = Entries
  <2>1. ASSUME NEW e PROVE e \in Entries' <=> e \in Entries
    <3>1. e \in Entries <=> e \in Stored \/ \E x \in erased : x.entry = e
      BY DEF Entries
    <3>2. e \in Entries' <=> e \in Stored' \/ \E x \in erased' : x.entry = e
      BY DEF Entries
    <3> DEFINE byName == [by |-> NameOf[c], entry |-> e]
    <3>3. byName.entry = e
      OBVIOUS
    <3>4. e \in gone => byName \in erased'
      BY <1>1
    <3> HIDE DEF byName
    <3>5. e \in gone => \E x \in erased' : x.entry = e
      BY <3>3, <3>4
    <3>6. \A x \in erased' : x \in erased \/ x.entry \in gone
      BY <1>1
    <3>7. \A x \in erased : x \in erased'
      BY <1>1
    <3>8. (\E x \in erased' : x.entry = e) <=> (\E x \in erased : x.entry = e) \/ e \in gone
      BY <3>5, <3>6, <3>7
    <3> QED
      BY <1>1, <3>1, <3>2, <3>8
  <2> QED
    BY <2>1
<1> QED
  BY <1>1, <1>2, <1>3

(* What is left of the histories has other ids than what is erased. *)
LEMMA DeleteLInv ==
  ASSUME LInv, NEW c \in Clients, NEW id, DeleteMessageForAll(c, id)
  PROVE  LInv'
<1>1. PICK gone \in SUBSET Stored :
        /\ Stored' = Stored \ gone
        /\ erased' = erased \cup {[by |-> NameOf[c], entry |-> e] : e \in gone}
  BY DeleteStep
<1>2. Entries' = Entries /\ UNCHANGED <<calls, nextMessage, places>>
  BY DeleteStep DEF sendVars
<1>3. StoredOnce'
  BY <1>2 DEF LInv, EntryIds, StoredOnce
<1>4. ErasedStaysErased'
  BY <1>1 DEF LInv, EntryIds, StoredOnce, ErasedStaysErased, Entries
<1> QED
  BY <1>2, <1>3, <1>4 DEF LInv, CallIds, EntryIds, Apart, Carries, Old

(* LInv holds when there is no message.                                    *)
LEMMA NothingLInv ==
  nextMessage \in Nat \ {0} /\ calls = EmptyMap /\ history = {} /\ groupHistory = {} /\ erased = {}
    /\ places = 0 => LInv
  BY DEF EmptyMap, LInv, CallIds, EntryIds, Apart, Entries, Stored, StoredOnce, ErasedStaysErased

(* LInv holds at the start.                                                *)
LEMMA InitLInv == Init => LInv
  BY NothingLInv DEF Init, Fresh, Server!Init

(* A restart leaves no message.                                            *)
LEMMA RestartLInv == LInv /\ Restart => LInv'
  BY DEF Restart, EmptyMap, LInv, CallIds, EntryIds, Apart, Entries, Stored, StoredOnce,
         ErasedStaysErased

(* Every step keeps LInv.                                                  *)
LEMMA NextLInv == LInv /\ [Next]_vars => LInv'
<1> SUFFICES ASSUME LInv, [Next]_vars PROVE LInv'
  OBVIOUS
<1>1. ASSUME UNCHANGED <<bookVars, calls, nextMessage>> PROVE LInv'
  BY <1>1, LFrame
<1>2. CASE UNCHANGED vars
  BY <1>1, <1>2 DEF vars, serverVars, sendVars, bookVars
<1>3. ASSUME NEW c \in Clients, NEW p \in Passwords, NEW saving \in SaveOutcomes,
             Register(c, p, saving)
      PROVE  LInv'
  BY <1>1, <1>3 DEF Register, Server!RegisterUser, serverVars, sendVars, bookVars
<1>4. ASSUME NEW c \in Clients, NEW p \in Passwords, LogIn(c, p) \/ LogInFails(c, p) PROVE LInv'
  BY <1>1, <1>4 DEF LogIn, LogInFails, serverVars, sendVars, bookVars
<1>5. ASSUME NEW c \in Clients, LogOut(c) PROVE LInv'
  BY <1>1, <1>5 DEF LogOut, serverVars, sendVars, bookVars
<1>6. ASSUME NEW c \in Clients, NEW u \in Contacts, AddContact(c, u) \/ RemoveContact(c, u)
      PROVE  LInv'
  BY <1>1, <1>6 DEF AddContact, RemoveContact, Server!AddContact, Server!RemoveContact,
                    aloneVars, sendVars, bookVars
<1>7. ASSUME NEW c \in Clients, NEW name \in GroupNames, NEW invited \in Invitations,
             CreateGroup(c, name, invited)
      PROVE  LInv'
  BY <1>1, <1>7 DEF CreateGroup, Server!CreateGroup, aloneVars, sendVars, bookVars
<1>8. ASSUME NEW k \in Callers, CallStep(k) PROVE LInv'
  BY <1>8, NextMemberLInv, EndGroupSendLInv, TransportLInv, StoreLInv DEF CallStep
<1> QED
  BY <1>2, <1>3, <1>4, <1>5, <1>6, <1>7, <1>8, DeleteLInv, BeginSendLInv, BeginGroupSendLInv,
     RestartLInv
     DEF Next

(* Each message is stored at one place and each place holds one message,   *)
(* however many sends overlap and whatever is deleted in between.          *)
THEOREM StoredOnceCorrect == Spec => []StoredOnce
<1>1. LInv => StoredOnce
  BY DEF LInv, EntryIds
<1> QED
  BY <1>1, InitLInv, NextLInv, PTL DEF Spec

(* A message that its sender deleted never comes back to a history, though *)
(* other copies of it may still be on their way when it is deleted.        *)
THEOREM ErasedCorrect == Spec => []ErasedStaysErased
<1>1. LInv => ErasedStaysErased
  BY DEF LInv, EntryIds
<1> QED
  BY <1>1, InitLInv, NextLInv, PTL DEF Spec

-----------------------------------------------------------------------------
(* What each step of a send does, field by field, for the invariants that  *)
(* follow one message from its call to the history.                        *)

OthersSame(k) ==
  \A j : j # k => /\ j \in DOMAIN calls' <=> j \in DOMAIN calls
                  /\ j \in DOMAIN calls' => calls'[j] = calls[j]

(* Message n is m with another status. *)
SameMessage(m, n) ==
  /\ n \in Message
  /\ n.messageId = m.messageId /\ n.payload = m.payload
  /\ n.sender = m.sender /\ n.receiver = m.receiver
  /\ n.chatId = m.chatId /\ n.isGroupMessage = m.isGroupMessage

SameCall(f, g) == g.client = f.client /\ g.chat = f.chat /\ g.payload = f.payload

(* What the start of a direct send changes.                                *)
LEMMA BeginSendStep ==
  ASSUME TInv, NEW k \in Callers, NEW c \in Clients, NEW to \in Names, BeginSend(k, c, to)
  PROVE  /\ k \notin DOMAIN calls /\ k \in DOMAIN calls' /\ OthersSame(k)
         /\ calls'[k].client = c /\ calls'[k].chat = NoChat /\ calls'[k].left = {}
         /\ calls'[k].payload = nextPayload /\ calls'[k].pc = "send"
         /\ calls'[k].msg.messageId = nextMessage /\ calls'[k].msg.status = "Sent"
         /\ nextMessage' = nextMessage + 1 /\ nextPayload' = nextPayload + 1
         /\ UNCHANGED <<serverVars, netVars, events, registered, keyPair>>
<1> DEFINE m == Build(NameOf[c], to, NoChat, keyPair[c].pub, nextPayload)
           f == [client |-> c, chat |-> NoChat, left |-> {}, payload |-> nextPayload,
                 msg |-> m, pc |-> "send"]
<1>1. /\ k \notin DOMAIN calls /\ calls' = Emplace(calls, k, f)
      /\ nextMessage' = nextMessage + 1 /\ nextPayload' = nextPayload + 1
      /\ UNCHANGED <<serverVars, netVars, events, registered, keyPair>>
  BY DEF BeginSend, NewId, restVars, sessionVars
<1>2. m.messageId = nextMessage /\ m.status = "Sent"
  BY DEF Build
<1> HIDE DEF m
<1>3. /\ f.client = c /\ f.chat = NoChat /\ f.left = {} /\ f.payload = nextPayload
      /\ f.pc = "send" /\ f.msg = m
  OBVIOUS
<1> HIDE DEF f
<1>4. k \in DOMAIN calls' /\ calls'[k] = f /\ OthersSame(k)
  BY <1>1 DEF Emplace, OthersSame
<1> QED
  BY <1>1, <1>2, <1>3, <1>4

(* What the start of a group send changes.                                 *)
LEMMA BeginGroupSendStep ==
  ASSUME TInv, NEW k \in Callers, NEW c \in Clients, NEW g \in DOMAIN groups,
         BeginGroupSend(k, c, g)
  PROVE  /\ k \notin DOMAIN calls /\ k \in DOMAIN calls' /\ OthersSame(k)
         /\ calls'[k].client = c /\ calls'[k].chat = g /\ g # NoChat
         /\ calls'[k].left = groups[g].members
         /\ calls'[k].payload = nextPayload /\ calls'[k].pc = "build"
         /\ calls'[k].msg = NoMessage
         /\ nextMessage' = nextMessage /\ nextPayload' = nextPayload + 1
         /\ UNCHANGED <<serverVars, netVars, events, registered, keyPair>>
<1> DEFINE f == [client |-> c, chat |-> g, left |-> Recipients(c, g), payload |-> nextPayload,
                 msg |-> NoMessage, pc |-> "build"]
<1>1. /\ k \notin DOMAIN calls /\ calls' = Emplace(calls, k, f)
      /\ nextMessage' = nextMessage /\ nextPayload' = nextPayload + 1
      /\ UNCHANGED <<serverVars, netVars, events, registered, keyPair>>
  BY DEF BeginGroupSend, restVars, sessionVars
<1>2. g # NoChat
  BY NoChatAssumption DEF TInv, Server!TypeOK, Server!GroupIds
<1>3. /\ f.client = c /\ f.chat = g /\ f.left = groups[g].members /\ f.payload = nextPayload
      /\ f.pc = "build" /\ f.msg = NoMessage
  BY DEF Recipients, Server!GetGroupMembers
<1> HIDE DEF f
<1>4. k \in DOMAIN calls' /\ calls'[k] = f /\ OthersSame(k)
  BY <1>1 DEF Emplace, OthersSame
<1> QED
  BY <1>1, <1>2, <1>3, <1>4

(* What a turn of the loop over the members changes.                       *)
LEMMA NextMemberStep ==
  ASSUME TInv, NEW k \in Callers, NextMember(k)
  PROVE  /\ k \in DOMAIN calls /\ k \in DOMAIN calls' /\ OthersSame(k)
         /\ calls[k].pc = "build" /\ calls'[k].pc = "send" /\ SameCall(calls[k], calls'[k])
         /\ \E to \in calls[k].left : /\ calls'[k].left = calls[k].left \ {to}
                                      /\ calls'[k].msg.receiver = to
         /\ calls'[k].msg.messageId = nextMessage /\ calls'[k].msg.status = "Sent"
         /\ nextMessage' = nextMessage + 1
         /\ UNCHANGED <<serverVars, netVars, events, registered, keyPair, nextPayload>>
<1> DEFINE f == calls[k]
<1>1. /\ k \in DOMAIN calls /\ f.pc = "build" /\ f \in Frame
      /\ nextMessage' = nextMessage + 1
      /\ UNCHANGED <<serverVars, netVars, events, registered, keyPair, nextPayload>>
  BY DEF NextMember, NewId, TInv, CallTypes, restVars, sessionVars
<1>2. PICK to \in f.left :
        calls' = [calls EXCEPT ![k] = [f EXCEPT !.left = @ \ {to}, !.pc = "send",
          !.msg = Build(NameOf[f.client], to, f.chat, NoKey, f.payload)]]
  BY DEF NextMember, SetCall
<1> DEFINE m == Build(NameOf[f.client], to, f.chat, NoKey, f.payload)
           g == [f EXCEPT !.left = @ \ {to}, !.pc = "send", !.msg = m]
<1>3. m.messageId = nextMessage /\ m.status = "Sent" /\ m.receiver = to
  BY DEF Build
<1>4. calls' = [calls EXCEPT ![k] = g]
  BY <1>2
<1> HIDE DEF m, f
<1>5. g.left = f.left \ {to} /\ g.pc = "send" /\ g.msg = m /\ SameCall(f, g)
  BY <1>1 DEF Frame, SameCall
<1> HIDE DEF g
<1>6. k \in DOMAIN calls' /\ calls'[k] = g /\ OthersSame(k)
  BY <1>1, <1>4 DEF OthersSame
<1> QED
  BY <1>1, <1>3, <1>5, <1>6 DEF f

(* What the end of a group send changes.                                   *)
LEMMA EndGroupSendStep ==
  ASSUME TInv, NEW k \in Callers, EndGroupSend(k)
  PROVE  /\ k \in DOMAIN calls /\ k \notin DOMAIN calls' /\ OthersSame(k)
         /\ calls[k].pc = "build" /\ calls[k].left = {}
         /\ UNCHANGED <<serverVars, netVars, events, registered, keyPair, nextMessage, nextPayload>>
  BY DEF EndGroupSend, Erase, Restrict, OthersSame, restVars, sessionVars

(* What a lookup that succeeds changes: the transport has the message, its *)
(* sender, and a handler of its receiver.                                  *)
LEMMA FindReceiverStep ==
  ASSUME TInv, SInv, NEW k \in Callers, FindReceiver(k)
  PROVE  /\ k \in DOMAIN calls /\ k \in DOMAIN calls' /\ OthersSame(k)
         /\ calls[k].pc = "send" /\ calls'[k].pc = "handing" /\ SameCall(calls[k], calls'[k])
         /\ calls'[k].left = calls[k].left /\ calls'[k].msg = calls[k].msg
         /\ k \notin DOMAIN sending /\ DOMAIN sending' = DOMAIN sending \cup {k}
         /\ \A j \in DOMAIN sending : sending'[j] = sending[j]
         /\ sending'[k].payload = calls[k].msg /\ sending'[k].from = calls[k].msg.sender
         /\ NameOf[sending'[k].handler] = calls[k].msg.receiver
         /\ registered[sending'[k].handler]
         /\ UNCHANGED <<serverVars, inbox, events, registered, keyPair, nextMessage, nextPayload>>
<1> DEFINE f == calls[k]
           to == f.msg.receiver
           g == [f EXCEPT !.pc = "handing"]
           p == [to |-> to, handler |-> handlers[to],
                 from |-> username[f.client], payload |-> f.msg]
<1>1. /\ k \in DOMAIN calls /\ f \in Frame /\ FrameOK(f) /\ f.pc = "send"
      /\ k \notin DOMAIN sending /\ connected[f.client] /\ to \in DOMAIN handlers
      /\ calls' = [calls EXCEPT ![k] = g]
      /\ sending' = Net!Emplace(sending, k, p)
      /\ UNCHANGED <<serverVars, inbox, events, registered, keyPair, nextMessage, nextPayload>>
  BY DEF FindReceiver, SetCall, Net!SendLookup, Net!Reaches, Net!IsOnline, TInv, CallTypes,
         FrameOK, restVars, sessionVars
<1>2. username[f.client] = f.msg.sender
  BY <1>1 DEF FrameOK, Frame, SInv, SessionTypes, LoggedInRegistered
<1>3. /\ handlers[to] \in Clients /\ NameOf[handlers[to]] = to /\ registered[handlers[to]]
  BY <1>1 DEF SInv, SessionTypes, LoggedInRegistered, Net!RegistryAgrees
<1>4. p.payload = f.msg /\ p.from = username[f.client] /\ p.handler = handlers[to]
  OBVIOUS
<1> HIDE DEF p
<1>5. DOMAIN sending' = DOMAIN sending \cup {k} /\ sending'[k] = p
      /\ \A j \in DOMAIN sending : sending'[j] = sending[j]
  BY <1>1 DEF Net!Emplace
<1>6. g.pc = "handing" /\ SameCall(f, g) /\ g.left = f.left /\ g.msg = f.msg
  BY <1>1 DEF Frame, SameCall
<1> HIDE DEF g
<1>7. k \in DOMAIN calls' /\ calls'[k] = g /\ OthersSame(k)
  BY <1>1 DEF OthersSame
<1> QED
  BY <1>1, <1>2, <1>3, <1>4, <1>5, <1>6, <1>7

(* A send that comes back from the transport has its message's status set. *)
LEMMA Answered ==
  ASSUME CallTypes, NEW k \in DOMAIN calls, calls[k].pc # "build", NEW sent \in BOOLEAN,
         calls' = [calls EXCEPT ![k] = [calls[k] EXCEPT !.pc = "store",
                                                        !.msg.status = Status(sent)]]
  PROVE  /\ k \in DOMAIN calls' /\ OthersSame(k)
         /\ calls'[k].pc = "store" /\ SameCall(calls[k], calls'[k])
         /\ calls'[k].left = calls[k].left /\ SameMessage(calls[k].msg, calls'[k].msg)
         /\ calls'[k].msg = [calls[k].msg EXCEPT !.status = Status(sent)]
         /\ calls'[k].msg.status = Status(sent)
<1> DEFINE f == calls[k]
           m == [f.msg EXCEPT !.status = Status(sent)]
           g == [f EXCEPT !.pc = "store", !.msg = m]
<1>1. f \in Frame /\ f.msg \in Message
  BY DEF CallTypes, FrameOK, Frame
<1>2. SameMessage(f.msg, m) /\ m.status = Status(sent)
  BY <1>1, StatusTyped DEF SameMessage, Message
<1>3. calls' = [calls EXCEPT ![k] = g]
  BY <1>1 DEF Frame
<1> HIDE DEF f
<1>4. g.pc = "store" /\ SameCall(f, g) /\ g.left = f.left /\ g.msg = m
  BY <1>1 DEF Frame, SameCall
<1> HIDE DEF g
<1>5. k \in DOMAIN calls' /\ calls'[k] = g /\ OthersSame(k)
  BY <1>3 DEF OthersSame
<1> QED
  BY <1>2, <1>4, <1>5 DEF f, m

(* What a lookup that fails changes.                                       *)
LEMMA MissReceiverStep ==
  ASSUME TInv, NEW k \in Callers, MissReceiver(k)
  PROVE  /\ k \in DOMAIN calls /\ k \in DOMAIN calls' /\ OthersSame(k)
         /\ calls[k].pc = "send" /\ calls'[k].pc = "store" /\ SameCall(calls[k], calls'[k])
         /\ calls'[k].left = calls[k].left /\ SameMessage(calls[k].msg, calls'[k].msg)
         /\ calls'[k].msg = [calls[k].msg EXCEPT !.status = "Sent"]
         /\ calls'[k].msg.status = "Sent"
         /\ UNCHANGED <<serverVars, netVars, events, registered, keyPair, nextMessage, nextPayload>>
<1>1. /\ k \in DOMAIN calls /\ calls[k].pc = "send"
      /\ calls' = [calls EXCEPT ![k] = [calls[k] EXCEPT !.pc = "store",
                                                        !.msg.status = Status(FALSE)]]
      /\ UNCHANGED <<serverVars, netVars, events, registered, keyPair, nextMessage, nextPayload>>
  BY DEF MissReceiver, SetCall, restVars, sessionVars
<1>2. Status(FALSE) = "Sent"
  BY DEF Status
<1> QED
  BY <1>1, <1>2, Answered DEF TInv

(* What the call of the handler changes.                                   *)
LEMMA HandOverStep ==
  ASSUME TInv, NEW k \in Callers, HandOver(k)
  PROVE  /\ k \in DOMAIN calls /\ k \in DOMAIN calls' /\ OthersSame(k)
         /\ calls[k].pc = "handing" /\ calls'[k].pc = "store" /\ SameCall(calls[k], calls'[k])
         /\ calls'[k].left = calls[k].left /\ SameMessage(calls[k].msg, calls'[k].msg)
         /\ calls'[k].msg = [calls[k].msg EXCEPT !.status = "Delivered"]
         /\ calls'[k].msg.status = "Delivered"
         /\ k \in DOMAIN sending /\ sending[k] \in Net!PendingCall
         /\ DOMAIN sending' = DOMAIN sending \ {k}
         /\ \A j \in DOMAIN sending' : sending'[j] = sending[j]
         /\ inbox' = [inbox EXCEPT ![sending[k].handler] =
               Append(@, [from |-> sending[k].from, payload |-> sending[k].payload])]
         /\ UNCHANGED <<serverVars, registered, keyPair, nextMessage, nextPayload>>
<1>1. /\ k \in DOMAIN calls /\ calls[k].pc = "handing" /\ Net!Deliver(k)
      /\ calls' = [calls EXCEPT ![k] = [calls[k] EXCEPT !.pc = "store",
                                                        !.msg.status = Status(TRUE)]]
      /\ UNCHANGED <<serverVars, registered, keyPair, nextMessage, nextPayload>>
  BY DEF HandOver, SetCall, restVars, sessionVars
<1>2. Status(TRUE) = "Delivered"
  BY DEF Status
<1>3. /\ k \in DOMAIN sending /\ sending[k] \in Net!PendingCall
      /\ DOMAIN sending' = DOMAIN sending \ {k}
      /\ \A j \in DOMAIN sending' : sending'[j] = sending[j]
      /\ inbox' = [inbox EXCEPT ![sending[k].handler] =
               Append(@, [from |-> sending[k].from, payload |-> sending[k].payload])]
  BY <1>1 DEF Net!Deliver, Net!Erase, Net!Restrict, TInv, Net!TypeOK
<1> QED
  BY <1>1, <1>2, <1>3, Answered DEF TInv

(* What storing changes: one entry more, with the message of the send.     *)
LEMMA StoreStep ==
  ASSUME TInv, NEW k \in Callers, Store(k)
  PROVE  /\ k \in DOMAIN calls /\ OthersSame(k) /\ calls[k].pc = "store"
         /\ calls[k].chat = NoChat => k \notin DOMAIN calls'
         /\ calls[k].chat # NoChat =>
              /\ k \in DOMAIN calls' /\ calls'[k].pc = "build" /\ SameCall(calls[k], calls'[k])
              /\ calls'[k].left = calls[k].left /\ calls'[k].msg = NoMessage
         /\ \E n : n.msg = calls[k].msg /\ Entries' = Entries \cup {n} /\ Stored' = Stored \cup {n}
         /\ UNCHANGED <<users, groups, netVars, events, registered, keyPair, nextMessage,
                        nextPayload, erased>>
<1> DEFINE f == calls[k]
           m == f.msg
           g == [f EXCEPT !.pc = "build", !.msg = NoMessage]
<1>1. /\ k \in DOMAIN calls /\ f \in Frame /\ f.pc = "store" /\ Server!StoreMessage(m)
      /\ UNCHANGED <<users, groups, netVars, events, registered, keyPair, nextMessage,
                     nextPayload, erased>>
  BY DEF Store, Server!StoreMessage, TInv, CallTypes, restVars, sessionVars
<1>2. \E n : n.msg = m /\ Entries' = Entries \cup {n} /\ Stored' = Stored \cup {n}
  <2>1. CASE m.isGroupMessage
    <3> DEFINE n == [key |-> m.chatId, place |-> places, msg |-> m]
    <3>1. groupHistory' = groupHistory \cup {n} /\ history' = history /\ n.msg = m
      BY <1>1, <2>1 DEF Server!StoreMessage
    <3> HIDE DEF n
    <3> QED
      BY <1>1, <3>1 DEF Entries, Stored
  <2>2. CASE ~m.isGroupMessage
    <3> DEFINE n == [key |-> Server!ConversationKey(m.sender, m.receiver),
                     place |-> places, msg |-> m]
    <3>1. history' = history \cup {n} /\ groupHistory' = groupHistory /\ n.msg = m
      BY <1>1, <2>2 DEF Server!StoreMessage
    <3> HIDE DEF n
    <3> QED
      BY <1>1, <3>1 DEF Entries, Stored
  <2> QED
    BY <2>1, <2>2
<1>3. CASE f.chat = NoChat
  <2>1. calls' = Erase(calls, k)
    BY <1>3 DEF Store
  <2>2. k \notin DOMAIN calls' /\ OthersSame(k)
    BY <2>1 DEF Erase, Restrict, OthersSame
  <2> QED
    BY <1>1, <1>2, <1>3, <2>2
<1>4. CASE f.chat # NoChat
  <2>1. calls' = [calls EXCEPT ![k] = g]
    BY <1>4 DEF Store, SetCall
  <2> HIDE DEF f
  <2>2. g.pc = "build" /\ SameCall(f, g) /\ g.left = f.left /\ g.msg = NoMessage
    BY <1>1 DEF Frame, SameCall
  <2> HIDE DEF g
  <2>3. k \in DOMAIN calls' /\ calls'[k] = g /\ OthersSame(k)
    BY <1>1, <2>1 DEF f, OthersSame
  <2> QED
    BY <1>1, <1>2, <1>4, <2>2, <2>3 DEF f
<1> QED
  BY <1>3, <1>4

(* The other operations have nothing to do with messages, and no group is  *)
(* ever changed.                                                           *)
Quiet ==
  /\ UNCHANGED <<bookVars, sending, inbox, sendVars>>
  /\ \A g \in DOMAIN groups : g \in DOMAIN groups' /\ groups'[g] = groups[g]

(* The steps of ChatClient, those that no message takes part in taken      *)
(* together.                                                               *)
LEMMA NextCases ==
  ASSUME [Next]_vars
  PROVE  \/ Quiet
         \/ Restart
         \/ \E c \in Clients, id \in {e.msg.messageId : e \in Stored} : DeleteMessageForAll(c, id)
         \/ \E k \in Callers, c \in Clients, to \in Names : BeginSend(k, c, to)
         \/ \E k \in Callers, c \in Clients, g \in DOMAIN groups : BeginGroupSend(k, c, g)
         \/ \E k \in Callers : CallStep(k)
<1>1. ASSUME UNCHANGED <<bookVars, sending, inbox, sendVars, groups>> PROVE Quiet
  BY <1>1 DEF Quiet
<1>2. CASE UNCHANGED vars
  BY <1>1, <1>2 DEF vars, serverVars, netVars, bookVars
<1>3. ASSUME NEW c \in Clients, NEW p \in Passwords, NEW saving \in SaveOutcomes,
             Register(c, p, saving)
      PROVE  Quiet
  BY <1>1, <1>3 DEF Register, Server!RegisterUser, serverVars, netVars, bookVars
<1>4. ASSUME NEW c \in Clients, NEW p \in Passwords, LogIn(c, p) \/ LogInFails(c, p) PROVE Quiet
  BY <1>1, <1>4 DEF LogIn, LogInFails, Net!Connect, serverVars, netVars, bookVars
<1>5. ASSUME NEW c \in Clients, LogOut(c) PROVE Quiet
  BY <1>1, <1>5 DEF LogOut, Net!Disconnect, serverVars, bookVars
<1>6. ASSUME NEW c \in Clients, NEW u \in Contacts, AddContact(c, u) \/ RemoveContact(c, u)
      PROVE  Quiet
  BY <1>1, <1>6 DEF AddContact, RemoveContact, Server!AddContact, Server!RemoveContact,
                    aloneVars, netVars, bookVars
<1>7. ASSUME NEW c \in Clients, NEW name \in GroupNames, NEW invited \in Invitations,
             CreateGroup(c, name, invited)
      PROVE  Quiet
  BY <1>7 DEF CreateGroup, Server!CreateGroup, Server!Emplace, Quiet, aloneVars, netVars, bookVars
<1>8. ASSUME NEW c \in Clients, NEW e \in history \cup groupHistory,
             DeleteMessageForAll(c, e.msg.messageId)
      PROVE  \E id \in {x.msg.messageId : x \in Stored} : DeleteMessageForAll(c, id)
  BY <1>8 DEF Stored
<1> QED
  BY <1>2, <1>3, <1>4, <1>5, <1>6, <1>7, <1>8 DEF Next

-----------------------------------------------------------------------------
(* Sequences kept for each client: the calls of its handler and the        *)
(* notifications of its observers.  The operators take them as an argument *)
(* so that the lemmas can compare those before and after one is added.     *)

(* Where the clients' sequences in box have an element of X. *)
Places(box, X) ==
  {h \in UNION {{c} \X DOMAIN box[c] : c \in Clients} : box[h[1]][h[2]] \in X}

(* One more element for client c. *)
Put(box, c, x) == [box EXCEPT ![c] = Append(@, x)]

(* Put adds one element at the end of one box.                             *)
LEMMA PutElement ==
  ASSUME NEW S, NEW box \in [Clients -> Seq(S)], NEW c \in Clients, NEW x \in S
  PROVE  /\ Len(box[c]) + 1 \in DOMAIN Put(box, c, x)[c]
         /\ Put(box, c, x)[c][Len(box[c]) + 1] = x
         /\ \A d \in Clients : \A i \in DOMAIN box[d] :
              /\ i \in DOMAIN Put(box, c, x)[d]
              /\ Put(box, c, x)[d][i] = box[d][i]
         /\ \A d \in Clients : \A i \in DOMAIN Put(box, c, x)[d] :
              i \in DOMAIN box[d] \/ (d = c /\ i = Len(box[c]) + 1)
<1> DEFINE new == Put(box, c, x)
<1>1. /\ new[c] = Append(box[c], x) /\ box[c] \in Seq(S)
      /\ \A d \in Clients \ {c} : new[d] = box[d]
  BY DEF Put
<1> HIDE DEF new
<1>2. /\ Len(box[c]) \in Nat /\ DOMAIN box[c] = 1 .. Len(box[c])
      /\ DOMAIN new[c] = 1 .. Len(box[c]) + 1
      /\ \A i \in DOMAIN box[c] : new[c][i] = box[c][i]
      /\ new[c][Len(box[c]) + 1] = x
  BY <1>1
<1>3. /\ Len(box[c]) + 1 \in DOMAIN new[c] /\ new[c][Len(box[c]) + 1] = x
      /\ \A i \in DOMAIN box[c] : i \in DOMAIN new[c]
      /\ \A i \in DOMAIN new[c] : i \in DOMAIN box[c] \/ i = Len(box[c]) + 1
  BY <1>2
<1>4. /\ Len(box[c]) + 1 \in DOMAIN new[c]
      /\ new[c][Len(box[c]) + 1] = x
      /\ \A d \in Clients : \A i \in DOMAIN box[d] : i \in DOMAIN new[d] /\ new[d][i] = box[d][i]
      /\ \A d \in Clients : \A i \in DOMAIN new[d] :
              i \in DOMAIN box[d] \/ (d = c /\ i = Len(box[c]) + 1)
  BY <1>1, <1>2, <1>3
<1> QED
  BY <1>4 DEF new

(* Which pairs Places holds.                                               *)
LEMMA PlacesOf ==
  ASSUME NEW box, NEW X, NEW c, NEW i
  PROVE  <<c, i>> \in Places(box, X) <=> c \in Clients /\ i \in DOMAIN box[c] /\ box[c][i] \in X
  BY DEF Places

(* Places holds pairs of a box and a position in it.                       *)
LEMMA PlacesPairs ==
  ASSUME NEW box, NEW X, NEW h \in Places(box, X)
  PROVE  \E c \in Clients : \E i \in DOMAIN box[c] : h = <<c, i>>
  BY DEF Places

(* No element of a kind, no place of it.                                   *)
LEMMA NoPlaces ==
  ASSUME NEW box, NEW X, \A c \in Clients : \A i \in DOMAIN box[c] : box[c][i] \notin X
  PROVE  Places(box, X) = {}
<1>1. ASSUME NEW h \in Places(box, X) PROVE FALSE
  <2>1. PICK c \in Clients : \E i \in DOMAIN box[c] : h = <<c, i>>
    BY PlacesPairs
  <2>2. PICK i \in DOMAIN box[c] : h = <<c, i>>
    BY <2>1
  <2> QED
    BY <2>2, PlacesOf
<1> QED
  BY <1>1

(* One more element is one more place, if it is in X, and no other.        *)
LEMMA PutPlaces ==
  ASSUME NEW S, NEW box \in [Clients -> Seq(S)], NEW c \in Clients, NEW x \in S, NEW X
  PROVE  /\ x \in X => Places(Put(box, c, x), X) = Places(box, X) \cup {<<c, Len(box[c]) + 1>>}
         /\ x \notin X => Places(Put(box, c, x), X) = Places(box, X)
<1> DEFINE new == Put(box, c, x)
           n == Len(box[c]) + 1
           old == Places(box, X)
           now == Places(new, X)
<1>1. /\ n \in DOMAIN new[c] /\ new[c][n] = x
      /\ \A d \in Clients : \A i \in DOMAIN box[d] : i \in DOMAIN new[d] /\ new[d][i] = box[d][i]
      /\ \A d \in Clients : \A i \in DOMAIN new[d] : i \in DOMAIN box[d] \/ (d = c /\ i = n)
  BY PutElement
<1> HIDE DEF n, new
<1>2. ASSUME NEW d, NEW i
      PROVE  /\ <<d, i>> \in old <=> d \in Clients /\ i \in DOMAIN box[d] /\ box[d][i] \in X
             /\ <<d, i>> \in now <=> d \in Clients /\ i \in DOMAIN new[d] /\ new[d][i] \in X
  BY PlacesOf
<1>3. \A h \in old : \E d \in Clients : \E i \in DOMAIN box[d] : h = <<d, i>>
  BY PlacesPairs
<1>4. \A h \in now : \E d \in Clients : \E i \in DOMAIN new[d] : h = <<d, i>>
  BY PlacesPairs
<1> HIDE DEF old, now
<1>5. ASSUME NEW h \in old PROVE h \in now
  <2>1. PICK d \in Clients : \E i \in DOMAIN box[d] : h = <<d, i>>
    BY <1>3
  <2>2. PICK i \in DOMAIN box[d] : h = <<d, i>>
    BY <2>1
  <2> QED
    BY <1>1, <1>2, <2>2
<1>6. ASSUME NEW h \in now PROVE h \in old \/ (h = <<c, n>> /\ x \in X)
  <2>1. PICK d \in Clients : \E i \in DOMAIN new[d] : h = <<d, i>>
    BY <1>4
  <2>2. PICK i \in DOMAIN new[d] : h = <<d, i>>
    BY <2>1
  <2>3. new[d][i] \in X
    BY <1>2, <2>2
  <2>4. CASE i \in DOMAIN box[d]
    BY <1>1, <1>2, <2>2, <2>3, <2>4
  <2>5. CASE d = c /\ i = n
    BY <1>1, <2>2, <2>3, <2>5
  <2> QED
    BY <1>1, <2>4, <2>5
<1>7. x \in X => <<c, n>> \in now
  BY <1>1, <1>2
<1>8. /\ x \in X => now = old \cup {<<c, n>>}
      /\ x \notin X => now = old
  BY <1>5, <1>6, <1>7
<1> QED
  BY <1>8 DEF old, now, n, new

(* The calls of handlers with the message of an id. *)
Inboxes == [Clients -> Seq(Net!Call)]
Carrying(id) == {call \in Net!Call : call.payload.messageId = id}
Receipts(box, id) == Places(box, Carrying(id))

(* The status of m says whether box holds it, once, from its sender and    *)
(* with a client of its receiver.                                          *)
TrueIn(box, m) ==
  IF m.status = "Delivered"
    THEN \E c \in Clients : \E i \in DOMAIN box[c] :
           /\ Receipts(box, m.messageId) = {<<c, i>>}
           /\ NameOf[c] = m.receiver /\ box[c][i].from = m.sender
    ELSE Receipts(box, m.messageId) = {}

(* A delivery adds one receipt of the message handed over, and none of any *)
(* other message.                                                          *)
LEMMA PutReceipts ==
  ASSUME NEW box \in Inboxes, NEW c \in Clients, NEW call \in Net!Call, NEW id
  PROVE  /\ call.payload.messageId = id =>
              Receipts(Put(box, c, call), id) = Receipts(box, id) \cup {<<c, Len(box[c]) + 1>>}
         /\ call.payload.messageId # id =>
              Receipts(Put(box, c, call), id) = Receipts(box, id)
<1>1. box \in [Clients -> Seq(Net!Call)]
  BY DEF Inboxes
<1>2. call \in Carrying(id) <=> call.payload.messageId = id
  BY DEF Carrying
<1> QED
  BY <1>1, <1>2, PutPlaces DEF Receipts

(* PutElement for the inboxes.                                             *)
LEMMA PutCall ==
  ASSUME NEW box \in Inboxes, NEW c \in Clients, NEW call \in Net!Call
  PROVE  /\ Len(box[c]) + 1 \in DOMAIN Put(box, c, call)[c]
         /\ Put(box, c, call)[c][Len(box[c]) + 1] = call
         /\ \A d \in Clients : \A i \in DOMAIN box[d] :
              /\ i \in DOMAIN Put(box, c, call)[d]
              /\ Put(box, c, call)[d][i] = box[d][i]
         /\ \A d \in Clients : \A i \in DOMAIN Put(box, c, call)[d] :
              i \in DOMAIN box[d] \/ (d = c /\ i = Len(box[c]) + 1)
<1>1. box \in [Clients -> Seq(Net!Call)]
  BY DEF Inboxes
<1> QED
  BY <1>1, PutElement

(* A delivery does not touch the truth of another message's status. *)
LEMMA TrueStays ==
  ASSUME NEW box \in Inboxes, NEW c \in Clients, NEW call \in Net!Call, NEW m,
         TrueIn(box, m), call.payload.messageId # m.messageId
  PROVE  TrueIn(Put(box, c, call), m)
<1> DEFINE new == Put(box, c, call)
<1>1. Receipts(new, m.messageId) = Receipts(box, m.messageId)
  BY PutReceipts
<1>2. \A d \in Clients : \A i \in DOMAIN box[d] : i \in DOMAIN new[d] /\ new[d][i] = box[d][i]
  BY PutCall
<1> HIDE DEF new
<1>3. TrueIn(new, m)
  BY <1>1, <1>2 DEF TrueIn
<1> QED
  BY <1>3 DEF new

(* ... and makes that of the message handed over true. *)
LEMMA TrueWhenHanded ==
  ASSUME NEW box \in Inboxes, NEW c \in Clients, NEW call \in Net!Call, NEW m,
         call.payload.messageId = m.messageId, Receipts(box, m.messageId) = {},
         NameOf[c] = m.receiver, call.from = m.sender, m.status = "Delivered"
  PROVE  TrueIn(Put(box, c, call), m)
<1> DEFINE new == Put(box, c, call)
           n == Len(box[c]) + 1
<1>1. Receipts(new, m.messageId) = {<<c, n>>}
  BY PutReceipts
<1>2. n \in DOMAIN new[c] /\ new[c][n] = call
  BY PutCall
<1> HIDE DEF new, n
<1>3. TrueIn(new, m)
  BY <1>1, <1>2 DEF TrueIn
<1> QED
  BY <1>3 DEF new

(* The number of receipts, as StatusTrue and LifeOf count them. *)
LEMMA TrueCounts ==
  ASSUME Net!TypeOK, NEW m, TrueIn(inbox, m)
  PROVE  /\ Cardinality(Handed(m)) = (IF m.status = "Delivered" THEN 1 ELSE 0)
         /\ \A h \in Handed(m) : NameOf[h[1]] = m.receiver /\ inbox[h[1]][h[2]].from = m.sender
<1>1. Handed(m) = Receipts(inbox, m.messageId)
  BY DEF Handed, Receipts, Places, Carrying, Net!TypeOK
<1>2. CASE m.status = "Delivered"
  <2>1. PICK c \in Clients : \E i \in DOMAIN inbox[c] :
          /\ Handed(m) = {<<c, i>>}
          /\ NameOf[c] = m.receiver /\ inbox[c][i].from = m.sender
    BY <1>1, <1>2 DEF TrueIn
  <2>2. PICK i \in DOMAIN inbox[c] :
          /\ Handed(m) = {<<c, i>>}
          /\ NameOf[c] = m.receiver /\ inbox[c][i].from = m.sender
    BY <2>1
  <2>3. Cardinality(Handed(m)) = 1
    BY <2>2, FS_Singleton
  <2> QED
    BY <1>2, <2>2, <2>3
<1>3. CASE m.status # "Delivered"
  BY <1>1, <1>3, FS_EmptySet DEF TrueIn
<1> QED
  BY <1>2, <1>3

-----------------------------------------------------------------------------
(* StatusTrue, for every number of clients, callers and messages.          *)
(* The invariant follows a message through its call: until the handler     *)
(* runs its status is Sent and no handler has had it, afterwards the       *)
(* status is the truth; what waits in the transport is the call's message. *)

Moving(f, k, on, box) ==
  /\ f.pc = "handing" <=> k \in DOMAIN on
  /\ k \in DOMAIN on => /\ on[k].payload = f.msg /\ on[k].from = f.msg.sender
                        /\ NameOf[on[k].handler] = f.msg.receiver
  /\ f.pc \in {"send", "handing"} => f.msg.status = "Sent"
  /\ Carries(f) => TrueIn(box, f.msg)

DInv ==
  /\ DOMAIN sending \subseteq DOMAIN calls
  /\ \A k \in DOMAIN calls : Moving(calls[k], k, sending, inbox)
  /\ \A c \in Clients : \A i \in DOMAIN inbox[c] : Old(inbox[c][i].payload.messageId)
  /\ \A e \in Entries : TrueIn(inbox, e.msg)

(* A message nobody was handed, with the status Sent. *)
LEMMA TrueUnseen ==
  ASSUME NEW box, NEW m, m.status = "Sent",
         \A c \in Clients : \A i \in DOMAIN box[c] : box[c][i].payload.messageId # m.messageId
  PROVE  TrueIn(box, m)
<1>1. Receipts(box, m.messageId) = {}
  BY NoPlaces DEF Receipts, Carrying
<1> QED
  BY <1>1 DEF TrueIn

(* Nobody was handed the next id.                                          *)
LEMMA NewUnseen ==
  ASSUME CallIds, DInv, NEW m, m.status = "Sent", m.messageId = nextMessage
  PROVE  TrueIn(inbox, m)
<1>1. \A c \in Clients : \A i \in DOMAIN inbox[c] : inbox[c][i].payload.messageId # m.messageId
  BY DEF CallIds, DInv, Old
<1> QED
  BY <1>1, TrueUnseen

(* A step of one call that hands nothing over. *)
LEMMA OneCallDInv ==
  ASSUME LInv, DInv, NEW k, OthersSame(k), inbox' = inbox,
         \A j : j # k => /\ j \in DOMAIN sending' <=> j \in DOMAIN sending
                         /\ j \in DOMAIN sending => sending'[j] = sending[j],
         k \in DOMAIN sending' => k \in DOMAIN calls',
         k \in DOMAIN calls' => Moving(calls'[k], k, sending', inbox),
         nextMessage' = nextMessage \/ nextMessage' = nextMessage + 1,
         \A e \in Entries' : e \in Entries \/ TrueIn(inbox, e.msg)
  PROVE  DInv'
<1>1. DOMAIN sending' \subseteq DOMAIN calls'
  BY DEF DInv, OthersSame
<1>2. ASSUME NEW j \in DOMAIN calls' PROVE Moving(calls'[j], j, sending', inbox')
  <2>1. CASE j # k
    <3>1. j \in DOMAIN calls /\ calls'[j] = calls[j]
      BY <2>1 DEF OthersSame
    <3>2. Moving(calls[j], j, sending, inbox)
      BY <3>1 DEF DInv
    <3> QED
      BY <2>1, <3>1, <3>2 DEF Moving
  <2> QED
    BY <2>1
<1>3. \A c \in Clients : \A i \in DOMAIN inbox'[c] : Old(inbox[c][i].payload.messageId)'
  BY DEF DInv, Old, LInv, CallIds
<1>4. \A e \in Entries' : TrueIn(inbox', e.msg)
  BY DEF DInv
<1> QED
  BY <1>1, <1>2, <1>3, <1>4 DEF DInv

(* What no message takes part in keeps DInv.                               *)
LEMMA QuietDInv == DInv /\ Quiet => DInv'
<1> SUFFICES ASSUME DInv, Quiet PROVE DInv'
  OBVIOUS
<1>1. UNCHANGED <<sending, inbox, calls, nextMessage>> /\ Entries' = Entries
  BY EntriesSame DEF Quiet, sendVars
<1> QED
  BY <1>1 DEF DInv, Old

(* DInv holds when there is no message.                                    *)
LEMMA EmptyDInv ==
  sending = EmptyMap /\ calls = EmptyMap /\ inbox = [c \in Clients |-> <<>>]
    /\ history = {} /\ groupHistory = {} /\ erased = {} => DInv
  BY DEF EmptyMap, DInv, Entries, Stored

(* A deletion keeps DInv: an erased message keeps its status.              *)
LEMMA DeleteDInv ==
  ASSUME DInv, NEW c \in Clients, NEW id, DeleteMessageForAll(c, id)
  PROVE  DInv'
<1>1. UNCHANGED <<sending, inbox, calls, nextMessage>> /\ Entries' = Entries
  BY DeleteStep DEF netVars, sendVars
<1> QED
  BY <1>1 DEF DInv, Old

(* A message that has just been built. *)
LEMMA BuildDInv ==
  ASSUME TInv, LInv, DInv, NEW k \in Callers,
         \/ \E c \in Clients, to \in Names : BeginSend(k, c, to)
         \/ NextMember(k)
  PROVE  DInv'
<1>1. /\ OthersSame(k) /\ k \in DOMAIN calls' /\ calls'[k].pc = "send"
      /\ calls'[k].msg.messageId = nextMessage /\ calls'[k].msg.status = "Sent"
      /\ nextMessage' = nextMessage + 1
      /\ UNCHANGED <<serverVars, netVars>>
      /\ k \notin DOMAIN calls \/ (k \in DOMAIN calls /\ calls[k].pc = "build")
  BY BeginSendStep, NextMemberStep
<1>2. k \notin DOMAIN sending
  BY <1>1 DEF DInv, Moving
<1>3. sending' = sending /\ inbox' = inbox /\ Entries' = Entries
  BY <1>1, EntriesSame DEF netVars, serverVars, bookVars
<1>4. Moving(calls'[k], k, sending', inbox)
  BY <1>1, <1>2, <1>3, NewUnseen DEF Moving, Carries, LInv
<1> QED
  BY <1>1, <1>2, <1>3, <1>4, OneCallDInv

(* A group send starts with no message.                                    *)
LEMMA BeginGroupSendDInv ==
  ASSUME TInv, LInv, DInv, NEW k \in Callers, NEW c \in Clients, NEW g \in DOMAIN groups,
         BeginGroupSend(k, c, g)
  PROVE  DInv'
<1>1. /\ OthersSame(k) /\ k \in DOMAIN calls' /\ calls'[k].pc = "build"
      /\ k \notin DOMAIN calls /\ nextMessage' = nextMessage
      /\ UNCHANGED <<serverVars, netVars>>
  BY BeginGroupSendStep
<1>2. k \notin DOMAIN sending
  BY <1>1 DEF DInv
<1>3. sending' = sending /\ inbox' = inbox /\ Entries' = Entries
  BY <1>1, EntriesSame DEF netVars, serverVars, bookVars
<1>4. Moving(calls'[k], k, sending', inbox)
  BY <1>1, <1>2, <1>3 DEF Moving, Carries
<1> QED
  BY <1>1, <1>2, <1>3, <1>4, OneCallDInv

(* The end of a group send keeps DInv.                                     *)
LEMMA EndGroupSendDInv ==
  ASSUME TInv, LInv, DInv, NEW k \in Callers, EndGroupSend(k)
  PROVE  DInv'
<1>1. /\ OthersSame(k) /\ k \notin DOMAIN calls' /\ nextMessage' = nextMessage
      /\ k \in DOMAIN calls /\ calls[k].pc = "build" /\ UNCHANGED <<serverVars, netVars>>
  BY EndGroupSendStep
<1>2. k \notin DOMAIN sending
  BY <1>1 DEF DInv, Moving
<1>3. sending' = sending /\ inbox' = inbox /\ Entries' = Entries
  BY <1>1, EntriesSame DEF netVars, serverVars, bookVars
<1> QED
  BY <1>1, <1>2, <1>3, OneCallDInv

(* The lookup keeps DInv: what it copies is the message, its sender and a  *)
(* handler of the name.                                                    *)
LEMMA FindReceiverDInv ==
  ASSUME SInv, TInv, LInv, DInv, NEW k \in Callers, FindReceiver(k)
  PROVE  DInv'
<1>1. /\ OthersSame(k) /\ k \in DOMAIN calls /\ k \in DOMAIN calls' /\ calls[k].pc = "send"
      /\ calls'[k].pc = "handing" /\ calls'[k].msg = calls[k].msg
      /\ DOMAIN sending' = DOMAIN sending \cup {k}
      /\ \A j \in DOMAIN sending : sending'[j] = sending[j]
      /\ sending'[k].payload = calls[k].msg /\ sending'[k].from = calls[k].msg.sender
      /\ NameOf[sending'[k].handler] = calls[k].msg.receiver
      /\ UNCHANGED <<serverVars, inbox, nextMessage>>
  BY FindReceiverStep
<1>2. Moving(calls[k], k, sending, inbox)
  BY <1>1 DEF DInv
<1>3. Moving(calls'[k], k, sending', inbox)
  BY <1>1, <1>2 DEF Moving, Carries
<1>4. Entries' = Entries
  BY <1>1, EntriesSame DEF serverVars, bookVars
<1> QED
  BY <1>1, <1>3, <1>4, OneCallDInv

(* A failed lookup leaves the status Sent, which is true.                  *)
LEMMA MissReceiverDInv ==
  ASSUME TInv, LInv, DInv, NEW k \in Callers, MissReceiver(k)
  PROVE  DInv'
<1>1. /\ OthersSame(k) /\ k \in DOMAIN calls /\ k \in DOMAIN calls' /\ calls[k].pc = "send"
      /\ calls'[k].pc = "store" /\ SameMessage(calls[k].msg, calls'[k].msg)
      /\ calls'[k].msg.status = "Sent"
      /\ UNCHANGED <<serverVars, netVars, nextMessage>>
  BY MissReceiverStep
<1>2. Moving(calls[k], k, sending, inbox)
  BY <1>1 DEF DInv
<1>3. sending' = sending /\ inbox' = inbox /\ Entries' = Entries
  BY <1>1, EntriesSame DEF netVars, serverVars, bookVars
<1>4. Moving(calls'[k], k, sending', inbox)
  BY <1>1, <1>2, <1>3 DEF Moving, Carries, SameMessage, TrueIn
<1> QED
  BY <1>1, <1>2, <1>3, <1>4, OneCallDInv DEF Moving

(* The handler runs: the call's message, and no other, is handed over.     *)
LEMMA HandOverDInv ==
  ASSUME TInv, LInv, DInv, NEW k \in Callers, HandOver(k)
  PROVE  DInv'
<1> DEFINE f == calls[k]
           c == sending[k].handler
           call == [from |-> sending[k].from, payload |-> sending[k].payload]
<1>1. /\ OthersSame(k) /\ k \in DOMAIN calls /\ k \in DOMAIN calls' /\ f.pc = "handing"
      /\ calls'[k].pc = "store" /\ SameMessage(f.msg, calls'[k].msg)
      /\ calls'[k].msg.status = "Delivered"
      /\ k \in DOMAIN sending /\ sending[k] \in Net!PendingCall
      /\ DOMAIN sending' = DOMAIN sending \ {k}
      /\ \A j \in DOMAIN sending' : sending'[j] = sending[j]
      /\ inbox' = Put(inbox, c, call)
      /\ UNCHANGED <<serverVars, nextMessage>>
  BY HandOverStep DEF Put
<1>2. Moving(f, k, sending, inbox)
  BY <1>1 DEF DInv
<1>3. /\ call.payload = f.msg /\ call.from = f.msg.sender /\ NameOf[c] = f.msg.receiver
      /\ f.msg.status = "Sent" /\ Receipts(inbox, f.msg.messageId) = {}
  BY <1>1, <1>2 DEF Moving, Carries, TrueIn
<1>4. inbox \in Inboxes /\ c \in Clients /\ call \in Net!Call
  BY <1>1 DEF TInv, Net!TypeOK, Inboxes, Net!PendingCall, Net!Call
<1> HIDE DEF call, c, f
<1>5. Entries' = Entries
  BY <1>1, EntriesSame DEF serverVars, bookVars
<1>6. ASSUME NEW j \in DOMAIN calls' PROVE Moving(calls'[j], j, sending', inbox')
  <2>1. CASE j = k
    <3>1. TrueIn(inbox', calls'[k].msg)
      BY <1>1, <1>3, <1>4, TrueWhenHanded DEF SameMessage
    <3> QED
      BY <1>1, <2>1, <3>1 DEF Moving
  <2>2. CASE j # k
    <3>1. j \in DOMAIN calls /\ calls'[j] = calls[j] /\ Moving(calls[j], j, sending, inbox)
      BY <1>1, <2>2 DEF OthersSame, DInv
    <3>2. Carries(calls[j]) => calls[j].msg.messageId # f.msg.messageId
      BY <1>1, <2>2, <3>1 DEF LInv, CallIds, Carries, f
    <3>3. Carries(calls[j]) => TrueIn(inbox', calls[j].msg)
      BY <1>1, <1>3, <1>4, <3>1, <3>2, TrueStays DEF Moving
    <3> QED
      BY <1>1, <2>2, <3>1, <3>3 DEF Moving
  <2> QED
    BY <2>1, <2>2
<1>7. ASSUME NEW e \in Entries PROVE TrueIn(inbox', e.msg)
  <2>1. e.msg.messageId # f.msg.messageId
    BY <1>1 DEF LInv, Apart, Carries, f
  <2> QED
    BY <1>1, <1>3, <1>4, <2>1, TrueStays DEF DInv
<1>8. ASSUME NEW d \in Clients, NEW i \in DOMAIN inbox'[d]
      PROVE  Old(inbox[d][i].payload.messageId)'
  <2>1. Old(f.msg.messageId)
    BY <1>1 DEF LInv, CallIds, Carries, f
  <2>2. \/ i \in DOMAIN inbox[d] /\ inbox'[d][i] = inbox[d][i]
        \/ inbox'[d][i] = call
    BY <1>1, <1>4, PutCall
  <2> QED
    BY <1>1, <1>3, <2>1, <2>2 DEF DInv, Old
<1>9. DOMAIN sending' \subseteq DOMAIN calls'
  BY <1>1 DEF DInv, OthersSame
<1> QED
  BY <1>5, <1>6, <1>7, <1>8, <1>9 DEF DInv

(* Storing keeps DInv: the status of the send is that of the entry.        *)
LEMMA StoreDInv ==
  ASSUME TInv, LInv, DInv, NEW k \in Callers, Store(k)
  PROVE  DInv'
<1>1. /\ OthersSame(k) /\ k \in DOMAIN calls /\ calls[k].pc = "store"
      /\ k \in DOMAIN calls' => calls'[k].pc = "build"
      /\ UNCHANGED <<netVars, nextMessage>>
  BY StoreStep
<1>2. PICK n : n.msg = calls[k].msg /\ Entries' = Entries \cup {n}
  BY StoreStep
<1>3. Moving(calls[k], k, sending, inbox)
  BY <1>1 DEF DInv
<1>4. k \notin DOMAIN sending /\ sending' = sending /\ inbox' = inbox
  BY <1>1, <1>3 DEF Moving, netVars
<1>5. k \in DOMAIN calls' => Moving(calls'[k], k, sending', inbox)
  BY <1>1, <1>4 DEF Moving, Carries
<1>6. TrueIn(inbox, n.msg)
  BY <1>1, <1>2, <1>3 DEF Moving, Carries
<1> QED
  BY <1>1, <1>2, <1>4, <1>5, <1>6, OneCallDInv

(* Every step keeps DInv.                                                  *)
LEMMA NextDInv == SInv /\ TInv /\ LInv /\ DInv /\ [Next]_vars => DInv'
<1> SUFFICES ASSUME SInv, TInv, LInv, DInv, [Next]_vars PROVE DInv'
  OBVIOUS
<1>1. CASE Restart
  BY <1>1 DEF Restart, EmptyMap, DInv, Entries, Stored
<1>2. ASSUME NEW k \in Callers, CallStep(k) PROVE DInv'
  BY <1>2, BuildDInv, EndGroupSendDInv, FindReceiverDInv, MissReceiverDInv, HandOverDInv, StoreDInv
     DEF CallStep
<1> QED
  BY <1>1, <1>2, NextCases, QuietDInv, DeleteDInv, BuildDInv, BeginGroupSendDInv

(* DInv says more than StatusTrue.                                         *)
LEMMA DInvTrue == TInv /\ DInv => StatusTrue
  BY TrueCounts DEF TInv, DInv, StatusTrue, MessagesSent

(* Everything so far together, as it is carried along an execution. *)
Inv == SInv /\ TInv /\ LInv /\ DInv

(* Inv holds at the start.                                                 *)
LEMMA InitInv == Init => Inv
  BY FreshSInv, InitTInv, InitLInv, EmptyDInv DEF Inv, Init, Fresh, Server!Init, Net!Init, EmptyMap,
     Server!EmptyMap, Net!EmptyMap

(* Every step keeps Inv.                                                   *)
LEMMA NextInv == Inv /\ [Next]_vars => Inv'
  BY NextSInv, NextTInv, NextLInv, NextDInv DEF Inv

(* Inv is an invariant of ChatClient.                                      *)
LEMMA InvAlways == Spec => []Inv
  BY InitInv, NextInv, PTL DEF Spec

(* The status of every message in a history is the truth about the         *)
(* handlers' calls, whoever logs in or out while it is on its way.         *)
THEOREM StatusCorrect == Spec => []StatusTrue
<1>1. Inv => StatusTrue
  BY DInvTrue DEF Inv
<1> QED
  BY <1>1, InvAlways, PTL

-----------------------------------------------------------------------------
(* ChatClient implements MessageLife.  A message is in one of three places *)
(* and its id is in one only: the calls, the histories and erased.  Its    *)
(* place and its status are its life, and each step moves one message, or  *)
(* none, or all of them.                                                   *)

Carried == {calls[k].msg : k \in {j \in DOMAIN calls : Carries(calls[j])}}
Kept == {e.msg : e \in Stored}
Gone == {x.entry.msg : x \in erased}

At(stage, m) ==
  [at |-> stage, handed |-> IF m.status = "Delivered" THEN 1 ELSE 0, status |-> m.status]

LifeFacts ==
  /\ nextMessage \in Nat \ {0}
  /\ DOMAIN Lives = 1 .. nextMessage - 1 /\ Lives = [id \in DOMAIN Lives |-> Lives[id]]
  /\ \A m \in Carried : Lives[m.messageId] = At("sending", m)
  /\ \A m \in Kept : Lives[m.messageId] = At("stored", m)
  /\ \A m \in Gone : Lives[m.messageId] = At("erased", m)
  /\ \A m \in Carried \cup Kept \cup Gone :
       m.messageId \in DOMAIN Lives /\ m.status \in {"Sent", "Delivered"}
  /\ \A id \in DOMAIN Lives :
       (\A m \in Carried \cup Kept \cup Gone : m.messageId # id) => Lives[id] = Life!Lost
  /\ \A m, n \in Carried \cup Kept \cup Gone : m.messageId = n.messageId => m = n
  /\ Carried \cap Kept = {} /\ Carried \cap Gone = {} /\ Kept \cap Gone = {}

(* What the histories and erased hold are messages.                        *)
LEMMA EntryMessages == TInv => \A e \in Entries : e.msg \in Message
<1> SUFFICES ASSUME TInv, NEW e \in Entries PROVE e.msg \in Message
  OBVIOUS
<1>1. \A d \in Stored : d.msg \in Message
  BY DEF TInv, Server!TypeOK, Stored, Server!DirectEntry, Server!GroupEntry
<1>2. \A x \in erased : x.entry \in Server!DirectEntry \cup Server!GroupEntry
  BY DEF TInv, Server!TypeOK
<1>3. \A d \in Server!DirectEntry \cup Server!GroupEntry : d.msg \in Message
  BY DEF Server!DirectEntry, Server!GroupEntry
<1> QED
  BY <1>1, <1>2, <1>3 DEF Entries

(* What the three places are worth: the messages in them are known by      *)
(* their ids, and each has the status that the handlers' calls justify.    *)
LEMMA PlacesApart ==
  ASSUME TInv, LInv
  PROVE  /\ \A m, n \in Carried \cup Kept \cup Gone : m.messageId = n.messageId => m = n
         /\ Carried \cap Kept = {} /\ Carried \cap Gone = {} /\ Kept \cap Gone = {}
         /\ \A m \in Carried \cup Kept \cup Gone : Old(m.messageId) /\ m \in Message
<1>1. \A m \in Carried : \E k \in DOMAIN calls : Carries(calls[k]) /\ calls[k].msg = m
  BY DEF Carried
<1>2. \A m \in Kept : \E e \in Stored : e.msg = m
  BY DEF Kept
<1>3. \A m \in Gone : \E x \in erased : x.entry.msg = m
  BY DEF Gone
<1>4. Stored \subseteq Entries /\ \A x \in erased : x.entry \in Entries
  BY DEF Entries
<1>5. \A m \in Kept \cup Gone : \E e \in Entries : e.msg = m
  BY <1>2, <1>3, <1>4
<1>6. \A m \in Carried, n \in Kept \cup Gone : m.messageId # n.messageId
  BY <1>1, <1>5 DEF LInv, Apart
<1>7. \A m \in Kept, n \in Gone : m.messageId # n.messageId
  BY <1>2, <1>3 DEF LInv, EntryIds, ErasedStaysErased
<1>8. \A m, n \in Carried : m.messageId = n.messageId => m = n
  BY <1>1 DEF LInv, CallIds
<1>9. \A m, n \in Kept \cup Gone : m.messageId = n.messageId => m = n
  BY <1>5 DEF LInv, EntryIds, StoredOnce
<1>10. \A m \in Carried \cup Kept \cup Gone : Old(m.messageId)
  BY <1>1, <1>5 DEF LInv, CallIds, EntryIds
<1>11. \A m \in Carried \cup Kept \cup Gone : m \in Message
  BY <1>1, <1>5, EntryMessages DEF TInv, CallTypes, FrameOK, Frame, Carries
<1> QED
  BY <1>6, <1>7, <1>8, <1>9, <1>10, <1>11

(* A message was handed over once if it is Delivered, and else not at all. *)
LEMMA HandedCount ==
  ASSUME TInv, DInv, NEW m \in Carried \cup Kept \cup Gone
  PROVE  Cardinality(Handed(m)) = IF m.status = "Delivered" THEN 1 ELSE 0
<1>1. TrueIn(inbox, m)
  BY DEF Carried, Kept, Gone, Entries, DInv, Moving
<1> QED
  BY <1>1, TrueCounts DEF TInv

(* LifeOf finds a message in its place. *)
LEMMA LifeCarried ==
  ASSUME TInv, LInv, DInv, NEW m \in Carried
  PROVE  LifeOf(m.messageId) = At("sending", m)
<1> DEFINE has(n) == n # NoMessage /\ n.messageId = m.messageId
           j == CHOOSE k \in DOMAIN calls : has(calls[k].msg)
<1>1. PICK k \in DOMAIN calls : Carries(calls[k]) /\ calls[k].msg = m
  BY DEF Carried
<1>2. \A i \in DOMAIN calls : calls[i].msg # NoMessage <=> Carries(calls[i])
  BY DEF TInv, CallTypes, FrameOK, Carries
<1>3. has(calls[k].msg)
  BY <1>1, <1>2
<1>4. j \in DOMAIN calls /\ has(calls[j].msg)
  BY <1>3
<1>5. calls[j].msg = m
  BY <1>1, <1>2, <1>4 DEF LInv, CallIds
<1> HIDE DEF j
<1>6. LifeOf(m.messageId) =
        [at |-> "sending", handed |-> Cardinality(Handed(calls[j].msg)), status |-> calls[j].msg.status]
  BY <1>3, Zenon DEF LifeOf, j
<1> QED
  BY <1>5, <1>6, HandedCount DEF At

(* ... in the histories,                                                   *)
LEMMA LifeKept ==
  ASSUME TInv, LInv, DInv, NEW m \in Kept
  PROVE  LifeOf(m.messageId) = At("stored", m)
<1> DEFINE has(n) == n # NoMessage /\ n.messageId = m.messageId
           d == CHOOSE e \in Stored : has(e.msg)
<1>1. PICK e \in Stored : e.msg = m
  BY DEF Kept
<1>2. ~ \E k \in DOMAIN calls : has(calls[k].msg)
  BY <1>1 DEF TInv, CallTypes, FrameOK, Carries, LInv, Apart, Entries
<1>3. has(e.msg)
  <2>1. m # NoMessage
    BY PlacesApart, NoMessageAssumption
  <2> QED
    BY <1>1, <2>1
<1>4. d \in Stored /\ has(d.msg)
  BY <1>3
<1>5. d.msg = m
  BY <1>4, PlacesApart DEF Kept
<1> HIDE DEF d
<1>6. LifeOf(m.messageId) =
        [at |-> "stored", handed |-> Cardinality(Handed(d.msg)), status |-> d.msg.status]
  BY <1>2, <1>3, Zenon DEF LifeOf, d
<1> QED
  BY <1>5, <1>6, HandedCount DEF At

(* ... and in erased.                                                      *)
LEMMA LifeGone ==
  ASSUME TInv, LInv, DInv, NEW m \in Gone
  PROVE  LifeOf(m.messageId) = At("erased", m)
<1> DEFINE has(n) == n # NoMessage /\ n.messageId = m.messageId
           d == CHOOSE x \in erased : has(x.entry.msg)
<1>1. PICK x \in erased : x.entry.msg = m
  BY DEF Gone
<1>2. ~ \E k \in DOMAIN calls : has(calls[k].msg)
  BY <1>1 DEF TInv, CallTypes, FrameOK, Carries, LInv, Apart, Entries
<1>3. ~ \E e \in Stored : has(e.msg)
  BY <1>1 DEF LInv, EntryIds, ErasedStaysErased
<1>4. has(x.entry.msg)
  <2>1. m # NoMessage
    BY PlacesApart, NoMessageAssumption
  <2> QED
    BY <1>1, <2>1
<1>5. d \in erased /\ has(d.entry.msg)
  BY <1>4
<1>6. d.entry.msg = m
  BY <1>5, PlacesApart DEF Gone
<1> HIDE DEF d
<1>7. LifeOf(m.messageId) =
        [at |-> "erased", handed |-> Cardinality(Handed(d.entry.msg)), status |-> d.entry.msg.status]
  BY <1>2, <1>3, <1>4, Zenon DEF LifeOf, d
<1> QED
  BY <1>6, <1>7, HandedCount DEF At

(* An id that is in no place is lost.                                      *)
LEMMA LifeLost ==
  ASSUME TInv, NEW id, \A m \in Carried \cup Kept \cup Gone : m.messageId # id
  PROVE  LifeOf(id) = Life!Lost
<1> DEFINE has(n) == n # NoMessage /\ n.messageId = id
<1>1. ~ \E k \in DOMAIN calls : has(calls[k].msg)
  BY DEF Carried, TInv, CallTypes, FrameOK, Carries
<1>2. ~ \E e \in Stored : has(e.msg)
  BY DEF Kept
<1>3. ~ \E x \in erased : has(x.entry.msg)
  BY DEF Gone
<1> QED
  BY <1>1, <1>2, <1>3, Zenon DEF LifeOf, Life!Lost

(* What Inv says of the lives of messages.                                 *)
LEMMA InvFacts == Inv => LifeFacts
<1> SUFFICES ASSUME TInv, LInv, DInv PROVE LifeFacts
  BY DEF Inv
<1>1. nextMessage \in Nat \ {0}
  BY DEF LInv, CallIds
<1>2. /\ DOMAIN Lives = 1 .. nextMessage - 1 /\ Lives = [id \in DOMAIN Lives |-> Lives[id]]
      /\ \A id \in DOMAIN Lives : Lives[id] = LifeOf(id)
  BY DEF Lives
<1>3. \A m \in Carried \cup Kept \cup Gone :
        m.messageId \in DOMAIN Lives /\ m.status \in {"Sent", "Delivered"}
  BY <1>1, <1>2, PlacesApart DEF Old, Message
<1>4. /\ \A m \in Carried : Lives[m.messageId] = At("sending", m)
      /\ \A m \in Kept : Lives[m.messageId] = At("stored", m)
      /\ \A m \in Gone : Lives[m.messageId] = At("erased", m)
  BY <1>2, <1>3, LifeCarried, LifeKept, LifeGone
<1>5. \A id \in DOMAIN Lives :
        (\A m \in Carried \cup Kept \cup Gone : m.messageId # id) => Lives[id] = Life!Lost
  BY <1>2, LifeLost
<1> QED
  BY <1>1, <1>2, <1>3, <1>4, <1>5, PlacesApart DEF LifeFacts

(* What happens to the three places when one call takes a step. *)
Own(cs, k) == IF k \in DOMAIN cs /\ Carries(cs[k]) THEN {cs[k].msg} ELSE {}

(* A step of one call changes that call's message only.                    *)
LEMMA CarriedStep ==
  ASSUME CallIds, NEW k, OthersSame(k)
  PROVE  Carried' = (Carried \ Own(calls, k)) \cup Own(calls', k)
<1>1. ASSUME NEW m PROVE m \in Carried <=> \E j \in DOMAIN calls : Carries(calls[j]) /\ calls[j].msg = m
  BY DEF Carried
<1>2. ASSUME NEW m
      PROVE  m \in Carried' <=> \E j \in DOMAIN calls' : Carries(calls'[j]) /\ calls'[j].msg = m
  BY DEF Carried, Carries
<1>3. ASSUME NEW m PROVE m \in Carried' <=> m \in (Carried \ Own(calls, k)) \cup Own(calls', k)
  <2>1. ASSUME m \in Carried' PROVE m \in (Carried \ Own(calls, k)) \cup Own(calls', k)
    <3>1. PICK j \in DOMAIN calls' : Carries(calls'[j]) /\ calls'[j].msg = m
      BY <1>2, <2>1
    <3>2. CASE j = k
      BY <3>1, <3>2 DEF Own
    <3>3. CASE j # k
      <4>1. j \in DOMAIN calls /\ calls[j] = calls'[j] /\ m \in Carried
        BY <1>1, <3>1, <3>3 DEF OthersSame
      <4>2. m \notin Own(calls, k)
        BY <3>1, <3>3, <4>1 DEF Own, CallIds
      <4> QED
        BY <4>1, <4>2
    <3> QED
      BY <3>2, <3>3
  <2>2. ASSUME m \in Own(calls', k) PROVE m \in Carried'
    BY <1>2, <2>2 DEF Own
  <2>3. ASSUME m \in Carried, m \notin Own(calls, k) PROVE m \in Carried'
    <3>1. PICK j \in DOMAIN calls : Carries(calls[j]) /\ calls[j].msg = m
      BY <1>1, <2>3
    <3>2. j # k
      BY <2>3, <3>1 DEF Own
    <3> QED
      BY <1>2, <3>1, <3>2 DEF OthersSame
  <2> QED
    BY <2>1, <2>2, <2>3
<1> QED
  BY <1>3

(* What leaves the histories alone leaves their messages alone.            *)
LEMMA SamePlaces ==
  UNCHANGED <<history, groupHistory, erased>> => Kept' = Kept /\ Gone' = Gone
  BY DEF Kept, Gone, Stored

(* The steps of MessageLife, from what they do to the three places. *)
LEMMA LivesSame ==
  ASSUME LifeFacts, LifeFacts', Carried' = Carried, Kept' = Kept, Gone' = Gone,
         nextMessage' = nextMessage
  PROVE  Lives' = Lives
<1>1. DOMAIN Lives' = DOMAIN Lives
  BY DEF LifeFacts
<1>2. ASSUME NEW id \in DOMAIN Lives PROVE Lives'[id] = Lives[id]
  BY <1>1 DEF LifeFacts
<1> QED
  BY <1>1, <1>2 DEF LifeFacts

(* One message more on its way, and nothing else, is a Build.              *)
LEMMA LivesBuild ==
  ASSUME LifeFacts, LifeFacts', NEW m, Carried' = Carried \cup {m}, Kept' = Kept, Gone' = Gone,
         m.messageId = nextMessage, m.status = "Sent", nextMessage' = nextMessage + 1
  PROVE  Life!Build
<1> DEFINE S == {Lives[id] : id \in DOMAIN Lives} \cup {Life!Built}
           n == nextMessage - 1
<1>1. n \in Nat /\ DOMAIN Lives = 1 .. n /\ DOMAIN Lives' = 1 .. n + 1
      /\ n + 1 = nextMessage /\ Lives \in [1 .. n -> S] /\ Life!Built \in S
  BY DEF LifeFacts
<1>2. ASSUME NEW id \in 1 .. n PROVE Lives'[id] = Lives[id]
  <2>1. id # m.messageId /\ id \in DOMAIN Lives /\ id \in DOMAIN Lives'
    BY <1>1
  <2> QED
    BY <2>1 DEF LifeFacts
<1>3. Lives'[n + 1] = Life!Built
  BY <1>1 DEF LifeFacts, At, Life!Built
<1>4. Lives' \in [1 .. n + 1 -> S]
  <2>1. \A id \in 1 .. n + 1 : id \in 1 .. n \/ id = n + 1
    BY <1>1
  <2>2. \A id \in 1 .. n + 1 : Lives'[id] \in S
    BY <1>1, <1>2, <1>3, <2>1
  <2>3. Lives' = [id \in 1 .. n + 1 |-> Lives'[id]]
    BY <1>1 DEF LifeFacts
  <2> QED
    BY <2>2, <2>3
<1> HIDE DEF S, n
<1>5. Lives \in Seq(S) /\ Lives' \in Seq(S)
  <2>1. n + 1 \in Nat
    BY <1>1
  <2> QED
    BY <1>1, <1>4, <2>1, SeqDef
<1>6. Len(Lives) = n /\ Len(Lives') = n + 1
  BY <1>1, <1>5
<1> DEFINE more == Append(Lives, Life!Built)
<1>7. /\ more \in Seq(S) /\ Len(more) = n + 1 /\ more[n + 1] = Life!Built
      /\ \A id \in 1 .. n : more[id] = Lives[id]
  BY <1>1, <1>5, <1>6, AppendProperties
<1> HIDE DEF more
<1>8. \A id \in 1 .. n + 1 : Lives'[id] = more[id]
  <2>1. \A id \in 1 .. n + 1 : id \in 1 .. n \/ id = n + 1
    BY <1>1
  <2> QED
    BY <1>2, <1>3, <1>7, <2>1
<1>9. Lives' = more
  BY <1>5, <1>6, <1>7, <1>8, SeqEqual
<1> QED
  BY <1>9 DEF Life!Build, more

(* One message changes its place or its status. *)
LEMMA LivesOne ==
  ASSUME LifeFacts, LifeFacts', nextMessage' = nextMessage, NEW id \in DOMAIN Lives,
         \A m : m.messageId # id => /\ m \in Carried' <=> m \in Carried
                                    /\ m \in Kept' <=> m \in Kept
                                    /\ m \in Gone' <=> m \in Gone
  PROVE  Lives' = [Lives EXCEPT ![id] = Lives'[id]]
<1>1. DOMAIN Lives' = DOMAIN Lives
  BY DEF LifeFacts
<1>2. ASSUME NEW j \in DOMAIN Lives, j # id PROVE Lives'[j] = Lives[j]
  <2>1. ASSUME NEW m \in Carried, m.messageId = j PROVE Lives'[j] = Lives[j]
    BY <1>2, <2>1 DEF LifeFacts
  <2>2. ASSUME NEW m \in Kept, m.messageId = j PROVE Lives'[j] = Lives[j]
    BY <1>2, <2>2 DEF LifeFacts
  <2>3. ASSUME NEW m \in Gone, m.messageId = j PROVE Lives'[j] = Lives[j]
    BY <1>2, <2>3 DEF LifeFacts
  <2>4. ASSUME \A m \in Carried \cup Kept \cup Gone : m.messageId # j
        PROVE  Lives'[j] = Lives[j]
    <3>1. \A m \in Carried' \cup Kept' \cup Gone' : m.messageId # j
      BY <1>2, <2>4
    <3> QED
      BY <1>1, <2>4, <3>1 DEF LifeFacts
  <2> QED
    BY <2>1, <2>2, <2>3, <2>4
<1>3. /\ Lives = [j \in DOMAIN Lives |-> Lives[j]]
      /\ Lives' = [j \in DOMAIN Lives |-> Lives'[j]]
  BY <1>1 DEF LifeFacts
<1> QED
  BY <1>2, <1>3

(* Building a direct message or a copy is a Build.                         *)
LEMMA BuildLife ==
  ASSUME TInv, LInv, LifeFacts, LifeFacts', NEW k \in Callers,
         \/ \E c \in Clients, to \in Names : BeginSend(k, c, to)
         \/ NextMember(k)
  PROVE  Life!Build
<1> DEFINE m == calls'[k].msg
<1>1. /\ OthersSame(k) /\ k \in DOMAIN calls' /\ calls'[k].pc = "send"
      /\ m.messageId = nextMessage /\ m.status = "Sent" /\ nextMessage' = nextMessage + 1
      /\ UNCHANGED serverVars
      /\ k \notin DOMAIN calls \/ (k \in DOMAIN calls /\ calls[k].pc = "build")
  BY BeginSendStep, NextMemberStep
<1>2. Own(calls, k) = {} /\ Own(calls', k) = {m}
  BY <1>1 DEF Own, Carries
<1>3. Carried' = Carried \cup {m}
  BY <1>1, <1>2, CarriedStep DEF LInv
<1>4. Kept' = Kept /\ Gone' = Gone
  BY <1>1, SamePlaces DEF serverVars
<1> HIDE DEF m
<1> QED
  BY <1>1, <1>3, <1>4, LivesBuild

(* A step of a call that leaves the message, if there is one, as it is. *)
LEMMA SameLife ==
  ASSUME LInv, LifeFacts, LifeFacts', NEW k, OthersSame(k),
         Own(calls', k) = Own(calls, k), UNCHANGED serverVars, nextMessage' = nextMessage
  PROVE  Lives' = Lives
<1>1. Own(calls, k) \subseteq Carried
  BY DEF Own, Carried
<1>2. Carried' = Carried
  BY <1>1, CarriedStep DEF LInv
<1> QED
  BY <1>2, SamePlaces, LivesSame DEF serverVars

(* The call of the handler is a HandOver.                                  *)
LEMMA HandOverLife ==
  ASSUME TInv, LInv, DInv, LifeFacts, LifeFacts', NEW k \in Callers, HandOver(k)
  PROVE  \E id \in DOMAIN Lives : Life!HandOver(id)
<1> DEFINE m == calls[k].msg
           n == calls'[k].msg
           id == m.messageId
<1>1. /\ OthersSame(k) /\ k \in DOMAIN calls /\ k \in DOMAIN calls' /\ calls[k].pc = "handing"
      /\ calls'[k].pc = "store" /\ SameMessage(m, n) /\ n.status = "Delivered"
      /\ UNCHANGED <<serverVars, nextMessage>>
  BY HandOverStep
<1>2. Own(calls, k) = {m} /\ Own(calls', k) = {n} /\ m \in Carried
  BY <1>1 DEF Own, Carries, Carried
<1>3. Carried' = (Carried \ {m}) \cup {n} /\ Kept' = Kept /\ Gone' = Gone
  BY <1>1, <1>2, CarriedStep, SamePlaces DEF LInv, serverVars
<1>4. m.status = "Sent"
  BY <1>1 DEF DInv, Moving
<1>5. n.messageId = id
  BY <1>1 DEF SameMessage
<1> HIDE DEF m, n
<1>6. id \in DOMAIN Lives /\ Lives[id] = Life!Built
  BY <1>2, <1>4 DEF LifeFacts, At, Life!Built
<1>7. Lives'[id] = [at |-> "sending", handed |-> 1, status |-> "Delivered"]
  BY <1>1, <1>3, <1>5 DEF LifeFacts, At
<1>8. Lives' = [Lives EXCEPT ![id] = Lives'[id]]
  BY <1>1, <1>3, <1>5, <1>6, LivesOne
<1> HIDE DEF id
<1>9. Lives'[id] = [Lives[id] EXCEPT !.handed = 1, !.status = "Delivered"]
  <2>1. [Life!Built EXCEPT !.handed = 1] = [at |-> "sending", handed |-> 1, status |-> "Sent"]
    BY DEF Life!Built
  <2>2. [Life!Built EXCEPT !.handed = 1, !.status = "Delivered"] =
          [[Life!Built EXCEPT !.handed = 1] EXCEPT !.status = "Delivered"]
    BY DEF Life!Built
  <2>3. [[at |-> "sending", handed |-> 1, status |-> "Sent"] EXCEPT !.status = "Delivered"] =
          [at |-> "sending", handed |-> 1, status |-> "Delivered"]
    OBVIOUS
  <2>4. [Life!Built EXCEPT !.handed = 1, !.status = "Delivered"] =
          [at |-> "sending", handed |-> 1, status |-> "Delivered"]
    BY <2>1, <2>2, <2>3, Zenon
  <2> QED
    BY <1>6, <1>7, <2>4, Zenon
<1>10. [Lives EXCEPT ![id].handed = 1, ![id].status = "Delivered"] =
         [Lives EXCEPT ![id] = [Lives[id] EXCEPT !.handed = 1, !.status = "Delivered"]]
  <2>1. Lives = [j \in DOMAIN Lives |-> Lives[j]]
    BY DEF LifeFacts
  <2> QED
    BY <1>6, <2>1
<1>11. Lives' = [Lives EXCEPT ![id].handed = 1, ![id].status = "Delivered"]
  BY <1>8, <1>9, <1>10
<1> QED
  BY <1>6, <1>11 DEF Life!HandOver

(* Storing is a Store.                                                     *)
LEMMA StoreLife ==
  ASSUME TInv, LInv, DInv, LifeFacts, LifeFacts', NEW k \in Callers, Store(k)
  PROVE  \E id \in DOMAIN Lives : Life!Store(id)
<1> DEFINE m == calls[k].msg
           id == m.messageId
<1>1. /\ OthersSame(k) /\ k \in DOMAIN calls /\ calls[k].pc = "store"
      /\ k \in DOMAIN calls' => calls'[k].pc = "build"
      /\ UNCHANGED <<nextMessage, erased>>
  BY StoreStep
<1>2. PICK n : n.msg = m /\ Stored' = Stored \cup {n}
  BY StoreStep
<1>3. Own(calls, k) = {m} /\ Own(calls', k) = {} /\ m \in Carried
  BY <1>1 DEF Own, Carries, Carried
<1>4. Carried' = Carried \ {m} /\ Kept' = Kept \cup {m} /\ Gone' = Gone
  BY <1>1, <1>2, <1>3, CarriedStep DEF LInv, Kept, Gone
<1> HIDE DEF m
<1>5. id \in DOMAIN Lives /\ Lives[id] = At("sending", m) /\ Lives'[id] = At("stored", m)
  BY <1>3, <1>4 DEF LifeFacts
<1>6. Lives' = [Lives EXCEPT ![id] = Lives'[id]]
  BY <1>1, <1>4, <1>5, LivesOne
<1> HIDE DEF id
<1>7. Lives[id].at = "sending" /\ Lives' = [Lives EXCEPT ![id].at = "stored"]
  BY <1>5, <1>6 DEF At
<1> QED
  BY <1>5, <1>7 DEF Life!Store

(* The entries that a deletion removes are one, whose id it was given. *)
LEMMA DeleteLife ==
  ASSUME LifeFacts, LifeFacts', NEW c \in Clients, NEW id, DeleteMessageForAll(c, id)
  PROVE  \E i \in DOMAIN Lives : Life!DeleteForAll(i)
<1>1. PICK gone \in SUBSET Stored :
        /\ gone # {} /\ \A e \in gone : e.msg.messageId = id
        /\ Stored' = Stored \ gone
        /\ erased' = erased \cup {[by |-> NameOf[c], entry |-> e] : e \in gone}
  BY DeleteStep
<1>2. UNCHANGED sendVars
  BY DeleteStep
<1>3. nextMessage' = nextMessage /\ Carried' = Carried
  BY <1>2 DEF sendVars, Carried, Carries
<1>4. PICK e \in gone : e.msg.messageId = id
  BY <1>1
<1> DEFINE m == e.msg
           x == [by |-> NameOf[c], entry |-> e]
<1>5. m \in Kept /\ m.messageId = id
  BY <1>1, <1>4 DEF Kept
<1>6. m \in Gone'
  <2>1. x \in erased' /\ x.entry.msg = m
    BY <1>1
  <2> HIDE DEF x, m
  <2> QED
    BY <2>1 DEF Gone
<1>7. ASSUME NEW n, n.messageId # id
      PROVE  (n \in Kept' <=> n \in Kept) /\ (n \in Gone' <=> n \in Gone)
  <2>1. n \in Kept' <=> n \in Kept
    BY <1>1, <1>7 DEF Kept
  <2>2. n \in Gone => n \in Gone'
    BY <1>1 DEF Gone
  <2>3. \A y \in erased' : y \in erased \/ y.entry \in gone
    BY <1>1
  <2>4. n \in Gone' => n \in Gone
    BY <1>1, <1>7, <2>3 DEF Gone
  <2> QED
    BY <2>1, <2>2, <2>4
<1> HIDE DEF m
<1>8. id \in DOMAIN Lives /\ Lives[id] = At("stored", m) /\ Lives'[id] = At("erased", m)
  BY <1>5, <1>6 DEF LifeFacts
<1>9. Lives' = [Lives EXCEPT ![id] = Lives'[id]]
  BY <1>3, <1>7, <1>8, LivesOne
<1>10. Lives[id].at = "stored" /\ Lives' = [Lives EXCEPT ![id].at = "erased"]
  BY <1>8, <1>9 DEF At
<1> QED
  BY <1>8, <1>10 DEF Life!DeleteForAll

(* A restart is an End.                                                    *)
LEMMA RestartLife ==
  ASSUME LifeFacts, LifeFacts', Restart
  PROVE  Life!End
<1>1. Carried' = {} /\ Kept' = {} /\ Gone' = {} /\ nextMessage' = nextMessage
  BY DEF Restart, EmptyMap, Carried, Kept, Gone, Stored
<1>2. DOMAIN Lives' = DOMAIN Lives /\ \A id \in DOMAIN Lives : Lives'[id] = Life!Lost
  BY <1>1 DEF LifeFacts
<1>3. Lives' = [id \in DOMAIN Lives |-> Lives'[id]]
  BY <1>2 DEF LifeFacts
<1>4. Lives' = [id \in DOMAIN Lives |-> Life!Lost]
  BY <1>2, <1>3
<1> QED
  BY <1>4 DEF Life!End

(* A lookup moves no message, and neither does the end of a group send.    *)
LEMMA TransportLife ==
  ASSUME SInv, TInv, LInv, DInv, LifeFacts, LifeFacts', NEW k \in Callers,
         FindReceiver(k) \/ MissReceiver(k) \/ EndGroupSend(k)
  PROVE  Lives' = Lives
<1>1. CASE FindReceiver(k)
  <2>1. /\ OthersSame(k) /\ k \in DOMAIN calls /\ k \in DOMAIN calls' /\ calls[k].pc = "send"
        /\ calls'[k].pc = "handing" /\ calls'[k].msg = calls[k].msg
        /\ UNCHANGED <<serverVars, nextMessage>>
    BY <1>1, FindReceiverStep
  <2>2. Own(calls', k) = Own(calls, k)
    BY <2>1 DEF Own, Carries
  <2> QED
    BY <2>1, <2>2, SameLife
<1>2. CASE MissReceiver(k)
  <2>1. /\ OthersSame(k) /\ k \in DOMAIN calls /\ k \in DOMAIN calls' /\ calls[k].pc = "send"
        /\ calls'[k].pc = "store"
        /\ calls'[k].msg = [calls[k].msg EXCEPT !.status = "Sent"]
        /\ UNCHANGED <<serverVars, nextMessage>>
    BY <1>2, MissReceiverStep
  <2>2. calls[k].msg \in Message /\ calls[k].msg.status = "Sent"
    BY <2>1 DEF TInv, CallTypes, FrameOK, Frame, DInv, Moving
  <2>3. calls'[k].msg = calls[k].msg
    BY <2>1, <2>2 DEF Message
  <2>4. Own(calls', k) = Own(calls, k)
    BY <2>1, <2>3 DEF Own, Carries
  <2> QED
    BY <2>1, <2>4, SameLife
<1>3. CASE EndGroupSend(k)
  <2>1. /\ OthersSame(k) /\ k \in DOMAIN calls /\ k \notin DOMAIN calls' /\ calls[k].pc = "build"
        /\ UNCHANGED <<serverVars, nextMessage>>
    BY <1>3, EndGroupSendStep
  <2>2. Own(calls', k) = Own(calls, k)
    BY <2>1 DEF Own, Carries
  <2> QED
    BY <2>1, <2>2, SameLife
<1> QED
  BY <1>1, <1>2, <1>3

(* Every step of ChatClient is one of MessageLife, or a stutter.           *)
LEMMA NextLife ==
  ASSUME Inv, LifeFacts, LifeFacts', [Next]_vars
  PROVE  [Life!Next]_Lives
<1>1. SInv /\ TInv /\ LInv /\ DInv
  BY DEF Inv
<1>2. CASE Quiet
  <2>1. /\ UNCHANGED <<calls, nextMessage, history, groupHistory, erased>>
    BY <1>2 DEF Quiet, bookVars, sendVars
  <2>2. Carried' = Carried
    BY <2>1 DEF Carried, Carries
  <2> QED
    BY <2>1, <2>2, SamePlaces, LivesSame
<1>3. CASE Restart
  BY <1>3, RestartLife DEF Life!Next
<1>4. ASSUME NEW c \in Clients, NEW id, DeleteMessageForAll(c, id) PROVE Life!Next
  BY <1>4, DeleteLife DEF Life!Next
<1>5. ASSUME NEW k \in Callers,
             (\E c \in Clients, to \in Names : BeginSend(k, c, to)) \/ NextMember(k)
      PROVE  Life!Next
  BY <1>1, <1>5, BuildLife DEF Life!Next
<1>6. ASSUME NEW k \in Callers, NEW c \in Clients, NEW g \in DOMAIN groups, BeginGroupSend(k, c, g)
      PROVE  Lives' = Lives
  <2>1. /\ OthersSame(k) /\ k \in DOMAIN calls' /\ calls'[k].pc = "build" /\ k \notin DOMAIN calls
        /\ nextMessage' = nextMessage /\ UNCHANGED serverVars
    BY <1>1, <1>6, BeginGroupSendStep
  <2>2. Own(calls', k) = Own(calls, k)
    BY <2>1 DEF Own, Carries
  <2> QED
    BY <1>1, <2>1, <2>2, SameLife
<1>7. ASSUME NEW k \in Callers, CallStep(k) PROVE [Life!Next]_Lives
  <2>1. CASE NextMember(k)
    BY <1>5, <2>1
  <2>2. CASE FindReceiver(k) \/ MissReceiver(k) \/ EndGroupSend(k)
    BY <1>1, <2>2, TransportLife
  <2>3. CASE HandOver(k)
    BY <1>1, <2>3, HandOverLife DEF Life!Next
  <2>4. CASE Store(k)
    BY <1>1, <2>4, StoreLife DEF Life!Next
  <2> QED
    BY <1>7, <2>1, <2>2, <2>3, <2>4 DEF CallStep
<1> QED
  BY <1>2, <1>3, <1>4, <1>5, <1>6, <1>7, NextCases

(* The start of ChatClient is that of MessageLife.                         *)
LEMMA InitLife == Init => Life!Init
<1> SUFFICES ASSUME Init PROVE Life!Init
  OBVIOUS
<1>1. nextMessage = 1
  BY DEF Init
<1>2. Lives = [id \in 1 .. 0 |-> LifeOf(id)]
  BY <1>1 DEF Lives
<1>3. 1 .. 0 = {}
  OBVIOUS
<1> QED
  BY <1>2, <1>3 DEF Life!Init

(* Every message leads the life that MessageLife allows: the interleaved   *)
(* steps of the clients, of the transport and of the server implement the  *)
(* abstract specification, step by step.                                   *)
THEOREM MessageLifeCorrect == Spec => ImplementsMessageLife
<1>1. Inv /\ Inv' /\ [Next]_vars => [Life!Next]_Lives
  <2>1. Inv' => LifeFacts'
    BY InvFacts, PTL
  <2> QED
    BY <2>1, InvFacts, NextLife
<1> QED
  BY <1>1, InitLife, InvAlways, PTL DEF Spec, ImplementsMessageLife, Life!Spec

-----------------------------------------------------------------------------
(* Group messages.  The copies of one group message share a payload that   *)
(* no other call and no other message has.  At every moment the receivers  *)
(* of the stored copies and those the call still has to serve are the      *)
(* members of the group, each on one side only.                            *)

Late(f) == f.left \cup IF f.msg = NoMessage THEN {} ELSE {f.msg.receiver}

Receivers(es, p) == {e.msg.receiver : e \in {x \in es : x.msg.payload = p}}

(* What is stored of the call f among the entries es, the groups being gs. *)
Serving(f, gs, es) ==
  /\ f.chat = NoChat => Receivers(es, f.payload) = {}
  /\ f.chat # NoChat =>
       /\ f.chat \in DOMAIN gs
       /\ Late(f) \subseteq gs[f.chat].members
       /\ Receivers(es, f.payload) = gs[f.chat].members \ Late(f)
       /\ f.msg # NoMessage => f.msg.receiver \notin f.left
  /\ \A e \in es : e.msg.payload = f.payload =>
       e.msg.chatId = f.chat /\ e.msg.sender = NameOf[f.client]

CallsServe ==
  /\ \A k \in DOMAIN calls : calls[k].payload \in Nat /\ calls[k].payload < nextPayload
  /\ \A k \in DOMAIN calls : Serving(calls[k], groups, Entries)
  /\ \A j, k \in DOMAIN calls : calls[j].payload = calls[k].payload => j = k

(* What an entry e shares with the others, the entries being es. *)
CopyOf(e, es) ==
  \A d \in es : d.msg.payload = e.msg.payload =>
    /\ d.msg.chatId = e.msg.chatId /\ d.msg.sender = e.msg.sender
    /\ d.msg.receiver = e.msg.receiver => d = e

CopiesAgree ==
  \A e \in Entries :
    /\ e.msg.payload \in Nat /\ e.msg.payload < nextPayload
    /\ e.msg.isGroupMessage => e.msg.chatId \in DOMAIN groups
    /\ CopyOf(e, Entries)

AllServed ==
  \A e \in Entries : e.msg.isGroupMessage =>
    \/ \E k \in DOMAIN calls : calls[k].payload = e.msg.payload
    \/ Receivers(Entries, e.msg.payload) = groups[e.msg.chatId].members

FInv == CallsServe /\ CopiesAgree /\ AllServed

(* Who the receivers of a payload are.                                     *)
LEMMA ReceiversOf ==
  ASSUME NEW es, NEW p, NEW u
  PROVE  u \in Receivers(es, p) <=> \E e \in es : e.msg.payload = p /\ e.msg.receiver = u
  BY DEF Receivers

(* The receiver of an entry is one of those of its payload.                *)
LEMMA ReceiverOf ==
  ASSUME NEW es, NEW e \in es
  PROVE  e.msg.receiver \in Receivers(es, e.msg.payload)
  BY DEF Receivers

(* New groups and nothing else. *)
LEMMA GrowFInv ==
  ASSUME FInv, UNCHANGED <<calls, nextPayload>>, Entries' = Entries,
         \A g \in DOMAIN groups : g \in DOMAIN groups' /\ groups'[g] = groups[g]
  PROVE  FInv'
<1>1. ASSUME NEW k \in DOMAIN calls PROVE Serving(calls[k], groups', Entries)
  BY DEF FInv, CallsServe, Serving
<1>2. CallsServe'
  BY <1>1 DEF FInv, CallsServe
<1>3. CopiesAgree'
  BY DEF FInv, CopiesAgree
<1>4. AllServed'
  BY DEF FInv, AllServed, CopiesAgree
<1> QED
  BY <1>2, <1>3, <1>4 DEF FInv

(* A step of one call that stores nothing. *)
LEMMA OneCallFInv ==
  ASSUME FInv, NEW k, OthersSame(k), Entries' = Entries, groups' = groups,
         nextPayload \in Nat, nextPayload' = nextPayload \/ nextPayload' = nextPayload + 1,
         k \in DOMAIN calls' =>
           /\ Serving(calls'[k], groups, Entries)
           /\ \/ k \in DOMAIN calls /\ calls'[k].payload = calls[k].payload
              \/ /\ k \notin DOMAIN calls /\ calls'[k].payload = nextPayload
                 /\ nextPayload' = nextPayload + 1,
         k \in DOMAIN calls /\ k \notin DOMAIN calls' =>
           \A e \in Entries : e.msg.isGroupMessage /\ e.msg.payload = calls[k].payload =>
             Receivers(Entries, e.msg.payload) = groups[e.msg.chatId].members
  PROVE  FInv'
<1>1. ASSUME NEW j \in DOMAIN calls'
      PROVE  /\ calls'[j].payload \in Nat /\ calls'[j].payload < nextPayload'
             /\ Serving(calls'[j], groups', Entries')
             /\ \/ j \in DOMAIN calls /\ calls'[j].payload = calls[j].payload
                \/ j = k /\ k \notin DOMAIN calls /\ calls'[j].payload = nextPayload
  <2>1. CASE j = k
    BY <1>1, <2>1 DEF FInv, CallsServe
  <2>2. CASE j # k
    <3>1. j \in DOMAIN calls /\ calls'[j] = calls[j]
      BY <1>1, <2>2 DEF OthersSame
    <3>2. /\ calls[j].payload \in Nat /\ calls[j].payload < nextPayload
          /\ Serving(calls[j], groups, Entries)
      BY <3>1 DEF FInv, CallsServe
    <3> QED
      BY <3>1, <3>2
  <2> QED
    BY <2>1, <2>2
<1>2. ASSUME NEW i \in DOMAIN calls', NEW j \in DOMAIN calls', calls'[i].payload = calls'[j].payload
      PROVE  i = j
  BY <1>1, <1>2 DEF FInv, CallsServe
<1>3. CallsServe'
  BY <1>1, <1>2 DEF CallsServe
<1>4. CopiesAgree'
  BY DEF FInv, CopiesAgree
<1>5. ASSUME NEW e \in Entries, e.msg.isGroupMessage
      PROVE  \/ \E j \in DOMAIN calls' : calls'[j].payload = e.msg.payload
             \/ Receivers(Entries, e.msg.payload) = groups[e.msg.chatId].members
  <2>1. ASSUME NEW j \in DOMAIN calls, calls[j].payload = e.msg.payload, j # k
        PROVE  j \in DOMAIN calls' /\ calls'[j].payload = e.msg.payload
    BY <2>1 DEF OthersSame
  <2>2. ASSUME k \in DOMAIN calls, calls[k].payload = e.msg.payload
        PROVE  \/ k \in DOMAIN calls' /\ calls'[k].payload = e.msg.payload
               \/ Receivers(Entries, e.msg.payload) = groups[e.msg.chatId].members
    BY <1>5, <2>2
  <2> QED
    BY <1>5, <2>1, <2>2 DEF FInv, AllServed
<1>6. AllServed'
  BY <1>5 DEF AllServed
<1> QED
  BY <1>3, <1>4, <1>6 DEF FInv

(* A call with a new payload: nothing of it is stored yet. *)
LEMMA BeginFInv ==
  ASSUME TInv, FInv, NEW k \in Callers,
         \/ \E c \in Clients, to \in Names : BeginSend(k, c, to)
         \/ \E c \in Clients, g \in DOMAIN groups : BeginGroupSend(k, c, g)
  PROVE  FInv'
<1>1. /\ k \notin DOMAIN calls /\ k \in DOMAIN calls' /\ OthersSame(k)
      /\ calls'[k].payload = nextPayload /\ nextPayload' = nextPayload + 1
      /\ UNCHANGED serverVars
      /\ \/ calls'[k].chat = NoChat
         \/ /\ calls'[k].chat \in DOMAIN groups /\ calls'[k].chat # NoChat
            /\ calls'[k].left = groups[calls'[k].chat].members /\ calls'[k].msg = NoMessage
  BY BeginSendStep, BeginGroupSendStep
<1>2. nextPayload \in Nat /\ Entries' = Entries /\ groups' = groups
  BY <1>1, EntriesSame DEF TInv, RestTypes, serverVars, bookVars
<1>3. \A e \in Entries : e.msg.payload # nextPayload
  BY <1>2 DEF FInv, CopiesAgree
<1>4. Receivers(Entries, nextPayload) = {}
  BY <1>3 DEF Receivers
<1>5. Serving(calls'[k], groups, Entries)
  BY <1>1, <1>3, <1>4 DEF Serving, Late
<1> QED
  BY <1>1, <1>2, <1>5, OneCallFInv

(* A step between building and storing keeps what the call still has to    *)
(* serve.                                                                  *)
LEMMA MoveFInv ==
  ASSUME TInv, FInv, NEW k \in DOMAIN calls, k \in DOMAIN calls', OthersSame(k),
         SameCall(calls[k], calls'[k]), Late(calls'[k]) = Late(calls[k]),
         calls'[k].msg # NoMessage => calls'[k].msg.receiver \notin calls'[k].left,
         UNCHANGED <<serverVars, nextPayload>>
  PROVE  FInv'
<1>1. nextPayload \in Nat /\ Entries' = Entries /\ groups' = groups
  BY EntriesSame DEF TInv, RestTypes, serverVars, bookVars
<1>2. Serving(calls[k], groups, Entries)
  BY DEF FInv, CallsServe
<1>3. Serving(calls'[k], groups, Entries)
  BY <1>2 DEF Serving, SameCall
<1> QED
  BY <1>1, <1>3, OneCallFInv DEF SameCall

(* A turn of the loop moves a member from left to the message, which       *)
(* leaves those to serve the same.                                         *)
LEMMA NextMemberFInv ==
  ASSUME TInv, TInv', FInv, NEW k \in Callers, NextMember(k)
  PROVE  FInv'
<1>1. /\ k \in DOMAIN calls /\ k \in DOMAIN calls' /\ OthersSame(k)
      /\ calls[k].pc = "build" /\ calls'[k].pc = "send" /\ SameCall(calls[k], calls'[k])
      /\ UNCHANGED <<serverVars, nextPayload>>
  BY NextMemberStep
<1>2. PICK to \in calls[k].left : calls'[k].left = calls[k].left \ {to} /\ calls'[k].msg.receiver = to
  BY NextMemberStep
<1>3. calls[k].msg = NoMessage /\ calls'[k].msg # NoMessage
  BY <1>1 DEF TInv, CallTypes, FrameOK
<1>4. Late(calls'[k]) = Late(calls[k])
  BY <1>2, <1>3 DEF Late
<1> QED
  BY <1>1, <1>2, <1>4, MoveFInv

(* The transport keeps what a call still has to serve.                     *)
LEMMA TransportFInv ==
  ASSUME SInv, TInv, TInv', FInv, NEW k \in Callers,
         FindReceiver(k) \/ MissReceiver(k) \/ HandOver(k)
  PROVE  FInv'
<1>1. /\ k \in DOMAIN calls /\ k \in DOMAIN calls' /\ OthersSame(k)
      /\ calls[k].pc # "build" /\ calls'[k].pc # "build" /\ SameCall(calls[k], calls'[k])
      /\ calls'[k].left = calls[k].left /\ calls'[k].msg.receiver = calls[k].msg.receiver
      /\ UNCHANGED <<serverVars, nextPayload>>
  BY FindReceiverStep, MissReceiverStep, HandOverStep DEF SameMessage
<1>2. calls[k].msg # NoMessage /\ calls'[k].msg # NoMessage /\ calls[k].chat \in ChatIds
  BY <1>1 DEF TInv, CallTypes, FrameOK, Frame
<1>3. Late(calls'[k]) = Late(calls[k])
  BY <1>1, <1>2 DEF Late
<1>4. calls[k].msg.receiver \notin calls[k].left
  BY <1>1, <1>2 DEF FInv, CallsServe, Serving, TInv, CallTypes, FrameOK
<1> QED
  BY <1>1, <1>3, <1>4, MoveFInv

(* The loop is over: all members have been served. *)
LEMMA EndGroupSendFInv ==
  ASSUME TInv, FInv, NEW k \in Callers, EndGroupSend(k)
  PROVE  FInv'
<1> DEFINE f == calls[k]
<1>1. /\ k \in DOMAIN calls /\ k \notin DOMAIN calls' /\ OthersSame(k)
      /\ f.pc = "build" /\ f.left = {} /\ UNCHANGED <<serverVars, nextPayload>>
  BY EndGroupSendStep
<1>2. nextPayload \in Nat /\ Entries' = Entries /\ groups' = groups
  BY <1>1, EntriesSame DEF TInv, RestTypes, serverVars, bookVars
<1>3. f.msg = NoMessage /\ f.chat # NoChat
  BY <1>1 DEF TInv, CallTypes, FrameOK
<1>4. Serving(f, groups, Entries)
  BY <1>1 DEF FInv, CallsServe
<1>5. Receivers(Entries, f.payload) = groups[f.chat].members
  BY <1>1, <1>3, <1>4 DEF Serving, Late
<1>6. \A e \in Entries : e.msg.payload = f.payload => e.msg.chatId = f.chat
  BY <1>4 DEF Serving
<1> QED
  BY <1>1, <1>2, <1>5, <1>6, OneCallFInv

(* A stored copy passes its receiver from one side to the other. *)
LEMMA StoreFInv ==
  ASSUME TInv, FInv, NEW k \in Callers, Store(k)
  PROVE  FInv'
<1> DEFINE f == calls[k]
           m == f.msg
<1>1. /\ k \in DOMAIN calls /\ OthersSame(k) /\ f.pc = "store"
      /\ f.chat = NoChat => k \notin DOMAIN calls'
      /\ f.chat # NoChat =>
           /\ k \in DOMAIN calls' /\ SameCall(f, calls'[k])
           /\ calls'[k].left = f.left /\ calls'[k].msg = NoMessage
      /\ UNCHANGED <<groups, nextPayload>>
  BY StoreStep
<1>2. PICK n : n.msg = m /\ Entries' = Entries \cup {n}
  BY StoreStep
<1>3. /\ m \in Message /\ m # NoMessage /\ m.sender = NameOf[f.client] /\ m.chatId = f.chat
      /\ m.payload = f.payload /\ f.payload \in Nat /\ f.payload < nextPayload
  BY <1>1, NoMessageAssumption DEF TInv, CallTypes, FrameOK, Frame, FInv, CallsServe
<1>4. m.isGroupMessage <=> f.chat # NoChat
  BY <1>3 DEF Message
<1>5. Serving(f, groups, Entries)
  BY <1>1 DEF FInv, CallsServe
<1>6. \A e \in Entries : e.msg.payload = f.payload => e.msg.receiver # m.receiver
  <2>1. CASE f.chat = NoChat
    <3>1. Receivers(Entries, f.payload) = {}
      BY <1>5, <2>1 DEF Serving
    <3> QED
      BY <3>1, ReceiverOf
  <2>2. CASE f.chat # NoChat
    <3>1. m.receiver \notin Receivers(Entries, f.payload)
      BY <1>3, <1>5, <2>2 DEF Serving, Late
    <3> QED
      BY <3>1, ReceiversOf
  <2> QED
    BY <2>1, <2>2
<1> HIDE DEF m
<1>7. ASSUME NEW p, p # f.payload PROVE Receivers(Entries', p) = Receivers(Entries, p)
  BY <1>2, <1>3, <1>7 DEF Receivers
<1>8. Receivers(Entries', f.payload) = Receivers(Entries, f.payload) \cup {m.receiver}
  BY <1>2, <1>3 DEF Receivers
<1>9. ASSUME NEW j \in DOMAIN calls', j # k
      PROVE  /\ j \in DOMAIN calls /\ calls'[j] = calls[j] /\ calls[j].payload # f.payload
             /\ Serving(calls'[j], groups, Entries')
  <2>1. j \in DOMAIN calls /\ calls'[j] = calls[j] /\ calls[j].payload # f.payload
    BY <1>1, <1>9 DEF OthersSame, FInv, CallsServe
  <2>2. Serving(calls[j], groups, Entries)
    BY <2>1 DEF FInv, CallsServe
  <2>3. Serving(calls[j], groups, Entries')
    BY <1>2, <1>3, <1>7, <2>1, <2>2 DEF Serving
  <2> QED
    BY <2>1, <2>3
<1>10. ASSUME k \in DOMAIN calls'
       PROVE  calls'[k].payload = f.payload /\ Serving(calls'[k], groups, Entries')
  <2>1. /\ f.chat # NoChat /\ SameCall(f, calls'[k])
        /\ calls'[k].left = f.left /\ calls'[k].msg = NoMessage
    BY <1>1, <1>10
  <2>2. /\ Late(f) = f.left \cup {m.receiver} /\ Late(calls'[k]) = f.left
        /\ m.receiver \notin f.left
    BY <1>3, <1>5, <2>1 DEF Late, Serving, m
  <2>3. Receivers(Entries', f.payload) = groups[f.chat].members \ f.left
    BY <1>5, <1>8, <2>1, <2>2 DEF Serving
  <2> QED
    BY <1>2, <1>3, <1>5, <2>1, <2>2, <2>3 DEF Serving, SameCall
<1>11. CallsServe'
  <2>1. \A j \in DOMAIN calls' : j \in DOMAIN calls /\ calls'[j].payload = calls[j].payload
    BY <1>1, <1>9, <1>10
  <2>2. \A j \in DOMAIN calls' : Serving(calls'[j], groups', Entries')
    BY <1>1, <1>9, <1>10
  <2> QED
    BY <1>1, <2>1, <2>2 DEF FInv, CallsServe
<1>12. CopiesAgree'
  <2>1. ASSUME NEW e \in Entries PROVE CopyOf(e, Entries')
    BY <1>2, <1>3, <1>5, <1>6 DEF CopyOf, FInv, CopiesAgree, Serving
  <2>2. CopyOf(n, Entries')
    BY <1>2, <1>3, <1>5, <1>6 DEF CopyOf, Serving
  <2>3. n.msg.isGroupMessage => n.msg.chatId \in DOMAIN groups
    BY <1>2, <1>3, <1>4, <1>5 DEF Serving
  <2> QED
    BY <1>1, <1>2, <1>3, <2>1, <2>2, <2>3 DEF FInv, CopiesAgree
<1>13. AllServed'
  <2>1. ASSUME NEW e \in Entries', e.msg.isGroupMessage, e.msg.payload # f.payload
        PROVE  \/ \E j \in DOMAIN calls' : calls'[j].payload = e.msg.payload
               \/ Receivers(Entries', e.msg.payload) = groups'[e.msg.chatId].members
    <3>1. e \in Entries
      BY <1>2, <1>3, <2>1
    <3>2. CASE \E j \in DOMAIN calls : calls[j].payload = e.msg.payload
      BY <1>1, <2>1, <3>2 DEF OthersSame
    <3>3. CASE Receivers(Entries, e.msg.payload) = groups[e.msg.chatId].members
      BY <1>1, <1>7, <2>1, <3>3
    <3> QED
      BY <2>1, <3>1, <3>2, <3>3 DEF FInv, AllServed
  <2>2. ASSUME NEW e \in Entries', e.msg.isGroupMessage, e.msg.payload = f.payload
        PROVE  \E j \in DOMAIN calls' : calls'[j].payload = e.msg.payload
    <3>1. f.chat # NoChat
      <4>1. CASE e = n
        BY <1>2, <1>4, <2>2, <4>1
      <4>2. CASE e \in Entries
        <5>1. Receivers(Entries, f.payload) # {}
          BY <2>2, <4>2, ReceiverOf
        <5> QED
          BY <1>5, <5>1 DEF Serving
      <4> QED
        BY <1>2, <4>1, <4>2
    <3> QED
      BY <1>1, <1>10, <2>2, <3>1
  <2> QED
    BY <2>1, <2>2 DEF AllServed
<1> QED
  BY <1>11, <1>12, <1>13 DEF FInv

(* Every step keeps FInv.                                                  *)
LEMMA NextFInv == SInv /\ TInv /\ TInv' /\ FInv /\ [Next]_vars => FInv'
<1> SUFFICES ASSUME SInv, TInv, TInv', FInv, [Next]_vars PROVE FInv'
  OBVIOUS
<1>1. CASE Quiet
  <2>1. UNCHANGED <<calls, nextPayload>> /\ Entries' = Entries
    BY <1>1, EntriesSame DEF Quiet, sendVars
  <2> QED
    BY <1>1, <2>1, GrowFInv DEF Quiet
<1>2. CASE Restart
  BY <1>2 DEF Restart, EmptyMap, FInv, CallsServe, CopiesAgree, AllServed, Entries, Stored
<1>3. ASSUME NEW c \in Clients, NEW id, DeleteMessageForAll(c, id) PROVE FInv'
  <2>1. Entries' = Entries /\ UNCHANGED <<groups, calls, nextPayload>>
    BY <1>3, DeleteStep DEF sendVars
  <2> QED
    BY <2>1, GrowFInv
<1>4. ASSUME NEW k \in Callers, CallStep(k) PROVE FInv'
  BY <1>4, NextMemberFInv, TransportFInv, EndGroupSendFInv, StoreFInv DEF CallStep
<1> QED
  BY <1>1, <1>2, <1>3, <1>4, NextCases, BeginFInv

(* FInv holds at the start.                                                *)
LEMMA InitFInv == Init => FInv
  BY DEF Init, Fresh, Server!Init, EmptyMap, FInv, CallsServe, CopiesAgree, AllServed, Entries, Stored

(* FInv says more than FanoutExact.                                        *)
LEMMA FInvExact == FInv => FanoutExact
<1> SUFFICES ASSUME FInv, NEW e \in Entries, e.msg.isGroupMessage
             PROVE
       LET copies == {d.msg : d \in {x \in Entries : x.msg.payload = e.msg.payload}}
           running == {k \in DOMAIN calls : calls[k].payload = e.msg.payload}
           late == UNION {calls[k].left \cup
                            IF calls[k].msg = NoMessage THEN {} ELSE {calls[k].msg.receiver} :
                          k \in running}
       IN /\ \A m, n \in copies : m.receiver = n.receiver => m = n
          /\ \A m \in copies : m.chatId = e.msg.chatId /\ m.sender = e.msg.sender
          /\ {m.receiver : m \in copies} = groups[e.msg.chatId].members \ late
  BY DEF FanoutExact
<1> DEFINE copies == {d.msg : d \in {x \in Entries : x.msg.payload = e.msg.payload}}
           running == {k \in DOMAIN calls : calls[k].payload = e.msg.payload}
           late == UNION {Late(calls[k]) : k \in running}
<1>1. \A m \in copies : \E d \in Entries : d.msg = m /\ d.msg.payload = e.msg.payload
  OBVIOUS
<1>2. \A m, n \in copies : m.receiver = n.receiver => m = n
  BY <1>1 DEF FInv, CopiesAgree, CopyOf
<1>3. \A m \in copies : m.chatId = e.msg.chatId /\ m.sender = e.msg.sender
  BY <1>1 DEF FInv, CopiesAgree, CopyOf
<1>4. {m.receiver : m \in copies} = Receivers(Entries, e.msg.payload)
  BY DEF Receivers
<1>5. Receivers(Entries, e.msg.payload) = groups[e.msg.chatId].members \ late
  <2>1. CASE running = {}
    <3>1. late = {}
      BY <2>1
    <3> QED
      BY <2>1, <3>1 DEF FInv, AllServed
  <2>2. ASSUME NEW k \in running
        PROVE  Receivers(Entries, e.msg.payload) = groups[e.msg.chatId].members \ late
    <3>1. /\ k \in DOMAIN calls /\ calls[k].payload = e.msg.payload
          /\ Serving(calls[k], groups, Entries)
      BY <2>2 DEF FInv, CallsServe
    <3>2. running = {k}
      BY <3>1 DEF FInv, CallsServe
    <3>3. late = Late(calls[k])
      BY <3>2
    <3>4. e.msg.chatId = calls[k].chat
      BY <3>1 DEF Serving
    <3>5. calls[k].chat # NoChat
      <4>1. Receivers(Entries, calls[k].payload) # {}
        BY <3>1, ReceiverOf
      <4> QED
        BY <3>1, <4>1 DEF Serving
    <3> QED
      BY <3>1, <3>3, <3>4, <3>5 DEF Serving
  <2> QED
    BY <2>1, <2>2
<1> QED
  BY <1>2, <1>3, <1>4, <1>5 DEF Late

(* The copies of a group message go to exactly the members of the group,   *)
(* one each, and none is given twice or forgotten, however calls overlap   *)
(* and groups are created meanwhile.                                       *)
THEOREM FanoutCorrect == Spec => []FanoutExact
<1>1. Init => FInv
  BY InitFInv
<1>2. Inv /\ Inv' /\ FInv /\ [Next]_vars => FInv'
  BY NextFInv DEF Inv
<1>3. FInv => FanoutExact
  BY FInvExact
<1> QED
  BY <1>1, <1>2, <1>3, InvAlways, PTL DEF Spec

-----------------------------------------------------------------------------
(* Delivered is shown.  The handler that a send has copied belongs to a    *)
(* client that was logged in, and may have logged out since; it keeps the  *)
(* keys of its account, so that it opens what was sealed for the account.  *)

HandlersRegistered ==
  \A k \in DOMAIN sending : sending[k].handler \in Clients /\ registered[sending[k].handler]

(* Nobody is unregistered but by the end of the process. *)
LEMMA RegisteredStays ==
  ASSUME SInv, [Next]_vars, ~Restart
  PROVE  \A c \in Clients : registered[c] => registered'[c]
<1>1. CASE UNCHANGED vars
  BY <1>1 DEF vars, sessionVars
<1>2. ASSUME NEW c \in Clients, NEW p \in Passwords, NEW saving \in SaveOutcomes,
             Register(c, p, saving)
      PROVE  \A d \in Clients : registered[d] => registered'[d]
  BY <1>2 DEF Register, SInv, SessionTypes
<1>3. ASSUME NEW c \in Clients, NEW p \in Passwords, LogIn(c, p) \/ LogInFails(c, p)
      PROVE  \A d \in Clients : registered[d] => registered'[d]
  BY <1>3 DEF LogIn, LogInFails, SInv, SessionTypes
<1>4. ASSUME NEW c \in Clients, LogOut(c) PROVE UNCHANGED registered
  BY <1>4 DEF LogOut
<1>5. ASSUME NEW c \in Clients, NEW u \in Contacts, AddContact(c, u) \/ RemoveContact(c, u)
      PROVE  UNCHANGED registered
  BY <1>5 DEF AddContact, RemoveContact, aloneVars, sessionVars
<1>6. ASSUME NEW c \in Clients, NEW name \in GroupNames, NEW invited \in Invitations,
             CreateGroup(c, name, invited)
      PROVE  UNCHANGED registered
  BY <1>6 DEF CreateGroup, aloneVars, sessionVars
<1>7. ASSUME NEW c \in Clients, NEW id, DeleteMessageForAll(c, id) PROVE UNCHANGED registered
  BY <1>7, DeleteStep
<1>8. ASSUME NEW k \in Callers, NEW c \in Clients,
             (\E to \in Names : BeginSend(k, c, to))
               \/ (\E g \in DOMAIN groups : BeginGroupSend(k, c, g))
      PROVE  UNCHANGED registered
  BY <1>8 DEF BeginSend, BeginGroupSend, restVars, sessionVars
<1>9. ASSUME NEW k \in Callers, CallStep(k) PROVE UNCHANGED registered
  BY <1>9, CallFrame DEF sessionVars
<1> QED
  BY <1>1, <1>2, <1>3, <1>4, <1>5, <1>6, <1>7, <1>8, <1>9 DEF Next

(* Only finding the receiver puts a handler in the transport's hands. *)
LEMMA NextHandlers == SInv /\ TInv /\ HandlersRegistered /\ [Next]_vars => HandlersRegistered'
<1> SUFFICES ASSUME SInv, TInv, HandlersRegistered, [Next]_vars PROVE HandlersRegistered'
  OBVIOUS
<1>1. CASE Restart
  BY <1>1 DEF Restart, EmptyMap, HandlersRegistered
<1>2. CASE ~Restart
  <2>1. \A c \in Clients : registered[c] => registered'[c]
    BY <1>2, RegisteredStays
  <2>2. ASSUME sending' = sending PROVE HandlersRegistered'
    BY <2>1, <2>2 DEF HandlersRegistered
  <2>3. ASSUME NEW k \in Callers, FindReceiver(k) PROVE HandlersRegistered'
    <3>1. DOMAIN sending' = DOMAIN sending \cup {k} /\ registered[sending'[k].handler]
          /\ \A j \in DOMAIN sending : sending'[j] = sending[j]
      BY <2>3, FindReceiverStep
    <3>2. sending'[k].handler \in Clients
      <4>1. calls[k].msg.receiver \in DOMAIN handlers
        BY <2>3 DEF FindReceiver, Net!SendLookup, Net!Reaches, Net!IsOnline
      <4> DEFINE p == [to |-> calls[k].msg.receiver,
                       handler |-> handlers[calls[k].msg.receiver],
                       from |-> username[calls[k].client], payload |-> calls[k].msg]
      <4>2. k \notin DOMAIN sending /\ sending' = Net!Emplace(sending, k, p)
        BY <2>3 DEF FindReceiver, Net!SendLookup
      <4>3. p.handler \in Clients
        BY <4>1 DEF SInv, SessionTypes
      <4> HIDE DEF p
      <4> QED
        BY <4>2, <4>3 DEF Net!Emplace
    <3> QED
      BY <2>1, <3>1, <3>2 DEF HandlersRegistered
  <2>4. ASSUME NEW k \in Callers, HandOver(k) PROVE HandlersRegistered'
    BY <2>1, <2>4, HandOverStep DEF HandlersRegistered
  <2>5. CASE Quiet
    BY <2>2, <2>5 DEF Quiet
  <2>6. ASSUME NEW c \in Clients, NEW id, DeleteMessageForAll(c, id) PROVE sending' = sending
    BY <2>6, DeleteStep DEF netVars
  <2>7. ASSUME NEW k \in Callers,
               \/ \E c \in Clients, to \in Names : BeginSend(k, c, to)
               \/ \E c \in Clients, g \in DOMAIN groups : BeginGroupSend(k, c, g)
        PROVE  sending' = sending
    BY <2>7, BeginSendStep, BeginGroupSendStep DEF netVars
  <2>8. ASSUME NEW k \in Callers, CallStep(k), ~FindReceiver(k), ~HandOver(k)
        PROVE  sending' = sending
    BY <2>8, NextMemberStep, EndGroupSendStep, MissReceiverStep, StoreStep DEF CallStep, netVars
  <2> QED
    BY <1>2, <2>2, <2>3, <2>4, <2>5, <2>6, <2>7, <2>8, NextCases
<1> QED
  BY <1>1, <1>2

(* The notifications of a message, and what they should be. *)
EventLists == [Clients -> Seq(Event)]
Showing(id) == {x \in Event : x.messageId = id}
Shows(ev, id) == Places(ev, Showing(id))

ShownIn(ev, m) ==
  IF m.status = "Delivered" /\ Parses(m)
    THEN \E c \in Clients : \E i \in DOMAIN ev[c] :
           Shows(ev, m.messageId) = {<<c, i>>} /\ NameOf[c] = m.receiver
    ELSE Shows(ev, m.messageId) = {}

EInv ==
  /\ \A k \in DOMAIN calls : Carries(calls[k]) => ShownIn(events, calls[k].msg)
  /\ \A e \in Entries : ShownIn(events, e.msg)
  /\ \A c \in Clients : \A i \in DOMAIN events[c] : Old(events[c][i].messageId)

(* A notification adds one showing of its id, and none of any other.       *)
LEMMA PutShows ==
  ASSUME NEW ev \in EventLists, NEW c \in Clients, NEW x \in Event, NEW id
  PROVE  /\ x.messageId = id => Shows(Put(ev, c, x), id) = Shows(ev, id) \cup {<<c, Len(ev[c]) + 1>>}
         /\ x.messageId # id => Shows(Put(ev, c, x), id) = Shows(ev, id)
<1>1. ev \in [Clients -> Seq(Event)]
  BY DEF EventLists
<1>2. x \in Showing(id) <=> x.messageId = id
  BY DEF Showing
<1> QED
  BY <1>1, <1>2, PutPlaces DEF Shows

(* PutElement for the lists of events.                                     *)
LEMMA PutEvent ==
  ASSUME NEW ev \in EventLists, NEW c \in Clients, NEW x \in Event
  PROVE  /\ Len(ev[c]) + 1 \in DOMAIN Put(ev, c, x)[c]
         /\ Put(ev, c, x)[c][Len(ev[c]) + 1] = x
         /\ \A d \in Clients : \A i \in DOMAIN ev[d] :
              i \in DOMAIN Put(ev, c, x)[d] /\ Put(ev, c, x)[d][i] = ev[d][i]
         /\ \A d \in Clients : \A i \in DOMAIN Put(ev, c, x)[d] :
              i \in DOMAIN ev[d] \/ (d = c /\ i = Len(ev[c]) + 1)
<1>1. ev \in [Clients -> Seq(Event)]
  BY DEF EventLists
<1> QED
  BY <1>1, PutElement

(* A notification does not touch what is shown of another message.         *)
LEMMA ShownStays ==
  ASSUME NEW ev \in EventLists, NEW c \in Clients, NEW x \in Event, NEW m,
         ShownIn(ev, m), x.messageId # m.messageId
  PROVE  ShownIn(Put(ev, c, x), m)
<1> DEFINE new == Put(ev, c, x)
<1>1. Shows(new, m.messageId) = Shows(ev, m.messageId)
  BY PutShows
<1>2. \A d \in Clients : \A i \in DOMAIN ev[d] : i \in DOMAIN new[d]
  BY PutEvent
<1> HIDE DEF new
<1>3. ShownIn(new, m)
  BY <1>1, <1>2 DEF ShownIn
<1> QED
  BY <1>3 DEF new

(* What was not shown and not delivered is as it should be.                *)
LEMMA NotShown ==
  ASSUME NEW ev, NEW m, m.status = "Sent",
         \A c \in Clients : \A i \in DOMAIN ev[c] : ev[c][i].messageId # m.messageId
  PROVE  ShownIn(ev, m)
<1>1. Shows(ev, m.messageId) = {}
  BY NoPlaces DEF Shows, Showing
<1> QED
  BY <1>1 DEF ShownIn

(* A step of one call that notifies nobody. *)
LEMMA OneCallEInv ==
  ASSUME LInv, EInv, NEW k, OthersSame(k), events' = events,
         k \in DOMAIN calls' /\ Carries(calls'[k]) => ShownIn(events, calls'[k].msg),
         nextMessage' = nextMessage \/ nextMessage' = nextMessage + 1,
         \A e \in Entries' : e \in Entries \/ ShownIn(events, e.msg)
  PROVE  EInv'
<1>1. ASSUME NEW j \in DOMAIN calls', Carries(calls'[j]) PROVE ShownIn(events', calls'[j].msg)
  BY <1>1 DEF OthersSame, EInv
<1>2. \A c \in Clients : \A i \in DOMAIN events'[c] : Old(events[c][i].messageId)'
  BY DEF EInv, Old, LInv, CallIds
<1>3. \A e \in Entries' : ShownIn(events', e.msg)
  BY DEF EInv
<1> QED
  BY <1>1, <1>2, <1>3 DEF EInv, Carries

(* Nobody was shown the next id.                                           *)
LEMMA BuildEInv ==
  ASSUME TInv, LInv, EInv, NEW k \in Callers,
         \/ \E c \in Clients, to \in Names : BeginSend(k, c, to)
         \/ NextMember(k)
  PROVE  EInv'
<1>1. /\ OthersSame(k) /\ k \in DOMAIN calls'
      /\ calls'[k].msg.messageId = nextMessage /\ calls'[k].msg.status = "Sent"
      /\ nextMessage' = nextMessage + 1 /\ UNCHANGED <<serverVars, events>>
  BY BeginSendStep, NextMemberStep
<1>2. \A c \in Clients : \A i \in DOMAIN events[c] : events[c][i].messageId # nextMessage
  BY DEF EInv, Old, LInv, CallIds
<1>3. ShownIn(events, calls'[k].msg)
  BY <1>1, <1>2, NotShown
<1>4. Entries' = Entries
  BY <1>1, EntriesSame DEF serverVars, bookVars
<1> QED
  BY <1>1, <1>3, <1>4, OneCallEInv

(* The steps of a send that notify nobody keep EInv.                       *)
LEMMA MoveEInv ==
  ASSUME SInv, TInv, LInv, DInv, EInv, NEW k \in Callers,
         \/ \E c \in Clients, g \in DOMAIN groups : BeginGroupSend(k, c, g)
         \/ EndGroupSend(k) \/ FindReceiver(k) \/ MissReceiver(k) \/ Store(k)
  PROVE  EInv'
<1>1. CASE \E c \in Clients, g \in DOMAIN groups : BeginGroupSend(k, c, g)
  <2>1. /\ OthersSame(k) /\ calls'[k].pc = "build" /\ nextMessage' = nextMessage
        /\ UNCHANGED <<serverVars, events>>
    BY <1>1, BeginGroupSendStep
  <2>2. Entries' = Entries
    BY <2>1, EntriesSame DEF serverVars, bookVars
  <2> QED
    BY <2>1, <2>2, OneCallEInv DEF Carries
<1>2. CASE EndGroupSend(k)
  <2>1. /\ OthersSame(k) /\ k \notin DOMAIN calls' /\ nextMessage' = nextMessage
        /\ UNCHANGED <<serverVars, events>>
    BY <1>2, EndGroupSendStep
  <2>2. Entries' = Entries
    BY <2>1, EntriesSame DEF serverVars, bookVars
  <2> QED
    BY <2>1, <2>2, OneCallEInv
<1>3. CASE FindReceiver(k)
  <2>1. /\ OthersSame(k) /\ k \in DOMAIN calls /\ calls[k].pc = "send"
        /\ calls'[k].msg = calls[k].msg /\ nextMessage' = nextMessage
        /\ UNCHANGED <<serverVars, events>>
    BY <1>3, FindReceiverStep
  <2>2. Entries' = Entries
    BY <2>1, EntriesSame DEF serverVars, bookVars
  <2> QED
    BY <2>1, <2>2, OneCallEInv DEF EInv, Carries
<1>4. CASE MissReceiver(k)
  <2>1. /\ OthersSame(k) /\ k \in DOMAIN calls /\ calls[k].pc = "send"
        /\ calls'[k].msg.status = "Sent" /\ SameMessage(calls[k].msg, calls'[k].msg)
        /\ nextMessage' = nextMessage /\ UNCHANGED <<serverVars, events>>
    BY <1>4, MissReceiverStep
  <2>2. Entries' = Entries
    BY <2>1, EntriesSame DEF serverVars, bookVars
  <2>3. ShownIn(events, calls[k].msg) /\ calls[k].msg.status = "Sent"
    BY <2>1 DEF EInv, Carries, DInv, Moving
  <2>4. ShownIn(events, calls'[k].msg)
    BY <2>1, <2>3 DEF ShownIn, SameMessage
  <2> QED
    BY <2>1, <2>2, <2>4, OneCallEInv
<1>5. CASE Store(k)
  <2>1. /\ OthersSame(k) /\ k \in DOMAIN calls /\ calls[k].pc = "store"
        /\ k \in DOMAIN calls' => calls'[k].pc = "build"
        /\ nextMessage' = nextMessage /\ UNCHANGED events
    BY <1>5, StoreStep
  <2>2. PICK n : n.msg = calls[k].msg /\ Entries' = Entries \cup {n}
    BY <1>5, StoreStep
  <2>3. ShownIn(events, n.msg)
    BY <2>1, <2>2 DEF EInv, Carries
  <2> QED
    BY <2>1, <2>2, <2>3, OneCallEInv DEF Carries
<1> QED
  BY <1>1, <1>2, <1>3, <1>4, <1>5

(* The handler runs.  Its client opens the message, which was sealed for   *)
(* the key of its account; what cannot be parsed is dropped.               *)
LEMMA HandlerOpens ==
  ASSUME HInv, OwnKeys, DInv, HandlersRegistered, NEW k \in DOMAIN calls,
         calls[k].pc = "handing"
  PROVE  Opens(sending[k].handler, calls[k].msg)
<1> DEFINE c == sending[k].handler
           m == calls[k].msg
<1>1. c \in Clients /\ registered[c] /\ NameOf[c] = m.receiver
  BY DEF DInv, Moving, HandlersRegistered
<1>2. keyPair[c].priv = users[m.receiver].publicKeyPem
  BY <1>1 DEF OwnKeys
<1>3. Sealed(m)
  BY DEF HInv, CallsSealed, GoodFrame
<1> HIDE DEF m, c
<1>4. Opens(c, m)
  BY <1>1, <1>2, <1>3 DEF Opens, KeyToUse, Sealed
<1> QED
  BY <1>4 DEF m, c

(* The handler notifies once if it can parse the message, which it can     *)
(* always decrypt.                                                         *)
LEMMA HandOverEInv ==
  ASSUME TInv, LInv, DInv, HInv, OwnKeys, HandlersRegistered, EInv, NEW k \in Callers, HandOver(k)
  PROVE  EInv'
<1> DEFINE m == calls[k].msg
           n == calls'[k].msg
           c == sending[k].handler
           x == [from |-> sending[k].from, messageId |-> m.messageId]
<1>1. /\ OthersSame(k) /\ k \in DOMAIN calls /\ k \in DOMAIN calls' /\ calls[k].pc = "handing"
      /\ calls'[k].pc = "store" /\ SameMessage(m, n) /\ n.status = "Delivered"
      /\ k \in DOMAIN sending /\ sending[k] \in Net!PendingCall
      /\ UNCHANGED <<serverVars, nextMessage>>
  BY HandOverStep
<1>2. Moving(calls[k], k, sending, inbox)
  BY <1>1 DEF DInv
<1>3. sending[k].payload = m /\ NameOf[c] = m.receiver /\ m.status = "Sent"
  BY <1>1, <1>2 DEF Moving
<1>4. Opens(c, m)
  BY <1>1, HandlerOpens
<1>5. events' = IF Parses(m) THEN Put(events, c, x) ELSE events
  BY <1>3, <1>4 DEF HandOver, Put
<1>6. /\ m \in Message /\ Old(m.messageId)
      /\ c \in Clients /\ x \in Event /\ x.messageId = m.messageId /\ events \in EventLists
  BY <1>1 DEF TInv, CallTypes, FrameOK, Frame, RestTypes, EventLists, Event, Net!PendingCall,
              LInv, CallIds, Carries, Message
<1>7. Shows(events, m.messageId) = {}
  BY <1>1, <1>3 DEF EInv, Carries, ShownIn
<1>8. n.messageId = m.messageId /\ n.receiver = m.receiver /\ (Parses(n) <=> Parses(m))
  BY <1>1 DEF SameMessage, Parses
<1>9. Entries' = Entries
  BY <1>1, EntriesSame DEF serverVars, bookVars
<1> HIDE DEF m, n, c, x
<1>10. CASE ~Parses(m)
  <2>1. ShownIn(events, n)
    BY <1>7, <1>8, <1>10 DEF ShownIn
  <2> QED
    BY <1>1, <1>5, <1>9, <1>10, <2>1, OneCallEInv DEF n
<1>11. CASE Parses(m)
  <2>1. events' = Put(events, c, x)
    BY <1>5, <1>11
  <2>2. ShownIn(events', n)
    <3>1. Shows(events', m.messageId) = {<<c, Len(events[c]) + 1>>}
      BY <1>6, <1>7, <2>1, PutShows
    <3>2. Len(events[c]) + 1 \in DOMAIN events'[c]
      BY <1>6, <2>1, PutEvent
    <3> QED
      BY <1>1, <1>3, <1>6, <1>8, <1>11, <3>1, <3>2 DEF ShownIn
  <2>3. ASSUME NEW j \in DOMAIN calls', Carries(calls'[j]) PROVE ShownIn(events', calls'[j].msg)
    <3>1. CASE j = k
      BY <2>2, <3>1 DEF n
    <3>2. CASE j # k
      <4>1. j \in DOMAIN calls /\ calls'[j] = calls[j]
        BY <1>1, <2>3, <3>2 DEF OthersSame
      <4>2. calls[j].msg.messageId # m.messageId
        BY <1>1, <2>3, <3>2, <4>1 DEF LInv, CallIds, Carries, m
      <4> QED
        BY <1>6, <2>1, <2>3, <4>1, <4>2, ShownStays DEF EInv
    <3> QED
      BY <3>1, <3>2
  <2>4. ASSUME NEW e \in Entries PROVE ShownIn(events', e.msg)
    <3>1. e.msg.messageId # m.messageId
      BY <1>1 DEF LInv, Apart, Carries, m
    <3> QED
      BY <1>6, <2>1, <3>1, ShownStays DEF EInv
  <2>5. ASSUME NEW d \in Clients, NEW i \in DOMAIN events'[d] PROVE Old(events[d][i].messageId)'
    <3>1. \/ i \in DOMAIN events[d] /\ events'[d][i] = events[d][i]
          \/ events'[d][i] = x
      BY <1>6, <2>1, PutEvent
    <3> QED
      BY <1>1, <1>6, <3>1 DEF EInv, Old
  <2> QED
    BY <1>9, <2>3, <2>4, <2>5 DEF EInv, Carries
<1> QED
  BY <1>10, <1>11

(* Every step keeps EInv.                                                  *)
LEMMA NextEInv ==
  SInv /\ TInv /\ LInv /\ DInv /\ HInv /\ OwnKeys /\ HandlersRegistered /\ EInv /\ [Next]_vars
    => EInv'
<1> SUFFICES ASSUME SInv, TInv, LInv, DInv, HInv, OwnKeys, HandlersRegistered, EInv, [Next]_vars
             PROVE  EInv'
  OBVIOUS
<1>1. ASSUME UNCHANGED sendVars, Entries' = Entries PROVE EInv'
  BY <1>1 DEF sendVars, EInv, Old, Carries
<1>2. CASE Quiet
  BY <1>1, <1>2, EntriesSame DEF Quiet
<1>3. CASE Restart
  BY <1>3 DEF Restart, EmptyMap, EInv, Entries, Stored
<1>4. ASSUME NEW c \in Clients, NEW id, DeleteMessageForAll(c, id) PROVE EInv'
  BY <1>1, <1>4, DeleteStep
<1>5. ASSUME NEW k \in Callers, CallStep(k) PROVE EInv'
  BY <1>5, BuildEInv, MoveEInv, HandOverEInv DEF CallStep
<1> QED
  BY <1>2, <1>3, <1>4, <1>5, NextCases, BuildEInv, MoveEInv

(* EInv says more than DeliveredShown.                                     *)
LEMMA EInvShown == TInv /\ EInv => DeliveredShown
<1> SUFFICES ASSUME TInv, EInv, NEW m \in MessagesSent
             PROVE
    LET shown == {c \in Clients : \E i \in DOMAIN events[c] :
                                   events[c][i].messageId = m.messageId} IN
    IF m.status = "Delivered" /\ Parses(m)
      THEN \E c \in Clients :
             /\ shown = {c} /\ NameOf[c] = m.receiver
             /\ Cardinality({i \in DOMAIN events[c] : events[c][i].messageId = m.messageId}) = 1
      ELSE shown = {}
  BY DEF DeliveredShown
<1> DEFINE shown == {c \in Clients : \E i \in DOMAIN events[c] :
                                      events[c][i].messageId = m.messageId}
<1>1. ShownIn(events, m)
  BY DEF EInv, MessagesSent
<1>2. ASSUME NEW c \in Clients, NEW i
      PROVE  <<c, i>> \in Shows(events, m.messageId) <=>
               i \in DOMAIN events[c] /\ events[c][i].messageId = m.messageId
  <2>1. \A j \in DOMAIN events[c] : events[c][j] \in Event
    BY DEF TInv, RestTypes
  <2> QED
    BY <2>1, PlacesOf DEF Shows, Showing
<1>3. CASE m.status = "Delivered" /\ Parses(m)
  <2>1. PICK c \in Clients : \E i \in DOMAIN events[c] :
          Shows(events, m.messageId) = {<<c, i>>} /\ NameOf[c] = m.receiver
    BY <1>1, <1>3 DEF ShownIn
  <2>2. PICK i \in DOMAIN events[c] : Shows(events, m.messageId) = {<<c, i>>}
    BY <2>1
  <2>3. \A d \in Clients : \A j : <<d, j>> = <<c, i>> <=>
          j \in DOMAIN events[d] /\ events[d][j].messageId = m.messageId
    BY <1>2, <2>2
  <2>4. shown = {c}
    BY <2>3
  <2>5. {j \in DOMAIN events[c] : events[c][j].messageId = m.messageId} = {i}
    BY <2>3
  <2>6. Cardinality({j \in DOMAIN events[c] : events[c][j].messageId = m.messageId}) = 1
    BY <2>5, FS_Singleton
  <2> QED
    BY <1>3, <2>1, <2>4, <2>6
<1>4. CASE ~(m.status = "Delivered" /\ Parses(m))
  <2>1. Shows(events, m.messageId) = {}
    BY <1>1, <1>4 DEF ShownIn
  <2>2. shown = {}
    BY <1>2, <2>1
  <2> QED
    BY <1>4, <2>2
<1> QED
  BY <1>3, <1>4

(* When the key files are saved, a message with the status Delivered that  *)
(* can be parsed was shown to the observers of one client of its receiver, *)
(* once, and any other message to nobody's, whatever logs in, logs out or  *)
(* is sent while the handler is being called.                              *)
THEOREM ShownCorrect == ASSUME Saves PROVE Spec => []DeliveredShown
<1> DEFINE All == Inv /\ KInv /\ HInv /\ HandlersRegistered /\ EInv
<1>1. Init => All
  <2>1. Init => HInv /\ KInv /\ Inv
    BY InitInv, InitKInv, FreshHInv DEF Init
  <2>2. Init => HandlersRegistered /\ EInv
    BY DEF Init, Fresh, Server!Init, Net!Init, Net!EmptyMap, EmptyMap, HandlersRegistered, EInv,
           Entries, Stored
  <2> QED
    BY <2>1, <2>2
<1>2. All /\ [Next]_vars => All'
  BY NextInv, NextKInv, NextHInv, NextHandlers, NextEInv DEF Inv, KInv
<1>3. All => DeliveredShown
  BY EInvShown DEF Inv
<1> QED
  BY <1>1, <1>2, <1>3, PTL DEF Spec

=============================================================================
