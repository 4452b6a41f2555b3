---------------------------- MODULE WindowProofs ----------------------------
(***************************************************************************)
(* What both windows rest on: the ascending list of a set of numbers, the  *)
(* conversations that it selects from the history, and what a call on a    *)
(* client does to the state that WindowBase declares.                      *)
(***************************************************************************)
EXTENDS WindowBase, TLAPS, FiniteSetTheorems, SequenceTheorems

(* The place that a number of S has in its ascending list.                 *)
Rank(S, x) == Cardinality({y \in S : y <= x})

(* The ranks are numbers up to the size of S and grow with the elements.   *)
LEMMA RankFacts ==
  ASSUME NEW S \in SUBSET Nat, IsFiniteSet(S)
  PROVE  /\ Cardinality(S) \in Nat
         /\ \A x \in S : Rank(S, x) \in 1 .. Cardinality(S)
         /\ \A x, y \in S : x < y => Rank(S, x) < Rank(S, y)
<1>1. Cardinality(S) \in Nat
  BY FS_CardinalityType
<1>2. ASSUME NEW x \in S PROVE Rank(S, x) \in 1 .. Cardinality(S)
  <2> DEFINE U == {y \in S : y <= x}
  <2>1. U \in SUBSET S /\ x \in U
    OBVIOUS
  <2>2. IsFiniteSet(U) /\ Cardinality(U) <= Cardinality(S)
    BY <2>1, FS_Subset
  <2>3. Cardinality(U) \in Nat /\ Cardinality(U) # 0
    BY <2>1, <2>2, FS_CardinalityType, FS_EmptySet
  <2> QED BY <1>1, <2>2, <2>3 DEF Rank
<1>3. ASSUME NEW x \in S, NEW y \in S, x < y PROVE Rank(S, x) < Rank(S, y)
  <2> DEFINE U == {z \in S : z <= x}
             V == {z \in S : z <= y}
  <2>0. x \in Nat /\ y \in Nat
    OBVIOUS
  <2>4. \A z \in S : z \in Nat /\ (z <= x => z <= y)
    BY <1>3, <2>0
  <2>1. U \in SUBSET V /\ y \in V /\ y \notin U /\ V \in SUBSET S
    <3>1. U \in SUBSET V
      BY <2>4
    <3>2. y \in V /\ y \notin U
      BY <1>3, <2>0
    <3> QED BY <3>1, <3>2
  <2>2. IsFiniteSet(V)
    BY <2>1, FS_Subset
  <2>3. IsFiniteSet(U) /\ Cardinality(U) <= Cardinality(V) /\ Cardinality(U) # Cardinality(V)
    BY <2>1, <2>2, FS_Subset
  <2>5. Cardinality(U) \in Nat /\ Cardinality(V) \in Nat
    BY <2>2, <2>3, FS_CardinalityType
  <2> QED BY <2>3, <2>5 DEF Rank
<1> QED BY <1>1, <1>2, <1>3

(* Each number up to the size of S is the rank of one element.             *)
LEMMA RankReached ==
  ASSUME NEW S \in SUBSET Nat, IsFiniteSet(S), NEW i \in 1 .. Cardinality(S)
  PROVE  \E x \in S : Rank(S, x) = i
<1> DEFINE T == 1 .. Cardinality(S)
           f == [x \in S |-> Rank(S, x)]
<1>1. Cardinality(S) \in Nat
  BY RankFacts
<1>2. f \in [S -> T]
  BY RankFacts
<1>3. ASSUME NEW x \in S, NEW y \in S, f[x] = f[y] PROVE x = y
  <2>1. Rank(S, x) = Rank(S, y) /\ Rank(S, x) \in Nat
    BY <1>3, RankFacts
  <2>2. ~ (x < y) /\ ~ (y < x)
    BY <2>1, RankFacts
  <2>3. x \in Nat /\ y \in Nat
    OBVIOUS
  <2> QED BY <2>2, <2>3
<1>4. f \in Injection(S, T)
  BY <1>2, <1>3, Zenon DEF Injection, IsInjective
<1>5. IsFiniteSet(T) /\ Cardinality(T) = Cardinality(S)
  BY <1>1, FS_Interval
<1>6. f \in Surjection(S, T)
  BY <1>4, <1>5, FS_Injection
<1> QED BY <1>6 DEF Surjection

(* Ascending lists S, each element once and the least first.               *)
LEMMA AscendingFacts ==
  ASSUME NEW S \in SUBSET Nat, IsFiniteSet(S)
  PROVE  /\ Cardinality(S) \in Nat
         /\ Ascending(S) \in [1 .. Cardinality(S) -> S]
         /\ Ascending(S) \in Seq(S)
         /\ Len(Ascending(S)) = Cardinality(S)
         /\ \A i \in 1 .. Cardinality(S) : Rank(S, Ascending(S)[i]) = i
         /\ \A x \in S : \E i \in 1 .. Cardinality(S) : Ascending(S)[i] = x
         /\ \A i, j \in 1 .. Cardinality(S) : i < j => Ascending(S)[i] < Ascending(S)[j]
<1> DEFINE n == Cardinality(S)
           A == Ascending(S)
<1>1. n \in Nat
  BY RankFacts
<1>2. ASSUME NEW i \in 1 .. n PROVE A[i] \in S /\ Rank(S, A[i]) = i
  <2>1. A[i] = CHOOSE x \in S : Rank(S, x) = i
    BY DEF Ascending, Rank
  <2> QED BY <2>1, RankReached
<1>3. A \in [1 .. n -> S]
  BY <1>2 DEF Ascending
<1>4. A \in Seq(S) /\ Len(A) = n
  BY <1>1, <1>3, SeqDef
<1>5. ASSUME NEW x \in S, NEW y \in S, Rank(S, x) = Rank(S, y) PROVE x = y
  <2>1. ~ (x < y) /\ ~ (y < x)
    BY <1>5, RankFacts
  <2> QED BY <2>1
<1>6. ASSUME NEW x \in S PROVE \E i \in 1 .. n : A[i] = x
  <2>1. Rank(S, x) \in 1 .. n
    BY RankFacts
  <2> QED BY <2>1, <1>2, <1>5
<1>7. ASSUME NEW i \in 1 .. n, NEW j \in 1 .. n, i < j PROVE A[i] < A[j]
  <2>1. PICK x \in S : x = A[i] /\ Rank(S, x) = i
    BY <1>2
  <2>2. PICK y \in S : y = A[j] /\ Rank(S, y) = j
    BY <1>2
  <2>3. x \in Nat /\ y \in Nat /\ i \in Nat /\ j \in Nat
    BY <1>1
  <2>4. y < x => j < i
    BY <2>1, <2>2, RankFacts
  <2>5. x # y
    BY <1>7, <2>1, <2>2, <2>3
  <2>6. x < y
    BY <1>7, <2>3, <2>4, <2>5
  <2> QED BY <2>1, <2>2, <2>6
<1> QED BY <1>1, <1>2, <1>3, <1>4, <1>6, <1>7

(* The list of the elements up to n of a set begins the list of the set.   *)
LEMMA AscendingPrefix ==
  ASSUME NEW S \in SUBSET Nat, IsFiniteSet(S), NEW n \in Nat
  PROVE  LET L == {k \in S : k <= n} IN
         /\ IsFiniteSet(L)
         /\ Cardinality(L) \in Nat
         /\ Cardinality(L) <= Cardinality(S)
         /\ \A i \in 1 .. Cardinality(L) : Ascending(S)[i] = Ascending(L)[i]
<1> DEFINE L == {k \in S : k <= n}
<1>1. L \in SUBSET S /\ L \in SUBSET Nat
  OBVIOUS
<1>2. IsFiniteSet(L) /\ Cardinality(L) <= Cardinality(S)
  BY <1>1, FS_Subset
<1>3. Cardinality(L) \in Nat /\ Cardinality(S) \in Nat
  BY <1>2, FS_CardinalityType
<1>4. ASSUME NEW i \in 1 .. Cardinality(L) PROVE Ascending(S)[i] = Ascending(L)[i]
  <2>1. PICK x \in L : x = Ascending(L)[i] /\ Rank(L, x) = i
    BY <1>1, <1>2, AscendingFacts
  <2>2. i \in 1 .. Cardinality(S)
    BY <1>2, <1>3
  <2>3. PICK y \in S : y = Ascending(S)[i] /\ Rank(S, y) = i
    BY <2>2, AscendingFacts
  <2>4. {z \in L : z <= x} = {z \in S : z <= x}
    <3>1. x \in Nat /\ x <= n
      OBVIOUS
    <3>2. \A z \in S : z \in Nat /\ (z <= x => z <= n)
      BY <3>1
    <3> QED BY <3>2
  <2>5. x \in S /\ Rank(S, x) = i
    BY <2>1, <2>4 DEF Rank
  <2>6. x \in Nat /\ y \in Nat /\ ~ (x < y) /\ ~ (y < x)
    BY <2>3, <2>5, RankFacts
  <2> QED BY <2>1, <2>3, <2>6
<1> QED BY <1>2, <1>3, <1>4

(* AtPlaces returns entries of the sequence, one for each of the places.   *)
LEMMA AtPlacesFacts ==
  ASSUME NEW T, NEW s \in Seq(T), NEW S \in SUBSET DOMAIN s
  PROVE  /\ IsFiniteSet(S)
         /\ S \in SUBSET Nat
         /\ Cardinality(S) \in Nat
         /\ AtPlaces(s, S) \in Seq(T)
         /\ Len(AtPlaces(s, S)) = Cardinality(S)
         /\ DOMAIN AtPlaces(s, S) = 1 .. Cardinality(S)
         /\ \A i \in 1 .. Cardinality(S) : /\ Ascending(S)[i] \in S
                                           /\ AtPlaces(s, S)[i] = s[Ascending(S)[i]]
         /\ \A k \in S : \E i \in 1 .. Cardinality(S) : /\ Ascending(S)[i] = k
                                                        /\ AtPlaces(s, S)[i] = s[k]
<1>1. DOMAIN s = 1 .. Len(s) /\ Len(s) \in Nat
  BY LenProperties
<1>2. IsFiniteSet(S) /\ S \in SUBSET Nat
  <2>1. IsFiniteSet(1 .. Len(s)) /\ S \in SUBSET (1 .. Len(s))
    BY <1>1, FS_Interval
  <2> QED BY <1>1, <2>1, FS_Subset
<1>3. Cardinality(S) \in Nat /\ \A i \in 1 .. Cardinality(S) : Ascending(S)[i] \in S
  BY <1>2, AscendingFacts
<1>4. \A i \in 1 .. Cardinality(S) : AtPlaces(s, S)[i] = s[Ascending(S)[i]]
  BY DEF AtPlaces
<1>5. \A k \in S : s[k] \in T
  BY <1>1, ElementOfSeq
<1>6. AtPlaces(s, S) \in [1 .. Cardinality(S) -> T]
  BY <1>3, <1>5 DEF AtPlaces
<1>7. AtPlaces(s, S) \in Seq(T) /\ Len(AtPlaces(s, S)) = Cardinality(S)
  BY <1>3, <1>6, SeqDef
<1>8. \A k \in S : \E i \in 1 .. Cardinality(S) : Ascending(S)[i] = k
  BY <1>2, AscendingFacts
<1> QED BY <1>2, <1>3, <1>4, <1>6, <1>7, <1>8

(* What is appended to a sequence follows what AtPlaces returned before.   *)
LEMMA AtPlacesGrow ==
  ASSUME NEW T, NEW s \in Seq(T), NEW t \in Seq(T), NEW P \in SUBSET DOMAIN (s \o t),
         NEW L, L = {k \in P : k <= Len(s)}
  PROVE  /\ L \in SUBSET DOMAIN s
         /\ Cardinality(L) <= Cardinality(P)
         /\ \A i \in 1 .. Cardinality(L) : AtPlaces(s \o t, P)[i] = AtPlaces(s, L)[i]
<1>1. s \o t \in Seq(T) /\ Len(s) \in Nat /\ DOMAIN s = 1 .. Len(s)
  BY ConcatProperties, LenProperties
<1>2. IsFiniteSet(P) /\ P \in SUBSET Nat
  <2> DEFINE u == s \o t
  <2>1. u \in Seq(T) /\ P \in SUBSET DOMAIN u
    BY <1>1
  <2> HIDE DEF u
  <2> QED BY <2>1, AtPlacesFacts
<1>3. DOMAIN (s \o t) = 1 .. (Len(s) + Len(t))
  BY <1>1, ConcatProperties, LenProperties
<1>4. L \in SUBSET DOMAIN s
  BY <1>1, <1>3
<1>5. /\ Cardinality(L) \in Nat
      /\ Cardinality(P) \in Nat
      /\ Cardinality(L) <= Cardinality(P)
      /\ \A i \in 1 .. Cardinality(L) : Ascending(P)[i] = Ascending(L)[i]
  BY <1>1, <1>2, AscendingPrefix, FS_CardinalityType
<1>6. ASSUME NEW i \in 1 .. Cardinality(L) PROVE AtPlaces(s \o t, P)[i] = AtPlaces(s, L)[i]
  <2> DEFINE a == Ascending(L)
             r == AtPlaces(s, L)
  <2>0. a[i] \in L /\ r[i] = s[a[i]]
    BY <1>4, AtPlacesFacts
  <2> HIDE DEF a, r
  <2>1. PICK k \in L : k = Ascending(L)[i] /\ AtPlaces(s, L)[i] = s[k]
    BY <2>0 DEF a, r
  <2>2. i \in 1 .. Cardinality(P)
    BY <1>5
  <2>3. AtPlaces(s \o t, P)[i] = (s \o t)[k]
    BY <1>5, <2>1, <2>2 DEF AtPlaces
  <2>4. (s \o t)[k] = s[k]
    BY <1>1, <1>4, ConcatProperties, LenProperties
  <2> QED BY <2>1, <2>3, <2>4
<1> QED BY <1>4, <1>5, <1>6

-----------------------------------------------------------------------------
(* The state of the server and of the clients has its type, and is within  *)
(* the bounds that the actions keep.                                       *)
ServerOK ==
  /\ users \subseteq Names
  /\ contacts \in [Names -> SUBSET users]
  /\ groups \in Seq(SUBSET users) /\ Len(groups) <= MaxGroups
  /\ stored \in Seq(Messages)
  /\ sent \in Seq(users) /\ Len(sent) <= MaxSends
  /\ deleted \subseteq Messages
  /\ current \in users \cup {Nobody}
  /\ watches \in [Names -> Nat]

(* The contacts and the groups of a user, as chats.                        *)
OwnChats(u) ==
  {Direct(v) : v \in contacts[u]} \cup
  {Group(g) : g \in {h \in DOMAIN groups : u \in groups[h]}}

(* The list of the chats of a user holds them all and nothing else.        *)
ChatListsRight ==
  \A u \in Names : /\ OwnChats(u) \subseteq Chats
                   /\ ChatList(u) \in Seq(Chats)
                   /\ Range(ChatList(u)) = OwnChats(u)

(* The two halves of the list are the contacts and the groups.             *)
LEMMA ChatListFacts == ServerOK => ChatListsRight
<1> SUFFICES ASSUME ServerOK, NEW u \in Names
             PROVE  /\ OwnChats(u) \subseteq Chats
                    /\ ChatList(u) \in Seq(Chats)
                    /\ Range(ChatList(u)) = OwnChats(u)
  BY DEF ChatListsRight
<1> DEFINE C == contacts[u]
           G == {h \in DOMAIN groups : u \in groups[h]}
           s == [i \in DOMAIN ListContacts(u) |-> Direct(ListContacts(u)[i])]
           t == [i \in DOMAIN ListGroups(u) |-> Group(ListGroups(u)[i])]
<1>1. C \in SUBSET Names /\ IsFiniteSet(C) /\ C \in SUBSET Nat
  <2>1. C \in SUBSET Names
    BY DEF ServerOK
  <2> QED BY <2>1, NamesAssumption, FS_Subset
<1>2. G \in SUBSET (1 .. MaxGroups) /\ IsFiniteSet(G) /\ G \in SUBSET Nat
  <2>1. DOMAIN groups = 1 .. Len(groups) /\ Len(groups) \in Nat /\ Len(groups) <= MaxGroups
    BY LenProperties DEF ServerOK
  <2>2. MaxGroups \in Nat
    BY BoundsAssumption
  <2>3. G \in SUBSET (1 .. MaxGroups)
    BY <2>1, <2>2
  <2>4. IsFiniteSet(1 .. MaxGroups)
    BY <2>2, FS_Interval
  <2>5. IsFiniteSet(G)
    BY <2>3, <2>4, FS_Subset
  <2> QED BY <2>2, <2>3, <2>5
<1>3. OwnChats(u) \subseteq Chats
  BY <1>1, <1>2 DEF OwnChats, Chats
<1>4. /\ s \in Seq(Chats)
      /\ \A c : (\E i \in DOMAIN s : s[i] = c) <=> c \in {Direct(v) : v \in C}
  <2> HIDE DEF C
  <2> DEFINE A == Ascending(C)
             n == Cardinality(C)
  <2>1. /\ A \in Seq(C) /\ n \in Nat /\ DOMAIN A = 1 .. n
        /\ \A i \in 1 .. n : A[i] \in C
        /\ \A x \in C : \E i \in 1 .. n : A[i] = x
    BY <1>1, AscendingFacts
  <2>2. s = [i \in 1 .. n |-> Direct(A[i])]
    BY <2>1 DEF ListContacts, C
  <2>3. \A v \in C : Direct(v) \in Chats
    BY <1>1 DEF Chats
  <2>4. s \in [1 .. n -> Chats]
    BY <2>1, <2>2, <2>3
  <2> HIDE DEF A, n, s
  <2>5. s \in Seq(Chats)
    BY <2>1, <2>4, SeqDef
  <2> QED BY <2>1, <2>2, <2>5
<1>5. /\ t \in Seq(Chats)
      /\ \A c : (\E i \in DOMAIN t : t[i] = c) <=> c \in {Group(g) : g \in G}
  <2> HIDE DEF G
  <2> DEFINE A == Ascending(G)
             n == Cardinality(G)
  <2>1. /\ A \in Seq(G) /\ n \in Nat /\ DOMAIN A = 1 .. n
        /\ \A i \in 1 .. n : A[i] \in G
        /\ \A x \in G : \E i \in 1 .. n : A[i] = x
    BY <1>2, AscendingFacts
  <2>2. t = [i \in 1 .. n |-> Group(A[i])]
    BY <2>1 DEF ListGroups, G
  <2>3. \A g \in G : Group(g) \in Chats
    BY <1>2 DEF Chats
  <2>4. t \in [1 .. n -> Chats]
    BY <2>1, <2>2, <2>3
  <2> HIDE DEF A, n, t
  <2>5. t \in Seq(Chats)
    BY <2>1, <2>4, SeqDef
  <2> QED BY <2>1, <2>2, <2>5
<1>6. ChatList(u) = s \o t
  BY DEF ChatList
<1>7. ChatList(u) \in Seq(Chats) /\ Range(ChatList(u)) = Range(s) \cup Range(t)
  BY <1>4, <1>5, <1>6, RangeConcatenation, ConcatProperties
<1>8. Range(s) = {Direct(v) : v \in C} /\ Range(t) = {Group(g) : g \in G}
  <2> HIDE DEF s, t, C, G
  <2>1. Range(s) = {s[i] : i \in DOMAIN s} /\ Range(t) = {t[i] : i \in DOMAIN t}
    BY DEF Range
  <2>2. Range(s) = {Direct(v) : v \in C}
    BY ONLY <1>4, <2>1
  <2>3. Range(t) = {Group(g) : g \in G}
    BY ONLY <1>5, <2>1
  <2> QED BY <2>2, <2>3
<1> QED BY <1>3, <1>7, <1>8 DEF OwnChats

(* The same of the state after a step.                                     *)
LEMMA ChatListNext == ServerOK' => ChatListsRight'
<1>1. (ServerOK => ChatListsRight)'
  BY ChatListFacts, PTL
<1> QED BY <1>1

(* The open chat, if there is one, is one of the user who is logged in.    *)
OpenOwn == current # Nobody /\ selected # NoChat => selected \in OwnChats(current)

(* The receivers of a send, each one once.                                 *)
Receivers(chat) == IF chat.kind = "direct" THEN <<chat.id>> ELSE Ascending(groups[chat.id])

(* Nobody is served twice, and a direct message goes to one user.          *)
LEMMA ReceiversFacts ==
  ASSUME ServerOK, current # Nobody, NEW chat \in OwnChats(current)
  PROVE  /\ Receivers(chat) \in Seq(Names)
         /\ DOMAIN Receivers(chat) = 1 .. Len(Receivers(chat))
         /\ Len(Receivers(chat)) \in 0 .. Cardinality(Names)
         /\ \A i, j \in 1 .. Len(Receivers(chat)) :
              Receivers(chat)[i] = Receivers(chat)[j] => i = j
         /\ chat.kind = "direct" => Len(Receivers(chat)) = 1
<1>1. IsFiniteSet(Names) /\ Cardinality(Names) \in Nat /\ Names \in SUBSET Nat
  BY NamesAssumption, FS_CardinalityType
<1>2. CASE chat.kind = "direct"
  <2>1. Receivers(chat) = <<chat.id>>
    BY <1>2 DEF Receivers
  <2>2. PICK v \in Names : chat.id = v
    <3>1. contacts[current] \subseteq Names
      BY DEF ServerOK
    <3> QED BY <1>2, <3>1 DEF OwnChats, Direct, Group
  <2>3. Cardinality(Names) # 0
    BY <1>1, <2>2, FS_EmptySet
  <2> QED BY <1>1, <2>1, <2>2, <2>3
<1>3. CASE chat.kind # "direct"
  <2> DEFINE M == groups[chat.id]
  <2>1. Receivers(chat) = Ascending(M)
    BY <1>3 DEF Receivers
  <2>2. M \in SUBSET Names
    <3>1. chat.id \in DOMAIN groups
      BY <1>3 DEF OwnChats, Direct, Group
    <3>2. groups[chat.id] \in SUBSET users
      BY <3>1, ElementOfSeq, LenProperties DEF ServerOK
    <3> QED BY <3>2 DEF ServerOK
  <2>3. IsFiniteSet(M) /\ M \in SUBSET Nat /\ Cardinality(M) <= Cardinality(Names)
    BY <1>1, <2>2, FS_Subset
  <2> HIDE DEF M
  <2>4. /\ Cardinality(M) \in Nat
        /\ Ascending(M) \in Seq(M)
        /\ Len(Ascending(M)) = Cardinality(M)
        /\ Ascending(M) \in [1 .. Cardinality(M) -> M]
        /\ \A i, j \in 1 .. Cardinality(M) : i < j => Ascending(M)[i] < Ascending(M)[j]
    BY <2>3, AscendingFacts
  <2>5. Ascending(M) \in Seq(Names)
    BY <2>2, <2>4, SeqMonotonic
  <2>6. ASSUME NEW i \in 1 .. Cardinality(M), NEW j \in 1 .. Cardinality(M),
               Ascending(M)[i] = Ascending(M)[j]
        PROVE  i = j
    <3>1. PICK x \in Nat : x = Ascending(M)[i]
      BY <2>3, <2>4
    <3>2. ~ (x < x)
      OBVIOUS
    <3>3. ~ (i < j) /\ ~ (j < i)
      BY <2>4, <2>6, <3>1, <3>2
    <3> QED BY <2>4, <3>3
  <2> QED BY <1>1, <1>3, <2>1, <2>3, <2>4, <2>5, <2>6
<1> QED BY <1>2, <1>3

(* A send makes one message for each receiver, with a new payload and ids  *)
(* that were never used, and they are messages within the bounds.          *)
LEMMA CopiesFacts ==
  ASSUME ServerOK, current # Nobody, NEW chat \in OwnChats(current), Len(sent) < MaxSends
  PROVE  /\ Copies(current, chat) \in Seq(Messages)
         /\ Len(Copies(current, chat)) = Len(Receivers(chat))
         /\ \A i \in 1 .. Len(Receivers(chat)) :
              Copies(current, chat)[i] =
                [id |-> Len(sent) * Cardinality(Names) + i, from |-> current,
                 to |-> Receivers(chat)[i],
                 chat |-> IF chat.kind = "direct" THEN NoChat ELSE chat,
                 payload |-> Len(sent) + 1]
<1> DEFINE to == Receivers(chat)
           c == Copies(current, chat)
           msg(i) == [id |-> Len(sent) * Cardinality(Names) + i, from |-> current,
                      to |-> to[i],
                      chat |-> IF chat.kind = "direct" THEN NoChat ELSE chat,
                      payload |-> Len(sent) + 1]
<1>1. /\ to \in Seq(Names)
      /\ DOMAIN to = 1 .. Len(to)
      /\ Len(to) \in Nat
      /\ Len(to) <= Cardinality(Names)
  BY ReceiversFacts, NamesAssumption, FS_CardinalityType
<1>2. c = [i \in 1 .. Len(to) |-> msg(i)]
  BY <1>1 DEF Copies, Receivers
<1>3. ASSUME NEW i \in 1 .. Len(to) PROVE msg(i) \in Messages
  <2>1. current \in Names
    BY DEF ServerOK
  <2>2. to[i] \in Names
    BY <1>1, ElementOfSeq
  <2>3. (IF chat.kind = "direct" THEN NoChat ELSE chat) \in Chats \cup {NoChat}
    BY <2>1, ChatListFacts DEF ChatListsRight
  <2>4. Len(sent) \in Nat /\ Len(sent) + 1 \in 1 .. MaxSends
    <3>1. Len(sent) \in Nat
      BY LenProperties DEF ServerOK
    <3> QED BY <3>1, BoundsAssumption
  <2>5. Len(sent) * Cardinality(Names) + i \in Ids
    <3> DEFINE k == Len(sent)
               n == Cardinality(Names)
    <3>1. k \in Nat /\ n \in Nat /\ MaxSends \in Nat /\ k + 1 <= MaxSends
      BY <2>4, BoundsAssumption, NamesAssumption, FS_CardinalityType
    <3>2. i \in Nat /\ i >= 1 /\ i <= n
      BY <1>1, <3>1
    <3> HIDE DEF k, n
    <3>3. k * n \in Nat /\ MaxSends * n \in Nat /\ (k + 1) * n = k * n + n
      BY <3>1
    <3>4. (k + 1) * n <= MaxSends * n
      BY <3>1
    <3>5. k * n + i \in 1 .. MaxSends * n
      BY <3>1, <3>2, <3>3, <3>4
    <3> QED BY <3>5 DEF Ids, k, n
  <2> QED BY <2>1, <2>2, <2>3, <2>4, <2>5 DEF Messages
<1>4. c \in Seq(Messages) /\ Len(c) = Len(to) /\ \A i \in 1 .. Len(to) : c[i] = msg(i)
  <2>1. \A i \in 1 .. Len(to) : c[i] = msg(i)
    BY <1>2
  <2>2. c \in [1 .. Len(to) -> Messages]
    BY <1>2, <1>3
  <2> HIDE DEF c, to
  <2>3. c \in Seq(Messages) /\ Len(c) = Len(to)
    BY <1>1, <2>2, SeqDef
  <2> QED BY <2>1, <2>3
<1> QED BY <1>4

-----------------------------------------------------------------------------
(* What a slot of either window does on the server and on its client.      *)
BaseNext ==
  \/ \E u \in Names : Registering(u) \/ LoggingIn(u) \/ AddingContact(u)
  \/ LoggingOut
  \/ \E members : Len(groups) < MaxGroups /\ CreatingGroup(members)
  \/ Len(sent) < MaxSends /\ Sending(Copies(current, selected))
  \/ \E id : Deleting(id)
  \/ UNCHANGED <<serverVars, current, watches>>

(* The types and the bounds are kept by every call.                        *)
LEMMA ServerStep == ServerOK /\ OpenOwn /\ BaseNext => ServerOK'
<1> SUFFICES ASSUME ServerOK, OpenOwn, BaseNext PROVE ServerOK'
  OBVIOUS
<1>1. CASE \E u \in Names : Registering(u)
  <2>1. PICK u \in Names : Registering(u)
    BY <1>1
  <2>2. users \subseteq users' /\ users' \subseteq Names
    BY <2>1 DEF Registering, ServerOK
  <2>3. groups' \in Seq(SUBSET users') /\ sent' \in Seq(users')
    <3>1. SUBSET users \subseteq SUBSET users'
      BY <2>2
    <3> QED BY <2>1, <2>2, <3>1, SeqMonotonic DEF Registering, ServerOK
  <2>4. contacts' \in [Names -> SUBSET users']
    BY <2>1, <2>2 DEF Registering, ServerOK
  <2>5. /\ Len(groups') <= MaxGroups /\ Len(sent') <= MaxSends
        /\ stored' \in Seq(Messages) /\ deleted' \subseteq Messages
        /\ current' \in users' \cup {Nobody} /\ watches' \in [Names -> Nat]
    BY <2>1, <2>2 DEF Registering, ServerOK
  <2> QED BY <2>2, <2>3, <2>4, <2>5 DEF ServerOK
<1>2. CASE \E u \in Names : LoggingIn(u)
  BY <1>2 DEF LoggingIn, Attach, serverVars, ServerOK
<1>3. CASE \E u \in Names : AddingContact(u)
  BY <1>3 DEF AddingContact, ServerOK
<1>4. CASE LoggingOut
  <2>1. current \in Names
    BY <1>4 DEF LoggingOut, ServerOK
  <2> QED BY <1>4, <2>1 DEF LoggingOut, Detach, serverVars, ServerOK
<1>5. CASE \E members : Len(groups) < MaxGroups /\ CreatingGroup(members)
  <2>1. PICK members : Len(groups) < MaxGroups /\ CreatingGroup(members)
    BY <1>5
  <2> DEFINE g == {current} \cup (members \cap users)
  <2>2. g \in SUBSET users /\ groups' = Append(groups, g)
    BY <2>1 DEF CreatingGroup, ServerOK
  <2> HIDE DEF g
  <2>3. groups' \in Seq(SUBSET users) /\ Len(groups') = Len(groups) + 1 /\ Len(groups) \in Nat
    BY <2>2, AppendProperties, LenProperties DEF ServerOK
  <2>4. Len(groups') <= MaxGroups
    BY <2>1, <2>3, BoundsAssumption
  <2> QED BY <2>1, <2>3, <2>4 DEF CreatingGroup, ServerOK
<1>6. CASE Len(sent) < MaxSends /\ Sending(Copies(current, selected))
  <2>1. current # Nobody /\ selected \in OwnChats(current)
    BY <1>6 DEF Sending, OpenOwn
  <2>2. Copies(current, selected) \in Seq(Messages)
    BY <1>6, <2>1, CopiesFacts
  <2>3. stored' \in Seq(Messages)
    BY <1>6, <2>2, ConcatProperties DEF Sending, ServerOK
  <2>4. current \in users
    BY <2>1 DEF ServerOK
  <2>5. sent' \in Seq(users) /\ Len(sent') = Len(sent) + 1 /\ Len(sent) \in Nat
    BY <1>6, <2>4, AppendProperties, LenProperties DEF Sending, ServerOK
  <2>6. Len(sent') <= MaxSends
    BY <1>6, <2>5, BoundsAssumption
  <2> QED BY <1>6, <2>3, <2>5, <2>6 DEF Sending, ServerOK
<1>7. CASE \E id : Deleting(id)
  <2>1. PICK m \in Range(stored) :
          /\ stored' = AtPlaces(stored, {k \in DOMAIN stored : stored[k] # m})
          /\ deleted' = deleted \cup {m}
    BY <1>7 DEF Deleting
  <2>2. m \in Messages
    BY <2>1, RangeOfSeq DEF ServerOK
  <2>3. stored' \in Seq(Messages)
    BY <2>1, AtPlacesFacts DEF ServerOK
  <2> QED BY <1>7, <2>1, <2>2, <2>3 DEF Deleting, ServerOK
<1>8. CASE UNCHANGED <<serverVars, current, watches>>
  BY <1>8 DEF serverVars, ServerOK
<1> QED BY <1>1, <1>2, <1>3, <1>4, <1>5, <1>6, <1>7, <1>8 DEF BaseNext

(* The one occurrence in observers_ comes and goes with the session.       *)
LEMMA WatchedStep == ServerOK /\ WatchedOnce /\ BaseNext => WatchedOnce'
<1> SUFFICES ASSUME ServerOK, WatchedOnce, BaseNext PROVE WatchedOnce'
  OBVIOUS
<1>1. CASE \E u \in Names : LoggingIn(u)
  <2>1. PICK v \in Names : LoggingIn(v)
    BY <1>1
  <2>2. current = Nobody /\ current' = v /\ watches' = [watches EXCEPT ![v] = @ + 1]
    BY <2>1 DEF LoggingIn, Attach
  <2>3. \A u \in Names : watches[u] = 0
    BY <2>2, NamesAssumption DEF WatchedOnce
  <2> QED BY <2>2, <2>3 DEF ServerOK, WatchedOnce
<1>2. CASE LoggingOut
  <2>1. current' = Nobody /\ watches' = [watches EXCEPT ![current] = 0]
    BY <1>2 DEF LoggingOut, Detach
  <2> QED BY <2>1, NamesAssumption DEF ServerOK, WatchedOnce
<1>3. CASE UNCHANGED <<current, watches>>
  BY <1>3 DEF WatchedOnce
<1>4. LoggingOut \/ (\E u \in Names : LoggingIn(u)) \/ UNCHANGED <<current, watches>>
  BY DEF BaseNext, Registering, AddingContact, CreatingGroup, Sending, Deleting
<1> QED BY <1>1, <1>2, <1>3, <1>4

-----------------------------------------------------------------------------
(* The messages that were ever stored.                                     *)
Known == Range(stored) \cup deleted

(* The history is in the order of its ids.  Of one send, which is what a   *)
(* payload stands for, there is one message to each receiver, and of a     *)
(* direct send only one.  What was deleted is gone.                        *)
HistoryOK ==
  /\ \A j, k \in DOMAIN stored : j < k => stored[j].id < stored[k].id
  /\ \A m \in Known : m.id <= Len(sent) * Cardinality(Names) /\ m.payload <= Len(sent)
  /\ \A m, n \in Known : m.payload = n.payload =>
       /\ m.from = n.from
       /\ m.chat = n.chat
       /\ m.to = n.to \/ m.chat = NoChat => m = n
  /\ deleted \cap Range(stored) = {}

(* An entry of the history is found by its id.                             *)
LEMMA IdsUnique ==
  ASSUME ServerOK, HistoryOK, NEW j \in DOMAIN stored, NEW k \in DOMAIN stored,
         stored[j].id = stored[k].id
  PROVE  j = k
<1>1. DOMAIN stored = 1 .. Len(stored) /\ Len(stored) \in Nat
  BY LenProperties DEF ServerOK
<1>2. stored[j] \in Messages /\ stored[k] \in Messages
  BY <1>1, ElementOfSeq DEF ServerOK
<1>3. stored[j].id \in Nat
  BY <1>2 DEF Messages, Ids
<1>4. ~ (j < k) /\ ~ (k < j)
  BY <1>3 DEF HistoryOK
<1> QED BY <1>1, <1>4

(* A send keeps the history in order.                                      *)
LEMMA SendingHistory ==
  ASSUME ServerOK, OpenOwn, HistoryOK,
         Len(sent) < MaxSends, Sending(Copies(current, selected))
  PROVE  HistoryOK'
<1> DEFINE c == Copies(current, selected)
           to == Receivers(selected)
           base == Len(sent) * Cardinality(Names)
<1>1. current # Nobody /\ selected \in OwnChats(current)
  BY DEF Sending, OpenOwn
<1>2. c \in Seq(Messages) /\ Len(c) = Len(to)
  BY <1>1, CopiesFacts
<1>17. \A i \in 1 .. Len(to) :
         /\ c[i].id = base + i
         /\ c[i].from = current
         /\ c[i].to = to[i]
         /\ c[i].chat = IF selected.kind = "direct" THEN NoChat ELSE selected
         /\ c[i].payload = Len(sent) + 1
  <2> SUFFICES ASSUME NEW i \in 1 .. Len(to)
               PROVE  /\ c[i].id = base + i
                      /\ c[i].from = current
                      /\ c[i].to = to[i]
                      /\ c[i].chat = IF selected.kind = "direct" THEN NoChat ELSE selected
                      /\ c[i].payload = Len(sent) + 1
    OBVIOUS
  <2>1. c[i] = [id |-> base + i, from |-> current, to |-> to[i],
                chat |-> IF selected.kind = "direct" THEN NoChat ELSE selected,
                payload |-> Len(sent) + 1]
    BY <1>1, CopiesFacts
  <2> HIDE DEF c, to, base
  <2> QED BY <2>1
<1>3. /\ Len(to) \in 0 .. Cardinality(Names)
      /\ \A i, j \in 1 .. Len(to) : to[i] = to[j] => i = j
      /\ selected.kind = "direct" => Len(to) = 1
  BY <1>1, ReceiversFacts
<1>4. stored \in Seq(Messages) /\ DOMAIN stored = 1 .. Len(stored) /\ Len(stored) \in Nat
  BY LenProperties DEF ServerOK
<1>5. stored' = stored \o c /\ deleted' = deleted
  BY DEF Sending
<1>6. /\ Len(sent) \in Nat
      /\ Len(sent') = Len(sent) + 1
      /\ Cardinality(Names) \in Nat
      /\ base \in Nat
      /\ Len(sent') * Cardinality(Names) = base + Cardinality(Names)
  <2>1. current \in users
    BY <1>1 DEF ServerOK
  <2>2. Len(sent) \in Nat /\ Len(sent') = Len(sent) + 1
    BY <2>1, AppendProperties, LenProperties DEF Sending, ServerOK
  <2>3. Cardinality(Names) \in Nat
    BY NamesAssumption, FS_CardinalityType
  <2> DEFINE k == Len(sent)
             n == Cardinality(Names)
  <2>4. k \in Nat /\ n \in Nat
    BY <2>2, <2>3
  <2> HIDE DEF k, n
  <2>5. k * n \in Nat /\ (k + 1) * n = k * n + n
    BY <2>4
  <2> QED BY <2>2, <2>3, <2>5 DEF k, n
<1> HIDE DEF c, to, base
<1>7. /\ Len(stored') = Len(stored) + Len(to)
      /\ DOMAIN stored' = 1 .. (Len(stored) + Len(to))
      /\ \A i \in 1 .. (Len(stored) + Len(to)) :
           stored'[i] = IF i <= Len(stored) THEN stored[i] ELSE c[i - Len(stored)]
  <2> DEFINE new == stored \o c
  <2>1. /\ new \in Seq(Messages)
        /\ Len(new) = Len(stored) + Len(to)
        /\ \A i \in 1 .. (Len(stored) + Len(to)) :
             new[i] = IF i <= Len(stored) THEN stored[i] ELSE c[i - Len(stored)]
    <3>1. /\ new \in Seq(Messages)
          /\ Len(new) = Len(stored) + Len(c)
          /\ \A i \in 1 .. Len(stored) + Len(c) :
               new[i] = IF i <= Len(stored) THEN stored[i] ELSE c[i - Len(stored)]
      BY <1>2, <1>4, ConcatProperties, Zenon
    <3> HIDE DEF new
    <3> QED BY <1>2, <3>1
  <2>2. DOMAIN new = 1 .. Len(new)
    BY <2>1, LenProperties
  <2>3. stored' = new
    BY <1>5
  <2> HIDE DEF new
  <2> QED BY <2>1, <2>2, <2>3
<1>8. \A m \in Known : /\ m.id \in Nat /\ m.id <= base
                       /\ m.payload \in Nat /\ m.payload <= Len(sent)
  <2>1. Known \subseteq Messages
    BY RangeOfSeq DEF Known, ServerOK
  <2> QED BY <2>1, BoundsAssumption DEF HistoryOK, Messages, Ids, base
<1>9. Known' = Known \cup Range(c)
  BY <1>2, <1>4, <1>5, RangeConcatenation DEF Known
<1>10. \A m \in Range(c) : \E i \in 1 .. Len(to) : m = c[i]
  BY <1>2, LenProperties DEF Range
<1>11. ASSUME NEW j \in DOMAIN stored', NEW k \in DOMAIN stored', j < k
       PROVE  stored'[j].id < stored'[k].id
  <2>1. j \in Nat /\ k \in Nat /\ j >= 1 /\ k <= Len(stored) + Len(to) /\ Len(to) \in Nat
    BY <1>3, <1>4, <1>6, <1>7
  <2>2. CASE k <= Len(stored)
    <3>1. j \in DOMAIN stored /\ k \in DOMAIN stored
      BY <1>4, <1>11, <2>1, <2>2
    <3>2. stored'[j] = stored[j] /\ stored'[k] = stored[k]
      BY <1>4, <1>7, <3>1
    <3> QED BY <1>11, <3>1, <3>2 DEF HistoryOK
  <2>3. CASE j <= Len(stored) /\ Len(stored) < k
    <3>1. j \in DOMAIN stored /\ stored'[j] = stored[j]
      BY <1>4, <1>7, <2>1, <2>3
    <3>2. stored[j] \in Known
      BY <3>1 DEF Known, Range
    <3>3. k - Len(stored) \in 1 .. Len(to) /\ stored'[k] = c[k - Len(stored)]
      BY <1>4, <1>7, <2>1, <2>3
    <3>4. stored'[k].id = base + (k - Len(stored))
      BY <1>17, <3>3
    <3> QED BY <1>6, <1>8, <3>1, <3>2, <3>3, <3>4
  <2>4. CASE Len(stored) < j
    <3>1. /\ j - Len(stored) \in 1 .. Len(to) /\ stored'[j] = c[j - Len(stored)]
          /\ k - Len(stored) \in 1 .. Len(to) /\ stored'[k] = c[k - Len(stored)]
      BY <1>4, <1>7, <1>11, <2>1, <2>4
    <3>2. stored'[j].id = base + (j - Len(stored)) /\ stored'[k].id = base + (k - Len(stored))
      BY <1>17, <3>1
    <3> QED BY <1>4, <1>6, <1>11, <2>1, <3>2
  <2> QED BY <1>4, <2>1, <2>2, <2>3, <2>4
<1>12. \A m \in Range(c) : /\ m.id \in base + 1 .. base + Cardinality(Names)
                           /\ m.payload = Len(sent) + 1
  BY <1>3, <1>6, <1>10, <1>17
<1>13. \A m \in Known' : /\ m.id <= Len(sent') * Cardinality(Names)
                         /\ m.payload <= Len(sent')
  BY <1>6, <1>8, <1>9, <1>12
<1>14. ASSUME NEW m \in Range(c), NEW n \in Range(c)
       PROVE  /\ m.from = n.from
              /\ m.chat = n.chat
              /\ m.to = n.to \/ m.chat = NoChat => m = n
  <2>1. PICK i \in 1 .. Len(to) : m = c[i]
    BY <1>10
  <2>2. PICK j \in 1 .. Len(to) : n = c[j]
    BY <1>10
  <2>3. m.from = n.from /\ m.chat = n.chat
    BY <1>17, <2>1, <2>2
  <2>4. m.to = n.to => i = j
    BY <1>3, <1>17, <2>1, <2>2
  <2>5. m.chat = NoChat => i = j
    <3>1. selected # NoChat
      BY DEF Sending
    <3>2. m.chat = NoChat => selected.kind = "direct"
      BY <1>17, <2>1, <3>1
    <3> QED BY <1>3, <3>2
  <2> QED BY <2>1, <2>2, <2>3, <2>4, <2>5
<1>15. ASSUME NEW m \in Known', NEW n \in Known', m.payload = n.payload
       PROVE  /\ m.from = n.from
              /\ m.chat = n.chat
              /\ m.to = n.to \/ m.chat = NoChat => m = n
  <2>1. CASE m \in Known /\ n \in Known
    BY <1>15, <2>1 DEF HistoryOK
  <2>2. CASE m \in Range(c) /\ n \in Range(c)
    BY <1>14, <2>2
  <2>3. (m \in Known /\ n \in Known) \/ (m \in Range(c) /\ n \in Range(c))
    <3>1. ASSUME NEW x \in Known, NEW y \in Range(c) PROVE x.payload # y.payload
      <4>1. x.payload \in Nat /\ x.payload <= Len(sent) /\ y.payload = Len(sent) + 1
        BY <1>8, <1>12
      <4> QED BY <1>6, <4>1
    <3>2. (m \in Known \/ m \in Range(c)) /\ (n \in Known \/ n \in Range(c))
      BY <1>9
    <3>3. m \in Known => n \notin Range(c)
      BY <1>15, <3>1
    <3>4. n \in Known => m \notin Range(c)
      BY <1>15, <3>1
    <3> QED BY <3>2, <3>3, <3>4
  <2> QED BY <2>1, <2>2, <2>3
<1>16. deleted' \cap Range(stored') = {}
  <2>1. Range(stored') = Range(stored) \cup Range(c)
    BY <1>2, <1>4, <1>5, RangeConcatenation
  <2>2. \A m \in deleted : m \notin Range(c)
    <3>1. deleted \subseteq Known
      BY DEF Known
    <3> QED BY <1>6, <1>8, <1>12, <3>1
  <2> QED BY <1>5, <2>1, <2>2 DEF HistoryOK
<1> QED BY <1>11, <1>13, <1>15, <1>16 DEF HistoryOK

(* A deletion takes one message out of the history.                        *)
LEMMA DeletingFacts ==
  ASSUME ServerOK, HistoryOK, NEW id, Deleting(id)
  PROVE  \E k \in DOMAIN stored :
           /\ stored[k].id = id
           /\ stored[k].from = current
           /\ stored' = AtPlaces(stored, DOMAIN stored \ {k})
           /\ Range(stored') = Range(stored) \ {stored[k]}
           /\ deleted' = deleted \cup {stored[k]}
           /\ deleted' # deleted
<1>1. PICK m \in Range(stored) :
        /\ m.id = id
        /\ m.from = current
        /\ stored' = AtPlaces(stored, {k \in DOMAIN stored : stored[k] # m})
        /\ deleted' = deleted \cup {m}
  BY DEF Deleting
<1>2. PICK k \in DOMAIN stored : m = stored[k]
  BY <1>1 DEF Range
<1>3. ASSUME NEW j \in DOMAIN stored, stored[j] = m PROVE j = k
  BY <1>2, <1>3, IdsUnique
<1> DEFINE K == DOMAIN stored \ {k}
<1>4. {j \in DOMAIN stored : stored[j] # m} = K
  BY <1>2, <1>3
<1>5. stored' = AtPlaces(stored, K)
  BY <1>1, <1>4
<1>6. /\ DOMAIN AtPlaces(stored, K) = 1 .. Cardinality(K)
      /\ \A i \in 1 .. Cardinality(K) : /\ Ascending(K)[i] \in K
                                        /\ AtPlaces(stored, K)[i] = stored[Ascending(K)[i]]
      /\ \A j \in K : \E i \in 1 .. Cardinality(K) : AtPlaces(stored, K)[i] = stored[j]
  <2>1. stored \in Seq(Messages) /\ K \in SUBSET DOMAIN stored
    BY DEF ServerOK
  <2> HIDE DEF K
  <2> QED BY <2>1, AtPlacesFacts
<1>7. Range(stored') = Range(stored) \ {m}
  <2>1. ASSUME NEW x \in Range(stored') PROVE x \in Range(stored) /\ x # m
    <3>1. PICK i \in DOMAIN stored' : x = stored'[i]
      BY <2>1 DEF Range
    <3>2. PICK j \in K : x = stored[j]
      <4> HIDE DEF K
      <4> QED BY <1>5, <1>6, <3>1
    <3> QED BY <1>3, <3>2 DEF Range
  <2>2. ASSUME NEW x \in Range(stored), x # m PROVE x \in Range(stored')
    <3>1. PICK j \in DOMAIN stored : x = stored[j]
      BY DEF Range
    <3>2. j \in K
      BY <1>2, <2>2, <3>1
    <3> QED BY <1>5, <1>6, <3>1, <3>2 DEF Range
  <2> QED BY <2>1, <2>2
<1>8. m \notin deleted
  BY <1>1 DEF HistoryOK
<1> QED BY <1>1, <1>2, <1>5, <1>7, <1>8

(* A deletion keeps the history in order.                                  *)
LEMMA DeletingHistory ==
  ASSUME ServerOK, HistoryOK, NEW id, Deleting(id)
  PROVE  HistoryOK'
<1>1. PICK k \in DOMAIN stored :
        /\ stored' = AtPlaces(stored, DOMAIN stored \ {k})
        /\ Range(stored') = Range(stored) \ {stored[k]}
        /\ deleted' = deleted \cup {stored[k]}
  BY DeletingFacts
<1> DEFINE K == DOMAIN stored \ {k}
           n == Cardinality(K)
<1>2. sent' = sent /\ stored[k] \in Range(stored)
  BY DEF Deleting, Range
<1>3. Known' = Known
  BY <1>1, <1>2 DEF Known
<1>4. /\ DOMAIN stored' = 1 .. n
      /\ K \in SUBSET Nat /\ IsFiniteSet(K)
      /\ \A i \in 1 .. n : Ascending(K)[i] \in K /\ stored'[i] = stored[Ascending(K)[i]]
  <2>1. stored \in Seq(Messages) /\ K \in SUBSET DOMAIN stored
    BY DEF ServerOK
  <2> HIDE DEF K
  <2> QED BY <1>1, <2>1, AtPlacesFacts DEF K
<1>5. \A i, j \in 1 .. n : i < j => Ascending(K)[i] < Ascending(K)[j]
  BY <1>4, AscendingFacts
<1>6. \A i, j \in DOMAIN stored' : i < j => stored'[i].id < stored'[j].id
  <2>1. \A a, b \in DOMAIN stored : a < b => stored[a].id < stored[b].id
    BY DEF HistoryOK
  <2>2. K \subseteq DOMAIN stored
    OBVIOUS
  <2> HIDE DEF K, n
  <2>3. ASSUME NEW i \in 1 .. n, NEW j \in 1 .. n, i < j
        PROVE  stored'[i].id < stored'[j].id
    <3>1. PICK a : a = Ascending(K)[i]
      OBVIOUS
    <3>2. PICK b : b = Ascending(K)[j]
      OBVIOUS
    <3>3. a < b
      BY <1>5, <2>3, <3>1, <3>2
    <3>4. a \in DOMAIN stored /\ b \in DOMAIN stored
      BY <1>4, <2>2, <3>1, <3>2
    <3>5. stored'[i] = stored[a] /\ stored'[j] = stored[b]
      BY <1>4, <3>1, <3>2
    <3>6. stored[a].id < stored[b].id
      BY <2>1, <3>3, <3>4
    <3> QED BY <3>5, <3>6
  <2> QED BY <1>4, <2>3
<1>7. deleted' \cap Range(stored') = {}
  BY <1>1 DEF HistoryOK
<1> QED BY <1>2, <1>3, <1>6, <1>7 DEF HistoryOK

(* Every call keeps the history in order.                                  *)
LEMMA HistoryStep == ServerOK /\ OpenOwn /\ HistoryOK /\ BaseNext => HistoryOK'
<1> SUFFICES ASSUME ServerOK, OpenOwn, HistoryOK, BaseNext PROVE HistoryOK'
  OBVIOUS
<1>1. CASE Len(sent) < MaxSends /\ Sending(Copies(current, selected))
  BY <1>1, SendingHistory
<1>2. CASE \E id : Deleting(id)
  BY <1>2, DeletingHistory
<1>3. CASE UNCHANGED <<stored, sent, deleted>>
  BY <1>3 DEF HistoryOK, Known
<1>4. UNCHANGED <<stored, sent, deleted>>
        \/ (Len(sent) < MaxSends /\ Sending(Copies(current, selected)))
        \/ (\E id : Deleting(id))
  BY DEF BaseNext, Registering, LoggingIn, LoggingOut, AddingContact, CreatingGroup, serverVars
<1> QED BY <1>1, <1>2, <1>3, <1>4

-----------------------------------------------------------------------------
(* The places of a conversation in the history.                            *)
Places(u, chat) == {k \in DOMAIN stored : Belongs(stored[k], u, chat)}

(* The rows that a refresh shows are the messages of the conversation.     *)
FetchedRight ==
  \A u, chat :
    /\ IsFiniteSet(Places(u, chat)) /\ Places(u, chat) \in SUBSET Nat
    /\ Cardinality(Places(u, chat)) \in Nat
    /\ Fetched(u, chat) \in Seq([id : Ids \cup {Temp}, payload : 0 .. MaxSends])
    /\ Len(Fetched(u, chat)) = Cardinality(Places(u, chat))
    /\ DOMAIN Fetched(u, chat) = 1 .. Cardinality(Places(u, chat))
    /\ \A i \in 1 .. Cardinality(Places(u, chat)) :
         LET k == Ascending(Places(u, chat))[i] IN
         /\ k \in Places(u, chat)
         /\ Fetched(u, chat)[i] = Row(stored[k].id, stored[k].payload)
    /\ \A k \in Places(u, chat) : \E i \in DOMAIN Fetched(u, chat) :
         Fetched(u, chat)[i] = Row(stored[k].id, stored[k].payload)

(* They follow from the places that AtPlaces selects.                      *)
LEMMA FetchedFacts == ServerOK => FetchedRight
<1> SUFFICES ASSUME ServerOK, NEW u, NEW chat
             PROVE  /\ IsFiniteSet(Places(u, chat)) /\ Places(u, chat) \in SUBSET Nat
                    /\ Cardinality(Places(u, chat)) \in Nat
                    /\ Fetched(u, chat) \in Seq([id : Ids \cup {Temp}, payload : 0 .. MaxSends])
                    /\ Len(Fetched(u, chat)) = Cardinality(Places(u, chat))
                    /\ DOMAIN Fetched(u, chat) = 1 .. Cardinality(Places(u, chat))
                    /\ \A i \in 1 .. Cardinality(Places(u, chat)) :
                         LET k == Ascending(Places(u, chat))[i] IN
                         /\ k \in Places(u, chat)
                         /\ Fetched(u, chat)[i] = Row(stored[k].id, stored[k].payload)
                    /\ \A k \in Places(u, chat) : \E i \in DOMAIN Fetched(u, chat) :
                         Fetched(u, chat)[i] = Row(stored[k].id, stored[k].payload)
  BY DEF FetchedRight
<1> DEFINE P == Places(u, chat)
           n == Cardinality(P)
           A == Ascending(P)
           F == Fetched(u, chat)
           msgs == Conversation(u, chat)
<1>1. /\ P \in SUBSET DOMAIN stored
      /\ IsFiniteSet(P) /\ P \in SUBSET Nat /\ n \in Nat
      /\ msgs = AtPlaces(stored, P)
      /\ DOMAIN msgs = 1 .. n
      /\ \A i \in 1 .. n : A[i] \in P /\ msgs[i] = stored[A[i]]
      /\ \A k \in P : \E i \in 1 .. n : A[i] = k
  <2>1. P \in SUBSET DOMAIN stored /\ msgs = AtPlaces(stored, P)
    BY DEF Places, Conversation
  <2> HIDE DEF P
  <2> QED BY <2>1, AtPlacesFacts DEF ServerOK
<1>2. F = [i \in 1 .. n |-> Row(msgs[i].id, msgs[i].payload)]
  BY <1>1 DEF Fetched
<1> HIDE DEF P, n, A, F, msgs
<1>3. \A i \in 1 .. n : F[i] = Row(stored[A[i]].id, stored[A[i]].payload)
  BY <1>1, <1>2
<1>4. \A k \in P : \E i \in 1 .. n : F[i] = Row(stored[k].id, stored[k].payload)
  BY <1>1, <1>3
<1>5. \A k \in P : Row(stored[k].id, stored[k].payload)
                     \in [id : Ids \cup {Temp}, payload : 0 .. MaxSends]
  <2> SUFFICES ASSUME NEW k \in P
               PROVE  Row(stored[k].id, stored[k].payload)
                        \in [id : Ids \cup {Temp}, payload : 0 .. MaxSends]
    OBVIOUS
  <2>1. stored[k] \in Messages
    BY <1>1, ElementOfSeq, LenProperties DEF ServerOK
  <2>2. stored[k].id \in Ids /\ stored[k].payload \in 1 .. MaxSends
    BY <2>1 DEF Messages
  <2>3. stored[k].payload \in 0 .. MaxSends
    BY <2>2, BoundsAssumption
  <2> QED BY <2>2, <2>3 DEF Row
<1> DEFINE R == [id : Ids \cup {Temp}, payload : 0 .. MaxSends]
<1> HIDE DEF R
<1>6. F \in [1 .. n -> R]
  <2>1. \A i \in 1 .. n : F[i] \in R
    BY <1>1, <1>3, <1>5 DEF R
  <2> QED BY <1>2, <2>1
<1>7. /\ F \in Seq(R)
      /\ Len(F) = n
      /\ DOMAIN F = 1 .. n
  BY <1>1, <1>6, SeqDef
<1> QED BY <1>1, <1>3, <1>4, <1>7 DEF P, n, A, F, R

(* The same of the state after a step.                                     *)
LEMMA FetchedNext == ServerOK' => FetchedRight'
<1>1. (ServerOK => FetchedRight)'
  BY FetchedFacts, PTL
<1> QED BY <1>1

(* What the rows of the open chat are after a step, for a user and a chat. *)
LEMMA OpenFetched ==
  \A u, chat : u = current' /\ chat = selected' =>
    Fetched(u, chat)' = Fetched(current, selected)'
  BY DEF Fetched, Conversation

(* What the list of the user who is logged in then is.                     *)
LEMMA OpenList == \A u : u = current' => ChatList(u)' = ChatList(current)'
  BY DEF ChatList, ListContacts, ListGroups

(* A list fetched anew holds the chats of the user.                        *)
LEMMA NewList ==
  ASSUME ServerOK', current' \in Names, NEW list, list = ChatList(current)'
  PROVE  /\ list \in Seq(Chats)
         /\ DOMAIN list = 1 .. Len(list) /\ Len(list) \in Nat
         /\ Range(list) = OwnChats(current)'
         /\ current' # Nobody
<1>1. PICK u \in Names : u = current'
  OBVIOUS
<1>2. list = ChatList(u)' /\ OwnChats(current)' = OwnChats(u)'
  BY <1>1, OpenList DEF OwnChats
<1>3. list \in Seq(Chats) /\ Range(list) = OwnChats(current)'
  BY <1>2, ChatListNext DEF ChatListsRight
<1> QED BY <1>3, LenProperties, NamesAssumption

(* A contact that is added is a chat of the user.                          *)
LEMMA ContactAdded ==
  ASSUME ServerOK, NEW v, AddingContact(v)
  PROVE  current' = current /\ current \in Names /\ Direct(v) \in OwnChats(current)'
<1>1. current' = current /\ current \in Names /\ v \in contacts'[current]
  BY DEF AddingContact, ServerOK
<1> QED BY <1>1 DEF OwnChats

(* A group that is created is a chat of the user who creates it.           *)
LEMMA GroupCreated ==
  ASSUME ServerOK, NEW members, CreatingGroup(members), Len(groups) < MaxGroups
  PROVE  /\ current' = current /\ current \in Names
         /\ Group(Len(groups')) \in OwnChats(current)'
         /\ Len(groups') \in 1 .. MaxGroups
<1> DEFINE g == {current} \cup (members \cap users)
<1>1. /\ current' = current /\ current \in Names
      /\ g \in SUBSET users /\ current \in g /\ groups' = Append(groups, g)
  BY DEF CreatingGroup, ServerOK
<1> HIDE DEF g
<1>2. /\ groups' \in Seq(SUBSET users)
      /\ Len(groups') = Len(groups) + 1 /\ Len(groups) \in Nat
      /\ groups'[Len(groups) + 1] = g
  BY <1>1, AppendProperties, LenProperties DEF ServerOK
<1>3. DOMAIN groups' = 1 .. Len(groups')
  BY <1>2, LenProperties
<1>4. Len(groups') \in DOMAIN groups' /\ current \in groups'[Len(groups')]
  BY <1>1, <1>2, <1>3
<1>5. Group(Len(groups')) \in OwnChats(current)'
  BY <1>1, <1>4 DEF OwnChats
<1> QED BY <1>1, <1>2, <1>5, BoundsAssumption

(* A send adds rows at the end of a conversation and leaves the others.    *)
LEMMA FetchedGrows ==
  ASSUME ServerOK, OpenOwn, Len(sent) < MaxSends, Sending(Copies(current, selected)),
         NEW u, NEW chat
  PROVE  \A i \in DOMAIN Fetched(u, chat) :
           /\ i \in DOMAIN Fetched(u, chat)'
           /\ Fetched(u, chat)'[i] = Fetched(u, chat)[i]
<1> DEFINE c == Copies(current, selected)
           P == Places(u, chat)
           Q == {k \in DOMAIN stored' : Belongs(stored'[k], u, chat)}
           L == {k \in Q : k <= Len(stored)}
<1>1. c \in Seq(Messages) /\ stored \in Seq(Messages) /\ stored' = stored \o c
  <2>1. current # Nobody /\ selected \in OwnChats(current)
    BY DEF Sending, OpenOwn
  <2> QED BY <2>1, CopiesFacts DEF Sending, ServerOK
<1>2. /\ Len(stored) \in Nat
      /\ DOMAIN stored = 1 .. Len(stored)
      /\ DOMAIN stored' = 1 .. Len(stored) + Len(c)
      /\ Len(c) \in Nat
      /\ \A k \in 1 .. Len(stored) : stored'[k] = stored[k]
  <2> DEFINE new == stored \o c
  <2>1. /\ new \in Seq(Messages)
        /\ Len(new) = Len(stored) + Len(c)
        /\ \A k \in 1 .. Len(stored) + Len(c) :
             new[k] = IF k <= Len(stored) THEN stored[k] ELSE c[k - Len(stored)]
    BY <1>1, ConcatProperties, Zenon
  <2>2. DOMAIN new = 1 .. Len(new) /\ Len(stored) \in Nat /\ Len(c) \in Nat
        /\ DOMAIN stored = 1 .. Len(stored)
    BY <1>1, <2>1, LenProperties
  <2>3. stored' = new
    BY <1>1
  <2> HIDE DEF new, c
  <2> QED BY <2>1, <2>2, <2>3
<1>3. L = P
  <2> HIDE DEF c
  <2> QED BY <1>2 DEF Places
<1>4. /\ IsFiniteSet(P) /\ P \in SUBSET DOMAIN stored
      /\ Cardinality(P) \in Nat /\ Cardinality(Q) \in Nat
      /\ Cardinality(P) <= Cardinality(Q)
      /\ \A i \in 1 .. Cardinality(P) : AtPlaces(stored', Q)[i] = AtPlaces(stored, P)[i]
  <2>1. Q \in SUBSET DOMAIN (stored \o c)
    BY <1>1
  <2>2. P \in SUBSET DOMAIN stored
    BY DEF Places
  <2> HIDE DEF c, Q, P
  <2>3. /\ Cardinality(L) <= Cardinality(Q)
        /\ \A i \in 1 .. Cardinality(L) : AtPlaces(stored \o c, Q)[i] = AtPlaces(stored, L)[i]
    <3>1. stored \in Seq(Messages) /\ c \in Seq(Messages) /\ Q \in SUBSET DOMAIN (stored \o c)
      BY <1>1, <2>1
    <3>2. L = {k \in Q : k <= Len(stored)}
      OBVIOUS
    <3> HIDE DEF L
    <3> QED BY <3>1, <3>2, AtPlacesGrow
  <2>4. Cardinality(P) \in Nat /\ IsFiniteSet(P)
    BY <1>1, <2>2, AtPlacesFacts
  <2>5. Cardinality(Q) \in Nat
    <3>1. stored \o c \in Seq(Messages)
      BY <1>1, ConcatProperties
    <3> DEFINE new == stored \o c
    <3> HIDE DEF new
    <3>2. new \in Seq(Messages) /\ Q \in SUBSET DOMAIN new
      BY <2>1, <3>1 DEF new
    <3> QED BY <3>2, AtPlacesFacts
  <2> QED BY <1>1, <1>3, <2>2, <2>3, <2>4, <2>5
<1>5. Conversation(u, chat) = AtPlaces(stored, P)
  BY DEF Conversation, Places
<1>6. Conversation(u, chat)' = AtPlaces(stored', Q)
  BY DEF Conversation
<1>7. /\ DOMAIN AtPlaces(stored, P) = 1 .. Cardinality(P)
      /\ DOMAIN AtPlaces(stored', Q) = 1 .. Cardinality(Q)
  BY DEF AtPlaces
<1> HIDE DEF P, Q, c
<1>8. /\ Fetched(u, chat) =
           [i \in 1 .. Cardinality(P) |->
              Row(AtPlaces(stored, P)[i].id, AtPlaces(stored, P)[i].payload)]
      /\ Fetched(u, chat)' =
           [i \in 1 .. Cardinality(Q) |->
              Row(AtPlaces(stored', Q)[i].id, AtPlaces(stored', Q)[i].payload)]
  BY <1>5, <1>6, <1>7 DEF Fetched
<1> QED BY <1>4, <1>8

(* At first nothing is stored and nobody watched.                          *)
LEMMA BaseStart == BaseInit => ServerOK /\ WatchedOnce /\ HistoryOK
<1> SUFFICES ASSUME BaseInit PROVE ServerOK /\ WatchedOnce /\ HistoryOK
  OBVIOUS
<1>1. ServerOK
  <2>1. \A S : <<>> \in Seq(S)
    BY EmptySeq
  <2> QED BY <2>1, BoundsAssumption, NamesAssumption DEF BaseInit, ServerOK
<1>2. WatchedOnce
  BY NamesAssumption DEF BaseInit, WatchedOnce
<1>3. HistoryOK
  <2>1. Range(stored) = {} /\ deleted = {} /\ DOMAIN stored = {}
    BY DEF BaseInit, Range
  <2> QED BY <2>1 DEF HistoryOK, Known
<1> QED BY <1>1, <1>2, <1>3

=============================================================================
