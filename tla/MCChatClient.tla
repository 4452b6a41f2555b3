---------------------------- MODULE MCChatClient ----------------------------
(* Instances of the messenger small enough for TLC. *)
EXTENDS ChatClient, TLC

CONSTANTS c1, c2, c3

(* Two client objects of user 1, one of user 2. *)
TwoOfOne == c1 :> 1 @@ c2 :> 1 @@ c3 :> 2
(* One client object for each user. *)
OnePerUser == c1 :> 1 @@ c2 :> 2
ThreeUsers == c1 :> 1 @@ c2 :> 2 @@ c3 :> 3

Saved == {[priv |-> "written", pub |-> "written"]}
(* HOME unset, a failure between the two files, and a full disk. *)
FaultySaves ==
  Saved \cup {[priv |-> "kept", pub |-> "kept"],
              [priv |-> "written", pub |-> "kept"],
              [priv |-> "emptied", pub |-> "emptied"]}

None == {}
Everyone == {Names}
(* The program in the middle of its life: every user has registered and    *)
(* logged in, with key pair u for user u, and user 1 has created a group   *)
(* of all.  It is reached by Register, LogIn and CreateGroup from Init.    *)
Ready ==
  /\ users = [u \in Names |-> [passwordHash |-> CHOOSE p \in Passwords : TRUE,
                               publicKeyPem |-> u, contacts |-> {}]]
  /\ groups = [g \in {<<1, team>> : team \in GroupNames} |->
                 [groupName |-> g[2], owner |-> 1, members |-> Names]]
  /\ nextGroupId = 2
  /\ history = {} /\ groupHistory = {} /\ places = 0 /\ erased = {}
  /\ handlers = [u \in {NameOf[c] : c \in Clients} |-> CHOOSE c \in Clients : NameOf[c] = u]
  /\ connected = [c \in Clients |-> TRUE]
  /\ username = NameOf
  /\ sending = EmptyMap
  /\ inbox = [c \in Clients |-> <<>>]
  /\ registered = [c \in Clients |-> TRUE]
  /\ loggedIn = [c \in Clients |-> TRUE]
  /\ keyPair = [c \in Clients |-> [pub |-> NameOf[c], priv |-> NameOf[c]]]
  /\ events = [c \in Clients |-> <<>>]
  /\ calls = EmptyMap
  /\ privFile = [u \in Names |-> u]
  /\ pubFile = [u \in Names |-> u]
  /\ nextKey = Cardinality(Names) + 1
  /\ nextMessage = 1 /\ nextPayload = 1 /\ restarts = 0

ReadySpec == Ready /\ [][Next]_vars
ReadyFairSpec == ReadySpec /\ \A k \in Callers : WF_vars(CallStep(k))

CallerSymmetry == Permutations(Callers)

=============================================================================
