---------------------------- MODULE MessagePath ----------------------------
(***************************************************************************)
(* The way of one message through its conversions: encrypted and sealed,   *)
(* built, written as a line, read again by the receiver's handler, kept by *)
(* the server and decrypted from the history.  ChatClient has the order of *)
(* these steps among many clients and takes the conversions for granted;   *)
(* here they are what the code does, byte by byte where it counts bytes.   *)
(*                                                                         *)
(* A string and a vector of bytes are sequences of character codes.  Of    *)
(* OpenSSL there are stand-ins: EncodeBlock writes a character 128 + v for *)
(* the value v of six bits, and AES and RSA are invertible functions of    *)
(* the key that keep the lengths, and for RSA the remainder by three.      *)
(***************************************************************************)
EXTENDS Naturals, Sequences, FiniteSets, SequencesExt

CONSTANTS
  NameOf,       \* names of the users; user u has the RSA key pair u
  GroupIds,     \* ids of groups
  Texts,        \* inputs: texts
  SessionKeys,  \* inputs: session keys, each standing for 32 bytes
  None          \* no message, no line, no event, no text

Byte == 0 .. 255
Users == DOMAIN NameOf
Bar == 124
Colon == 58
Pad == 61

ASSUME NamesAssumption ==
  /\ \A u \in Users : NameOf[u] \in Seq(Byte) /\ Colon \notin Range(NameOf[u])
  /\ \A u, v \in Users : NameOf[u] = NameOf[v] => u = v
ASSUME StringsAssumption == \A s \in Texts \cup GroupIds : s \in Seq(Byte)
(* A key pair and a session key are a byte each in the stand-in for RSA.   *)
ASSUME KeysAssumption == Users \subseteq Byte /\ SessionKeys \subseteq Byte

(* struct Message, with one id and one time, and MessageView.              *)
Message ==
  [messageId : {<<49>>}, sender : Seq(Byte), receiver : Seq(Byte), chatId : Seq(Byte),
   timestamp : {7}, status : {"Sent", "Delivered", "Read"},
   isGroupMessage : BOOLEAN, deletedForAll : BOOLEAN, encryptedSessionKey : Seq(Byte),
   encryptedPayload : Seq(Byte), encryptedSelfSessionKey : Seq(Byte)]
MessageView ==
  [messageId : {<<49>>}, fromUser : Seq(Byte), toUser : Seq(Byte), chatId : Seq(Byte),
   text : Texts, status : {"Sent", "Delivered", "Read"}, isGroupMessage : BOOLEAN]

ASSUME NoneAssumption ==
  None \notin SessionKeys /\ None \notin Texts /\ None \notin Message /\ None \notin MessageView

VARIABLES
  stage,    \* how far the message is
  from, to, \* sender and receiver
  chat,     \* group id, or the empty string for a direct message
  text,     \* what the sender typed
  message,  \* struct Message
  line,     \* what the transport carries
  event,    \* what the receiver's observers were notified of
  view      \* the last answer from the history

vars == <<stage, from, to, chat, text, message, line, event, view>>

-----------------------------------------------------------------------------
(* The envelope of AES256GCMStrategy: 12 bytes of IV, the ciphertext, which *)
(* is as long as the text, and 16 bytes of tag.                             *)

IvLength == 12
TagLength == 16

Iv == [i \in 1 .. IvLength |-> i]
Stream(key, i) == (17 * key + 29 * i) % 256
(* The tag vouches for the length and for the first sixteen bytes.         *)
Tag(key, bytes) ==
  [i \in 1 .. TagLength |->
     (key + Len(bytes) + i + IF i \in DOMAIN bytes THEN bytes[i] ELSE 0) % 256]

Encrypt(bytes, key) ==
  LET ciphertext == [i \in DOMAIN bytes |-> (bytes[i] + Stream(key, i)) % 256]
  IN Iv \o ciphertext \o Tag(key, ciphertext)

(* Variant: an envelope without a ciphertext is taken for cut off. *)
NotLongEnough(envelope) == Len(envelope) <= IvLength + TagLength
TooShort(envelope) == Len(envelope) < IvLength + TagLength

(* None where decrypt throws. *)
Decrypt(envelope, key) ==
  LET end == Len(envelope) - TagLength
      encrypted == SubSeq(envelope, IvLength + 1, end) IN
  IF TooShort(envelope) \/ SubSeq(envelope, end + 1, Len(envelope)) # Tag(key, encrypted)
    THEN None
    ELSE [i \in DOMAIN encrypted |-> (encrypted[i] + 256 - Stream(key, i)) % 256]

(* A session key sealed with a public key, four bytes for the 256 of RSA.  *)
Seal(publicKey, key) == <<publicKey, key, 0, 0>>
(* None where decryptWithPrivateKey throws. *)
Unseal(privateKey, sealed) == IF Head(sealed) = privateKey THEN sealed[2] ELSE None

-----------------------------------------------------------------------------
(* MessageProtocol. *)

(* EVP_EncodeBlock: four characters for three bytes, the last group filled *)
(* up with '='.                                                            *)
EncodeBlock(data) ==
  LET at(i) == IF i <= Len(data) THEN data[i] ELSE 0
      groups == (Len(data) + 2) \div 3
      four(a, b, c) == <<a \div 4, (a % 4) * 16 + (b \div 16), (b % 16) * 4 + (c \div 64), c % 64>>
  IN [j \in 1 .. 4 * groups |->
        LET g == (j - 1) \div 4
            k == ((j - 1) % 4) + 1 IN
        IF 3 * g + k - 1 > Len(data)
          THEN Pad
          ELSE 128 + four(at(3 * g + 1), at(3 * g + 2), at(3 * g + 3))[k]]

(* EVP_DecodeBlock: three bytes for every four characters, with '=' as 0.  *)
DecodeBlock(chars) ==
  LET value(j) == IF chars[j] = Pad THEN 0 ELSE chars[j] - 128
      three(a, b, c, d) == <<a * 4 + (b \div 16), (b % 16) * 16 + (c \div 4), (c % 4) * 64 + d>>
  IN [i \in 1 .. (Len(chars) \div 4) * 3 |->
        LET g == (i - 1) \div 3 IN
        three(value(4 * g + 1), value(4 * g + 2), value(4 * g + 3), value(4 * g + 4))[((i - 1) % 3) + 1]]

Base64Encode(data) == IF data = <<>> THEN <<>> ELSE EncodeBlock(data)

(* Variant: one '=' at most is looked for. *)
OnePad(chars) == IF Last(chars) = Pad THEN 1 ELSE 0
Padding(chars) ==
  IF Last(chars) # Pad THEN 0 ELSE IF chars[Len(chars) - 1] # Pad THEN 1 ELSE 2

Base64Decode(chars) ==
  IF chars = <<>>
    THEN <<>>
    ELSE LET written == DecodeBlock(chars) IN
         SubSeq(written, 1, Len(written) - Padding(chars))

(* The stretches between the delimiters, one more than there are of them:  *)
(* the n-th delimiter is the one with n of them up to its place.           *)
Bars(chars) == {i \in DOMAIN chars : chars[i] = Bar}
NthBar(chars, n) ==
  CHOOSE i \in {j \in Bars(chars) : Cardinality({b \in Bars(chars) : b <= j}) = n} : TRUE

Split(chars) ==
  LET count == Cardinality(Bars(chars))
      after(n) == IF n = 1 THEN 1 ELSE NthBar(chars, n - 1) + 1
      upto(n) == IF n = count + 1 THEN Len(chars) ELSE NthBar(chars, n) - 1
  IN [n \in 1 .. count + 1 |-> SubSeq(chars, after(n), upto(n))]

(* The numbers of a message have one digit here. *)
Digit(n) == <<48 + n>>
Number(chars) == Head(chars) - 48
Flag(b) == IF b THEN 1 ELSE 0

Statuses == <<"Sent", "Delivered", "Read">>
StatusNumber(status) == SelectInSeq(Statuses, LAMBDA s : s = status) - 1

Serialize(m) ==
  m.messageId \o <<Bar>> \o m.sender \o <<Bar>> \o m.receiver \o <<Bar>> \o m.chatId
    \o <<Bar>> \o Digit(m.timestamp)
    \o <<Bar>> \o Digit(StatusNumber(m.status))
    \o <<Bar>> \o Digit(Flag(m.isGroupMessage)) \o <<Bar>> \o Digit(Flag(m.deletedForAll))
    \o <<Bar>> \o Base64Encode(m.encryptedSessionKey)
    \o <<Bar>> \o Base64Encode(m.encryptedPayload)
    \o <<Bar>> \o Base64Encode(m.encryptedSelfSessionKey)

(* None where deserialize throws; a line of ten fields has no key for the  *)
(* sender.                                                                 *)
Deserialize(chars) ==
  LET parts == Split(chars) IN
  IF Len(parts) \notin {10, 11}
    THEN None
    ELSE [messageId |-> parts[1], sender |-> parts[2], receiver |-> parts[3],
          chatId |-> parts[4], timestamp |-> Number(parts[5]),
          status |-> Statuses[Number(parts[6]) + 1],
          isGroupMessage |-> Number(parts[7]) # 0, deletedForAll |-> Number(parts[8]) # 0,
          encryptedSessionKey |-> Base64Decode(parts[9]),
          encryptedPayload |-> Base64Decode(parts[10]),
          encryptedSelfSessionKey |->
            IF Len(parts) = 11 THEN Base64Decode(parts[11]) ELSE <<>>]

-----------------------------------------------------------------------------
(* The two parties and the history. *)

(* Variant: the key that was sealed for the receiver, always. *)
ReceiversKey(u, m) == m.encryptedSessionKey
KeyToUse(u, m) ==
  IF m.sender = NameOf[u] /\ m.encryptedSelfSessionKey # <<>>
    THEN m.encryptedSelfSessionKey ELSE m.encryptedSessionKey

(* What user u reads in a message, None where that throws. *)
Read(u, m) ==
  LET key == Unseal(u, KeyToUse(u, m)) IN
  IF key = None THEN None ELSE Decrypt(m.encryptedPayload, key)

(* operator< of std::string. *)
Less(a, b) ==
  \/ IsStrictPrefix(a, b)
  \/ \E i \in DOMAIN a \cap DOMAIN b : a[i] < b[i] /\ \A j \in 1 .. i - 1 : a[j] = b[j]

(* Variant: the names are joined without anything in between. *)
JoinedKey(a, b) == IF Less(a, b) THEN a \o b ELSE b \o a
MakeConversationKey(a, b) ==
  IF Less(a, b) THEN a \o <<Colon, Colon>> \o b ELSE b \o <<Colon, Colon>> \o a

(* Variant: a copy of a group message is sealed for its sender. *)
SealedFor(u, v, g) == IF g = <<>> THEN v ELSE u
(* The public key the session key is sealed with: the receiver's. *)
SealedWith(u, v, g) == v

(* sendMessage for a direct message, one turn of the loop of               *)
(* sendGroupMessage else, up to the call of the transport.                 *)
Compose ==
  /\ stage = "typed"
  /\ \E key \in SessionKeys :
       message' =
         [messageId |-> <<49>>, sender |-> NameOf[from], receiver |-> NameOf[to],
          chatId |-> chat, timestamp |-> 7, status |-> "Sent",
          isGroupMessage |-> chat # <<>>, deletedForAll |-> FALSE,
          encryptedSessionKey |-> Seal(SealedWith(from, to, chat), key),
          encryptedPayload |-> Encrypt(text, key),
          encryptedSelfSessionKey |-> IF chat = <<>> THEN Seal(from, key) ELSE <<>>]
  /\ line' = Serialize(message')
  /\ stage' = "written"
  /\ UNCHANGED <<from, to, chat, text, event, view>>

(* The receiver's handler: handleIncoming notifies or drops the message.   *)
HandleIncoming ==
  LET m == Deserialize(line)
      plaintext == IF m = None THEN None ELSE Read(to, m) IN
  /\ stage = "written"
  /\ event' = IF plaintext = None
                THEN None
                ELSE [fromUser |-> NameOf[from], text |-> plaintext, chatId |-> m.chatId,
                      messageId |-> m.messageId, isGroupMessage |-> m.isGroupMessage]
  /\ message' = [message EXCEPT !.status = "Delivered"]
  /\ stage' = "stored"
  /\ UNCHANGED <<from, to, chat, text, line, view>>

(* The receiver is offline. *)
Miss ==
  /\ stage = "written"
  /\ stage' = "stored"
  /\ UNCHANGED <<from, to, chat, text, message, line, event, view>>

(* decryptToView *)
View(u) ==
  [messageId |-> message.messageId, fromUser |-> message.sender,
   toUser |-> message.receiver, chatId |-> message.chatId, text |-> Read(u, message),
   status |-> message.status, isGroupMessage |-> message.isGroupMessage]

(* getConversation: what the server keeps under the key of the two names.  *)
GetConversation(u, peer) ==
  /\ stage = "stored"
  /\ view' = [by |-> u, direct |-> TRUE, of |-> NameOf[peer],
              answer |-> IF ~message.isGroupMessage /\
                            MakeConversationKey(NameOf[u], NameOf[peer]) =
                              MakeConversationKey(message.sender, message.receiver)
                           THEN View(u) ELSE None]
  /\ UNCHANGED <<stage, from, to, chat, text, message, line, event>>

(* getGroupConversation: of the copies only that for the user. *)
GetGroupConversation(u, g) ==
  /\ stage = "stored"
  /\ view' = [by |-> u, direct |-> FALSE, of |-> g,
              answer |-> IF message.isGroupMessage /\ message.chatId = g
                            /\ message.receiver = NameOf[u]
                           THEN View(u) ELSE None]
  /\ UNCHANGED <<stage, from, to, chat, text, message, line, event>>

Init ==
  /\ stage = "typed"
  /\ from \in Users /\ to \in Users
  /\ chat \in GroupIds \cup {<<>>}
  /\ text \in Texts
  /\ message = None /\ line = None /\ event = None /\ view = None

Next ==
  \/ Compose
  \/ HandleIncoming
  \/ Miss
  \/ \E u, peer \in Users : GetConversation(u, peer)
  \/ \E u \in Users, g \in GroupIds : GetGroupConversation(u, g)

Spec == Init /\ [][Next]_vars

-----------------------------------------------------------------------------
(* The strings of the message in which a '|' takes the line apart. *)
Delimited == \E s \in {NameOf[from], NameOf[to], chat} : Bar \in Range(s)

(* What deserialize makes of a line is the message that was written, every *)
(* field of it, for all lengths of text and with the last field empty or   *)
(* not; and it refuses exactly the lines with a '|' in a name.  This is    *)
(* what ChatClient calls Parses.                                           *)
LineExact ==
  stage # "typed" =>
    Deserialize(line) = IF Delimited THEN None ELSE [message EXCEPT !.status = "Sent"]

(* The receiver's observers are shown the text that was typed, the empty   *)
(* one included, and its place; or nothing if the line was refused.        *)
EventExact ==
  stage = "stored" /\ message.status = "Delivered" =>
    event = IF Delimited THEN None
            ELSE [fromUser |-> NameOf[from], text |-> text, chatId |-> chat,
                  messageId |-> message.messageId, isGroupMessage |-> chat # <<>>]

(* A conversation holds the message for its parties and for nobody else,   *)
(* whichever of them asks, and shows both the text that was typed, also    *)
(* where the line was refused.                                             *)
ViewExact ==
  view # None =>
    LET party == IF view.direct
                   THEN chat = <<>> /\ {NameOf[view.by], view.of} = {NameOf[from], NameOf[to]}
                   ELSE chat # <<>> /\ view.by = to /\ view.of = chat IN
    IF party THEN view.answer # None /\ view.answer.text = text
                  /\ view.answer.fromUser = NameOf[from] /\ view.answer.toUser = NameOf[to]
             ELSE view.answer = None

(* With the private key of user u the payload opens through one of the     *)
(* sealed keys that the message carries, be it the one meant for u or not. *)
Opens(u, m) ==
  \E sealed \in {m.encryptedSessionKey, m.encryptedSelfSessionKey} \ {<<>>} :
    LET key == Unseal(u, sealed) IN
    key # None /\ Decrypt(m.encryptedPayload, key) # None

(* The sealed keys of a message that is on its way or stored are for its   *)
(* parties: who tries both of them opens a direct message exactly if he is *)
(* its sender or its receiver, and a group's copy exactly if he is the     *)
(* receiver of that copy.                                                  *)
PartiesOnly ==
  stage # "typed" =>
    \A u \in Users : Opens(u, message) <=> u = to \/ (chat = <<>> /\ u = from)

=============================================================================
