# Evlampy in TLA+

Evlampy is a messenger in one process: client objects register with a server
object, exchange RSA key pairs through it, and send each other messages that are
encrypted on the client and kept, encrypted, by the server. These modules model
that system as the C++ code has it and check it with TLC on small instances. With
TLAPS they prove every safety property that a run checks and finds kept, of the two
servers, the clients over them, the conversions of a message and both windows, for
every number of users, clients and messages. Paths below are relative to the
repository.

## The system

| Component | Code | State | Operations |
|---|---|---|---|
| Transport | `src/network/TcpServer`, `TcpClient` | online name → receive handler; per client `connected_`, `username_` | connect, disconnect, send (look the handler up, then call it) |
| Server state | `src/chat/ChatServer` | accounts with contacts, groups and their counter, direct and group histories | registerUser, authenticate, getPublicKey, add/removeContact, createGroup, storeMessage, getConversation, getGroupConversation, deleteMessageForAll |
| Client | `src/chat/ChatClient` | `registered_`, `loggedIn_`, `keyPair_`; key files under `~/.evlampy/keys` | registerOnServer, login, logout, sendMessage, sendGroupMessage, deleteMessageForAll, contacts, groups, handleIncoming |
| Messages | `src/chat/Message` | ids, status, the sealed session keys | build, generateId |
| Wire format | `src/network/MessageProtocol` | none | serialize, deserialize, base64 |
| Encryption | `src/encryption` | none | AES-256-GCM envelope, RSA key pairs, sealing and opening (OpenSSL) |
| Observer | `include/patterns/Observer.h` | the observers of a client | attach, detach, notify |
| Windows | `src/gui/main_gui.cpp` (Qt), `main_gui.mm` (Cocoa) | current client, selected chat, displayed messages | the buttons, the selection, onNotify |
| Console demo | `src/chat/main.cpp` | none | a fixed sequence of calls |
| Command, Logger | `src/patterns` | none that matters | forwarding, output |
| MessengerWindow | `src/gui/MessengerWindow.cpp` | – | in no build target; does not compile against `ChatClient` |

How they interact: a `ChatClient` holds references to one `ChatServer` and to the
`TcpClient` it owns. Sending reads the receiver's key from the server, hands the
serialized message to the transport, and stores it in the server's history only
after the transport has answered. The transport copies the receiver's handler
under its mutex and calls it after the mutex is released. The handler is
`handleIncoming` of the receiving client, which decrypts and notifies the
observers, and these may call anything, the same or another client included,
before the first send goes on. `TcpServer` and `ChatServer` have one mutex each;
`ChatClient`, `TcpClient` and `Subject` have none.

What is hard here:

- **Interleaving.** The shipped programs create no thread, although the servers
  are written for threads. The interleaving they really have is re-entrancy:
  between the lookup of a handler and its call, and between the call and the
  storing, observers of the receiver run. A model in which the steps of sends
  interleave freely covers both, nested activations being one of its schedules.
- **Order of two effects.** A message is delivered before it is stored.
- **Partial failure.** Key files may fail to be written; a handler may fail to
  decode; one copy of a group message may be deleted and the others not.
- **Restart.** Accounts and histories are lost, the key files are not.
- **Two objects of one user.** They compete for one name and one pair of files.

What makes each part correct: the transport gives a name to one client and calls
the handler of the addressed name's holder exactly once per send; the server never loses or mixes
up accounts, groups or messages, and gives either party the same conversation; a
logged-in client is online under its own name with the key pair the server hands
out; what a client is shown it can open; the recorded status of a message is
true; a group message reaches every member's history once; a window shows what the
history of the open chat holds, and this chat is the logged-in user's own.

## Modules

| Module | Models | Uses |
|---|---|---|
| `Maps` | `std::unordered_map`: emplace, assignment, erase | community `Functions` |
| `Presence` | what the transport promises, without the handler map | `Maps` |
| `TcpServer` | `TcpServer` and `TcpClient` | `Maps`, `Presence` by `INSTANCE` |
| `ChatServer` | `ChatServer` | `Maps` |
| `ChatClient` | clients, key files and sends over both servers | `INSTANCE` of `ChatServer`, `TcpServer` and `MessageLife` |
| `MessageLife` | what the messenger promises for one message | |
| `MessagePath` | the conversions a message goes through: AES envelope, sealing, base64, fields, history | community sequences |
| `WindowBase` | what the two windows have in common: a reduced server, the user, the open chat, the rows | community sequences and sets |
| `QtWindow` | the slots of `main_gui.cpp` | `WindowBase` |
| `CocoaWindow` | the actions of `main_gui.mm` and its table delegate | `WindowBase` |
| `TcpServerProofs`, `ChatServerProofs`, `ChatClientProofs`, `MessagePathProofs` | lemmas and theorems of one module each | TLAPS |
| `MessageLifeProofs` | further theorems of `ChatClient`: what becomes of messages | `ChatClientProofs` |
| `WindowProofs` | lemmas of both windows: sorted lists, lists without a row, the reduced server | TLAPS |
| `QtWindowProofs`, `CocoaWindowProofs` | theorems of each window | `WindowProofs` |
| `MCTcpServer`, `MCChatServer`, `MCChatClient`, `MCMessagePath` | instances for TLC | |

Correspondence. A name is a natural number, its place in the order of
`std::string`: `makeConversationKey` and `std::set` need an order and nothing
else of it. A history vector is the set of its entries; each has the place it was
appended at, so order and repetitions are kept. RSA keys are numbers, and what is
sealed with public key *n* opens with private key *n* only; `NoKey` is an empty
string or vector. A password stands for its digest. Text, session key and
ciphertext of one send are one payload number. `erased`, `places`, `inbox` and
`events` are histories of what happened; no guard reads them but the bounds.

`TcpServer`: `Connect`, `Disconnect`, `SendLookup` (the locked half of `sendTo`,
with the tests of `TcpClient::send`) and `Deliver` (the unlocked call of the
handler). `connect` looks at `connected_`, then emplaces; since a client's own
flag is not shared, the two are one step. A send in flight records the name it was
addressed to besides the handler. `Presence` knows no handlers: its `Send` takes
place when a client holds the addressed name, and hands over to that client.

`ChatServer`: one action per operation that changes state, one operator per
read-only operation; each runs under the mutex and calls nothing outside. A call
that returns false changes nothing and is a stuttering step. An id
`"group-" n "-" name` is the pair `<<n, name>>`.

`ChatClient`: `Register`, `LogIn`, `LogInFails` (which may still replace
`keyPair_`), `LogOut`, `Restart`, the contact, group and deletion calls, and the
sends as calls in progress (`calls`): `BeginSend`/`BeginGroupSend`, `NextMember`
(one turn of the loop), `FindReceiver`/`MissReceiver`, `HandOver` (the handler,
`handleIncoming` and the notification), `Store`, `EndGroupSend`. `Write` is what
saving does to a key file: written, opened and left empty, or not touched.

`MessageLife` is the abstract specification of sending: a message is on its way,
handed over at most once and only there, stored with the status that says so,
unchanged until its sender deletes it, and then gone; the end of the process
loses it. `ChatClient` implements it by `LifeOf`, which reads the stage of an id
off the calls in progress, the histories, `erased` and the handlers' `inbox`.

`MessagePath` follows one message. A string or a vector of bytes is a sequence of
codes, and `Serialize`, `Deserialize`, `Split`, `Base64Encode`, `Base64Decode`,
`Encrypt` and `Decrypt` do what the code does with their lengths, fields and
padding. External, and modelled by stand-ins, are the blocks of base64
(`EVP_EncodeBlock` writes code 128 + v for the six bits v), the key stream and the
tag of AES, and RSA, which the right key alone undoes. The tag vouches for the length
and for sixteen bytes, enough to tell a text that base64 gave a byte too many or too
few. Numbers have one digit, key pairs and session keys are a byte each, an RSA block
has four bytes: like the real 256 that leaves one over when divided by three. `Split`
numbers the delimiters and takes what is between them instead of walking along the
string, so that proofs can expand it. `PartiesOnly` lets every user try both sealed
keys (`Opens`), not only the one that the code picks for that user. `LineExact` is where `Parses` of `ChatClient` comes from.

`WindowBase` reduces the server to names, contacts, groups and one list of stored
messages: one user is logged in at a time, and the rest is `ChatClient`'s.
`watches` counts how often each client's `observers_` holds the window. It has
the part of each slot that calls the client; the windows add what they show.

`QtWindow`: one action per slot, `Register`, `LogIn`, `LogOut`, `Refresh`,
`NewChat`, `CreateGroup`, `ClickChat`, `MoveToChat`, `SelectRow`,
`SendCurrentMessage` and `DeleteSelectedMessage`, each with the slots Qt runs inside
it and with the notifications a send causes. A slot that only shows a message box is
a stuttering step. Of Qt itself the following is taken as given.

- `setCurrentRow` and `setCurrentItem` change the selection first, which emits
  `itemSelectionChanged`, and the current item afterwards; so do the keys and a
  drag of the mouse (`MoveToChat`). A press of the mouse changes the current item
  first (`ClickChat`).
- Clearing the list drops the selection while the old item is still current.
- Selecting the item that is selected already emits nothing.
- Removing the current row of the table makes the next one current, or the last.

Left out is Ctrl with a click on the selected item, which deselects it and opens its
chat.

The slot at `main_gui.cpp:215-221` reads the current item, so it opens the old one
whenever the selection changes first. Hence `selected`, the chat in
`selectedChatId_`, and `marked`, the current item, are two variables. After a login
the first chat is marked and none is open; after a refresh the first is marked and
the one marked before is open; after New chat and Create group the new chat is marked
and the first is open; a key opens the chat it leaves. `SentToMarked` states what a
user would expect, and `window_selection` violates it. What the code does keep is
`SelectionOwn`, that both chats are the logged-in user's, and `RowsTrue`, that the
rows are those of the open one.

`CocoaWindow`: one action per method, `OnRegister` to `OnChatDoubleClick`, and
`ClickChat`, `DeselectChat` and `ClickMessage` for `tableViewSelectionDidChange`,
which hears of both tables and looks at the chats only. Of AppKit it is assumed
that `reloadData` keeps a selected index the table still has, and that a
selection made by code reaches the delegate. `refreshMessages` reloads first with
no rows and then with the new ones; whether the table drops the mark in between
is left open, as is then whether a clicked message stays marked.

Definitions marked *Variant* are defective versions that `Next` does not use.
They state which mistake each property would reveal, and the module is checked
with each of them put in the place of the definition that follows it.

## Runs

| Run | Instance | Shows |
|---|---|---|
| `transport` | 2 clients, 2 names, 2 overlapping sends, 2 payloads | `TypeOK`, `RegistryAgrees`: map and flags agree; `ImplementsPresence`: the refinement |
| `server` | 3 users, 2 passwords, 2 groups, seven messages; accounts, contacts, groups and stored messages at most five together | `TypeOK`, `ReferencesResolve`, `GroupNumbersUnique`, `ConversationsExact`, `AccountsPermanent`, `GroupsPermanent`, `NothingLost` |
| `sessions` | 2 client objects of one user and 1 of another, from an empty process; 3 key pairs, a restart, a send | `SessionsExclusive`, `KeysAgree`, `HistoryReadable`, `DeliveredShown`, and `ImplementsMessageLife`: the refinement, with a restart |
| `group` | one send to 3 members, one with a `\|` in the name, fairness | `FanoutExact`, `DeliveredShown`, `ImplementsMessageLife`, and `CallsReturn`: the send returns |
| `overlap` | 2 overlapping sends of any kind, 2 clients | `TypeOK`, `StatusTrue`, `StoredOnce`, `ErasedStaysErased`, `FanoutExact` |
| `path` | one message between any two of 5 users, one with a `\|` in the name, 2 groups, 4 texts, 2 keys | `LineExact`, `EventExact`, `ViewExact`, `PartiesOnly` |
| `window` | Qt, 2 users, 1 group, 2 sends | `TypeOK`, `SelectionOwn`, `RowsTrue`, `WatchedOnce`, `MarkStays` |
| `cocoa` | Cocoa, 2 users, 1 group, 2 sends | `TypeOK`, `SelectionOwn`, `RowsExact`, `DeletedDisappears`, `WatchedOnce`, `MarkStays` |
| `group_deletion` | a group of 2, one send | violates `DeletedForEveryone` |
| `corrupted_keys` | files that are opened and not written | violates `CorruptedKeyRefused` |
| `window_deletion` | the instance of `window` | violates `DeletedDisappears`, which the Cocoa window keeps |
| `window_selection` | Qt, 2 users, 1 group, 1 send | violates `SentToMarked` |

The last four runs check what the documents or a comment say and the code does
not do; PROJECT.json quotes the line and says what the counterexample shows. The
states of `corrupted_keys` also hold accounts whose files were not written at all:
`registerOnServer` returns true for them, and no login ever succeeds.

Bounds: `MaxInbox`, `MaxGroups`, `MaxPlaces`, `MaxKeys`, `MaxSends` and
`MaxRestarts` cap the counters and appear only in guards of `Next`. They are
enough for the cases the properties are about. Names and handlers are contended
by pairs, so two clients and two names show every order of connect, disconnect
and lookup. An overlap of two sends covers the pairwise orders of their steps,
and of both with a logout, a login and a deletion; a loop over three members has
a first, a middle and a last turn. Three key pairs and one restart let a name be
registered, lost and registered again with a second client object holding
the old pair. Three users are the fewest with a conversation that the third must
not see. At the window, two users and two sends show a row that the notification
added next to the one the window adds itself, a current row that moves, and a
chat left by one user and found by the next. With a second contact and a group
there are three chats, so the marked chat, the open one and the first can all be
different when a refresh comes, with a current row in the open one. In `server` the bound is a `CONSTRAINT`
on the sum, so that each kind of operation meets each other one, up to three stored
messages among them; removals and deletions are taken from every state. In
`path` the texts have every remainder by three and end in zero, 255 and the
separator's code; two of the names joined give what two others do. The proof modules remove the bounds
for the properties they prove.

`group`, `overlap` and `group_deletion` start in
`Ready`, where all have registered and logged in and one group exists: a state
that `Register`, `LogIn` and `CreateGroup` reach from `Init`. `overlap` uses the
symmetry of the callers; it checks invariants only. `CHECK_DEADLOCK FALSE` is
set where everything there is to do may have been done.

Fairness: `CallsReturn` assumes weak fairness of the steps of each send. A send
that has been called runs on: it waits for no other caller, and each mutex is
held for a bounded number of statements. What it does assume is that observers
return; an observer that calls a send again gives that send its own steps.

## Proofs

`TcpServerProofs`. The invariant is `TypeOK /\ RegistryAgrees`. The parts need
each other: the lookup hands `username_` of the sender to the receiver, and that
this is a name, not the empty string, is the registry's; that a disconnect
erases no other client's entry is the registry's too. With it `Connect` is
`SignOn` of `Presence` (no handler under a name means that nobody holds it) and
`SendLookup` is `Send` to the holder of the addressed name. Assumed: `NoName` is no
name.

`ChatServerProofs`. The invariant is `TypeOK` with `ReferencesResolve`,
`GroupNumbersUnique`, `ConversationsExact`, and the lemma that `ConversationKey`
identifies the unordered pair (`KeyIdentifiesPair`), for which names are numbers.
That the counter exceeds every number given out makes the emplace of
`createGroup` always effective, which `GroupsPermanent` needs. The action
properties are proved from the same invariant. Assumed: the shape of the
messages that `storeMessage` is given.

`ChatClientProofs`, in three layers, each resting on the one before.

1. `SInv` adds types and the registry of the transport to the equality of the
   flags. Two clients are not logged in under one name because the one handler
   under the name would have to be the handler of both: `SessionsCorrect`.
2. `KInv` says that the key files of every account hold the account's own pair,
   and that a logged-in client has it. A failed registration replaces `keyPair_`,
   but only of a client that is not registered, hence not logged in, and the next
   login loads the pair from the files again: `KeysCorrect`.
3. `HInv` says that every message, from the moment it is built, in a send still
   running and in the histories, is sealed for the keys its two parties have on
   the server. It is kept because no account changes its key (`UsersKept`) until
   a restart, which takes the messages with it. With the second layer a client
   opens all it is shown: `HistoryCorrect`.

The second and third theorem assume that saving the key files succeeds (`Saves`);
`corrupted_keys` shows what may result when it does not.

`MessageLifeProofs`. `StoredOnce` and `ErasedStaysErased` say nothing of the sends
still running, and a send that carried the id of an entry would break both when it
stores. The invariant `LInv` adds that: ids in use are below the counter
(`CallIds`, `EntryIds`), no two sends carry one id, and no send carries the id of
an entry, erased ones included (`Apart`). Building takes an id that nothing has;
storing passes it from the call to one new entry at a place of its own; a deletion
moves entries to `erased` and leaves the set of both as it was. That gives
`StoredOnceCorrect` and `ErasedCorrect`, with no assumption beyond those on the constants.

`TInv`, in `ChatClientProofs`, is the type invariant with what it needs of the
frames: `TypeOK` alone does not say which parts of a call in progress are set at
which of its steps. Types depend on sessions too: that a handler is told a user's
name, not the empty string, is `SInv`'s. Hence `ClientTypesCorrect`, where only
built messages are handed over and stored. Assumed: `NoMessage` is no message.

`StatusTrue` relates a stored status to `inbox`, what the handlers were ever called
with. `DInv` says the same of every moment before: a message being built is in no
inbox; one that is looked up is in `sending` exactly while its handler is still to be
called; then it is in one inbox, once. It needs the freshness of ids (`LInv`), since
an id used twice would count twice. `Inv` is `SInv /\ TInv /\ LInv /\ DInv`, and from
it `StatusCorrect`.

`MessageLifeCorrect` is the refinement. `LifeOf` reads a stage off the calls, the
histories and `erased`. Under `Inv` these never disagree on an id (`Carried`, `Kept`
and `Gone` are the three kinds), so each action changes the stage of one message at
most: building is `Build`, the call of the handler `HandOver`, storing `Store`, a
deletion `Delete`, the end of the process `End`, and every other step a stutter.

`FanoutCorrect`. `FanoutExact` speaks of group messages that are not being sent any
more. `FInv` says of those still being sent that the receivers of the stored copies
and the members the call has left divide the group between them (`CallsServe`); that
copies with one payload have one sender and group (`CopiesAgree`); and of the others
that their copies, erased ones included, went to all members (`AllServed`).

`ShownCorrect` adds what handlers did with what they were given. `EInv` says of every
message that its observers were shown it once if its handler was called and could
parse it, and otherwise never. The handler decrypts with the key of the client that
registered it; that this is the receiver's key rests on `KInv` and `HInv`, so the
theorem assumes `Saves` as they do.

The windows. Their lists are sorted and cut by `Ascending` and `AtPlaces`, which say
which elements stand at which place (`AscendingFacts`: each element is at its rank,
the number of smaller ones). A list without one row, or with one more at the end, is
then the sorted list of the smaller or larger set. Both invariants contain
`ServerOK` (contacts and members are users), `WatchedOnce`, `HistoryOK` (places and
ids in the order of storing) and that the open chat belongs to the user.

- `QtWindowProofs`: the rows are changed one by one, so the invariant says of each
  row with an id which stored message it shows, that these rows are in the order of
  the history, and that each message of the open conversation has a row (`Fit`);
  without an open chat no row is a message (`Blank`), and without a user there is no
  list (`ListOK`). The open chat is not the marked one in general, and a refresh that
  fetches two chats one after the other keeps the current row if both hold its
  message (`RefetchKeeps`). From it `SelectionCorrect`, `WatchedCorrect`, `RowsCorrect`,
  `TypeCorrect` and the action property `MarkCorrect`.
- `CocoaWindowProofs`: the rows are the open conversation after every method, and
  the marks are within their tables (`Marks`). From it the theorems of the same
  names. That a deleted message is gone for good needs that what a user deletes in
  a group is the user's own copy (`OwnDeleted`): `DeletedCorrect`. The Qt window
  violates the property.

Assumed for both: the names are a finite set of positive numbers, the bounds are
numbers, and no chat is `NoChat`.

`MessagePathProofs`. First what each conversion does for every string: decrypting an
envelope gives the text back, whose length the envelope must keep even when it is
zero (`DecryptEncrypt`); base64 is undone, for each remainder by three
(`Base64Undone`); a string joined from parts without a delimiter is split into these
parts, and a delimiter in a part makes one part more (`ElevenCut`, `ElevenMany`); two
names without a colon can be read off their conversation key, and `operator<` makes
the key the same from either side (`KeyNamesBoth`). With these the invariant `MInv`
is short: the line is the serialization of a message composed with some session key,
the message is still that one but for its status, and `EventExact` and `ViewExact`
hold. It gives all four theorems; for `PartiesOnly`, whoever opens one of the two
sealed keys is one of the users it was sealed for (`OpensBy`). Assumed: names have no colon and are those of one
user each; texts, names and ids are strings of bytes; `None` is no key, text,
message or view. What is proved of OpenSSL is proved of its stand-ins.

Out of the prover's reach is `CallsReturn`, since it rests on fairness: TLC alone
checks it, in `group`. The four runs that expect a violation have nothing to prove.

## Not modelled

- The destruction of client objects. `TcpClient` captures `this` in the handler
  and has no destructor that disconnects, so destroying a logged-in client leaves
  a dangling handler. `scenario_persistence_relogin.cpp:25-31` does it while the
  server lives, and nobody sends to that name afterwards; the demo and the windows
  keep their clients for the life of the server.
- Names that hold a colon: `"a::b"` joined with `"c"` and `"a"` with `"b::c"` give
  one conversation key. `ChatServer` states this as its assumption, and the
  names in `path` hold none.
- A change of the observers inside a notification, which would invalidate the
  iterator of `notify`. No observer of the repository makes one: the windows attach
  and detach in the slots of their buttons.
- Timestamps, the text of log lines, `Logger`, `Command`, build and container
  files, OpenSSL itself, and `MessengerWindow`, which is in no build target. The
  console demo is one behaviour of `ChatClient`.
- A placeholder for deleted messages. `tests/docs/test_scenarios.md:25` promises the
  text `[message deleted]` to the receiver; the code, the unit tests and the scenario
  itself have the message gone, as the modules do, so the document is out of date.
- The files under `build-tests`: GoogleTest and its build output, third-party code
  that is most of the C++ in the repository by size and no part of the messenger.

## Plan

1. Done: `TcpServer` with `Presence`, `ChatServer`, `ChatClient` with
   `MessageLife`, `MessagePath`, `QtWindow` and `CocoaWindow` over `WindowBase`, and
   the theorems of all of them.
2. `MessagePath`: numbers of more than one digit, so that the round trip of a line
   covers the timestamp, and lines of ten fields as an input of their own.
3. The two windows as instances over `ChatClient` instead of the reduced server of
   `WindowBase`, with the notifications of several users at once.
