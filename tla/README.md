# Verification of the message server

TLA+ specifications, TLC configurations and TLAPS proofs for the messaging
system of this repository: a server in C that registers users, connects them,
stores and delivers their messages (`src/src/server.c`, `src/src/users.c`), and
Python clients (`src/src/clients/`). Paths below are relative to `src/`.

    tlasany M.tla                                parse a module
    tlc -workers 2 -config X.cfg M               check a configuration
    tlapm M.tla                                  check the proofs of a module

## 1. The system

| component | state it keeps | operations | talks to |
|---|---|---|---|
| Data base, `src/users.c` | tables `users` (status, ip, port, msg_counter) and `messages` (id, sender, receiver, ...) in a SQLite file; `db_mutex` | `user_add`, `user_remove`, `user_connect`, `user_disconnect`, `user_get_conn_info`, `users_get_connected`, `msg_add`, `msg_get_next`, `msg_delete` | SQLite |
| Server, `src/server.c` | one detached thread per connection, its local variables; nothing shared but the data base | REGISTER, UNREGISTER, CONNECT, DISCONNECT, SEND, SENDATTACH, USERS; `conn_deliver` | data base, clients' listeners, log service |
| Request parsing, `recv_msg` | `raw_buf`, `message_fields` | bytes to fields | |
| Connected users, `handle_users` | the names read, on the stack | USERS | data base, one client |
| Client, `src/clients/commands.py` | `_connected_user`, `_listening_thread`, `_terminate`, `_client_port`; a console thread and a listening thread | the commands of the console; the listener | server, web service |
| Files between clients, the same file | a cache of addresses; a thread at each end of a transfer | USERS, GETFILE, `_handle_get_file`, `_handle_send_file` | server, other clients |
| Command line, `src/clients/client.py` | none | a line to a call | client |
| Log service, `src/rpc/` | its output | `registrar` | called by the server |
| Web service, `src/ws/ws.py` | none | normalises blanks | called by the client |

A client opens one TCP connection per request; the server starts a thread for
it, which reads the request, runs one handler and ends. The handlers of
different requests interleave at every call to the data base, because
`db_mutex` is taken and given back inside each function of `users.c` and never
across two of them. CONNECT is the special one: it marks the user connected,
answers, sleeps 100 ms so that the client can open its listening socket, and
then delivers what waits, one message after another, while SENDs to the same
user deliver on their own.

What is hard here, and what makes each part correct:

* **Delivery by several threads.** Two threads may deliver one message, or each
  may believe that the other will. Correct: no message vanishes, none waits for
  a connected user with nobody in charge of it, CONNECT delivers in order, an
  acknowledgement is true, and everything ends.
* **Facts read in one call and used in another.** The address of the receiver,
  the identifier to delete, the check of DISCONNECT, the existence check of
  SEND: all may be out of date.
* **Identifiers.** A counter per receiver that wraps, and that starts again
  when a user is registered again; `msg_delete` trusts it.
* **Failure.** The process may die anywhere and restart on the same file, with
  users still "connected"; clients vanish without a DISCONNECT; `socket()`
  fails; SQL statements fail and their codes are partly ignored, so that
  `user_remove` and `msg_add` may do half of what they are for.
* **Waits without an end.** The loop of CONNECT runs as long as it finds messages;
  of the client's sockets, those that `accept` returns have no timeout, and
  whoever connects and sends nothing holds a thread.
* **Atomicity of `users.c`.** Several statements without a transaction: the
  mutex and the order of the statements are all that protects them.
* **Client.** Two threads share fields without a lock, and the session of the
  client and that of the server can disagree. Correct: at most one listening
  thread, no session at the server without its listener and none the other way
  round, and nothing left over after DISCONNECT.
* **A list that changes while it is written.** USERS reads the names once and then each
  address on its own; GETFILE trusts addresses of the last USERS, at which somebody
  else may listen by now, and takes the end of the stream for the end of the file. And a
  line `name::ip::port` is split at ':' and blanks, which a name may have too.
* **Text.** Buffers of fixed size, a separator that may be typed, characters of
  several bytes: a cut or a moved field must not reach the wrong argument, and
  must not end a thread.

`PROJECT.json` lists the hazards at their lines with the properties for each.

## 2. The modules

    UserStore  <-EXTENDS-  Server  <-EXTENDS-  MCServer, ServerOrder (runs)
       ^  ^                   ^
       |  |                   +--EXTENDS-- ServerProofs --EXTENDS--> UserStoreProofs
       |  +--EXTENDS-- StoreSteps --INSTANCE--> AtomicStore --EXTENDS--> UserStore
       +--EXTENDS-- UserStoreProofs

    UserStore  <-EXTENDS-  Client  <-EXTENDS-  MCClient
    UserStore  <-EXTENDS-  Peers   <-EXTENDS-  MCPeers
    Server --INSTANCE--> Mailbox
    StoreStepsProofs, ClientProofs, PeersProofs --EXTENDS--> UserStoreProofs
                     and StoreSteps, Client, Peers

    Text  <-EXTENDS-  Wire  <-EXTENDS-  MCWire
      ^                 ^
      |                 +--EXTENDS-- WireProofs --EXTENDS--> TextProofs
      +--EXTENDS-- TextProofs

**UserStore** is `users.c` with one operator per function. `users[n]` is the row
of user `n` or `NoUser`; `messages` is a set of rows. Texts and file names are
left out. A row carries a number that only grows, in the place of SQLite's
rowid: a scan without ORDER BY meets rows in that order, which is what
`msg_get_next ... LIMIT 1` relies on. `rc` is what the function returns. `HalfRemove`
and `SkippedId` are what `user_remove` and `msg_add` leave when a statement fails or
the process dies inside them.

**StoreSteps** is the same file one SQL statement at a time: `Lock`, the
statements, `Unlock`. A statement may fail (at its `prepare` or its `step`,
which the code does not always tell apart) and the process may die between two
statements; what was committed stays, the mutex does not. **AtomicStore** says
what this amounts to for the callers: one operation at a time, and after a
failure or a death the half-done effects of `HalfRemove` and `SkippedId`
and no other, the same that Server has. `FunctionsAreAtomic` is the
refinement, with the tables hidden from the moment the mutex is taken until it is given
back (`Visible`). It is what justifies `UserStore`'s one step per function.

**Server** is `server.c` over UserStore. The state of a thread is its local
variables and `pc`, the call it makes next:

| `pc` | code | action |
|---|---|---|
| idle | the thread is about to read a request | `Register`, `Unregister`, `Connect`, `SendCheck`, `Disconnect` |
| next | `while (msg_get_next(...) == 0)` in `handle_connect` | `DrainNext` |
| add | `msg_add` in `handle_send`, `handle_send_attached` | `SendAdd` |
| lookup | `user_get_conn_info(receiver)` in `conn_deliver` | `Lookup` |
| connect | `socket`, `connect` | `ConnectPeer` |
| send | `send` to the receiver | `SendPeer` |
| gone | `user_disconnect(receiver)` after either fails | `Gone` |
| delete | `msg_delete` | `Delete`, `DeleteFails` |
| ack | `user_get_conn_info(sender)`, the acknowledgement, return | `Ack`, `AckFails` |
| disconnect | `user_disconnect` in `handle_disconnect` | `DisconnectUser` |
| idle | a DELETE of `user_remove` that fails | `UnregisterFails` |
| add, next, lookup, connect, gone, disconnect | a statement or `socket` that fails | `CallFails` |

A first call that fails before it has written anything, in REGISTER, UNREGISTER, CONNECT,
DISCONNECT or SEND, only makes the handler answer its error: nothing changes. A
`user_remove` whose first DELETE fails deletes the user without the messages, and one
whose second fails the messages without the user. A `msg_add` that fails may have taken an
identifier.

The environment: `ClientListens` (the listener opens some time after CONNECT was
answered), `ClientLeaves` (it closes, with or without a DISCONNECT; the address
may then serve another user), `Crash` (the process dies and is started again on
the same file, on which `CutShort` may have left half a `user_remove` or half a
`msg_add`). The sleep and the log calls are places where other threads run,
which is any place. `DeleteFails` is the DELETE whose result `conn_deliver` does
not look at: the message stays, the sender gets its acknowledgement, and the loop
of CONNECT finds it again. Seven history variables say what became of each row:
`sent`, `handed`, `acked`, `dropped`, `undeleted`, `orphaned`, `stranded`. **ServerOrder**
adds one more, the rows stored while their receiver was away, for the one property
that asks for it.

**Mailbox** is what the server owes its users, without threads, addresses or
failures: a store that keeps each message until it was handed over at least
once, or its receiver asks to be unregistered (an UNREGISTER that deletes the messages and
then fails is one too), and receipts for what was handed over only. Server maps
onto it (`Mail`): `accepted` is `sent`, `waiting` the table, `out`, `forgone`
and `receipts` the histories `handed`, `dropped` and `acked`. `MailboxIsKept`
is the refinement.

**Client** is the session of one client process: the console thread inside
`connect`, `disconnect`, `send` and `quit`, the listening thread inside
`_listen_server`, and the three fields both write. The step of a thread is a
request, its answer, or an assignment to a shared field that the other thread
may come between: `disconnect` alone is `AskDisconnect`, `Told`, `Forget`, `Test`,
`Join`, `Joined`, `Clear`, `Done`, and the end of the listening thread is the three
assignments `Tail`. Between two tests of `_terminate` (`LoopTest`) that thread is in `accept`,
which has a timeout (`Stop`), or `held` by a peer that has connected and that it reads
without one (`Hold`, `Release`). The server is `UserStore`: it serves a request in one step, also
one whose sender has stopped waiting (`ServeLate`). Around it other processes, on
this machine and another, register, connect and disconnect the same users
(`Others`). `mishaps` records which of the five things the code allows to go
wrong did: each property names the ones it excuses.

**Peers** is USERS and GETFILE: `handle_users` from `Check` over `List`, which sends
the code, `SendCount`, which sends the count, and one `Line` per name to `Close`: the
server may end between any two of them. The client reads from the other end of the
`pipe` into its cache, and the two threads of a transfer move its blocks. A line travels
as a name and an address, and `ReadAs` is what the client takes it for: `Pieces` gives the words
that `replace(':', ' ').split()` makes of a name, each of which may be a user, a host or a number,
and the tests of the second and the third word decide, as in the code. A copy may
fail on the side that receives (`CopyFails`), stop for ever when the owner keeps silent,
and end early when the owner is killed.
Meanwhile the other clients `Arrive`, `Depart`, and `Vanish` without the server
noticing, and may take each other's ports. `during` and `throughout` remember who was
connected while the list was written.

**Wire** follows the text of one command: `ReadInput` (the split of the line),
`Normalise` (the web service), `Request`, `Receive` and `SplitField` (the two
loops of `recv_msg`), `Dispatch`, `Store`, `Deliver` and `Ack` (the frames of
`conn_deliver`), `Show` and `ShowAck` (what the listening threads make of them).

**Text** is what these do to strings: `Cut` (a buffer), `Split` and `Join` (a
separator), `QuitarEspacios` (the web service). A string is a sequence of atoms: a word
with its length in bytes and the bytes of its characters, a blank, a separator. Blanks are
the space, at which the console splits, and a tab and a no-break space for those of
one byte and of several that `split()` in `ws.py` takes for spaces too. So
what does not fit a buffer is cut where the code cuts it, inside a character too, without
a byte being spelt out. The operators go through a string with a recursive
function over its positions, which the prover can reason about.

The four meet in the data base: Server shows what lies inside a request that
Client and Peers take in one step (`StoreSteps` does the same for `users.c` under
Server), and Wire shows that the fields a handler starts from are the arguments
of the call.

**MCServer** adds the symmetry of threads for TLC; **MCClient**, **MCPeers** and
**MCWire** the addresses and the lines typed. **UserStoreProofs** holds the lemmas about
the functions of `users.c`, **TextProofs** those about the operators of Text; **ServerProofs**,
**StoreStepsProofs**, **ClientProofs**, **PeersProofs** and **WireProofs** the theorems.

An operator whose name begins with `Wrong` is not part of the model: it is the
definition after it with a plausible mistake. Each property is known to fail
when one of them takes the place of its definition (`PROJECT.json`, "mutants"):
a property that survives every mistake would say nothing.

## 3. The runs

Passing:

| run | question | states |
|---|---|---|
| `server_safety` | two threads, a user that sends to itself, two addresses, two messages, a crash or a call that fails (`socket` or any statement, with what it leaves half done): `NoStranded`, `DrainInOrder`, `AckedIsSettled`, `NoOrphans`, and `Inductive`, the invariant of the proofs, of which `NoSilentLoss` and `UniquePendingIds` are conjuncts | 1.3 million |
| `server_wrap` | three messages, two identifiers and a fault: the counter wraps. `NoSilentLoss` and `UniquePendingIds` hold in the weaker form they are stated in: a message may be deleted in the place of one that shares its identifier, and no other way; and so does `MailboxIsKept` | 2.1 million |
| `server_liveness` | `WaitingEnds`, `ListenerGetsAll`, `HandlersEnd`, with one crash or failed call, or one row whose DELETE fails as often as it likes | 76 thousand |
| `client` | both threads of a client, two users, other processes here and elsewhere, one fault: `OneListener`, `NoGhostSession`, `SessionIsTrue`, `DisconnectCleans`, `NoStaleStop`, `SenderIsKnown`, `DisconnectReturns`, and `ClientInductive` | 611 thousand |
| `peers` | a client and two others that take each other's ports, room for two names, a file of two blocks, names with a ':' in them, one fault: `CacheWasTrue`, `ListsTheConnected`, `FileIsWhole`, `CallsEnd`, and `PeersInductive` | 240 thousand |
| `wire` | some 330 lines with short, long, empty and multi-byte words, spaces, tabs, other blanks and separators, from the console to both ends: `FieldsAreSplit`, `ArgumentsArrive`, `FrameFits`, `ShownAsSent`, `AckNamesMessage`, `ListenerSurvives` | 18.8 thousand |
| `store_steps` | two callers, every function of `users.c`, one failing statement, one death: `FunctionsAreAtomic`, `CodesAreTrue`, `NoOrphansBarringErrors`, `MutexIsReleased`, and `StepsInductive` | 357 thousand |

Violated, each for what a comment or the report says of the program:

| run | said | what happens |
|---|---|---|
| `server_order` | messages stored offline arrive in the order they were sent (`report/report.typ:473`) | a SEND that stored its message before the receiver connected delivers it itself, ahead of older ones |
| `server_sameip` | the check of DISCONNECT keeps others from disconnecting a user (`report.typ:89`) | between check and write the user may be connected anew from elsewhere |
| `server_gone` | "se fue sin desconectarse" (`src/server.c:64`) | a delivery tried before the listener opens disconnects a user that is there |
| `server_reregister` | what is not delivered waits for the next CONNECT (`report.typ:97`) | a late `msg_delete` deletes the message of a new registration that has the same identifier |
| `store_orphans` | no orphaned messages (`src/users.c:120`) | the failure of that DELETE is ignored |

`stranded`, in `NoStranded` and the liveness properties, names the exceptions the
code really has: rows whose delivery a crash or a failed call cut short
while the user stayed connected. They wait until that user connects again. `orphaned`, in
`NoOrphans` and `UniquePendingIds`, are the rows that a `user_remove` left whose first DELETE
failed: they have no receiver until somebody registers the name again, whose identifiers then
begin at 1 beside theirs; `store_orphans` shows it. `undeleted` are rows whose
own DELETE failed, handed over and still in the table.
`NoSilentLoss` names its other exception: two messages of one receiver with one
identifier. The `mishaps` of Client and the `why` of a transfer do the same there:
a file is whole unless the address was another's by then, the file could not be
opened, or the sender was killed. `CacheWasTrue` and `ListsTheConnected` hold of names of one
word (`Plain`) and say what a line of another name may do; `ShownAsSent` says that the blanks
inside the word of a SEND arrive as they were typed or as the web service leaves them, and when
a sender may be "None".

The liveness properties name what may keep a thread for ever, which the code does not prevent:

* `DeletesWork`, in the three of the server: from some time on no `msg_delete` fails. As
  `conn_deliver` does not look at its result, a message whose DELETE goes on failing is
  delivered by the loop of CONNECT again and again, and those behind it wait. The run has such behaviours.
* `SendsStop`, in `HandlersEnd`: from some time on SEND stores nothing. A loop of CONNECT that finds
  a new message each time it has delivered one does not end either. In a bounded run this always
  holds, since `MaxSends` ends the sends: the premise says what the run does not show. The other
  handlers end without either premise.
* `[]<>(listener.pc # "held")`, in `DisconnectReturns`: no peer holds the listening thread for ever.
* `OwnersHangUp`, in `CallsEnd`: an owner that sends a file goes on or hangs up. The call itself
  comes back to the prompt without it.

Disagreements met while modelling that have no run of their own (`PROJECT.json`,
"findings", has their lines): CONNECT delivers before its descriptor is closed, not
after; QUIT after the server or another process ended the session leaves the listening
thread, and with it the process, running; `disconnect` tests `_listening_thread` and
joins what it reads the second time, which may be `None`; SEND passes on the first
word of a message only; a text cut at 255 bytes inside a character ends the
listening thread of the receiver, and a file name that of the sender too; the client's
limit on texts is declared and not used, so that a text of a thousand bytes makes
the server store a cut file name; SENDATTACH with an empty file name ends the console;
USERS and GETFILE end the console when the server ends after the code and before the
count; GETFILE goes to a stale address without asking again, and says OK for a file that
does not exist; a connected user whose name has a ':' is entered in the cache as another
user's address, or not at all; a peer that connects to a listener and sends nothing holds it, and
DISCONNECT with it, past the timeout that a comment relies on; the web service is asked for at
`localhost`. The properties of
`client`, `wire` and `peers` state what holds around them.

### Bounds, and why they are enough

* `Threads`: two. Every hazard above is between two threads: two deliveries, a
  delivery and a change of the receiver's row, a check and a change. The theorems
  hold for any number.
* `Names`: one user that sends to itself. Handlers touch the rows of a receiver
  and read the address of a sender; one name is both, and the other operations on
  it interleave. The theorems hold for any number.
* `Ports`, `Ips`: two ports where stale addresses matter (`safety`, `gone`), two
  machines where DISCONNECT's check does (`sameip`).
* `MaxId` = 2 for 4294967295. `MaxSends` = 2 stays below the wrap, 3 crosses it.
* Client: two users, one port of this client, one address of another process on
  the same machine and one elsewhere: what a session is mixed up with is another
  user's session or another machine's. One request at a time, as at the console;
  those given up are served late, beside the next.
* Peers: two users besides the client and two ports, one of them its own, so
  that whoever comes takes the port of whoever left; three moves, enough for one to
  leave, another to take its place, and one more change; `MaxUsers` = 2 for 50, with
  three users, so that the list is cut; `FileChunks` = 2, so that a file can be
  half sent. The names are "bob", "bob:2", whose line gives bob an address, and "ana:w", whose line
  gives nobody one: what a line can be taken for. What `isdigit` accepts beyond the ten
  digits is left out. One call at a time, as at the console.
* Wire: words of 1, 4, 252 and 300 bytes, of characters of one, two and three
  bytes, on both sides of the 255 of a field and on a boundary of characters or
  not; two of 1201 and 1400, with which a request ends inside raw_buf's last field or
  before it (`Left` is the room its parts have, `Received` what is left of one); an identifier of ten digits, the longest; texts with more separators than
  there are fields; texts with tabs and no-break spaces inside, around and alone, which the
  console passes on as one word. Sizes of buffers are those of the code.
* `MaxFaults`, `MaxErrors`, `MaxCrashes` = 1: one fault at any step; `MaxRows` = 2. Of
  DELETEs of messages that fail `MaxFaults` counts the rows and not the attempts.
* `Ops` leaves out UNREGISTER in the liveness run, DISCONNECT in `server_wrap`, and one of SEND,
  SENDATTACH (the same handler twice) in each; all are in some run.

### Fairness

`FairSpec` asks weak fairness of `Serve(t)`, the steps of a request a thread has
read: threads are POSIX threads, and every call they make ends (`connect` and
`send` fail in the end, the pause is finite, the RPC has a timeout). No fairness
for new requests, clients, crashes. `FairSteps` asks weak
fairness of the statements and the unlock of the thread inside a function; not of
`Lock`, since a POSIX mutex promises no order among those who wait.
`FairClient` asks weak fairness of the steps of each thread, `accept` returning
to the test of `_terminate` among them (it has a timeout of ten seconds), and of the
server serving what was sent; of a peer that holds the listening thread (`Release`) it asks nothing.
`FairPeers` asks it of the console until it is back at its prompt and of the thread that
waits for the file, where `GiveUp` and `AcceptTimeout` stand for the timeouts of the sockets.
Neither asks anything of the users or of other clients, and `FairPeers` nothing of the server
and nothing of the thread that sends the file, which is another client's.

Deadlock is checked everywhere.

## 4. What is proved

For every value of the constants under the named assumptions: `MaxId` positive,
ports positive, the "none" values outside the sets they complete; `Ops`, `Senders`
and `Receivers` subsets of what they name; the address of a client of its own machine's
ports and those of others elsewhere; `Names` finite where users are counted
(Peers); `Names` and addresses not empty where a call has arguments (StoreSteps); bounds natural
numbers. In Wire: what is typed is made of whole characters (`TextsAreText`); an identifier
and a port are digits, ten at most (`NumbersAreText`); a string of TLA+ is a sequence, of one
character for a mark (`MarksAreSingle`) and of 20 at most for the name of an
operation (`WordsAreText`), which the prover does not know and TLC evaluates. No bound is fixed: `MaxFaults`, `MaxErrors`, `MaxCrashes`, `MaxMoves`,
`MaxSends`, the threads, the users, the room for names and the length of a file are
any, and so are the lines typed and their length.

All the safety properties of all the passing runs are theorems, and so are the
two refinements and the action property of `peers`. Each module has one inductive
invariant and a lemma per action that disturbs it. A run checked it before it was proved,
but for `WireInductive`, whose texts (`Looping`) TLC cannot enumerate.

### The server (`ServerProofs`)

`TypeCorrect`, `NothingVanishes`, `NobodyIsStranded`, `NobodyIsOrphaned`,
`DrainsInOrder`, `AcksAreTrue`, `IdsAreUnique`: `Spec => []P` for the invariants
of `server_safety` and `server_wrap`. `ServerIsMailbox`: `Spec => MailboxIsKept`, that is, every
step of any number of threads, a crash and a failing call included, half-done functions too, is a
step of Mailbox or none. Its lemmas sort the actions by what they are there: `MailAccepts`
(`SendAdd`), `MailRemoves` (`Delete`), `MailDrops` (`Unregister`, and a `user_remove` cut short
by a failure or a death),
`MailHandsAndConfirms` (`SendPeer`, `Ack`), `MailStutters` (the rest); a removal
needs `Inductive`, for the message a thread deletes was handed over.

None but the first is inductive alone. The inductive invariant (`Inductive`, in
`Server`) adds what the code takes for granted:

* `ThreadOK`: the local variables of a thread agree with its place. A
  thread in `conn_deliver` holds a message that was sent, for its own user; past `send`
  that message was handed over; past `msg_delete` it is not in the table.
* `RowsOK`: row numbers name messages; what waits was sent. With the frame
  lemma (history grows, rows do not come back) it makes "settled" stable.
* `CountersOK`: no counter is ahead of the insertions and of the identifiers that faults took
  in vain, hence `nextRow + faults` in the bound of `UniquePendingIds`; and, until a wrap, none
  is behind an identifier that waits, `orphaned` rows apart, which is why a new identifier differs.
* `DrainOK`: from `msg_get_next` to `send`, all older messages of the receiver are
  settled. Older rows cannot come back, and what leaves the table is settled, so
  the fact read stays true while other threads run. A row whose DELETE failed
  (`undeleted`) was handed over, which is all that settling asks.
* `NoStranded` is itself nearly inductive: a user becomes connected only by CONNECT,
  whose thread is in charge of all its messages until the table has none; a
  message is inserted only by a thread that is then in charge of it; and the
  ends of `conn_deliver` that leave a message find or make the user disconnected.

Each conjunct has its lemma (`ThreadStep`, `RowsStep`, `OrphansStep`,
`SilentLossStep`, `StrandedStep`, `DrainStep`, `AckedStep`, `CountersStep`,
`UniqueStep`), with cases by action, over lemmas that say what a step can do to
the tables at all (`FrameStep`, `InsertStep`, `RemoveStep`, `RowStep`).
`UserStoreProofs` has the same for each function of `users.c`.

### The data base (`StoreStepsProofs`)

`StepsTypes`, `NoOrphans`, `CodesHold` and the refinement `MutexMakesAtomic`:
`StepsSpec => FunctionsAreAtomic`. The last is what the rest of the project stands on: it
allows every other module to take a function of `users.c` as one step.

`StepsInductive` says of each thread where it is (`PlaceOK`: it holds the mutex exactly
between `Lock` and `Unlock`, and is in a statement its function has) and what the
tables are by then, compared with what they were when it took the mutex
(`ProgressOK`, over `before`): untouched before the first write, emptied
of the user's messages between the two DELETEs, counted between UPDATE and
INSERT, and at the unlock either untouched, or as the function promises, or, after an
error, one of three halves. Only the holder writes and only one thread
holds, so for the others the facts stay. The refinement maps the tables to `before`
while the mutex is held (`Visible`): every statement is then a stutter, and `Unlock`, or
the death of the process, is the operation, whole or half done.

### The client (`ClientProofs`)

`OnlyOneListens`, `SessionsAreOurs`, `SessionsAreTrue`, `DisconnectLeavesNothing`,
`StopsAreFresh`, `SendersAreKnown`, `ClientTypes`: `ClientSpec => []P` for the
invariants of `client`. `ClientInductive` relates the places of both threads to the
fields they share, which is what the missing lock leaves to order:

* `PlacesOK`: what each place has in its local variables: past its question a thread has
  the user and the port it asked with, it listens only after the code 0, and
  `_listening_thread` is cleared only once no thread lives.
* `UserOK`: `_connected_user` is set only while a thread listens or is about to clear it,
  and when a thread has stopped listening it is a DISCONNECT that stopped it.
* `StopOK`: a DISCONNECT that was answered OK found a thread that listens or soon will.
  `_terminate` is set only while that DISCONNECT is on its way and that thread has not
  passed its end; and until then nobody is connected at this client and no
  CONNECT is on its way. That is why the thread of the next CONNECT does not see it.
* `SessionOK`: a thread that has its OK and has not begun its end has its session
  at the server, unless it was taken away, or the console was just answered so.

Every excuse is a mishap that an action records, and none is ever forgotten; the lemmas
go by what makes a step: a thread (`ListenerStepKeeps`, `ConsoleStepKeeps`), a command, a
failure, the server serving (`ServeConnectKeeps`, `ServeDisconnectKeeps`), another
process (`EnvironmentKeeps`).

### USERS and GETFILE (`PeersProofs`)

`CachesWereTrue`, `FilesAreWhole`, `PeersTypes`, and the action property
`ListsAreComplete`: `PeersSpec => ListsTheConnected`. `PeersInductive` has three sides:

* `HistoryOK`: while the client asks, `during` contains the sessions of now, and
  `throughout` only users of now. A line is written from a session of now and so is in `during`.
* `PipeOK`: the answer as a whole. `Taken` counts the items read and `Written` those that
  were ever written, so that a position in the answer, not in the pipe, says what an item
  is: a code first, a count, then lines; and what the count has announced (`Due`) covers what is
  in the pipe and what the handler has still to write. So the loop of the client ends with every
  line of the server read. `ListOK`: somebody of a plain name connected throughout is among the names to come,
  in the pipe, or in the cache; the cap of names is where cardinalities come in (with room for
  all, a list as long as the room is all of them).
  An entry of the cache is what some line of a session says to the client (`CacheRead`), from
  which `CacheWasTrue` follows: the line of a plain name says the name and its address.
* `CallOK`, `CopyOK`: one transfer at a time, for the user the console asked for; the sender
  has sent what the receiver has or more, and a sender that is gone has sent
  the whole file or left its reason in `why`.

That the pipe is a sequence of numbers and lines (`PipeTypeOK`) is part of the proof and not of
the run, as TLC compares no number with a line.

### The text of a command (`WireProofs`, `TextProofs`)

`FieldsAreFound`, `ArgumentsCome`, `FramesFit`, `ShownIsSent`, `ReceiptsName`,
`ListenersSurvive`, `WireTypes`: `WireSpec => []P` for the invariants of `wire`, for lines of
any length. `WireInductive` follows the text through three programs:

* `ClientInv`: the call passes on the words of the line (`AsTyped`), but for the message of a
  SEND, which may be what the web service makes of it (`Normalised`): that is a text again, of the
  same characters and spaces (`QuitarOver`); a request is
  the parts of the call joined by separators (`Sent`), and a SEND has a sender.
* `ServerInv`: no text outgrows its buffer. While `recv_msg` loops (`Looping`) the
  fields found are the cuts of some pieces, and these followed by the split of what is left
  are the split of all that was received. One turn takes the first piece (`Turn`). So at the
  end the fields are those that one split gives (`Pieces`), and none holds a separator.
* `MessageInv`: what is stored is the record of a request with enough fields (`StoredIs`);
  a frame is that of the message stored, and what is printed is what was stored, for
  `Parsed` undoes `MessageFrame` and `AckFrame`.

The rest relates the buffers to each other. When every part is shorter than a field the request
fits `raw_buf`, and comes back whole. When it does not fit, but has enough fields all the same, only
the last part can have lost its end to `raw_buf`, and every other is cut at a field
(`PartsArrive`): hence `Received`. And a text of whole characters is broken by a cut only when it is
longer than the buffer and the cut falls into a word whose characters take several bytes.

`TextProofs` has what this needs of `Length`, `Cut`, `Split`, `Join` and
`QuitarEspacios`: what each gives for a text and one more atom (`LengthStep`, `CutStep`, `SplitStep`),
for two texts in a row (`LengthConcat`, `SplitBoth`), that `Split` undoes `Join` when no part
holds the separator (`SplitJoined`), that a cut is no longer than its buffer and all of what
fits (`CutAll`), that what had no separator or was made of whole words stays so.

Such facts are inductions over texts, and the induction theorems of the library take a
predicate as a parameter, which no prover here can instantiate. The proofs put a set in its
place: for a set `P` of numbers with 0 in it and closed under successor, `P = Nat`
(`InductionOnNat`); the same for sets of texts and of lists of texts. It follows from the least
member of a set of numbers (`LeastNumber`), and that from the library's theorem that
strict inclusion of finite sets is well founded, which has no such parameter. `RunExists` and `SameRun` say that
the function a definition by recursion asks for exists, and is the only one.

### Only model-checked

The liveness properties (`WaitingEnds`, `ListenerGetsAll`, `HandlersEnd`,
`MutexIsReleased`, `DisconnectReturns`, `CallsEnd`): they need fairness, and ENABLED is beyond the
prover. Their premises are in section 3. And of course the violations.

## 5. Not modelled, and the plan

Not modelled for good:

* `lib/sqlite/sqlite3.h`: third-party, 13,968 of the 15,280 lines of C and Python
  here, and a header, so that nine tenths of what a count of lines calls the
  implementation has no behaviour to model. SQLite is modelled by what `users.c`
  relies on. Of what the program itself does, the modules cover `users.c`,
  the handlers, `recv_msg`, `ws.py`, `client.py` and `commands.py`.
* `src/rpc/log_rpc_*`: generated by rpcgen. The log is best effort, the server
  reads nothing back, and nothing reads its order.
* `parse_args`: once, before anything runs.
* Console output beyond what a property speaks of; time, but as timeouts that may happen.
* Limits of the operating system on threads and descriptors. A client that
  connects and sends nothing keeps both (`src/server.c:133`).

In part: the death of the process is one action whatever its reason (SIGINT that
closes the data base under running threads included); the client's console
refused a connection only in `Client`; the code of an SQL failure once per behaviour
that differs.

Next:

* An abstract specification of a session as its user sees it, with Client shown to
  implement it as Server implements Mailbox; the same for a transfer in Peers.
