-------------------------------- MODULE Server --------------------------------
(***************************************************************************)
(* The message server, src/server.c, over the data base of UserStore.      *)
(*                                                                         *)
(* main() starts one detached thread per connection; a thread reads one    *)
(* request, runs its handler and ends.  The handlers share nothing but the *)
(* data base, so the steps of a thread are the calls that reach the data   *)
(* base or the network: between two of them any other thread may run.  The *)
(* sleep of CONNECT and the log calls are such gaps and nothing more.      *)
(*                                                                         *)
(* Around the server stand the clients: one process per address, which     *)
(* opens a listening socket some time after its CONNECT was answered and   *)
(* may close it at any time, with or without a DISCONNECT; and the machine *)
(* the server runs on, which may kill it.                                  *)
(***************************************************************************)
EXTENDS UserStore, FiniteSets

CONSTANTS Threads,    \* connections being served at the same time
          Ops,        \* the requests clients make in a run
          Senders,    \* the users that send messages in a run
          Receivers,  \* the users messages are sent to in a run
          MaxSends,   \* bound: rows ever inserted in table messages
          MaxFaults,  \* bound: crashes and calls that fail
          NoName,     \* no client process uses an address
          NoMsg       \* a thread holds no message

SendOps == {"SEND", "SENDATTACH"}
AllOps  == SendOps \cup {"REGISTER", "UNREGISTER", "CONNECT", "DISCONNECT"}

ASSUME NoNameAssumption == NoName \notin Names
ASSUME NoMsgAssumption  == NoMsg \notin MsgRow
ASSUME OpsAssumption    == Ops \subseteq AllOps
ASSUME WhoAssumption    == Senders \subseteq Names /\ Receivers \subseteq Names

VARIABLES threads,   \* what each thread is doing: its local variables
          client,    \* the user whose client process uses an address
          open,      \* the addresses with an open listening socket
          faults     \* crashes and failed calls so far

(* History: what became of every message, by row number. *)
VARIABLES sent,      \* the rows msg_add ever inserted
          handed,    \* send() to the receiver's address succeeded
          acked,     \* the acknowledgement was sent to the sender
          dropped,   \* deleted by an UNREGISTER of the receiver
          undeleted, \* left in the table by a msg_delete that failed
          orphaned,  \* left in the table by a user_remove whose first
                     \* DELETE failed
          stranded   \* abandoned by a crash or a call that failed,
                     \* until the receiver connects again

history == <<sent, handed, acked, dropped, undeleted, orphaned, stranded>>
clients == <<client, open>>
vars    == <<store, threads, clients, faults, history>>

Idle == [pc |-> "idle", op |-> "NONE", user |-> NoName, sender |-> NoName,
         msg |-> NoMsg, ip |-> NoIp, port |-> 0]

(* The place of a thread is the call it makes next.  From "lookup" to *)
(* "ack" it is inside conn_deliver.                                   *)
Delivering == {"lookup", "connect", "send", "gone", "delete", "ack"}
Places     == {"idle", "next", "add", "disconnect"} \cup Delivering

ThreadState == [pc: Places, op: Ops \cup {"NONE"}, user: Names \cup {NoName},
                sender: Names \cup {NoName}, msg: MsgRow \cup {NoMsg},
                ip: Ips \cup {NoIp}, port: Ports \cup {0}]

(* The tables, the clients and the local variables of every thread keep *)
(* their types (handle_client and the handlers).                        *)
TypeOK ==
  /\ StoreTypeOK
  /\ threads \in [Threads -> ThreadState]
  /\ client \in [Addrs -> Names \cup {NoName}]
  /\ open \subseteq Addrs
  /\ faults \in Nat
  /\ sent \subseteq MsgRow
  /\ handed \subseteq Nat /\ acked \subseteq Nat
  /\ dropped \subseteq Nat /\ undeleted \subseteq Nat
  /\ orphaned \subseteq Nat /\ stranded \subseteq Nat

Init ==
  /\ StoreInit
  /\ threads = [t \in Threads |-> Idle]
  /\ client = [a \in Addrs |-> NoName]
  /\ open = {}
  /\ faults = 0
  /\ sent = {} /\ handed = {} /\ acked = {}
  /\ dropped = {} /\ undeleted = {} /\ orphaned = {} /\ stranded = {}

At(t, place)   == threads[t].pc = place
Becomes(t, st) == threads' = [threads EXCEPT ![t] = st]
GoesTo(t, place) == threads' = [threads EXCEPT ![t].pc = place]

(* As GoesTo, for a place after which the address is not read again. *)
Forgets(t, place) ==
  threads' = [threads EXCEPT ![t].pc = place, ![t].ip = NoIp, ![t].port = 0]
RowsOf(ms)     == {m.row : m \in ms}

-----------------------------------------------------------------------------
(* Requests that one call to the data base serves.  When the first call of a *)
(* request fails before it has written anything, the handler answers the    *)
(* error and ends: nothing has changed, which is a stuttering step.          *)

Register(t, n) ==
  /\ "REGISTER" \in Ops /\ At(t, "idle")
  /\ \E rc \in {0, 1} : UserAdd(n, rc)
  /\ UNCHANGED <<threads, clients, faults, history>>

Unregister(t, n) ==
  /\ "UNREGISTER" \in Ops /\ At(t, "idle")
  /\ \E rc \in {0, 1} :
       /\ UserRemove(n, rc)
       /\ dropped' = IF rc = 0 THEN dropped \cup RowsOf(PendingOf(n))
                               ELSE dropped
  /\ UNCHANGED <<threads, clients, faults, sent, handed, acked,
                 undeleted, orphaned, stranded>>

Fault == faults < MaxFaults /\ faults' = faults + 1

(* A DELETE of user_remove fails.  The second one: the answer is 2, the user *)
(* stays and its messages are gone.  The first one: the user goes without    *)
(* them, and they wait for whoever registers the name again.                 *)
UnregisterFails(t, n) ==
  /\ "UNREGISTER" \in Ops /\ At(t, "idle") /\ Fault
  /\ \/ /\ RemoveMessages(n)
        /\ dropped' = dropped \cup RowsOf(PendingOf(n))
        /\ UNCHANGED orphaned
     \/ /\ RemoveUser(n)
        /\ orphaned' = orphaned \cup RowsOf(PendingOf(n))
        /\ UNCHANGED dropped
  /\ UNCHANGED <<threads, clients, sent, handed, acked, undeleted,
                 stranded>>

-----------------------------------------------------------------------------
(* CONNECT: mark the user connected, answer, sleep, deliver what waits. *)

Connect(t, n, a) ==
  /\ "CONNECT" \in Ops /\ At(t, "idle") /\ client[a] = NoName
  /\ \E rc \in 0..2 :
       /\ UserConnect(n, a[1], a[2], rc)
       /\ IF rc = 0
          THEN /\ client' = [client EXCEPT ![a] = n]
               /\ stranded' = stranded \ RowsOf(PendingOf(n))
               /\ Becomes(t, [Idle EXCEPT !.pc = "next", !.op = "CONNECT",
                                          !.user = n])
          ELSE UNCHANGED <<client, stranded, threads>>
  /\ UNCHANGED <<open, faults, sent, handed, acked, dropped,
                 undeleted, orphaned>>

(* The loop condition: msg_get_next. *)
DrainNext(t) ==
  /\ At(t, "next")
  /\ \/ PendingOf(threads[t].user) = {} /\ Becomes(t, Idle)
     \/ \E m \in PendingOf(threads[t].user) :
          /\ IsOldest(m)
          /\ threads' = [threads EXCEPT ![t].pc = "lookup", ![t].msg = m]
  /\ UNCHANGED <<store, clients, faults, history>>

-----------------------------------------------------------------------------
(* SEND and SENDATTACH: the same handler twice, but for the file name. *)

Sends == Cardinality({t \in Threads : At(t, "add")})

SendCheck(t, op, s, r) ==
  /\ op \in SendOps \cap Ops /\ At(t, "idle")
  /\ nextRow + Sends =< MaxSends
  /\ ConnInfo(r) # 1
  /\ Becomes(t, [Idle EXCEPT !.pc = "add", !.op = op, !.user = r,
                             !.sender = s])
  /\ UNCHANGED <<store, clients, faults, history>>

SendAdd(t) ==
  LET s == threads[t].sender
      r == threads[t].user
      m == NewRow(r, s)
  IN
  /\ At(t, "add")
  /\ \E rc \in 0..MaxId :
       /\ MsgAdd(r, s, rc)
       /\ IF rc = 0
          THEN Becomes(t, Idle) /\ UNCHANGED sent
          ELSE /\ Becomes(t, [Idle EXCEPT !.pc = "lookup", !.msg = m,
                              !.op = threads[t].op, !.user = r])
               /\ sent' = sent \cup {m}
  /\ UNCHANGED <<clients, faults, handed, acked, dropped,
                 undeleted, orphaned, stranded>>

-----------------------------------------------------------------------------
(* conn_deliver, called by the loop of CONNECT and by SEND. *)

(* Mistake: the loop of CONNECT goes on, "continue" for "break". *)
WrongLookup(t) ==
  LET u == threads[t].user IN
  /\ At(t, "lookup")
  /\ IF ConnInfo(u) = 0
     THEN threads' = [threads EXCEPT ![t].pc = "connect",
                                     ![t].ip = users[u].ip,
                                     ![t].port = users[u].port]
     ELSE IF threads[t].op = "CONNECT" THEN GoesTo(t, "next")
     ELSE Becomes(t, Idle)
  /\ UNCHANGED <<store, clients, faults, history>>

(* Where is the receiver?  If nowhere, the message stays in the table: SEND *)
(* answers STORED and ends, the loop of CONNECT breaks and ends.            *)
Lookup(t) ==
  LET u == threads[t].user IN
  /\ At(t, "lookup")
  /\ IF ConnInfo(u) = 0
     THEN threads' = [threads EXCEPT ![t].pc = "connect",
                                     ![t].ip = users[u].ip,
                                     ![t].port = users[u].port]
     ELSE Becomes(t, Idle)
  /\ UNCHANGED <<store, clients, faults, history>>

(* The messages a thread was going to deliver. *)
Charge(t) == IF threads[t].op = "CONNECT" THEN PendingOf(threads[t].user)
                                          ELSE {threads[t].msg} \ {NoMsg}

(* A call to the data base that returns an error, or a socket() that fails: *)
(* the handler returns, and nobody deals with its messages before the next  *)
(* CONNECT of a user who may well be connected.  A msg_add that fails may   *)
(* have taken an identifier.                                                *)
CallFails(t) ==
  /\ threads[t].pc \in {"add", "next", "lookup", "connect", "gone",
                        "disconnect"}
  /\ Fault
  /\ UNCHANGED store \/ (At(t, "add") /\ SkippedId(threads[t].user))
  /\ stranded' = stranded \cup RowsOf(Charge(t))
  /\ Becomes(t, Idle)
  /\ UNCHANGED <<clients, sent, handed, acked, dropped, undeleted,
                 orphaned>>

ConnectPeer(t) ==
  /\ At(t, "connect")
  /\ IF <<threads[t].ip, threads[t].port>> \in open
     THEN GoesTo(t, "send")
     ELSE Forgets(t, "gone")
  /\ UNCHANGED <<store, clients, faults, history>>

(* Mistake: bytes_sent is not looked at. *)
WrongSendPeer(t) ==
  /\ At(t, "send") /\ Forgets(t, "delete")
  /\ \/ handed' = handed \cup {threads[t].msg.row}
     \/ <<threads[t].ip, threads[t].port>> \notin open /\ handed' = handed
  /\ UNCHANGED <<store, clients, faults, sent, acked, dropped,
                 undeleted, orphaned, stranded>>

(* send() on an established connection succeeds, even when nobody reads it *)
(* any more; once the listener has closed it may also fail.                *)
SendPeer(t) ==
  /\ At(t, "send")
  /\ \/ /\ handed' = handed \cup {threads[t].msg.row}
        /\ Forgets(t, "delete")
     \/ /\ <<threads[t].ip, threads[t].port>> \notin open
        /\ Forgets(t, "gone")
        /\ UNCHANGED handed
  /\ UNCHANGED <<store, clients, faults, sent, acked, dropped,
                 undeleted, orphaned, stranded>>

(* Mistake: the receiver is left connected. *)
WrongGone(t) ==
  /\ At(t, "gone") /\ Becomes(t, Idle)
  /\ UNCHANGED <<store, clients, faults, history>>

(* user_disconnect(receiver): it must have left without a DISCONNECT. *)
Gone(t) ==
  /\ At(t, "gone")
  /\ \E rc \in 0..2 : UserDisconnect(threads[t].user, rc)
  /\ Becomes(t, Idle)
  /\ UNCHANGED <<clients, faults, history>>

(* Mistake: only SEND deletes what it delivered. *)
WrongDelete(t) ==
  /\ At(t, "delete") /\ GoesTo(t, "ack")
  /\ IF threads[t].op = "CONNECT" THEN UNCHANGED store
     ELSE MsgDelete(threads[t].user, threads[t].msg.id)
  /\ UNCHANGED <<clients, faults, history>>

Delete(t) ==
  /\ At(t, "delete")
  /\ MsgDelete(threads[t].user, threads[t].msg.id)
  /\ GoesTo(t, "ack")
  /\ UNCHANGED <<clients, faults, history>>

(* The DELETE fails and nobody looks: the receiver has the message, and so   *)
(* has the table.  The loop of CONNECT meets it again at once; after a SEND   *)
(* it waits for the next CONNECT, and the sender gets its receipt now all the *)
(* same.  The DELETE of one row may fail again and again: MaxFaults counts    *)
(* rows whose DELETE failed, not attempts.                                    *)
DeleteFails(t) ==
  LET row == threads[t].msg.row IN
  /\ At(t, "delete")
  /\ IF row \in undeleted THEN UNCHANGED faults ELSE Fault
  /\ undeleted' = undeleted \cup {row}
  /\ stranded' = IF threads[t].op = "CONNECT" THEN stranded
                                              ELSE stranded \cup {row}
  /\ GoesTo(t, "ack")
  /\ UNCHANGED <<store, clients, sent, handed, acked, dropped,
                 orphaned>>

(* Mistake: CONNECT delivers one message, "if" for "while". *)
WrongAck(t) ==
  /\ At(t, "ack") /\ Becomes(t, Idle)
  /\ UNCHANGED <<store, clients, faults, history>>

(* conn_deliver returns 0: SEND has ended, the loop of CONNECT goes on with *)
(* the next message.                                                        *)
GoesOn(t) ==
  IF threads[t].op = "CONNECT"
  THEN Becomes(t, [Idle EXCEPT !.pc = "next", !.op = "CONNECT",
                               !.user = threads[t].user])
  ELSE Becomes(t, Idle)

(* The acknowledgement is best effort and writes nothing. *)
Ack(t) ==
  LET m == threads[t].msg IN
  /\ At(t, "ack") /\ GoesOn(t)
  /\ acked' = IF ConnInfo(m.sender) = 0 /\ AddrOf(m.sender) \in open
              THEN acked \cup {m.row} ELSE acked
  /\ UNCHANGED <<store, clients, faults, sent, handed, dropped,
                 undeleted, orphaned, stranded>>

(* The lookup of the sender, or the socket, fails: no acknowledgement. *)
AckFails(t) ==
  /\ At(t, "ack") /\ Fault /\ GoesOn(t)
  /\ UNCHANGED <<store, clients, history>>

-----------------------------------------------------------------------------
(* DISCONNECT: only from the machine the user connected from. *)

Disconnect(t, n, ip) ==
  /\ "DISCONNECT" \in Ops /\ At(t, "idle")
  /\ ConnInfo(n) = 0 /\ users[n].ip = ip
  /\ Becomes(t, [Idle EXCEPT !.pc = "disconnect", !.op = "DISCONNECT",
                             !.user = n, !.ip = ip])
  /\ UNCHANGED <<store, clients, faults, history>>

DisconnectUser(t) ==
  /\ At(t, "disconnect")
  /\ \E rc \in 0..2 : UserDisconnect(threads[t].user, rc)
  /\ Becomes(t, Idle)
  /\ UNCHANGED <<clients, faults, history>>

-----------------------------------------------------------------------------
(* The environment. *)

ClientListens(a) ==
  /\ client[a] # NoName /\ a \notin open
  /\ open' = open \cup {a}
  /\ UNCHANGED <<store, threads, client, faults, history>>

ClientLeaves(a) ==
  /\ client[a] # NoName
  /\ client' = [client EXCEPT ![a] = NoName]
  /\ open' = open \ {a}
  /\ UNCHANGED <<store, threads, faults, history>>

(* What a death in the middle of a function of users.c leaves in the tables: *)
(* nothing of it, an identifier taken by msg_add, or the messages of a user   *)
(* deleted by user_remove.                                                    *)
CutShort ==
  \/ UNCHANGED <<store, dropped>>
  \/ /\ \E t \in Threads : At(t, "add") /\ SkippedId(threads[t].user)
     /\ UNCHANGED dropped
  \/ /\ "UNREGISTER" \in Ops /\ \E t \in Threads : At(t, "idle")
     /\ \E n \in Names : /\ RemoveMessages(n)
                         /\ dropped' = dropped \cup RowsOf(PendingOf(n))

(* The server dies (a signal, a failed accept, SIGINT) and is started again *)
(* on the same file: db_init creates no table that exists and resets        *)
(* nothing, so users stay connected as they were.                           *)
Crash ==
  /\ Fault /\ CutShort
  /\ threads' = [t \in Threads |-> Idle]
  /\ stranded' = stranded \cup
                   RowsOf({m \in messages : Connected(m.receiver)})
  /\ UNCHANGED <<clients, sent, handed, acked, undeleted, orphaned>>

-----------------------------------------------------------------------------
Request(t) ==
  \E n \in Names :
    \/ Register(t, n)
    \/ Unregister(t, n)
    \/ \E a \in Addrs : Connect(t, n, a)
    \/ \E ip \in Ips : Disconnect(t, n, ip)
    \/ /\ n \in Receivers
       /\ \E s \in Senders, op \in SendOps : SendCheck(t, op, s, n)

Deliver(t) ==
  Lookup(t) \/ ConnectPeer(t) \/ SendPeer(t) \/ Gone(t) \/ Delete(t) \/ Ack(t)

(* A thread goes on with the request it has read. *)
Serve(t) == DrainNext(t) \/ SendAdd(t) \/ DisconnectUser(t) \/ Deliver(t)

Environment ==
  \/ \E a \in Addrs : ClientListens(a) \/ ClientLeaves(a)
  \/ \E t \in Threads :
       \/ CallFails(t) \/ DeleteFails(t) \/ AckFails(t)
       \/ \E n \in Names : UnregisterFails(t, n)
  \/ Crash

Next == Environment \/ \E t \in Threads : Request(t) \/ Serve(t)

Spec == Init /\ [][Next]_vars

(* The scheduler runs every thread and no call a thread makes blocks for *)
(* ever.  Nothing is assumed of clients, nor of crashes.                 *)
FairSpec == Spec /\ \A t \in Threads : WF_vars(Serve(t))

-----------------------------------------------------------------------------
(* What the server promises. *)

(* Two messages of one receiver with the same identifier: the counter has  *)
(* wrapped, or the receiver was registered again.                          *)
SharesId(m, k) == m # k /\ m.receiver = k.receiver /\ m.id = k.id

Settled(m) ==
  \/ m.row \in handed
  \/ m.row \in dropped
  \/ \E k \in sent : SharesId(m, k) /\ k.row \in handed

(* No message vanishes: whatever SEND stored is still in the table, or was  *)
(* handed to the receiver, or was deleted by an UNREGISTER of the receiver, *)
(* also one that then failed, or was deleted in the place of a handed       *)
(* message with its identifier (conn_deliver, msg_delete, user_remove).     *)
NoSilentLoss == \A m \in sent : m \in messages \/ Settled(m)

(* A thread that will still deal with message m. *)
InCharge(t, m) ==
  \/ threads[t].op = "CONNECT" /\ threads[t].user = m.receiver
  \/ threads[t].msg = m /\ threads[t].pc \in Delivering \ {"ack"}

(* No message waits for a connected receiver with nobody to deliver it:     *)
(* SEND's attempt, CONNECT's loop and the user_disconnect of a failed       *)
(* delivery leave no gap between them, faults apart.                        *)
NoStranded ==
  \A m \in messages :
    Connected(m.receiver) =>
      m.row \in stranded \/ \E t \in Threads : InCharge(t, m)

(* The loop of CONNECT never sends a message before an older one of the     *)
(* same receiver has been settled, whatever other threads do.               *)
DrainInOrder ==
  \A t \in Threads :
    threads[t].op = "CONNECT" /\ At(t, "send") =>
      \A m \in sent :
        /\ m.receiver = threads[t].user
        /\ m.row < threads[t].msg.row
        => Settled(m)

(* A sender is told OK only about a message that was handed over and can    *)
(* never be delivered again from the table, unless its DELETE failed (order *)
(* of send, msg_delete and acknowledgement in conn_deliver).                *)
AckedIsSettled ==
  /\ acked \subseteq handed
  /\ \A m \in messages : m.row \in acked => m.row \in undeleted

(* A stored message belongs to a user that exists, a crash in the middle of *)
(* UNREGISTER included, unless the statement of user_remove that deletes    *)
(* messages failed and the user was deleted all the same (the re-check      *)
(* inside msg_add and the two DELETEs of user_remove).                      *)
NoOrphans == \A m \in messages : Exists(m.receiver) \/ m.row \in orphaned

(* Until MaxId messages have been sent, those a fault cut short included,   *)
(* the identifiers that wait for one receiver are different, also when it   *)
(* is removed and registered again, so that msg_delete removes one row.     *)
(* Those that a failed user_remove left behind are not: the new             *)
(* registration starts at 1 beside them (msg_counter, user_remove).         *)
UniquePendingIds ==
  nextRow + faults =< MaxId + 1 =>
    \A m, k \in messages :
      SharesId(m, k) => m.row \in orphaned \/ k.row \in orphaned

-----------------------------------------------------------------------------
(* Progress, under FairSpec. *)

Waiting(r) ==
  \E m \in messages :
    m.row = r /\ Connected(m.receiver) /\ r \notin stranded

(* From some time on no msg_delete fails. *)
DeletesWork ==
  <>[][\A t \in Threads :
         At(t, "delete") /\ threads'[t].pc = "ack" =>
           threads[t].msg \notin messages']_vars

(* From some time on SEND stores nothing. *)
SendsStop == <>[][nextRow' = nextRow]_vars

(* A message that waits for a connected receiver does not wait for ever,    *)
(* unless DELETEs go on failing and the loop of CONNECT with them: it       *)
(* leaves the table, or the receiver is found to have gone and the message  *)
(* waits for its next CONNECT (handle_connect's loop, handle_send).         *)
WaitingEnds ==
  DeletesWork => \A r \in 1..MaxSends : Waiting(r) ~> ~Waiting(r)

(* A receiver that stays connected, with its listener open at the address   *)
(* the data base has, ends up with no message waiting but those a crash or  *)
(* a failed call abandoned, unless DELETEs go on failing.                   *)
ListenerGetsAll ==
  DeletesWork =>
    \A n \in Receivers :
      <>[](Connected(n) /\ AddrOf(n) \in open) =>
        <>[](RowsOf(PendingOf(n)) \subseteq stranded)

(* Every handler comes to its end, whatever fails and whatever clients do,  *)
(* but for the loop of CONNECT: it ends unless SENDs go on storing messages *)
(* or DELETEs go on failing, and then it may run for ever (handle_client,   *)
(* the while of handle_connect).                                            *)
HandlersEnd ==
  \A t \in Threads :
    /\ (~At(t, "idle") /\ threads[t].op # "CONNECT") ~> At(t, "idle")
    /\ (DeletesWork /\ SendsStop) => []<>At(t, "idle")

-----------------------------------------------------------------------------
(* What documents and comments of the repository say and the code does not  *)
(* guarantee.                                                               *)

(* "Esto evita que un proceso externo desconecte a otro usuario": the user  *)
(* a DISCONNECT disconnects is connected from the machine the request came  *)
(* from (handle_disconnect checks in one call and writes in another).       *)
DisconnectSameIp ==
  [][\A t \in Threads :
       At(t, "disconnect") /\ users' # users /\ threads'[t] = Idle =>
         users[threads[t].user].ip = threads[t].ip]_vars

(* "se fue sin desconectarse": the user conn_deliver disconnects has no     *)
(* listener at the address the data base has (the failure was that of an    *)
(* address read earlier).                                                   *)
OnlyGoneAreDisconnected ==
  [][\A t \in Threads :
       At(t, "gone") /\ users' # users /\ threads'[t] = Idle =>
         AddrOf(threads[t].user) \notin open]_vars

(* "el mensaje queda pendiente en la base de datos hasta el proximo         *)
(* CONNECT": a message leaves the table only when it was handed over or its *)
(* receiver unregistered (msg_delete names the identifier, and a new        *)
(* registration starts the identifiers again).                              *)
OnlyDeliveredAreDeleted ==
  \A m \in sent :
    m \in messages \/ m.row \in handed \/ m.row \in dropped

-----------------------------------------------------------------------------
(* The inductive invariant: what makes the promises above hold step by step *)
(* (TLC checks it, ServerProofs proves it).                                 *)

(* What the local variables of a thread say about the shared state. *)
ThreadOK(t) ==
  LET th == threads[t] IN
  /\ th.pc = "idle" => th.op = "NONE"
  /\ th.pc = "next" => th.op = "CONNECT" /\ th.user \in Names
  /\ th.pc = "add"  => th.op \in SendOps /\ th.user \in Names
                                          /\ th.sender \in Names
  /\ th.pc = "disconnect" => th.op = "DISCONNECT" /\ th.user \in Names
  /\ th.pc \in Delivering =>
       th.op \in SendOps \cup {"CONNECT"} /\ th.msg \in sent
                                          /\ th.user = th.msg.receiver
  /\ th.pc \in {"delete", "ack"} => th.msg.row \in handed
  /\ th.pc = "ack" => th.msg \notin messages \/ th.msg.row \in undeleted

(* Row numbers name messages, and no message is in the table, or handed *)
(* over, that was never sent.                                           *)
RowsOK ==
  /\ messages \subseteq sent
  /\ handed \subseteq RowsOf(sent)
  /\ \A m \in sent : m.row < nextRow
  /\ \A m, k \in sent : m.row = k.row => m = k

(* A counter has counted at most the insertions and those a fault cut short, *)
(* and is not behind the identifiers that wait unless it may have wrapped.   *)
CountersOK ==
  /\ \A n \in Names : Exists(n) => users[n].msg_counter < nextRow + faults
  /\ nextRow + faults =< MaxId + 1 =>
       \A m \in messages :
         m.row \in orphaned \/ m.id =< users[m.receiver].msg_counter

(* As DrainInOrder, from the moment the message is read from the table. *)
DrainOK ==
  \A t \in Threads :
    threads[t].op = "CONNECT" /\ threads[t].pc \in {"lookup", "connect", "send"} =>
      \A m \in sent :
        /\ m.receiver = threads[t].user
        /\ m.row < threads[t].msg.row
        => Settled(m)

(* All of it together: every step of a handler preserves this. *)
Inductive ==
  /\ TypeOK
  /\ \A t \in Threads : ThreadOK(t)
  /\ RowsOK
  /\ NoOrphans
  /\ NoSilentLoss
  /\ NoStranded
  /\ DrainOK
  /\ AckedIsSettled
  /\ CountersOK
  /\ UniquePendingIds
-----------------------------------------------------------------------------
(* The server keeps the promise of Mailbox: each of its steps accepts,      *)
(* hands over, removes, drops or confirms messages as Mailbox allows, or    *)
(* leaves them alone (handle_send, conn_deliver, msg_delete, user_remove).  *)
Mail == INSTANCE Mailbox WITH
          Owners <- Names, accepted <- sent, waiting <- messages,
          out <- handed, forgone <- dropped, receipts <- acked

MailboxIsKept == Mail!MailSpec
=============================================================================
