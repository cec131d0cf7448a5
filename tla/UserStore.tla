------------------------------ MODULE UserStore ------------------------------
(***************************************************************************)
(* The data base of the server, src/users.c: the tables "users" and        *)
(* "messages" and one operator per exported function.  db_mutex is held    *)
(* from the first line of each function to every one of its returns, so    *)
(* one function is one step; StoreSteps opens them up into their SQL       *)
(* statements and shows that this reading is right.                        *)
(*                                                                         *)
(* Abstracted: the text and the file name of a message.  A row of          *)
(* "messages" is told apart by its row number, which only grows: it stands *)
(* for SQLite's rowid, the order in which a scan of the table meets the    *)
(* rows.  A user that does not exist is the value NoUser.                  *)
(*                                                                         *)
(* An operator whose name begins with "Wrong" is no part of the model: it  *)
(* is the definition that follows it with a mistake in it, one that a run  *)
(* must find when it takes the place of that definition.                   *)
(***************************************************************************)
EXTENDS Integers

CONSTANTS Names,   \* user names
          Ips,     \* addresses of the machines clients run on
          Ports,   \* listening ports of clients
          MaxId,   \* the largest message id: 4294967295 in the code
          NoIp,    \* the empty string in column ip
          NoUser   \* the value of users[n] when no row is named n

Addrs == Ips \X Ports

UserRow == [status: {0, 1}, ip: Ips \cup {NoIp}, port: Ports \cup {0},
            msg_counter: 0..MaxId]

MsgRow == [row: Nat \ {0}, id: 1..MaxId, sender: Names, receiver: Names]

ASSUME MaxIdAssumption  == MaxId \in Nat \ {0}
ASSUME PortsAssumption  == Ports \subseteq Nat \ {0}
ASSUME NoIpAssumption   == NoIp \notin Ips
ASSUME NoUserAssumption == NoUser \notin UserRow

VARIABLES users,     \* [Names -> UserRow \cup {NoUser}]: table users
          messages,  \* set of MsgRow: table messages
          nextRow    \* the row number of the next insertion

store == <<users, messages, nextRow>>

(* Columns keep their types and ranges (the tables of db_init). *)
StoreTypeOK ==
  /\ users \in [Names -> UserRow \cup {NoUser}]
  /\ messages \subseteq MsgRow
  /\ nextRow \in Nat \ {0}

StoreInit ==
  /\ users = [n \in Names |-> NoUser]
  /\ messages = {}
  /\ nextRow = 1

-----------------------------------------------------------------------------
(* What the SELECTs of the functions read. *)

Exists(n)    == users[n] # NoUser
Connected(n) == Exists(n) /\ users[n].status = 1
AddrOf(n)    == <<users[n].ip, users[n].port>>

(* user_get_conn_info: 0 connected, 1 no such user, 2 not connected *)
ConnInfo(n) ==
  IF Exists(n) THEN (IF users[n].status = 1 THEN 0 ELSE 2) ELSE 1

PendingOf(n) == {m \in messages : m.receiver = n}

(* Mistake: ORDER BY id. *)
WrongOldestById(m) ==
  m \in messages /\ \A k \in PendingOf(m.receiver) : m.id =< k.id

(* Mistake: the row that is found need not be the oldest. *)
WrongOldestAny(m) == m \in messages

(* msg_get_next finds this row: the oldest one, in scan order. *)
IsOldest(m) ==
  /\ m \in messages
  /\ \A k \in PendingOf(m.receiver) : m.row =< k.row

(* Mistake: the counter does not wrap. *)
WrongNextId(c) == c + 1

(* The CASE of msg_add's UPDATE: the identifiers restart at 1. *)
NextId(c) == IF c >= MaxId THEN 1 ELSE c + 1

-----------------------------------------------------------------------------
(* The functions that write; rc is what they return. *)

UserAdd(n, rc) ==
  /\ \/ rc = 1 /\ Exists(n) /\ users' = users
     \/ /\ rc = 0 /\ ~Exists(n)
        /\ users' = [users EXCEPT ![n] = [status |-> 0, ip |-> NoIp,
                                          port |-> 0, msg_counter |-> 0]]
  /\ UNCHANGED <<messages, nextRow>>

(* Mistake: the messages of the user stay. *)
WrongUserRemove(n, rc) ==
  /\ \/ rc = 1 /\ ~Exists(n) /\ users' = users
     \/ rc = 0 /\ Exists(n) /\ users' = [users EXCEPT ![n] = NoUser]
  /\ UNCHANGED <<messages, nextRow>>

UserRemove(n, rc) ==
  /\ \/ rc = 1 /\ ~Exists(n) /\ UNCHANGED <<users, messages>>
     \/ /\ rc = 0 /\ Exists(n)
        /\ messages' = messages \ PendingOf(n)
        /\ users' = [users EXCEPT ![n] = NoUser]
  /\ UNCHANGED nextRow

(* user_remove cut short, by a DELETE that fails or by a death: the messages *)
(* are gone and the user stays, ...                                          *)
RemoveMessages(n) ==
  /\ Exists(n)
  /\ messages' = messages \ PendingOf(n)
  /\ UNCHANGED <<users, nextRow>>

(* ... or the user is gone and the messages stay, as nobody looks at what *)
(* the first DELETE returned.                                             *)
RemoveUser(n) ==
  /\ Exists(n)
  /\ users' = [users EXCEPT ![n] = NoUser]
  /\ UNCHANGED <<messages, nextRow>>

HalfRemove(n) == RemoveMessages(n) \/ RemoveUser(n)

(* Mistake: the port is left in network byte order. *)
WrongPortConnect(n, ip, port, rc) ==
  /\ rc = 0 /\ Exists(n) /\ ~Connected(n)
  /\ users' = [users EXCEPT ![n].status = 1, ![n].ip = ip,
                            ![n].port = 256 * port]
  /\ UNCHANGED <<messages, nextRow>>

(* Mistake: the identifiers start again with every session. *)
WrongCounterConnect(n, ip, port, rc) ==
  /\ rc = 0 /\ Exists(n) /\ ~Connected(n)
  /\ users' = [users EXCEPT ![n] = [status |-> 1, ip |-> ip, port |-> port,
                                    msg_counter |-> 0]]
  /\ UNCHANGED <<messages, nextRow>>

UserConnect(n, ip, port, rc) ==
  /\ \/ rc = 1 /\ ~Exists(n) /\ users' = users
     \/ rc = 2 /\ Connected(n) /\ users' = users
     \/ /\ rc = 0 /\ Exists(n) /\ ~Connected(n)
        /\ users' = [users EXCEPT ![n].status = 1, ![n].ip = ip,
                                  ![n].port = port]
  /\ UNCHANGED <<messages, nextRow>>

UserDisconnect(n, rc) ==
  /\ \/ rc = 1 /\ ~Exists(n) /\ users' = users
     \/ rc = 2 /\ Exists(n) /\ ~Connected(n) /\ users' = users
     \/ /\ rc = 0 /\ Connected(n)
        /\ users' = [users EXCEPT ![n].status = 0, ![n].ip = NoIp,
                                  ![n].port = 0]
  /\ UNCHANGED <<messages, nextRow>>

(* The row msg_add inserts for a receiver that exists. *)
NewRow(receiver, sender) ==
  [row |-> nextRow, id |-> NextId(users[receiver].msg_counter),
   sender |-> sender, receiver |-> receiver]

(* Mistake: the counter is not written back. *)
WrongMsgAdd(receiver, sender, rc) ==
  /\ Exists(receiver) /\ rc = NextId(users[receiver].msg_counter)
  /\ messages' = messages \cup {NewRow(receiver, sender)}
  /\ nextRow' = nextRow + 1
  /\ users' = users

(* rc is the new identifier, 0 when no row of users was updated. *)
MsgAdd(receiver, sender, rc) ==
  \/ rc = 0 /\ ~Exists(receiver) /\ UNCHANGED store
  \/ /\ rc # 0 /\ Exists(receiver)
     /\ rc = NextId(users[receiver].msg_counter)
     /\ users' = [users EXCEPT ![receiver].msg_counter = rc]
     /\ messages' = messages \cup {NewRow(receiver, sender)}
     /\ nextRow' = nextRow + 1

(* msg_add cut short: it took an identifier and inserted no row for it. *)
SkippedId(r) ==
  /\ Exists(r)
  /\ users' = [users EXCEPT ![r].msg_counter = NextId(users[r].msg_counter)]
  /\ UNCHANGED <<messages, nextRow>>

(* Mistake: WHERE receiver = ? alone. *)
WrongMsgDelete(receiver, id) ==
  messages' = messages \ PendingOf(receiver) /\ UNCHANGED <<users, nextRow>>

(* The DELETE names the receiver and the identifier, not the row. *)
MsgDelete(receiver, id) ==
  /\ messages' = {m \in messages : ~(m.receiver = receiver /\ m.id = id)}
  /\ UNCHANGED <<users, nextRow>>
=============================================================================
