------------------------------ MODULE StoreSteps ------------------------------
(***************************************************************************)
(* src/users.c statement by statement.  A thread that calls a function     *)
(* takes db_mutex, runs the function's SQL statements one after another,   *)
(* and gives the mutex back at the return it reaches.  Each statement      *)
(* commits on its own (there is no transaction), each may fail, and the    *)
(* process may die between any two of them: what was committed stays in    *)
(* the file, the mutex is gone with the process.                           *)
(***************************************************************************)
EXTENDS UserStore, FiniteSets

CONSTANTS Callers,    \* threads of the server
          MaxErrors,  \* bound: statements that fail
          MaxCrashes, \* bound: deaths of the process
          MaxRows,    \* bound: rows ever inserted in table messages
          NoCaller    \* nobody holds the mutex

ASSUME CallersAssumption == NoCaller \notin Callers
ASSUME BoundsAssumption  == MaxErrors \in Nat /\ MaxCrashes \in Nat
ASSUME NamesAssumption   == IsFiniteSet(Names) /\ Addrs # {}

VARIABLES call,     \* the call each thread is in, if any
          lock,     \* the holder of db_mutex
          before,   \* history: the tables when the mutex was taken
          errors,   \* statements that failed so far
          crashes   \* deaths so far

stepVars == <<store, call, lock, before, errors, crashes>>

Writers == {"user_add", "user_remove", "user_connect", "user_disconnect"}
Readers == {"user_get_conn_info", "users_get_connected", "msg_get_next"}
Functions == Writers \cup Readers \cup {"msg_add", "msg_delete"}

(* What a function returns when a statement cannot be prepared, or when its *)
(* last statement fails.                                                    *)
ErrorCode(fn) ==
  CASE fn \in {"user_add", "user_remove"}         -> 2
    [] fn \in {"user_connect", "user_disconnect"} -> 3
    [] fn = "user_get_conn_info"                  -> 1
    [] fn = "msg_add"                             -> 0
    [] OTHER                                      -> -1

(* The first statement of a function. *)
First(fn) ==
  CASE fn \in Writers \cup {"user_get_conn_info"} -> "select"
    [] fn = "msg_add"                             -> "count"
    [] fn = "msg_delete"                          -> "deleteOne"
    [] OTHER                                      -> "read"

NoCall == [pc |-> "idle"]
CallState ==
  {NoCall} \cup
  [pc: {"lock", "select", "deleteAll", "write", "count", "readCount",
        "insert", "deleteOne", "read", "unlock"},
   fn: Functions, name: Names, sender: Names, addr: Addrs, id: 0..MaxId,
   rc: (-1..3) \cup (0..MaxId) \cup (0..Cardinality(Names))]

(* Tables, calls and the mutex keep their types, and no return code or *)
(* identifier leaves its range (users.h).                              *)
StepsTypeOK ==
  /\ StoreTypeOK
  /\ call \in [Callers -> CallState]
  /\ lock \in Callers \cup {NoCaller}
  /\ errors \in 0..MaxErrors /\ crashes \in 0..MaxCrashes

StepsInit ==
  /\ StoreInit
  /\ call = [c \in Callers |-> NoCall]
  /\ lock = NoCaller
  /\ before = store
  /\ errors = 0 /\ crashes = 0

-----------------------------------------------------------------------------
(* Every step of a caller inside a function. *)
In(c, place) == call[c].pc = place /\ lock = c

Goes(c, place) == call' = [call EXCEPT ![c].pc = place]
(* Mistake: the returns with an error forget to unlock. *)
WrongReturns(c, rc) ==
  call' = [call EXCEPT ![c] = IF rc = ErrorCode(call[c].fn) THEN NoCall
                              ELSE [call[c] EXCEPT !.pc = "unlock", !.rc = rc]]

Returns(c, rc) == call' = [call EXCEPT ![c].pc = "unlock", ![c].rc = rc]

Works == UNCHANGED errors
Fails == errors < MaxErrors /\ errors' = errors + 1

Call(c, fn, n, s, a, id) ==
  /\ call[c] = NoCall
  /\ call' = [call EXCEPT ![c] = [pc |-> "lock", fn |-> fn, name |-> n,
                                  sender |-> s, addr |-> a, id |-> id,
                                  rc |-> 0]]
  /\ UNCHANGED <<store, lock, before, errors, crashes>>

(* Mistake: the mutex keeps nobody out. *)
WrongLock(c) ==
  /\ call[c].pc = "lock"
  /\ lock' = c /\ before' = store /\ Goes(c, First(call[c].fn))
  /\ UNCHANGED <<store, errors, crashes>>

Lock(c) ==
  /\ call[c].pc = "lock" /\ lock = NoCaller
  /\ lock' = c
  /\ before' = store
  /\ Goes(c, First(call[c].fn))
  /\ UNCHANGED <<store, errors, crashes>>

(* The SELECT that opens four writers and user_get_conn_info.  A failure of *)
(* sqlite3_step cannot be told from a user that does not exist.             *)
Select(c) ==
  LET fn == call[c].fn
      n  == call[c].name
      Found(found) ==
        CASE fn = "user_add" ->
               IF found THEN Returns(c, 1) ELSE Goes(c, "write")
          [] fn = "user_remove" ->
               IF found THEN Goes(c, "deleteAll") ELSE Returns(c, 1)
          [] fn = "user_connect" ->
               IF ~found THEN Returns(c, 1)
               ELSE IF Connected(n) THEN Returns(c, 2) ELSE Goes(c, "write")
          [] fn = "user_disconnect" ->
               IF ~found THEN Returns(c, 1)
               ELSE IF Connected(n) THEN Goes(c, "write") ELSE Returns(c, 2)
          [] OTHER -> Returns(c, IF found THEN ConnInfo(n) ELSE 1)
  IN
  /\ In(c, "select")
  /\ \/ Works /\ Found(Exists(n))
     \/ Fails /\ (Found(FALSE) \/ Returns(c, ErrorCode(fn)))
  /\ UNCHANGED <<store, lock, before, crashes>>

(* Mistake: one message is deleted, the oldest. *)
WrongDeleteAll(c) ==
  /\ In(c, "deleteAll") /\ Goes(c, "write")
  /\ messages' = {m \in messages : ~(m.receiver = call[c].name /\ IsOldest(m))}
  /\ UNCHANGED <<users, nextRow, lock, before, errors, crashes>>

(* DELETE FROM messages WHERE receiver: its failure is ignored. *)
DeleteAll(c) ==
  /\ In(c, "deleteAll")
  /\ \/ Works /\ messages' = messages \ PendingOf(call[c].name)
     \/ Fails /\ messages' = messages
  /\ Goes(c, "write")
  /\ UNCHANGED <<users, nextRow, lock, before, crashes>>

(* The last statement of a writer: INSERT, DELETE or UPDATE on users. *)
Write(c) ==
  LET fn == call[c].fn
      n  == call[c].name
      a  == call[c].addr
  IN
  /\ In(c, "write")
  /\ \/ /\ Works /\ (fn = "user_add" => ~Exists(n))
        /\ users' =
             CASE fn = "user_add" ->
                    [users EXCEPT ![n] = [status |-> 0, ip |-> NoIp,
                                          port |-> 0, msg_counter |-> 0]]
               [] fn = "user_remove" -> [users EXCEPT ![n] = NoUser]
               [] fn = "user_connect" ->
                    [users EXCEPT ![n].status = 1, ![n].ip = a[1],
                                  ![n].port = a[2]]
               [] fn = "user_disconnect" ->
                    [users EXCEPT ![n].status = 0, ![n].ip = NoIp,
                                  ![n].port = 0]
        /\ Returns(c, 0)
     \/ /\ Fails \/ (Works /\ fn = "user_add" /\ Exists(n))  \* primary key
        /\ users' = users
        /\ Returns(c, ErrorCode(fn))
  /\ UNCHANGED <<messages, nextRow, lock, before, crashes>>

(* The three statements of msg_add. *)
Count(c) ==
  LET n == call[c].name IN
  /\ In(c, "count")
  /\ \/ /\ Works /\ Exists(n)
        /\ users' = [users EXCEPT ![n].msg_counter =
                                    NextId(users[n].msg_counter)]
        /\ Goes(c, "readCount")
     \/ /\ Fails \/ (Works /\ ~Exists(n))
        /\ users' = users /\ Returns(c, 0)
  /\ UNCHANGED <<messages, nextRow, lock, before, crashes>>

ReadCount(c) ==
  /\ In(c, "readCount")
  /\ \/ /\ Works
        /\ call' = [call EXCEPT ![c].pc = "insert",
                                ![c].id = users[call[c].name].msg_counter]
     \/ Fails /\ Returns(c, 0)
  /\ UNCHANGED <<store, lock, before, crashes>>

(* Mistake: what is returned is sqlite3_last_insert_rowid. *)
WrongInsert(c) ==
  /\ In(c, "insert") /\ Works /\ Returns(c, nextRow)
  /\ messages' = messages \cup
       {[row |-> nextRow, id |-> call[c].id,
         sender |-> call[c].sender, receiver |-> call[c].name]}
  /\ nextRow' = nextRow + 1
  /\ UNCHANGED <<users, lock, before, crashes>>

Insert(c) ==
  /\ In(c, "insert")
  /\ \/ /\ Works
        /\ messages' = messages \cup
             {[row |-> nextRow, id |-> call[c].id,
               sender |-> call[c].sender, receiver |-> call[c].name]}
        /\ nextRow' = nextRow + 1
        /\ Returns(c, call[c].id)
     \/ Fails /\ Returns(c, 0) /\ UNCHANGED <<messages, nextRow>>
  /\ UNCHANGED <<users, lock, before, crashes>>

DeleteOne(c) ==
  /\ In(c, "deleteOne")
  /\ \/ /\ Works /\ Returns(c, 0)
        /\ messages' = {m \in messages :
                          ~(m.receiver = call[c].name /\ m.id = call[c].id)}
     \/ Fails /\ Returns(c, -1) /\ messages' = messages
  /\ UNCHANGED <<users, nextRow, lock, before, crashes>>

(* msg_get_next answers 0 or, when no row waits, 1; users_get_connected the *)
(* number of rows.  A step that fails reads as the end of the rows.         *)
Online == Cardinality({n \in Names : Connected(n)})
Read(c) ==
  LET next == call[c].fn = "msg_get_next" IN
  /\ In(c, "read")
  /\ \/ Works /\ next /\ PendingOf(call[c].name) # {} /\ Returns(c, 0)
     \/ Works /\ next /\ PendingOf(call[c].name) = {} /\ Returns(c, 1)
     \/ Works /\ ~next /\ Returns(c, Online)
     \/ /\ Fails
        /\ \/ Returns(c, ErrorCode(call[c].fn))
           \/ next /\ Returns(c, 1)
           \/ ~next /\ \E rows \in 0..Online : Returns(c, rows)
  /\ UNCHANGED <<store, lock, before, crashes>>

Unlock(c) ==
  /\ In(c, "unlock")
  /\ lock' = NoCaller
  /\ call' = [call EXCEPT ![c] = NoCall]
  /\ UNCHANGED <<store, before, errors, crashes>>

Die ==
  /\ crashes < MaxCrashes
  /\ crashes' = crashes + 1
  /\ call' = [c \in Callers |-> NoCall]
  /\ lock' = NoCaller
  /\ UNCHANGED <<store, before, errors>>

-----------------------------------------------------------------------------
Statement(c) ==
  \/ Select(c) \/ DeleteAll(c) \/ Write(c) \/ Count(c) \/ ReadCount(c)
  \/ Insert(c) \/ DeleteOne(c) \/ Read(c)

Adding == Cardinality({c \in Callers : call[c].pc # "idle"
                                       /\ call[c].fn = "msg_add"})

(* The arguments a function does not take have one value. *)
Calls(c) ==
  \E fn \in Functions, n \in Names :
    LET anyName == CHOOSE s \in Names : TRUE
        anyAddr == CHOOSE a \in Addrs : TRUE
    IN
    \E s \in IF fn = "msg_add" THEN Names ELSE {anyName},
       a \in IF fn = "user_connect" THEN Addrs ELSE {anyAddr},
       id \in IF fn = "msg_delete" THEN 1..MaxId ELSE {0} :
      /\ fn = "msg_add" => nextRow + Adding =< MaxRows
      /\ Call(c, fn, n, s, a, id)

StepsNext ==
  Die \/ \E c \in Callers : Calls(c) \/ Lock(c) \/ Statement(c) \/ Unlock(c)

StepsSpec == StepsInit /\ [][StepsNext]_stepVars

(* A thread that holds the mutex is run; nothing is assumed of one that *)
(* waits for it.                                                        *)
FairSteps ==
  StepsSpec /\ \A c \in Callers : WF_stepVars(Statement(c) \/ Unlock(c))

-----------------------------------------------------------------------------
(* The tables as the other threads can find them: nobody looks while the *)
(* mutex is held.                                                        *)
Visible(now, then) == IF lock = NoCaller THEN now ELSE then

Atomic == INSTANCE AtomicStore WITH
  users    <- Visible(users, before[1]),
  messages <- Visible(messages, before[2]),
  nextRow  <- Visible(nextRow, before[3]),
  faulty   <- errors + crashes > 0

(* Every function acts at once, at the return that unlocks db_mutex, and  *)
(* leaves nothing half done unless a statement failed or the process died *)
(* (db_mutex around every function of users.c).                           *)
FunctionsAreAtomic == Atomic!AtomicSpec

(* No message is left without its user, wherever the process dies: messages *)
(* are deleted before the user (user_remove), and inserted after the UPDATE *)
(* that found the user (msg_add).                                           *)
NoOrphansBarringErrors ==
  errors = 0 => \A m \in messages : Exists(m.receiver)

(* What a function is about to return is what was found and what was done. *)
CodeIsTrue(c) ==
  LET n  == call[c].name
      rc == call[c].rc
      was == before[1][n]
      wasOn == was # NoUser /\ was.status = 1
      is(fn) == call[c].fn = fn
  IN
  /\ is("user_add") => Exists(n) /\ (rc = 1 <=> was # NoUser)
  /\ is("user_remove") => /\ ~Exists(n) /\ PendingOf(n) = {}
                          /\ rc = 1 <=> was = NoUser
  /\ is("user_connect") =>
       /\ rc = 1 <=> was = NoUser
       /\ rc = 2 <=> wasOn
       /\ rc = 0 => Connected(n) /\ AddrOf(n) = call[c].addr
  /\ is("user_disconnect") => /\ ~Connected(n)
                              /\ rc = 1 <=> was = NoUser
                              /\ rc = 0 <=> wasOn
  /\ is("msg_add") =>
       /\ rc = 0 <=> was = NoUser
       /\ rc # 0 => \E m \in messages :
                      /\ m.receiver = n /\ m.id = rc
                      /\ m.sender = call[c].sender
                      /\ m \notin before[2]
  /\ is("msg_delete") => rc = 0 /\ \A m \in PendingOf(n) : m.id # call[c].id
  /\ is("msg_get_next") => (rc = 0 <=> PendingOf(n) # {})

(* The codes of users.h say what was found and what was done, when every *)
(* statement worked: at the return of each function.                     *)
CodesAreTrue ==
  errors = 0 => \A c \in Callers : call[c].pc = "unlock" => CodeIsTrue(c)

(* db_mutex is given back on every path through every function. *)
MutexIsReleased == \A c \in Callers : lock = c ~> lock # c

(* "borramos sus mensajes antes que al usuario para no dejar huerfanos":  *)
(* there are never messages without their user (user_remove ignores the   *)
(* failure of the statement that deletes them).                           *)
NeverOrphans == \A m \in messages : Exists(m.receiver)

-----------------------------------------------------------------------------
(* What a function has done to the tables since it took the mutex, by the   *)
(* statement it has come to.                                                *)
Was(n)    == before[1][n]
RowsKept  == messages = before[2] /\ nextRow = before[3]
Untouched == users = before[1] /\ RowsKept
Emptied(n) ==
  messages = {m \in before[2] : m.receiver # n} /\ nextRow = before[3]
Counted(n) ==
  /\ Was(n) # NoUser
  /\ users = [before[1] EXCEPT ![n].msg_counter = NextId(Was(n).msg_counter)]

(* The function has done all it is for. *)
Effect(c) ==
  LET n == call[c].name
      a == call[c].addr
      is(fn) == call[c].fn = fn
  IN
  \/ /\ is("user_add") /\ Was(n) = NoUser /\ RowsKept
     /\ users = [before[1] EXCEPT ![n] = [status |-> 0, ip |-> NoIp, port |-> 0,
                                          msg_counter |-> 0]]
  \/ /\ is("user_remove") /\ Was(n) # NoUser /\ Emptied(n)
     /\ users = [before[1] EXCEPT ![n] = NoUser]
  \/ /\ is("user_connect") /\ Was(n) # NoUser /\ Was(n).status # 1 /\ RowsKept
     /\ users = [before[1] EXCEPT ![n].status = 1, ![n].ip = a[1], ![n].port = a[2]]
  \/ /\ is("user_disconnect") /\ Was(n) # NoUser /\ Was(n).status = 1 /\ RowsKept
     /\ users = [before[1] EXCEPT ![n].status = 0, ![n].ip = NoIp, ![n].port = 0]
  \/ /\ is("msg_add") /\ Counted(n) /\ nextRow = before[3] + 1
     /\ messages = before[2] \cup
          {[row |-> before[3], id |-> NextId(Was(n).msg_counter),
            sender |-> call[c].sender, receiver |-> n]}
  \/ /\ is("msg_delete") /\ users = before[1] /\ nextRow = before[3]
     /\ messages = {m \in before[2] : ~(m.receiver = n /\ m.id = call[c].id)}

(* It has done half of it. *)
HalfEffect(c) ==
  LET n == call[c].name IN
  \/ /\ call[c].fn = "user_remove" /\ Was(n) # NoUser
     /\ \/ Emptied(n) /\ users = before[1]
        \/ RowsKept /\ users = [before[1] EXCEPT ![n] = NoUser]
  \/ call[c].fn = "msg_add" /\ Counted(n) /\ RowsKept

(* Only the holder of the mutex is past "lock", at a statement of its own   *)
(* function.                                                                *)
PlaceOK(c) ==
  LET fn == call[c].fn
      At(places) == call[c].pc \in places
  IN
  /\ lock = c <=> ~At({"idle", "lock"})
  /\ At({"select"}) => fn \in Writers \cup {"user_get_conn_info"}
  /\ At({"deleteAll"}) => fn = "user_remove"
  /\ At({"write"}) => fn \in Writers
  /\ At({"count", "readCount", "insert"}) => fn = "msg_add"
  /\ At({"deleteOne"}) => fn = "msg_delete"
  /\ At({"read"}) => fn \in {"msg_get_next", "users_get_connected"}
  /\ ~At({"idle"}) /\ fn = "msg_delete" => call[c].id \in 1..MaxId

ProgressOK(c) ==
  LET n  == call[c].name
      fn == call[c].fn
      At(places) == call[c].pc \in places
  IN
  /\ At({"select", "deleteAll", "count", "deleteOne", "read"}) => Untouched
  /\ At({"deleteAll"}) => Exists(n)
  /\ At({"write"}) =>
       /\ \/ Untouched
          \/ fn = "user_remove" /\ Emptied(n) /\ users = before[1]
       /\ errors = 0 => /\ fn = "user_add" => ~Exists(n)
                        /\ fn = "user_remove" => Emptied(n)
       /\ fn = "user_remove" => Exists(n)
       /\ fn = "user_connect" => Exists(n) /\ ~Connected(n)
       /\ fn = "user_disconnect" => Connected(n)
  /\ At({"readCount", "insert"}) => Counted(n) /\ RowsKept
  /\ At({"insert"}) => call[c].id = NextId(Was(n).msg_counter)
  /\ At({"unlock"}) => Untouched \/ Effect(c) \/ (errors > 0 /\ HalfEffect(c))

(* Inductive, and implies the invariants and, at each step, the refinement  *)
(* (StoreStepsProofs).                                                      *)
StepsInductive ==
  /\ StepsTypeOK /\ before[1] \in [Names -> UserRow \cup {NoUser}]
  /\ \A c \in Callers : PlaceOK(c) /\ ProgressOK(c)
  /\ \A m \in messages : m.row < nextRow
  /\ NoOrphansBarringErrors
  /\ CodesAreTrue
=============================================================================
