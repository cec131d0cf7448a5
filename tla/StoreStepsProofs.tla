--------------------------- MODULE StoreStepsProofs ---------------------------
(***************************************************************************)
(* The promises of StoreSteps hold for every number of threads, every      *)
(* bound on failures and deaths, and every set of users: db_mutex makes    *)
(* each function of src/users.c one step, and what a failure leaves half   *)
(* done is what AtomicStore lists.                                         *)
(***************************************************************************)
EXTENDS StoreSteps, UserStoreProofs, FiniteSetTheorems

Places == {"lock", "select", "deleteAll", "write", "count", "readCount",
           "insert", "deleteOne", "read", "unlock"}
Codes  == (-1..3) \cup (0..MaxId) \cup (0..Cardinality(Names))
Active == [pc: Places, fn: Functions, name: Names, sender: Names, addr: Addrs,
           id: 0..MaxId, rc: Codes]

(* A thread inside a function has a call of the right type. *)
LEMMA ActiveCall ==
  ASSUME StepsTypeOK, NEW c \in Callers, call[c].pc # "idle"
  PROVE  call[c] \in Active
BY DEF StepsTypeOK, CallState, Active, Places, Codes, NoCall

(* No call at all, and a call to any place with any code, are in the type. *)
LEMMA CallStates == NoCall \in CallState /\ Active \subseteq CallState
BY DEF CallState, Active, Places, Codes

(* What the threads are doing is typed again when one of them moves. *)
LEMMA OneMoves ==
  ASSUME StepsTypeOK, NEW c \in Callers, NEW x \in CallState,
         call' = [call EXCEPT ![c] = x]
  PROVE  /\ call' \in [Callers -> CallState] /\ call'[c] = x
         /\ \A d \in Callers \ {c} : call'[d] = call[d]
BY DEF StepsTypeOK

(* A thread that goes on to its next statement keeps its call. *)
LEMMA GoesOn ==
  ASSUME StepsTypeOK, NEW c \in Callers, call[c].pc # "idle",
         NEW place \in Places, Goes(c, place)
  PROVE  /\ call' \in [Callers -> CallState]
         /\ \A d \in Callers \ {c} : call'[d] = call[d]
         /\ call'[c].pc = place /\ call'[c].fn = call[c].fn
         /\ call'[c].name = call[c].name /\ call'[c].addr = call[c].addr
         /\ call'[c].sender = call[c].sender /\ call'[c].id = call[c].id
<1> DEFINE x == [call[c] EXCEPT !.pc = place]
<1>1. call[c] \in Active BY ActiveCall
<1>2. x \in Active BY <1>1 DEF Active
<1>3. call' = [call EXCEPT ![c] = x] BY DEF Goes
<1>4. /\ call' \in [Callers -> CallState] /\ call'[c] = x
      /\ \A d \in Callers \ {c} : call'[d] = call[d]
  <2> HIDE DEF x
  <2>1. x \in CallState BY <1>2, CallStates
  <2>2. QED BY <2>1, <1>3, OneMoves
<1>5. QED BY <1>1, <1>4 DEF Active

(* A thread that has come to the end of its function keeps its call too. *)
LEMMA ReturnsWith ==
  ASSUME StepsTypeOK, NEW c \in Callers, call[c].pc # "idle",
         NEW rc \in Codes, Returns(c, rc)
  PROVE  /\ call' \in [Callers -> CallState]
         /\ \A d \in Callers \ {c} : call'[d] = call[d]
         /\ call'[c].pc = "unlock" /\ call'[c].rc = rc
         /\ call'[c].fn = call[c].fn
         /\ call'[c].name = call[c].name /\ call'[c].addr = call[c].addr
         /\ call'[c].sender = call[c].sender /\ call'[c].id = call[c].id
<1> DEFINE x == [[call[c] EXCEPT !.pc = "unlock"] EXCEPT !.rc = rc]
<1>1. call[c] \in Active BY ActiveCall
<1>2. x \in Active BY <1>1 DEF Active, Places
<1>3. call' = [call EXCEPT ![c] = x] BY DEF Returns, StepsTypeOK
<1>4. /\ call' \in [Callers -> CallState] /\ call'[c] = x
      /\ \A d \in Callers \ {c} : call'[d] = call[d]
  <2> HIDE DEF x
  <2>1. x \in CallState BY <1>2, CallStates
  <2>2. QED BY <2>1, <1>3, OneMoves
<1>5. QED BY <1>1, <1>4 DEF Active

(* What a statement that fails leaves of the count of failures, and one that *)
(* works.                                                                    *)
LEMMA ErrorsGrow ==
  ASSUME errors \in 0..MaxErrors, Works \/ Fails
  PROVE  errors' \in 0..MaxErrors /\ (errors' = 0 => errors = 0 /\ Works)
BY BoundsAssumption DEF Works, Fails

(* The codes of the functions are codes. *)
LEMMA CodesExist ==
  /\ \A rc \in -1..3 : rc \in Codes
  /\ \A fn \in Functions : ErrorCode(fn) \in -1..3
  /\ \A rc \in 0..MaxId : rc \in Codes
  /\ Online \in 0..Cardinality(Names) /\ Online \in Nat
  /\ \A rows \in 0..Online : rows \in Codes
<1>1. Cardinality(Names) \in Nat BY NamesAssumption, FS_CardinalityType
<1>2. Online \in Nat /\ Online =< Cardinality(Names)
  BY NamesAssumption, FS_Subset, FS_CardinalityType DEF Online
<1>3. QED BY <1>1, <1>2 DEF Codes, ErrorCode, Functions, Writers, Readers

-----------------------------------------------------------------------------
(* What a statement of the thread that holds the mutex must establish. *)
Holds(c) ==
  /\ PlaceOK(c) /\ ProgressOK(c)
  /\ errors = 0 /\ call[c].pc = "unlock" => CodeIsTrue(c)

(* While one thread holds the mutex, the others are outside their functions, *)
(* and nothing is promised of them.                                          *)
LEMMA OthersHold ==
  ASSUME StepsInductive, NEW c \in Callers, lock = c, lock' = lock,
         NEW d \in Callers \ {c}, call'[d] = call[d]
  PROVE  Holds(d)'
<1>1. call[d].pc \in {"idle", "lock"} BY DEF StepsInductive, PlaceOK
<1>2. PlaceOK(d) BY DEF StepsInductive
<1>3. PlaceOK(d)' BY <1>2 DEF PlaceOK
<1>4. ProgressOK(d)' BY <1>1 DEF ProgressOK
<1>5. QED BY <1>1, <1>3, <1>4 DEF Holds

(* What every statement needs of the state it starts in. *)
LEMMA Inside ==
  ASSUME StepsInductive, NEW c \in Callers, lock = c
  PROVE  /\ StepsTypeOK /\ PlaceOK(c) /\ ProgressOK(c)
         /\ call[c].pc \notin {"idle", "lock"} /\ call[c] \in Active
         /\ call[c].fn \in Functions /\ call[c].name \in Names
         /\ call[c].sender \in Names /\ call[c].addr \in Addrs
         /\ call[c].id \in 0..MaxId
<1>1. StepsTypeOK /\ PlaceOK(c) /\ ProgressOK(c) BY DEF StepsInductive
<1>2. call[c].pc \notin {"idle", "lock"} BY <1>1 DEF PlaceOK
<1>3. call[c] \in Active BY <1>1, <1>2, ActiveCall
<1>4. QED BY <1>1, <1>2, <1>3 DEF Active

(* What a statement of a thread does to the calls, and to its own promises. *)
Moves(c) ==
  /\ call' \in [Callers -> CallState]
  /\ \A d \in Callers \ {c} : call'[d] = call[d]
  /\ Holds(c)'

(* A return with the mutex held keeps what Moves asks, as long as the tables *)
(* and the code are right.                                                   *)
LEMMA Returning ==
  ASSUME StepsInductive, NEW c \in Callers, lock = c, lock' = lock,
         NEW rc \in Codes, Returns(c, rc),
         (Untouched \/ Effect(c) \/ (errors > 0 /\ HalfEffect(c)))',
         errors' = 0 => CodeIsTrue(c)'
  PROVE  Moves(c)
<1>1. StepsTypeOK /\ PlaceOK(c) /\ call[c].pc \notin {"idle", "lock"} BY Inside
<1>2. /\ call' \in [Callers -> CallState]
      /\ \A d \in Callers \ {c} : call'[d] = call[d]
      /\ call'[c].pc = "unlock" /\ call'[c].fn = call[c].fn
      /\ call'[c].id = call[c].id
  BY <1>1, ReturnsWith
<1>3. PlaceOK(c)' BY <1>1, <1>2 DEF PlaceOK
<1>4. ProgressOK(c)' BY <1>2 DEF ProgressOK
<1>5. QED BY <1>2, <1>3, <1>4 DEF Moves, Holds

(* The first SELECT of a function finds, or misses, the user it names. *)
LEMMA SelectHolds ==
  ASSUME StepsInductive, NEW c \in Callers, Select(c)
  PROVE  Moves(c)
<1> DEFINE fn == call[c].fn
           n  == call[c].name
<1>1. /\ call[c].pc = "select" /\ lock = c /\ UNCHANGED <<store, lock, before>>
      /\ errors \in 0..MaxErrors /\ (Works \/ Fails)
  BY DEF StepsInductive, StepsTypeOK, Select, In
<1>2. /\ StepsTypeOK /\ PlaceOK(c) /\ ProgressOK(c) /\ Untouched
      /\ fn \in Writers \cup {"user_get_conn_info"} /\ fn \in Functions
      /\ call[c].id \in 0..MaxId /\ n \in Names
      /\ errors' = 0 => errors = 0 /\ Works
  BY <1>1, Inside, ErrorsGrow DEF PlaceOK, ProgressOK
<1>3. \/ \E rc \in -1..3 :
           /\ Returns(c, rc)
           /\ errors' = 0 =>
                /\ fn = "user_add" => Exists(n) /\ rc = 1
                /\ fn = "user_remove" => ~Exists(n) /\ rc = 1
                /\ fn = "user_connect" =>
                     \/ ~Exists(n) /\ rc = 1
                     \/ Connected(n) /\ rc = 2
                /\ fn = "user_disconnect" =>
                     \/ ~Exists(n) /\ rc = 1
                     \/ Exists(n) /\ ~Connected(n) /\ rc = 2
      \/ /\ Goes(c, "write")
         /\ \/ fn = "user_add" /\ (errors' = 0 => ~Exists(n))
            \/ fn = "user_connect" /\ Exists(n) /\ ~Connected(n)
            \/ fn = "user_disconnect" /\ Connected(n)
      \/ Goes(c, "deleteAll") /\ fn = "user_remove" /\ Exists(n)
  <2>1. CASE Works
    <3>1. ~Fails BY <2>1, <1>1 DEF Works, Fails
    <3>2. CASE fn = "user_add"
      BY <3>1, <3>2, <1>2 DEF Select
    <3>3. CASE fn = "user_remove"
      BY <3>1, <3>3, <1>2 DEF Select
    <3>4. CASE fn = "user_connect"
      <4>1. CASE ~Exists(n)
        <5>1. Returns(c, 1) BY <4>1, <3>1, <3>4, <1>2 DEF Select
        <5>2. QED BY <5>1, <4>1, <3>4
      <4>2. CASE Exists(n) /\ Connected(n) BY <4>2, <3>1, <3>4, <1>2 DEF Select
      <4>3. CASE Exists(n) /\ ~Connected(n) BY <4>3, <3>1, <3>4, <1>2 DEF Select
      <4>4. QED BY <4>1, <4>2, <4>3
    <3>5. CASE fn = "user_disconnect"
      <4>1. CASE ~Exists(n)
        <5>1. Returns(c, 1) BY <4>1, <3>1, <3>5, <1>2 DEF Select
        <5>2. QED BY <5>1, <4>1, <3>5
      <4>2. CASE Exists(n) /\ Connected(n) BY <4>2, <3>1, <3>5, <1>2 DEF Select
      <4>3. CASE Exists(n) /\ ~Connected(n) BY <4>3, <3>1, <3>5, <1>2 DEF Select
      <4>4. QED BY <4>1, <4>2, <4>3
    <3>6. CASE fn = "user_get_conn_info"
      BY <3>1, <3>6, <1>2 DEF Select, ConnInfo
    <3>7. QED BY <3>2, <3>3, <3>4, <3>5, <3>6, <1>2 DEF Writers
  <2>2. CASE ~Works
    <3>1. errors' # 0 BY <2>2, <1>2
    <3>2. CASE Returns(c, ErrorCode(fn)) BY <3>1, <3>2, <1>2, CodesExist
    <3>3. CASE ~Returns(c, ErrorCode(fn))
      <4>1. \/ fn = "user_add" /\ Goes(c, "write")
            \/ Returns(c, 1)
        BY <3>3, <2>2, <1>2 DEF Select, Writers
      <4>2. QED BY <4>1, <3>1
    <3>4. QED BY <3>2, <3>3
  <2>3. QED BY <2>1, <2>2
<1> USE DEF Holds, Untouched, RowsKept, store
<1>4. ASSUME Goes(c, "write"),
             \/ fn = "user_add" /\ (errors' = 0 => ~Exists(n))
             \/ fn = "user_connect" /\ Exists(n) /\ ~Connected(n)
             \/ fn = "user_disconnect" /\ Connected(n)
      PROVE  Moves(c)
  <2>1. /\ call' \in [Callers -> CallState]
        /\ \A d \in Callers \ {c} : call'[d] = call[d]
        /\ call'[c].pc = "write" /\ call'[c].fn = fn /\ call'[c].name = n
    BY <1>1, <1>2, <1>4, GoesOn DEF Places
  <2>2. PlaceOK(c)' BY <1>1, <1>2, <1>4, <2>1 DEF PlaceOK, Writers
  <2>3. ProgressOK(c)'
    BY <1>1, <1>2, <1>4, <2>1 DEF ProgressOK, Exists, Connected
  <2>4. QED BY <2>1, <2>2, <2>3 DEF Moves
<1>5. ASSUME Goes(c, "deleteAll"), fn = "user_remove", Exists(n)
      PROVE  Moves(c)
  <2>1. /\ call' \in [Callers -> CallState]
        /\ \A d \in Callers \ {c} : call'[d] = call[d]
        /\ call'[c].pc = "deleteAll" /\ call'[c].fn = fn /\ call'[c].name = n
    BY <1>1, <1>2, <1>5, GoesOn DEF Places
  <2>2. PlaceOK(c)' /\ ProgressOK(c)'
    BY <1>1, <1>2, <1>5, <2>1 DEF PlaceOK, ProgressOK, Exists
  <2>3. QED BY <2>1, <2>2 DEF Moves
<1>6. ASSUME NEW rc \in -1..3, Returns(c, rc),
             errors' = 0 =>
               /\ fn = "user_add" => Exists(n) /\ rc = 1
               /\ fn = "user_remove" => ~Exists(n) /\ rc = 1
               /\ fn = "user_connect" => \/ ~Exists(n) /\ rc = 1
                                         \/ Connected(n) /\ rc = 2
               /\ fn = "user_disconnect" =>
                    \/ ~Exists(n) /\ rc = 1
                    \/ Exists(n) /\ ~Connected(n) /\ rc = 2
      PROVE  Moves(c)
  <2>1. /\ call'[c].pc = "unlock" /\ call'[c].rc = rc
        /\ call'[c].fn = fn /\ call'[c].name = n /\ call'[c].addr = call[c].addr
    BY <1>1, <1>2, <1>6, ReturnsWith, CodesExist
  <2>2. Untouched' BY <1>1, <1>2
  <2>3. ASSUME errors' = 0 PROVE CodeIsTrue(c)'
    <3>1. NoOrphansBarringErrors /\ errors = 0
      BY <1>2, <2>3 DEF StepsInductive
    <3>2. ~Exists(n) => PendingOf(n) = {}
      BY <3>1, <1>2 DEF NoOrphansBarringErrors, PendingOf
    <3>3. QED
      BY <1>1, <1>2, <1>6, <2>1, <2>3, <3>2
      DEF CodeIsTrue, Exists, Connected, PendingOf, Writers
  <2>4. QED BY <1>1, <1>6, <2>2, <2>3, Returning, CodesExist
<1>7. QED BY <1>3, <1>4, <1>5, <1>6

(* The messages of a user that is removed go first, if the statement works. *)
LEMMA DeleteAllHolds ==
  ASSUME StepsInductive, NEW c \in Callers, DeleteAll(c)
  PROVE  Moves(c)
<1> DEFINE n == call[c].name
<1>1. /\ call[c].pc = "deleteAll" /\ lock = c
      /\ UNCHANGED <<users, nextRow, lock, before>>
      /\ errors \in 0..MaxErrors /\ (Works \/ Fails) /\ Goes(c, "write")
      /\ \/ Works /\ messages' = messages \ PendingOf(n)
         \/ Fails /\ messages' = messages
  BY DEF StepsInductive, StepsTypeOK, DeleteAll, In
<1>2. /\ StepsTypeOK /\ Untouched /\ Exists(n) /\ call[c].fn = "user_remove"
      /\ errors' = 0 => errors = 0 /\ Works
  BY <1>1, Inside, ErrorsGrow DEF PlaceOK, ProgressOK
<1>3. /\ call' \in [Callers -> CallState]
      /\ \A d \in Callers \ {c} : call'[d] = call[d]
      /\ call'[c].pc = "write" /\ call'[c].fn = "user_remove" /\ call'[c].name = n
  BY <1>1, <1>2, GoesOn DEF Places
<1>4. PlaceOK(c)' BY <1>1, <1>3 DEF PlaceOK, Writers
<1>5. messages' = messages \ PendingOf(n) => Emptied(n)'
  BY <1>1, <1>2, <1>3 DEF Emptied, Untouched, RowsKept, PendingOf
<1>6. ProgressOK(c)'
  BY <1>1, <1>2, <1>3, <1>5
  DEF ProgressOK, Untouched, RowsKept, Exists, Works, Fails
<1>7. QED BY <1>3, <1>4, <1>6 DEF Moves, Holds

(* The last statement of a writer does what the function is for, or nothing. *)
LEMMA WriteHolds ==
  ASSUME StepsInductive, NEW c \in Callers, Write(c)
  PROVE  Moves(c)
<1>0. lock = c /\ call[c].name \in Names /\ call[c].addr \in Addrs
  BY Inside DEF Write, In
<1> PICK n \in Names, a \in Addrs : n = call[c].name /\ a = call[c].addr
  BY <1>0
<1> DEFINE fn == call[c].fn
           new == [status |-> 0, ip |-> NoIp, port |-> 0, msg_counter |-> 0]
<1>1. /\ call[c].pc = "write" /\ lock = c
      /\ UNCHANGED <<messages, nextRow, lock, before>>
      /\ errors \in 0..MaxErrors /\ (Works \/ Fails)
  BY DEF StepsInductive, StepsTypeOK, Write, In
<1>2. /\ StepsTypeOK /\ StoreTypeOK /\ fn \in Writers /\ fn \in Functions
      /\ ProgressOK(c)
      /\ errors' = 0 => errors = 0 /\ Works
  BY <1>1, Inside, ErrorsGrow DEF PlaceOK, StepsTypeOK
<1>3. /\ errors = 0 => /\ fn = "user_add" => ~Exists(n)
                       /\ fn = "user_remove" => Emptied(n)
      /\ fn = "user_remove" => Exists(n)
      /\ fn = "user_connect" => Exists(n) /\ ~Connected(n)
      /\ fn = "user_disconnect" => Connected(n)
      /\ users = before[1] /\ nextRow = before[3]
      /\ fn # "user_remove" => RowsKept
      /\ RowsKept \/ Emptied(n)
  BY <1>1, <1>2 DEF ProgressOK, Untouched, RowsKept, Emptied
<1>4. ErrorCode(fn) \in {2, 3} /\ ErrorCode(fn) \in Codes /\ 0 \in Codes
  BY <1>2, CodesExist DEF ErrorCode, Writers
<1>5. ASSUME users' = users, Returns(c, ErrorCode(fn)),
             Fails \/ (fn = "user_add" /\ Exists(n))
      PROVE  Moves(c)
  <2>1. /\ call'[c].fn = fn /\ call'[c].name = n
    BY <1>1, <1>2, <1>4, <1>5, ReturnsWith
  <2>2. errors' # 0 BY <1>1, <1>2, <1>3, <1>5 DEF Works, Fails
  <2>3. errors' > 0 BY <1>1, <1>2, <2>2, ErrorsGrow
  <2>4. (Untouched \/ HalfEffect(c))'
    BY <1>1, <1>3, <1>5, <2>1
    DEF Untouched, RowsKept, Emptied, HalfEffect, Was, Exists
  <2>5. QED BY <1>1, <1>4, <1>5, <2>2, <2>3, <2>4, Returning
<1>6. ASSUME Works, fn = "user_add" => ~Exists(n), Returns(c, 0),
             users' = CASE fn = "user_add" -> [users EXCEPT ![n] = new]
                        [] fn = "user_remove" -> [users EXCEPT ![n] = NoUser]
                        [] fn = "user_connect" ->
                             [users EXCEPT ![n].status = 1, ![n].ip = a[1],
                                           ![n].port = a[2]]
                        [] fn = "user_disconnect" ->
                             [users EXCEPT ![n].status = 0, ![n].ip = NoIp,
                                           ![n].port = 0]
      PROVE  Moves(c)
  <2>1. /\ call'[c].fn = fn /\ call'[c].name = n /\ call'[c].addr = a
        /\ call'[c].rc = 0
    BY <1>1, <1>2, <1>4, <1>6, ReturnsWith
  <2>2. (Effect(c) \/ (errors > 0 /\ HalfEffect(c)))'
    <3>1. CASE fn = "user_add"
      BY <1>1, <1>3, <1>6, <2>1, <3>1 DEF Effect, Was, RowsKept, Exists
    <3>2. CASE fn = "user_remove"
      <4>1. errors > 0 \/ Emptied(n)
        BY <1>1, <1>3, <3>2
      <4>2. users' = [before'[1] EXCEPT ![n] = NoUser] /\ Was(n)' # NoUser
        BY <1>1, <1>3, <1>6, <3>2 DEF Was, Exists
      <4>3. CASE Emptied(n)
        BY <4>2, <4>3, <1>1, <2>1, <3>2 DEF Effect, Emptied, Was
      <4>4. CASE ~Emptied(n)
        BY <4>1, <4>2, <4>4, <1>1, <1>3, <1>6, <2>1, <3>2
        DEF HalfEffect, RowsKept, Was, Works
      <4>5. QED BY <4>3, <4>4
    <3>3. CASE fn = "user_connect"
      BY <1>1, <1>3, <1>6, <2>1, <3>3
      DEF Effect, Was, RowsKept, Exists, Connected
    <3>4. CASE fn = "user_disconnect"
      BY <1>1, <1>3, <1>6, <2>1, <3>4
      DEF Effect, Was, RowsKept, Exists, Connected
    <3>5. QED BY <3>1, <3>2, <3>3, <3>4, <1>2 DEF Writers
  <2>3. ASSUME errors' = 0 PROVE CodeIsTrue(c)'
    <3>1. CASE fn = "user_add"
      <4>1. new \in UserRow BY MaxIdAssumption DEF UserRow
      <4>2. Exists(n)'
        BY <4>1, <1>2, <1>6, <3>1, NoUserAssumption DEF StoreTypeOK, Exists
      <4>3. QED BY <4>2, <1>1, <1>3, <1>6, <2>1, <3>1 DEF CodeIsTrue, Exists
    <3>2. CASE fn = "user_remove"
      <4>1. Emptied(n) BY <1>2, <1>3, <2>3, <3>2
      <4>2. ~Exists(n)' /\ PendingOf(n)' = {}
        BY <4>1, <1>1, <1>2, <1>6, <3>2
        DEF StoreTypeOK, Exists, PendingOf, Emptied
      <4>3. QED BY <4>2, <1>1, <1>3, <2>1, <3>2 DEF CodeIsTrue, Exists, PendingOf
    <3>3. CASE fn = "user_connect"
      <4>1. a[1] \in Ips /\ a[2] \in Ports /\ a = <<a[1], a[2]>>
        BY <1>2 DEF Addrs
      <4>2. UserConnect(n, a[1], a[2], 0)
        BY <1>1, <1>3, <1>6, <3>3 DEF UserConnect
      <4>3. Connected(n)' /\ AddrOf(n)' = a
        BY <4>1, <4>2, <1>2, UserConnectEffect
      <4>4. QED
        BY <4>3, <1>1, <1>3, <2>1, <3>3
        DEF CodeIsTrue, Exists, Connected, AddrOf
    <3>4. CASE fn = "user_disconnect"
      <4>1. UserDisconnect(n, 0) BY <1>1, <1>3, <1>6, <3>4 DEF UserDisconnect
      <4>2. ~Connected(n)' BY <4>1, <1>2, UserDisconnectEffect
      <4>3. QED
        BY <4>2, <1>1, <1>3, <2>1, <3>4 DEF CodeIsTrue, Exists, Connected
    <3>5. QED BY <3>1, <3>2, <3>3, <3>4, <1>2 DEF Writers
  <2>4. QED BY <1>1, <1>4, <1>6, <2>2, <2>3, Returning
<1>7. QED
  BY <1>5, <1>6 DEF Write

(* msg_add counts first, if the receiver exists. *)
LEMMA CountHolds ==
  ASSUME StepsInductive, NEW c \in Callers, Count(c)
  PROVE  Moves(c)
<1>0. lock = c /\ call[c].name \in Names BY Inside DEF Count, In
<1> PICK n \in Names : n = call[c].name BY <1>0
<1>1. /\ call[c].pc = "count" /\ lock = c
      /\ UNCHANGED <<messages, nextRow, lock, before>>
      /\ errors \in 0..MaxErrors /\ (Works \/ Fails)
  BY DEF StepsInductive, StepsTypeOK, Count, In
<1>2. /\ StepsTypeOK /\ call[c].fn = "msg_add" /\ Untouched
      /\ errors' = 0 => errors = 0 /\ Works
  BY <1>1, Inside, ErrorsGrow DEF PlaceOK, ProgressOK
<1>3. ASSUME Exists(n), Goes(c, "readCount"),
             users' = [users EXCEPT ![n].msg_counter = NextId(users[n].msg_counter)]
      PROVE  Moves(c)
  <2>1. /\ call' \in [Callers -> CallState]
        /\ \A d \in Callers \ {c} : call'[d] = call[d]
        /\ call'[c].pc = "readCount" /\ call'[c].fn = "msg_add"
        /\ call'[c].name = n
    BY <1>1, <1>2, <1>3, GoesOn DEF Places
  <2>2. PlaceOK(c)' BY <1>1, <2>1 DEF PlaceOK
  <2>3. Counted(n)' /\ RowsKept'
    BY <1>1, <1>2, <1>3 DEF Counted, Was, Exists, Untouched, RowsKept
  <2>4. ProgressOK(c)' BY <2>1, <2>3 DEF ProgressOK
  <2>5. QED BY <2>1, <2>2, <2>4 DEF Moves, Holds
<1>4. ASSUME Fails \/ ~Exists(n), users' = users, Returns(c, 0)
      PROVE  Moves(c)
  <2>1. Untouched' BY <1>1, <1>2, <1>4 DEF Untouched, RowsKept
  <2>2. 0 \in Codes BY CodesExist
  <2>3. /\ call'[c].fn = "msg_add" /\ call'[c].name = n /\ call'[c].rc = 0
    BY <1>1, <1>2, <1>4, <2>2, ReturnsWith
  <2>4. errors' = 0 => CodeIsTrue(c)'
    BY <1>1, <1>2, <1>4, <2>3
    DEF CodeIsTrue, Exists, Untouched, Works, Fails
  <2>5. QED BY <1>1, <1>4, <2>1, <2>2, <2>4, Returning
<1>5. QED BY <1>3, <1>4 DEF Count

(* It reads the count back. *)
LEMMA ReadCountHolds ==
  ASSUME StepsInductive, NEW c \in Callers, ReadCount(c)
  PROVE  Moves(c)
<1>0. lock = c /\ call[c].name \in Names BY Inside DEF ReadCount, In
<1> PICK n \in Names : n = call[c].name BY <1>0
<1>1. /\ call[c].pc = "readCount" /\ lock = c
      /\ UNCHANGED <<store, lock, before>>
      /\ errors \in 0..MaxErrors /\ (Works \/ Fails)
  BY DEF StepsInductive, StepsTypeOK, ReadCount, In
<1>2. /\ StepsTypeOK /\ StoreTypeOK /\ call[c].fn = "msg_add"
      /\ Counted(n) /\ RowsKept /\ call[c] \in Active
      /\ before[1] \in [Names -> UserRow \cup {NoUser}]
      /\ errors' = 0 => errors = 0 /\ Works
  BY <1>1, Inside, ErrorsGrow
  DEF PlaceOK, ProgressOK, StepsTypeOK, StepsInductive
<1>3. Counted(n)' /\ RowsKept' BY <1>1, <1>2 DEF Counted, Was, RowsKept, store
<1>4. ASSUME call' = [call EXCEPT ![c].pc = "insert",
                                  ![c].id = users[n].msg_counter]
      PROVE  Moves(c)
  <2>1. Was(n) \in UserRow BY <1>2 DEF Counted, Was
  <2>2. NextId(Was(n).msg_counter) \in 1..MaxId
    BY <2>1, NextIdRange DEF UserRow
  <2>3. users[n].msg_counter = NextId(Was(n).msg_counter)
    BY <1>2, <2>1, <2>2 DEF Counted, Was, UserRow
  <2> DEFINE x == [[call[c] EXCEPT !.pc = "insert"]
                                EXCEPT !.id = users[n].msg_counter]
  <2>4. x \in Active
    <3>1. users[n].msg_counter \in 0..MaxId
      BY <2>2, <2>3, MaxIdAssumption
    <3>2. QED BY <1>2, <3>1 DEF Active, Places
  <2>5. /\ x.pc = "insert" /\ x.fn = "msg_add" /\ x.name = n
        /\ x.id = users[n].msg_counter
    BY <1>2 DEF Active
  <2>6. call' = [call EXCEPT ![c] = x] BY <1>2, <1>4 DEF StepsTypeOK
  <2> HIDE DEF x
  <2>7. /\ call' \in [Callers -> CallState] /\ call'[c] = x
        /\ \A d \in Callers \ {c} : call'[d] = call[d]
    BY <1>2, <2>4, <2>6, CallStates, OneMoves
  <2>8. PlaceOK(c)' BY <1>1, <2>5, <2>7 DEF PlaceOK
  <2>9. ProgressOK(c)'
    BY <1>1, <1>3, <2>3, <2>5, <2>7 DEF ProgressOK, Was
  <2>10. QED BY <2>5, <2>7, <2>8, <2>9 DEF Moves, Holds
<1>5. ASSUME Fails, Returns(c, 0) PROVE Moves(c)
  <2>1. errors' # 0 BY <1>1, <1>2, <1>5 DEF Works, Fails
  <2>2. errors' > 0 BY <1>1, <2>1, ErrorsGrow
  <2>3. 0 \in Codes BY CodesExist
  <2>4. call'[c].fn = "msg_add" /\ call'[c].name = n
    BY <1>1, <1>2, <1>5, <2>3, ReturnsWith
  <2>5. HalfEffect(c)' BY <1>3, <2>4 DEF HalfEffect
  <2>6. QED BY <1>1, <1>5, <2>1, <2>2, <2>3, <2>5, Returning
<1>6. QED BY <1>4, <1>5 DEF ReadCount

(* And inserts the message under it. *)
LEMMA InsertHolds ==
  ASSUME StepsInductive, NEW c \in Callers, Insert(c)
  PROVE  Moves(c)
<1>0. /\ lock = c /\ call[c].name \in Names /\ call[c].id \in 0..MaxId
      /\ call[c].sender \in Names
  BY Inside DEF Insert, In
<1> PICK n \in Names, s \in Names, id \in 0..MaxId :
         n = call[c].name /\ s = call[c].sender /\ id = call[c].id
  BY <1>0
<1> DEFINE m == [row |-> nextRow, id |-> id, sender |-> s, receiver |-> n]
<1>1. /\ call[c].pc = "insert" /\ lock = c
      /\ UNCHANGED <<users, lock, before>>
      /\ errors \in 0..MaxErrors /\ (Works \/ Fails)
  BY DEF StepsInductive, StepsTypeOK, Insert, In
<1>2. /\ StepsTypeOK /\ StoreTypeOK /\ call[c].fn = "msg_add"
      /\ Counted(n) /\ RowsKept /\ id = NextId(Was(n).msg_counter)
      /\ before[1] \in [Names -> UserRow \cup {NoUser}]
      /\ errors' = 0 => errors = 0 /\ Works
  BY <1>1, Inside, ErrorsGrow
  DEF PlaceOK, ProgressOK, StepsTypeOK, StepsInductive
<1>3. Counted(n)' BY <1>1, <1>2 DEF Counted, Was
<1>4. ASSUME messages' = messages \cup {m}, nextRow' = nextRow + 1,
             Returns(c, id)
      PROVE  Moves(c)
  <2>1. id \in 1..MaxId
    <3>1. Was(n) \in UserRow BY <1>2 DEF Counted, Was
    <3>2. QED BY <3>1, <1>2, NextIdRange DEF UserRow
  <2>2. id \in Codes BY CodesExist
  <2>3. /\ call'[c].fn = "msg_add" /\ call'[c].name = n /\ call'[c].sender = s
        /\ call'[c].rc = id
    BY <1>1, <1>2, <1>4, <2>2, ReturnsWith
  <2>4. Effect(c)'
    BY <1>1, <1>2, <1>3, <1>4, <2>3 DEF Effect, Was, RowsKept
  <2>5. m \notin before[2]
    <3>1. \A k \in messages : k.row < nextRow /\ nextRow \in Nat
      BY <1>2 DEF StepsInductive, StoreTypeOK
    <3>2. QED BY <3>1, <1>2 DEF RowsKept
  <2>6. CodeIsTrue(c)'
    BY <1>1, <1>3, <1>4, <2>1, <2>3, <2>5 DEF CodeIsTrue, Counted, Was
  <2>7. QED BY <1>1, <1>4, <2>2, <2>4, <2>6, Returning
<1>5. ASSUME Fails, Returns(c, 0), UNCHANGED <<messages, nextRow>>
      PROVE  Moves(c)
  <2>1. errors' # 0 BY <1>1, <1>2, <1>5 DEF Works, Fails
  <2>2. errors' > 0 BY <1>1, <2>1, ErrorsGrow
  <2>3. 0 \in Codes BY CodesExist
  <2>4. call'[c].fn = "msg_add" /\ call'[c].name = n
    BY <1>1, <1>2, <1>5, <2>3, ReturnsWith
  <2>5. HalfEffect(c)'
    BY <1>1, <1>2, <1>3, <1>5, <2>4 DEF HalfEffect, RowsKept
  <2>6. QED BY <1>1, <1>5, <2>1, <2>2, <2>3, <2>5, Returning
<1>6. QED BY <1>4, <1>5 DEF Insert

(* msg_delete is one statement. *)
LEMMA DeleteOneHolds ==
  ASSUME StepsInductive, NEW c \in Callers, DeleteOne(c)
  PROVE  Moves(c)
<1>0. /\ lock = c /\ call[c].name \in Names /\ call[c].id \in 0..MaxId
  BY Inside DEF DeleteOne, In
<1> PICK n \in Names, id \in 0..MaxId : n = call[c].name /\ id = call[c].id
  BY <1>0
<1>1. /\ call[c].pc = "deleteOne" /\ lock = c
      /\ UNCHANGED <<users, nextRow, lock, before>>
      /\ errors \in 0..MaxErrors /\ (Works \/ Fails)
  BY DEF StepsInductive, StepsTypeOK, DeleteOne, In
<1>2. /\ StepsTypeOK /\ call[c].fn = "msg_delete" /\ Untouched
      /\ errors' = 0 => errors = 0 /\ Works
  BY <1>1, Inside, ErrorsGrow DEF PlaceOK, ProgressOK
<1>3. ASSUME Returns(c, 0),
             messages' = {m \in messages : ~(m.receiver = n /\ m.id = id)}
      PROVE  Moves(c)
  <2>1. 0 \in Codes BY CodesExist
  <2>2. /\ call'[c].fn = "msg_delete" /\ call'[c].name = n /\ call'[c].id = id
        /\ call'[c].rc = 0
    BY <1>1, <1>2, <1>3, <2>1, ReturnsWith
  <2>3. Effect(c)'
    BY <1>1, <1>2, <1>3, <2>2 DEF Effect, Untouched, RowsKept
  <2>4. CodeIsTrue(c)' BY <1>1, <1>3, <2>2 DEF CodeIsTrue, PendingOf
  <2>5. QED BY <1>1, <1>3, <2>1, <2>3, <2>4, Returning
<1>4. ASSUME Fails, Returns(c, -1), messages' = messages PROVE Moves(c)
  <2>1. errors' # 0 BY <1>1, <1>2, <1>4 DEF Works, Fails
  <2>2. -1 \in Codes BY CodesExist
  <2>3. Untouched' BY <1>1, <1>2, <1>4 DEF Untouched, RowsKept
  <2>4. QED BY <1>1, <1>4, <2>1, <2>2, <2>3, Returning
<1>5. QED BY <1>3, <1>4 DEF DeleteOne

(* The functions that only read return what they have found. *)
LEMMA ReadHolds ==
  ASSUME StepsInductive, NEW c \in Callers, Read(c)
  PROVE  Moves(c)
<1>0. lock = c /\ call[c].name \in Names BY Inside DEF Read, In
<1> PICK n \in Names : n = call[c].name BY <1>0
<1> DEFINE next == call[c].fn = "msg_get_next"
<1>1. /\ call[c].pc = "read" /\ lock = c
      /\ UNCHANGED <<store, lock, before>>
      /\ errors \in 0..MaxErrors /\ (Works \/ Fails)
  BY DEF StepsInductive, StepsTypeOK, Read, In
<1>2. /\ StepsTypeOK /\ call[c].fn \in {"msg_get_next", "users_get_connected"}
      /\ Untouched
      /\ errors' = 0 => errors = 0 /\ Works
  BY <1>1, Inside, ErrorsGrow DEF PlaceOK, ProgressOK
<1>3. PICK rc \in Codes :
        /\ Returns(c, rc)
        /\ Works /\ next => (rc = 0 <=> PendingOf(n) # {})
  <2>1. call[c].fn \in Functions BY <1>1, Inside
  <2>2. ~Works <=> Fails BY <1>1 DEF Works, Fails
  <2>3. Online \in Codes BY CodesExist
  <2>4. ErrorCode(call[c].fn) \in Codes BY <2>1, CodesExist
  <2>5. 0 \in Codes /\ 1 \in Codes BY CodesExist
  <2>6. CASE Works
    <3>1. \/ next /\ PendingOf(n) # {} /\ Returns(c, 0)
          \/ next /\ PendingOf(n) = {} /\ Returns(c, 1)
          \/ ~next /\ Returns(c, Online)
      BY <2>2, <2>6 DEF Read
    <3>2. QED BY <3>1, <2>3, <2>5
  <2>7. CASE Fails
    <3>1. \/ Returns(c, ErrorCode(call[c].fn))
          \/ Returns(c, 1)
          \/ \E rows \in 0..Online : Returns(c, rows)
      BY <2>2, <2>7 DEF Read
    <3>2. QED BY <3>1, <2>2, <2>4, <2>5, <2>7, CodesExist
  <2>8. QED BY <1>1, <2>6, <2>7
<1>4. /\ call'[c].fn = call[c].fn /\ call'[c].name = n /\ call'[c].rc = rc
  BY <1>1, <1>2, <1>3, ReturnsWith
<1>5. Untouched' BY <1>1, <1>2 DEF Untouched, RowsKept, store
<1>6. errors' = 0 => CodeIsTrue(c)'
  BY <1>1, <1>2, <1>3, <1>4 DEF CodeIsTrue, PendingOf, store
<1>7. QED BY <1>1, <1>3, <1>5, <1>6, Returning

-----------------------------------------------------------------------------
(* What each statement keeps of the tables. *)
Tables ==
  /\ StoreTypeOK
  /\ \A m \in messages : m.row < nextRow
  /\ NoOrphansBarringErrors

(* The last statement of a writer is the write of its function, save that  *)
(* user_remove leaves the messages alone.                                  *)
LEMMA WriteIs ==
  ASSUME StepsInductive, NEW c \in Callers, Write(c)
  PROVE  \E n \in Names, a \in Addrs :
           \/ UNCHANGED users
           \/ UserAdd(n, 0)
           \/ /\ call[c].fn = "user_remove" /\ n = call[c].name
              /\ users' = [users EXCEPT ![n] = NoUser]
           \/ UserConnect(n, a[1], a[2], 0)
           \/ UserDisconnect(n, 0)
<1>1. /\ call[c].pc = "write" /\ lock = c /\ UNCHANGED <<messages, nextRow>>
  BY DEF Write, In
<1>2. /\ call[c].name \in Names /\ call[c].addr \in Addrs
      /\ ProgressOK(c) /\ PlaceOK(c)
  BY <1>1, Inside
<1> PICK n \in Names, a \in Addrs : n = call[c].name /\ a = call[c].addr
  BY <1>2
<1> DEFINE fn == call[c].fn
<1>3. /\ fn = "user_connect" => Exists(n) /\ ~Connected(n)
      /\ fn = "user_disconnect" => Connected(n)
      /\ fn \in Writers
  BY <1>1, <1>2 DEF ProgressOK, PlaceOK
<1>4. CASE fn = "user_add" BY <1>1, <1>4 DEF Write, UserAdd
<1>5. CASE fn = "user_remove" BY <1>1, <1>5 DEF Write
<1>6. CASE fn = "user_connect" BY <1>1, <1>3, <1>6 DEF Write, UserConnect
<1>7. CASE fn = "user_disconnect" BY <1>1, <1>3, <1>7 DEF Write, UserDisconnect
<1>8. QED BY <1>3, <1>4, <1>5, <1>6, <1>7 DEF Writers

(* The writes keep the tables; only user_remove takes a user away, and it *)
(* has taken the messages first if its statement worked.                  *)
LEMMA WriteKeepsTables ==
  ASSUME StepsInductive, NEW c \in Callers, Write(c)
  PROVE  Tables'
<1>1. /\ call[c].pc = "write" /\ lock = c /\ UNCHANGED <<messages, nextRow>>
      /\ StoreTypeOK /\ \A m \in messages : m.row < nextRow
      /\ NoOrphansBarringErrors /\ ProgressOK(c)
      /\ messages \subseteq MsgRow
  BY Inside DEF Write, In, StepsInductive, StepsTypeOK, StoreTypeOK
<1>2. errors' = 0 => errors = 0
  BY ErrorsGrow DEF StepsInductive, StepsTypeOK, Write
<1>3. PICK n \in Names, a \in Addrs :
           \/ UNCHANGED users
           \/ UserAdd(n, 0)
           \/ /\ call[c].fn = "user_remove" /\ n = call[c].name
              /\ users' = [users EXCEPT ![n] = NoUser]
           \/ UserConnect(n, a[1], a[2], 0)
           \/ UserDisconnect(n, 0)
  BY WriteIs
<1>4. a[1] \in Ips /\ a[2] \in Ports BY DEF Addrs
<1>5. StoreTypeOK'
  <2>1. CASE UNCHANGED users BY <2>1, <1>1 DEF StoreTypeOK
  <2>2. CASE users' = [users EXCEPT ![n] = NoUser]
    BY <2>2, <1>1 DEF StoreTypeOK
  <2>3. QED
    BY <1>1, <1>3, <1>4, <2>1, <2>2, UserAddType, UserConnectType,
       UserDisconnectType
<1>6. ASSUME errors' = 0, NEW m \in messages'
      PROVE  Exists(m.receiver)'
  <2>1. m \in messages /\ m.receiver \in Names
    BY <1>1 DEF MsgRow
  <2>2. Exists(m.receiver) /\ errors = 0
    BY <1>1, <1>2, <1>6, <2>1 DEF NoOrphansBarringErrors
  <2>3. CASE users' = users BY <2>2, <2>3 DEF Exists
  <2>4. CASE /\ call[c].fn = "user_remove" /\ n = call[c].name
             /\ users' = [users EXCEPT ![n] = NoUser]
    <3>1. Emptied(n) BY <1>1, <2>2, <2>4 DEF ProgressOK
    <3>2. m.receiver # n BY <3>1, <2>1 DEF Emptied
    <3>3. QED BY <1>1, <2>1, <2>2, <2>4, <3>2 DEF Exists, StoreTypeOK
  <2>5. CASE UserAdd(n, 0)
    BY <1>1, <2>1, <2>2, <2>5, UserAddRow DEF Exists
  <2>6. CASE UserConnect(n, a[1], a[2], 0)
    BY <1>1, <1>4, <2>1, <2>2, <2>6, UserConnectRow DEF Exists
  <2>7. CASE UserDisconnect(n, 0)
    BY <1>1, <2>1, <2>2, <2>7, UserDisconnectRow DEF Exists
  <2>8. QED BY <1>3, <2>3, <2>4, <2>5, <2>6, <2>7
<1>7. QED BY <1>1, <1>5, <1>6 DEF Tables, NoOrphansBarringErrors

(* msg_add's count changes a row that stays. *)
LEMMA CountKeepsTables ==
  ASSUME StepsInductive, NEW c \in Callers, Count(c)
  PROVE  Tables'
<1>1. /\ lock = c /\ UNCHANGED <<messages, nextRow>>
      /\ StoreTypeOK /\ \A m \in messages : m.row < nextRow
      /\ NoOrphansBarringErrors /\ call[c].name \in Names
  BY Inside DEF Count, In, StepsInductive, StepsTypeOK
<1>2. errors' = 0 => errors = 0
  BY ErrorsGrow DEF StepsInductive, StepsTypeOK, Count
<1> PICK n \in Names : n = call[c].name BY <1>1
<1>3. CASE users' = users
  BY <1>1, <1>2, <1>3 DEF Tables, StoreTypeOK, NoOrphansBarringErrors, Exists
<1>4. CASE /\ Exists(n)
           /\ users' = [users EXCEPT ![n].msg_counter = NextId(users[n].msg_counter)]
  <2>1. users[n] \in UserRow BY <1>1, <1>4, ExistingRow
  <2> DEFINE id == NextId(users[n].msg_counter)
             row == [users[n] EXCEPT !.msg_counter = id]
  <2>2. id \in 0..MaxId
    <3>1. id \in 1..MaxId BY <2>1, NextIdRange DEF UserRow
    <3>2. QED BY <3>1, MaxIdAssumption
  <2>3. row \in UserRow BY <2>1, <2>2 DEF UserRow
  <2>4. users' = [users EXCEPT ![n] = row] BY <1>1, <1>4 DEF StoreTypeOK
  <2> HIDE DEF row
  <2>5. StoreTypeOK' BY <1>1, <2>3, <2>4 DEF StoreTypeOK
  <2>6. \A k : Exists(k) /\ k \in Names => Exists(k)'
    BY <1>1, <2>3, <2>4, NoUserAssumption DEF StoreTypeOK, Exists
  <2>7. QED
    BY <1>1, <1>2, <2>5, <2>6
    DEF Tables, NoOrphansBarringErrors, StoreTypeOK, MsgRow
<1>5. QED BY <1>3, <1>4 DEF Count

(* msg_add's row is new, and its receiver is there. *)
LEMMA InsertKeepsTables ==
  ASSUME StepsInductive, NEW c \in Callers, Insert(c)
  PROVE  Tables'
<1>1. /\ lock = c /\ call[c].pc = "insert" /\ UNCHANGED users
      /\ StoreTypeOK /\ \A m \in messages : m.row < nextRow
      /\ NoOrphansBarringErrors
      /\ call[c].name \in Names /\ call[c].sender \in Names
      /\ ProgressOK(c) /\ before[1] \in [Names -> UserRow \cup {NoUser}]
  BY Inside DEF Insert, In, StepsInductive, StepsTypeOK
<1>2. errors' = 0 => errors = 0
  BY ErrorsGrow DEF StepsInductive, StepsTypeOK, Insert
<1> PICK n \in Names, s \in Names : n = call[c].name /\ s = call[c].sender
  BY <1>1
<1> DEFINE id == NextId(Was(n).msg_counter)
           m  == [row |-> nextRow, id |-> id, sender |-> s, receiver |-> n]
<1>3. Counted(n) /\ call[c].id = id BY <1>1 DEF ProgressOK
<1>4. Was(n) \in UserRow BY <1>1, <1>3 DEF Counted, Was
<1>5. id \in 1..MaxId BY <1>4, NextIdRange DEF UserRow
<1>6. m \in MsgRow BY <1>1, <1>5 DEF MsgRow, StoreTypeOK
<1>7. Exists(n)
  <2> DEFINE row == [Was(n) EXCEPT !.msg_counter = id]
  <2>1. id \in 0..MaxId BY <1>5, MaxIdAssumption
  <2>2. row \in UserRow BY <1>4, <2>1 DEF UserRow
  <2>3. users[n] = row BY <1>1, <1>3 DEF Counted, Was
  <2>4. QED BY <2>2, <2>3, NoUserAssumption DEF Exists
<1>8. CASE UNCHANGED <<messages, nextRow>>
  BY <1>1, <1>2, <1>8 DEF Tables, StoreTypeOK, NoOrphansBarringErrors, Exists
<1>9. CASE messages' = messages \cup {m} /\ nextRow' = nextRow + 1
  <2>1. m.receiver = n /\ m.row = nextRow OBVIOUS
  <2> HIDE DEF m
  <2>2. StoreTypeOK' BY <1>1, <1>6, <1>9 DEF StoreTypeOK
  <2>3. \A k \in messages' : k.row < nextRow'
    <3>1. messages \subseteq MsgRow /\ nextRow \in Nat
      BY <1>1 DEF StoreTypeOK
    <3>2. \A k \in messages : k.row \in Nat BY <3>1 DEF MsgRow
    <3>3. QED BY <1>1, <1>9, <2>1, <3>1, <3>2
  <2>4. NoOrphansBarringErrors'
    BY <1>1, <1>2, <1>7, <1>9, <2>1 DEF NoOrphansBarringErrors, Exists
  <2>5. QED BY <2>2, <2>3, <2>4 DEF Tables
<1>10. QED BY <1>1, <1>3, <1>8, <1>9 DEF Insert

(* The other statements take messages away, or nothing. *)
LEMMA StatementKeepsTables ==
  ASSUME StepsInductive, NEW c \in Callers, Statement(c)
  PROVE  Tables'
<1>1. /\ StoreTypeOK /\ \A m \in messages : m.row < nextRow
      /\ NoOrphansBarringErrors /\ errors \in 0..MaxErrors
  BY DEF StepsInductive, StepsTypeOK
<1>2. ASSUME UNCHANGED <<users, nextRow>>, messages' \subseteq messages,
             Works \/ Fails
      PROVE  Tables'
  <2>1. errors' = 0 => errors = 0 BY <1>1, <1>2, ErrorsGrow
  <2>2. QED
    BY <1>1, <1>2, <2>1
    DEF Tables, StoreTypeOK, NoOrphansBarringErrors, Exists
<1>3. CASE Select(c) \/ ReadCount(c) \/ Read(c)
  BY <1>2, <1>3 DEF Select, ReadCount, Read, store
<1>4. CASE DeleteAll(c) \/ DeleteOne(c)
  BY <1>2, <1>4 DEF DeleteAll, DeleteOne, PendingOf
<1>5. QED
  BY <1>3, <1>4, WriteKeepsTables, CountKeepsTables, InsertKeepsTables
  DEF Statement

-----------------------------------------------------------------------------
(* The inductive invariant, as the tables and what holds of each thread. *)
LEMMA Together ==
  StepsInductive <=>
    /\ StepsTypeOK /\ before[1] \in [Names -> UserRow \cup {NoUser}]
    /\ Tables
    /\ \A c \in Callers : Holds(c)
BY DEF StepsInductive, Tables, Holds, CodesAreTrue, StepsTypeOK

(* The same after a step. *)
LEMMA TogetherNext ==
  ASSUME StepsTypeOK', (before[1] \in [Names -> UserRow \cup {NoUser}])',
         Tables', \A c \in Callers : Holds(c)'
  PROVE  StepsInductive'
BY DEF StepsInductive, Tables, Holds, CodesAreTrue, StepsTypeOK

(* The store is empty and nobody is inside a function. *)
LEMMA StepsStart == StepsInit => StepsInductive
<1> SUFFICES ASSUME StepsInit PROVE StepsInductive
  OBVIOUS
<1>1. users \in [Names -> UserRow \cup {NoUser}] /\ messages = {} /\ nextRow = 1
  BY DEF StepsInit, StoreInit
<1>2. StoreTypeOK BY <1>1 DEF StoreTypeOK
<1>3. Tables BY <1>1, <1>2 DEF Tables, NoOrphansBarringErrors
<1>4. /\ call = [c \in Callers |-> NoCall] /\ lock = NoCaller /\ before[1] = users
      /\ errors = 0 /\ crashes = 0
  BY DEF StepsInit, store
<1>5. errors \in 0..MaxErrors /\ crashes \in 0..MaxCrashes
  BY <1>4, BoundsAssumption
<1>6. StepsTypeOK BY <1>2, <1>4, <1>5, CallStates DEF StepsTypeOK
<1>7. \A c \in Callers : Holds(c)
  BY <1>4, CallersAssumption DEF Holds, PlaceOK, ProgressOK, NoCall
<1>8. QED BY <1>1, <1>3, <1>4, <1>6, <1>7, Together

(* One statement of one thread. *)
LEMMA StatementKeeps ==
  ASSUME StepsInductive, NEW c \in Callers, Statement(c)
  PROVE  StepsInductive'
<1>1. /\ lock = c /\ UNCHANGED <<lock, before, crashes>> /\ (Works \/ Fails)
  BY DEF Statement, Select, DeleteAll, Write, Count, ReadCount, Insert,
         DeleteOne, Read, In
<1>2. Moves(c)
  BY SelectHolds, DeleteAllHolds, WriteHolds, CountHolds, ReadCountHolds,
     InsertHolds, DeleteOneHolds, ReadHolds DEF Statement
<1>3. Tables' BY StatementKeepsTables
<1>4. /\ StepsTypeOK /\ before[1] \in [Names -> UserRow \cup {NoUser}]
  BY DEF StepsInductive
<1>5. errors' \in 0..MaxErrors BY <1>1, <1>4, ErrorsGrow DEF StepsTypeOK
<1>6. StepsTypeOK' BY <1>1, <1>2, <1>3, <1>4, <1>5 DEF StepsTypeOK, Moves, Tables
<1>7. \A d \in Callers : Holds(d)'
  BY <1>1, <1>2, OthersHold DEF Moves
<1>8. QED BY <1>1, <1>3, <1>4, <1>6, <1>7, TogetherNext

(* A call, and its entry and exit: the tables stay. *)
LEMMA MutexKeeps ==
  ASSUME StepsInductive, NEW c \in Callers, Calls(c) \/ Lock(c) \/ Unlock(c)
  PROVE  StepsInductive'
<1>1. /\ StepsTypeOK /\ before[1] \in [Names -> UserRow \cup {NoUser}]
      /\ Tables /\ \A d \in Callers : Holds(d)
      /\ users \in [Names -> UserRow \cup {NoUser}]
  BY Together DEF StepsTypeOK, StoreTypeOK
<1>2. UNCHANGED <<store, errors, crashes>>
  BY DEF Calls, Call, Lock, Unlock
<1>3. Tables'
  BY <1>1, <1>2
  DEF store, Tables, StoreTypeOK, NoOrphansBarringErrors, Exists
<1>4. CASE Calls(c)
  <2>1. PICK fn \in Functions, n \in Names, s \in Names, a \in Addrs,
             id \in 0..MaxId :
          /\ Call(c, fn, n, s, a, id)
          /\ fn = "msg_delete" => id \in 1..MaxId
    <3>1. 1..MaxId \subseteq 0..MaxId /\ 0 \in 0..MaxId BY MaxIdAssumption
    <3>2. Names # {} /\ Addrs # {} BY <1>4, NamesAssumption DEF Calls
    <3>3. (CHOOSE x \in Names : TRUE) \in Names /\ (CHOOSE x \in Addrs : TRUE) \in Addrs
      BY <3>2
    <3>4. QED BY <1>4, <3>1, <3>3 DEF Calls
  <2> DEFINE x == [pc |-> "lock", fn |-> fn, name |-> n, sender |-> s,
                   addr |-> a, id |-> id, rc |-> 0]
  <2>2. x \in Active /\ x.pc = "lock" /\ x.fn = fn /\ x.id = id
    BY CodesExist DEF Active, Places
  <2>3. call' = [call EXCEPT ![c] = x] /\ call[c] = NoCall
        /\ UNCHANGED <<lock, before>>
    BY <2>1 DEF Call
  <2> HIDE DEF x
  <2>4. /\ call' \in [Callers -> CallState] /\ call'[c] = x
        /\ \A d \in Callers \ {c} : call'[d] = call[d]
    BY <1>1, <2>2, <2>3, CallStates, OneMoves
  <2>5. StepsTypeOK' BY <1>1, <1>2, <1>3, <2>3, <2>4 DEF StepsTypeOK, Tables
  <2>6. lock # c BY <1>1, <2>3 DEF Holds, PlaceOK, NoCall
  <2>7. Holds(c)'
    BY <2>1, <2>2, <2>3, <2>4, <2>6 DEF Holds, PlaceOK, ProgressOK
  <2>8. ASSUME NEW d \in Callers \ {c} PROVE Holds(d)'
    <3>1. Holds(d) /\ call'[d] = call[d] BY <1>1, <2>4
    <3>2. UNCHANGED <<users, messages, nextRow, lock, before, errors>>
      BY <1>2, <2>3 DEF store
    <3>3. PlaceOK(d)' BY <3>1, <3>2 DEF Holds, PlaceOK
    <3>4. ProgressOK(d)'
      BY <3>1, <3>2
      DEF Holds, ProgressOK, Untouched, RowsKept, Emptied, Counted, Was,
          Effect, HalfEffect, Exists, Connected
    <3>5. errors' = 0 /\ call'[d].pc = "unlock" => CodeIsTrue(d)'
      BY <3>1, <3>2
      DEF Holds, CodeIsTrue, Exists, Connected, AddrOf, PendingOf
    <3>6. QED BY <3>3, <3>4, <3>5 DEF Holds
  <2>9. QED BY <1>1, <1>3, <2>3, <2>5, <2>7, <2>8, TogetherNext
<1>5. CASE Lock(c)
  <2>1. /\ call[c].pc = "lock" /\ lock = NoCaller /\ lock' = c
        /\ before' = store /\ Goes(c, First(call[c].fn))
    BY <1>5 DEF Lock
  <2>2. call[c] \in Active /\ call[c].fn \in Functions
    BY <1>1, <2>1, ActiveCall DEF Active
  <2>3. First(call[c].fn) \in {"select", "count", "deleteOne", "read"}
    BY <2>2 DEF First
  <2>4. /\ call' \in [Callers -> CallState]
        /\ \A d \in Callers \ {c} : call'[d] = call[d]
        /\ call'[c].pc = First(call[c].fn) /\ call'[c].fn = call[c].fn
        /\ call'[c].id = call[c].id
    <3> DEFINE place == First(call[c].fn)
    <3>1. place \in Places BY <2>3 DEF Places
    <3> HIDE DEF place
    <3>2. Goes(c, place) BY <2>1 DEF place
    <3>3. QED BY <1>1, <2>1, <3>1, <3>2, GoesOn DEF place
  <2>5. StepsTypeOK'
    BY <1>1, <1>2, <1>3, <2>1, <2>4 DEF StepsTypeOK, Tables
  <2>6. before'[1] = users /\ Untouched'
    BY <1>2, <2>1 DEF store, Untouched, RowsKept
  <2>7. PlaceOK(c)'
    BY <1>1, <2>1, <2>2, <2>3, <2>4
    DEF Holds, PlaceOK, First, Functions, Writers, Readers
  <2>8. Holds(c)' BY <2>3, <2>4, <2>6, <2>7 DEF Holds, ProgressOK
  <2>9. ASSUME NEW d \in Callers \ {c} PROVE Holds(d)'
    <3>1. Holds(d) /\ call'[d] = call[d] /\ call[d].pc \in {"idle", "lock"}
      BY <1>1, <2>4, <2>1, CallersAssumption DEF Holds, PlaceOK
    <3>2. QED
      BY <3>1, <2>1, CallersAssumption DEF Holds, PlaceOK, ProgressOK
  <2>10. QED BY <1>1, <1>3, <2>5, <2>6, <2>8, <2>9, TogetherNext
<1>6. CASE Unlock(c)
  <2>1. /\ lock = c /\ lock' = NoCaller /\ UNCHANGED before
        /\ call' = [call EXCEPT ![c] = NoCall]
    BY <1>6 DEF Unlock, In
  <2>2. /\ call' \in [Callers -> CallState] /\ call'[c] = NoCall
        /\ \A d \in Callers \ {c} : call'[d] = call[d]
    BY <1>1, <2>1, CallStates, OneMoves
  <2>3. StepsTypeOK' BY <1>1, <1>2, <1>3, <2>1, <2>2 DEF StepsTypeOK, Tables
  <2>4. Holds(c)'
    BY <2>1, <2>2, CallersAssumption DEF Holds, PlaceOK, ProgressOK, NoCall
  <2>5. ASSUME NEW d \in Callers \ {c} PROVE Holds(d)'
    <3>1. Holds(d) /\ call'[d] = call[d] /\ call[d].pc \in {"idle", "lock"}
      BY <1>1, <2>2, <2>1, CallersAssumption DEF Holds, PlaceOK
    <3>2. QED
      BY <3>1, <2>1, CallersAssumption DEF Holds, PlaceOK, ProgressOK
  <2>6. QED BY <1>1, <1>3, <2>1, <2>3, <2>4, <2>5, TogetherNext
<1>7. QED BY <1>4, <1>5, <1>6

(* The process dies at any step: what is committed stays. *)
LEMMA DieKeeps ==
  ASSUME StepsInductive, Die
  PROVE  StepsInductive'
<1>1. /\ StepsTypeOK /\ before[1] \in [Names -> UserRow \cup {NoUser}]
      /\ Tables
  BY Together
<1>2. /\ UNCHANGED <<store, before, errors>> /\ lock' = NoCaller
      /\ call' = [c \in Callers |-> NoCall]
  BY DEF Die
<1>3. Tables'
  BY <1>1, <1>2
  DEF store, Tables, StoreTypeOK, NoOrphansBarringErrors, Exists
<1>4. crashes' \in 0..MaxCrashes
  BY <1>1, BoundsAssumption DEF Die, StepsTypeOK
<1>5. StepsTypeOK' BY <1>1, <1>2, <1>3, <1>4, CallStates DEF StepsTypeOK, Tables
<1>6. \A c \in Callers : Holds(c)'
  BY <1>2, CallersAssumption DEF Holds, PlaceOK, ProgressOK, NoCall
<1>7. QED BY <1>1, <1>2, <1>3, <1>5, <1>6, TogetherNext

(* The inductive invariant of StoreSteps. *)
THEOREM StepsHold == StepsSpec => []StepsInductive
<1>1. StepsInductive /\ UNCHANGED stepVars => StepsInductive'
  <2> SUFFICES ASSUME StepsInductive, UNCHANGED stepVars PROVE StepsInductive'
    OBVIOUS
  <2> USE DEF stepVars, store
  <2>1. StepsTypeOK' /\ Tables' /\ (before[1] \in [Names -> UserRow \cup {NoUser}])'
    BY DEF StepsInductive, StepsTypeOK, Tables, StoreTypeOK,
           NoOrphansBarringErrors, Exists
  <2>2. ASSUME NEW d \in Callers PROVE Holds(d)'
    <3>1. Holds(d) BY Together
    <3>2. PlaceOK(d)' BY <3>1 DEF Holds, PlaceOK
    <3>3. ProgressOK(d)'
      BY <3>1
      DEF Holds, ProgressOK, Untouched, RowsKept, Emptied, Counted, Was,
          Effect, HalfEffect, Exists, Connected
    <3>4. (errors = 0 /\ call[d].pc = "unlock" => CodeIsTrue(d))'
      BY <3>1 DEF Holds, CodeIsTrue, Exists, Connected, AddrOf, PendingOf
    <3>5. QED BY <3>2, <3>3, <3>4 DEF Holds
  <2>3. QED BY <2>1, <2>2, TogetherNext
<1>2. StepsInductive /\ [StepsNext]_stepVars => StepsInductive'
  BY <1>1, StatementKeeps, MutexKeeps, DieKeeps DEF StepsNext
<1>3. QED BY <1>2, StepsStart, PTL DEF StepsSpec

(* Tables, calls, mutex and codes keep their types through every statement, *)
(* failure and death (users.c and the codes of users.h).                    *)
THEOREM StepsTypes == StepsSpec => []StepsTypeOK
BY StepsHold, PTL DEF StepsInductive

(* user_remove and msg_add order their statements so that no death of the *)
(* process leaves a message without its user.                             *)
THEOREM NoOrphans == StepsSpec => []NoOrphansBarringErrors
BY StepsHold, PTL DEF StepsInductive

(* Every function of users.c returns the code of users.h for what it found, *)
(* and has done what that code says.                                        *)
THEOREM CodesHold == StepsSpec => []CodesAreTrue
BY StepsHold, PTL DEF StepsInductive

-----------------------------------------------------------------------------
(* The refinement.  What the holder of the mutex has done so far is nothing, *)
(* all its function is for, or one of the halves AtomicStore allows.         *)
LEMMA SoFar ==
  ASSUME StepsInductive, NEW c \in Callers, lock = c
  PROVE  Untouched \/ Effect(c) \/ HalfEffect(c)
<1>1. /\ call[c].pc \in Places \ {"lock"} /\ ProgressOK(c) /\ PlaceOK(c)
  BY Inside DEF Active
<1>2. CASE call[c].pc = "write"
  BY <1>1, <1>2
  DEF ProgressOK, HalfEffect, Emptied, Was, Exists, Untouched
<1>3. CASE call[c].pc \in {"readCount", "insert"}
  BY <1>1, <1>3 DEF ProgressOK, PlaceOK, HalfEffect
<1>4. CASE call[c].pc \notin {"write", "readCount", "insert"}
  BY <1>1, <1>4 DEF ProgressOK, Places
<1>5. QED BY <1>2, <1>3, <1>4

(* The mutex is given back, or lost with the process: what was done shows. *)
Shows ==
  /\ lock \in Callers /\ lock' = NoCaller
  /\ UNCHANGED <<store, before>>

(* A function that has done all it is for is an operation of AtomicStore. *)
LEMMA EffectShows ==
  ASSUME StepsInductive, NEW c \in Callers, lock = c, Shows, Effect(c)
  PROVE  Atomic!Operation
<1>1. /\ call[c].name \in Names /\ call[c].sender \in Names
      /\ call[c].addr \in Addrs /\ PlaceOK(c)
      /\ call[c].pc # "idle"
      /\ before[1] \in [Names -> UserRow \cup {NoUser}]
      /\ lock # NoCaller
  BY Inside, CallersAssumption DEF StepsInductive
<1> PICK n \in Names, s \in Names, a \in Addrs :
         n = call[c].name /\ s = call[c].sender /\ a = call[c].addr
  BY <1>1
<1> USE DEF Visible, Shows, store
<1>2. CASE call[c].fn = "user_add"
  <2>1. Atomic!UserAdd(n, 0)
    BY <1>1, <1>2 DEF Effect, Was, RowsKept, Atomic!UserAdd, Atomic!Exists
  <2>2. QED BY <2>1 DEF Atomic!Operation
<1>3. CASE call[c].fn = "user_remove"
  <2>1. Atomic!UserRemove(n, 0)
    BY <1>1, <1>3
    DEF Effect, Was, Emptied, Atomic!UserRemove, Atomic!Exists, Atomic!PendingOf
  <2>2. QED BY <2>1 DEF Atomic!Operation
<1>4. CASE call[c].fn = "user_connect"
  <2>1. Atomic!UserConnect(n, a[1], a[2], 0)
    BY <1>1, <1>4
    DEF Effect, Was, RowsKept, Atomic!UserConnect, Atomic!Exists, Atomic!Connected
  <2>2. QED BY <2>1 DEF Atomic!Operation, Atomic!Addrs, Addrs
<1>5. CASE call[c].fn = "user_disconnect"
  <2>1. Atomic!UserDisconnect(n, 0)
    BY <1>1, <1>5
    DEF Effect, Was, RowsKept, Atomic!UserDisconnect, Atomic!Exists,
        Atomic!Connected
  <2>2. QED BY <2>1 DEF Atomic!Operation
<1>6. CASE call[c].fn = "msg_add"
  <2>1. Was(n) \in UserRow BY <1>1, <1>6 DEF Effect, Counted, Was
  <2> DEFINE rc == NextId(Was(n).msg_counter)
  <2>2. rc \in 1..MaxId /\ rc \in 0..MaxId /\ rc # 0
    <3>1. rc \in 1..MaxId BY <2>1, NextIdRange DEF UserRow
    <3>2. QED BY <3>1, MaxIdAssumption
  <2>3. Atomic!MsgAdd(n, s, rc)
    BY <1>1, <1>6, <2>2
    DEF Effect, Counted, Was, Atomic!MsgAdd, Atomic!NewRow, Atomic!Exists,
        Atomic!NextId, NextId
  <2>4. QED BY <2>2, <2>3 DEF Atomic!Operation
<1>7. CASE call[c].fn = "msg_delete"
  <2>1. PICK id \in 1..MaxId : id = call[c].id BY <1>1, <1>7 DEF PlaceOK
  <2>2. Atomic!MsgDelete(n, id)
    BY <1>1, <1>7, <2>1 DEF Effect, Atomic!MsgDelete
  <2>3. QED BY <2>2 DEF Atomic!Operation
<1>8. QED BY <1>2, <1>3, <1>4, <1>5, <1>6, <1>7 DEF Effect

(* One that has done half of it shows a half that AtomicStore lists. *)
LEMMA HalfShows ==
  ASSUME StepsInductive, NEW c \in Callers, lock = c, Shows, HalfEffect(c)
  PROVE  \E n \in Names : Atomic!HalfRemove(n) \/ Atomic!SkippedId(n)
<1>1. call[c].name \in Names /\ lock # NoCaller
  BY Inside, CallersAssumption
<1> PICK n \in Names : n = call[c].name BY <1>1
<1> USE DEF Visible, Shows, store
<1>2. CASE call[c].fn = "user_remove"
  BY <1>1, <1>2
  DEF HalfEffect, Was, Emptied, RowsKept, Atomic!HalfRemove, Atomic!RemoveMessages,
      Atomic!RemoveUser, Atomic!Exists,
      Atomic!PendingOf
<1>3. CASE call[c].fn = "msg_add"
  BY <1>1, <1>3
  DEF HalfEffect, Was, Counted, RowsKept, Atomic!SkippedId, Atomic!Exists,
      Atomic!NextId, NextId
<1>4. QED BY <1>2, <1>3 DEF HalfEffect

(* A step of a thread that keeps the mutex, or takes it, shows nothing but *)
(* that a statement has failed.                                            *)
LEMMA NothingShows ==
  ASSUME StepsInductive, NEW c \in Callers,
         Calls(c) \/ Lock(c) \/ Statement(c)
  PROVE  [Atomic!AtomicNext]_(Atomic!atomicVars)
<1> USE DEF Atomic!atomicVars, Atomic!store, Visible
<1>1. CASE Calls(c)
  BY <1>1 DEF Calls, Call, store
<1>2. CASE Lock(c)
  BY <1>2, CallersAssumption DEF Lock, store
<1>3. CASE Statement(c)
  <2>1. /\ lock = c /\ UNCHANGED <<lock, before, crashes>> /\ (Works \/ Fails)
    BY <1>3 DEF Statement, Select, DeleteAll, Write, Count, ReadCount, Insert,
                DeleteOne, Read, In
  <2>2. UNCHANGED Atomic!store BY <2>1, CallersAssumption
  <2>3. CASE Works BY <2>1, <2>2, <2>3 DEF Works
  <2>4. CASE Fails
    <3>1. (errors + crashes > 0)' = TRUE
      BY <2>1, <2>4 DEF Fails, StepsInductive, StepsTypeOK
    <3>2. QED BY <2>2, <3>1 DEF Atomic!AtomicNext
  <2>5. QED BY <2>1, <2>3, <2>4
<1>4. QED BY <1>1, <1>2, <1>3

(* Every step of the statements is a step of AtomicStore, or shows nothing. *)
LEMMA StepsAreAtomic ==
  ASSUME StepsInductive, [StepsNext]_stepVars
  PROVE  [Atomic!AtomicNext]_(Atomic!atomicVars)
<1> USE DEF Atomic!atomicVars, Atomic!store, Visible
<1>1. ASSUME NEW c \in Callers, Unlock(c)
      PROVE  [Atomic!AtomicNext]_(Atomic!atomicVars)
  <2>1. /\ lock = c /\ lock' = NoCaller /\ call[c].pc = "unlock"
        /\ UNCHANGED <<store, before, errors, crashes>>
    BY <1>1 DEF Unlock, In
  <2>2. Shows /\ lock # NoCaller BY <2>1, CallersAssumption DEF Shows
  <2>3. Untouched \/ Effect(c) \/ (errors > 0 /\ HalfEffect(c))
    BY <2>1, Inside DEF ProgressOK
  <2>4. CASE Untouched
    BY <2>1, <2>2, <2>4 DEF Untouched, RowsKept, store
  <2>5. CASE Effect(c)
    BY <2>1, <2>2, <2>5, EffectShows DEF Atomic!AtomicNext
  <2>6. CASE errors > 0 /\ HalfEffect(c)
    <3>1. (errors + crashes > 0)' = TRUE
      BY <2>1, <2>6 DEF StepsInductive, StepsTypeOK
    <3>2. \E n \in Names : Atomic!HalfRemove(n) \/ Atomic!SkippedId(n)
      BY <2>1, <2>2, <2>6, HalfShows
    <3>3. QED BY <3>1, <3>2 DEF Atomic!AtomicNext
  <2>7. QED BY <2>3, <2>4, <2>5, <2>6
<1>2. CASE Die
  <2>1. UNCHANGED <<store, before, errors>> /\ lock' = NoCaller
    BY <1>2 DEF Die
  <2>2. (errors + crashes > 0)' = TRUE
    BY <1>2 DEF Die, StepsInductive, StepsTypeOK
  <2>3. CASE lock = NoCaller
    BY <2>1, <2>2, <2>3 DEF Atomic!AtomicNext, store
  <2>4. CASE lock # NoCaller
    <3>1. PICK c \in Callers : lock = c
      BY <2>4 DEF StepsInductive, StepsTypeOK
    <3>2. Shows BY <2>1, <3>1 DEF Shows
    <3>3. CASE Untouched
      BY <2>1, <2>2, <2>4, <3>3 DEF Untouched, RowsKept, store, Atomic!AtomicNext
    <3>4. CASE Effect(c)
      <4>1. Atomic!Operation BY <3>1, <3>2, <3>4, EffectShows
      <4>2. Names # {} BY <3>1, Inside
      <4>3. QED BY <2>2, <4>1, <4>2 DEF Atomic!AtomicNext
    <3>5. CASE HalfEffect(c)
      <4>1. \E n \in Names : Atomic!HalfRemove(n) \/ Atomic!SkippedId(n)
        BY <3>1, <3>2, <3>5, HalfShows
      <4>2. QED BY <2>2, <4>1 DEF Atomic!AtomicNext
    <3>6. QED BY <3>1, <3>3, <3>4, <3>5, SoFar
  <2>5. QED BY <2>3, <2>4
<1>3. CASE UNCHANGED stepVars BY <1>3 DEF stepVars, store
<1>4. QED BY <1>1, <1>2, <1>3, NothingShows DEF StepsNext

(* Nothing has failed at the start. *)
LEMMA AtomicStarts == StepsInit => Atomic!AtomicInit
BY DEF StepsInit, StoreInit, Atomic!AtomicInit, Atomic!StoreInit, Visible

(* db_mutex makes every function of users.c one step of the tables, whatever *)
(* statement fails and wherever the process dies.                            *)
THEOREM MutexMakesAtomic == StepsSpec => FunctionsAreAtomic
BY AtomicStarts, StepsAreAtomic, StepsHold, PTL
DEF StepsSpec, FunctionsAreAtomic, Atomic!AtomicSpec
=============================================================================
