--------------------------- MODULE UserStoreProofs ---------------------------
(***************************************************************************)
(* What each function of the data base preserves: the types of the two     *)
(* tables, and the facts about rows and counters the server relies on.     *)
(***************************************************************************)
EXTENDS UserStore, TLAPS

(* The identifier msg_add takes is one of 1..MaxId, the wrap included. *)
LEMMA NextIdRange ==
  ASSUME NEW c \in 0..MaxId
  PROVE  NextId(c) \in 1..MaxId
BY MaxIdAssumption DEF NextId

(* A value of the users table is a row of the right type once it exists. *)
LEMMA ExistingRow ==
  ASSUME StoreTypeOK, NEW n \in Names, Exists(n)
  PROVE  users[n] \in UserRow
BY DEF StoreTypeOK, Exists

(* user_add leaves both tables well typed. *)
LEMMA UserAddType ==
  ASSUME StoreTypeOK, NEW n \in Names, NEW rc, UserAdd(n, rc)
  PROVE  StoreTypeOK'
BY MaxIdAssumption DEF StoreTypeOK, UserAdd, UserRow

(* user_remove leaves both tables well typed. *)
LEMMA UserRemoveType ==
  ASSUME StoreTypeOK, NEW n \in Names, NEW rc, UserRemove(n, rc)
  PROVE  StoreTypeOK'
BY DEF StoreTypeOK, UserRemove, PendingOf

(* Nor does a user_remove that was cut short spoil them. *)
LEMMA HalfRemoveType ==
  ASSUME StoreTypeOK, NEW n \in Names, HalfRemove(n)
  PROVE  StoreTypeOK'
BY DEF StoreTypeOK, HalfRemove, RemoveMessages, RemoveUser

(* user_connect leaves both tables well typed. *)
LEMMA UserConnectType ==
  ASSUME StoreTypeOK, NEW n \in Names, NEW ip \in Ips, NEW port \in Ports,
         NEW rc, UserConnect(n, ip, port, rc)
  PROVE  StoreTypeOK'
<1>1. CASE users' = users
  BY <1>1 DEF StoreTypeOK, UserConnect
<1>2. CASE users' # users
  <2>1. Exists(n) BY <1>2 DEF UserConnect
  <2>2. users[n] \in UserRow BY <2>1, ExistingRow
  <2>3. [[[users[n] EXCEPT !.status = 1] EXCEPT !.ip = ip]
                                         EXCEPT !.port = port] \in UserRow
    BY <2>2 DEF UserRow
  <2>4. QED BY <1>2, <2>3 DEF StoreTypeOK, UserConnect
<1>3. QED BY <1>1, <1>2

(* user_disconnect leaves both tables well typed. *)
LEMMA UserDisconnectType ==
  ASSUME StoreTypeOK, NEW n \in Names, NEW rc, UserDisconnect(n, rc)
  PROVE  StoreTypeOK'
<1>1. CASE users' = users
  BY <1>1 DEF StoreTypeOK, UserDisconnect
<1>2. CASE users' # users
  <2>1. Exists(n) BY <1>2 DEF UserDisconnect, Connected
  <2>2. users[n] \in UserRow BY <2>1, ExistingRow
  <2>3. [[[users[n] EXCEPT !.status = 0] EXCEPT !.ip = NoIp]
                                         EXCEPT !.port = 0] \in UserRow
    BY <2>2 DEF UserRow
  <2>4. QED BY <1>2, <2>3 DEF StoreTypeOK, UserDisconnect
<1>3. QED BY <1>1, <1>2

(* The row msg_add inserts has the type of the table. *)
LEMMA NewRowType ==
  ASSUME StoreTypeOK, NEW r \in Names, NEW s \in Names, Exists(r)
  PROVE  NewRow(r, s) \in MsgRow
<1>1. users[r].msg_counter \in 0..MaxId BY ExistingRow DEF UserRow
<1>2. NextId(users[r].msg_counter) \in 1..MaxId BY <1>1, NextIdRange
<1>3. QED BY <1>2 DEF NewRow, MsgRow, StoreTypeOK

(* msg_add leaves both tables well typed. *)
LEMMA MsgAddType ==
  ASSUME StoreTypeOK, NEW r \in Names, NEW s \in Names, NEW rc,
         MsgAdd(r, s, rc)
  PROVE  StoreTypeOK'
<1>1. CASE ~Exists(r)
  BY <1>1 DEF StoreTypeOK, MsgAdd, store
<1>2. CASE Exists(r)
  <2>1. NewRow(r, s) \in MsgRow BY <1>2, NewRowType
  <2>2. users[r] \in UserRow BY <1>2, ExistingRow
  <2>3. rc \in 1..MaxId
    BY <1>2, <2>2, NextIdRange DEF MsgAdd, UserRow
  <2>4. [users[r] EXCEPT !.msg_counter = rc] \in UserRow
    BY <2>2, <2>3, MaxIdAssumption DEF UserRow
  <2>5. users' = [users EXCEPT ![r].msg_counter = rc] BY <1>2 DEF MsgAdd
  <2>6. users' \in [Names -> UserRow \cup {NoUser}]
    BY <2>4, <2>5 DEF StoreTypeOK
  <2>7. QED BY <1>2, <2>1, <2>6 DEF StoreTypeOK, MsgAdd
<1>3. QED BY <1>1, <1>2

(* A msg_add that was cut short changes one counter, within its range. *)
LEMMA SkippedIdRow ==
  ASSUME StoreTypeOK, NEW r \in Names, SkippedId(r)
  PROVE  /\ StoreTypeOK' /\ Exists(r)' /\ UNCHANGED <<messages, nextRow>>
         /\ users'[r].status = users[r].status
         /\ users'[r].msg_counter = NextId(users[r].msg_counter)
         /\ \A k \in Names \ {r} : users'[k] = users[k]
<1> DEFINE id == NextId(users[r].msg_counter)
<1>1. users[r] \in UserRow BY ExistingRow DEF SkippedId
<1>2. users[r].msg_counter \in 0..MaxId BY <1>1 DEF UserRow
<1>3. id \in 1..MaxId BY <1>2, NextIdRange
<1> HIDE DEF id
<1>4. [users[r] EXCEPT !.msg_counter = id] \in UserRow
  BY <1>1, <1>3, MaxIdAssumption DEF UserRow
<1>5. /\ users' = [users EXCEPT ![r].msg_counter = id]
      /\ UNCHANGED <<messages, nextRow>>
  BY DEF SkippedId, id
<1>6. users'[r] = [users[r] EXCEPT !.msg_counter = id]
      /\ \A k \in Names \ {r} : users'[k] = users[k]
  BY <1>5 DEF StoreTypeOK
<1>7. users'[r].status = users[r].status /\ users'[r].msg_counter = id
  BY <1>1, <1>6 DEF UserRow
<1>8. StoreTypeOK' BY <1>4, <1>5 DEF StoreTypeOK
<1>9. Exists(r)' BY <1>4, <1>6, NoUserAssumption DEF Exists
<1>10. QED BY <1>5, <1>6, <1>7, <1>8, <1>9 DEF id

(* msg_delete leaves both tables well typed. *)
LEMMA MsgDeleteType ==
  ASSUME StoreTypeOK, NEW r, NEW id, MsgDelete(r, id)
  PROVE  StoreTypeOK'
BY DEF StoreTypeOK, MsgDelete

-----------------------------------------------------------------------------
(* What each function does to the row of a user, named or not. *)

(* user_add creates a row that is not connected, or changes none. *)
LEMMA UserAddRow ==
  ASSUME StoreTypeOK, NEW n \in Names, NEW rc, UserAdd(n, rc), NEW k \in Names
  PROVE  \/ users'[k] = users[k]
         \/ /\ ~Exists(k) /\ Exists(k)' /\ ~Connected(k)'
            /\ users'[k].msg_counter = 0
<1>1. CASE users' = users BY <1>1
<1>2. CASE users' # users /\ k = n
  <2> DEFINE new == [status |-> 0, ip |-> NoIp, port |-> 0, msg_counter |-> 0]
  <2>1. new \in UserRow BY MaxIdAssumption DEF UserRow
  <2>2. users'[k] = new /\ ~Exists(k)
    BY <1>2 DEF UserAdd, StoreTypeOK
  <2>3. QED BY <2>1, <2>2, NoUserAssumption DEF Exists, Connected
<1>3. CASE users' # users /\ k # n
  BY <1>3 DEF UserAdd, StoreTypeOK
<1>4. QED BY <1>1, <1>2, <1>3

(* user_remove removes the named row and every message of its user. *)
LEMMA UserRemoveRow ==
  ASSUME StoreTypeOK, NEW n \in Names, NEW rc, UserRemove(n, rc),
         NEW k \in Names
  PROVE  \/ users'[k] = users[k]
         \/ k = n /\ ~Exists(k)' /\ messages' = messages \ PendingOf(k)
BY DEF StoreTypeOK, UserRemove, Exists

(* user_connect connects a user that exists and is not connected. *)
LEMMA UserConnectRow ==
  ASSUME StoreTypeOK, NEW n \in Names, NEW ip \in Ips, NEW port \in Ports,
         NEW rc, UserConnect(n, ip, port, rc), NEW k \in Names
  PROVE  \/ users'[k] = users[k]
         \/ /\ k = n /\ rc = 0
            /\ Exists(k) /\ ~Connected(k) /\ Exists(k)'
            /\ users'[k].msg_counter = users[k].msg_counter
<1>1. CASE users' = users BY <1>1
<1>2. CASE users' # users /\ k = n
  <2>1. rc = 0 /\ Exists(k) /\ ~Connected(k) BY <1>2 DEF UserConnect
  <2>2. users[k] \in UserRow BY <2>1, ExistingRow
  <2>3. users'[k] = [[[users[k] EXCEPT !.status = 1] EXCEPT !.ip = ip]
                                                 EXCEPT !.port = port]
    BY <1>2 DEF UserConnect, StoreTypeOK
  <2>4. users'[k].msg_counter = users[k].msg_counter
    BY <2>2, <2>3 DEF UserRow
  <2>5. Exists(k)'
    <3>1. users'[k] \in UserRow BY <2>2, <2>3 DEF UserRow
    <3>2. QED BY <3>1, NoUserAssumption DEF Exists
  <2>6. QED BY <1>2, <2>1, <2>4, <2>5
<1>3. CASE users' # users /\ k # n
  BY <1>3 DEF UserConnect, StoreTypeOK
<1>4. QED BY <1>1, <1>2, <1>3

(* user_connect answers 0 when it has connected the user at the address. *)
LEMMA UserConnectEffect ==
  ASSUME StoreTypeOK, NEW n \in Names, NEW ip \in Ips, NEW port \in Ports,
         UserConnect(n, ip, port, 0)
  PROVE  Connected(n)' /\ AddrOf(n)' = <<ip, port>>
<1>1. users[n] \in UserRow BY ExistingRow DEF UserConnect
<1>2. users'[n] = [[[users[n] EXCEPT !.status = 1] EXCEPT !.ip = ip]
                                               EXCEPT !.port = port]
  <2>1. users' = [users EXCEPT ![n].status = 1, ![n].ip = ip, ![n].port = port]
    BY DEF UserConnect
  <2>2. QED BY <2>1 DEF StoreTypeOK
<1>3. users'[n] \in UserRow BY <1>1, <1>2 DEF UserRow
<1>4. /\ users'[n].status = 1
      /\ users'[n].ip = ip /\ users'[n].port = port
  BY <1>1, <1>2 DEF UserRow
<1>5. QED BY <1>3, <1>4, NoUserAssumption DEF Connected, Exists, AddrOf

(* user_disconnect ends with a row that is not connected. *)
LEMMA UserDisconnectRow ==
  ASSUME StoreTypeOK, NEW n \in Names, NEW rc, UserDisconnect(n, rc),
         NEW k \in Names
  PROVE  \/ users'[k] = users[k]
         \/ /\ Exists(k) /\ Exists(k)' /\ ~Connected(k)'
            /\ users'[k].msg_counter = users[k].msg_counter
<1>1. CASE users' = users BY <1>1
<1>2. CASE users' # users /\ k = n
  <2>1. Exists(k) BY <1>2 DEF UserDisconnect, Connected
  <2>2. users[k] \in UserRow BY <2>1, ExistingRow
  <2>3. users'[k] = [[[users[k] EXCEPT !.status = 0] EXCEPT !.ip = NoIp]
                                                 EXCEPT !.port = 0]
    BY <1>2 DEF UserDisconnect, StoreTypeOK
  <2>4. /\ users'[k].msg_counter = users[k].msg_counter
        /\ users'[k].status = 0
    BY <2>2, <2>3 DEF UserRow
  <2>5. users'[k] \in UserRow BY <2>2, <2>3 DEF UserRow
  <2>6. QED BY <2>1, <2>4, <2>5, NoUserAssumption DEF Exists, Connected
<1>3. CASE users' # users /\ k # n
  BY <1>3 DEF UserDisconnect, StoreTypeOK
<1>4. QED BY <1>1, <1>2, <1>3

(* After user_disconnect the user it names is not connected. *)
LEMMA UserDisconnectEffect ==
  ASSUME StoreTypeOK, NEW n \in Names, NEW rc, UserDisconnect(n, rc)
  PROVE  ~Connected(n)'
<1>1. CASE users' = users
  <2>1. ~Connected(n)
    <3>1. SUFFICES ASSUME Connected(n) PROVE FALSE
      OBVIOUS
    <3>2. users[n] \in UserRow /\ users[n].status = 1
      BY <3>1, ExistingRow DEF Connected
    <3>3. users'[n].status = 0
      BY <3>1, <3>2 DEF UserDisconnect, StoreTypeOK, Connected, UserRow
    <3>4. QED BY <1>1, <3>2, <3>3
  <2>2. QED BY <1>1, <2>1 DEF Connected, Exists
<1>2. CASE users' # users
  <2>1. users[n] \in UserRow
    BY <1>2, ExistingRow DEF UserDisconnect, Connected
  <2>2. users'[n].status = 0
    BY <1>2, <2>1 DEF UserDisconnect, StoreTypeOK, UserRow
  <2>3. QED BY <2>2 DEF Connected
<1>3. QED BY <1>1, <1>2

(* msg_add changes the counter of the receiver, and nothing else of it. *)
LEMMA MsgAddRow ==
  ASSUME StoreTypeOK, NEW r \in Names, NEW s, NEW rc,
         MsgAdd(r, s, rc), NEW k \in Names
  PROVE  \/ users'[k] = users[k]
         \/ /\ k = r /\ Exists(k) /\ Exists(k)'
            /\ users'[k].status = users[k].status
            /\ users'[k].msg_counter = NextId(users[k].msg_counter)
            /\ nextRow' = nextRow + 1
<1>1. CASE users' = users BY <1>1
<1>2. CASE users' # users /\ k = r
  <2>1. Exists(k) /\ nextRow' = nextRow + 1
        /\ rc = NextId(users[k].msg_counter)
    BY <1>2 DEF MsgAdd, store
  <2>2. users[k] \in UserRow BY <2>1, ExistingRow
  <2>3. users'[k] = [users[k] EXCEPT !.msg_counter = rc]
    BY <1>2 DEF MsgAdd, store, StoreTypeOK
  <2>4. users'[k].status = users[k].status /\ users'[k].msg_counter = rc
    BY <2>2, <2>3 DEF UserRow
  <2>5. rc \in 0..MaxId
    BY <2>1, <2>2, NextIdRange DEF UserRow
  <2>6. users'[k] \in UserRow BY <2>2, <2>3, <2>5 DEF UserRow
  <2>7. QED BY <1>2, <2>1, <2>4, <2>6, NoUserAssumption DEF Exists
<1>3. CASE users' # users /\ k # r
  BY <1>3 DEF MsgAdd, store, StoreTypeOK
<1>4. QED BY <1>1, <1>2, <1>3
=============================================================================
