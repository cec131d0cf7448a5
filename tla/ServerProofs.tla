----------------------------- MODULE ServerProofs -----------------------------
(***************************************************************************)
(* The promises of Server hold for every set of users, addresses and       *)
(* threads, every bound on identifiers, sends and faults.                  *)
(***************************************************************************)
EXTENDS Server, UserStoreProofs

(* A thread can be idle with no other value of its variables. *)
LEMMA IdleType == Idle \in ThreadState
BY DEF Idle, ThreadState, Places

(* The local variables of a thread that changed places keep their types. *)
LEMMA GoesToType ==
  ASSUME TypeOK, NEW t \in Threads, NEW place \in Places, GoesTo(t, place)
  PROVE  threads' \in [Threads -> ThreadState]
<1>1. threads[t] \in ThreadState BY DEF TypeOK
<1>2. [threads[t] EXCEPT !.pc = place] \in ThreadState
  BY <1>1 DEF ThreadState
<1>3. QED BY <1>2 DEF GoesTo, TypeOK

(* The same for a thread that also forgets the receiver's address. *)
LEMMA ForgetsType ==
  ASSUME TypeOK, NEW t \in Threads, NEW place \in Places, Forgets(t, place)
  PROVE  threads' \in [Threads -> ThreadState]
<1>1. threads[t] \in ThreadState BY DEF TypeOK
<1>2. /\ threads[t].op \in Ops \cup {"NONE"}
      /\ threads[t].user \in Names \cup {NoName}
      /\ threads[t].sender \in Names \cup {NoName}
      /\ threads[t].msg \in MsgRow \cup {NoMsg}
  BY <1>1 DEF ThreadState
<1>3. threads' = [threads EXCEPT ![t] =
                   [[[threads[t] EXCEPT !.pc = place] EXCEPT !.ip = NoIp]
                                              EXCEPT !.port = 0]]
  BY DEF Forgets
<1>4. [[[threads[t] EXCEPT !.pc = place] EXCEPT !.ip = NoIp]
                              EXCEPT !.port = 0] \in ThreadState
  BY <1>1, <1>2 DEF ThreadState
<1>5. QED BY <1>3, <1>4 DEF TypeOK

(* A thread that takes a whole new state of the right type. *)
LEMMA BecomesType ==
  ASSUME TypeOK, NEW t \in Threads, NEW st \in ThreadState, Becomes(t, st)
  PROVE  threads' \in [Threads -> ThreadState]
BY DEF Becomes, TypeOK

(* A thread that has delivered its message keeps its types. *)
LEMMA GoesOnType ==
  ASSUME TypeOK, NEW t \in Threads, GoesOn(t)
  PROVE  threads' \in [Threads -> ThreadState]
<1>1. threads[t].op \in Ops \cup {"NONE"}
      /\ threads[t].user \in Names \cup {NoName}
  BY DEF TypeOK, ThreadState
<1>2. threads[t].op = "CONNECT" =>
        [Idle EXCEPT !.pc = "next", !.op = "CONNECT",
                     !.user = threads[t].user] \in ThreadState
  BY <1>1, IdleType DEF Idle, ThreadState, Places
<1>3. QED BY <1>2, IdleType, BecomesType DEF GoesOn

(* A handler that a failed call ends has changed no table, or has used up an *)
(* identifier.                                                               *)
LEMMA CallFailsStore ==
  ASSUME TypeOK, \A t \in Threads : ThreadOK(t), NEW t \in Threads, CallFails(t)
  PROVE  UNCHANGED store \/ \E n \in Names : SkippedId(n)
<1>1. At(t, "add") => threads[t].user \in Names BY DEF At, ThreadOK
<1>2. QED BY <1>1 DEF CallFails

(* A death leaves the tables as they were, or an identifier used up, or a *)
(* user without its messages.                                             *)
LEMMA CrashStore ==
  ASSUME TypeOK, \A t \in Threads : ThreadOK(t), Crash
  PROVE  \/ UNCHANGED <<store, dropped>>
         \/ UNCHANGED dropped /\ \E n \in Names : SkippedId(n)
         \/ \E n \in Names : /\ RemoveMessages(n)
                             /\ dropped' = dropped \cup RowsOf(PendingOf(n))
<1>1. ASSUME NEW t \in Threads, At(t, "add") PROVE threads[t].user \in Names
  BY <1>1 DEF At, ThreadOK
<1>2. QED BY <1>1 DEF Crash, CutShort

(* Rows are numbers. *)
LEMMA RowsAreNumbers ==
  ASSUME TypeOK, NEW n
  PROVE  RowsOf(PendingOf(n)) \subseteq Nat
BY DEF RowsOf, PendingOf, TypeOK, StoreTypeOK, MsgRow

(* A fault is counted. *)
LEMMA FaultType ==
  ASSUME TypeOK, Fault
  PROVE  faults' \in Nat /\ faults' = faults + 1
<1>1. faults' = faults + 1 /\ faults \in Nat BY DEF Fault, TypeOK
<1>2. QED BY <1>1

(* Every step preserves the type invariant; the local variables of a thread *)
(* are used only where they have been set.                                  *)
LEMMA TypeStep ==
  ASSUME TypeOK, \A t \in Threads : ThreadOK(t), [Next]_vars
  PROVE  TypeOK'
<1>1. ASSUME NEW t \in Threads, NEW n \in Names, Register(t, n)
      PROVE  TypeOK'
  <2>1. StoreTypeOK' BY <1>1, UserAddType DEF Register, TypeOK
  <2>2. QED BY <1>1, <2>1 DEF Register, TypeOK, clients, history
<1>2. ASSUME NEW t \in Threads, NEW n \in Names, Unregister(t, n)
      PROVE  TypeOK'
  <2>1. StoreTypeOK' BY <1>2, UserRemoveType DEF Unregister, TypeOK
  <2>2. RowsOf(PendingOf(n)) \subseteq Nat BY RowsAreNumbers
  <2>3. dropped' \subseteq Nat BY <1>2, <2>2 DEF Unregister, TypeOK
  <2>4. QED BY <1>2, <2>1, <2>3 DEF Unregister, TypeOK, clients
<1>3. ASSUME NEW t \in Threads, NEW n \in Names, NEW a \in Addrs,
             Connect(t, n, a)
      PROVE  TypeOK'
  <2>1. a[1] \in Ips /\ a[2] \in Ports BY DEF Addrs
  <2>2. StoreTypeOK' BY <1>3, <2>1, UserConnectType DEF Connect, TypeOK
  <2>3. "CONNECT" \in Ops BY <1>3 DEF Connect
  <2>4. [Idle EXCEPT !.pc = "next", !.op = "CONNECT", !.user = n]
          \in ThreadState
    BY <2>3, IdleType DEF Idle, ThreadState, Places
  <2>5. threads' \in [Threads -> ThreadState]
    BY <1>3, <2>4, BecomesType DEF Connect, TypeOK
  <2>6. client' \in [Addrs -> Names \cup {NoName}] BY <1>3 DEF Connect, TypeOK
  <2>7. stranded' \subseteq Nat BY <1>3 DEF Connect, TypeOK
  <2>8. QED BY <1>3, <2>2, <2>5, <2>6, <2>7 DEF Connect, TypeOK
<1>4. ASSUME NEW t \in Threads, NEW n \in Names, NEW ip \in Ips,
             Disconnect(t, n, ip)
      PROVE  TypeOK'
  <2>1. "DISCONNECT" \in Ops BY <1>4 DEF Disconnect
  <2>2. [Idle EXCEPT !.pc = "disconnect", !.op = "DISCONNECT", !.user = n,
                     !.ip = ip] \in ThreadState
    BY <2>1, IdleType DEF Idle, ThreadState, Places
  <2>3. threads' \in [Threads -> ThreadState]
    BY <1>4, <2>2, BecomesType DEF Disconnect
  <2>4. QED BY <1>4, <2>3
            DEF Disconnect, TypeOK, StoreTypeOK, store, clients, history
<1>5. ASSUME NEW t \in Threads, NEW op \in SendOps, NEW s \in Senders,
             NEW r \in Receivers, SendCheck(t, op, s, r)
      PROVE  TypeOK'
  <2>1. op \in Ops /\ s \in Names /\ r \in Names
    BY <1>5, WhoAssumption DEF SendCheck
  <2>2. [Idle EXCEPT !.pc = "add", !.op = op, !.user = r, !.sender = s]
          \in ThreadState
    BY <2>1, IdleType DEF Idle, ThreadState, Places
  <2>3. threads' \in [Threads -> ThreadState]
    BY <1>5, <2>2, BecomesType DEF SendCheck
  <2>4. QED BY <1>5, <2>3
            DEF SendCheck, TypeOK, StoreTypeOK, store, clients, history
<1>6. ASSUME NEW t \in Threads, SendAdd(t) PROVE TypeOK'
  <2> DEFINE s == threads[t].sender
             r == threads[t].user
  <2>1. s \in Names /\ r \in Names /\ threads[t].op \in Ops \cup {"NONE"}
    BY <1>6 DEF SendAdd, ThreadOK, At, TypeOK, ThreadState
  <2>2. PICK rc \in 0..MaxId :
          /\ MsgAdd(r, s, rc)
          /\ IF rc = 0
             THEN Becomes(t, Idle) /\ UNCHANGED sent
             ELSE /\ Becomes(t, [Idle EXCEPT !.pc = "lookup",
                              !.msg = NewRow(r, s),
                              !.op = threads[t].op, !.user = r])
                  /\ sent' = sent \cup {NewRow(r, s)}
    BY <1>6 DEF SendAdd
  <2>3. StoreTypeOK' BY <2>1, <2>2, MsgAddType DEF TypeOK
  <2>4. CASE rc = 0
    <3>1. threads' \in [Threads -> ThreadState]
      BY <2>2, <2>4, IdleType, BecomesType
    <3>2. QED BY <1>6, <2>2, <2>3, <2>4, <3>1 DEF SendAdd, TypeOK, clients
  <2>5. CASE rc # 0
    <3>1. Exists(r) BY <2>2, <2>5 DEF MsgAdd
    <3>2. NewRow(r, s) \in MsgRow BY <2>1, <3>1, NewRowType DEF TypeOK
    <3>4. [Idle EXCEPT !.pc = "lookup", !.msg = NewRow(r, s),
                       !.op = threads[t].op, !.user = r] \in ThreadState
      BY <2>1, <3>2, IdleType DEF Idle, ThreadState, Places, Delivering
    <3>5. threads' \in [Threads -> ThreadState]
      BY <2>2, <2>5, <3>4, BecomesType
    <3>6. sent' \subseteq MsgRow BY <2>2, <2>5, <3>2 DEF TypeOK
    <3>7. QED BY <1>6, <2>3, <3>5, <3>6 DEF SendAdd, TypeOK, clients
  <2>6. QED BY <2>4, <2>5
<1>7. ASSUME NEW t \in Threads, DrainNext(t) PROVE TypeOK'
  <2>1. ASSUME NEW m \in PendingOf(threads[t].user),
               threads' = [threads EXCEPT ![t].pc = "lookup", ![t].msg = m]
        PROVE  threads' \in [Threads -> ThreadState]
    <3>1. m \in MsgRow BY DEF PendingOf, TypeOK, StoreTypeOK
    <3>2. threads[t] \in ThreadState BY DEF TypeOK
    <3>3. [[threads[t] EXCEPT !.pc = "lookup"] EXCEPT !.msg = m]
            \in ThreadState
      BY <3>1, <3>2 DEF ThreadState, Places, Delivering
    <3>4. QED BY <2>1, <3>3 DEF TypeOK
  <2>2. threads' \in [Threads -> ThreadState]
    BY <1>7, <2>1, IdleType, BecomesType DEF DrainNext
  <2>3. QED BY <1>7, <2>2
            DEF DrainNext, TypeOK, StoreTypeOK, store, clients, history
<1>8. ASSUME NEW t \in Threads, Lookup(t) PROVE TypeOK'
  <2> DEFINE u == threads[t].user
  <2>1. u \in Names
    BY <1>8 DEF Lookup, At, ThreadOK, Delivering, TypeOK, MsgRow
  <2>2. CASE ConnInfo(u) = 0
    <3>1. Exists(u) BY <2>2 DEF ConnInfo
    <3>2. users[u].ip \in Ips \cup {NoIp} /\ users[u].port \in Ports \cup {0}
      BY <2>1, <3>1, ExistingRow DEF TypeOK, UserRow
    <3>3. threads[t] \in ThreadState BY DEF TypeOK
    <3>4. threads' = [threads EXCEPT ![t] =
             [[[threads[t] EXCEPT !.pc = "connect"] EXCEPT !.ip = users[u].ip]
                                        EXCEPT !.port = users[u].port]]
      BY <1>8, <2>2 DEF Lookup
    <3>5. [[[threads[t] EXCEPT !.pc = "connect"] EXCEPT !.ip = users[u].ip]
              EXCEPT !.port = users[u].port] \in ThreadState
      BY <3>2, <3>3 DEF ThreadState, Places, Delivering
    <3>6. QED BY <1>8, <3>4, <3>5
              DEF Lookup, TypeOK, StoreTypeOK, store, clients, history
  <2>3. CASE ConnInfo(u) # 0
    <3>1. threads' \in [Threads -> ThreadState]
      BY <1>8, <2>3, IdleType, BecomesType DEF Lookup
    <3>2. QED BY <1>8, <3>1
              DEF Lookup, TypeOK, StoreTypeOK, store, clients, history
  <2>4. QED BY <2>2, <2>3
<1>9. ASSUME NEW t \in Threads, CallFails(t) PROVE TypeOK'
  <2>1. threads[t].msg \in MsgRow \cup {NoMsg} BY DEF TypeOK, ThreadState
  <2>2. RowsOf(Charge(t)) \subseteq Nat
    BY <2>1 DEF RowsOf, Charge, PendingOf, TypeOK, StoreTypeOK, MsgRow
  <2>3. threads' \in [Threads -> ThreadState]
    BY <1>9, IdleType, BecomesType DEF CallFails
  <2>4. stranded' \subseteq Nat BY <1>9, <2>2 DEF CallFails, TypeOK
  <2>5. StoreTypeOK'
    <3>1. CASE UNCHANGED store BY <3>1 DEF TypeOK, StoreTypeOK, store
    <3>2. ASSUME NEW n \in Names, SkippedId(n) PROVE StoreTypeOK'
      BY <3>2, SkippedIdRow DEF TypeOK
    <3>3. QED BY <1>9, <3>1, <3>2, CallFailsStore
  <2>6. faults' \in Nat BY <1>9, FaultType DEF CallFails
  <2>7. QED BY <1>9, <2>3, <2>4, <2>5, <2>6 DEF CallFails, TypeOK, clients
<1>10. ASSUME NEW t \in Threads, ConnectPeer(t) PROVE TypeOK'
  <2>1. threads' \in [Threads -> ThreadState]
    BY <1>10, GoesToType, ForgetsType DEF ConnectPeer, Places, Delivering
  <2>2. QED BY <1>10, <2>1
            DEF ConnectPeer, TypeOK, StoreTypeOK, store, clients, history
<1>11. ASSUME NEW t \in Threads, SendPeer(t) PROVE TypeOK'
  <2>1. threads[t].msg.row \in Nat
    BY <1>11 DEF SendPeer, At, ThreadOK, Delivering, TypeOK, MsgRow
  <2>2. threads' \in [Threads -> ThreadState]
    BY <1>11, ForgetsType DEF SendPeer, Places, Delivering
  <2>3. handed' \subseteq Nat BY <1>11, <2>1 DEF SendPeer, TypeOK
  <2>4. QED BY <1>11, <2>2, <2>3
            DEF SendPeer, TypeOK, StoreTypeOK, store, clients
<1>12. ASSUME NEW t \in Threads, Gone(t) PROVE TypeOK'
  <2>1. threads[t].user \in Names
    BY <1>12 DEF Gone, At, ThreadOK, Delivering, TypeOK, MsgRow
  <2>2. StoreTypeOK' BY <1>12, <2>1, UserDisconnectType DEF Gone, TypeOK
  <2>3. threads' \in [Threads -> ThreadState]
    BY <1>12, IdleType, BecomesType DEF Gone
  <2>4. QED BY <1>12, <2>2, <2>3 DEF Gone, TypeOK, clients, history
<1>13. ASSUME NEW t \in Threads, Delete(t) PROVE TypeOK'
  <2>1. StoreTypeOK' BY <1>13, MsgDeleteType DEF Delete, TypeOK
  <2>2. threads' \in [Threads -> ThreadState]
    BY <1>13, GoesToType DEF Delete, Places, Delivering
  <2>3. QED BY <1>13, <2>1, <2>2 DEF Delete, TypeOK, clients, history
<1>14. ASSUME NEW t \in Threads, Ack(t) PROVE TypeOK'
  <2>1. threads[t].msg.row \in Nat
    BY <1>14 DEF Ack, At, ThreadOK, Delivering, TypeOK, MsgRow
  <2>2. acked' \subseteq Nat BY <1>14, <2>1 DEF Ack, TypeOK
  <2>3. threads' \in [Threads -> ThreadState] BY <1>14, GoesOnType DEF Ack
  <2>4. QED BY <1>14, <2>2, <2>3
            DEF Ack, TypeOK, StoreTypeOK, store, clients
<1>15. ASSUME NEW t \in Threads, DisconnectUser(t) PROVE TypeOK'
  <2>1. threads[t].user \in Names BY <1>15 DEF DisconnectUser, At, ThreadOK
  <2>2. StoreTypeOK'
    BY <1>15, <2>1, UserDisconnectType DEF DisconnectUser, TypeOK
  <2>3. threads' \in [Threads -> ThreadState]
    BY <1>15, IdleType, BecomesType DEF DisconnectUser
  <2>4. QED BY <1>15, <2>2, <2>3 DEF DisconnectUser, TypeOK, clients, history
<1>16. ASSUME NEW a \in Addrs, ClientListens(a) PROVE TypeOK'
  BY <1>16 DEF ClientListens, TypeOK, StoreTypeOK, store, history
<1>17. ASSUME NEW a \in Addrs, ClientLeaves(a) PROVE TypeOK'
  BY <1>17 DEF ClientLeaves, TypeOK, StoreTypeOK, store, history
<1>18. ASSUME Crash PROVE TypeOK'
  <2>1. threads' \in [Threads -> ThreadState] BY <1>18, IdleType DEF Crash
  <2>2. RowsOf({m \in messages : Connected(m.receiver)}) \subseteq Nat
    BY DEF RowsOf, TypeOK, StoreTypeOK, MsgRow
  <2>3. stranded' \subseteq Nat BY <1>18, <2>2 DEF Crash, TypeOK
  <2>4. StoreTypeOK' /\ dropped' \subseteq Nat
    <3>1. CASE UNCHANGED <<store, dropped>>
      BY <3>1 DEF TypeOK, StoreTypeOK, store
    <3>2. ASSUME NEW n \in Names, SkippedId(n), UNCHANGED dropped
          PROVE  StoreTypeOK' /\ dropped' \subseteq Nat
      BY <3>2, SkippedIdRow DEF TypeOK
    <3>3. ASSUME NEW n \in Names, RemoveMessages(n),
                 dropped' = dropped \cup RowsOf(PendingOf(n))
          PROVE  StoreTypeOK' /\ dropped' \subseteq Nat
      <4>1. StoreTypeOK' BY <3>3, HalfRemoveType DEF HalfRemove, TypeOK
      <4>2. QED BY <3>3, <4>1, RowsAreNumbers DEF TypeOK
    <3>4. QED BY <1>18, <3>1, <3>2, <3>3, CrashStore
  <2>5. faults' \in Nat BY <1>18, FaultType DEF Crash
  <2>6. QED BY <1>18, <2>1, <2>3, <2>4, <2>5 DEF Crash, TypeOK, clients
<1>19. ASSUME NEW t \in Threads, DeleteFails(t) PROVE TypeOK'
  <2>1. threads[t].msg.row \in Nat
    BY <1>19 DEF DeleteFails, At, ThreadOK, Delivering, TypeOK, MsgRow
  <2>2. threads' \in [Threads -> ThreadState]
    BY <1>19, GoesToType DEF DeleteFails, Places, Delivering
  <2>3. undeleted' \subseteq Nat /\ stranded' \subseteq Nat
    BY <1>19, <2>1 DEF DeleteFails, TypeOK
  <2>4. faults' \in Nat BY <1>19, FaultType DEF DeleteFails, TypeOK
  <2>5. StoreTypeOK' BY <1>19 DEF DeleteFails, TypeOK, StoreTypeOK, store
  <2>6. QED BY <1>19, <2>2, <2>3, <2>4, <2>5 DEF DeleteFails, TypeOK, clients
<1>22. ASSUME NEW t \in Threads, AckFails(t) PROVE TypeOK'
  <2>1. threads' \in [Threads -> ThreadState] BY <1>22, GoesOnType DEF AckFails
  <2>2. faults' \in Nat BY <1>22, FaultType DEF AckFails
  <2>3. QED BY <1>22, <2>1, <2>2
            DEF AckFails, TypeOK, StoreTypeOK, store, clients, history
<1>23. ASSUME NEW t \in Threads, NEW n \in Names, UnregisterFails(t, n)
       PROVE  TypeOK'
  <2>1. StoreTypeOK'
    BY <1>23, HalfRemoveType DEF UnregisterFails, HalfRemove, TypeOK
  <2>2. dropped' \subseteq Nat /\ orphaned' \subseteq Nat
    BY <1>23, RowsAreNumbers DEF UnregisterFails, TypeOK
  <2>3. faults' \in Nat BY <1>23, FaultType DEF UnregisterFails
  <2>4. QED BY <1>23, <2>1, <2>2, <2>3 DEF UnregisterFails, TypeOK, clients
<1>20. ASSUME UNCHANGED vars PROVE TypeOK'
  BY <1>20 DEF vars, TypeOK, StoreTypeOK, store, clients, history
<1>21. QED
  BY <1>1, <1>2, <1>3, <1>4, <1>5, <1>6, <1>7, <1>8, <1>9, <1>10, <1>11,
     <1>12, <1>13, <1>14, <1>15, <1>16, <1>17, <1>18, <1>19, <1>20, <1>22,
     <1>23
  DEF Next, Environment, Request, Serve, Deliver
-----------------------------------------------------------------------------
(* What every step leaves alone, whoever takes it. *)

(* History grows, and a message that left the table does not come back. *)
Frame ==
  /\ sent \subseteq sent' /\ handed \subseteq handed'
  /\ dropped \subseteq dropped' /\ undeleted \subseteq undeleted'
  /\ orphaned \subseteq orphaned'
  /\ messages' \cap sent \subseteq messages

(* Every step of the server stays in that frame: row numbers are new at *)
(* each insertion (msg_add), and nothing else inserts.                  *)
LEMMA FrameStep ==
  ASSUME TypeOK, \A t \in Threads : ThreadOK(t), RowsOK, [Next]_vars
  PROVE  Frame
<1>1. ASSUME NEW t \in Threads, SendAdd(t) PROVE Frame
  <2> DEFINE m == NewRow(threads[t].user, threads[t].sender)
  <2>1. m \notin sent
    <3>1. m.row = nextRow BY DEF NewRow
    <3>2. nextRow \in Nat BY DEF TypeOK, StoreTypeOK
    <3>3. QED BY <3>1, <3>2 DEF RowsOK
  <2>2. messages' = messages \/ messages' = messages \cup {m}
    BY <1>1 DEF SendAdd, MsgAdd, store
  <2>3. sent \subseteq sent' BY <1>1 DEF SendAdd
  <2>4. QED BY <1>1, <2>1, <2>2, <2>3 DEF SendAdd, Frame
<1>2. ASSUME NEW t \in Threads, NEW n \in Names, Unregister(t, n)
      PROVE  Frame
  <2>1. messages' \subseteq messages /\ dropped \subseteq dropped'
    BY <1>2 DEF Unregister, UserRemove
  <2>2. QED BY <1>2, <2>1 DEF Unregister, Frame
<1>3. ASSUME NEW t \in Threads, SendPeer(t) PROVE Frame
  BY <1>3 DEF SendPeer, Frame, store
<1>4. ASSUME NEW t \in Threads, Delete(t) PROVE Frame
  BY <1>4 DEF Delete, MsgDelete, Frame, history
<1>5. ASSUME UNCHANGED <<messages, sent, handed, dropped, undeleted, orphaned>>
      PROVE  Frame
  BY <1>5 DEF Frame
<1>6. ASSUME NEW t \in Threads, Serve(t) PROVE Frame
  <2>1. CASE DrainNext(t) BY <1>5, <2>1 DEF DrainNext, store, history
  <2>2. CASE DisconnectUser(t)
    BY <1>5, <2>2 DEF DisconnectUser, UserDisconnect, history
  <2>3. CASE Lookup(t) BY <1>5, <2>3 DEF Lookup, store, history
  <2>4. CASE ConnectPeer(t) BY <1>5, <2>4 DEF ConnectPeer, store, history
  <2>5. CASE Gone(t) BY <1>5, <2>5 DEF Gone, UserDisconnect, history
  <2>6. CASE Ack(t) BY <1>5, <2>6 DEF Ack, store
  <2>7. QED BY <1>1, <1>3, <1>4, <1>6, <2>1, <2>2, <2>3, <2>4, <2>5, <2>6
            DEF Serve, Deliver
<1>7. ASSUME NEW t \in Threads, Request(t) PROVE Frame
  <2>1. ASSUME NEW n \in Names, Register(t, n) PROVE Frame
    BY <1>5, <2>1 DEF Register, UserAdd, history
  <2>2. ASSUME NEW n \in Names, NEW a \in Addrs, Connect(t, n, a) PROVE Frame
    BY <1>5, <2>2 DEF Connect, UserConnect
  <2>3. ASSUME NEW n \in Names, NEW ip \in Ips, Disconnect(t, n, ip)
        PROVE  Frame
    BY <1>5, <2>3 DEF Disconnect, store, history
  <2>4. ASSUME NEW n, NEW s, NEW op, SendCheck(t, op, s, n) PROVE Frame
    BY <1>5, <2>4 DEF SendCheck, store, history
  <2>5. QED BY <1>2, <1>7, <2>1, <2>2, <2>3, <2>4 DEF Request
<1>8. ASSUME Environment PROVE Frame
  <2>1. ASSUME NEW t \in Threads, CallFails(t) PROVE Frame
    <3>1. UNCHANGED messages BY <2>1, CallFailsStore DEF SkippedId, store
    <3>2. QED BY <1>5, <2>1, <3>1 DEF CallFails
  <2>2. ASSUME NEW a, ClientListens(a) \/ ClientLeaves(a) PROVE Frame
    BY <1>5, <2>2 DEF ClientListens, ClientLeaves, store, history
  <2>3. ASSUME Crash PROVE Frame
    <3>1. messages' \subseteq messages /\ dropped \subseteq dropped'
      BY <2>3, CrashStore DEF SkippedId, RemoveMessages, store
    <3>2. QED BY <2>3, <3>1 DEF Crash, Frame
  <2>4. ASSUME NEW t, DeleteFails(t) PROVE Frame
    BY <2>4 DEF DeleteFails, Frame, store
  <2>5. ASSUME NEW t, AckFails(t) PROVE Frame
    BY <1>5, <2>5 DEF AckFails, store, history
  <2>6. ASSUME NEW t, NEW n, UnregisterFails(t, n) PROVE Frame
    <3>1. /\ messages' \subseteq messages /\ dropped \subseteq dropped'
          /\ orphaned \subseteq orphaned'
      BY <2>6 DEF UnregisterFails, RemoveMessages, RemoveUser
    <3>2. QED BY <2>6, <3>1 DEF UnregisterFails, Frame
  <2>7. QED BY <1>8, <2>1, <2>2, <2>3, <2>4, <2>5, <2>6 DEF Environment
<1>9. ASSUME UNCHANGED vars PROVE Frame
  BY <1>5, <1>9 DEF vars, store, history
<1>10. QED BY <1>6, <1>7, <1>8, <1>9 DEF Next

(* A thread that did not move keeps what it knows. *)
LEMMA OtherThreadOK ==
  ASSUME NEW u \in Threads, ThreadOK(u), Frame, threads'[u] = threads[u]
  PROVE  ThreadOK(u)'
BY DEF ThreadOK, Frame, Delivering

(* An idle thread knows nothing. *)
LEMMA IdleThreadOK ==
  ASSUME NEW u \in Threads, threads'[u] = Idle
  PROVE  ThreadOK(u)'
BY DEF ThreadOK, Idle, Delivering

(* Every step preserves what the local variables of threads say about the *)
(* shared state.                                                          *)
LEMMA ThreadStep ==
  ASSUME TypeOK, \A t \in Threads : ThreadOK(t), RowsOK, [Next]_vars
  PROVE  \A u \in Threads : ThreadOK(u)'
<1> DEFINE Moves(t) == /\ ThreadOK(t)'
                       /\ \A u \in Threads \ {t} : threads'[u] = threads[u]
<1>0. Frame BY FrameStep
<1>a. ASSUME NEW t \in Threads, Moves(t) PROVE \A u \in Threads : ThreadOK(u)'
  BY <1>0, <1>a, OtherThreadOK
<1>b. ASSUME UNCHANGED threads PROVE \A u \in Threads : ThreadOK(u)'
  BY <1>0, <1>b, OtherThreadOK
<1>c. ASSUME NEW t \in Threads, Becomes(t, Idle) PROVE Moves(t)
  BY <1>c, IdleThreadOK DEF Becomes, TypeOK
<1>d. ASSUME NEW t \in Threads, NEW st, Becomes(t, st)
      PROVE  threads'[t] = st /\ \A u \in Threads \ {t} : threads'[u] = threads[u]
  BY <1>d DEF Becomes, TypeOK
<1>e. ASSUME NEW t \in Threads, NEW p \in Places,
             GoesTo(t, p) \/ Forgets(t, p)
      PROVE  /\ threads'[t].pc = p /\ threads'[t].op = threads[t].op
             /\ threads'[t].user = threads[t].user
             /\ threads'[t].msg = threads[t].msg
             /\ \A u \in Threads \ {t} : threads'[u] = threads[u]
  <2>1. threads[t] \in ThreadState BY DEF TypeOK
  <2>2. QED BY <1>e, <2>1 DEF GoesTo, Forgets, TypeOK, ThreadState
<1>1. ASSUME NEW t \in Threads, NEW n \in Names, NEW a \in Addrs,
             Connect(t, n, a)
      PROVE  \A u \in Threads : ThreadOK(u)'
  <2>1. ASSUME Becomes(t, [Idle EXCEPT !.pc = "next", !.op = "CONNECT",
                                       !.user = n])
        PROVE  Moves(t)
    <3>1. threads'[t] = [Idle EXCEPT !.pc = "next", !.op = "CONNECT",
                                     !.user = n]
      BY <2>1, <1>d
    <3>2. /\ threads'[t].pc = "next" /\ threads'[t].op = "CONNECT"
          /\ threads'[t].user = n
      BY <3>1 DEF Idle
    <3>3. QED BY <2>1, <3>2, <1>d DEF ThreadOK, Delivering
  <2>2. QED BY <1>1, <2>1, <1>a, <1>b DEF Connect
<1>2. ASSUME NEW t \in Threads, NEW n \in Names, NEW ip \in Ips,
             Disconnect(t, n, ip)
      PROVE  Moves(t)
  <2>1. threads'[t] = [Idle EXCEPT !.pc = "disconnect", !.op = "DISCONNECT",
                                   !.user = n, !.ip = ip]
    BY <1>2, <1>d DEF Disconnect
  <2>2. /\ threads'[t].pc = "disconnect" /\ threads'[t].op = "DISCONNECT"
        /\ threads'[t].user = n
    BY <2>1 DEF Idle
  <2>3. QED BY <1>2, <2>2, <1>d DEF Disconnect, ThreadOK, Delivering
<1>3. ASSUME NEW t \in Threads, NEW op \in SendOps, NEW s \in Senders,
             NEW r \in Names, SendCheck(t, op, s, r)
      PROVE  Moves(t)
  <2>1. threads'[t] = [Idle EXCEPT !.pc = "add", !.op = op, !.user = r,
                                   !.sender = s]
    BY <1>3, <1>d DEF SendCheck
  <2>2. /\ threads'[t].pc = "add" /\ threads'[t].op = op
        /\ threads'[t].user = r /\ threads'[t].sender = s
    BY <2>1 DEF Idle
  <2>3. s \in Names BY WhoAssumption
  <2>4. QED BY <1>3, <2>2, <2>3, <1>d DEF SendCheck, ThreadOK, Delivering
<1>4. ASSUME NEW t \in Threads, SendAdd(t) PROVE Moves(t)
  <2> DEFINE r == threads[t].user
             m == NewRow(r, threads[t].sender)
  <2>1. CASE Becomes(t, Idle) BY <2>1, <1>c
  <2>2. CASE /\ Becomes(t, [Idle EXCEPT !.pc = "lookup", !.msg = m,
                              !.op = threads[t].op, !.user = r])
             /\ sent' = sent \cup {m}
    <3>1. threads'[t] = [Idle EXCEPT !.pc = "lookup", !.msg = m,
                              !.op = threads[t].op, !.user = r]
      BY <2>2, <1>d
    <3>2. /\ threads'[t].pc = "lookup" /\ threads'[t].op = threads[t].op
          /\ threads'[t].user = r /\ threads'[t].msg = m
      BY <3>1 DEF Idle
    <3>3. m \in sent' /\ m.receiver = r BY <2>2 DEF NewRow
    <3>4. threads[t].op \in SendOps BY <1>4 DEF SendAdd, At, ThreadOK
    <3>5. QED BY <2>2, <3>2, <3>3, <3>4, <1>d DEF ThreadOK, Delivering
  <2>3. QED BY <1>4, <2>1, <2>2 DEF SendAdd
<1>5. ASSUME NEW t \in Threads, DrainNext(t) PROVE Moves(t)
  <2>1. CASE Becomes(t, Idle) BY <2>1, <1>c
  <2>2. ASSUME NEW m \in PendingOf(threads[t].user),
               threads' = [threads EXCEPT ![t].pc = "lookup", ![t].msg = m]
        PROVE  Moves(t)
    <3>1. threads[t] \in ThreadState BY DEF TypeOK
    <3>2. /\ threads'[t].pc = "lookup" /\ threads'[t].op = threads[t].op
          /\ threads'[t].user = threads[t].user /\ threads'[t].msg = m
          /\ \A u \in Threads \ {t} : threads'[u] = threads[u]
      BY <2>2, <3>1 DEF TypeOK, ThreadState
    <3>3. m \in sent /\ m.receiver = threads[t].user
      BY DEF PendingOf, RowsOK
    <3>4. threads[t].op = "CONNECT" BY <1>5 DEF DrainNext, At, ThreadOK
    <3>5. QED BY <3>2, <3>3, <3>4, <1>0 DEF ThreadOK, Delivering, Frame
  <2>3. QED BY <1>5, <2>1, <2>2 DEF DrainNext
<1>6. ASSUME NEW t \in Threads, Lookup(t) PROVE Moves(t)
  <2> DEFINE w == threads[t].user
  <2>1. CASE Becomes(t, Idle) BY <2>1, <1>c
  <2>2. CASE threads' = [threads EXCEPT ![t].pc = "connect",
                                        ![t].ip = users[w].ip,
                                        ![t].port = users[w].port]
    <3>1. threads[t] \in ThreadState BY DEF TypeOK
    <3>2. /\ threads'[t].pc = "connect" /\ threads'[t].op = threads[t].op
          /\ threads'[t].user = w
          /\ threads'[t].msg = threads[t].msg
          /\ \A u \in Threads \ {t} : threads'[u] = threads[u]
      BY <2>2, <3>1 DEF TypeOK, ThreadState
    <3>3. QED BY <1>6, <3>2, <1>0 DEF Lookup, At, ThreadOK, Delivering, Frame
  <2>3. QED BY <1>6, <2>1, <2>2 DEF Lookup
<1>7. ASSUME NEW t \in Threads, ConnectPeer(t) PROVE Moves(t)
  <2>1. PICK p \in {"send", "gone"} : GoesTo(t, p) \/ Forgets(t, p)
    BY <1>7 DEF ConnectPeer
  <2>2. p \in Places BY DEF Places, Delivering
  <2>3. QED BY <1>7, <2>1, <2>2, <1>e, <1>0
            DEF ConnectPeer, At, ThreadOK, Delivering, Frame
<1>8. ASSUME NEW t \in Threads, SendPeer(t) PROVE Moves(t)
  <2>1. CASE Forgets(t, "delete") /\ handed' = handed \cup {threads[t].msg.row}
    BY <1>8, <2>1, <1>e, <1>0
    DEF SendPeer, At, ThreadOK, Delivering, Frame, Places
  <2>2. CASE Forgets(t, "gone")
    BY <1>8, <2>2, <1>e, <1>0
    DEF SendPeer, At, ThreadOK, Delivering, Frame, Places
  <2>3. QED BY <1>8, <2>1, <2>2 DEF SendPeer
<1>9. ASSUME NEW t \in Threads, Delete(t) PROVE Moves(t)
  <2> DEFINE m == threads[t].msg
  <2>1. m \in sent /\ m.row \in handed /\ threads[t].user = m.receiver
    BY <1>9 DEF Delete, At, ThreadOK, Delivering
  <2>2. m \notin messages' BY <1>9, <2>1 DEF Delete, MsgDelete
  <2>3. QED BY <1>9, <2>1, <2>2, <1>e, <1>0
            DEF Delete, At, ThreadOK, Delivering, Frame, Places
<1>10. ASSUME NEW t \in Threads, Ack(t) \/ AckFails(t) PROVE Moves(t)
  <2>1. CASE Becomes(t, Idle) BY <2>1, <1>c
  <2>2. CASE /\ threads[t].op = "CONNECT"
             /\ Becomes(t, [Idle EXCEPT !.pc = "next", !.op = "CONNECT",
                                        !.user = threads[t].user])
    <3>1. threads'[t] = [Idle EXCEPT !.pc = "next", !.op = "CONNECT",
                                     !.user = threads[t].user]
      BY <2>2, <1>d
    <3>2. /\ threads'[t].pc = "next" /\ threads'[t].op = "CONNECT"
          /\ threads'[t].user = threads[t].user
      BY <3>1 DEF Idle
    <3>3. threads[t].user \in Names
      BY <1>10 DEF Ack, AckFails, At, ThreadOK, Delivering, TypeOK, MsgRow
    <3>4. QED BY <2>2, <3>2, <3>3, <1>d DEF ThreadOK, Delivering
  <2>3. QED BY <1>10, <2>1, <2>2 DEF Ack, AckFails, GoesOn
<1>11. ASSUME NEW t \in Threads, Gone(t) \/ DisconnectUser(t) \/ CallFails(t)
       PROVE  Moves(t)
  BY <1>11, <1>c DEF Gone, DisconnectUser, CallFails
<1>f. ASSUME NEW t \in Threads, DeleteFails(t) PROVE Moves(t)
  <2>1. GoesTo(t, "ack") /\ threads[t].msg.row \in undeleted'
    BY <1>f DEF DeleteFails
  <2>2. QED BY <1>f, <2>1, <1>e, <1>0
            DEF DeleteFails, At, ThreadOK, Delivering, Frame, Places
<1>12. ASSUME Crash PROVE \A u \in Threads : ThreadOK(u)'
  BY <1>12, IdleThreadOK DEF Crash
<1>13. ASSUME NEW t \in Threads, Serve(t)
       PROVE  \A u \in Threads : ThreadOK(u)'
  BY <1>13, <1>a, <1>4, <1>5, <1>6, <1>7, <1>8, <1>9, <1>10, <1>11
  DEF Serve, Deliver
<1>14. ASSUME NEW t \in Threads, Request(t)
       PROVE  \A u \in Threads : ThreadOK(u)'
  <2>1. ASSUME NEW n \in Names, Register(t, n) \/ Unregister(t, n)
        PROVE  UNCHANGED threads
    BY <2>1 DEF Register, Unregister
  <2>2. QED BY <1>14, <2>1, <1>a, <1>b, <1>1, <1>2, <1>3 DEF Request
<1>15. ASSUME Environment PROVE \A u \in Threads : ThreadOK(u)'
  <2>1. ASSUME NEW a, ClientListens(a) \/ ClientLeaves(a)
        PROVE  UNCHANGED threads
    BY <2>1 DEF ClientListens, ClientLeaves
  <2>2. ASSUME NEW t, NEW n, UnregisterFails(t, n) PROVE UNCHANGED threads
    BY <2>2 DEF UnregisterFails
  <2>3. QED BY <1>15, <2>1, <2>2, <1>a, <1>b, <1>f, <1>10, <1>11, <1>12
            DEF Environment
<1>16. ASSUME UNCHANGED vars PROVE \A u \in Threads : ThreadOK(u)'
  BY <1>16, <1>b DEF vars
<1>17. QED BY <1>13, <1>14, <1>15, <1>16 DEF Next
-----------------------------------------------------------------------------
(* What a step can do to the tables, whoever takes it. *)

(* Only SEND inserts: one message, for a receiver that exists. *)
Inserts(t) ==
  LET r == threads[t].user
      m == NewRow(r, threads[t].sender)
  IN  /\ SendAdd(t) /\ r \in Names /\ Exists(r) /\ m \in MsgRow
      /\ messages' = messages \cup {m} /\ sent' = sent \cup {m}
      /\ nextRow' = nextRow + 1
      /\ users' = [users EXCEPT ![r].msg_counter = m.id]
      /\ threads'[t].pc = "lookup" /\ threads'[t].op = threads[t].op
      /\ threads'[t].user = r /\ threads'[t].msg = m
      /\ UNCHANGED <<handed, acked, stranded, faults>>

InsertsNothing ==
  messages' \subseteq messages /\ sent' = sent /\ nextRow' = nextRow

(* A step inserts nothing, or it is the msg_add of one thread, which then *)
(* holds the row it inserted.                                             *)
LEMMA InsertStep ==
  ASSUME TypeOK, \A t \in Threads : ThreadOK(t), [Next]_vars
  PROVE  InsertsNothing \/ \E t \in Threads : Inserts(t)
<1>1. ASSUME NEW t \in Threads, SendAdd(t)
      PROVE  InsertsNothing \/ Inserts(t)
  <2> DEFINE s == threads[t].sender
             r == threads[t].user
             m == NewRow(r, s)
  <2>1. r \in Names /\ s \in Names BY <1>1 DEF SendAdd, At, ThreadOK
  <2>2. PICK rc \in 0..MaxId :
          /\ MsgAdd(r, s, rc)
          /\ IF rc = 0
             THEN Becomes(t, Idle) /\ UNCHANGED sent
             ELSE /\ Becomes(t, [Idle EXCEPT !.pc = "lookup", !.msg = m,
                              !.op = threads[t].op, !.user = r])
                  /\ sent' = sent \cup {m}
    BY <1>1 DEF SendAdd
  <2>3. CASE rc = 0
    <3>1. UNCHANGED store BY <2>2, <2>3 DEF MsgAdd
    <3>2. QED BY <2>2, <2>3, <3>1 DEF InsertsNothing, store
  <2>4. CASE rc # 0
    <3>1. /\ Exists(r) /\ rc = m.id /\ messages' = messages \cup {m}
          /\ nextRow' = nextRow + 1
          /\ users' = [users EXCEPT ![r].msg_counter = rc]
      BY <2>2, <2>4 DEF MsgAdd, NewRow, store
    <3>2. m \in MsgRow BY <2>1, <3>1, NewRowType DEF TypeOK
    <3>3. threads'[t] = [Idle EXCEPT !.pc = "lookup", !.msg = m,
                              !.op = threads[t].op, !.user = r]
      BY <2>2, <2>4 DEF Becomes, TypeOK
    <3>4. /\ threads'[t].pc = "lookup" /\ threads'[t].op = threads[t].op
          /\ threads'[t].user = r /\ threads'[t].msg = m
      BY <3>3 DEF Idle
    <3>5. UNCHANGED <<handed, acked, stranded, faults>> BY <1>1 DEF SendAdd
    <3>6. QED BY <1>1, <2>1, <2>2, <2>4, <3>1, <3>2, <3>4, <3>5 DEF Inserts
  <2>5. QED BY <2>3, <2>4
<1>2. ASSUME UNCHANGED <<messages, sent, nextRow>> PROVE InsertsNothing
  BY <1>2 DEF InsertsNothing
<1>3. ASSUME NEW t \in Threads, Delete(t) PROVE InsertsNothing
  BY <1>3 DEF Delete, MsgDelete, InsertsNothing, history
<1>4. ASSUME NEW t \in Threads, Serve(t), ~SendAdd(t) PROVE InsertsNothing
  <2>1. CASE DrainNext(t) BY <1>2, <2>1 DEF DrainNext, store, history
  <2>2. CASE DisconnectUser(t)
    BY <1>2, <2>2 DEF DisconnectUser, UserDisconnect, history
  <2>3. CASE Lookup(t) BY <1>2, <2>3 DEF Lookup, store, history
  <2>4. CASE ConnectPeer(t) BY <1>2, <2>4 DEF ConnectPeer, store, history
  <2>5. CASE Gone(t) BY <1>2, <2>5 DEF Gone, UserDisconnect, history
  <2>6. CASE Ack(t) BY <1>2, <2>6 DEF Ack, store
  <2>7. CASE SendPeer(t) BY <1>2, <2>7 DEF SendPeer, store
  <2>8. QED BY <1>3, <1>4, <2>1, <2>2, <2>3, <2>4, <2>5, <2>6, <2>7
            DEF Serve, Deliver
<1>5. ASSUME NEW t \in Threads, Request(t) PROVE InsertsNothing
  <2>1. ASSUME NEW n \in Names, Register(t, n) PROVE InsertsNothing
    BY <1>2, <2>1 DEF Register, UserAdd, history
  <2>2. ASSUME NEW n \in Names, Unregister(t, n) PROVE InsertsNothing
    BY <2>2 DEF Unregister, UserRemove, InsertsNothing
  <2>3. ASSUME NEW n \in Names, NEW a \in Addrs, Connect(t, n, a)
        PROVE  InsertsNothing
    BY <1>2, <2>3 DEF Connect, UserConnect
  <2>4. ASSUME NEW n, NEW ip, Disconnect(t, n, ip) PROVE InsertsNothing
    BY <1>2, <2>4 DEF Disconnect, store, history
  <2>5. ASSUME NEW n, NEW s, NEW op, SendCheck(t, op, s, n)
        PROVE  InsertsNothing
    BY <1>2, <2>5 DEF SendCheck, store, history
  <2>6. QED BY <1>5, <2>1, <2>2, <2>3, <2>4, <2>5 DEF Request
<1>6. ASSUME Environment PROVE InsertsNothing
  <2>1. ASSUME NEW t \in Threads, CallFails(t) PROVE InsertsNothing
    <3>1. UNCHANGED <<messages, nextRow>>
      BY <2>1, CallFailsStore DEF SkippedId, store
    <3>2. QED BY <1>2, <2>1, <3>1 DEF CallFails
  <2>2. ASSUME NEW a, ClientListens(a) \/ ClientLeaves(a)
        PROVE  InsertsNothing
    BY <1>2, <2>2 DEF ClientListens, ClientLeaves, store, history
  <2>3. ASSUME Crash PROVE InsertsNothing
    <3>1. messages' \subseteq messages /\ nextRow' = nextRow
      BY <2>3, CrashStore DEF SkippedId, RemoveMessages, store
    <3>2. QED BY <2>3, <3>1 DEF Crash, InsertsNothing
  <2>4. ASSUME NEW t, DeleteFails(t) \/ AckFails(t) PROVE InsertsNothing
    BY <1>2, <2>4 DEF DeleteFails, AckFails, store, history
  <2>5. ASSUME NEW t, NEW n, UnregisterFails(t, n) PROVE InsertsNothing
    BY <2>5 DEF UnregisterFails, RemoveMessages, RemoveUser, InsertsNothing
  <2>6. QED BY <1>6, <2>1, <2>2, <2>3, <2>4, <2>5 DEF Environment
<1>7. ASSUME UNCHANGED vars PROVE InsertsNothing
  BY <1>2, <1>7 DEF vars, store, history
<1>8. QED BY <1>1, <1>4, <1>5, <1>6, <1>7 DEF Next

(* The fate of the row of user n in a step. *)
RowKept(n)     == users'[n] = users[n]
RowCreated(n)  == /\ ~Exists(n) /\ Exists(n)' /\ ~Connected(n)'
                  /\ users'[n].msg_counter = 0
RowRemoved(n)  ==
  /\ ~Exists(n)'
  /\ \A m \in messages' : m.receiver = n => m.row \in orphaned'
RowConnected(n) ==
  /\ Exists(n) /\ ~Connected(n) /\ Exists(n)'
  /\ users'[n].msg_counter = users[n].msg_counter
  /\ \E t \in Threads : threads'[t].op = "CONNECT" /\ threads'[t].user = n
RowDisconnected(n) ==
  /\ Exists(n) /\ Exists(n)' /\ ~Connected(n)'
  /\ users'[n].msg_counter = users[n].msg_counter
RowCounted(n) ==
  /\ Exists(n) /\ Exists(n)' /\ users'[n].status = users[n].status
  /\ users'[n].msg_counter = NextId(users[n].msg_counter)
  /\ nextRow' + faults' = nextRow + faults + 1

(* These six are all that a step can do to a user's row: one for each *)
(* writing function of users.c, cut short or not, and nothing.        *)
LEMMA RowStep ==
  ASSUME TypeOK, \A t \in Threads : ThreadOK(t), [Next]_vars, NEW n \in Names
  PROVE  \/ RowKept(n) \/ RowCreated(n) \/ RowRemoved(n) \/ RowConnected(n)
         \/ RowDisconnected(n) \/ RowCounted(n)
<1> DEFINE Fate == \/ RowKept(n) \/ RowCreated(n) \/ RowRemoved(n)
                   \/ RowConnected(n) \/ RowDisconnected(n) \/ RowCounted(n)
<1>0. StoreTypeOK BY DEF TypeOK
<1>1. ASSUME UNCHANGED users PROVE Fate
  BY <1>1 DEF RowKept
<1>2. ASSUME NEW t \in Threads, NEW k \in Names, Register(t, k) PROVE Fate
  BY <1>0, <1>2, UserAddRow DEF Register, RowKept, RowCreated
<1>3. ASSUME NEW t \in Threads, NEW k \in Names, Unregister(t, k) PROVE Fate
  BY <1>0, <1>3, UserRemoveRow DEF Unregister, RowKept, RowRemoved, PendingOf
<1>4. ASSUME NEW t \in Threads, NEW k \in Names, NEW a \in Addrs,
             Connect(t, k, a)
      PROVE  Fate
  <2>1. a[1] \in Ips /\ a[2] \in Ports BY DEF Addrs
  <2>2. PICK rc \in 0..2 :
          /\ UserConnect(k, a[1], a[2], rc)
          /\ rc = 0 => Becomes(t, [Idle EXCEPT !.pc = "next", !.op = "CONNECT",
                                               !.user = k])
    BY <1>4 DEF Connect
  <2>3. CASE rc = 0
    <3>1. threads'[t] = [Idle EXCEPT !.pc = "next", !.op = "CONNECT",
                                     !.user = k]
      BY <2>2, <2>3 DEF Becomes, TypeOK
    <3>2. threads'[t].op = "CONNECT" /\ threads'[t].user = k
      BY <3>1 DEF Idle
    <3>3. QED BY <1>0, <2>1, <2>2, <3>2, UserConnectRow
              DEF RowKept, RowConnected
  <2>4. CASE rc # 0
    BY <1>0, <2>1, <2>2, <2>4, UserConnectRow DEF RowKept
  <2>5. QED BY <2>3, <2>4
<1>5. ASSUME NEW t \in Threads, SendAdd(t) PROVE Fate
  <2>1. threads[t].user \in Names BY <1>5 DEF SendAdd, At, ThreadOK
  <2>2. PICK rc : MsgAdd(threads[t].user, threads[t].sender, rc)
    BY <1>5 DEF SendAdd
  <2>3. faults' = faults /\ faults \in Nat /\ nextRow \in Nat
    BY <1>5 DEF SendAdd, TypeOK, StoreTypeOK
  <2>4. nextRow' = nextRow + 1 => nextRow' + faults' = nextRow + faults + 1
    BY <2>3
  <2>5. QED BY <1>0, <2>1, <2>2, <2>4, MsgAddRow DEF RowKept, RowCounted
<1>6. ASSUME NEW t \in Threads, Gone(t) \/ DisconnectUser(t) PROVE Fate
  <2>1. threads[t].user \in Names
    BY <1>6 DEF Gone, DisconnectUser, At, ThreadOK, Delivering, TypeOK, MsgRow
  <2>2. PICK rc : UserDisconnect(threads[t].user, rc)
    BY <1>6 DEF Gone, DisconnectUser
  <2>3. QED BY <1>0, <2>1, <2>2, UserDisconnectRow
            DEF RowKept, RowDisconnected
<1>7. ASSUME NEW t \in Threads, Serve(t) PROVE Fate
  <2>1. CASE \/ DrainNext(t) \/ Lookup(t) \/ ConnectPeer(t) \/ SendPeer(t)
             \/ Delete(t) \/ Ack(t)
    BY <1>1, <2>1 DEF DrainNext, Lookup, ConnectPeer, SendPeer, Delete,
                      MsgDelete, Ack, store
  <2>2. QED BY <1>5, <1>6, <1>7, <2>1 DEF Serve, Deliver
<1>8. ASSUME NEW t \in Threads, Request(t) PROVE Fate
  <2>1. ASSUME NEW k, NEW ip, Disconnect(t, k, ip) PROVE Fate
    BY <1>1, <2>1 DEF Disconnect, store
  <2>2. ASSUME NEW k, NEW s, NEW op, SendCheck(t, op, s, k) PROVE Fate
    BY <1>1, <2>2 DEF SendCheck, store
  <2>3. QED BY <1>2, <1>3, <1>4, <1>8, <2>1, <2>2 DEF Request
<1>9. ASSUME Environment PROVE Fate
  <2>1. ASSUME NEW r \in Names, SkippedId(r), Fault PROVE Fate
    <3>1. faults' = faults + 1 /\ faults \in Nat /\ nextRow \in Nat
      BY <2>1, FaultType DEF TypeOK, StoreTypeOK
    <3>2. nextRow' = nextRow => nextRow' + faults' = nextRow + faults + 1
      BY <3>1
    <3>3. CASE n = r
      BY <1>0, <2>1, <3>2, <3>3, SkippedIdRow DEF RowCounted, SkippedId
    <3>4. CASE n # r BY <1>0, <2>1, <3>4, SkippedIdRow DEF RowKept
    <3>5. QED BY <3>3, <3>4
  <2>2. ASSUME NEW t \in Threads, CallFails(t) PROVE Fate
    BY <1>1, <2>1, <2>2, CallFailsStore DEF CallFails, store
  <2>3. ASSUME Crash PROVE Fate
    BY <1>1, <2>1, <2>3, CrashStore DEF Crash, RemoveMessages, store
  <2>4. ASSUME NEW t \in Threads, NEW k \in Names, UnregisterFails(t, k)
        PROVE  Fate
    <3>1. CASE RemoveMessages(k) BY <1>1, <3>1 DEF RemoveMessages
    <3>2. CASE /\ RemoveUser(k)
               /\ orphaned' = orphaned \cup RowsOf(PendingOf(k))
      <4>1. CASE n = k
        <5>1. ~Exists(n)'
          BY <1>0, <3>2, <4>1 DEF RemoveUser, StoreTypeOK, Exists
        <5>2. \A m \in messages' : m.receiver = n => m.row \in orphaned'
          BY <3>2, <4>1 DEF RemoveUser, RowsOf, PendingOf
        <5>3. QED BY <5>1, <5>2 DEF RowRemoved
      <4>2. CASE n # k
        BY <1>0, <3>2, <4>2 DEF RemoveUser, StoreTypeOK, RowKept
      <4>3. QED BY <4>1, <4>2
    <3>3. QED BY <2>4, <3>1, <3>2 DEF UnregisterFails
  <2>5. ASSUME NEW a, ClientListens(a) \/ ClientLeaves(a) PROVE Fate
    BY <1>1, <2>5 DEF ClientListens, ClientLeaves, store
  <2>6. ASSUME NEW t, DeleteFails(t) \/ AckFails(t) PROVE Fate
    BY <1>1, <2>6 DEF DeleteFails, AckFails, store
  <2>7. QED BY <1>9, <2>2, <2>3, <2>4, <2>5, <2>6 DEF Environment
<1>10. ASSUME UNCHANGED vars PROVE Fate
  BY <1>1, <1>10 DEF vars, store
<1>11. QED BY <1>7, <1>8, <1>9, <1>10 DEF Next

(* A message leaves the table with its receiver, or because a thread deletes *)
(* the message it has just handed over.                                      *)
LEMMA RemoveStep ==
  ASSUME TypeOK, \A t \in Threads : ThreadOK(t), [Next]_vars,
         NEW m \in messages, m \notin messages'
  PROVE  \/ m.row \in dropped'
         \/ \E t \in Threads :
              /\ threads[t].msg \in sent /\ threads[t].msg.row \in handed
              /\ threads[t].msg.receiver = m.receiver
              /\ threads[t].msg.id = m.id
<1> DEFINE Why == \/ m.row \in dropped'
                  \/ \E t \in Threads :
                       /\ threads[t].msg \in sent
                       /\ threads[t].msg.row \in handed
                       /\ threads[t].msg.receiver = m.receiver
                       /\ threads[t].msg.id = m.id
<1>1. ASSUME UNCHANGED messages PROVE FALSE
  BY <1>1
<1>2. ASSUME NEW t \in Threads, NEW n \in Names, Unregister(t, n) PROVE Why
  <2>1. PICK rc \in {0, 1} :
          /\ UserRemove(n, rc)
          /\ dropped' = IF rc = 0 THEN dropped \cup RowsOf(PendingOf(n))
                                  ELSE dropped
    BY <1>2 DEF Unregister
  <2>2. rc = 0 /\ messages' = messages \ PendingOf(n)
    BY <2>1 DEF UserRemove
  <2>3. m \in PendingOf(n) BY <2>2
  <2>4. m.row \in RowsOf(PendingOf(n)) BY <2>3 DEF RowsOf
  <2>5. QED BY <2>1, <2>2, <2>4
<1>3. ASSUME NEW t \in Threads, Delete(t) PROVE Why
  <2>1. /\ threads[t].msg \in sent /\ threads[t].msg.row \in handed
        /\ threads[t].user = threads[t].msg.receiver
    BY <1>3 DEF Delete, At, ThreadOK, Delivering
  <2>2. m.receiver = threads[t].user /\ m.id = threads[t].msg.id
    BY <1>3 DEF Delete, MsgDelete
  <2>3. QED BY <2>1, <2>2
<1>4. ASSUME NEW t \in Threads, Serve(t) PROVE Why
  <2>1. CASE \/ DrainNext(t) \/ Lookup(t) \/ ConnectPeer(t) \/ SendPeer(t)
             \/ Ack(t)
    BY <1>1, <2>1 DEF DrainNext, Lookup, ConnectPeer, SendPeer, Ack, store
  <2>2. CASE Gone(t) \/ DisconnectUser(t)
    BY <1>1, <2>2 DEF Gone, DisconnectUser, UserDisconnect
  <2>3. CASE SendAdd(t)
    <3>1. messages' = messages \/ messages \subseteq messages'
      BY <2>3 DEF SendAdd, MsgAdd, store
    <3>2. QED BY <3>1
  <2>4. QED BY <1>3, <1>4, <2>1, <2>2, <2>3 DEF Serve, Deliver
<1>5. ASSUME NEW t \in Threads, Request(t) PROVE Why
  <2>1. ASSUME NEW k \in Names, Register(t, k) PROVE Why
    BY <1>1, <2>1 DEF Register, UserAdd
  <2>2. ASSUME NEW k, NEW ip, Disconnect(t, k, ip) PROVE Why
    BY <1>1, <2>2 DEF Disconnect, store
  <2>3. ASSUME NEW k, NEW s, NEW op, SendCheck(t, op, s, k) PROVE Why
    BY <1>1, <2>3 DEF SendCheck, store
  <2>4. ASSUME NEW k, NEW a, Connect(t, k, a) PROVE Why
    BY <1>1, <2>4 DEF Connect, UserConnect
  <2>5. QED BY <1>2, <1>5, <2>1, <2>2, <2>3, <2>4 DEF Request
<1>6. ASSUME Environment PROVE Why
  <2>1. ASSUME NEW t \in Threads, CallFails(t) PROVE Why
    BY <1>1, <2>1, CallFailsStore DEF SkippedId, store
  <2>2. ASSUME NEW a, ClientListens(a) \/ ClientLeaves(a) PROVE Why
    BY <1>1, <2>2 DEF ClientListens, ClientLeaves, store
  <2>3. ASSUME NEW n, RemoveMessages(n),
               dropped' = dropped \cup RowsOf(PendingOf(n))
        PROVE  Why
    <3>1. m \in PendingOf(n) BY <2>3 DEF RemoveMessages
    <3>2. m.row \in RowsOf(PendingOf(n)) BY <3>1 DEF RowsOf
    <3>3. QED BY <2>3, <3>2
  <2>4. ASSUME Crash PROVE Why
    BY <1>1, <2>3, <2>4, CrashStore DEF SkippedId, store
  <2>5. ASSUME NEW t, NEW n, UnregisterFails(t, n) PROVE Why
    BY <1>1, <2>3, <2>5 DEF UnregisterFails, RemoveUser
  <2>6. ASSUME NEW t, DeleteFails(t) \/ AckFails(t) PROVE Why
    BY <1>1, <2>6 DEF DeleteFails, AckFails, store
  <2>7. QED BY <1>6, <2>1, <2>2, <2>4, <2>5, <2>6 DEF Environment
<1>7. ASSUME UNCHANGED vars PROVE Why
  BY <1>1, <1>7 DEF vars, store
<1>8. QED BY <1>4, <1>5, <1>6, <1>7 DEF Next
(* The bound on identifiers, insertions and faults together, never falls. *)
LEMMA BoundStep ==
  ASSUME TypeOK, \A t \in Threads : ThreadOK(t), [Next]_vars
  PROVE  /\ nextRow \in Nat \ {0} /\ faults \in Nat
         /\ nextRow' \in Nat /\ faults' \in Nat
         /\ nextRow + faults =< nextRow' + faults'
<1>1. nextRow \in Nat \ {0} /\ faults \in Nat BY DEF TypeOK, StoreTypeOK
<1>2. nextRow' = nextRow \/ nextRow' = nextRow + 1
  BY InsertStep DEF Inserts, InsertsNothing
<1>3. ASSUME faults' = faults \/ Fault
      PROVE  faults' = faults \/ faults' = faults + 1
  BY <1>3 DEF Fault
<1>4. faults' = faults \/ faults' = faults + 1
  <2>1. ASSUME NEW t \in Threads, Serve(t) PROVE faults' = faults
    BY <2>1 DEF Serve, Deliver, DrainNext, SendAdd, DisconnectUser, Lookup,
                ConnectPeer, SendPeer, Gone, Delete, Ack
  <2>2. ASSUME NEW t \in Threads, Request(t) PROVE faults' = faults
    BY <2>2 DEF Request, Register, Unregister, Connect, Disconnect, SendCheck
  <2>3. ASSUME Environment PROVE faults' = faults \/ Fault
    BY <2>3 DEF Environment, CallFails, DeleteFails, AckFails, UnregisterFails,
                ClientListens, ClientLeaves, Crash
  <2>4. ASSUME UNCHANGED vars PROVE faults' = faults
    BY <2>4 DEF vars
  <2>5. QED BY <1>3, <2>1, <2>2, <2>3, <2>4 DEF Next
<1>5. QED BY <1>1, <1>2, <1>4

-----------------------------------------------------------------------------
(* One lemma for each part of the inductive invariant. *)

(* Row numbers go on naming messages. *)
LEMMA RowsStep ==
  ASSUME Inductive, [Next]_vars
  PROVE  RowsOK'
<1>0. TypeOK /\ RowsOK /\ (\A t \in Threads : ThreadOK(t))
  BY DEF Inductive
<1>1. sent' \subseteq MsgRow BY <1>0, TypeStep DEF TypeOK
<1>h. handed' \subseteq RowsOf(sent')
  <2>1. handed \subseteq RowsOf(sent') BY <1>0, FrameStep DEF RowsOK, RowsOf, Frame
  <2>2. ASSUME NEW t \in Threads, SendPeer(t) PROVE handed' \subseteq RowsOf(sent')
    <3>1. threads[t].msg \in sent
      BY <1>0, <2>2 DEF SendPeer, At, ThreadOK, Delivering
    <3>2. threads[t].msg.row \in RowsOf(sent')
      BY <1>0, <3>1, FrameStep DEF RowsOf, Frame
    <3>3. QED BY <2>1, <2>2, <3>2 DEF SendPeer
  <2>3. ASSUME UNCHANGED handed PROVE handed' \subseteq RowsOf(sent')
    BY <2>1, <2>3
  <2>4. ASSUME NEW t \in Threads, Serve(t) PROVE handed' \subseteq RowsOf(sent')
    BY <2>2, <2>3, <2>4
    DEF Serve, Deliver, DrainNext, SendAdd, DisconnectUser, Lookup,
        ConnectPeer, Gone, Delete, Ack, history
  <2>5. ASSUME NEW t \in Threads, Request(t) PROVE UNCHANGED handed
    BY <2>5 DEF Request, Register, Unregister, Connect, Disconnect, SendCheck,
                history
  <2>6. ASSUME Environment PROVE UNCHANGED handed
    BY <2>6 DEF Environment, CallFails, DeleteFails, AckFails, UnregisterFails,
                ClientListens, ClientLeaves, Crash, history
  <2>7. ASSUME UNCHANGED vars PROVE UNCHANGED handed
    BY <2>7 DEF vars, history
  <2>8. QED BY <2>3, <2>4, <2>5, <2>6, <2>7 DEF Next
<1>2. CASE InsertsNothing
  BY <1>0, <1>h, <1>2 DEF InsertsNothing, RowsOK
<1>3. ASSUME NEW t \in Threads, Inserts(t) PROVE RowsOK'
  <2> DEFINE m == NewRow(threads[t].user, threads[t].sender)
  <2>1. /\ m.row = nextRow /\ nextRow \in Nat /\ nextRow' = nextRow + 1
        /\ sent' = sent \cup {m} /\ messages' = messages \cup {m}
    BY <1>0, <1>3 DEF Inserts, NewRow, TypeOK, StoreTypeOK
  <2>2. \A k \in sent : k.row \in Nat /\ k.row < nextRow
    BY <1>0 DEF RowsOK, TypeOK, MsgRow
  <2>3. \A k \in sent' : k.row < nextRow'
    BY <2>1, <2>2
  <2>4. \A k, j \in sent' : k.row = j.row => k = j
    BY <1>0, <2>1, <2>2 DEF RowsOK
  <2>5. messages' \subseteq sent' BY <1>0, <2>1 DEF RowsOK
  <2>6. QED BY <1>h, <2>3, <2>4, <2>5 DEF RowsOK
<1>4. QED BY <1>0, <1>2, <1>3, InsertStep

(* A message in the table after a step was there before, or is the one SEND *)
(* has inserted.                                                            *)
LEMMA WhereFrom ==
  ASSUME Inductive, [Next]_vars, NEW m \in messages', m \notin messages
  PROVE  \E t \in Threads : /\ Inserts(t)
                            /\ m = NewRow(threads[t].user, threads[t].sender)
<1>1. TypeOK /\ (\A t \in Threads : ThreadOK(t)) BY DEF Inductive
<1>2. QED BY <1>1, InsertStep DEF Inserts, InsertsNothing

(* No message is left behind by its receiver's registration, but for those *)
(* of a user_remove whose first DELETE failed.                             *)
LEMMA OrphansStep ==
  ASSUME Inductive, [Next]_vars
  PROVE  NoOrphans'
<1>0. /\ TypeOK /\ RowsOK /\ NoOrphans
      /\ \A t \in Threads : ThreadOK(t)
  BY DEF Inductive
<1>f. orphaned \subseteq orphaned' BY <1>0, FrameStep DEF Frame
<1>1. SUFFICES ASSUME NEW m \in messages'
               PROVE  Exists(m.receiver)' \/ m.row \in orphaned'
  BY DEF NoOrphans
<1>2. ASSUME m.receiver \in Names, Exists(m.receiver)
      PROVE  Exists(m.receiver)' \/ m.row \in orphaned'
  <2>1. RowRemoved(m.receiver) => m.row \in orphaned' BY DEF RowRemoved
  <2>2. QED
    BY <1>0, <1>2, <2>1, RowStep
    DEF RowKept, RowCreated, RowConnected, RowDisconnected, RowCounted, Exists
<1>3. CASE m \in messages
  <2>1. m.receiver \in Names BY <1>0, <1>3 DEF TypeOK, StoreTypeOK, MsgRow
  <2>2. QED BY <1>0, <1>f, <1>2, <1>3, <2>1 DEF NoOrphans
<1>4. CASE m \notin messages
  <2>1. PICK t \in Threads :
          Inserts(t) /\ m = NewRow(threads[t].user, threads[t].sender)
    BY <1>4, WhereFrom
  <2>2. m.receiver \in Names /\ Exists(m.receiver)
    BY <2>1 DEF Inserts, NewRow
  <2>3. QED BY <1>2, <2>2
<1>5. QED BY <1>3, <1>4

(* What is settled stays settled. *)
LEMMA SettledStays ==
  ASSUME Frame, NEW m, Settled(m)
  PROVE  Settled(m)'
BY DEF Frame, Settled, SharesId

(* No message vanishes in a step. *)
LEMMA SilentLossStep ==
  ASSUME Inductive, [Next]_vars
  PROVE  NoSilentLoss'
<1>0. /\ TypeOK /\ RowsOK /\ NoSilentLoss
      /\ \A t \in Threads : ThreadOK(t)
  BY DEF Inductive
<1>f. Frame BY <1>0, FrameStep
<1>1. SUFFICES ASSUME NEW m \in sent', m \notin messages'
               PROVE  Settled(m)'
  BY DEF NoSilentLoss
<1>2. m \in sent
  BY <1>0, <1>1, InsertStep DEF Inserts, InsertsNothing
<1>3. CASE m \notin messages
  BY <1>0, <1>2, <1>3, <1>f, SettledStays DEF NoSilentLoss
<1>4. CASE m \in messages
  <2>1. CASE m.row \in dropped' BY <2>1 DEF Settled
  <2>2. ASSUME NEW t \in Threads, threads[t].msg \in sent,
               threads[t].msg.row \in handed,
               threads[t].msg.receiver = m.receiver,
               threads[t].msg.id = m.id
        PROVE  Settled(m)
    BY <2>2 DEF Settled, SharesId
  <2>3. QED BY <1>0, <1>1, <1>4, <1>f, <2>1, <2>2, RemoveStep, SettledStays
<1>5. QED BY <1>3, <1>4

(* Whoever is in charge of a message stays in charge, or the receiver is not *)
(* connected any more, or the message is abandoned by a fault.               *)
LEMMA ChargeStep ==
  ASSUME TypeOK, \A t \in Threads : ThreadOK(t), [Next]_vars,
         NEW m \in messages, m \in messages', Connected(m.receiver),
         NEW t \in Threads, InCharge(t, m)
  PROVE  \/ InCharge(t, m)' \/ ~Connected(m.receiver)'
         \/ m.row \in stranded'
<1> DEFINE Kept == \/ InCharge(t, m)' \/ ~Connected(m.receiver)'
                   \/ m.row \in stranded'
<1>0. /\ threads[t].pc # "idle" /\ threads[t] \in ThreadState
      /\ threads[t].pc \in Delivering => threads[t].user = threads[t].msg.receiver
      /\ threads[t].op = "CONNECT" =>
           threads[t].pc \in {"next"} \cup Delivering
      /\ m.receiver \in Names /\ m \in MsgRow
      /\ threads[t].user = m.receiver
      /\ threads[t].op = "CONNECT" \/ threads[t].msg = m
  <2>1. threads[t] \in ThreadState BY DEF TypeOK
  <2>2. threads[t].pc \in Places BY <2>1 DEF ThreadState
  <2>3. m \in MsgRow BY DEF TypeOK, StoreTypeOK
  <2>4. m.receiver \in Names BY <2>3 DEF MsgRow
  <2>5. ThreadOK(t) OBVIOUS
  <2>6. QED BY <2>1, <2>2, <2>3, <2>4, <2>5
            DEF InCharge, ThreadOK, Delivering, Places, SendOps
<1>1. ASSUME threads'[t] = threads[t] PROVE Kept
  BY <1>1 DEF InCharge, Delivering
<1>2. ASSUME threads'[t].op = threads[t].op, threads'[t].user = threads[t].user,
             threads'[t].msg = threads[t].msg,
             threads'[t].pc \in Delivering \ {"ack"}
      PROVE  Kept
  BY <1>0, <1>2 DEF InCharge
<1>3. ASSUME NEW p \in Delivering, GoesTo(t, p) \/ Forgets(t, p)
      PROVE  /\ threads'[t].pc = p
             /\ threads'[t].op = threads[t].op
             /\ threads'[t].user = threads[t].user
             /\ threads'[t].msg = threads[t].msg
  BY <1>0, <1>3 DEF GoesTo, Forgets, TypeOK, ThreadState
<1>4. ASSUME DrainNext(t) PROVE Kept
  <2>1. threads[t].op = "CONNECT" BY <1>4 DEF DrainNext, At, ThreadOK
  <2>2. m \in PendingOf(threads[t].user) BY <1>0 DEF PendingOf
  <2>3. PICK k : threads' = [threads EXCEPT ![t].pc = "lookup", ![t].msg = k]
    BY <1>4, <2>2 DEF DrainNext
  <2>4. threads'[t].op = "CONNECT" /\ threads'[t].user = m.receiver
    BY <1>0, <2>1, <2>3 DEF TypeOK, ThreadState
  <2>5. QED BY <2>4 DEF InCharge
<1>5. ASSUME SendAdd(t) \/ DisconnectUser(t) PROVE Kept
  BY <1>0, <1>5
  DEF SendAdd, DisconnectUser, At, InCharge, ThreadOK, Delivering, SendOps
<1>6. ASSUME Lookup(t) PROVE Kept
  <2>1. ConnInfo(threads[t].user) = 0
    BY <1>0 DEF ConnInfo, Connected
  <2>2. /\ threads'[t].pc = "connect"
        /\ threads'[t].op = threads[t].op
        /\ threads'[t].user = threads[t].user
        /\ threads'[t].msg = threads[t].msg
    BY <1>0, <1>6, <2>1 DEF Lookup, TypeOK, ThreadState
  <2>3. QED BY <1>2, <2>2 DEF Delivering
<1>7. ASSUME ConnectPeer(t) \/ SendPeer(t) PROVE Kept
  <2>1. PICK p \in {"send", "gone", "delete"} : GoesTo(t, p) \/ Forgets(t, p)
    BY <1>7 DEF ConnectPeer, SendPeer
  <2>2. QED BY <1>2, <1>3, <2>1 DEF Delivering
<1>8. ASSUME Gone(t) PROVE Kept
  <2>1. StoreTypeOK BY DEF TypeOK
  <2>2. ~Connected(m.receiver)'
    BY <1>0, <1>8, <2>1, UserDisconnectEffect DEF Gone
  <2>3. QED BY <2>2
<1>9. ASSUME Delete(t) PROVE Kept
  <2>1. threads[t].op = "CONNECT"
    BY <1>0, <1>9 DEF Delete, MsgDelete
  <2>2. threads'[t].op = "CONNECT" /\ threads'[t].user = m.receiver
    BY <1>0, <1>3, <1>9, <2>1 DEF Delete, Delivering
  <2>3. QED BY <2>2 DEF InCharge
<1>10. ASSUME Ack(t) \/ AckFails(t) PROVE Kept
  <2>1. threads[t].op = "CONNECT"
    BY <1>10 DEF Ack, AckFails, At, InCharge, Delivering
  <2>2. threads'[t] = [Idle EXCEPT !.pc = "next", !.op = "CONNECT",
                                   !.user = threads[t].user]
    BY <1>10, <2>1 DEF Ack, AckFails, GoesOn, Becomes, TypeOK
  <2>3. threads'[t].op = "CONNECT" /\ threads'[t].user = m.receiver
    BY <1>0, <2>2 DEF Idle
  <2>4. QED BY <2>3 DEF InCharge
<1>11. ASSUME CallFails(t) PROVE Kept
  <2>1. m \in Charge(t)
    BY <1>0, <1>11, NoMsgAssumption DEF Charge, PendingOf
  <2>2. m.row \in RowsOf(Charge(t)) BY <2>1 DEF RowsOf
  <2>3. QED BY <1>11, <2>2 DEF CallFails
<1>12. ASSUME Crash PROVE Kept
  <2>1. m.row \in RowsOf({k \in messages : Connected(k.receiver)})
    BY DEF RowsOf
  <2>2. QED BY <1>12, <2>1 DEF Crash
<1>13. ASSUME NEW u \in Threads \ {t}, NEW st,
              Becomes(u, st) \/ GoesTo(u, st) \/ Forgets(u, st)
       PROVE  Kept
  BY <1>1, <1>13 DEF Becomes, GoesTo, Forgets, TypeOK
<1>14. ASSUME UNCHANGED threads PROVE Kept
  BY <1>1, <1>14
<1>15. ASSUME NEW u \in Threads, Serve(u) PROVE Kept
  <2>1. CASE u = t
    BY <1>4, <1>5, <1>6, <1>7, <1>8, <1>9, <1>10, <1>15, <2>1
    DEF Serve, Deliver
  <2>2. CASE u # t
    <3>1. threads'[t] = threads[t]
      <4>1. CASE DrainNext(u)
        BY <2>2, <4>1 DEF DrainNext, Becomes, TypeOK
      <4>2. CASE SendAdd(u)
        BY <2>2, <4>2 DEF SendAdd, Becomes, TypeOK
      <4>3. CASE Lookup(u) BY <2>2, <4>3 DEF Lookup, Becomes, TypeOK
      <4>4. CASE ConnectPeer(u) \/ SendPeer(u) \/ Delete(u)
        BY <2>2, <4>4 DEF ConnectPeer, SendPeer, Delete, GoesTo, Forgets, TypeOK
      <4>5. CASE Gone(u) \/ DisconnectUser(u) \/ Ack(u)
        BY <2>2, <4>5 DEF Gone, DisconnectUser, Ack, GoesOn, Becomes, TypeOK
      <4>6. QED BY <1>15, <4>1, <4>2, <4>3, <4>4, <4>5 DEF Serve, Deliver
    <3>2. QED BY <1>1, <3>1
  <2>3. QED BY <2>1, <2>2
<1>16. ASSUME NEW u \in Threads, Request(u) PROVE Kept
  <2>1. u # t \/ UNCHANGED threads
    BY <1>0, <1>16 DEF Request, Register, Unregister, Connect, Disconnect,
                       SendCheck, At
  <2>2. CASE u # t
    <3>1. threads'[t] = threads[t]
      BY <1>16, <2>2 DEF Request, Register, Unregister, Connect, Disconnect,
                         SendCheck, Becomes, TypeOK
    <3>2. QED BY <1>1, <3>1
  <2>3. QED BY <1>14, <2>1, <2>2
<1>17. ASSUME Environment PROVE Kept
  <2>1. ASSUME NEW u \in Threads, CallFails(u) PROVE Kept
    <3>1. CASE u = t BY <1>11, <2>1, <3>1
    <3>2. CASE u # t BY <1>13, <2>1, <3>2 DEF CallFails
    <3>3. QED BY <3>1, <3>2
  <2>4. ASSUME NEW u \in Threads, DeleteFails(u) PROVE Kept
    <3>1. CASE u = t
      <4>1. CASE threads[t].op = "CONNECT"
        <5>1. threads'[t].op = "CONNECT" /\ threads'[t].user = m.receiver
          BY <1>0, <1>3, <2>4, <3>1, <4>1 DEF DeleteFails, Delivering
        <5>2. QED BY <5>1 DEF InCharge
      <4>2. CASE threads[t].op # "CONNECT"
        BY <1>0, <2>4, <3>1, <4>2 DEF DeleteFails
      <4>3. QED BY <4>1, <4>2
    <3>2. CASE u # t BY <1>13, <2>4, <3>2 DEF DeleteFails
    <3>3. QED BY <3>1, <3>2
  <2>2. ASSUME NEW a, ClientListens(a) \/ ClientLeaves(a) PROVE Kept
    BY <1>14, <2>2 DEF ClientListens, ClientLeaves
  <2>5. ASSUME NEW u \in Threads, AckFails(u) PROVE Kept
    <3>1. CASE u = t BY <1>10, <2>5, <3>1
    <3>2. CASE u # t BY <1>13, <2>5, <3>2 DEF AckFails, GoesOn
    <3>3. QED BY <3>1, <3>2
  <2>6. ASSUME NEW u, NEW n, UnregisterFails(u, n) PROVE Kept
    BY <1>14, <2>6 DEF UnregisterFails
  <2>7. QED BY <1>12, <1>17, <2>1, <2>2, <2>4, <2>5, <2>6 DEF Environment
<1>18. ASSUME UNCHANGED vars PROVE Kept
  BY <1>14, <1>18 DEF vars
<1>19. QED BY <1>15, <1>16, <1>17, <1>18 DEF Next

(* The list of abandoned messages only grows, but for those of a user that *)
(* was not connected and connects.                                         *)
LEMMA AbandonedStep ==
  ASSUME TypeOK, RowsOK, [Next]_vars, NEW m \in messages,
         Connected(m.receiver), m.row \in stranded
  PROVE  m.row \in stranded'
<1>1. ASSUME stranded \subseteq stranded' PROVE m.row \in stranded'
  BY <1>1
<1>2. ASSUME NEW t \in Threads, NEW n \in Names, NEW a \in Addrs,
             Connect(t, n, a)
      PROVE  m.row \in stranded'
  <2>1. CASE UNCHANGED stranded BY <1>1, <2>1
  <2>2. CASE /\ stranded' = stranded \ RowsOf(PendingOf(n))
             /\ UserConnect(n, a[1], a[2], 0)
    <3>1. ~Connected(n) BY <2>2 DEF UserConnect
    <3>2. \A k \in PendingOf(n) : k.row # m.row
      BY <3>1 DEF PendingOf, RowsOK
    <3>3. QED BY <2>2, <3>2 DEF RowsOf
  <2>3. QED BY <1>2, <2>1, <2>2 DEF Connect
<1>3. ASSUME NEW t \in Threads, Serve(t) PROVE m.row \in stranded'
  BY <1>1, <1>3
  DEF Serve, Deliver, DrainNext, SendAdd, DisconnectUser, Lookup,
      ConnectPeer, SendPeer, Gone, Delete, Ack, history
<1>4. ASSUME NEW t \in Threads, Request(t) PROVE m.row \in stranded'
  BY <1>1, <1>2, <1>4
  DEF Request, Register, Unregister, Disconnect, SendCheck, history
<1>5. ASSUME Environment PROVE m.row \in stranded'
  BY <1>1, <1>5
  DEF Environment, CallFails, DeleteFails, AckFails, UnregisterFails,
      ClientListens, ClientLeaves, Crash, history
<1>6. ASSUME UNCHANGED vars PROVE m.row \in stranded'
  BY <1>1, <1>6 DEF vars, history
<1>7. QED BY <1>3, <1>4, <1>5, <1>6 DEF Next

(* No step leaves a message of a connected receiver without a thread. *)
LEMMA StrandedStep ==
  ASSUME Inductive, [Next]_vars
  PROVE  NoStranded'
<1>0. /\ TypeOK /\ RowsOK /\ NoStranded /\ NoOrphans
      /\ \A t \in Threads : ThreadOK(t)
  BY DEF Inductive
<1>1. SUFFICES ASSUME NEW m \in messages', Connected(m.receiver)'
               PROVE  \/ m.row \in stranded'
                      \/ \E t \in Threads : InCharge(t, m)'
  BY DEF NoStranded
<1>2. CASE m \notin messages
  <2>1. PICK t \in Threads :
          Inserts(t) /\ m = NewRow(threads[t].user, threads[t].sender)
    BY <1>2, WhereFrom
  <2>2. InCharge(t, m)'
    BY <2>1 DEF Inserts, InCharge, Delivering
  <2>3. QED BY <2>2
<1>3. CASE m \in messages /\ Connected(m.receiver)
  <2>1. CASE m.row \in stranded
    BY <1>0, <1>3, <2>1, AbandonedStep
  <2>2. ASSUME NEW t \in Threads, InCharge(t, m)
        PROVE  InCharge(t, m)' \/ m.row \in stranded'
    BY <1>0, <1>1, <1>3, <2>2, ChargeStep
  <2>3. QED BY <1>0, <1>3, <2>1, <2>2 DEF NoStranded
<1>4. CASE m \in messages /\ ~Connected(m.receiver)
  <2>1. m.receiver \in Names
    BY <1>0, <1>4 DEF TypeOK, StoreTypeOK, MsgRow
  <2>2. RowConnected(m.receiver)
    <3>1. ~RowKept(m.receiver)
      BY <1>1, <1>4 DEF RowKept, Connected, Exists
    <3>2. ~RowCounted(m.receiver)
      BY <1>1, <1>4, <2>1 DEF RowCounted, Connected
    <3>3. /\ ~RowCreated(m.receiver) /\ ~RowDisconnected(m.receiver)
          /\ ~RowRemoved(m.receiver)
      BY <1>1 DEF RowCreated, RowDisconnected, RowRemoved, Connected
    <3>4. QED BY <1>0, <2>1, <3>1, <3>2, <3>3, RowStep
  <2>3. QED BY <2>2 DEF RowConnected, InCharge
<1>5. QED BY <1>2, <1>3, <1>4

(* The loop of CONNECT reads the oldest message, and what is older than the *)
(* message it holds stays settled.                                          *)
LEMMA DrainStep ==
  ASSUME Inductive, [Next]_vars
  PROVE  DrainOK'
<1>0. /\ TypeOK /\ RowsOK /\ NoSilentLoss /\ DrainOK
      /\ \A t \in Threads : ThreadOK(t)
  BY DEF Inductive
<1>f. Frame BY <1>0, FrameStep
<1> DEFINE Holds(t) == /\ threads[t].op = "CONNECT"
                       /\ threads[t].pc \in {"lookup", "connect", "send"}
           Same(t)  == /\ threads'[t].user = threads[t].user
                       /\ threads'[t].msg = threads[t].msg
<1>1. SUFFICES ASSUME NEW t \in Threads, Holds(t)', NEW m \in sent',
                      m.receiver = threads'[t].user,
                      m.row < threads'[t].msg.row
               PROVE  Settled(m)'
  BY DEF DrainOK
<1>2. CASE Holds(t) /\ Same(t)
  <2>1. threads[t].msg \in sent BY <1>0, <1>2 DEF ThreadOK, Delivering
  <2>2. m \in sent
    <3>1. threads[t].msg.row < nextRow BY <1>0, <2>1 DEF RowsOK
    <3>2. threads[t].msg.row \in Nat /\ nextRow \in Nat
      BY <1>0, <2>1 DEF TypeOK, StoreTypeOK, MsgRow
    <3>3. ASSUME NEW u \in Threads, Inserts(u),
                 m = NewRow(threads[u].user, threads[u].sender)
          PROVE  FALSE
      <4>1. m.row = nextRow BY <3>3 DEF NewRow
      <4>2. m.row < threads[t].msg.row BY <1>1, <1>2
      <4>3. QED BY <3>1, <3>2, <4>1, <4>2
    <3>4. CASE InsertsNothing BY <3>4 DEF InsertsNothing
    <3>5. ASSUME NEW u \in Threads, Inserts(u) PROVE m \in sent
      <4>1. sent' = sent \cup {NewRow(threads[u].user, threads[u].sender)}
        BY <3>5 DEF Inserts
      <4>2. QED BY <3>3, <3>5, <4>1
    <3>6. QED BY <1>0, <3>4, <3>5, InsertStep
  <2>3. Settled(m) BY <1>0, <1>1, <1>2, <2>2 DEF DrainOK
  <2>4. QED BY <1>f, <2>3, SettledStays
<1>3. ASSUME threads'[t] = threads[t] PROVE Settled(m)'
  BY <1>1, <1>2, <1>3
<1>4. ASSUME NEW u \in Threads \ {t}, NEW st,
             Becomes(u, st) \/ GoesTo(u, st) \/ Forgets(u, st)
      PROVE  Settled(m)'
  BY <1>0, <1>3, <1>4 DEF Becomes, GoesTo, Forgets, TypeOK
<1>5. ASSUME Becomes(t, Idle) PROVE Settled(m)'
  <2>1. threads'[t].op = "NONE" BY <1>0, <1>5 DEF Becomes, Idle, TypeOK
  <2>2. QED BY <1>1, <2>1
<1>6. ASSUME NEW u \in Threads, DrainNext(u) PROVE Settled(m)'
  <2>1. CASE Becomes(u, Idle) BY <1>4, <1>5, <2>1
  <2>2. ASSUME NEW k \in PendingOf(threads[u].user), IsOldest(k),
               threads' = [threads EXCEPT ![u].pc = "lookup", ![u].msg = k]
        PROVE  Settled(m)'
    <3>1. CASE u # t BY <1>0, <1>3, <2>2, <3>1 DEF TypeOK
    <3>2. CASE u = t
      <4>1. threads'[t].msg = k /\ threads'[t].user = threads[t].user
        BY <1>0, <2>2, <3>2 DEF TypeOK, ThreadState
      <4>2. m.receiver = k.receiver /\ m.row < k.row
        BY <1>1, <2>2, <3>2, <4>1 DEF PendingOf
      <4>3. m \in sent /\ m.row \in Nat /\ k.row \in Nat
        <5>1. sent' = sent BY <1>6 DEF DrainNext, history
        <5>2. QED BY <1>0, <1>1, <2>2, <5>1
                  DEF TypeOK, StoreTypeOK, MsgRow, PendingOf
      <4>4. m \notin messages
        BY <2>2, <4>2, <4>3 DEF IsOldest, PendingOf
      <4>5. Settled(m) BY <1>0, <4>3, <4>4 DEF NoSilentLoss
      <4>6. QED BY <1>f, <4>5, SettledStays
    <3>3. QED BY <3>1, <3>2
  <2>3. QED BY <1>6, <2>1, <2>2 DEF DrainNext
<1>7. ASSUME NEW u \in Threads, SendAdd(u) PROVE Settled(m)'
  <2>1. CASE u = t
    <3>1. threads[t].op \in SendOps BY <1>0, <1>7, <2>1 DEF SendAdd, At, ThreadOK
    <3>2. CASE Becomes(t, Idle) BY <1>5, <3>2
    <3>3. ASSUME NEW k, Becomes(t, [Idle EXCEPT !.pc = "lookup", !.msg = k,
                   !.op = threads[t].op, !.user = threads[t].user])
          PROVE  Settled(m)'
      <4>1. threads'[t] = [Idle EXCEPT !.pc = "lookup", !.msg = k,
                   !.op = threads[t].op, !.user = threads[t].user]
        BY <1>0, <3>3 DEF Becomes, TypeOK
      <4>2. threads'[t].op = threads[t].op BY <4>1 DEF Idle
      <4>3. QED BY <1>1, <3>1, <4>2 DEF SendOps
    <3>4. QED BY <1>7, <2>1, <3>2, <3>3 DEF SendAdd
  <2>2. CASE u # t
    <3>1. threads'[t] = threads[t]
      BY <1>0, <1>7, <2>2 DEF SendAdd, Becomes, TypeOK
    <3>2. QED BY <1>3, <3>1
  <2>3. QED BY <2>1, <2>2
<1>8. ASSUME NEW u \in Threads, Lookup(u) PROVE Settled(m)'
  <2>1. CASE Becomes(u, Idle) BY <1>4, <1>5, <2>1
  <2>2. CASE threads' = [threads EXCEPT ![u].pc = "connect",
                            ![u].ip = users[threads[u].user].ip,
                            ![u].port = users[threads[u].user].port]
    <3>1. CASE u # t BY <1>0, <1>3, <2>2, <3>1 DEF TypeOK
    <3>2. CASE u = t
      <4>1. Same(t) /\ threads'[t].op = threads[t].op
        BY <1>0, <2>2, <3>2 DEF TypeOK, ThreadState
      <4>2. threads[t].pc = "lookup" BY <1>8, <3>2 DEF Lookup, At
      <4>3. QED BY <1>1, <1>2, <4>1, <4>2
    <3>3. QED BY <3>1, <3>2
  <2>3. QED BY <1>8, <2>1, <2>2 DEF Lookup
<1>9. ASSUME NEW u \in Threads, ConnectPeer(u) \/ SendPeer(u) \/ Delete(u)
      PROVE  Settled(m)'
  <2>1. CASE u # t
    <3>1. PICK p : GoesTo(u, p) \/ Forgets(u, p)
      BY <1>9 DEF ConnectPeer, SendPeer, Delete
    <3>2. QED BY <1>4, <2>1, <3>1
  <2>2. CASE u = t
    <3>1. PICK p \in {"send", "gone", "delete", "ack"} :
            /\ GoesTo(t, p) \/ Forgets(t, p)
            /\ p = "send" => threads[t].pc = "connect"
      BY <1>9, <2>2 DEF ConnectPeer, SendPeer, Delete, At
    <3>2. /\ Same(t) /\ threads'[t].op = threads[t].op
          /\ threads'[t].pc = p
      BY <1>0, <3>1 DEF GoesTo, Forgets, TypeOK, ThreadState
    <3>3. QED BY <1>1, <1>2, <3>1, <3>2
  <2>3. QED BY <2>1, <2>2
<1>10. ASSUME NEW u \in Threads, Ack(u) \/ AckFails(u) PROVE Settled(m)'
  <2>1. CASE u # t
    <3>1. threads'[t] = threads[t]
      BY <1>0, <1>10, <2>1 DEF Ack, AckFails, GoesOn, Becomes, TypeOK
    <3>2. QED BY <1>3, <3>1
  <2>2. CASE u = t
    <3> DEFINE again == [Idle EXCEPT !.pc = "next", !.op = "CONNECT",
                                     !.user = threads[t].user]
    <3>1. CASE Becomes(t, Idle) BY <1>5, <3>1
    <3>2. CASE Becomes(t, again)
      <4>1. threads'[t] = again BY <1>0, <3>2 DEF Becomes, TypeOK
      <4>2. threads'[t].pc = "next" BY <4>1 DEF Idle
      <4>3. QED BY <1>1, <4>2
    <3>3. QED BY <1>10, <2>2, <3>1, <3>2 DEF Ack, AckFails, GoesOn
  <2>3. QED BY <2>1, <2>2
<1>11. ASSUME NEW u \in Threads, Gone(u) \/ DisconnectUser(u) \/ CallFails(u)
       PROVE  Settled(m)'
  BY <1>4, <1>5, <1>11 DEF Gone, DisconnectUser, CallFails
<1>12. ASSUME NEW u \in Threads, Serve(u) PROVE Settled(m)'
  BY <1>6, <1>7, <1>8, <1>9, <1>10, <1>11, <1>12 DEF Serve, Deliver
<1>13. ASSUME NEW u \in Threads, Request(u) PROVE Settled(m)'
  <2>1. CASE UNCHANGED threads BY <1>3, <2>1
  <2>2. ASSUME NEW st, Becomes(u, st), st.pc \in {"next", "add", "disconnect"}
        PROVE  Settled(m)'
    <3>1. CASE u # t BY <1>4, <2>2, <3>1
    <3>2. CASE u = t
      <4>1. threads'[t].pc = st.pc BY <1>0, <2>2, <3>2 DEF Becomes, TypeOK
      <4>2. QED BY <1>1, <2>2, <4>1
    <3>3. QED BY <3>1, <3>2
  <2>3. QED BY <1>13, <2>1, <2>2
            DEF Request, Register, Unregister, Connect, Disconnect, SendCheck,
                Idle
<1>14. ASSUME Environment PROVE Settled(m)'
  <2>1. CASE Crash
    <3>1. threads'[t].op = "NONE" BY <2>1 DEF Crash, Idle
    <3>2. QED BY <1>1, <3>1
  <2>2. ASSUME NEW a, ClientListens(a) \/ ClientLeaves(a) PROVE Settled(m)'
    BY <1>3, <2>2 DEF ClientListens, ClientLeaves
  <2>3. ASSUME NEW u \in Threads, DeleteFails(u) PROVE Settled(m)'
    <3>1. CASE u # t BY <1>4, <2>3, <3>1 DEF DeleteFails
    <3>2. CASE u = t
      <4>1. threads'[t].pc = "ack"
        BY <1>0, <2>3, <3>2 DEF DeleteFails, GoesTo, TypeOK, ThreadState
      <4>2. QED BY <1>1, <4>1
    <3>3. QED BY <3>1, <3>2
  <2>4. ASSUME NEW u, NEW n, UnregisterFails(u, n) PROVE Settled(m)'
    BY <1>3, <2>4 DEF UnregisterFails
  <2>5. QED BY <1>10, <1>11, <1>14, <2>1, <2>2, <2>3, <2>4 DEF Environment
<1>15. ASSUME UNCHANGED vars PROVE Settled(m)'
  BY <1>3, <1>15 DEF vars
<1>16. QED BY <1>12, <1>13, <1>14, <1>15 DEF Next

(* A sender is not told OK about a message that is still in the table. *)
LEMMA AckedStep ==
  ASSUME Inductive, [Next]_vars
  PROVE  AckedIsSettled'
<1>0. /\ TypeOK /\ RowsOK /\ AckedIsSettled
      /\ \A t \in Threads : ThreadOK(t)
  BY DEF Inductive
<1>f. Frame BY <1>0, FrameStep
<1>1. ASSUME UNCHANGED acked PROVE AckedIsSettled'
  <2>1. acked' \subseteq handed'
    BY <1>0, <1>f, <1>1 DEF AckedIsSettled, Frame
  <2>2. ASSUME NEW m \in messages', m \notin messages PROVE m.row \notin acked
    <3>1. m.row = nextRow BY <2>2, WhereFrom DEF NewRow
    <3>2. \A r \in RowsOf(sent) : r \in Nat /\ r < nextRow
      BY <1>0 DEF RowsOf, RowsOK, TypeOK, MsgRow
    <3>3. nextRow \in Nat BY <1>0 DEF TypeOK, StoreTypeOK
    <3>4. QED BY <1>0, <3>1, <3>2, <3>3 DEF AckedIsSettled, RowsOK
  <2>3. QED BY <1>0, <1>f, <1>1, <2>1, <2>2 DEF AckedIsSettled, Frame
<1>2. ASSUME NEW t \in Threads, Ack(t) PROVE AckedIsSettled'
  <2> DEFINE m == threads[t].msg
  <2>1. /\ m \in sent /\ m.row \in handed
        /\ m \notin messages \/ m.row \in undeleted
    BY <1>0, <1>2 DEF Ack, At, ThreadOK, Delivering
  <2>2. \A k \in messages : k.row = m.row => k.row \in undeleted
    BY <1>0, <2>1 DEF RowsOK
  <2>3. messages' = messages /\ handed' = handed /\ undeleted' = undeleted
    BY <1>2 DEF Ack, store
  <2>4. acked' \subseteq acked \cup {m.row} BY <1>2 DEF Ack
  <2>5. QED BY <1>0, <2>1, <2>2, <2>3, <2>4 DEF AckedIsSettled
<1>3. ASSUME NEW t \in Threads, Serve(t) PROVE AckedIsSettled'
  BY <1>1, <1>2, <1>3
  DEF Serve, Deliver, DrainNext, SendAdd, DisconnectUser, Lookup,
      ConnectPeer, SendPeer, Gone, Delete, history
<1>4. ASSUME NEW t \in Threads, Request(t) PROVE AckedIsSettled'
  BY <1>1, <1>4
  DEF Request, Register, Unregister, Connect, Disconnect, SendCheck, history
<1>5. ASSUME Environment PROVE AckedIsSettled'
  BY <1>1, <1>5
  DEF Environment, CallFails, DeleteFails, AckFails, UnregisterFails,
      ClientListens, ClientLeaves, Crash, history
<1>6. ASSUME UNCHANGED vars PROVE AckedIsSettled'
  BY <1>1, <1>6 DEF vars, history
<1>7. QED BY <1>3, <1>4, <1>5, <1>6 DEF Next

(* Counters count, and wrap only after MaxId insertions and faults. *)
LEMMA CountersStep ==
  ASSUME Inductive, [Next]_vars
  PROVE  CountersOK'
<1> DEFINE bound == nextRow + faults
<1>0. /\ TypeOK /\ RowsOK /\ NoOrphans /\ CountersOK
      /\ \A t \in Threads : ThreadOK(t)
  BY DEF Inductive
<1>f. orphaned \subseteq orphaned' BY <1>0, FrameStep DEF Frame
<1>1. /\ bound \in Nat \ {0} /\ bound' \in Nat /\ bound =< bound'
      /\ MaxId \in Nat \ {0}
  BY <1>0, BoundStep, MaxIdAssumption
<1>k. ASSUME NEW n \in Names, RowCounted(n) PROVE bound' = bound + 1
  BY <1>k DEF RowCounted
<1>2. ASSUME NEW n \in Names, Exists(n)
      PROVE  /\ users[n].msg_counter \in 0..MaxId
             /\ users[n].msg_counter < bound
  BY <1>0, <1>2, ExistingRow DEF TypeOK, UserRow, CountersOK
<1>c. (bound =< MaxId + 1) =>
        \A m \in messages :
          m.row \in orphaned \/ m.id =< users[m.receiver].msg_counter
  BY <1>0 DEF CountersOK
<1>g. ASSUME (\A n \in Names : Exists(n)' => users'[n].msg_counter < bound'),
             bound' =< MaxId + 1 =>
               \A m \in messages' :
                 m.row \in orphaned' \/ m.id =< users'[m.receiver].msg_counter
      PROVE  CountersOK'
  BY <1>g DEF CountersOK
<1> HIDE DEF bound
<1>3. ASSUME NEW n \in Names, Exists(n)'
      PROVE  users'[n].msg_counter < bound'
  <2>1. CASE RowKept(n)
    <3>1. Exists(n) BY <1>3, <2>1 DEF RowKept, Exists
    <3>2. QED BY <1>1, <1>2, <2>1, <3>1 DEF RowKept
  <2>2. CASE RowCreated(n) BY <1>1, <2>2 DEF RowCreated
  <2>3. CASE RowConnected(n) \/ RowDisconnected(n)
    BY <1>1, <1>2, <2>3 DEF RowConnected, RowDisconnected
  <2>4. CASE RowCounted(n)
    BY <1>1, <1>2, <1>k, <2>4 DEF RowCounted, NextId
  <2>5. QED BY <1>0, <1>3, <2>1, <2>2, <2>3, <2>4, RowStep DEF RowRemoved
<1>4. ASSUME bound' =< MaxId + 1, NEW m \in messages', m.row \notin orphaned'
      PROVE  m.id =< users'[m.receiver].msg_counter
  <2>1. CASE m \in messages
    <3> DEFINE n == m.receiver
    <3>1. /\ n \in Names /\ Exists(n) /\ m.id \in 1..MaxId
      BY <1>0, <1>f, <1>4, <2>1 DEF TypeOK, StoreTypeOK, MsgRow, NoOrphans
    <3>i. m.id =< users[n].msg_counter
      <4>1. bound =< MaxId + 1 BY <1>1, <1>4
      <4>2. QED BY <1>c, <1>f, <1>4, <2>1, <4>1
    <3>2. ~RowCreated(n) /\ ~RowRemoved(n)
      BY <1>4, <3>1 DEF RowCreated, RowRemoved
    <3>3. CASE RowKept(n) BY <3>i, <3>3 DEF RowKept
    <3>4. CASE RowConnected(n) \/ RowDisconnected(n)
      BY <3>i, <3>4 DEF RowConnected, RowDisconnected
    <3>5. CASE RowCounted(n)
      <4>1. /\ users[n].msg_counter \in 0..MaxId
            /\ users[n].msg_counter < bound /\ bound' = bound + 1
        BY <1>2, <1>k, <3>1, <3>5
      <4>2. users[n].msg_counter < MaxId BY <1>1, <1>4, <4>1
      <4>3. users'[n].msg_counter = users[n].msg_counter + 1
        BY <1>1, <3>5, <4>1, <4>2 DEF RowCounted, NextId
      <4>4. QED BY <3>1, <3>i, <4>1, <4>3
    <3>6. QED BY <1>0, <3>1, <3>2, <3>3, <3>4, <3>5, RowStep
  <2>2. CASE m \notin messages
    <3>1. PICK t \in Threads :
            Inserts(t) /\ m = NewRow(threads[t].user, threads[t].sender)
      BY <2>2, WhereFrom
    <3> DEFINE r == threads[t].user
    <3>2. m.receiver = r /\ m \in MsgRow BY <3>1 DEF Inserts, NewRow
    <3>3. r \in Names /\ Exists(r) BY <3>1 DEF Inserts
    <3>4. users[r] \in UserRow BY <1>0, <3>3, ExistingRow DEF TypeOK
    <3>5. users'[r] = [users[r] EXCEPT !.msg_counter = m.id]
      BY <1>0, <3>1, <3>3 DEF Inserts, TypeOK, StoreTypeOK
    <3>6. users'[r].msg_counter = m.id BY <3>4, <3>5 DEF UserRow
    <3>7. m.id \in Nat BY <1>1, <3>2 DEF MsgRow
    <3>8. QED BY <3>2, <3>6, <3>7
  <2>3. QED BY <2>1, <2>2
<1>5. QED BY <1>3, <1>4, <1>g

(* A new identifier is larger than those that wait, but for those a failed *)
(* user_remove left behind, until the counter wraps.                       *)
LEMMA UniqueStep ==
  ASSUME Inductive, [Next]_vars
  PROVE  UniquePendingIds'
<1>0. /\ TypeOK /\ NoOrphans /\ CountersOK /\ UniquePendingIds /\ RowsOK
      /\ \A t \in Threads : ThreadOK(t)
  BY DEF Inductive
<1>f. orphaned \subseteq orphaned' BY <1>0, FrameStep DEF Frame
<1>1. MaxId \in Nat \ {0} BY MaxIdAssumption
<1>b. /\ nextRow \in Nat \ {0} /\ faults \in Nat
      /\ nextRow' \in Nat /\ faults' \in Nat
      /\ nextRow + faults =< nextRow' + faults'
  BY <1>0, BoundStep
<1> DEFINE bound == nextRow + faults
<1>a. bound \in Nat /\ bound' \in Nat /\ bound =< bound'
  BY <1>0, BoundStep
<1> HIDE DEF bound
<1>2. SUFFICES ASSUME nextRow' + faults' =< MaxId + 1,
                      NEW k \in messages', NEW j \in messages',
                      k.row \notin orphaned', j.row \notin orphaned'
               PROVE  ~SharesId(k, j)
  BY DEF UniquePendingIds, SharesId
<1>3. nextRow + faults =< MaxId + 1
  <2>1. bound' =< MaxId + 1 BY <1>2 DEF bound
  <2>2. bound =< MaxId + 1 BY <1>1, <1>a, <2>1
  <2>3. QED BY <2>2 DEF bound
<1>4. \A x, y \in messages :
        x.row \notin orphaned /\ y.row \notin orphaned => ~SharesId(x, y)
  BY <1>0, <1>3 DEF UniquePendingIds
<1>5. CASE InsertsNothing BY <1>2, <1>4, <1>5, <1>f DEF InsertsNothing
<1>6. ASSUME NEW t \in Threads, Inserts(t) PROVE ~SharesId(k, j)
  <2> DEFINE r == threads[t].user
             m == NewRow(r, threads[t].sender)
  <2>1. /\ r \in Names /\ Exists(r) /\ nextRow' = nextRow + 1
        /\ faults' = faults /\ messages' = messages \cup {m}
        /\ m.id = NextId(users[r].msg_counter) /\ m.receiver = r
    BY <1>6 DEF Inserts, NewRow
  <2>2. /\ users[r].msg_counter \in 0..MaxId
        /\ users[r].msg_counter < nextRow + faults
    BY <1>0, <2>1, ExistingRow DEF TypeOK, UserRow, CountersOK
  <2>3. users[r].msg_counter < MaxId BY <1>1, <1>b, <1>2, <2>1, <2>2
  <2>4. m.id = users[r].msg_counter + 1 BY <1>1, <2>1, <2>2, <2>3 DEF NextId
  <2>5. ASSUME NEW x \in messages, x.receiver = r, x.row \notin orphaned
        PROVE  x.id # m.id
    <3>1. x.id =< users[r].msg_counter BY <1>0, <1>3, <2>5 DEF CountersOK
    <3>2. x.id \in Nat BY <1>0, <1>1 DEF TypeOK, StoreTypeOK, MsgRow
    <3>3. QED BY <2>2, <2>4, <3>1, <3>2
  <2>6. k.row \notin orphaned /\ j.row \notin orphaned BY <1>2, <1>f
  <2>7. CASE k \in messages /\ j \in messages BY <1>4, <2>6, <2>7
  <2>8. CASE k = m /\ j \in messages BY <2>1, <2>5, <2>6, <2>8 DEF SharesId
  <2>9. CASE k \in messages /\ j = m BY <2>1, <2>5, <2>6, <2>9 DEF SharesId
  <2>10. CASE k = m /\ j = m BY <2>10 DEF SharesId
  <2>11. QED BY <1>2, <2>1, <2>7, <2>8, <2>9, <2>10
<1>7. QED BY <1>0, <1>5, <1>6, InsertStep

-----------------------------------------------------------------------------
(* The invariant. *)

(* Before any request there is nothing to keep. *)
LEMMA InductiveInit == Init => Inductive
<1> SUFFICES ASSUME Init PROVE Inductive
  OBVIOUS
<1>1. TypeOK
  <2>1. StoreTypeOK BY DEF Init, StoreInit, StoreTypeOK
  <2>2. QED BY <2>1, IdleType DEF Init, TypeOK
<1>2. \A t \in Threads : ThreadOK(t)
  BY DEF Init, ThreadOK, Idle, Delivering
<1>3. messages = {} /\ sent = {} /\ handed = {} /\ acked = {}
      /\ \A n \in Names : ~Exists(n)
  BY DEF Init, StoreInit, Exists
<1>4. DrainOK BY DEF Init, DrainOK, Idle
<1>5. QED BY <1>1, <1>2, <1>3, <1>4
          DEF Inductive, RowsOK, NoOrphans, NoSilentLoss, NoStranded,
              AckedIsSettled, CountersOK, UniquePendingIds

(* Every step of a handler or of the environment preserves the inductive *)
(* invariant.                                                            *)
LEMMA InductiveStep == Inductive /\ [Next]_vars => Inductive'
<1> SUFFICES ASSUME Inductive, [Next]_vars PROVE Inductive'
  OBVIOUS
<1>0. TypeOK /\ RowsOK /\ (\A t \in Threads : ThreadOK(t)) BY DEF Inductive
<1>1. TypeOK' BY <1>0, TypeStep
<1>2. \A t \in Threads : ThreadOK(t)' BY <1>0, ThreadStep
<1>3. QED BY <1>1, <1>2, RowsStep, OrphansStep, SilentLossStep, StrandedStep,
             DrainStep, AckedStep, CountersStep, UniqueStep DEF Inductive

(* The inductive invariant holds in every behaviour of the server. *)
THEOREM InductiveHolds == Spec => []Inductive
BY InductiveInit, InductiveStep, PTL DEF Spec

(* Every variable of the server, and of every thread, keeps its type. *)
THEOREM TypeCorrect == Spec => []TypeOK
<1>1. Inductive => TypeOK BY DEF Inductive
<1>2. QED BY <1>1, InductiveHolds, PTL

(* Every message that SEND stored is in the table, or handed over, or was  *)
(* deleted by an UNREGISTER of its receiver or in the place of a handed    *)
(* message, whatever fails or dies half-way.                               *)
THEOREM NothingVanishes == Spec => []NoSilentLoss
<1>1. Inductive => NoSilentLoss BY DEF Inductive
<1>2. QED BY <1>1, InductiveHolds, PTL

(* Every message that waits for a connected receiver has a thread that will *)
(* deliver it, unless a crash or a failed call abandoned it.                *)
THEOREM NobodyIsStranded == Spec => []NoStranded
<1>1. Inductive => NoStranded BY DEF Inductive
<1>2. QED BY <1>1, InductiveHolds, PTL

(* No stored message belongs to a user that does not exist, but for those *)
(* of a user_remove whose first DELETE failed.                            *)
THEOREM NobodyIsOrphaned == Spec => []NoOrphans
<1>1. Inductive => NoOrphans BY DEF Inductive
<1>2. QED BY <1>1, InductiveHolds, PTL

(* The loop of CONNECT delivers the oldest message first. *)
THEOREM DrainsInOrder == Spec => []DrainInOrder
<1>1. Inductive => DrainInOrder BY DEF Inductive, DrainOK, DrainInOrder, At
<1>2. QED BY <1>1, InductiveHolds, PTL

(* A message whose sender was told OK was handed over and is not in the *)
(* table.                                                               *)
THEOREM AcksAreTrue == Spec => []AckedIsSettled
<1>1. Inductive => AckedIsSettled BY DEF Inductive
<1>2. QED BY <1>1, InductiveHolds, PTL

(* Until MaxId messages have been sent, those a fault cut short included,  *)
(* the messages that wait for one receiver have different identifiers, but *)
(* for those a failed user_remove left behind.                             *)
THEOREM IdsAreUnique == Spec => []UniquePendingIds
<1>1. Inductive => UniquePendingIds BY DEF Inductive
<1>2. QED BY <1>1, InductiveHolds, PTL
-----------------------------------------------------------------------------
(* The server is a Mailbox. *)

(* An empty data base is an empty mailbox. *)
LEMMA MailStarts == Init => Mail!MailInit
BY DEF Init, StoreInit, Mail!MailInit

(* A step that leaves the messages and their history alone. *)
LEMMA MailStutters ==
  ASSUME UNCHANGED <<messages, sent, handed, dropped, acked>>
  PROVE  UNCHANGED Mail!mail
BY DEF Mail!mail

(* What msg_add inserts has a row number of its own. *)
LEMMA MailAccepts ==
  ASSUME Inductive, NEW t \in Threads, SendAdd(t)
  PROVE  Mail!Accept \/ UNCHANGED Mail!mail
<1> DEFINE m == NewRow(threads[t].user, threads[t].sender)
<1>0. /\ UNCHANGED <<handed, dropped, acked>>
      /\ \E rc \in 0..MaxId :
           /\ MsgAdd(threads[t].user, threads[t].sender, rc)
           /\ IF rc = 0 THEN sent' = sent ELSE sent' = sent \cup {m}
  BY DEF SendAdd
<1>1. CASE sent' = sent /\ messages' = messages
  BY <1>0, <1>1, MailStutters
<1>2. CASE sent' = sent \cup {m} /\ messages' = messages \cup {m}
  <2>1. nextRow \in Nat /\ \A k \in sent : k.row < nextRow
    BY DEF Inductive, TypeOK, StoreTypeOK, RowsOK
  <2>2. m.row = nextRow BY DEF NewRow
  <2>3. (\A k \in sent : k.row # m.row) /\ m \in sent' \ sent
    BY <1>2, <2>1, <2>2
  <2>4. QED BY <1>0, <1>2, <2>3 DEF Mail!Accept
<1>3. QED BY <1>0, <1>1, <1>2 DEF MsgAdd, store

(* A row leaves the table in its own place, or in that of a handed one. *)
LEMMA MailRemoves ==
  ASSUME Inductive, NEW t \in Threads, Delete(t)
  PROVE  Mail!Remove
<1> DEFINE k == threads[t].msg
<1>1. k \in sent /\ k.row \in handed /\ threads[t].user = k.receiver
  BY DEF Inductive, ThreadOK, Delete, At, Delivering
<1>2. /\ messages' = {m \in messages : ~(m.receiver = k.receiver /\ m.id = k.id)}
      /\ UNCHANGED <<sent, handed, dropped, acked>>
  BY <1>1 DEF Delete, MsgDelete, history
<1>3. \A m \in messages \ messages' : Mail!MayGo(m)
  BY <1>1, <1>2 DEF Mail!MayGo
<1>4. QED BY <1>2, <1>3 DEF Mail!Remove

(* user_remove, complete or not, takes the messages of the user or none. *)
LEMMA MailDrops ==
  ASSUME NEW n \in Names, UNCHANGED <<sent, handed, acked>>,
         messages' = messages \ PendingOf(n),
         dropped' = dropped \cup RowsOf(PendingOf(n))
  PROVE  Mail!Drop(n)
<1>1. messages' = {m \in messages : m.receiver # n} BY DEF PendingOf
<1>2. messages \ messages' = PendingOf(n) BY DEF PendingOf
<1>3. QED BY <1>1, <1>2 DEF Mail!Drop, RowsOf

(* Only a stored message is sent to the receiver, and only a sent one is *)
(* acknowledged.                                                         *)
LEMMA MailHandsAndConfirms ==
  ASSUME Inductive, NEW t \in Threads, SendPeer(t) \/ Ack(t)
  PROVE  Mail!Hand \/ Mail!Confirm \/ UNCHANGED Mail!mail
<1>1. CASE SendPeer(t)
  <2>1. threads[t].msg \in sent
    BY <1>1 DEF Inductive, ThreadOK, SendPeer, At, Delivering
  <2>2. /\ UNCHANGED <<messages, sent, dropped, acked>>
        /\ handed' = handed \cup {threads[t].msg.row} \/ handed' = handed
    BY <1>1 DEF SendPeer, store
  <2>3. QED BY <2>1, <2>2, MailStutters DEF Mail!Hand
<1>2. CASE Ack(t)
  <2>1. threads[t].msg.row \in handed
    BY <1>2 DEF Inductive, ThreadOK, Ack, At
  <2>2. /\ UNCHANGED <<messages, sent, handed, dropped>>
        /\ acked' = acked \cup {threads[t].msg.row} \/ acked' = acked
    BY <1>2 DEF Ack, store
  <2>3. QED BY <2>1, <2>2, MailStutters DEF Mail!Confirm
<1>3. QED BY <1>1, <1>2

(* Every step of the server is a step of the mailbox or leaves it alone. *)
LEMMA MailSteps ==
  ASSUME Inductive, [Next]_vars
  PROVE  [Mail!MailNext]_(Mail!mail)
<1> DEFINE Still == UNCHANGED Mail!mail
<1>1. ASSUME NEW t \in Threads, Serve(t)
      PROVE  Mail!MailNext \/ Still
  <2>1. CASE DrainNext(t)
    BY <2>1, MailStutters DEF DrainNext, store, history
  <2>2. CASE DisconnectUser(t)
    BY <2>2, MailStutters DEF DisconnectUser, UserDisconnect, history
  <2>3. CASE Lookup(t) BY <2>3, MailStutters DEF Lookup, store, history
  <2>4. CASE ConnectPeer(t)
    BY <2>4, MailStutters DEF ConnectPeer, store, history
  <2>5. CASE Gone(t) BY <2>5, MailStutters DEF Gone, UserDisconnect, history
  <2>6. CASE SendAdd(t) BY <2>6, MailAccepts DEF Mail!MailNext
  <2>7. CASE Delete(t) BY <2>7, MailRemoves DEF Mail!MailNext
  <2>8. CASE SendPeer(t) \/ Ack(t)
    BY <2>8, MailHandsAndConfirms DEF Mail!MailNext
  <2>9. QED BY <1>1, <2>1, <2>2, <2>3, <2>4, <2>5, <2>6, <2>7, <2>8
            DEF Serve, Deliver
<1>2. ASSUME NEW t \in Threads, Request(t)
      PROVE  Mail!MailNext \/ Still
  <2>1. ASSUME NEW n \in Names, Register(t, n) PROVE Still
    BY <2>1, MailStutters DEF Register, UserAdd, history
  <2>2. ASSUME NEW n \in Names, Unregister(t, n)
        PROVE  Mail!MailNext \/ Still
    <3>1. UNCHANGED <<sent, handed, acked>> BY <2>2 DEF Unregister
    <3>2. CASE UNCHANGED <<messages, dropped>> BY <3>1, <3>2, MailStutters
    <3>3. CASE /\ messages' = messages \ PendingOf(n)
               /\ dropped' = dropped \cup RowsOf(PendingOf(n))
      BY <3>1, <3>3, MailDrops DEF Mail!MailNext
    <3>4. QED BY <2>2, <3>2, <3>3 DEF Unregister, UserRemove
  <2>3. ASSUME NEW n \in Names, NEW a \in Addrs, Connect(t, n, a) PROVE Still
    BY <2>3, MailStutters DEF Connect, UserConnect
  <2>4. ASSUME NEW n, NEW ip, Disconnect(t, n, ip) PROVE Still
    BY <2>4, MailStutters DEF Disconnect, store, history
  <2>5. ASSUME NEW n, NEW s, NEW op, SendCheck(t, op, s, n) PROVE Still
    BY <2>5, MailStutters DEF SendCheck, store, history
  <2>6. QED BY <1>2, <2>1, <2>2, <2>3, <2>4, <2>5 DEF Request
<1>3. ASSUME Environment PROVE Mail!MailNext \/ Still
  <2>1. ASSUME NEW t, DeleteFails(t) \/ AckFails(t) PROVE Still
    BY <2>1, MailStutters DEF DeleteFails, AckFails, store, history
  <2>2. ASSUME NEW a, ClientListens(a) \/ ClientLeaves(a) PROVE Still
    BY <2>2, MailStutters DEF ClientListens, ClientLeaves, store, history
  <2>3. ASSUME NEW t \in Threads, CallFails(t) PROVE Still
    <3>1. UNCHANGED messages
      BY <2>3, CallFailsStore DEF Inductive, SkippedId, store
    <3>2. QED BY <2>3, <3>1, MailStutters DEF CallFails
  <2>4. ASSUME Crash PROVE Mail!MailNext \/ Still
    <3>1. UNCHANGED <<sent, handed, acked>> BY <2>4 DEF Crash
    <3>2. CASE UNCHANGED <<messages, dropped>> BY <3>1, <3>2, MailStutters
    <3>3. ASSUME NEW n \in Names, RemoveMessages(n),
                 dropped' = dropped \cup RowsOf(PendingOf(n))
          PROVE  Mail!MailNext
      BY <3>1, <3>3, MailDrops DEF Mail!MailNext, RemoveMessages
    <3>4. QED BY <2>4, <3>2, <3>3, CrashStore DEF Inductive, SkippedId, store
  <2>5. ASSUME NEW t \in Threads, NEW n \in Names, UnregisterFails(t, n)
        PROVE  Mail!MailNext \/ Still
    <3>1. UNCHANGED <<sent, handed, acked>> BY <2>5 DEF UnregisterFails
    <3>2. CASE UNCHANGED <<messages, dropped>> BY <3>1, <3>2, MailStutters
    <3>3. CASE /\ messages' = messages \ PendingOf(n)
               /\ dropped' = dropped \cup RowsOf(PendingOf(n))
      BY <3>1, <3>3, MailDrops DEF Mail!MailNext
    <3>4. QED BY <2>5, <3>2, <3>3
              DEF UnregisterFails, RemoveMessages, RemoveUser
  <2>6. QED BY <1>3, <2>1, <2>2, <2>3, <2>4, <2>5 DEF Environment
<1>4. ASSUME UNCHANGED vars PROVE Still
  BY <1>4, MailStutters DEF vars, store, history
<1>5. QED BY <1>1, <1>2, <1>3, <1>4 DEF Next

(* The server implements Mailbox: at least once, or an UNREGISTER of the    *)
(* receiver, with receipts only for what was handed over, whatever crashes  *)
(* and fails, in the middle of a function of users.c included.              *)
THEOREM ServerIsMailbox == Spec => MailboxIsKept
BY MailStarts, MailSteps, InductiveHolds, PTL
DEF Spec, MailboxIsKept, Mail!MailSpec
=============================================================================
