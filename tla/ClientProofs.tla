----------------------------- MODULE ClientProofs -----------------------------
(***************************************************************************)
(* The promises of Client hold for every set of users, machines and ports, *)
(* every other process and every bound on faults.                          *)
(***************************************************************************)
EXTENDS Client, UserStoreProofs

ConsoleState ==
  [pc: Disconnecting \cup {"prompt", "send", "exited", "broken"},
   name: Names \cup {NoName}, rc: 0..3, quit: BOOLEAN]
ListenerState ==
  [pc: Live \cup {"none", "dead"}, name: Names \cup {NoName},
   port: OwnPorts \cup {0}, rc: 0..2]

(* A thread that changes places keeps its local variables. *)
LEMMA ConsoleMoves ==
  ASSUME console \in ConsoleState, NEW place, Console(place),
         place \in Disconnecting \cup {"prompt", "send", "exited", "broken"}
  PROVE  /\ console' \in ConsoleState
         /\ console'.pc = place /\ console'.name = console.name
         /\ console'.rc = console.rc /\ console'.quit = console.quit
BY DEF ConsoleState, Console

(* So for the listening thread. *)
LEMMA ListenerMoves ==
  ASSUME listener \in ListenerState, NEW place, Listener(place),
         place \in Live \cup {"none", "dead"}
  PROVE  /\ listener' \in ListenerState
         /\ listener'.pc = place /\ listener'.name = listener.name
         /\ listener'.port = listener.port /\ listener'.rc = listener.rc
BY DEF ListenerState, Listener

(* The states in which a thread starts and ends. *)
LEMMA ConsoleStarts ==
  /\ Prompt \in ConsoleState
  /\ [Prompt EXCEPT !.pc = "exited"] \in ConsoleState
  /\ [Prompt EXCEPT !.pc = "broken"] \in ConsoleState
  /\ \A n \in Names, q \in BOOLEAN :
       [Prompt EXCEPT !.pc = "asked", !.name = n, !.quit = q] \in ConsoleState
<1>1. Prompt \in ConsoleState BY DEF Prompt, ConsoleState
<1>2. QED BY <1>1 DEF ConsoleState, Disconnecting

(* So for the listening thread: before and after its life. *)
LEMMA ListenerStarts ==
  /\ NoThread \in ListenerState
  /\ [NoThread EXCEPT !.pc = "tail1"] \in ListenerState
  /\ [NoThread EXCEPT !.pc = "dead"] \in ListenerState
  /\ \A n \in Names :
       [NoThread EXCEPT !.pc = "start", !.name = n] \in ListenerState
<1>1. NoThread \in ListenerState BY DEF NoThread, ListenerState
<1>2. QED BY <1>1 DEF ListenerState, Live

(* The test of the loop leads into accept() or out of the loop. *)
LEMMA TestMoves ==
  ASSUME listener \in ListenerState, LoopTest PROVE listener' \in ListenerState
BY ListenerStarts DEF LoopTest, ListenerState, Live

(* What the steps of the two threads keep, in one definition. *)
Promises ==
  /\ PlacesOK /\ UserOK /\ StopOK /\ SessionOK
  /\ OneListener /\ NoGhostSession /\ SenderIsKnown
  /\ console.pc = "done" /\ console.rc = 0 => ~lt

(* The listening thread, from the request of CONNECT to the last of its     *)
(* assignments; the step that makes the session is ServeConnect.            *)
LEMMA ListenerStepKeeps ==
  ASSUME ClientInductive, UNCHANGED users,
         \/ \E p \in OwnPorts : Ask(p)
         \/ Answered \/ Bind \/ Stop \/ Tail \/ Hold \/ Release
  PROVE  Promises'
<1> USE DEF ClientInductive, Promises, PlacesOK, UserOK, StopOK, SessionOK,
            OneListener, NoGhostSession, SenderIsKnown, Excused, Stopping, Live,
            Own, Ours, Connected, AddrOf, Exists
<1>0. listener \in ListenerState /\ console \in ConsoleState
   BY DEF ClientTypeOK, ConsoleState, ListenerState
<1>1. CASE Answered
  BY <1>0, <1>1, ListenerMoves DEF Answered, NoThread
<1>2. CASE Bind \/ Stop \/ Release
  <2>1. /\ listener.pc \in {"bind", "loop", "held"} /\ LoopTest
        /\ UNCHANGED <<users, console, cu, lt, terminate, late, mishaps>>
    BY <1>2 DEF Bind, Stop, Release, fields
  <2>2. CASE terminate
    <3>1. terminate /\ listener'.pc = "tail1" /\ listener'.rc = 0
      BY <2>1, <2>2 DEF LoopTest, NoThread
    <3>2. NoGhostSession' BY <2>1, <3>1
    <3>3. (\A n \in Names : Own(n)') <=> \A n \in Names : Own(n) BY <2>1
    <3>4. StopOK' BY <2>1, <3>1, <3>3
    <3>5. QED BY <2>1, <3>1, <3>2, <3>4
  <2>3. CASE ~terminate
    <3>1. /\ listener'.pc = "loop" /\ listener'.name = listener.name
          /\ listener'.port = listener.port /\ listener'.rc = listener.rc
      BY <1>0, <2>1, <2>3 DEF LoopTest, ListenerState
    <3>2. QED BY <2>1, <2>3, <3>1
  <2>4. QED BY <2>2, <2>3
<1>3. CASE Hold
  BY <1>0, <1>3, ListenerMoves DEF Hold, fields
<1>4. CASE Tail
  BY <1>0, <1>4, ListenerMoves DEF Tail, fields, NoThread
<1>5. ASSUME NEW p \in OwnPorts, Ask(p) PROVE Promises'
  BY <1>0, <1>5 DEF Ask, fields, ListenerState
<1>6. QED BY <1>1, <1>2, <1>3, <1>4, <1>5

(* DISCONNECT at the console, after its answer, and the end of SEND. *)
LEMMA ConsoleStepKeeps ==
  ASSUME ClientInductive,
         Told \/ Forget \/ Test \/ Join \/ Joined \/ Clear \/ Done \/ SendMessage
  PROVE  Promises'
<1> USE DEF ClientInductive, Promises, PlacesOK, UserOK, StopOK, SessionOK,
            OneListener, NoGhostSession, SenderIsKnown, Excused, Stopping, Live,
            Own, Ours, Connected, AddrOf, Exists
<1>0. listener \in ListenerState /\ console \in ConsoleState
   BY DEF ClientTypeOK, ConsoleState, ListenerState
<1>place. \A x \in {"prompt", "forget", "done", "test", "join", "joining",
                  "broken", "clear", "send", "exited"} :
            x \in Disconnecting \cup {"prompt", "send", "exited", "broken"}
   BY DEF Disconnecting
<1>1. CASE Told
  BY <1>0, <1>place, <1>1, ConsoleMoves DEF Told, store
<1>2. CASE Forget
  BY <1>0, <1>place, <1>2, ConsoleMoves DEF Forget, store
<1>3. CASE Test
  BY <1>0, <1>place, <1>3, ConsoleMoves DEF Test, store, fields
<1>4. CASE Join
  BY <1>0, <1>place, <1>4, ConsoleMoves DEF Join, store, fields
<1>5. CASE Joined
  BY <1>0, <1>place, <1>5, ConsoleMoves DEF Joined, store, fields
<1>6. CASE Clear
  BY <1>0, <1>place, <1>6, ConsoleMoves DEF Clear, store
<1>7. CASE Done
  BY <1>0, <1>place, <1>7 DEF Done, store, fields, Prompt
<1>8. CASE SendMessage
  BY <1>0, <1>place, <1>8, ConsoleMoves DEF SendMessage, store, fields
<1>9. QED BY <1>1, <1>2, <1>3, <1>4, <1>5, <1>6, <1>7, <1>8

(* A command typed at the prompt, and the process started again. *)
LEMMA CommandKeeps ==
  ASSUME ClientInductive, Command
  PROVE  Promises'
<1> USE DEF ClientInductive, Promises, PlacesOK, UserOK, StopOK, SessionOK,
            OneListener, NoGhostSession, SenderIsKnown, Excused, Stopping, Live,
            Own, Ours, Connected, AddrOf, Exists
<1>0. listener \in ListenerState /\ console \in ConsoleState
   BY DEF ClientTypeOK, ConsoleState, ListenerState
<1>1. ASSUME NEW n \in Names, Connect(n) PROVE Promises'
  BY <1>0, <1>1 DEF Connect, store, NoThread
<1>2. ASSUME NEW n \in Names, NEW q, AskDisconnect(n, q) PROVE Promises'
  BY <1>0, <1>2 DEF AskDisconnect, store, fields, Prompt
<1>3. CASE Quit
  <2>1. cu \in Names \cup {NoName} BY DEF ClientTypeOK
  <2>2. CASE cu # NoName BY <2>1, <2>2, <1>3, <1>2 DEF Quit
  <2>3. CASE cu = NoName
    BY <2>1, <2>3, <1>0, <1>3, ConsoleMoves DEF Quit, store, fields
  <2>4. QED BY <2>2, <2>3
<1>4. CASE SendCheck
  BY <1>0, <1>4, ConsoleMoves DEF SendCheck, store, fields
<1>5. CASE Restart
  BY <1>0, <1>5 DEF Restart, store, Prompt, NoThread
<1>6. QED BY <1>1, <1>2, <1>3, <1>4, <1>5 DEF Command

(* Each failure leaves its mishap behind, which the promises excuse. *)
LEMMA FailureKeeps ==
  ASSUME ClientInductive, Failure
  PROVE  Promises'
<1> USE DEF ClientInductive, Promises, PlacesOK, UserOK, StopOK, SessionOK,
            OneListener, NoGhostSession, SenderIsKnown, Excused, Stopping, Live,
            Own, Ours, Connected, AddrOf, Exists
<1>0. listener \in ListenerState /\ console \in ConsoleState
   BY DEF ClientTypeOK, ConsoleState, ListenerState
<1>1. CASE ConnectGivesUp
  BY <1>0, <1>1 DEF ConnectGivesUp, AbandonConnect, store, fields, NoThread,
                    Mishap
<1>2. CASE ListenerDies
  BY <1>0, <1>2 DEF ListenerDies, AbandonConnect, store, fields, NoThread,
                    Mishap
<1>3. CASE DisconnectGivesUp
  <2>1. /\ console'.pc \in {"test", "done"} /\ console'.rc = 3
        /\ console.pc \in {"asked", "told"}
        /\ "gaveUp" \in mishaps' /\ mishaps \subseteq mishaps'
        /\ UNCHANGED <<users, listener, cu, lt>>
    BY <1>0, <1>3 DEF DisconnectGivesUp, store, Mishap, ConsoleState
  <2>2. /\ (mishaps \cap {"foreign", "gaveUp", "died"} # {})'
        /\ (mishaps \cap {"foreign", "gaveUp", "died", "killed"} # {})'
        /\ (mishaps \cap {"dropped", "gaveUp"} # {})'
    BY <2>1
  <2>3. UserOK' BY <2>1, <2>2
  <2>4. PlacesOK' BY <2>1
  <2>5. QED BY <2>1, <2>2, <2>3, <2>4
<1>4. CASE ConsoleDies
  <2>1. /\ console'.pc = "broken" /\ mishaps \subseteq mishaps'
        /\ console.pc \in {"prompt", "asked", "told", "send"}
        /\ \/ "gaveUp" \in mishaps' /\ console.pc \in {"asked", "told"}
           \/ console.pc \in {"prompt", "asked", "send"} /\ late' = late
        /\ UNCHANGED <<users, listener, cu, lt, terminate>>
    BY <1>4 DEF ConsoleDies, store, fields, Mishap, Prompt
  <2>2. QED BY <2>1
<1>5. CASE Kill
  BY <1>0, <1>5 DEF Kill, store, fields, Mishap, Prompt, NoThread
<1>6. QED BY <1>1, <1>2, <1>3, <1>4, <1>5 DEF Failure

(* ServeConnect gives the session to the user of the thread. *)
LEMMA ServeConnectKeeps ==
  ASSUME ClientInductive, ServeConnect
  PROVE  Promises'
<1> USE DEF ClientInductive, Promises, PlacesOK, UserOK, StopOK, SessionOK,
            OneListener, NoGhostSession, SenderIsKnown, Excused, Stopping, Live,
            Own, Ours
<1>0. listener \in ListenerState /\ console \in ConsoleState /\ StoreTypeOK
   BY DEF ClientTypeOK, ConsoleState, ListenerState
<1> DEFINE n == listener.name
           p == listener.port
<1>1. PICK rc \in 0..2 :
        /\ UserConnect(n, Here, p, rc)
        /\ listener' = [listener EXCEPT !.pc = "answered", !.rc = rc]
  BY DEF ServeConnect
<1>2. /\ listener'.pc = "answered" /\ listener'.rc = rc
      /\ listener'.name = n /\ listener'.port = p
      /\ listener.pc = "asked" /\ n \in Names /\ p \in OwnPorts
      /\ UNCHANGED <<console, cu, lt, terminate, late, mishaps>>
  BY <1>0, <1>1 DEF ListenerState, ServeConnect, fields
<1>3. \A k \in Names : k # n => users'[k] = users[k]
  BY <1>0, <1>1, <1>2 DEF UserConnect, StoreTypeOK
<1>4. CASE rc = 0
  <2>1. Connected(n)' /\ AddrOf(n)' = <<Here, p>>
    BY <1>0, <1>1, <1>2, <1>4, UserConnectEffect, HereAssumption, OwnAssumption
  <2>2. Ours(n)' BY <1>2, <1>4, <2>1
  <2>3. \A k \in Names :
          k # n => ~Own(k) \/ Excused({"foreign", "gaveUp", "died", "killed"})
    BY <1>2
  <2>4. \A k \in Names : k # n => Own(k)' = Own(k)
    BY <1>3 DEF Connected, AddrOf, Exists
  <2>5. NoGhostSession' BY <1>2, <2>2, <2>3, <2>4
  <2>6. StopOK' BY <1>2, <2>2, <2>3, <2>4
  <2>7. QED BY <1>2, <1>4, <2>2, <2>5, <2>6
<1>5. CASE rc # 0
  <2>1. users' = users BY <1>1, <1>5 DEF UserConnect
  <2>2. QED BY <1>2, <1>5, <2>1 DEF Connected, AddrOf, Exists
<1>6. QED BY <1>4, <1>5

(* ServeDisconnect answers 0 only when the session it ended was at this     *)
(* machine: the thread's own, or somebody else's.                           *)
LEMMA ServeDisconnectKeeps ==
  ASSUME ClientInductive, ServeDisconnect
  PROVE  Promises'
<1> USE DEF ClientInductive, Promises, PlacesOK, UserOK, StopOK, SessionOK,
            OneListener, NoGhostSession, SenderIsKnown, Excused, Stopping, Live,
            Own, Ours
<1>0. listener \in ListenerState /\ console \in ConsoleState /\ StoreTypeOK
   BY DEF ClientTypeOK, ConsoleState, ListenerState
<1>n. PICK n \in Names : n = console.name BY DEF ServeDisconnect
<1>1. PICK rc \in 0..3 :
        /\ Served(n, rc)
        /\ console' = [console EXCEPT !.pc = "told", !.name = NoName, !.rc = rc]
        /\ mishaps' = IF rc = 0 /\ ~Ours(n) THEN mishaps \cup {"foreign"}
                                            ELSE mishaps
  BY <1>n DEF ServeDisconnect
<1>2. /\ console'.pc = "told" /\ console'.rc = rc
      /\ console.pc = "asked"
      /\ mishaps \subseteq mishaps'
      /\ UNCHANGED <<listener, cu, lt, terminate, late>>
  BY <1>0, <1>1 DEF ConsoleState, ServeDisconnect, fields
<1>3. CASE rc = 0
  <2>1. UserDisconnect(n, 0) BY <1>1, <1>3 DEF Served
  <2>2. ~Connected(n)' BY <1>0, <1>2, <2>1, UserDisconnectEffect
  <2>3. \A k \in Names : k # n => users'[k] = users[k]
    BY <1>0, <1>2, <2>1 DEF UserDisconnect, StoreTypeOK
  <2>4. \A k \in Names : k # n => Own(k)' = Own(k) /\ Ours(k)' = Ours(k)
    BY <1>2, <2>3 DEF Connected, AddrOf, Exists
  <2>5. Ours(n) \/ "foreign" \in mishaps' BY <1>1, <1>3
  <2>6. NoGhostSession' BY <1>2, <2>2, <2>4
  <2>7. StopOK' BY <1>2, <2>2, <2>4, <2>5
  <2>8. UserOK' BY <1>2
  <2>9. QED BY <1>2, <1>3, <2>6, <2>7, <2>8
<1>4. CASE rc # 0
  <2>1. users' = users BY <1>1, <1>4 DEF Served, UserDisconnect, store
  <2>2. mishaps' = mishaps BY <1>1, <1>4
  <2>3. QED BY <1>2, <1>4, <2>1, <2>2 DEF Connected, AddrOf, Exists
<1>5. QED BY <1>3, <1>4

(* Another process can connect a user elsewhere only: it never takes an    *)
(* address of this client, and what it takes away is noted.                *)
LEMMA EnvironmentKeeps ==
  ASSUME ClientInductive, Environment
  PROVE  Promises'
<1> USE DEF ClientInductive, Promises, PlacesOK, UserOK, StopOK, SessionOK,
            OneListener, NoGhostSession, SenderIsKnown, Excused, Stopping, Live,
            Own, Ours
<1>0. listener \in ListenerState /\ console \in ConsoleState /\ StoreTypeOK
   BY DEF ClientTypeOK, ConsoleState, ListenerState
<1>1. ASSUME NEW r \in late, ServeLate(r) PROVE Promises'
  <2>1. /\ "gaveUp" \in mishaps' /\ late' \subseteq late
        /\ UNCHANGED <<console, listener, cu, lt, terminate, mishaps>>
    BY <1>1 DEF ServeLate, fields
  <2>2. QED BY <2>1
<1>2. ASSUME NEW n \in Names, Others(n) PROVE Promises'
  <2>1. /\ mishaps' = IF Ours(n) THEN mishaps \cup {"dropped"} ELSE mishaps
        /\ UNCHANGED <<console, listener, cu, lt, terminate, late>>
    BY <1>2 DEF Others, fields
  <2>2. \A k \in Names : k # n => users'[k] = users[k]
    BY <1>0, <1>2 DEF Others, StoreTypeOK, UserAdd, UserRemove, UserConnect,
                      UserDisconnect
  <2>3. ~Own(n)'
    <3>1. ASSUME NEW rc \in 0..1, UserAdd(n, rc) PROVE ~Connected(n)'
      BY <1>0, <1>2, <3>1, UserAddRow DEF Others, StoreTypeOK, UserAdd
    <3>2. ASSUME NEW rc \in 0..1, UserRemove(n, rc) PROVE ~Connected(n)'
      BY <1>0, <1>2, <3>2
         DEF Others, UserRemove, StoreTypeOK, Connected, Exists
    <3>3. ASSUME NEW a \in Elsewhere, NEW rc \in 0..2,
                 UserConnect(n, a[1], a[2], rc)
          PROVE  ~Own(n)'
      <4>1. rc = 0 BY <1>2, <3>3 DEF Others, UserConnect
      <4>2. /\ a \in Addrs /\ a \notin {Here} \X OwnPorts
            /\ a[1] \in Ips /\ a[2] \in Ports /\ a = <<a[1], a[2]>>
        BY ElseAssumption DEF Addrs
      <4>3. AddrOf(n)' = a BY <1>0, <3>3, <4>1, <4>2, UserConnectEffect
      <4>4. QED BY <4>2, <4>3
    <3>4. ASSUME NEW rc \in 0..2, UserDisconnect(n, rc) PROVE ~Connected(n)'
      BY <1>0, <3>4, UserDisconnectEffect
    <3>5. QED BY <1>2, <3>1, <3>2, <3>3, <3>4 DEF Others
  <2>4. \A k \in Names : k # n => Own(k)' = Own(k) /\ Ours(k)' = Ours(k)
    BY <2>1, <2>2 DEF Connected, AddrOf, Exists
  <2>5. NoGhostSession' BY <2>1, <2>3, <2>4
  <2>6. StopOK' BY <2>1, <2>3, <2>4
  <2>7. SessionOK' BY <2>1, <2>4
  <2>8. QED BY <2>1, <2>5, <2>6, <2>7
<1>3. QED BY <1>1, <1>2 DEF Environment

-----------------------------------------------------------------------------
(* What a step leaves alone keeps its type. *)
LEMMA StoreStays == StoreTypeOK /\ UNCHANGED store => StoreTypeOK'
BY DEF StoreTypeOK, store

(* Every step preserves the type invariant. *)
LEMMA ClientTypeStep ==
  ASSUME ClientTypeOK, PlacesOK, [ClientNext]_clientVars
  PROVE  ClientTypeOK'
<1> USE DEF ClientTypeOK, Console, Listener, Mishap, fields
<1>0. console \in ConsoleState /\ listener \in ListenerState /\ StoreTypeOK
  BY DEF ConsoleState, ListenerState
<1> DEFINE Rest == /\ cu \in Names \cup {NoName} /\ lt \in BOOLEAN
                   /\ terminate \in BOOLEAN /\ late \subseteq Request
                   /\ faults \in 0..MaxFaults /\ mishaps \subseteq Mishaps
           Good == /\ StoreTypeOK /\ console \in ConsoleState
                   /\ listener \in ListenerState /\ Rest
<1>1. SUFFICES Good'
  BY DEF ConsoleState, ListenerState
<1>2. CASE ListenerStep
  <2>1. ASSUME NEW p \in OwnPorts, Ask(p) PROVE Good'
    BY <1>0, <2>1, StoreStays DEF Ask, ListenerState, Live
  <2>2. CASE Answered
    <3>1. listener' \in ListenerState
      BY <1>0, <2>2, ListenerStarts, ListenerMoves DEF Answered, Live
    <3>2. cu' \in Names \cup {NoName}
      BY <1>0, <2>2 DEF Answered, ListenerState
    <3>3. QED BY <1>0, <2>2, <3>1, <3>2, StoreStays DEF Answered
  <2>3. CASE Bind
    BY <1>0, <2>3, StoreStays, TestMoves DEF Bind
  <2>4. CASE Stop
    BY <1>0, <2>4, StoreStays, TestMoves DEF Stop
  <2>5. CASE Tail
    BY <1>0, <2>5, StoreStays, ListenerStarts DEF Tail, ListenerState, Live
  <2>6. QED BY <1>2, <2>1, <2>2, <2>3, <2>4, <2>5 DEF ListenerStep
<1>3. CASE ConsoleStep
  <2>1. CASE Told
    BY <1>0, <2>1, StoreStays DEF Told, ConsoleState, Disconnecting
  <2>2. CASE Forget
    BY <1>0, <2>2, StoreStays DEF Forget, ConsoleState, Disconnecting
  <2>3. CASE Test
    BY <1>0, <2>3, StoreStays DEF Test, ConsoleState, Disconnecting
  <2>4. CASE Join
    BY <1>0, <2>4, StoreStays DEF Join, ConsoleState, Disconnecting
  <2>5. CASE Joined
    BY <1>0, <2>5, StoreStays DEF Joined, ConsoleState, Disconnecting
  <2>6. CASE Clear
    BY <1>0, <2>6, StoreStays DEF Clear, ConsoleState, Disconnecting
  <2>7. CASE Done BY <1>0, <2>7, StoreStays, ConsoleStarts DEF Done
  <2>8. CASE SendMessage
    BY <1>0, <2>8, StoreStays DEF SendMessage, ConsoleState, Disconnecting
  <2>9. QED BY <1>3, <2>1, <2>2, <2>3, <2>4, <2>5, <2>6, <2>7, <2>8
            DEF ConsoleStep
<1>4. CASE Command
  <2>1. ASSUME NEW n \in Names, Connect(n) PROVE Good'
    BY <1>0, <2>1, StoreStays, ListenerStarts DEF Connect
  <2>2. ASSUME NEW n \in Names, NEW q \in BOOLEAN, AskDisconnect(n, q)
        PROVE  Good'
    BY <1>0, <2>2, StoreStays, ConsoleStarts DEF AskDisconnect
  <2>3. CASE Quit
    <3>1. CASE cu # NoName BY <2>2, <2>3, <3>1 DEF Quit
    <3>2. CASE cu = NoName
      BY <1>0, <2>3, <3>2, StoreStays DEF Quit, ConsoleState
    <3>3. QED BY <3>1, <3>2
  <2>4. CASE SendCheck
    BY <1>0, <2>4, StoreStays DEF SendCheck, ConsoleState
  <2>5. CASE Restart
    BY <1>0, <2>5, StoreStays, ConsoleStarts, ListenerStarts DEF Restart
  <2>6. QED BY <1>4, <2>1, <2>2, <2>3, <2>4, <2>5 DEF Command
<1>5. CASE Failure
  <2>0. Fault => faults' \in 0..MaxFaults BY FaultAssumption DEF Fault
  <2>1. CASE ConnectGivesUp
    <3>1. late' \subseteq Request
      BY <2>1 DEF ConnectGivesUp, AbandonConnect, PlacesOK, Request
    <3>2. mishaps' \subseteq Mishaps BY <2>1 DEF ConnectGivesUp, Mishaps
    <3>3. QED BY <1>0, <2>0, <2>1, <3>1, <3>2, StoreStays, ListenerStarts
              DEF ConnectGivesUp
  <2>2. CASE ListenerDies
    <3>1. mishaps' \subseteq Mishaps BY <2>2 DEF ListenerDies, Mishaps
    <3>2. late' \subseteq Request
      BY <2>2 DEF ListenerDies, AbandonConnect, PlacesOK, Request
    <3>3. QED BY <1>0, <2>0, <2>2, <3>1, <3>2, StoreStays, ListenerStarts
              DEF ListenerDies
  <2>3. CASE DisconnectGivesUp
    <3>1. late' \subseteq Request
      BY <2>3 DEF DisconnectGivesUp, AbandonDisconnect, PlacesOK, Request
    <3>2. mishaps' \subseteq Mishaps BY <2>3 DEF DisconnectGivesUp, Mishaps
    <3>3. console' \in ConsoleState
      <4>1. PICK rc \in 0..3 :
              \/ console' = [console EXCEPT !.pc = "test", !.name = NoName,
                                                !.rc = rc]
              \/ console' = [console EXCEPT !.pc = "done", !.name = NoName,
                                                !.rc = rc]
        BY <2>3 DEF DisconnectGivesUp
      <4>2. QED BY <1>0, <4>1 DEF ConsoleState, Disconnecting
    <3>4. QED BY <1>0, <2>0, <2>3, <3>1, <3>2, <3>3, StoreStays
              DEF DisconnectGivesUp
  <2>4. CASE ConsoleDies
    <3>1. mishaps' \subseteq Mishaps BY <2>4 DEF ConsoleDies, Mishaps
    <3>2. late' \subseteq Request
      BY <2>4 DEF ConsoleDies, AbandonDisconnect, PlacesOK, Request
    <3>3. QED BY <1>0, <2>0, <2>4, <3>1, <3>2, StoreStays, ConsoleStarts
              DEF ConsoleDies
  <2>5. CASE Kill
    <3>1. mishaps' \subseteq Mishaps BY <2>5 DEF Kill, Mishaps
    <3>2. QED BY <1>0, <2>0, <2>5, <3>1, StoreStays, ConsoleStarts,
                 ListenerStarts DEF Kill
  <2>6. QED BY <1>5, <2>1, <2>2, <2>3, <2>4, <2>5 DEF Failure
<1>6. CASE Environment
  <2>1. ASSUME NEW r \in late, ServeLate(r) PROVE Good'
    <3>1. StoreTypeOK'
      <4>1. PICK rc \in 0..3 :
              IF r.op = "CONNECT" THEN UserConnect(r.name, Here, r.port, rc)
                                  ELSE Served(r.name, rc)
        BY <2>1 DEF ServeLate
      <4>2. r.name \in Names /\ (r.op = "CONNECT" => r.port \in Ports)
        BY OwnAssumption DEF Request
      <4>3. QED BY <1>0, <4>1, <4>2, HereAssumption, UserConnectType,
                   UserDisconnectType, StoreStays DEF Served
    <3>2. QED BY <1>0, <2>1, <3>1 DEF ServeLate
  <2>2. ASSUME NEW n \in Names, Others(n) PROVE Good'
    <3>1. \A a \in Elsewhere : a[1] \in Ips /\ a[2] \in Ports
      BY ElseAssumption DEF Addrs
    <3>2. StoreTypeOK'
      BY <1>0, <2>2, <3>1, UserAddType, UserRemoveType, UserConnectType,
         UserDisconnectType DEF Others
    <3>3. mishaps' \subseteq Mishaps BY <2>2 DEF Others, Mishaps
    <3>4. QED BY <1>0, <2>2, <3>2, <3>3 DEF Others
  <2>3. QED BY <1>6, <2>1, <2>2 DEF Environment
<1>7. CASE ServeConnect
  <2>1. StoreTypeOK'
    BY <1>0, <1>7, HereAssumption, OwnAssumption, UserConnectType
       DEF ServeConnect, PlacesOK
  <2>2. listener' \in ListenerState
    BY <1>0, <1>7 DEF ServeConnect, ListenerState, Live
  <2>3. QED BY <1>0, <1>7, <2>1, <2>2 DEF ServeConnect
<1>8. CASE ServeDisconnect
  <2>1. StoreTypeOK'
    BY <1>0, <1>8, StoreStays, UserDisconnectType
       DEF ServeDisconnect, Served, PlacesOK
  <2>2. console' \in ConsoleState
    BY <1>0, <1>8 DEF ServeDisconnect, ConsoleState, Disconnecting
  <2>3. mishaps' \subseteq Mishaps BY <1>8 DEF ServeDisconnect, Mishaps
  <2>4. QED BY <1>0, <1>8, <2>1, <2>2, <2>3 DEF ServeDisconnect
<1>11. CASE Peer
  <2>1. CASE Hold
    BY <1>0, <2>1, StoreStays DEF Hold, ListenerState, Live
  <2>2. CASE Release
    BY <1>0, <2>2, StoreStays, TestMoves DEF Release
  <2>3. QED BY <1>11, <2>1, <2>2 DEF Peer
<1>9. CASE UNCHANGED clientVars
  BY <1>0, <1>9, StoreStays DEF clientVars
<1>10. QED BY <1>2, <1>3, <1>4, <1>5, <1>6, <1>7, <1>8, <1>9, <1>11
           DEF ClientNext

-----------------------------------------------------------------------------
(* A client that has not connected owes nothing to the server. *)
LEMMA ClientStarts == ClientInit => ClientInductive
<1> SUFFICES ASSUME ClientInit PROVE ClientInductive
  OBVIOUS
<1>1. StoreTypeOK BY DEF ClientInit, StoreInit, StoreTypeOK
<1>2. ClientTypeOK
  <2>1. console \in ConsoleState /\ listener \in ListenerState
    BY ConsoleStarts, ListenerStarts DEF ClientInit
  <2>2. lt \in BOOLEAN /\ terminate \in BOOLEAN BY DEF ClientInit
  <2>3. faults \in 0..MaxFaults BY FaultAssumption DEF ClientInit
  <2>4. cu \in Names \cup {NoName} /\ late \subseteq Request
        /\ mishaps \subseteq Mishaps
    BY DEF ClientInit
  <2>5. QED BY <1>1, <2>1, <2>2, <2>3, <2>4
            DEF ClientTypeOK, ConsoleState, ListenerState
<1>3. /\ console.pc = "prompt" /\ listener.pc = "none"
      /\ cu = NoName /\ terminate = FALSE /\ late = {}
      /\ \A n \in Names : ~Connected(n)
  BY DEF ClientInit, Prompt, NoThread, StoreInit, Connected, Exists
<1>4. PlacesOK /\ UserOK /\ StopOK /\ SessionOK
  BY <1>3 DEF PlacesOK, UserOK, StopOK, SessionOK, Stopping, Live
<1>5. OneListener /\ NoGhostSession /\ SenderIsKnown
  BY <1>3 DEF OneListener, NoGhostSession, SenderIsKnown, Live
<1>6. QED BY <1>2, <1>3, <1>4, <1>5 DEF ClientInductive

(* Every step of either thread, of the server and of the other processes   *)
(* preserves the inductive invariant.                                      *)
LEMMA ClientSteps == ClientInductive /\ [ClientNext]_clientVars => ClientInductive'
<1> SUFFICES ASSUME ClientInductive, [ClientNext]_clientVars
             PROVE  ClientInductive'
  OBVIOUS
<1>1. ClientTypeOK' BY ClientTypeStep DEF ClientInductive
<1>2. Promises'
  <2>1. CASE ListenerStep \/ Peer
    <3>1. UNCHANGED users
      BY <2>1 DEF ListenerStep, Peer, Ask, Answered, Bind, Stop, Tail, Hold,
                  Release, store
    <3>2. QED BY <2>1, <3>1, ListenerStepKeeps DEF ListenerStep, Peer
  <2>2. CASE ConsoleStep BY <2>2, ConsoleStepKeeps DEF ConsoleStep
  <2>3. CASE UNCHANGED clientVars
    BY <2>3 DEF ClientInductive, Promises, PlacesOK, UserOK, StopOK,
       SessionOK, OneListener, NoGhostSession, SenderIsKnown, Excused, Own,
       Ours, Connected, AddrOf, Exists, clientVars, store, fields
  <2>4. QED BY <2>1, <2>2, <2>3, CommandKeeps, FailureKeeps, EnvironmentKeeps,
               ServeConnectKeeps, ServeDisconnectKeeps DEF ClientNext
<1>3. QED BY <1>1, <1>2 DEF ClientInductive, Promises

(* The inductive invariant holds in every behaviour of the client. *)
THEOREM ClientHolds == ClientSpec => []ClientInductive
BY ClientStarts, ClientSteps, PTL DEF ClientSpec

(* Threads, shared fields and requests keep their types. *)
THEOREM ClientTypes == ClientSpec => []ClientTypeOK
<1>1. ClientInductive => ClientTypeOK BY DEF ClientInductive
<1>2. QED BY <1>1, ClientHolds, PTL

(* A client never has a listening thread that _listening_thread does not   *)
(* show, so that connect() starts no second one.                           *)
THEOREM OnlyOneListens == ClientSpec => []OneListener
<1>1. ClientInductive => OneListener BY DEF ClientInductive
<1>2. QED BY <1>1, ClientHolds, PTL

(* The server has nobody at an address of this client but the user of its  *)
(* thread, four mishaps apart.                                             *)
THEOREM SessionsAreOurs == ClientSpec => []NoGhostSession
<1>1. ClientInductive => NoGhostSession BY DEF ClientInductive
<1>2. QED BY <1>1, ClientHolds, PTL

(* While the client listens the server has the session, unless somebody    *)
(* else ended it or the client is ending it.                               *)
THEOREM SessionsAreTrue == ClientSpec => []SessionIsTrue
<1>1. ClientInductive => SessionIsTrue
  BY DEF ClientInductive, PlacesOK, OneListener, SessionOK, SessionIsTrue,
         Excused, Stopping, Disconnecting, Live
<1>2. QED BY <1>1, ClientHolds, PTL

(* A DISCONNECT answered OK leaves no listening thread behind, and no name  *)
(* of a user unless an exception ended the thread.                          *)
THEOREM DisconnectLeavesNothing == ClientSpec => []DisconnectCleans
<1>1. ClientInductive => DisconnectCleans
  BY DEF ClientInductive, DisconnectCleans, UserOK, OneListener, Live
<1>2. QED BY <1>1, ClientHolds, PTL

(* _terminate is not left set for the thread of the next CONNECT, three     *)
(* mishaps apart.                                                           *)
THEOREM StopsAreFresh == ClientSpec => []NoStaleStop
<1>1. ClientInductive => NoStaleStop
  BY DEF ClientInductive, NoStaleStop, StopOK, Stopping, Excused
<1>2. QED BY <1>1, ClientHolds, PTL

(* _connected_user is not emptied between the test in send() and its use,   *)
(* three mishaps apart.                                                     *)
THEOREM SendersAreKnown == ClientSpec => []SenderIsKnown
<1>1. ClientInductive => SenderIsKnown BY DEF ClientInductive
<1>2. QED BY <1>1, ClientHolds, PTL
=============================================================================
