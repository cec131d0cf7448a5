-------------------------------- MODULE Client --------------------------------
(***************************************************************************)
(* The session of one client process, src/clients/commands.py: the console *)
(* thread, which runs CONNECT, DISCONNECT, SEND and QUIT one at a time,    *)
(* the listening thread that CONNECT starts, and the three fields they     *)
(* share without a lock (_connected_user, _listening_thread, _terminate).  *)
(* The server is the data base of UserStore: a request is served some time *)
(* after it was sent, in one step (Server shows what lies inside), and     *)
(* also when the client has stopped waiting for the answer.                *)
(*                                                                         *)
(* The other processes are the environment: they register, unregister,     *)
(* connect and disconnect anybody from addresses of their own, and the     *)
(* server tries to deliver messages and disconnects whom it does not find. *)
(***************************************************************************)
EXTENDS UserStore

CONSTANTS Here,      \* the machine the client runs on
          OwnPorts,  \* the ports bind("", 0) may give to this client
          Elsewhere, \* the addresses of the other processes
          NoName,    \* None: no user name
          MaxFaults  \* bound: requests given up, threads and processes killed

ASSUME HereAssumption  == Here \in Ips
ASSUME OwnAssumption   == OwnPorts \subseteq Ports
ASSUME ElseAssumption  == Elsewhere \subseteq Addrs \ ({Here} \X OwnPorts)
ASSUME NoneAssumption  == NoName \notin Names
ASSUME FaultAssumption == MaxFaults \in Nat

VARIABLES console,    \* the console thread: what it does next, for whom
          listener,   \* the listening thread
          cu,         \* _connected_user
          lt,         \* _listening_thread is not None
          terminate,  \* _terminate
          late,       \* requests whose sender does not wait any more
          faults,     \* faults so far
          mishaps     \* history: what went wrong that the code allows

fields     == <<cu, lt, terminate>>
clientVars == <<store, console, listener, fields, late, faults, mishaps>>

Prompt == [pc |-> "prompt", name |-> NoName, rc |-> 0, quit |-> FALSE]
NoThread == [pc |-> "none", name |-> NoName, port |-> 0, rc |-> 0]

(* The console inside disconnect(), from the request to the return. *)
Disconnecting == {"asked", "told", "forget", "test", "join", "joining",
                  "clear", "done"}
(* The listening thread before, in and after its loop. *)
Live == {"start", "asked", "answered", "bind", "loop", "held", "tail1",
         "tail2", "tail3"}

Request == [op: {"CONNECT"}, name: Names, port: OwnPorts]
             \cup [op: {"DISCONNECT"}, name: Names, port: {0}]

Mishaps == {"foreign",  \* a DISCONNECT answered OK was not for our session
            "dropped",  \* somebody else ended our session at the server
            "gaveUp",   \* the answer to a request was not waited for
            "died",     \* an exception ended the listening thread
            "killed"}   \* the process was killed

(* Threads, shared fields and requests keep their types (Client.__init__). *)
ClientTypeOK ==
  /\ StoreTypeOK
  /\ console \in [pc: Disconnecting \cup {"prompt", "send", "exited", "broken"},
                  name: Names \cup {NoName}, rc: 0..3, quit: BOOLEAN]
  /\ listener \in [pc: Live \cup {"none", "dead"}, name: Names \cup {NoName},
                   port: OwnPorts \cup {0}, rc: 0..2]
  /\ cu \in Names \cup {NoName} /\ lt \in BOOLEAN /\ terminate \in BOOLEAN
  /\ late \subseteq Request
  /\ faults \in 0..MaxFaults
  /\ mishaps \subseteq Mishaps

ClientInit ==
  /\ StoreInit
  /\ console = Prompt /\ listener = NoThread
  /\ cu = NoName /\ lt = FALSE /\ terminate = FALSE
  /\ late = {} /\ faults = 0 /\ mishaps = {}

Console(place)  == console' = [console EXCEPT !.pc = place]
Listener(place) == listener' = [listener EXCEPT !.pc = place]
Mishap(what)    == mishaps' = mishaps \cup {what}
Fault           == faults < MaxFaults /\ faults' = faults + 1

(* The server has our session: the user this thread connected, here. *)
Ours(n) ==
  /\ listener.pc \in {"answered", "bind", "loop", "held"} /\ listener.rc = 0
  /\ listener.name = n
  /\ Connected(n) /\ AddrOf(n) = <<Here, listener.port>>

-----------------------------------------------------------------------------
(* CONNECT: the console starts the thread and does not wait for it. *)

(* Mistake: _listening_thread is not looked at. *)
WrongConnect(n) ==
  /\ console.pc = "prompt" /\ lt' = TRUE
  /\ listener' = [NoThread EXCEPT !.pc = "start", !.name = n]
  /\ UNCHANGED <<store, console, cu, terminate, late, faults, mishaps>>

Connect(n) ==
  /\ console.pc = "prompt" /\ ~lt
  /\ lt' = TRUE
  /\ listener' = [NoThread EXCEPT !.pc = "start", !.name = n]
  /\ UNCHANGED <<store, console, cu, terminate, late, faults, mishaps>>

(* A free port is found and released, and the request sent with it. *)
Ask(p) ==
  /\ listener.pc = "start"
  /\ listener' = [listener EXCEPT !.pc = "asked", !.port = p]
  /\ UNCHANGED <<store, console, fields, late, faults, mishaps>>

ServeConnect ==
  /\ listener.pc = "asked"
  /\ \E rc \in 0..2 :
       /\ UserConnect(listener.name, Here, listener.port, rc)
       /\ listener' = [listener EXCEPT !.pc = "answered", !.rc = rc]
  /\ UNCHANGED <<console, fields, late, faults, mishaps>>

(* Mistake: it listens whatever the answer. *)
WrongAnswered ==
  /\ listener.pc = "answered" /\ Listener("bind") /\ cu' = listener.name
  /\ UNCHANGED <<store, console, lt, terminate, late, faults, mishaps>>

Answered ==
  /\ listener.pc = "answered"
  /\ IF listener.rc = 0
     THEN Listener("bind") /\ cu' = listener.name
     ELSE /\ listener' = [NoThread EXCEPT !.pc = "tail1"]
          /\ UNCHANGED cu
  /\ UNCHANGED <<store, console, lt, terminate, late, faults, mishaps>>

(* A request that is under way when its answer is given up may still be *)
(* served later.                                                        *)
AbandonConnect ==
  late' = IF listener.pc = "asked"
          THEN late \cup {[op |-> "CONNECT", name |-> listener.name,
                           port |-> listener.port]}
          ELSE late

(* Ten seconds without an answer, or the end of the connection. *)
ConnectGivesUp ==
  /\ listener.pc \in {"asked", "answered"}
  /\ Fault /\ Mishap("gaveUp") /\ AbandonConnect
  /\ listener' = [NoThread EXCEPT !.pc = "tail1"]
  /\ UNCHANGED <<store, console, fields>>

(* The test of the loop: into accept() ("loop"), or out of it all; the *)
(* socket closes as the loop is left.                                  *)
LoopTest ==
  listener' = IF terminate THEN [NoThread EXCEPT !.pc = "tail1"]
                           ELSE [listener EXCEPT !.pc = "loop"]

Bind ==
  /\ listener.pc = "bind" /\ LoopTest
  /\ UNCHANGED <<store, console, fields, late, faults, mishaps>>

(* Somebody connects: the accepted socket has no timeout, and the thread *)
(* reads it until the other side sends a 0 or closes.                    *)
Hold ==
  /\ listener.pc = "loop" /\ Listener("held")
  /\ UNCHANGED <<store, console, fields, late, faults, mishaps>>

Release ==
  /\ listener.pc = "held" /\ LoopTest
  /\ UNCHANGED <<store, console, fields, late, faults, mishaps>>

(* Mistake: only a message, never the timeout, leads back to the test. *)
WrongStop == FALSE /\ UNCHANGED clientVars

(* The timeout of accept() leads back to the test. *)
Stop ==
  /\ listener.pc = "loop" /\ terminate /\ LoopTest
  /\ UNCHANGED <<store, console, fields, late, faults, mishaps>>

(* Mistake: _listening_thread is cleared first. *)
WrongTail ==
  /\ \/ /\ listener.pc = "tail1" /\ lt' = FALSE /\ Listener("tail2")
        /\ UNCHANGED <<cu, terminate>>
     \/ /\ listener.pc = "tail2" /\ cu' = NoName /\ Listener("tail3")
        /\ UNCHANGED <<terminate, lt>>
     \/ /\ listener.pc = "tail3" /\ terminate' = FALSE /\ listener' = NoThread
        /\ UNCHANGED <<cu, lt>>
  /\ UNCHANGED <<store, console, late, faults, mishaps>>

(* Mistake: _terminate stays as it is. *)
WrongTailStop ==
  /\ \/ /\ listener.pc = "tail1" /\ Listener("tail2")
        /\ UNCHANGED <<cu, lt>>
     \/ /\ listener.pc = "tail2" /\ cu' = NoName /\ Listener("tail3")
        /\ UNCHANGED lt
     \/ /\ listener.pc = "tail3" /\ lt' = FALSE /\ listener' = NoThread
        /\ UNCHANGED cu
  /\ UNCHANGED <<store, console, terminate, late, faults, mishaps>>

(* The three assignments the thread ends with, whatever ended it. *)
Tail ==
  /\ \/ /\ listener.pc = "tail1" /\ terminate' = FALSE /\ Listener("tail2")
        /\ UNCHANGED <<cu, lt>>
     \/ /\ listener.pc = "tail2" /\ cu' = NoName /\ Listener("tail3")
        /\ UNCHANGED <<terminate, lt>>
     \/ /\ listener.pc = "tail3" /\ lt' = FALSE /\ listener' = NoThread
        /\ UNCHANGED <<cu, terminate>>
  /\ UNCHANGED <<store, console, late, faults, mishaps>>

(* An exception no clause catches: the server refuses the connection or    *)
(* resets it before the answer, the port was taken meanwhile, a message is *)
(* not UTF-8 or its connection is reset.  The thread ends here and the     *)
(* three assignments are not made.                                         *)
ListenerDies ==
  /\ Fault /\ listener' = [NoThread EXCEPT !.pc = "dead"]
  /\ \/ /\ listener.pc \in {"start", "bind", "loop", "held"}
        /\ Mishap("died") /\ UNCHANGED late
     \/ /\ listener.pc \in {"asked", "answered"}
        /\ mishaps' = mishaps \cup {"died", "gaveUp"} /\ AbandonConnect
  /\ UNCHANGED <<store, console, fields>>

-----------------------------------------------------------------------------
(* DISCONNECT, typed or run by QUIT. *)

AskDisconnect(n, quit) ==
  /\ console.pc = "prompt"
  /\ console' = [Prompt EXCEPT !.pc = "asked", !.name = n, !.quit = quit]
  /\ UNCHANGED <<store, listener, fields, late, faults, mishaps>>

(* handle_disconnect: the user must be connected from this machine. *)
Served(n, rc) ==
  IF ConnInfo(n) = 0 /\ users[n].ip # Here THEN rc = 3 /\ UNCHANGED store
                                           ELSE UserDisconnect(n, rc)

ServeDisconnect ==
  /\ console.pc = "asked"
  /\ \E rc \in 0..3 :
       /\ Served(console.name, rc)
       /\ console' = [console EXCEPT !.pc = "told", !.name = NoName, !.rc = rc]
       /\ mishaps' = IF rc = 0 /\ ~Ours(console.name)
                     THEN mishaps \cup {"foreign"} ELSE mishaps
  /\ UNCHANGED <<listener, fields, late, faults>>

(* Mistake: the listener is asked to stop whatever the answer. *)
WrongTold ==
  /\ console.pc = "told"
  /\ Console("forget") /\ terminate' = TRUE
  /\ UNCHANGED <<store, listener, cu, lt, late, faults, mishaps>>

Told ==
  /\ console.pc = "told"
  /\ IF console.rc = 0 THEN Console("forget") /\ terminate' = TRUE
                       ELSE Console("done") /\ UNCHANGED terminate
  /\ UNCHANGED <<store, listener, cu, lt, late, faults, mishaps>>

Forget ==
  /\ console.pc = "forget" /\ cu' = NoName /\ Console("test")
  /\ UNCHANGED <<store, listener, lt, terminate, late, faults, mishaps>>

AbandonDisconnect ==
  late' = IF console.pc = "asked"
          THEN late \cup {[op |-> "DISCONNECT", name |-> console.name,
                           port |-> 0]}
          ELSE late

(* No answer: after ten seconds the thread is stopped all the same, and     *)
(* _connected_user left to it; when the connection ends instead, nothing is *)
(* done.  The request may have been served, or be served later.             *)
DisconnectGivesUp ==
  /\ console.pc \in {"asked", "told"}
  /\ Fault /\ Mishap("gaveUp") /\ AbandonDisconnect
  /\ \/ /\ terminate' = TRUE
        /\ console' = [console EXCEPT !.pc = "test", !.name = NoName, !.rc = 3]
     \/ /\ terminate' = terminate
        /\ console' = [console EXCEPT !.pc = "done", !.name = NoName, !.rc = 3]
  /\ UNCHANGED <<store, listener, cu, lt>>

Test ==
  /\ console.pc = "test" /\ Console(IF lt THEN "join" ELSE "done")
  /\ UNCHANGED <<store, listener, fields, late, faults, mishaps>>

(* _listening_thread is read again; None has no join(). *)
Join ==
  /\ console.pc = "join" /\ Console(IF lt THEN "joining" ELSE "broken")
  /\ UNCHANGED <<store, listener, fields, late, faults, mishaps>>

(* Mistake: nobody waits for the thread. *)
WrongJoined ==
  /\ console.pc = "joining" /\ Console("clear")
  /\ UNCHANGED <<store, listener, fields, late, faults, mishaps>>

Joined ==
  /\ console.pc = "joining" /\ listener.pc \notin Live /\ Console("clear")
  /\ UNCHANGED <<store, listener, fields, late, faults, mishaps>>

Clear ==
  /\ console.pc = "clear" /\ lt' = FALSE /\ Console("done")
  /\ UNCHANGED <<store, listener, cu, terminate, late, faults, mishaps>>

Done ==
  /\ console.pc = "done"
  /\ console' = IF console.quit THEN [Prompt EXCEPT !.pc = "exited"]
                                ELSE Prompt
  /\ UNCHANGED <<store, listener, fields, late, faults, mishaps>>

-----------------------------------------------------------------------------
(* QUIT and SEND. *)

Quit ==
  /\ console.pc = "prompt"
  /\ IF cu # NoName THEN AskDisconnect(cu, TRUE)
     ELSE /\ Console("exited")
          /\ UNCHANGED <<store, listener, fields, late, faults, mishaps>>

(* The user must believe itself connected; the web service is asked for    *)
(* the text, and _connected_user is read again to build the request.       *)
SendCheck ==
  /\ console.pc = "prompt" /\ cu # NoName /\ Console("send")
  /\ UNCHANGED <<store, listener, fields, late, faults, mishaps>>

SendMessage ==
  /\ console.pc = "send" /\ Console("prompt")
  /\ UNCHANGED <<store, listener, fields, late, faults, mishaps>>

(* The main thread ends when the server refuses the connection of a       *)
(* request, or resets it while DISCONNECT waits for the answer: the       *)
(* listening thread, no daemon, goes on.                                  *)
ConsoleDies ==
  /\ Fault /\ console' = [Prompt EXCEPT !.pc = "broken"]
  /\ \/ console.pc \in {"prompt", "asked", "send"} /\ UNCHANGED <<late, mishaps>>
     \/ /\ console.pc \in {"asked", "told"}
        /\ Mishap("gaveUp") /\ AbandonDisconnect
  /\ UNCHANGED <<store, listener, fields>>

Kill ==
  /\ console.pc \notin {"exited", "broken"} \/ listener.pc \in Live
  /\ Fault /\ Mishap("killed")
  /\ console' = [Prompt EXCEPT !.pc = "exited"] /\ listener' = NoThread
  /\ cu' = NoName /\ lt' = FALSE /\ terminate' = FALSE
  /\ UNCHANGED <<store, late>>

(* The process has ended and another one is started. *)
Restart ==
  /\ console.pc \in {"exited", "broken"} /\ listener.pc \notin Live
  /\ console' = Prompt /\ listener' = NoThread
  /\ cu' = NoName /\ lt' = FALSE /\ terminate' = FALSE
  /\ UNCHANGED <<store, late, faults, mishaps>>

-----------------------------------------------------------------------------
(* The server and the other processes. *)

ServeLate(r) ==
  /\ r \in late /\ late' = late \ {r}
  /\ \E rc \in 0..3 :
       IF r.op = "CONNECT" THEN UserConnect(r.name, Here, r.port, rc)
                           ELSE Served(r.name, rc)
  /\ UNCHANGED <<console, listener, fields, faults, mishaps>>

(* Another process registers, unregisters, connects or disconnects user n, *)
(* or the server disconnects it after a delivery that found nobody.        *)
Others(n) ==
  /\ \/ \E rc \in 0..1 : UserAdd(n, rc) \/ UserRemove(n, rc)
     \/ \E a \in Elsewhere, rc \in 0..2 :
          UserConnect(n, a[1], a[2], rc)
     \/ \E rc \in 0..2 : UserDisconnect(n, rc)
  /\ users' # users
  /\ mishaps' = IF Ours(n) THEN mishaps \cup {"dropped"} ELSE mishaps
  /\ UNCHANGED <<console, listener, fields, late, faults>>

-----------------------------------------------------------------------------
ListenerStep == (\E p \in OwnPorts : Ask(p)) \/ Answered \/ Bind \/ Stop \/ Tail
Peer == Hold \/ Release
ConsoleStep ==
  Told \/ Forget \/ Test \/ Join \/ Joined \/ Clear \/ Done \/ SendMessage
Command ==
  \/ \E n \in Names : Connect(n) \/ AskDisconnect(n, FALSE)
  \/ Quit \/ SendCheck \/ Restart
Failure ==
  ConnectGivesUp \/ ListenerDies \/ DisconnectGivesUp \/ ConsoleDies \/ Kill
Environment ==
  \/ \E r \in late : ServeLate(r)
  \/ \E n \in Names : Others(n)

ClientNext ==
  \/ ListenerStep \/ ConsoleStep \/ Command \/ Failure \/ Environment \/ Peer
  \/ ServeConnect \/ ServeDisconnect

ClientSpec == ClientInit /\ [][ClientNext]_clientVars

(* Both threads are run, accept returns to the test every ten seconds, and *)
(* the server serves what it is asked.  Nothing is assumed of the user or  *)
(* of whoever connects to the listener (Peer).                             *)
FairClient ==
  /\ ClientSpec
  /\ WF_clientVars(ListenerStep) /\ WF_clientVars(ConsoleStep)
  /\ WF_clientVars(ServeConnect) /\ WF_clientVars(ServeDisconnect)

-----------------------------------------------------------------------------
(* What the client promises. *)

(* A client that would start a listening thread has none running: the test *)
(* of connect(), the join of disconnect() and the last assignment of the   *)
(* thread leave no room for a second one.                                  *)
OneListener == ~lt => listener.pc \notin Live

(* The user the server has at an address of this client is the user of the *)
(* thread that listens there or is about to, but for the four ways the     *)
(* code has of leaving a session behind (order of the answer,              *)
(* _terminate, the tail of _listen_server).                                *)
NoGhostSession ==
  \A n \in Names :
    Connected(n) /\ AddrOf(n) \in {Here} \X OwnPorts =>
      Ours(n) \/ mishaps \cap {"foreign", "gaveUp", "died", "killed"} # {}

(* While the client listens for a user the server has that user there,     *)
(* unless somebody else ended the session, or the client is just ending it *)
(* (_connected_user, listening thread).                                    *)
SessionIsTrue ==
  listener.pc \in {"loop", "held"} =>
    \/ Ours(listener.name)
    \/ console.pc \in Disconnecting \ {"asked", "done"} /\ console.rc = 0
    \/ mishaps \cap {"dropped", "gaveUp"} # {}

(* "`c> DISCONNECT OK`, `_connected_user` puesto a `None`": when DISCONNECT *)
(* was answered OK nothing is left of the session at its return, although   *)
(* the thread sets the same fields meanwhile.                               *)
DisconnectCleans ==
  console.pc = "done" /\ console.rc = 0 =>
    /\ ~lt /\ listener.pc \notin Live
    /\ cu = NoName \/ "died" \in mishaps

(* A request to stop does not outlive the DISCONNECT that made it, to stop *)
(* the thread of a later CONNECT, unless that DISCONNECT was for somebody  *)
(* else, or it or the thread failed (_terminate).                          *)
NoStaleStop ==
  console.pc = "prompt" /\ terminate =>
    mishaps \cap {"foreign", "gaveUp", "died"} # {}

(* A SEND goes out in the name of a user: the field that was tested is not *)
(* emptied before it is read again, the same mishaps apart (send()).       *)
SenderIsKnown ==
  console.pc = "send" =>
    cu # NoName \/ mishaps \cap {"foreign", "gaveUp", "died"} # {}

(* DISCONNECT comes back to the prompt, since the thread it joins gets back *)
(* to its test of _terminate, unless somebody who connected to the listener *)
(* sends nothing and stays for ever: recv() on the accepted socket has no   *)
(* timeout, and then neither the thread nor the console gets any further    *)
(* (disconnect(), _listen_server; FairClient).                              *)
DisconnectReturns ==
  []<>(listener.pc # "held") =>
    (console.pc \in Disconnecting ~> console.pc \notin Disconnecting)

-----------------------------------------------------------------------------
(* The invariants above, with what the code takes for granted between the  *)
(* steps of the two threads.                                               *)

Excused(set) == mishaps \cap set # {}
Own(n)       == Connected(n) /\ AddrOf(n) \in {Here} \X OwnPorts
Stopping     == {"forget", "test", "join", "joining"}

(* The local variables of both threads agree with their places. *)
PlacesOK ==
  /\ listener.pc \in {"start", "asked", "answered", "bind", "loop", "held"} =>
       listener.name \in Names
  /\ listener.pc \in {"asked", "answered", "bind", "loop", "held"} =>
       listener.port \in OwnPorts
  /\ listener.pc \in {"bind", "loop", "held"} => listener.rc = 0
  /\ console.pc = "asked" => console.name \in Names
  /\ console.pc = "asked" => console.rc = 0
  /\ console.pc = "clear" => listener.pc \notin Live
  /\ late # {} => "gaveUp" \in mishaps

(* _connected_user is set only while the thread listens or clears it. *)
UserOK ==
  /\ cu # NoName => \/ listener.pc \in {"bind", "loop", "held", "tail1", "tail2"}
                    \/ "died" \in mishaps \/ console.pc = "exited"
  /\ cu # NoName /\ listener.pc \in {"tail1", "tail2"} =>
       \/ console.pc \in Stopping \cup {"exited"}
       \/ Excused({"foreign", "gaveUp", "died"})

(* A DISCONNECT answered OK found a thread that listens or will, and until *)
(* that thread has ended nobody is connected at this client and no other   *)
(* CONNECT is on its way; _terminate is set for that thread alone.         *)
StopOK ==
  /\ console.pc = "told" /\ console.rc = 0 =>
       \/ listener.pc \in {"answered", "bind", "loop", "held"} /\ listener.rc = 0
       \/ Excused({"foreign", "gaveUp", "died"})
  /\ terminate =>
       \/ /\ console.pc \in Stopping /\ console.rc = 0
          /\ listener.pc \in {"answered", "bind", "loop", "held", "tail1"}
       \/ console.pc = "exited" /\ listener.pc \notin Live
       \/ Excused({"foreign", "gaveUp", "died"})
  /\ console.pc \in Stopping \cup {"told", "clear"} /\ console.rc = 0 =>
       \/ listener.pc \notin {"start", "asked"} /\ \A n \in Names : ~Own(n)
       \/ Excused({"foreign", "gaveUp", "died", "killed"})

(* From the answer of CONNECT on the server has the session. *)
SessionOK ==
  listener.pc \in {"answered", "bind", "loop", "held"} /\ listener.rc = 0 =>
    \/ Ours(listener.name)
    \/ console.pc \in Stopping \cup {"told", "clear"} /\ console.rc = 0
    \/ Excused({"dropped", "gaveUp"})

(* Inductive, and implies the invariants of this module (ClientProofs). *)
ClientInductive ==
  /\ ClientTypeOK /\ PlacesOK /\ UserOK /\ StopOK /\ SessionOK
  /\ OneListener /\ NoGhostSession /\ SenderIsKnown
  /\ console.pc = "done" /\ console.rc = 0 => ~lt
=============================================================================
