-------------------------------- MODULE Peers --------------------------------
(***************************************************************************)
(* USERS and GETFILE, src/clients/commands.py and server.c, handle_users:  *)
(* a client reads the list of connected users, line by line, while the     *)
(* server writes it from rows that change under its hands, keeps the       *)
(* addresses in a cache, and later asks the process it finds at one of     *)
(* them for a file, which comes over a connection of its own.              *)
(*                                                                         *)
(* The client is the one of user Me; its session, cut down to the fact     *)
(* that _connected_user is Me, is in Client.  One call runs at a time.      *)
(* The other clients connect, disconnect, leave without a word and take    *)
(* each other's ports.  A file is FileChunks blocks of 4096 bytes.         *)
(***************************************************************************)
EXTENDS UserStore, Sequences, FiniteSets

CONSTANTS Me,         \* the user of the client that asks
          MyAddr,     \* where that client listens
          NoName,     \* no user
          NoAddr,     \* no entry in the cache
          MaxUsers,   \* names handle_users has room for: 50 in the code
          Pieces,     \* each name cut at ':' and at blanks: a sequence of words
          HasFile,    \* the users on whose machines the file exists
          FileChunks, \* blocks of the file
          MaxMoves,   \* bound: arrivals and departures of other clients
          MaxFaults   \* bound: crashes of server and sender, failed SELECTs

\* What a word is as a user, as a host and as a number; 0: it is none.
Word == [name: Names, ip: Ips, port: Ports \cup {0}]

ASSUME PiecesAssumption == Pieces \in [Names -> Seq(Word)]

ASSUME PeersAssumption ==
  /\ Me \in Names /\ MyAddr \in Addrs /\ NoName \notin Names /\ NoAddr \notin Addrs
  /\ MaxUsers \in Nat \ {0} /\ FileChunks \in Nat \ {0} /\ HasFile \subseteq Names
  /\ IsFiniteSet(Names) /\ MaxMoves \in Nat /\ MaxFaults \in Nat

VARIABLES host,       \* [Addrs -> who listens there, or NoName]
          console,    \* the thread that reads the list and asks for the file
          handler,    \* the server's thread inside handle_users
          pipe,       \* what it has written and the client has not read yet
          closed,     \* its end of the connection is closed
          cache,      \* _connected_users_info
          transfer,   \* the thread of _handle_get_file
          sender,     \* the thread of _handle_send_file at the other client
          during,     \* history: sessions that existed during the query
          throughout, \* history: users connected since the query began
          cut,        \* history: the server died in the query, or a SELECT failed
          moves, faults

query     == <<console, handler, pipe, closed, cache>>
history   == <<during, throughout, cut>>
exchange  == <<transfer, sender>>
peersVars == <<store, host, query, exchange, history, moves, faults>>

Reading == {"code", "count", "lines"}
NoCopy  == [pc |-> "none", want |-> NoName, open |-> FALSE, got |-> 0,
            result |-> "none", why |-> {}]
NoSender == [pc |-> "none", who |-> NoName, sent |-> 0]

PeersTypeOK ==
  /\ StoreTypeOK
  /\ host \in [Addrs -> Names \cup {NoName}]
  /\ console \in [pc: Reading \cup {"prompt", "pick", "call", "request", "crashed"},
                  want: Names \cup {NoName}, left: 0..MaxUsers]
  /\ handler \in [pc: {"none", "check", "list", "count", "lines"}, left: SUBSET Names]
  /\ closed \in BOOLEAN
  /\ cache \in [Names -> Addrs \cup {NoAddr}]
  /\ transfer \in [pc: {"none", "accept", "receive"}, want: Names \cup {NoName},
                   open: BOOLEAN, got: 0..FileChunks, result: {"none", "ok"},
                   why: SUBSET {"stranger", "missing", "cut"}]
  /\ sender \in [pc: {"none", "connect", "open", "send"}, who: Names \cup {NoName},
                 sent: 0..FileChunks]
  /\ moves \in 0..MaxMoves /\ faults \in 0..MaxFaults

Sessions == {<<n, AddrOf(n)>> : n \in {k \in Names : Connected(k)}}
Online   == {n \in Names : Connected(n)}

\* Me has connected; the others are registered.
PeersInit ==
  /\ users = [n \in Names |->
                IF n = Me
                THEN [status |-> 1, ip |-> MyAddr[1], port |-> MyAddr[2], msg_counter |-> 0]
                ELSE [status |-> 0, ip |-> NoIp, port |-> 0, msg_counter |-> 0]]
  /\ host = [a \in Addrs |-> IF a = MyAddr THEN Me ELSE NoName]
  /\ messages = {} /\ nextRow = 1
  /\ console = [pc |-> "prompt", want |-> NoName, left |-> 0]
  /\ handler = [pc |-> "none", left |-> {}] /\ pipe = <<>> /\ closed = TRUE
  /\ cache = [n \in Names |-> NoAddr]
  /\ transfer = NoCopy /\ sender = NoSender
  /\ during = {} /\ throughout = {} /\ cut = FALSE /\ moves = 0 /\ faults = 0

-----------------------------------------------------------------------------
(* The line name::ip::port as the client reads it *)

\* replace(":", " ").split(): the words of the name, the host and the number.
Parts(n, a) ==
  Pieces[n] \o <<[name |-> n, ip |-> a[1], port |-> 0],
                 [name |-> n, ip |-> a[1], port |-> a[2]]>>

\* The entry of the cache that the line of user n at address a makes, if any:
\* the first word is the user, and the second or the third the port.
ReadAs(n, a) ==
  LET p == Parts(n, a)
  IN  IF Len(p) < 3 THEN {}
      ELSE IF p[2].port # 0 THEN {<<p[1].name, <<p[3].ip, p[2].port>>>>}
      ELSE IF p[3].port # 0 THEN {<<p[1].name, <<p[2].ip, p[3].port>>>>}
      ELSE {}

\* A name of one word is read as it was written.
Plain(n) == Len(Pieces[n]) = 1 /\ Pieces[n][1].name = n

-----------------------------------------------------------------------------
(* The query: the client's side *)

\* A new call waits for the last transfer to end (a bound: they share nothing).
AtPrompt == console.pc = "prompt" /\ transfer.pc = "none" /\ sender.pc = "none"

\* The request is sent and the cache emptied (users, _update_users_info).
Query(want) ==
  /\ console' = [pc |-> "code", want |-> want, left |-> 0]
  /\ handler' = [handler EXCEPT !.pc = "check"]
  /\ pipe' = <<>> /\ closed' = FALSE
  /\ cache' = [n \in Names |-> NoAddr]
  /\ during' = Sessions /\ throughout' = Online /\ cut' = FALSE
  /\ UNCHANGED <<store, host, exchange, moves, faults>>

Users == AtPrompt /\ Query(NoName)

\* users returns to the prompt; get_file goes on with what it has found.  The
\* histories keep what the cache may still be compared with.
Returned ==
  /\ console' = [console EXCEPT !.pc = IF console.want = NoName THEN "prompt" ELSE "pick"]
  /\ during' = {s \in during : \E e \in ReadAs(s[1], s[2]) : cache[e[1]] = e[2]}
  /\ throughout' = {} /\ cut' = FALSE

\* The next item, or the end of the stream.
Arrives == pipe # <<>> /\ pipe' = Tail(pipe)
Ended   == pipe = <<>> /\ closed /\ UNCHANGED pipe

ReadCode ==
  /\ console.pc = "code"
  /\ \/ /\ Arrives /\ Head(pipe) = 0
        /\ console' = [console EXCEPT !.pc = "count"] /\ UNCHANGED history
     \/ Arrives /\ Head(pipe) # 0 /\ Returned
     \/ Ended /\ Returned
  /\ UNCHANGED <<store, host, handler, closed, cache, exchange, moves, faults>>

\* int("") raises ValueError, which nothing catches: the console is gone.
ReadCount ==
  /\ console.pc = "count"
  /\ \/ Arrives /\ console' = [console EXCEPT !.pc = "lines", !.left = Head(pipe)]
     \/ Ended /\ console' = [console EXCEPT !.pc = "crashed"]
  /\ UNCHANGED <<store, host, handler, closed, cache, exchange, history, moves, faults>>

\* A line gives an address, or none if its words are not in order; the end of the
\* stream gives empty lines, which are skipped.
ReadLine ==
  /\ console.pc = "lines" /\ console.left > 0
  /\ \/ /\ Arrives
        /\ LET read == ReadAs(Head(pipe).name, Head(pipe).addr)
           IN  \/ \E e \in read : cache' = [cache EXCEPT ![e[1]] = e[2]]
               \/ read = {} /\ UNCHANGED cache
     \/ Ended /\ UNCHANGED cache
  /\ console' = [console EXCEPT !.left = @ - 1]
  /\ UNCHANGED <<store, host, handler, closed, exchange, history, moves, faults>>

\* Mistake: one line fewer than the count said.
WrongListed ==
  /\ console.pc = "lines" /\ console.left =< 1
  /\ Returned
  /\ UNCHANGED <<store, host, handler, pipe, closed, cache, exchange, moves, faults>>

\* As many lines as the count said: CONNECTED USERS ... OK.
Listed ==
  /\ console.pc = "lines" /\ console.left = 0
  /\ Returned
  /\ UNCHANGED <<store, host, handler, pipe, closed, cache, exchange, moves, faults>>

\* Ten seconds without a byte: what was read stays in the cache.  What the
\* server still writes is lost; handle_users changes nothing, so its thread is
\* forgotten.
GiveUp ==
  /\ console.pc \in Reading /\ pipe = <<>> /\ ~closed
  /\ Returned
  /\ handler' = [pc |-> "none", left |-> {}] /\ closed' = TRUE
  /\ UNCHANGED <<store, host, pipe, cache, exchange, moves, faults>>

\* The client is ended, or has ended by itself, and is started again.
Relaunch ==
  /\ console.pc \in {"prompt", "crashed"}
  /\ console' = [console EXCEPT !.pc = "prompt", !.want = NoName]
  /\ cache' = [n \in Names |-> NoAddr]
  /\ transfer' = NoCopy
  /\ sender' = IF sender.pc = "none" THEN NoSender ELSE sender
  /\ pipe' = <<>> /\ during' = {} /\ UNCHANGED <<throughout, cut>>
  /\ UNCHANGED <<store, host, handler, closed, moves, faults>>

-----------------------------------------------------------------------------
(* The query: handle_users *)

Answer(items, over) ==
  /\ pipe' = pipe \o items /\ closed' = over
  /\ UNCHANGED <<store, host, console, cache, exchange, history, moves, faults>>

\* Only a connected user is answered.
Check ==
  /\ handler.pc = "check"
  /\ \/ /\ ConnInfo(Me) = 0
        /\ handler' = [handler EXCEPT !.pc = "list"] /\ Answer(<<>>, FALSE)
     \/ /\ ConnInfo(Me) # 0
        /\ handler' = [handler EXCEPT !.pc = "none"]
        /\ Answer(<<IF ConnInfo(Me) = 1 THEN 2 ELSE 1>>, TRUE)

\* Mistake: names is filled past its end.
WrongList ==
  /\ handler.pc = "list"
  /\ handler' = [pc |-> "count", left |-> Online]
  /\ Answer(<<0>>, FALSE)

\* users_get_connected: all the users connected, as far as there is room.
List ==
  /\ handler.pc = "list"
  /\ \E names \in SUBSET Online :
       /\ Cardinality(names) =< MaxUsers
       /\ Cardinality(names) = MaxUsers \/ names = Online
       /\ handler' = [pc |-> "count", left |-> names]
       /\ Answer(<<0>>, FALSE)

\* The code and the count are sent one after the other.
SendCount ==
  /\ handler.pc = "count"
  /\ handler' = [handler EXCEPT !.pc = "lines"]
  /\ Answer(<<Cardinality(handler.left)>>, FALSE)

\* Mistake: the address is not read again, and the user may have gone.
WrongLine ==
  /\ handler.pc = "lines"
  /\ \E n \in handler.left :
       /\ handler' = [handler EXCEPT !.left = @ \ {n}]
       /\ Answer(<<[name |-> n, addr |-> AddrOf(n)]>>, FALSE)

\* One line for each name still connected, with the address it has now.
Line ==
  /\ handler.pc = "lines"
  /\ \E n \in handler.left :
       /\ handler' = [handler EXCEPT !.left = @ \ {n}]
       /\ IF ConnInfo(n) = 0
          THEN Answer(<<[name |-> n, addr |-> AddrOf(n)]>>, FALSE)
          ELSE Answer(<<>>, FALSE)

Close ==
  /\ handler.pc = "lines" /\ handler.left = {}
  /\ handler' = [handler EXCEPT !.pc = "none"]
  /\ Answer(<<>>, TRUE)

\* The server is killed: the connection ends where it is.
ServerDies ==
  /\ handler.pc # "none" /\ faults < MaxFaults /\ faults' = faults + 1
  /\ handler' = [pc |-> "none", left |-> {}] /\ closed' = TRUE /\ cut' = TRUE
  /\ UNCHANGED <<store, host, console, pipe, cache, exchange, during, throughout, moves>>

\* A SELECT fails: the user that asks seems not to exist, there is no list, the
\* list ends early, or a user of the list has no line.
SelectFails ==
  /\ faults < MaxFaults /\ faults' = faults + 1 /\ cut' = TRUE
  /\ \/ /\ handler.pc \in {"check", "list"}
        /\ handler' = [handler EXCEPT !.pc = "none"]
        /\ pipe' = <<2>> /\ closed' = TRUE
     \/ /\ handler.pc = "list"
        /\ \E names \in SUBSET Online :
             /\ Cardinality(names) =< MaxUsers
             /\ handler' = [pc |-> "count", left |-> names]
        /\ pipe' = <<0>> /\ UNCHANGED closed
     \/ /\ handler.pc = "lines"
        /\ \E n \in handler.left : handler' = [handler EXCEPT !.left = @ \ {n}]
        /\ UNCHANGED <<pipe, closed>>
  /\ UNCHANGED <<store, host, console, cache, exchange, during, throughout, moves>>

-----------------------------------------------------------------------------
(* The transfer: the client that asks *)

\* The cache is asked first, whatever its age.
GetFile(n) ==
  /\ AtPrompt
  /\ \/ cache[n] = NoAddr /\ Query(n)
     \/ /\ cache[n] # NoAddr
        /\ console' = [console EXCEPT !.pc = "call", !.want = n]
        /\ UNCHANGED <<store, host, handler, pipe, closed, cache, exchange, history,
                       moves, faults>>

\* FILE TRANSFER FAILED, user not connected: back to the prompt.
Pick ==
  /\ console.pc = "pick"
  /\ console' = IF cache[console.want] # NoAddr THEN [console EXCEPT !.pc = "call"]
                ELSE [console EXCEPT !.pc = "prompt", !.want = NoName]
  /\ UNCHANGED <<store, host, handler, pipe, closed, cache, exchange, history, moves, faults>>

\* A socket of its own, and a thread that accepts on it.
Call ==
  /\ console.pc = "call"
  /\ transfer' = [NoCopy EXCEPT !.pc = "accept", !.want = console.want, !.open = TRUE]
  /\ console' = [console EXCEPT !.pc = "request"]
  /\ UNCHANGED <<store, host, handler, pipe, closed, cache, sender, history, moves, faults>>

\* The request goes to whoever listens at the cached address, whose listening
\* thread starts _handle_send_file; when nobody does, recv_socket is closed.
AskFile ==
  LET who == host[cache[console.want]]
  IN  /\ console.pc = "request"
      /\ console' = [console EXCEPT !.pc = "prompt", !.want = NoName]
      /\ \/ /\ who = NoName
            /\ transfer' = [transfer EXCEPT !.open = FALSE]
            /\ UNCHANGED sender
         \/ /\ who # NoName
            /\ sender' = [pc |-> "connect", who |-> who, sent |-> 0]
            /\ transfer' = [transfer EXCEPT !.why =
                              IF who = transfer.want THEN {} ELSE {"stranger"}]
      /\ UNCHANGED <<store, host, handler, pipe, closed, cache, history, moves, faults>>

\* Mistake: accept waits for ever, unless its socket is closed.
WrongAcceptTimeout ==
  /\ transfer.pc = "accept" /\ ~transfer.open
  /\ transfer' = NoCopy
  /\ UNCHANGED <<store, host, query, sender, history, moves, faults>>

\* accept gives up after ten seconds, or fails on the closed socket.
AcceptTimeout ==
  /\ transfer.pc = "accept"
  /\ transfer' = NoCopy
  /\ UNCHANGED <<store, host, query, sender, history, moves, faults>>

\* The next block; nothing but the sender's process ends the wait for it.
Receive ==
  /\ transfer.pc = "receive" /\ transfer.got < sender.sent
  /\ transfer' = [transfer EXCEPT !.got = @ + 1]
  /\ UNCHANGED <<store, host, query, sender, history, moves, faults>>

\* Mistake: what has come so far is taken for the file.
WrongEndOfFile ==
  /\ transfer.pc = "receive"
  /\ transfer' = [transfer EXCEPT !.pc = "none", !.open = FALSE, !.result = "ok"]
  /\ UNCHANGED <<store, host, query, sender, history, moves, faults>>

\* The end of the stream is the end of the file: GETFILE OK.
EndOfFile ==
  /\ transfer.pc = "receive" /\ sender.pc = "none" /\ transfer.got = sender.sent
  /\ transfer' = [transfer EXCEPT !.pc = "none", !.open = FALSE, !.result = "ok"]
  /\ UNCHANGED <<store, host, query, sender, history, moves, faults>>

\* The file cannot be written, or the connection is reset: GETFILE FAIL.
CopyFails ==
  /\ transfer.pc = "receive"
  /\ transfer' = NoCopy
  /\ UNCHANGED <<store, host, query, sender, history, moves, faults>>

-----------------------------------------------------------------------------
(* The transfer: _handle_send_file at the client that is asked *)

\* It connects back, if the other still accepts.
Dial ==
  /\ sender.pc = "connect"
  /\ \/ /\ transfer.pc = "accept" /\ transfer.open
        /\ transfer' = [transfer EXCEPT !.pc = "receive"]
        /\ sender' = [sender EXCEPT !.pc = "open"]
     \/ /\ transfer.pc = "none"
        /\ sender' = NoSender /\ UNCHANGED transfer
  /\ UNCHANGED <<store, host, query, history, moves, faults>>

\* A file that cannot be opened closes the connection like a file at its end.
Open ==
  /\ sender.pc = "open"
  /\ \/ /\ sender.who \in HasFile
        /\ sender' = [sender EXCEPT !.pc = "send"] /\ UNCHANGED transfer
     \/ /\ sender.who \notin HasFile
        /\ sender' = [sender EXCEPT !.pc = "none"]
        /\ transfer' = [transfer EXCEPT !.why = @ \cup {"missing"}]
  /\ UNCHANGED <<store, host, query, history, moves, faults>>

SendChunk ==
  /\ sender.pc = "send"
  /\ sender' = IF sender.sent < FileChunks THEN [sender EXCEPT !.sent = @ + 1]
               ELSE [sender EXCEPT !.pc = "none"]
  /\ UNCHANGED <<store, host, query, transfer, history, moves, faults>>

\* The process that sends is killed, and its connections with it.
SenderDies ==
  /\ sender.pc # "none" /\ faults < MaxFaults /\ faults' = faults + 1
  /\ sender' = [sender EXCEPT !.pc = "none"]
  /\ transfer' = [transfer EXCEPT !.why = @ \cup {"cut"}]
  /\ host' = [a \in Addrs |-> IF host[a] = sender.who THEN NoName ELSE host[a]]
  /\ UNCHANGED <<store, query, history, moves>>

-----------------------------------------------------------------------------
(* The other clients *)

Asking == console.pc \in Reading

\* The histories follow the sessions while the list is read.
Move ==
  /\ moves < MaxMoves /\ moves' = moves + 1
  /\ during' = IF Asking THEN during \cup {<<n, <<users'[n].ip, users'[n].port>>>> :
                                 n \in {k \in Names : users'[k].status = 1}}
               ELSE during
  /\ throughout' = IF Asking THEN {n \in throughout : users'[n].status = 1} ELSE throughout
  /\ UNCHANGED <<query, exchange, cut, faults>>

\* CONNECT, from a port that nobody holds.
Arrive(n, a) ==
  /\ host[a] = NoName /\ n # Me
  /\ UserConnect(n, a[1], a[2], 0)
  /\ host' = [host EXCEPT ![a] = n]
  /\ Move

\* DISCONNECT, or a delivery that fails: the listening thread may live on.
Depart(n) == UserDisconnect(n, 0) /\ UNCHANGED host /\ Move

\* The process at an address ends; the server does not notice.
Vanish(a) ==
  /\ host[a] \notin {NoName, Me}
  /\ host' = [host EXCEPT ![a] = NoName]
  /\ UNCHANGED store
  /\ Move

Client   == Users \/ ReadCode \/ ReadCount \/ ReadLine \/ Listed \/ GiveUp \/ Pick
              \/ Call \/ AskFile \/ \E n \in Names : GetFile(n)
Handler  == Check \/ List \/ SendCount \/ Line \/ Close
Copy     == AcceptTimeout \/ Receive \/ EndOfFile
Sender   == Dial \/ Open \/ SendChunk
Faults   == ServerDies \/ SelectFails \/ SenderDies \/ CopyFails \/ Relaunch
Others   == \/ \E n \in Names, a \in Addrs : Arrive(n, a)
            \/ \E n \in Names : Depart(n)
            \/ \E a \in Addrs : Vanish(a)

PeersNext == Client \/ Handler \/ Copy \/ Sender \/ Faults \/ Others

PeersSpec == PeersInit /\ [][PeersNext]_peersVars

\* The console goes on reading until it is back at its prompt; the thread that
\* waits for a file runs.  Neither the server nor the other clients owe anything.
Returns == ReadCode \/ ReadCount \/ ReadLine \/ Listed \/ GiveUp \/ Pick \/ Call \/ AskFile

FairPeers ==
  /\ PeersSpec
  /\ WF_peersVars(Returns) /\ WF_peersVars(Copy)

-----------------------------------------------------------------------------
(* Properties *)

\* An address in the cache was the user's, at the server, at some time during
\* the query that put it there, though each line is read from the data base
\* after the list of names was; or the line of somebody whose name has a ':' or
\* a blank was taken for the user's: "x:5" at a host gives x an address that x
\* never had (server.c, handle_users; commands.py, users, _update_users_info).
CacheWasTrue ==
  \A n \in Names : cache[n] # NoAddr =>
    \/ <<n, cache[n]>> \in during
    \/ \E s \in during : ~Plain(s[1]) /\ <<n, cache[n]>> \in ReadAs(s[1], s[2])

\* A query that ends with its list has every user of a plain name who was
\* connected from its first byte to its last, as long as they are not more than
\* MaxUsers, the server did not die and no SELECT failed; those that came or went
\* meanwhile may be missing, and those with a ':' in the name ("a:b").
ListsTheConnected ==
  [][ Listed /\ ~cut /\ Cardinality({s[1] : s \in during}) =< MaxUsers
        => \A n \in throughout : Plain(n) => cache[n] # NoAddr ]_peersVars

\* GETFILE OK means the whole file of the user that was asked, unless the
\* address was another's by then, the file could not be opened or the sender
\* was killed: the end of the stream looks the same in each of them (commands.py,
\* _handle_get_file and _handle_send_file).
FileIsWhole ==
  transfer.result = "ok" =>
    \/ sender.who = transfer.want /\ transfer.got = FileChunks
    \/ transfer.why # {}

\* Whoever has been asked for a file sends it or hangs up.
OwnersHangUp == []<>(sender.pc \notin {"open", "send"})

\* USERS and GETFILE return to the prompt or end with the console, whatever the
\* server and the other clients do: each of their waits has a timeout or ends with
\* the connection.  The thread that waits for a file ends too, unless the owner
\* keeps the connection open and sends nothing: recv() on the accepted socket has
\* no timeout (commands.py, _handle_get_file).
CallsEnd ==
  /\ console.pc \notin {"prompt", "crashed"} ~> console.pc \in {"prompt", "crashed"}
  /\ OwnersHangUp => (transfer.pc # "none" ~> transfer.pc = "none")

-----------------------------------------------------------------------------
(* What the promises rest on *)

\* Everybody is registered; a session has an address.
RowsOK ==
  \A n \in Names : Exists(n) /\ (Connected(n) => AddrOf(n) \in Addrs)

\* The histories are what their names say while the client asks.
HistoryOK ==
  /\ \A s \in during : s[1] \in Names
  /\ Asking => Sessions \subseteq during /\ throughout \subseteq Online

\* An entry of the cache is what the line of some session says to the client.
CacheRead ==
  \A n \in Names : cache[n] # NoAddr =>
    \E s \in during \cap (Names \X Addrs) : <<n, cache[n]>> \in ReadAs(s[1], s[2])

\* The answer is a code, a count and lines.  Of its items the client has read
\* the first Taken, and handle_users has written the first Written.
Taken   == CASE console.pc = "code"  -> 0
             [] console.pc = "count" -> 1
             [] OTHER                -> 2
Written == Taken + Len(pipe)
Lines   == [name: Names, addr: Addrs]

ItemOK(i) ==
  /\ Taken + i = 1 =>
       /\ pipe[i] \in {0, 1, 2}
       /\ pipe[i] # 0 => Len(pipe) = 1 /\ handler.pc = "none"
  /\ Taken + i = 2 => pipe[i] \in 0..MaxUsers
  /\ Taken + i > 2 =>
       pipe[i] \in Lines /\ <<pipe[i].name, pipe[i].addr>> \in during

\* Lines that the count has announced and the client has not read.
Due == IF console.pc = "lines" THEN console.left ELSE pipe[2 - Taken]

PipeOK ==
  /\ closed <=> handler.pc = "none"
  /\ Asking => \A i \in 1..Len(pipe) : ItemOK(i)
  /\ handler.pc \in {"check", "list"} => Asking /\ Written = 0
  /\ handler.pc = "count" =>
       Asking /\ Written = 1 /\ Cardinality(handler.left) =< MaxUsers
  /\ Asking /\ handler.pc = "lines" => Written >= 2
  /\ Asking /\ Written >= 2 =>
       /\ handler.pc = "none" => handler.left = {}
       /\ Written - 2 + Cardinality(handler.left) =< Due

\* Nobody who was connected throughout is forgotten on the way.
InPipe(n) == \E i \in 1..Len(pipe) : Taken + i > 2 /\ pipe[i].name = n
ListOK ==
  LET few == Cardinality({s[1] : s \in during}) =< MaxUsers
  IN Asking /\ ~cut /\ few /\ (handler.pc = "count" \/ Written >= 2)
       => \A n \in throughout :
            Plain(n) => n \in handler.left \/ InPipe(n) \/ cache[n] # NoAddr

\* One transfer at a time, for a user the cache has an address of.
CallOK ==
  LET At(places) == console.pc \in places IN
  /\ At({"pick", "call", "request"}) => console.want \in Names
  /\ At({"call", "request"}) => cache[console.want] # NoAddr
  /\ At(Reading \cup {"pick", "call"}) => transfer.pc = "none" /\ sender.pc = "none"
  /\ At({"request"}) =>
       transfer.pc # "receive" /\ transfer.result = "none" /\ sender.pc = "none"

\* What the transfer lacks of the file is accounted for.
CopyOK ==
  LET right == sender.who = transfer.want \/ "stranger" \in transfer.why
  IN
  /\ transfer.result = "ok" => transfer.pc = "none" /\ sender.pc = "none"
  /\ transfer.pc = "accept" =>
       /\ transfer.got = 0 /\ sender.pc \in {"none", "connect"}
       /\ sender.pc = "connect" => right
  /\ sender.pc \in {"connect", "open"} => sender.sent = 0
  /\ transfer.pc = "receive" =>
       /\ right /\ sender.pc # "connect" /\ transfer.got =< sender.sent
       /\ sender.pc = "none" => \/ sender.sent = FileChunks
                                \/ transfer.why \cap {"missing", "cut"} # {}

\* Inductive (PeersProofs).
PeersInductive ==
  /\ PeersTypeOK /\ RowsOK /\ HistoryOK /\ PipeOK /\ ListOK /\ CallOK /\ CopyOK
  /\ CacheRead /\ CacheWasTrue /\ FileIsWhole
=============================================================================
