------------------------------ MODULE PeersProofs ------------------------------
(***************************************************************************)
(* The promises of Peers hold for every set of users and addresses, every  *)
(* room for names, every length of a file and every bound.                 *)
(***************************************************************************)
EXTENDS Peers, UserStoreProofs, FiniteSetTheorems, SequenceTheorems

(* Taking the first item of a sequence. *)
LEMMA TakeItem ==
  ASSUME NEW S, NEW s \in Seq(S), s # <<>>
  PROVE  /\ Tail(s) \in Seq(S) /\ Len(s) \in Nat \ {0} /\ Len(Tail(s)) = Len(s) - 1
         /\ Head(s) = s[1]
         /\ \A i \in 1..Len(Tail(s)) : i + 1 \in 1..Len(s) /\ Tail(s)[i] = s[i + 1]
OBVIOUS

(* Adding an item to a sequence. *)
LEMMA AddItem ==
  ASSUME NEW S, NEW s \in Seq(S), NEW x \in S
  PROVE  /\ s \o <<x>> \in Seq(S) /\ Len(s) \in Nat /\ Len(s \o <<x>>) = Len(s) + 1
         /\ (s \o <<x>>)[Len(s) + 1] = x
         /\ \A i \in 1..Len(s) : (s \o <<x>>)[i] = s[i]
OBVIOUS

(* Adding nothing. *)
LEMMA AddNone ==
  ASSUME NEW S, NEW s \in Seq(S)
  PROVE  s \o <<>> = s
OBVIOUS

(* Adding two items to a sequence of one. *)
LEMMA AddTwo ==
  ASSUME NEW S, NEW s \in Seq(S), NEW x \in S, NEW y \in S, Len(s) = 1
  PROVE  /\ Len(s \o <<x, y>>) = 3 /\ (s \o <<x, y>>)[1] = s[1]
         /\ (s \o <<x, y>>)[2] = x /\ (s \o <<x, y>>)[3] = y
<1> DEFINE t == <<x, y>>
<1>1. t \in Seq(S) /\ Len(t) = 2 /\ t[1] = x /\ t[2] = y OBVIOUS
<1>2. s \in Seq(S) OBVIOUS
<1> HIDE DEF t
<1>3. /\ Len(s \o t) = Len(s) + Len(t)
      /\ \A i \in 1..(Len(s) + Len(t)) :
           (s \o t)[i] = IF i <= Len(s) THEN s[i] ELSE t[i - Len(s)]
  BY <1>1, <1>2, ConcatProperties
<1>4. Len(s \o t) = 3 BY <1>1, <1>3
<1>5. (s \o t)[1] = s[1] /\ (s \o t)[2] = t[1] /\ (s \o t)[3] = t[2]
  BY <1>1, <1>3
<1>6. QED BY <1>1, <1>4, <1>5 DEF t

(* The words of a line, as long as the name's and two more. *)
LEMMA PartsAre ==
  ASSUME NEW n \in Names, NEW a \in Addrs
  PROVE  /\ Parts(n, a) \in Seq(Word)
         /\ Len(Pieces[n]) = 1 =>
              /\ Len(Parts(n, a)) = 3
              /\ Parts(n, a)[1] = Pieces[n][1]
              /\ Parts(n, a)[2] = [name |-> n, ip |-> a[1], port |-> 0]
              /\ Parts(n, a)[3] = [name |-> n, ip |-> a[1], port |-> a[2]]
<1> DEFINE h == [name |-> n, ip |-> a[1], port |-> 0]
           m == [name |-> n, ip |-> a[1], port |-> a[2]]
<1>1. h \in Word /\ m \in Word /\ Pieces[n] \in Seq(Word)
  BY PiecesAssumption DEF Word, Addrs
<1>2. Parts(n, a) = Pieces[n] \o <<h, m>> BY DEF Parts
<1> HIDE DEF h, m
<1>3. Parts(n, a) \in Seq(Word) BY <1>1, <1>2
<1>4. ASSUME Len(Pieces[n]) = 1
      PROVE  /\ Len(Parts(n, a)) = 3 /\ Parts(n, a)[1] = Pieces[n][1]
             /\ Parts(n, a)[2] = h /\ Parts(n, a)[3] = m
  BY <1>1, <1>2, <1>4, AddTwo
<1>5. QED BY <1>3, <1>4 DEF h, m

(* Whatever a line is read as is a user and an address. *)
LEMMA EntryTyped ==
  ASSUME NEW n \in Names, NEW a \in Addrs, NEW e \in ReadAs(n, a)
  PROVE  e \in Names \X Addrs
<1> DEFINE p == Parts(n, a)
<1>1. p \in Seq(Word) BY PartsAre
<1>2. /\ Len(p) >= 3
      /\ \/ p[2].port # 0 /\ e = <<p[1].name, <<p[3].ip, p[2].port>>>>
         \/ p[3].port # 0 /\ e = <<p[1].name, <<p[2].ip, p[3].port>>>>
  <2>1. Len(p) \in Nat BY <1>1
  <2>2. QED BY <2>1 DEF ReadAs
<1> HIDE DEF p
<1>3. p[1] \in Word /\ p[2] \in Word /\ p[3] \in Word BY <1>1, <1>2
<1>4. QED BY <1>2, <1>3 DEF Word, Addrs

(* The line of a user whose name is one word is read as it was written. *)
LEMMA PlainRead ==
  ASSUME NEW n \in Names, Plain(n), NEW a \in Addrs
  PROVE  ReadAs(n, a) = {<<n, a>>}
<1>1. a[2] # 0 /\ a = <<a[1], a[2]>> BY PortsAssumption DEF Addrs
<1>2. /\ Len(Parts(n, a)) = 3 /\ Parts(n, a)[1].name = n
      /\ Parts(n, a)[2].port = 0 /\ Parts(n, a)[3].port = a[2]
      /\ Parts(n, a)[2].ip = a[1]
  <2>1. Len(Pieces[n]) = 1 /\ Pieces[n][1].name = n BY DEF Plain
  <2>2. /\ Len(Parts(n, a)) = 3 /\ Parts(n, a)[1] = Pieces[n][1]
        /\ Parts(n, a)[2] = [name |-> n, ip |-> a[1], port |-> 0]
        /\ Parts(n, a)[3] = [name |-> n, ip |-> a[1], port |-> a[2]]
    BY <2>1, PartsAre
  <2>3. QED BY <2>1, <2>2
<1>3. QED BY <1>1, <1>2 DEF ReadAs

-----------------------------------------------------------------------------
(* The local variables of the four threads. *)
Places == Reading \cup {"prompt", "pick", "call", "request", "crashed"}
ConsoleState == [pc: Places, want: Names \cup {NoName}, left: 0..MaxUsers]
HandlerState == [pc: {"none", "check", "list", "count", "lines"}, left: SUBSET Names]
TransferState ==
  [pc: {"none", "accept", "receive"}, want: Names \cup {NoName}, open: BOOLEAN,
   got: 0..FileChunks, result: {"none", "ok"},
   why: SUBSET {"stranger", "missing", "cut"}]
SenderState ==
  [pc: {"none", "connect", "open", "send"}, who: Names \cup {NoName},
   sent: 0..FileChunks]

(* The items that may be in the pipe; a sequence, as TLC need not be told. *)
Items == Nat \cup Lines
PipeTypeOK == pipe \in Seq(Items)

PeersKnown == PeersInductive /\ PipeTypeOK

(* A thread that changes places keeps its other variables. *)
LEMMA ConsoleMoves ==
  ASSUME console \in ConsoleState, NEW place \in Places,
         console' = [console EXCEPT !.pc = place]
  PROVE  /\ console' \in ConsoleState /\ console'.pc = place
         /\ console'.want = console.want /\ console'.left = console.left
BY DEF ConsoleState

(* So for the handler. *)
LEMMA HandlerMoves ==
  ASSUME handler \in HandlerState,
         NEW place \in {"none", "check", "list", "count", "lines"},
         handler' = [handler EXCEPT !.pc = place]
  PROVE  /\ handler' \in HandlerState /\ handler'.pc = place
         /\ handler'.left = handler.left
BY DEF HandlerState

(* The types of the states a thread begins in. *)
LEMMA Beginnings ==
  /\ NoCopy \in TransferState /\ NoSender \in SenderState
  /\ \A n \in Names : [NoCopy EXCEPT !.pc = "accept", !.want = n, !.open = TRUE]
                         \in TransferState
  /\ \A n \in Names : [pc |-> "connect", who |-> n, sent |-> 0] \in SenderState
  /\ \A n \in Names \cup {NoName} :
       [pc |-> "code", want |-> n, left |-> 0] \in ConsoleState
<1>1. NoCopy \in TransferState
  BY PeersAssumption DEF NoCopy, TransferState
<1>2. NoSender \in SenderState
  BY PeersAssumption DEF NoSender, SenderState
<1>3. \A n \in Names : [NoCopy EXCEPT !.pc = "accept", !.want = n, !.open = TRUE]
                         \in TransferState
  BY <1>1 DEF TransferState
<1>4. 0 \in 0..FileChunks /\ 0 \in 0..MaxUsers BY PeersAssumption
<1>5. QED
  BY <1>1, <1>2, <1>3, <1>4 DEF SenderState, ConsoleState, Places, Reading

(* The type invariant, with the names of the local states. *)
LEMMA TypesAre ==
  PeersTypeOK <=>
    /\ StoreTypeOK
    /\ host \in [Addrs -> Names \cup {NoName}]
    /\ console \in ConsoleState /\ handler \in HandlerState
    /\ closed \in BOOLEAN /\ cache \in [Names -> Addrs \cup {NoAddr}]
    /\ transfer \in TransferState /\ sender \in SenderState
    /\ moves \in 0..MaxMoves /\ faults \in 0..MaxFaults
BY DEF PeersTypeOK, ConsoleState, HandlerState, TransferState, SenderState,
       Places

(* The query, its histories and what Returned does to the console. *)
LEMMA QueryTypes ==
  ASSUME PeersTypeOK, NEW want \in Names \cup {NoName}, Query(want)
  PROVE  PeersTypeOK' /\ PipeTypeOK'
<1>1. handler' \in HandlerState BY TypesAre, HandlerMoves DEF Query
<1>2. cache' \in [Names -> Addrs \cup {NoAddr}] BY DEF Query
<1>3. console' \in ConsoleState BY Beginnings DEF Query
<1>4. pipe' \in Seq(Items) BY DEF Query
<1>5. QED
  BY <1>1, <1>2, <1>3, <1>4
  DEF Query, store, exchange, PeersTypeOK, PipeTypeOK, StoreTypeOK,
      ConsoleState, HandlerState, Places

(* The next item, if there is one. *)
LEMMA NextItem ==
  ASSUME PeersKnown, Asking, Arrives
  PROVE  /\ pipe' \in Seq(Items) /\ Len(pipe) \in Nat \ {0}
         /\ Len(pipe') = Len(pipe) - 1
         /\ Head(pipe) = pipe[1] /\ ItemOK(1)
         /\ \A i \in 1..Len(pipe') : /\ i + 1 \in 1..Len(pipe)
                                     /\ pipe'[i] = pipe[i + 1]
<1>1. pipe \in Seq(Items) /\ pipe # <<>> /\ pipe' = Tail(pipe)
  BY DEF PeersKnown, PipeTypeOK, Arrives
<1>2. /\ pipe' \in Seq(Items) /\ Len(pipe) \in Nat \ {0}
      /\ Len(pipe') = Len(pipe) - 1 /\ Head(pipe) = pipe[1]
      /\ \A i \in 1..Len(pipe') : /\ i + 1 \in 1..Len(pipe)
                                  /\ pipe'[i] = pipe[i + 1]
  BY <1>1, TakeItem
<1>3. ItemOK(1) BY <1>2 DEF PeersKnown, PeersInductive, PipeOK
<1>4. QED BY <1>2, <1>3

(* The steps of the client that read the answer keep the types. *)
LEMMA ReadingTypes ==
  ASSUME PeersKnown, ReadCode \/ ReadCount \/ ReadLine \/ Listed \/ GiveUp
  PROVE  PeersTypeOK' /\ PipeTypeOK'
<1> USE DEF Reading
<1>1. /\ StoreTypeOK
      /\ host \in [Addrs -> Names \cup {NoName}]
      /\ console \in ConsoleState /\ handler \in HandlerState
      /\ closed \in BOOLEAN /\ cache \in [Names -> Addrs \cup {NoAddr}]
      /\ transfer \in TransferState /\ sender \in SenderState
      /\ moves \in 0..MaxMoves /\ faults \in 0..MaxFaults
      /\ pipe \in Seq(Items)
  BY TypesAre DEF PeersKnown, PeersInductive, PipeTypeOK
<1>2. ASSUME Returned PROVE console' \in ConsoleState
  BY <1>1, <1>2 DEF Returned, ConsoleState, Places
<1>3. Asking
  BY DEF ReadCode, ReadCount, ReadLine, Listed, GiveUp, Asking
<1>4. /\ UNCHANGED <<store, host, transfer, sender, moves, faults>>
      /\ UNCHANGED <<handler, closed>> \/ GiveUp
      /\ UNCHANGED cache \/ ReadLine
  BY DEF ReadCode, ReadCount, ReadLine, Listed, GiveUp, exchange
<1>5. handler' \in HandlerState /\ closed' \in BOOLEAN
  <2>1. [pc |-> "none", left |-> {}] \in HandlerState BY DEF HandlerState
  <2>2. CASE GiveUp BY <2>1, <2>2 DEF GiveUp
  <2>3. CASE ~GiveUp BY <2>3, <1>1, <1>4
  <2>4. QED BY <2>2, <2>3
<1>6. pipe' \in Seq(Items)
  <2>1. CASE Arrives BY <2>1, <1>3, NextItem
  <2>2. CASE UNCHANGED pipe BY <2>2, <1>1
  <2>3. QED
    BY <2>1, <2>2 DEF ReadCode, ReadCount, ReadLine, Listed, GiveUp, Ended
<1>7. cache' \in [Names -> Addrs \cup {NoAddr}]
  <2>1. CASE UNCHANGED cache BY <2>1, <1>1
  <2>2. CASE ReadLine /\ Arrives
    <3>1. Taken = 2 BY <2>2 DEF ReadLine, Taken
    <3>2. Head(pipe) \in Lines BY <3>1, <2>2, <1>3, NextItem DEF ItemOK
    <3>3. Head(pipe).name \in Names /\ Head(pipe).addr \in Addrs
      BY <3>2 DEF Lines
    <3>4. CASE UNCHANGED cache BY <3>4, <1>1
    <3>5. ASSUME NEW e \in ReadAs(Head(pipe).name, Head(pipe).addr),
                 cache' = [cache EXCEPT ![e[1]] = e[2]]
          PROVE  cache' \in [Names -> Addrs \cup {NoAddr}]
      <4>1. e[1] \in Names /\ e[2] \in Addrs BY <3>3, <3>5, EntryTyped
      <4>2. QED BY <4>1, <3>5, <1>1
    <3>6. QED BY <2>2, <3>4, <3>5 DEF ReadLine, Ended
  <2>3. QED BY <1>4, <2>1, <2>2 DEF ReadLine, Ended
<1>8. console' \in ConsoleState
  <2>1. CASE ReadCode BY <2>1, <1>1, <1>2 DEF ReadCode, ConsoleState, Places
  <2>2. CASE ReadCount
    <3>1. CASE Ended
      BY <3>1, <2>2, <1>1 DEF ReadCount, Ended, Arrives, ConsoleState, Places
    <3>2. CASE ~Ended
      <4>1. Arrives /\ Taken = 1 BY <3>2, <2>2 DEF ReadCount, Taken
      <4>2. Head(pipe) \in 0..MaxUsers BY <4>1, <1>3, NextItem DEF ItemOK
      <4>3. QED BY <3>2, <4>2, <2>2, <1>1 DEF ReadCount, ConsoleState, Places
    <3>3. QED BY <3>1, <3>2
  <2>3. CASE ReadLine
    <3>1. console.left - 1 \in 0..MaxUsers
      BY <2>3, <1>1, PeersAssumption DEF ReadLine, ConsoleState
    <3>2. console' = [console EXCEPT !.left = console.left - 1]
      BY <2>3 DEF ReadLine
    <3>3. QED BY <3>1, <3>2, <1>1 DEF ConsoleState
  <2>4. CASE Listed \/ GiveUp BY <2>4, <1>2 DEF Listed, GiveUp
  <2>5. QED BY <2>1, <2>2, <2>3, <2>4
<1>9. StoreTypeOK' BY <1>1, <1>4 DEF store, StoreTypeOK
<1>10. QED
  BY <1>1, <1>4, <1>5, <1>6, <1>7, <1>8, <1>9
  DEF PipeTypeOK, PeersTypeOK, ConsoleState, HandlerState, TransferState,
      SenderState, Places

(* handle_users keeps the types; a line has the address of a session. *)
LEMMA HandlerTypes ==
  ASSUME PeersKnown, Check \/ List \/ SendCount \/ Line \/ Close
  PROVE  PeersTypeOK' /\ PipeTypeOK'
<1>1. /\ StoreTypeOK /\ RowsOK
      /\ host \in [Addrs -> Names \cup {NoName}]
      /\ console \in ConsoleState /\ handler \in HandlerState
      /\ closed \in BOOLEAN /\ cache \in [Names -> Addrs \cup {NoAddr}]
      /\ transfer \in TransferState /\ sender \in SenderState
      /\ moves \in 0..MaxMoves /\ faults \in 0..MaxFaults
      /\ pipe \in Seq(Items)
  BY TypesAre DEF PeersKnown, PeersInductive, PipeTypeOK
<1>2. \A x \in Items : pipe \o <<x>> \in Seq(Items) BY <1>1, AddItem
<1>3. pipe \o <<>> \in Seq(Items) BY <1>1, AddNone
<1>4. UNCHANGED <<store, host, console, cache, exchange, moves, faults>>
  BY DEF Check, List, SendCount, Line, Close, Answer
<1>5. closed' \in BOOLEAN
  BY DEF Check, List, SendCount, Line, Close, Answer
<1>6. handler' \in HandlerState /\ pipe' \in Seq(Items)
  <2>1. CASE Check
    <3>1. handler' \in HandlerState
      BY <2>1, <1>1, HandlerMoves DEF Check
    <3>2. 1 \in Items /\ 2 \in Items BY DEF Items
    <3>3. QED BY <2>1, <1>2, <1>3, <3>1, <3>2 DEF Check, Answer
  <2>2. CASE List
    <3>1. \A names \in SUBSET Online : [pc |-> "count", left |-> names] \in HandlerState
      BY DEF HandlerState, Online
    <3>2. 0 \in Items BY DEF Items
    <3>3. QED BY <2>2, <1>2, <3>1, <3>2 DEF List, Answer
  <2>3. CASE SendCount
    <3>1. handler' \in HandlerState
      BY <2>3, <1>1, HandlerMoves DEF SendCount
    <3>2. Cardinality(handler.left) \in Items
      <4>1. handler.left \in SUBSET Names BY <1>1 DEF HandlerState
      <4>2. QED
        BY <4>1, PeersAssumption, FS_Subset, FS_CardinalityType DEF Items
    <3>3. QED BY <2>3, <1>2, <3>1, <3>2 DEF SendCount, Answer
  <2>4. CASE Line
    <3>1. PICK n \in handler.left :
            /\ handler' = [handler EXCEPT !.left = @ \ {n}]
            /\ IF ConnInfo(n) = 0
               THEN Answer(<<[name |-> n, addr |-> AddrOf(n)]>>, FALSE)
               ELSE Answer(<<>>, FALSE)
      BY <2>4 DEF Line
    <3>2. n \in Names /\ handler' \in HandlerState
      BY <3>1, <1>1 DEF HandlerState
    <3>3. ConnInfo(n) = 0 => [name |-> n, addr |-> AddrOf(n)] \in Items
      BY <3>2, <1>1 DEF RowsOK, ConnInfo, Connected, Items, Lines
    <3>4. QED BY <3>1, <3>2, <3>3, <1>2, <1>3 DEF Answer
  <2>5. CASE Close
    BY <2>5, <1>1, <1>3, HandlerMoves DEF Close, Answer
  <2>6. QED BY <2>1, <2>2, <2>3, <2>4, <2>5
<1>7. StoreTypeOK' BY <1>1, <1>4 DEF store, StoreTypeOK
<1>8. QED
  BY <1>1, <1>4, <1>5, <1>6, <1>7
  DEF PipeTypeOK, PeersTypeOK, ConsoleState, HandlerState, TransferState,
      SenderState, Places, exchange

(* So do the steps of a transfer. *)
LEMMA TransferTypes ==
  ASSUME PeersKnown,
         Pick \/ Call \/ AskFile \/ Copy \/ Sender
  PROVE  PeersTypeOK' /\ PipeTypeOK'
<1>1. /\ StoreTypeOK /\ RowsOK
      /\ host \in [Addrs -> Names \cup {NoName}]
      /\ console \in ConsoleState /\ handler \in HandlerState
      /\ closed \in BOOLEAN /\ cache \in [Names -> Addrs \cup {NoAddr}]
      /\ transfer \in TransferState /\ sender \in SenderState
      /\ moves \in 0..MaxMoves /\ faults \in 0..MaxFaults
      /\ pipe \in Seq(Items)
  BY TypesAre DEF PeersKnown, PeersInductive, PipeTypeOK
<1>2. UNCHANGED <<store, host, handler, pipe, closed, cache, moves, faults>>
  BY DEF Pick, Call, AskFile, Copy, Sender, AcceptTimeout, Receive, EndOfFile,
         Dial, Open, SendChunk, query
<1>3. console' \in ConsoleState
  BY <1>1, PeersAssumption
  DEF Pick, Call, AskFile, Copy, Sender, AcceptTimeout, Receive, EndOfFile,
      Dial, Open, SendChunk, query, ConsoleState, Places
<1>4. transfer' \in TransferState /\ sender' \in SenderState
  <2>1. CASE Pick BY <2>1, <1>1 DEF Pick, exchange
  <2>2. CASE Call
    <3>1. console.want \in Names
      BY <2>2 DEF Call, PeersKnown, PeersInductive, CallOK
    <3>2. QED BY <2>2, <3>1, <1>1, Beginnings DEF Call
  <2>3. CASE AskFile
    <3>1. host[cache[console.want]] \in Names \cup {NoName}
      BY <2>3, <1>1 DEF AskFile, PeersKnown, PeersInductive, CallOK
    <3>2. CASE host[cache[console.want]] = NoName
      <4>1. /\ transfer' = [transfer EXCEPT !.open = FALSE]
            /\ UNCHANGED sender
        BY <2>3, <3>2 DEF AskFile
      <4>2. QED BY <4>1, <1>1 DEF TransferState
    <3>3. CASE host[cache[console.want]] \in Names
      <4>1. /\ sender' = [pc |-> "connect", who |-> host[cache[console.want]],
                          sent |-> 0]
            /\ \E why \in SUBSET {"stranger", "missing", "cut"} :
                 transfer' = [transfer EXCEPT !.why = why]
        BY <2>3, <3>3, PeersAssumption DEF AskFile
      <4>2. transfer' \in TransferState BY <4>1, <1>1 DEF TransferState
      <4>3. sender' \in SenderState BY <4>1, <3>3, Beginnings
      <4>4. QED BY <4>2, <4>3
    <3>4. QED BY <3>1, <3>2, <3>3
  <2>4. CASE AcceptTimeout BY <2>4, <1>1, Beginnings DEF AcceptTimeout
  <2>5. CASE Receive
    <3>1. transfer.got + 1 \in 0..FileChunks
      BY <2>5, <1>1, PeersAssumption DEF Receive, TransferState, SenderState
    <3>2. transfer' = [transfer EXCEPT !.got = transfer.got + 1] /\ UNCHANGED sender
      BY <2>5 DEF Receive
    <3>3. QED BY <3>1, <3>2, <1>1 DEF TransferState
  <2>6. CASE EndOfFile BY <2>6, <1>1 DEF EndOfFile, TransferState
  <2>7. CASE Dial
    <3>1. \/ /\ transfer' = [transfer EXCEPT !.pc = "receive"]
             /\ sender' = [sender EXCEPT !.pc = "open"]
          \/ sender' = NoSender /\ UNCHANGED transfer
      BY <2>7 DEF Dial
    <3>2. [transfer EXCEPT !.pc = "receive"] \in TransferState
      BY <1>1 DEF TransferState
    <3>3. [sender EXCEPT !.pc = "open"] \in SenderState
      BY <1>1 DEF SenderState
    <3>4. QED BY <3>1, <3>2, <3>3, <1>1, Beginnings
  <2>8. CASE Open
    <3>1. \/ sender' = [sender EXCEPT !.pc = "send"] /\ UNCHANGED transfer
          \/ /\ sender' = [sender EXCEPT !.pc = "none"]
             /\ \E why \in SUBSET {"stranger", "missing", "cut"} :
                  transfer' = [transfer EXCEPT !.why = why]
      BY <2>8, <1>1 DEF Open, TransferState
    <3>2. QED BY <3>1, <1>1 DEF TransferState, SenderState
  <2>9. CASE SendChunk
    <3>1. UNCHANGED transfer BY <2>9 DEF SendChunk
    <3>2. CASE sender.sent < FileChunks
      <4>1. sender' = [sender EXCEPT !.sent = sender.sent + 1]
        BY <2>9, <3>2 DEF SendChunk
      <4>2. sender.sent + 1 \in 0..FileChunks
        BY <1>1, <3>2, PeersAssumption DEF SenderState
      <4>3. QED BY <4>1, <4>2, <3>1, <1>1 DEF SenderState
    <3>3. CASE ~(sender.sent < FileChunks)
      BY <2>9, <3>1, <3>3, <1>1 DEF SendChunk, SenderState
    <3>4. QED BY <3>2, <3>3
  <2>10. QED
    BY <2>1, <2>2, <2>3, <2>4, <2>5, <2>6, <2>7, <2>8, <2>9 DEF Copy, Sender
<1>5. StoreTypeOK' BY <1>1, <1>2 DEF store, StoreTypeOK
<1>6. QED
  BY <1>1, <1>2, <1>3, <1>4, <1>5
  DEF PipeTypeOK, PeersTypeOK, ConsoleState, HandlerState, TransferState,
      SenderState, Places

(* So do faults and restarts. *)
LEMMA FaultTypes ==
  ASSUME PeersKnown, Faults
  PROVE  PeersTypeOK' /\ PipeTypeOK'
<1>1. /\ StoreTypeOK
      /\ host \in [Addrs -> Names \cup {NoName}]
      /\ console \in ConsoleState /\ handler \in HandlerState
      /\ closed \in BOOLEAN /\ cache \in [Names -> Addrs \cup {NoAddr}]
      /\ transfer \in TransferState /\ sender \in SenderState
      /\ moves \in 0..MaxMoves /\ faults \in 0..MaxFaults
      /\ pipe \in Seq(Items)
  BY TypesAre DEF PeersKnown, PeersInductive, PipeTypeOK
<1>2. UNCHANGED <<store, moves>>
  BY DEF Faults, ServerDies, SelectFails, SenderDies, CopyFails, Relaunch
<1>3. faults' \in 0..MaxFaults
  BY <1>1, PeersAssumption DEF Faults, ServerDies, SelectFails, SenderDies, CopyFails, Relaunch
<1>4. console' \in ConsoleState
  BY <1>1
  DEF Faults, ServerDies, SelectFails, SenderDies, CopyFails, Relaunch, query,
      ConsoleState, Places
<1>5. handler' \in HandlerState
  <2>1. [pc |-> "none", left |-> {}] \in HandlerState BY DEF HandlerState
  <2>2. CASE SelectFails BY <2>2, <1>1 DEF SelectFails, HandlerState, Online
  <2>3. CASE ~SelectFails
    BY <2>1, <2>3, <1>1
    DEF Faults, ServerDies, SenderDies, CopyFails, Relaunch, query
  <2>4. QED BY <2>2, <2>3
<1>6. closed' \in BOOLEAN
  BY <1>1 DEF Faults, ServerDies, SelectFails, SenderDies, CopyFails, Relaunch, query
<1>7. cache' \in [Names -> Addrs \cup {NoAddr}]
  BY <1>1 DEF Faults, ServerDies, SelectFails, SenderDies, CopyFails, Relaunch, query
<1>8. host' \in [Addrs -> Names \cup {NoName}]
  BY <1>1 DEF Faults, ServerDies, SelectFails, SenderDies, CopyFails, Relaunch
<1>9. pipe' \in Seq(Items)
  <2>1. <<2>> \in Seq(Items) /\ <<0>> \in Seq(Items) /\ <<>> \in Seq(Items)
    BY DEF Items
  <2>2. QED
    BY <1>1, <2>1 DEF Faults, ServerDies, SelectFails, SenderDies, CopyFails, Relaunch, query
<1>10. transfer' \in TransferState /\ sender' \in SenderState
  <2>1. CASE SenderDies
    <3>1. /\ sender' = [sender EXCEPT !.pc = "none"]
          /\ \E why \in SUBSET {"stranger", "missing", "cut"} :
               transfer' = [transfer EXCEPT !.why = why]
      BY <2>1, <1>1 DEF SenderDies, TransferState
    <3>2. QED BY <3>1, <1>1 DEF TransferState, SenderState
  <2>2. CASE Relaunch BY <2>2, <1>1, Beginnings DEF Relaunch
  <2>3. CASE ServerDies \/ SelectFails
    BY <2>3, <1>1 DEF ServerDies, SelectFails, exchange
  <2>4. CASE CopyFails BY <2>4, <1>1, Beginnings DEF CopyFails
  <2>5. QED BY <2>1, <2>2, <2>3, <2>4 DEF Faults
<1>11. StoreTypeOK' BY <1>1, <1>2 DEF store, StoreTypeOK
<1>12. QED
  BY <1>2, <1>1, <1>3, <1>4, <1>5, <1>6, <1>7, <1>8, <1>9, <1>10, <1>11
  DEF PipeTypeOK, PeersTypeOK, ConsoleState, HandlerState, TransferState,
      SenderState, Places

(* So do the other clients, who come and go but do not unregister. *)
LEMMA OtherTypes ==
  ASSUME PeersKnown, Others
  PROVE  PeersTypeOK' /\ PipeTypeOK' /\ RowsOK'
<1>1. /\ StoreTypeOK /\ RowsOK
      /\ host \in [Addrs -> Names \cup {NoName}]
      /\ console \in ConsoleState /\ handler \in HandlerState
      /\ closed \in BOOLEAN /\ cache \in [Names -> Addrs \cup {NoAddr}]
      /\ transfer \in TransferState /\ sender \in SenderState
      /\ moves \in 0..MaxMoves /\ faults \in 0..MaxFaults
      /\ pipe \in Seq(Items)
  BY TypesAre DEF PeersKnown, PeersInductive, PipeTypeOK
<1>2. Move BY DEF Others, Arrive, Depart, Vanish
<1>3. /\ UNCHANGED <<console, handler, pipe, closed, cache, transfer, sender, faults>>
      /\ moves' \in 0..MaxMoves
  BY <1>1, <1>2, PeersAssumption DEF Move, query, exchange
<1>4. StoreTypeOK' /\ RowsOK' /\ host' \in [Addrs -> Names \cup {NoName}]
  <2>1. ASSUME NEW n \in Names, NEW a \in Addrs, Arrive(n, a)
        PROVE  StoreTypeOK' /\ RowsOK' /\ host' \in [Addrs -> Names \cup {NoName}]
    <3>1. UserConnect(n, a[1], a[2], 0) /\ a[1] \in Ips /\ a[2] \in Ports
          /\ a = <<a[1], a[2]>>
      BY <2>1 DEF Arrive, Addrs
    <3>2. StoreTypeOK' BY <3>1, <1>1, UserConnectType
    <3>3. AddrOf(n)' = a BY <3>1, <1>1, UserConnectEffect
    <3>4. ASSUME NEW k \in Names
          PROVE  (Exists(k) /\ (Connected(k) => AddrOf(k) \in Addrs))'
      <4>1. CASE users'[k] = users[k]
        BY <4>1, <1>1 DEF RowsOK, Exists, Connected, AddrOf
      <4>2. CASE k = n
        BY <4>2, <3>1, <3>3, <1>1, UserConnectRow DEF RowsOK, Exists
      <4>3. QED BY <4>1, <4>2, <3>1, <1>1, UserConnectRow
    <3>5. RowsOK' BY <3>4 DEF RowsOK
    <3>6. QED BY <3>2, <3>5, <2>1, <1>1 DEF Arrive
  <2>2. ASSUME NEW n \in Names, Depart(n)
        PROVE  StoreTypeOK' /\ RowsOK' /\ host' \in [Addrs -> Names \cup {NoName}]
    <3>1. UserDisconnect(n, 0) /\ UNCHANGED host BY <2>2 DEF Depart
    <3>2. StoreTypeOK' BY <3>1, <1>1, UserDisconnectType
    <3>3. RowsOK'
      BY <3>1, <1>1, UserDisconnectRow DEF RowsOK, Exists, Connected, AddrOf
    <3>4. QED BY <3>1, <3>2, <3>3, <1>1
  <2>3. ASSUME NEW a \in Addrs, Vanish(a)
        PROVE  StoreTypeOK' /\ RowsOK' /\ host' \in [Addrs -> Names \cup {NoName}]
    BY <2>3, <1>1
    DEF Vanish, store, StoreTypeOK, RowsOK, Exists, Connected, AddrOf
  <2>4. QED BY <2>1, <2>2, <2>3 DEF Others
<1>5. QED
  BY <1>1, <1>3, <1>4
  DEF PipeTypeOK, PeersTypeOK, ConsoleState, HandlerState, TransferState,
      SenderState, Places

-----------------------------------------------------------------------------
(* The transfers. *)
Transfers == CallOK /\ CopyOK /\ FileIsWhole

(* The console, on its way to a transfer and away from it. *)
LEMMA ConsoleKeepsTransfers ==
  ASSUME PeersKnown,
         \/ \E n \in Names \cup {NoName} : AtPrompt /\ Query(n)
         \/ \E n \in Names : GetFile(n)
         \/ ReadCode \/ ReadCount \/ ReadLine \/ Listed \/ GiveUp
         \/ Pick \/ Call \/ Relaunch
  PROVE  Transfers'
<1>1. /\ console \in ConsoleState /\ transfer \in TransferState
      /\ sender \in SenderState
      /\ CallOK /\ CopyOK /\ FileIsWhole
  BY TypesAre DEF PeersKnown, PeersInductive
<1> USE DEF Transfers, CallOK, CopyOK, FileIsWhole, Reading, exchange, NoCopy,
            NoSender, ConsoleState, Places
<1>2. ASSUME NEW n \in Names \cup {NoName}, AtPrompt, Query(n) PROVE Transfers'
  BY <1>1, <1>2 DEF AtPrompt, Query
<1>3. ASSUME NEW n \in Names, GetFile(n) PROVE Transfers'
  BY <1>1, <1>2, <1>3 DEF AtPrompt, GetFile
<1>4. ASSUME Returned, Asking, UNCHANGED exchange PROVE Transfers'
  BY <1>1, <1>4 DEF Returned, Asking
<1>5. CASE ReadCode
  BY <1>1, <1>4, <1>5 DEF ReadCode, Asking
<1>6. CASE ReadCount BY <1>1, <1>6 DEF ReadCount
<1>7. CASE ReadLine BY <1>1, <1>7 DEF ReadLine
<1>8. CASE Listed \/ GiveUp BY <1>4, <1>8 DEF Listed, GiveUp, Asking
<1>9. CASE Pick BY <1>1, <1>9 DEF Pick
<1>10. CASE Call BY <1>1, <1>10 DEF Call
<1>11. CASE Relaunch BY <1>1, <1>11, PeersAssumption DEF Relaunch
<1>12. QED
  BY <1>2, <1>3, <1>5, <1>6, <1>7, <1>8, <1>9, <1>10, <1>11

(* The two threads of a transfer. *)
LEMMA CopiesKeepTransfers ==
  ASSUME PeersKnown, AskFile \/ Copy \/ Sender \/ SenderDies \/ CopyFails
  PROVE  Transfers'
<1>1. /\ console \in ConsoleState /\ transfer \in TransferState
      /\ sender \in SenderState
      /\ CallOK /\ CopyOK /\ FileIsWhole
  BY TypesAre DEF PeersKnown, PeersInductive
<1> USE DEF Transfers, CallOK, CopyOK, FileIsWhole, Reading, query, NoCopy,
            NoSender
<1>2. CASE AskFile BY <1>1, <1>2 DEF AskFile, ConsoleState, TransferState
<1>3. CASE AcceptTimeout BY <1>1, <1>3 DEF AcceptTimeout
<1>4. CASE Receive BY <1>1, <1>4 DEF Receive, TransferState, SenderState
<1>5. CASE EndOfFile BY <1>1, <1>5 DEF EndOfFile, TransferState
<1>6. CASE Dial BY <1>1, <1>6, PeersAssumption DEF Dial, TransferState, SenderState
<1>7. CASE Open BY <1>1, <1>7 DEF Open, TransferState, SenderState
<1>8. CASE SendChunk
  <2>1. /\ sender.sent \in 0..FileChunks /\ FileChunks \in Nat
        /\ sender.pc = "send" /\ UNCHANGED <<console, cache, transfer>>
    BY <1>1, <1>8, PeersAssumption DEF SendChunk, SenderState
  <2>2. CASE sender.sent < FileChunks
    <3>1. /\ sender'.pc = "send" /\ sender'.who = sender.who
          /\ sender'.sent = sender.sent + 1
      BY <1>1, <1>8, <2>2 DEF SendChunk, SenderState
    <3>2. QED BY <1>1, <2>1, <3>1 DEF TransferState
  <2>3. CASE ~(sender.sent < FileChunks)
    <3>1. /\ sender'.pc = "none" /\ sender'.who = sender.who
          /\ sender'.sent = sender.sent /\ sender.sent = FileChunks
      BY <1>1, <1>8, <2>1, <2>3 DEF SendChunk, SenderState
    <3>2. QED BY <1>1, <2>1, <3>1 DEF TransferState
  <2>4. QED BY <2>2, <2>3
<1>9. CASE SenderDies BY <1>1, <1>9 DEF SenderDies, TransferState, SenderState
<1>11. CASE CopyFails BY <1>1, <1>11 DEF CopyFails
<1>10. QED
  BY <1>2, <1>3, <1>4, <1>5, <1>6, <1>7, <1>8, <1>9, <1>11 DEF Copy, Sender

-----------------------------------------------------------------------------
(* The answer to a query, from the data base to the cache. *)
Answers == HistoryOK /\ PipeOK /\ ListOK /\ CacheRead

(* The facts that the lemmas below begin with. *)
LEMMA AnswersKnown ==
  ASSUME PeersKnown
  PROVE  /\ HistoryOK /\ PipeOK /\ ListOK /\ CacheRead /\ RowsOK /\ StoreTypeOK
         /\ console \in ConsoleState /\ handler \in HandlerState
         /\ cache \in [Names -> Addrs \cup {NoAddr}]
         /\ pipe \in Seq(Items) /\ Len(pipe) \in Nat
         /\ Taken \in 0..2 /\ (Asking /\ Taken = 2 => console.pc = "lines")
         /\ (Taken = 0 <=> console.pc = "code") /\ (Taken = 1 <=> console.pc = "count")
<1>1. pipe \in Seq(Items) BY DEF PeersKnown, PipeTypeOK
<1>2. Len(pipe) \in Nat BY <1>1
<1>3. QED
  BY <1>1, <1>2, TypesAre
  DEF PeersKnown, PeersInductive, Taken, Asking, Reading

(* What the count announces is a number, once it is written. *)
LEMMA DueIsNat ==
  ASSUME PeersKnown, Asking, Written >= 2
  PROVE  Due \in Nat
<1>1. PipeOK /\ console \in ConsoleState /\ Taken \in 0..2 /\ Len(pipe) \in Nat
  BY AnswersKnown
<1>2. CASE console.pc = "lines"
  BY <1>1, <1>2, PeersAssumption DEF Due, ConsoleState
<1>3. CASE console.pc # "lines"
  <2>1. Taken \in 0..1 BY <1>3, AnswersKnown
  <2>2. 2 - Taken \in 1..Len(pipe) BY <1>1, <2>1 DEF Written
  <2>3. ItemOK(2 - Taken) BY <1>1, <2>2 DEF PipeOK
  <2>4. Taken + (2 - Taken) = 2 BY <2>1
  <2>5. pipe[2 - Taken] \in 0..MaxUsers BY <2>3, <2>4 DEF ItemOK
  <2>6. QED BY <1>3, <2>5, PeersAssumption DEF Due
<1>4. QED BY <1>2, <1>3

(* Outside a query the server has nothing left to list, and what the client *)
(* does about files does not matter to the answers.                         *)
LEMMA IdleKeepsAnswers ==
  ASSUME PeersKnown, ~Asking, ~Asking',
         UNCHANGED <<handler, closed>>,
         \/ UNCHANGED <<cache, during>>
         \/ during' = {} /\ cache' = [n \in Names |-> NoAddr]
  PROVE  Answers'
<1>1. HistoryOK /\ PipeOK /\ CacheRead BY AnswersKnown
<1>2. HistoryOK' BY <1>1 DEF HistoryOK
<1>3. PipeOK' BY <1>1 DEF PipeOK
<1>4. ListOK' BY DEF ListOK
<1>5. CacheRead' BY <1>1 DEF CacheRead
<1>6. QED BY <1>2, <1>3, <1>4, <1>5 DEF Answers

(* A query starts with an empty cache, an empty pipe and the sessions of now. *)
LEMMA QueryStartsAnswers ==
  ASSUME PeersKnown, NEW want, Query(want)
  PROVE  Answers'
<1>1. handler' \in HandlerState /\ handler'.pc = "check"
  BY AnswersKnown, HandlerMoves DEF Query
<1>2. /\ console'.pc = "code" /\ pipe' = <<>> /\ closed' = FALSE
      /\ cache' = [n \in Names |-> NoAddr] /\ during' = Sessions
      /\ throughout' = Online /\ UNCHANGED store
  BY DEF Query
<1>3. Taken' = 0 /\ Written' = 0 /\ Len(pipe') = 0 BY <1>2 DEF Taken, Written
<1>4. HistoryOK'
  BY <1>2 DEF HistoryOK, Sessions, Online, Connected, Exists, AddrOf, store
<1>5. PipeOK' BY <1>1, <1>2, <1>3 DEF PipeOK, Asking, Reading
<1>6. ListOK' BY <1>1, <1>3 DEF ListOK
<1>7. CacheRead' BY <1>2 DEF CacheRead
<1>8. QED BY <1>4, <1>5, <1>6, <1>7 DEF Answers

(* A query that returns leaves in the cache what was in the histories. *)
LEMMA ReturnedKeepsAnswers ==
  ASSUME PeersKnown, Returned, UNCHANGED cache,
         handler'.pc \notin {"check", "list", "count"},
         closed' <=> handler'.pc = "none"
  PROVE  Answers'
<1>1. HistoryOK /\ PipeOK /\ CacheRead /\ console \in ConsoleState
  BY AnswersKnown
<1>2. ~Asking'
  BY <1>1 DEF Returned, Asking, Reading, ConsoleState
<1>3. HistoryOK' BY <1>1, <1>2 DEF HistoryOK, Returned
<1>4. PipeOK' BY <1>2 DEF PipeOK
<1>5. ListOK' BY <1>2 DEF ListOK
<1>6. CacheRead'
  BY <1>1 DEF CacheRead, Returned
<1>7. QED BY <1>3, <1>4, <1>5, <1>6 DEF Answers

(* The code and the count are read: what follows moves up. *)
LEMMA HeaderKeepsAnswers ==
  ASSUME PeersKnown, Asking, Arrives, Taken \in {0, 1}, Asking',
         Taken' = Taken + 1,
         console'.pc = "lines" => console'.left = Head(pipe),
         UNCHANGED <<store, handler, closed, cache, history>>
  PROVE  Answers'
<1>1. HistoryOK /\ PipeOK /\ ListOK /\ CacheRead /\ Len(pipe) \in Nat
      /\ console \in ConsoleState
  BY AnswersKnown
<1>2. /\ Len(pipe) \in Nat \ {0} /\ Len(pipe') = Len(pipe) - 1
      /\ Head(pipe) = pipe[1]
      /\ \A i \in 1..Len(pipe') : /\ i + 1 \in 1..Len(pipe)
                                  /\ pipe'[i] = pipe[i + 1]
  BY NextItem
<1>3. Written' = Written BY <1>2 DEF Written
<1>4. Written >= 2 => Due' = Due
  <2>1. CASE Taken = 0
    <3>1. console'.pc # "lines" BY <2>1 DEF Taken
    <3>2. console.pc # "lines" BY <2>1 DEF Taken
    <3>3. Written >= 2 => 1 \in 1..Len(pipe') /\ pipe'[1] = pipe[2]
      BY <1>2, <2>1 DEF Written
    <3>4. QED BY <2>1, <3>1, <3>2, <3>3 DEF Due
  <2>2. CASE Taken = 1
    <3>1. console'.pc = "lines" BY <2>2 DEF Taken, Asking, Reading
    <3>2. console.pc # "lines" BY <2>2 DEF Taken
    <3>3. QED BY <1>2, <2>2, <3>1, <3>2 DEF Due
  <2>3. QED BY <2>1, <2>2
<1>5. ASSUME NEW i \in 1..Len(pipe') PROVE ItemOK(i)'
  <2>1. ItemOK(i + 1) /\ Taken' + i = Taken + (i + 1)
    BY <1>1, <1>2 DEF PipeOK
  <2>2. Taken' + i # 1 BY <2>1, <1>2
  <2>3. QED BY <2>1, <2>2, <1>2 DEF ItemOK, history
<1>6. PipeOK' BY <1>1, <1>3, <1>4, <1>5 DEF PipeOK
<1>7. HistoryOK'
  BY <1>1 DEF HistoryOK, history, store, Sessions, Online, Connected, Exists, AddrOf
<1>8. \A n : InPipe(n) => InPipe(n)'
  <2>1. ASSUME NEW n, NEW i \in 1..Len(pipe), Taken + i > 2, pipe[i].name = n
        PROVE  InPipe(n)'
    <3>1. /\ i - 1 \in 1..Len(pipe') /\ pipe'[i - 1] = pipe[i]
          /\ Taken' + (i - 1) = Taken + i
      BY <2>1, <1>2
    <3>2. QED BY <2>1, <3>1 DEF InPipe
  <2>2. QED BY <2>1 DEF InPipe
<1>9. ListOK' BY <1>1, <1>3, <1>8 DEF ListOK, history
<1>10. CacheRead' BY <1>1 DEF CacheRead, history
<1>11. QED BY <1>6, <1>7, <1>9, <1>10 DEF Answers

(* A line is read into the cache; at the end of the stream there is none. *)
LEMMA ReadLineKeepsAnswers ==
  ASSUME PeersKnown, ReadLine
  PROVE  Answers'
<1>1. /\ HistoryOK /\ PipeOK /\ ListOK /\ CacheRead /\ Len(pipe) \in Nat
      /\ console \in ConsoleState /\ cache \in [Names -> Addrs \cup {NoAddr}]
      /\ Asking /\ Taken = 2 /\ Written = Len(pipe) + 2 /\ Due = console.left
  <2>1. Asking /\ Taken = 2 /\ Due = console.left
    BY DEF ReadLine, Asking, Reading, Taken, Due
  <2>2. QED BY <2>1, AnswersKnown DEF Written
<1>2. /\ console'.pc = "lines" /\ console'.left = console.left - 1
      /\ console.left \in Nat \ {0}
      /\ UNCHANGED <<store, handler, closed, history>>
  BY <1>1, PeersAssumption DEF ReadLine, ConsoleState
<1>3. Asking' /\ Taken' = 2 /\ Due' = console.left - 1
  BY <1>2 DEF Asking, Reading, Taken, Due
<1>4. HistoryOK'
  BY <1>1, <1>2
  DEF HistoryOK, history, store, Sessions, Online, Connected, Exists, AddrOf
<1>5. CASE /\ Arrives
           /\ LET read == ReadAs(Head(pipe).name, Head(pipe).addr)
              IN  \/ \E e \in read : cache' = [cache EXCEPT ![e[1]] = e[2]]
                  \/ read = {} /\ UNCHANGED cache
  <2>1. /\ Len(pipe') = Len(pipe) - 1 /\ Len(pipe) \in Nat \ {0}
        /\ Head(pipe) = pipe[1] /\ ItemOK(1)
        /\ \A i \in 1..Len(pipe') : /\ i + 1 \in 1..Len(pipe)
                                    /\ pipe'[i] = pipe[i + 1]
    BY <1>1, <1>5, NextItem
  <2>2. /\ Head(pipe) \in Lines
        /\ <<Head(pipe).name, Head(pipe).addr>> \in during
    BY <1>1, <2>1 DEF ItemOK
  <2> PICK n \in Names, a \in Addrs : n = Head(pipe).name /\ a = Head(pipe).addr
    BY <2>2 DEF Lines
  <2>3. \/ \E e \in ReadAs(n, a) : cache' = [cache EXCEPT ![e[1]] = e[2]]
        \/ ReadAs(n, a) = {} /\ UNCHANGED cache
    BY <1>5
  <2>4. CacheRead'
    <3>1. <<n, a>> \in during' \cap (Names \X Addrs) /\ UNCHANGED during
      BY <1>2, <2>2 DEF history
    <3>2. ASSUME NEW e \in ReadAs(n, a), cache' = [cache EXCEPT ![e[1]] = e[2]]
          PROVE  CacheRead'
      <4>1. e = <<e[1], e[2]>> /\ e[1] \in Names BY <3>2, EntryTyped
      <4>2. <<e[1], cache'[e[1]]>> \in ReadAs(n, a) BY <1>1, <3>2, <4>1
      <4>3. \A k \in Names : k # e[1] => cache'[k] = cache[k] BY <1>1, <3>2
      <4>4. ASSUME NEW k \in Names, cache'[k] # NoAddr
            PROVE  \E s \in during' \cap (Names \X Addrs) :
                     <<k, cache'[k]>> \in ReadAs(s[1], s[2])
        <5>1. CASE k = e[1] BY <3>1, <4>2, <5>1
        <5>2. CASE k # e[1] BY <1>1, <3>1, <4>3, <4>4, <5>2 DEF CacheRead
        <5>3. QED BY <5>1, <5>2
      <4>5. QED BY <4>4 DEF CacheRead
    <3>3. CASE UNCHANGED cache BY <1>1, <3>1, <3>3 DEF CacheRead
    <3>4. QED BY <2>3, <3>2, <3>3
  <2>5. ASSUME NEW i \in 1..Len(pipe') PROVE ItemOK(i)'
    <3>1. ItemOK(i + 1) BY <1>1, <2>1 DEF PipeOK
    <3>2. i + 1 \in Nat /\ Taken + (i + 1) > 2 BY <1>1, <2>1
    <3>3. /\ pipe'[i] \in Lines
          /\ <<pipe'[i].name, pipe'[i].addr>> \in during
      BY <2>1, <3>1, <3>2 DEF ItemOK
    <3>4. Taken' + i # 1 /\ Taken' + i # 2 BY <1>3, <2>1
    <3>5. QED BY <1>2, <3>3, <3>4 DEF ItemOK, history
  <2>6. Written' = Written - 1 /\ Written' >= 2
    BY <1>1, <1>3, <2>1 DEF Written
  <2>7. PipeOK'
    <3>1. handler.pc \notin {"check", "list", "count"}
      BY <1>1 DEF PipeOK
    <3>2. /\ handler.pc = "none" => handler.left = {}
          /\ Written - 2 + Cardinality(handler.left) =< Due
      BY <1>1 DEF PipeOK
    <3>3. Cardinality(handler.left) \in Nat
      BY AnswersKnown, PeersAssumption, FS_Subset, FS_CardinalityType
      DEF HandlerState
    <3>4. Written' - 2 + Cardinality(handler.left) =< Due'
      BY <1>1, <1>2, <1>3, <2>1, <2>6, <3>2, <3>3
    <3>5. QED
      BY <1>1, <1>2, <1>3, <2>5, <2>6, <3>1, <3>2, <3>4 DEF PipeOK
  <2>8. ASSUME NEW k \in Names, InPipe(k), k # n PROVE InPipe(k)'
    <3>1. PICK i \in 1..Len(pipe) : pipe[i].name = k BY <2>8 DEF InPipe
    <3>2. i - 1 \in 1..Len(pipe') /\ pipe'[i - 1] = pipe[i]
      BY <2>1, <2>8, <3>1
    <3>3. QED BY <1>3, <3>1, <3>2 DEF InPipe
  <2>9. ListOK'
    <3>1. ASSUME Plain(n) PROVE cache'[n] # NoAddr
      <4>1. cache'[n] = a
        <5>1. ReadAs(n, a) = {<<n, a>>} BY <3>1, PlainRead
        <5>2. PICK e \in {<<n, a>>} : cache' = [cache EXCEPT ![e[1]] = e[2]]
          BY <2>3, <5>1
        <5>3. e[1] = n /\ e[2] = a BY <5>2
        <5>4. QED BY <1>1, <5>2, <5>3
      <4>2. QED BY <4>1, PeersAssumption
    <3>2. throughout \subseteq Names BY <1>1 DEF HistoryOK, Online
    <3>3. ASSUME NEW k \in Names, cache[k] # NoAddr PROVE cache'[k] # NoAddr
      <4>1. CASE UNCHANGED cache BY <3>3, <4>1
      <4>2. ASSUME NEW e \in ReadAs(n, a), cache' = [cache EXCEPT ![e[1]] = e[2]]
            PROVE  cache'[k] # NoAddr
        <5>1. e[2] \in Addrs BY <4>2, EntryTyped
        <5>2. e[2] # NoAddr BY <5>1, PeersAssumption
        <5>3. QED BY <1>1, <3>3, <4>2, <5>2
      <4>3. QED BY <2>3, <4>1, <4>2
    <3>4. QED
      BY <1>1, <1>2, <2>8, <3>1, <3>2, <3>3 DEF ListOK, history
  <2>10. QED BY <1>4, <2>4, <2>7, <2>9 DEF Answers
<1>6. CASE Ended /\ UNCHANGED cache
  <2>1. Len(pipe) = 0 /\ UNCHANGED pipe /\ handler.pc = "none"
    BY <1>1, <1>6 DEF Ended, PipeOK
  <2>2. Written' = 2 BY <1>3, <2>1 DEF Written
  <2>3. handler.left = {} BY <1>1, <2>1 DEF PipeOK
  <2>4. PipeOK'
    <3>1. Cardinality(handler.left) = 0 BY <2>3, FS_EmptySet
    <3>2. QED BY <1>1, <1>2, <1>3, <2>1, <2>2, <2>3, <3>1 DEF PipeOK
  <2>5. \A k : InPipe(k) => InPipe(k)' BY <1>1, <1>3, <2>1 DEF InPipe
  <2>6. ListOK' BY <1>1, <1>2, <1>6, <2>5 DEF ListOK, history
  <2>7. CacheRead' BY <1>1, <1>2, <1>6 DEF CacheRead, history
  <2>8. QED BY <1>4, <2>4, <2>6, <2>7 DEF Answers
<1>7. QED BY <1>5, <1>6 DEF ReadLine

(* What the client's reading keeps. *)
LEMMA ReadingKeepsAnswers ==
  ASSUME PeersKnown, ReadCode \/ ReadCount \/ ReadLine \/ Listed \/ GiveUp
  PROVE  Answers'
<1>1. /\ PipeOK /\ console \in ConsoleState /\ Asking
      /\ (Taken = 0 <=> console.pc = "code") /\ (Taken = 1 <=> console.pc = "count")
      /\ Taken \in 0..2 /\ Len(pipe) \in Nat
  BY AnswersKnown DEF ReadCode, ReadCount, ReadLine, Listed, GiveUp, Asking, Reading
<1>2. CASE ReadCode
  <2>1. CASE Arrives /\ Head(pipe) = 0 /\ UNCHANGED history
             /\ console' = [console EXCEPT !.pc = "count"]
    <3>1. console'.pc = "count" BY <2>1, <1>1 DEF ConsoleState
    <3>2. Asking' /\ Taken' = 1 /\ Taken = 0
      BY <3>1, <1>1, <1>2 DEF Asking, Reading, Taken, ReadCode
    <3>3. QED BY <1>1, <1>2, <2>1, <3>1, <3>2, HeaderKeepsAnswers DEF ReadCode
  <2>2. CASE Returned /\ Arrives /\ Head(pipe) # 0
    <3>1. handler.pc = "none"
      BY <1>1, <1>2, <2>2, NextItem DEF ItemOK, ReadCode
    <3>2. QED BY <1>1, <1>2, <2>2, <3>1, ReturnedKeepsAnswers DEF ReadCode, PipeOK
  <2>3. CASE Returned /\ Ended
    BY <1>1, <1>2, <2>3, ReturnedKeepsAnswers DEF ReadCode, PipeOK, Ended
  <2>4. QED BY <1>2, <2>1, <2>2, <2>3 DEF ReadCode
<1>3. CASE ReadCount
  <2>1. CASE Arrives /\ console' = [console EXCEPT !.pc = "lines", !.left = Head(pipe)]
    <3>1. console'.pc = "lines" /\ console'.left = Head(pipe)
      BY <2>1, <1>1 DEF ConsoleState
    <3>2. Asking' /\ Taken' = 2 /\ Taken = 1
      BY <3>1, <1>1, <1>3 DEF Asking, Reading, Taken, ReadCount
    <3>3. QED
      BY <1>1, <1>3, <2>1, <3>1, <3>2, HeaderKeepsAnswers DEF ReadCount
  <2>2. CASE Ended /\ console' = [console EXCEPT !.pc = "crashed"]
    <3>1. handler.pc = "none" /\ UNCHANGED <<handler, closed, cache, history>>
      BY <1>1, <1>3, <2>2 DEF PipeOK, Ended, ReadCount
    <3>2. ~Asking' BY <2>2, <1>1 DEF Asking, Reading, ConsoleState
    <3>3. HistoryOK /\ CacheRead BY AnswersKnown
    <3>4. HistoryOK' /\ CacheRead'
      BY <3>1, <3>2, <3>3 DEF HistoryOK, CacheRead, history
    <3>5. PipeOK' /\ ListOK' BY <1>1, <3>1, <3>2 DEF PipeOK, ListOK
    <3>6. QED BY <3>4, <3>5 DEF Answers
  <2>3. QED BY <1>3, <2>1, <2>2 DEF ReadCount
<1>4. CASE ReadLine BY <1>4, ReadLineKeepsAnswers
<1>5. CASE Listed
  <2>1. Taken = 2 /\ Written >= 2 BY <1>1, <1>5 DEF Listed, Taken, Written
  <2>2. handler.pc \notin {"check", "list", "count"} BY <1>1, <2>1 DEF PipeOK
  <2>3. QED BY <1>1, <1>5, <2>2, ReturnedKeepsAnswers DEF Listed, PipeOK
<1>6. CASE GiveUp
  BY <1>6, ReturnedKeepsAnswers DEF GiveUp
<1>7. QED BY <1>2, <1>3, <1>4, <1>5, <1>6

(* What an item that is written at the end of the pipe does to it. *)
LEMMA Written1 ==
  ASSUME PeersKnown, NEW x \in Items, NEW over \in BOOLEAN, Answer(<<x>>, over)
  PROVE  /\ Len(pipe) \in Nat /\ Len(pipe') = Len(pipe) + 1
         /\ pipe'[Len(pipe) + 1] = x
         /\ \A i \in 1..Len(pipe) : pipe'[i] = pipe[i]
         /\ Taken' = Taken /\ Written' = Written + 1 /\ closed' = over
         /\ UNCHANGED <<store, console, cache, history>>
         /\ (Asking' <=> Asking)
<1>1. pipe \in Seq(Items) /\ Taken \in 0..2 BY AnswersKnown
<1>2. pipe' = pipe \o <<x>> /\ closed' = over
      /\ UNCHANGED <<store, console, cache, history>>
  BY DEF Answer
<1>3. /\ Len(pipe) \in Nat /\ Len(pipe') = Len(pipe) + 1
      /\ pipe'[Len(pipe) + 1] = x
      /\ \A i \in 1..Len(pipe) : pipe'[i] = pipe[i]
  BY <1>1, <1>2, AddItem
<1>4. Taken' = Taken /\ (Asking' <=> Asking) BY <1>2 DEF Taken, Asking
<1>5. Written' = Written + 1 BY <1>1, <1>3, <1>4 DEF Written
<1>6. QED BY <1>2, <1>3, <1>4, <1>5

(* The list of names is taken: nobody who is connected throughout is left *)
(* out, if there is room for all.                                          *)
LEMMA ListKeepsAnswers ==
  ASSUME PeersKnown, List
  PROVE  Answers'
<1>1. /\ HistoryOK /\ PipeOK /\ CacheRead /\ Asking /\ Written = 0
      /\ Taken \in 0..2 /\ Len(pipe) \in Nat
  BY AnswersKnown DEF List, PipeOK
<1>2. Taken = 0 /\ Len(pipe) = 0 BY <1>1 DEF Written
<1>3. PICK names \in SUBSET Online :
        /\ Cardinality(names) =< MaxUsers
        /\ Cardinality(names) = MaxUsers \/ names = Online
        /\ handler' = [pc |-> "count", left |-> names]
        /\ Answer(<<0>>, FALSE)
  BY DEF List
<1>4. 0 \in Items BY DEF Items
<1>5. /\ Len(pipe') = 1 /\ pipe'[1] = 0 /\ Taken' = 0 /\ Written' = 1
      /\ closed' = FALSE /\ Asking'
      /\ UNCHANGED <<store, console, cache, history>>
  <2>1. /\ Len(pipe') = Len(pipe) + 1 /\ pipe'[Len(pipe) + 1] = 0
        /\ Taken' = Taken /\ Written' = Written + 1 /\ closed' = FALSE
        /\ UNCHANGED <<store, console, cache, history>>
    BY <1>3, <1>4, Written1
  <2>2. Asking' BY <1>1, <1>3, <1>4, Written1
  <2>3. QED BY <1>1, <1>2, <2>1, <2>2
<1>6. HistoryOK' /\ CacheRead'
  BY <1>1, <1>5
  DEF HistoryOK, CacheRead, history, store, Sessions, Online, Connected,
      Exists, AddrOf
<1>7. PipeOK' BY <1>3, <1>5 DEF PipeOK, ItemOK
<1>8. ASSUME Cardinality({s[1] : s \in during}) =< MaxUsers
      PROVE  throughout \subseteq names
  <2> DEFINE seen == {s[1] : s \in during}
  <2>1. seen \in SUBSET Names BY <1>1 DEF HistoryOK
  <2>2. Online \subseteq seen /\ throughout \subseteq Online
    <3>1. \A n \in Online : <<n, AddrOf(n)>> \in during
      BY <1>1 DEF HistoryOK, Online, Sessions
    <3>2. ASSUME NEW n \in Online PROVE n \in seen
      <4>1. <<n, AddrOf(n)>>[1] = n OBVIOUS
      <4>2. QED BY <3>1, <4>1
    <3>3. throughout \subseteq Online BY <1>1 DEF HistoryOK
    <3>4. QED BY <3>2, <3>3
  <2>3. names \in SUBSET seen BY <2>2
  <2>4. IsFiniteSet(seen) /\ Cardinality(seen) \in Nat /\ Cardinality(names) \in Nat
    <3>1. IsFiniteSet(seen) BY <2>1, PeersAssumption, FS_Subset
    <3>2. IsFiniteSet(names) BY <2>3, <3>1, FS_Subset
    <3>3. QED BY <3>1, <3>2, FS_CardinalityType
  <2>5. CASE names = Online BY <2>2, <2>5
  <2>6. CASE Cardinality(names) = MaxUsers
    <3>1. Cardinality(names) =< Cardinality(seen)
          /\ (Cardinality(seen) = Cardinality(names) => seen = names)
      BY <2>3, <2>4, FS_Subset
    <3>2. Cardinality(seen) = Cardinality(names)
      BY <1>8, <2>4, <2>6, <3>1
    <3>3. QED BY <2>2, <3>1, <3>2
  <2>7. QED BY <1>3, <2>5, <2>6
<1>9. ListOK' BY <1>3, <1>5, <1>8 DEF ListOK, history
<1>10. QED BY <1>6, <1>7, <1>9 DEF Answers

(* The count announces the lines that can come. *)
LEMMA CountKeepsAnswers ==
  ASSUME PeersKnown, SendCount
  PROVE  Answers'
<1>1. /\ HistoryOK /\ PipeOK /\ ListOK /\ CacheRead /\ Asking /\ Written = 1
      /\ Taken \in 0..2 /\ Len(pipe) \in Nat /\ handler \in HandlerState
      /\ (Taken = 0 <=> console.pc = "code") /\ (Taken = 1 <=> console.pc = "count")
      /\ handler.pc = "count" /\ Cardinality(handler.left) =< MaxUsers
  BY AnswersKnown DEF SendCount, PipeOK
<1> DEFINE k == Cardinality(handler.left)
<1>2. k \in Nat
  BY <1>1, PeersAssumption, FS_Subset, FS_CardinalityType DEF HandlerState
<1>3. k \in Items BY <1>2 DEF Items
<1>4. handler'.pc = "lines" /\ handler'.left = handler.left
  BY <1>1 DEF SendCount, HandlerState
<1>5. Answer(<<k>>, FALSE) BY DEF SendCount
<1> HIDE DEF k
<1>6. /\ Len(pipe') = Len(pipe) + 1 /\ pipe'[Len(pipe) + 1] = k
      /\ \A i \in 1..Len(pipe) : pipe'[i] = pipe[i]
      /\ Taken' = Taken /\ Written' = 2 /\ closed' = FALSE /\ Asking'
      /\ UNCHANGED <<store, console, cache, history>>
  <2>1. /\ Len(pipe') = Len(pipe) + 1 /\ pipe'[Len(pipe) + 1] = k
        /\ \A i \in 1..Len(pipe) : pipe'[i] = pipe[i]
        /\ Taken' = Taken /\ Written' = Written + 1 /\ closed' = FALSE
        /\ UNCHANGED <<store, console, cache, history>>
    BY <1>3, <1>5, Written1
  <2>2. Asking' BY <1>1, <1>3, <1>5, Written1
  <2>3. QED BY <1>1, <2>1, <2>2
<1>7. HistoryOK' /\ CacheRead'
  BY <1>1, <1>6
  DEF HistoryOK, CacheRead, history, store, Sessions, Online, Connected,
      Exists, AddrOf
<1>8. Due' = k
  <2>1. Len(pipe) + 1 = 2 - Taken /\ Taken # 2 BY <1>1 DEF Written
  <2>2. console.pc # "lines" BY <1>1, <2>1 DEF Taken
  <2>3. QED BY <1>6, <2>1, <2>2 DEF Due
<1>9. ASSUME NEW i \in 1..Len(pipe') PROVE ItemOK(i)'
  <2>1. CASE i \in 1..Len(pipe)
    <3>1. ItemOK(i) BY <1>1, <2>1 DEF PipeOK
    <3>2. Taken + i = 1 BY <1>1, <2>1 DEF Written
    <3>3. QED BY <1>1, <1>6, <2>1, <3>1, <3>2 DEF ItemOK
  <2>2. CASE i = Len(pipe) + 1
    <3>1. Taken + i = 2 BY <1>1, <2>2 DEF Written
    <3>2. k \in 0..MaxUsers BY <1>1, <1>2, PeersAssumption DEF k
    <3>3. QED BY <1>6, <2>2, <3>1, <3>2 DEF ItemOK
  <2>3. QED BY <1>1, <1>6, <2>1, <2>2
<1>10. PipeOK'
  BY <1>1, <1>2, <1>4, <1>6, <1>8, <1>9 DEF PipeOK, k
<1>11. ListOK'
  <2>1. \A n : InPipe(n) => InPipe(n)' BY <1>1, <1>6 DEF InPipe
  <2>2. QED BY <1>1, <1>4, <1>6, <2>1 DEF ListOK, history
<1>12. QED BY <1>7, <1>10, <1>11 DEF Answers

(* Only a connected user is answered with a list. *)
LEMMA CheckKeepsAnswers ==
  ASSUME PeersKnown, Check
  PROVE  Answers'
<1>1. /\ HistoryOK /\ CacheRead /\ Asking /\ Written = 0
      /\ Taken \in 0..2 /\ Len(pipe) \in Nat /\ pipe \in Seq(Items)
      /\ handler \in HandlerState
  BY AnswersKnown DEF Check, PipeOK
<1>2. Taken = 0 /\ Len(pipe) = 0 BY <1>1 DEF Written
<1>3. ASSUME UNCHANGED <<store, console, cache, history>>
      PROVE  HistoryOK' /\ CacheRead' /\ Asking' /\ Taken' = 0
  BY <1>1, <1>2, <1>3
  DEF HistoryOK, CacheRead, Asking, Taken, history, store, Sessions, Online,
      Connected, Exists, AddrOf
<1>4. CASE /\ handler' = [handler EXCEPT !.pc = "list"] /\ Answer(<<>>, FALSE)
  <2>1. /\ pipe' = pipe /\ closed' = FALSE
        /\ UNCHANGED <<store, console, cache, history>>
    BY <1>1, <1>4, AddNone DEF Answer
  <2>2. handler'.pc = "list" BY <1>1, <1>4, HandlerMoves
  <2>3. Written' = 0 /\ Len(pipe') = 0 BY <1>2, <1>3, <2>1 DEF Written
  <2>4. PipeOK' BY <1>3, <2>1, <2>2, <2>3 DEF PipeOK
  <2>5. ListOK' BY <2>2, <2>3 DEF ListOK
  <2>6. QED BY <1>3, <2>1, <2>4, <2>5 DEF Answers
<1>5. ASSUME NEW code \in {1, 2}, Answer(<<code>>, TRUE),
             handler' = [handler EXCEPT !.pc = "none"]
      PROVE  Answers'
  <2>1. code \in Items BY DEF Items
  <2>2. /\ Len(pipe') = Len(pipe) + 1 /\ pipe'[Len(pipe) + 1] = code
        /\ closed' = TRUE /\ Written' = Written + 1
        /\ UNCHANGED <<store, console, cache, history>>
    BY <1>5, <2>1, Written1
  <2>3. handler'.pc = "none" BY <1>1, <1>5, HandlerMoves
  <2>4. Written' = 1 /\ Len(pipe') = 1 /\ pipe'[1] = code
    BY <1>1, <1>2, <2>2
  <2>5. ASSUME NEW i \in 1..Len(pipe') PROVE ItemOK(i)'
    <3>1. i = 1 BY <2>4
    <3>2. pipe'[i] \in {0, 1, 2} BY <1>5, <2>4, <3>1
    <3>3. Taken' + i = 1 BY <1>3, <2>2, <3>1
    <3>4. QED BY <2>3, <2>4, <3>2, <3>3 DEF ItemOK
  <2>6. PipeOK' BY <1>3, <2>2, <2>3, <2>4, <2>5 DEF PipeOK
  <2>7. ListOK' BY <2>3, <2>4 DEF ListOK
  <2>8. QED BY <1>3, <2>2, <2>6, <2>7 DEF Answers
<1>6. QED BY <1>4, <1>5 DEF Check

(* The handler's step that writes nothing about a user of its list. *)
LEMMA SkipKeepsAnswers ==
  ASSUME PeersKnown, NEW n \in handler.left, handler.pc = "lines",
         handler' = [handler EXCEPT !.left = @ \ {n}],
         UNCHANGED <<store, console, cache, pipe, closed, during, throughout>>,
         (UNCHANGED cut /\ ~Connected(n)) \/ cut' = TRUE
  PROVE  Answers'
<1>1. /\ HistoryOK /\ PipeOK /\ ListOK /\ CacheRead
      /\ Taken \in 0..2 /\ Len(pipe) \in Nat /\ handler \in HandlerState
      /\ (Asking => Written >= 2)
  BY AnswersKnown DEF PipeOK
<1>2. handler'.pc = "lines" /\ handler'.left = handler.left \ {n}
  BY <1>1 DEF HandlerState
<1>3. /\ Taken' = Taken /\ Written' = Written /\ Due' = Due /\ (Asking' <=> Asking)
      /\ \A k : InPipe(k)' <=> InPipe(k)
  BY DEF Taken, Written, Due, Asking, InPipe
<1>4. HistoryOK' /\ CacheRead'
  BY <1>1, <1>3
  DEF HistoryOK, CacheRead, store, Sessions, Online, Connected, Exists, AddrOf
<1>5. /\ Cardinality(handler.left) \in Nat
      /\ Cardinality(handler'.left) = Cardinality(handler.left) - 1
  <2>1. handler.left \in SUBSET Names BY <1>1 DEF HandlerState
  <2>2. IsFiniteSet(handler.left) BY <2>1, PeersAssumption, FS_Subset
  <2>3. QED BY <1>2, <2>2, FS_RemoveElement, FS_CardinalityType
<1>6. ASSUME Asking, NEW i \in 1..Len(pipe) PROVE ItemOK(i)'
  <2>1. ItemOK(i) BY <1>1, <1>6 DEF PipeOK
  <2>2. QED BY <1>2, <1>3, <2>1 DEF ItemOK
<1>7. PipeOK'
  <2>1. closed' <=> handler'.pc = "none" BY <1>1, <1>2 DEF PipeOK
  <2>2. CASE ~Asking BY <1>2, <1>3, <2>1, <2>2 DEF PipeOK
  <2>3. CASE Asking
    <3>1. Written - 2 + Cardinality(handler.left) =< Due
      BY <1>1, <2>3 DEF PipeOK
    <3>2. Due \in Nat /\ Written \in Nat
      BY <1>1, <2>3, DueIsNat DEF Written
    <3>3. Written' - 2 + Cardinality(handler'.left) =< Due'
      BY <1>3, <1>5, <3>1, <3>2
    <3>4. QED BY <1>1, <1>2, <1>3, <1>6, <2>1, <2>3, <3>3 DEF PipeOK
  <2>4. QED BY <2>2, <2>3
<1>8. ListOK'
  <2>1. Asking => n \notin throughout \/ cut' = TRUE
    BY <1>1 DEF HistoryOK, Online
  <2>2. QED BY <1>1, <1>2, <1>3, <2>1 DEF ListOK
<1>9. QED BY <1>4, <1>7, <1>8 DEF Answers

(* A line that is written is the address of a session of now. *)
LEMMA SendKeepsAnswers ==
  ASSUME PeersKnown, Asking, NEW n \in handler.left, handler.pc = "lines",
         Connected(n), handler' = [handler EXCEPT !.left = @ \ {n}],
         Answer(<<[name |-> n, addr |-> AddrOf(n)]>>, FALSE)
  PROVE  Answers'
<1>1. /\ HistoryOK /\ PipeOK /\ ListOK /\ CacheRead /\ RowsOK
      /\ Taken \in 0..2 /\ Len(pipe) \in Nat /\ handler \in HandlerState
      /\ Written >= 2 /\ Due \in Nat
  BY AnswersKnown, DueIsNat DEF PipeOK
<1>2. /\ handler'.pc = "lines" /\ handler'.left = handler.left \ {n}
      /\ n \in Names
  BY <1>1 DEF HandlerState
<1> DEFINE x == [name |-> n, addr |-> AddrOf(n)]
<1>3. /\ x \in Lines /\ x \in Items /\ x.name = n
      /\ <<x.name, x.addr>> \in during
  <2>1. AddrOf(n) \in Addrs BY <1>1, <1>2 DEF RowsOK
  <2>2. <<n, AddrOf(n)>> \in during BY <1>1, <1>2 DEF HistoryOK, Sessions
  <2>3. QED BY <1>2, <2>1, <2>2 DEF Items, Lines
<1>4. Answer(<<x>>, FALSE) OBVIOUS
<1> HIDE DEF x
<1>5. /\ Len(pipe') = Len(pipe) + 1 /\ pipe'[Len(pipe) + 1] = x
      /\ \A i \in 1..Len(pipe) : pipe'[i] = pipe[i]
      /\ Taken' = Taken /\ Written' = Written + 1 /\ closed' = FALSE
      /\ UNCHANGED <<store, console, cache, history>>
  BY <1>3, <1>4, Written1
<1>6. Asking' BY <1>3, <1>4, Written1
<1>7. HistoryOK' /\ CacheRead'
  BY <1>1, <1>5, <1>6
  DEF HistoryOK, CacheRead, history, store, Sessions, Online, Connected,
      Exists, AddrOf
<1>8. Due' = Due
  <2>1. CASE console.pc = "lines" BY <1>5, <2>1 DEF Due
  <2>2. CASE console.pc # "lines"
    <3>1. Taken \in 0..1 BY <2>2, AnswersKnown
    <3>2. 2 - Taken \in 1..Len(pipe) BY <1>1, <3>1 DEF Written
    <3>3. QED BY <1>5, <2>2, <3>2 DEF Due
  <2>3. QED BY <2>1, <2>2
<1>9. ASSUME NEW i \in 1..Len(pipe') PROVE ItemOK(i)'
  <2>1. CASE i \in 1..Len(pipe)
    <3>1. ItemOK(i) BY <1>1, <2>1 DEF PipeOK
    <3>2. pipe'[i] = pipe[i] BY <1>5, <2>1
    <3>3. QED BY <1>2, <1>5, <3>1, <3>2 DEF ItemOK, history
  <2>2. CASE i = Len(pipe) + 1
    <3>1. Taken + i > 2 /\ Taken + i # 1 /\ Taken + i # 2
      BY <1>1, <2>2 DEF Written
    <3>2. QED BY <1>3, <1>5, <2>2, <3>1 DEF ItemOK, history
  <2>3. QED BY <1>1, <1>5, <2>1, <2>2
<1>10. PipeOK'
  <2>1. handler.left \in SUBSET Names BY <1>1 DEF HandlerState
  <2>2. IsFiniteSet(handler.left) BY <2>1, PeersAssumption, FS_Subset
  <2>3. /\ Cardinality(handler.left) \in Nat
        /\ Cardinality(handler'.left) = Cardinality(handler.left) - 1
    BY <1>2, <2>2, FS_RemoveElement, FS_CardinalityType
  <2>4. Written - 2 + Cardinality(handler.left) =< Due BY <1>1 DEF PipeOK
  <2>5. Written \in Nat BY <1>1 DEF Written
  <2>6. /\ Written' - 2 + Cardinality(handler'.left) =< Due' /\ Written' >= 2
    BY <1>1, <1>5, <1>8, <2>3, <2>4, <2>5
  <2>7. QED BY <1>2, <1>5, <1>6, <1>9, <2>6 DEF PipeOK
<1>11. ListOK'
  <2>1. InPipe(n)'
    <3>1. Taken' + (Len(pipe) + 1) > 2 BY <1>1, <1>5 DEF Written
    <3>2. Len(pipe) + 1 \in 1..Len(pipe') BY <1>1, <1>5
    <3>3. QED BY <1>3, <1>5, <3>1, <3>2 DEF InPipe
  <2>2. \A k : InPipe(k) => InPipe(k)' BY <1>1, <1>5 DEF InPipe
  <2>3. QED BY <1>1, <1>2, <1>5, <2>1, <2>2 DEF ListOK, history
<1>12. QED BY <1>7, <1>10, <1>11 DEF Answers

(* The handler, when the client no longer asks. *)
LEMMA UnheardKeepsAnswers ==
  ASSUME PeersKnown, ~Asking, ~Asking', UNCHANGED <<cache, during>>,
         closed' <=> handler'.pc = "none", handler'.pc \in {handler.pc, "none"}
  PROVE  Answers'
<1>1. HistoryOK /\ PipeOK /\ CacheRead BY AnswersKnown
<1>2. handler'.pc \notin {"check", "list", "count"} BY <1>1 DEF PipeOK
<1>3. HistoryOK' BY <1>1 DEF HistoryOK
<1>4. PipeOK' BY <1>2 DEF PipeOK
<1>5. ListOK' BY DEF ListOK
<1>6. CacheRead' BY <1>1 DEF CacheRead
<1>7. QED BY <1>3, <1>4, <1>5, <1>6 DEF Answers

(* One line for each user of the list who is still connected. *)
LEMMA LineKeepsAnswers ==
  ASSUME PeersKnown, Line
  PROVE  Answers'
<1>1. PICK n \in handler.left :
        /\ handler' = [handler EXCEPT !.left = @ \ {n}]
        /\ IF ConnInfo(n) = 0
           THEN Answer(<<[name |-> n, addr |-> AddrOf(n)]>>, FALSE)
           ELSE Answer(<<>>, FALSE)
  BY DEF Line
<1>2. /\ handler.pc = "lines" /\ handler \in HandlerState /\ pipe \in Seq(Items)
      /\ RowsOK /\ PipeOK
  BY AnswersKnown DEF Line
<1>3. n \in Names /\ handler'.pc = "lines" BY <1>1, <1>2 DEF HandlerState
<1>4. UNCHANGED <<store, console, cache, history>> /\ closed' = FALSE
  BY <1>1 DEF Answer
<1>5. Asking' <=> Asking BY <1>4 DEF Asking
<1>6. CASE ~Asking
  <2>1. UNCHANGED <<cache, during>> BY <1>4 DEF history
  <2>2. closed' <=> handler'.pc = "none" BY <1>3, <1>4
  <2>3. QED BY <1>2, <1>3, <1>5, <1>6, <2>1, <2>2, UnheardKeepsAnswers
<1>7. CASE Asking /\ ConnInfo(n) = 0
  <2>1. Connected(n) BY <1>3, <1>2, <1>7 DEF RowsOK, ConnInfo, Connected
  <2>2. QED BY <1>1, <1>2, <1>7, <2>1, SendKeepsAnswers
<1>8. CASE Asking /\ ConnInfo(n) # 0
  <2>1. ~Connected(n) BY <1>8 DEF ConnInfo, Connected
  <2>2. pipe' = pipe BY <1>1, <1>2, <1>8, AddNone DEF Answer
  <2>3. closed = FALSE
    <3>1. closed \in BOOLEAN BY DEF PeersKnown, PeersInductive, PeersTypeOK
    <3>2. QED BY <1>2, <3>1 DEF PipeOK
  <2>4. UNCHANGED <<store, console, cache, pipe, closed, during, throughout, cut>>
    BY <1>4, <2>2, <2>3 DEF history
  <2>5. QED BY <1>1, <1>2, <2>1, <2>4, SkipKeepsAnswers
<1>9. QED BY <1>6, <1>7, <1>8

(* The handler ends, or the server does, with the pipe as it is. *)
LEMMA EndKeepsAnswers ==
  ASSUME PeersKnown, handler.pc # "none",
         UNCHANGED <<store, console, cache, pipe, during, throughout>>,
         handler'.pc = "none", handler'.left = {}, closed' = TRUE,
         \/ cut' = TRUE
         \/ UNCHANGED cut /\ handler.pc = "lines" /\ handler.left = {}
  PROVE  Answers'
<1>1. /\ HistoryOK /\ PipeOK /\ ListOK /\ CacheRead
      /\ Taken \in 0..2 /\ Len(pipe) \in Nat /\ handler \in HandlerState
  BY AnswersKnown
<1>2. /\ Taken' = Taken /\ Written' = Written /\ Due' = Due /\ (Asking' <=> Asking)
      /\ \A k : InPipe(k)' <=> InPipe(k)
  BY DEF Taken, Written, Due, Asking, InPipe
<1>3. HistoryOK' /\ CacheRead'
  BY <1>1, <1>2
  DEF HistoryOK, CacheRead, store, Sessions, Online, Connected, Exists, AddrOf
<1>4. ASSUME Asking, NEW i \in 1..Len(pipe) PROVE ItemOK(i)'
  <2>1. ItemOK(i) BY <1>1, <1>4 DEF PipeOK
  <2>2. QED BY <1>2, <2>1 DEF ItemOK
<1>5. PipeOK'
  <2>1. ASSUME Asking, Written >= 2
        PROVE  Written - 2 + Cardinality(handler'.left) =< Due
    <3>1. Written - 2 + Cardinality(handler.left) =< Due
      BY <1>1, <2>1 DEF PipeOK
    <3>2. Due \in Nat /\ Written \in Nat BY <1>1, <2>1, DueIsNat DEF Written
    <3>3. Cardinality(handler.left) \in Nat
      BY <1>1, PeersAssumption, FS_Subset, FS_CardinalityType DEF HandlerState
    <3>4. Cardinality(handler'.left) = 0 BY FS_EmptySet
    <3>5. QED BY <3>1, <3>2, <3>3, <3>4
  <2>2. QED BY <1>2, <1>4, <2>1 DEF PipeOK
<1>6. ListOK' BY <1>1, <1>2 DEF ListOK
<1>7. QED BY <1>3, <1>5, <1>6 DEF Answers

(* So does everything the server's thread does. *)
LEMMA HandlerKeepsAnswers ==
  ASSUME PeersKnown, Handler
  PROVE  Answers'
<1>1. CASE Close
  <2>1. handler \in HandlerState /\ pipe \in Seq(Items) BY AnswersKnown
  <2>2. handler'.pc = "none" /\ handler'.left = {}
    BY <1>1, <2>1, HandlerMoves DEF Close
  <2>3. pipe' = pipe BY <1>1, <2>1, AddNone DEF Close, Answer
  <2>4. QED
    BY <1>1, <2>2, <2>3, EndKeepsAnswers DEF Close, Answer, history
<1>2. QED
  BY <1>1, CheckKeepsAnswers, ListKeepsAnswers, CountKeepsAnswers,
     LineKeepsAnswers
  DEF Handler

(* A query that the server's faults cut short. *)
LEMMA FaultsKeepAnswers ==
  ASSUME PeersKnown, ServerDies \/ SelectFails
  PROVE  Answers'
<1>1. handler \in HandlerState /\ HistoryOK /\ PipeOK /\ CacheRead
      /\ Taken \in 0..2 /\ Len(pipe) \in Nat
  BY AnswersKnown
<1>2. CASE ServerDies
  <2>1. handler'.pc = "none" /\ handler'.left = {} BY <1>2 DEF ServerDies
  <2>2. QED BY <1>2, <2>1, EndKeepsAnswers DEF ServerDies
<1>3. ASSUME SelectFails, handler.pc = "lines", NEW n \in handler.left,
             handler' = [handler EXCEPT !.left = @ \ {n}],
             UNCHANGED <<pipe, closed>>
      PROVE  Answers'
  BY <1>3, SkipKeepsAnswers DEF SelectFails
<1>6. ASSUME SelectFails, handler.pc = "list", NEW names \in SUBSET Online,
             Cardinality(names) =< MaxUsers,
             handler' = [pc |-> "count", left |-> names],
             pipe' = << 0 >>, UNCHANGED closed
      PROVE  Answers'
  <2>1. Asking /\ Written = 0 BY <1>1, <1>6 DEF PipeOK
  <2>2. Taken = 0 BY <1>1, <2>1 DEF Written
  <2>3. UNCHANGED <<store, console, cache, during, throughout>> /\ cut' = TRUE
    BY <1>6 DEF SelectFails
  <2>4. Taken' = 0 /\ Asking' BY <2>1, <2>2, <2>3 DEF Taken, Asking
  <2>5. closed' = FALSE
    <3>1. closed \in BOOLEAN BY DEF PeersKnown, PeersInductive, PeersTypeOK
    <3>2. QED BY <1>1, <1>6, <3>1 DEF PipeOK
  <2>6. Len(pipe') = 1 /\ pipe'[1] = 0 BY <1>6
  <2>7. Written' = 1 BY <2>4, <2>6 DEF Written
  <2>8. ASSUME NEW i \in 1..Len(pipe') PROVE ItemOK(i)'
    <3>1. i = 1 BY <2>6
    <3>2. pipe'[i] = 0 /\ Taken' + i = 1 BY <2>4, <2>6, <3>1
    <3>3. QED BY <3>2 DEF ItemOK
  <2>9. PipeOK' BY <1>6, <2>4, <2>5, <2>7, <2>8 DEF PipeOK
  <2>10. HistoryOK' /\ CacheRead'
    BY <1>1, <2>1, <2>3, <2>4
    DEF HistoryOK, CacheRead, store, Sessions, Online, Connected, Exists, AddrOf
  <2>11. ListOK' BY <2>3 DEF ListOK
  <2>12. QED BY <2>9, <2>10, <2>11 DEF Answers
<1>4. ASSUME SelectFails, handler.pc \in {"check", "list"},
             handler' = [handler EXCEPT !.pc = "none"],
             pipe' = << 2 >>, closed' = TRUE
      PROVE  Answers'
  <2>1. Asking /\ Written = 0 BY <1>1, <1>4 DEF PipeOK
  <2>2. Taken = 0 BY <1>1, <2>1 DEF Written
  <2>3. UNCHANGED <<store, console, cache, during, throughout>> /\ cut' = TRUE
    BY <1>4 DEF SelectFails
  <2>4. Taken' = 0 /\ Asking' BY <2>1, <2>2, <2>3 DEF Taken, Asking
  <2>5. handler'.pc = "none" BY <1>1, <1>4, HandlerMoves
  <2>6. Len(pipe') = 1 /\ pipe'[1] = 2 BY <1>4
  <2>7. Written' = 1 BY <2>4, <2>6 DEF Written
  <2>8. ASSUME NEW i \in 1..Len(pipe') PROVE ItemOK(i)'
    <3>1. i = 1 BY <2>6
    <3>2. pipe'[i] \in {0, 1, 2} /\ Taken' + i = 1 BY <2>4, <2>6, <3>1
    <3>3. QED BY <2>5, <2>6, <3>2 DEF ItemOK
  <2>9. PipeOK' BY <1>4, <2>4, <2>5, <2>7, <2>8 DEF PipeOK
  <2>10. HistoryOK' /\ CacheRead'
    BY <1>1, <2>1, <2>3, <2>4
    DEF HistoryOK, CacheRead, store, Sessions, Online, Connected, Exists, AddrOf
  <2>11. ListOK' BY <2>3 DEF ListOK
  <2>12. QED BY <2>9, <2>10, <2>11 DEF Answers
<1>5. QED BY <1>2, <1>3, <1>4, <1>6 DEF SelectFails

(* A step that leaves the query, its histories and the store alone. *)
LEMMA NothingKeepsAnswers ==
  ASSUME PeersKnown, UNCHANGED <<store, query, history>>
  PROVE  Answers'
<1>1. HistoryOK /\ PipeOK /\ ListOK /\ CacheRead BY AnswersKnown
<1>2. UNCHANGED <<users, console, handler, pipe, closed, cache, during,
                  throughout, cut>>
  BY DEF store, query, history
<1>3. /\ Taken' = Taken /\ Written' = Written /\ Due' = Due /\ (Asking' <=> Asking)
      /\ Sessions' = Sessions /\ Online' = Online
      /\ \A k : InPipe(k)' <=> InPipe(k)
      /\ \A i \in 1..Len(pipe) : ItemOK(i) => ItemOK(i)'
  BY <1>2
  DEF Taken, Written, Due, Asking, InPipe, ItemOK, Sessions, Online,
      Connected, Exists, AddrOf
<1>4. HistoryOK' /\ CacheRead' BY <1>1, <1>2, <1>3 DEF HistoryOK, CacheRead
<1>5. PipeOK' BY <1>1, <1>2, <1>3 DEF PipeOK
<1>6. ListOK' BY <1>1, <1>2, <1>3 DEF ListOK
<1>7. QED BY <1>4, <1>5, <1>6 DEF Answers

(* The histories follow the other clients, who come and go. *)
LEMMA MoveKeepsAnswers ==
  ASSUME PeersKnown, Move, RowsOK'
  PROVE  Answers'
<1>1. HistoryOK /\ PipeOK /\ ListOK /\ CacheRead BY AnswersKnown
<1>2. UNCHANGED <<console, handler, pipe, closed, cache, cut>>
  BY DEF Move, query
<1>3. /\ Taken' = Taken /\ Written' = Written /\ Due' = Due /\ (Asking' <=> Asking)
      /\ \A k : InPipe(k)' <=> InPipe(k)
  BY <1>2 DEF Taken, Written, Due, Asking, InPipe
<1>4. CASE ~Asking
  <2>1. UNCHANGED during BY <1>4 DEF Move
  <2>2. closed' <=> handler'.pc = "none" BY <1>1, <1>2 DEF PipeOK
  <2>3. ~Asking' BY <1>3, <1>4
  <2>4. QED BY <1>2, <1>4, <2>1, <2>2, <2>3, UnheardKeepsAnswers
<1>5. CASE Asking
  <2> DEFINE now == {<<n, <<users'[n].ip, users'[n].port>>>> :
                        n \in {k \in Names : users'[k].status = 1}}
  <2>1. /\ during' = during \cup now
        /\ throughout' = {n \in throughout : users'[n].status = 1}
    BY <1>5 DEF Move
  <2>2. HistoryOK'
    <3>1. \A s \in during' : s[1] \in Names BY <1>1, <2>1 DEF HistoryOK
    <3>2. Sessions' \subseteq now
      BY DEF Sessions, Connected, Exists, AddrOf
    <3>3. throughout' \subseteq Online'
      BY <1>1, <1>5, <2>1 DEF HistoryOK, Online, RowsOK, Connected, Exists
    <3>4. QED BY <2>1, <3>1, <3>2, <3>3 DEF HistoryOK
  <2> HIDE DEF now
  <2>3. \A i \in 1..Len(pipe) : ItemOK(i) => ItemOK(i)'
    BY <1>2, <1>3, <2>1 DEF ItemOK
  <2>4. PipeOK' BY <1>1, <1>2, <1>3, <2>3 DEF PipeOK
  <2>5. CacheRead' BY <1>1, <1>2, <2>1 DEF CacheRead
  <2>6. ASSUME Cardinality({s[1] : s \in during'}) =< MaxUsers
        PROVE  Cardinality({s[1] : s \in during}) =< MaxUsers
    <3> DEFINE then == {s[1] : s \in during}
               after == {s[1] : s \in during'}
    <3>1. then \in SUBSET after /\ after \in SUBSET Names
      BY <2>1, <2>2 DEF HistoryOK
    <3>2. IsFiniteSet(after) BY <3>1, PeersAssumption, FS_Subset
    <3>3. IsFiniteSet(then) /\ Cardinality(then) =< Cardinality(after)
      BY <3>1, <3>2, FS_Subset
    <3>4. Cardinality(then) \in Nat /\ Cardinality(after) \in Nat
      BY <3>2, <3>3, FS_CardinalityType
    <3>5. QED BY <2>6, <3>3, <3>4, PeersAssumption
  <2>7. ListOK' BY <1>1, <1>2, <1>3, <2>1, <2>6 DEF ListOK
  <2>8. QED BY <2>2, <2>4, <2>5, <2>7 DEF Answers
<1>6. QED BY <1>4, <1>5

-----------------------------------------------------------------------------
(* What a line of a plain name said was its user's address. *)
LEMMA CacheReadTrue == CacheRead => CacheWasTrue
<1> SUFFICES ASSUME CacheRead, NEW n \in Names, cache[n] # NoAddr
             PROVE  \/ <<n, cache[n]>> \in during
                    \/ \E s \in during :
                         ~Plain(s[1]) /\ <<n, cache[n]>> \in ReadAs(s[1], s[2])
  BY DEF CacheWasTrue
<1>1. PICK s \in during \cap (Names \X Addrs) :
        <<n, cache[n]>> \in ReadAs(s[1], s[2])
  BY DEF CacheRead
<1>2. CASE Plain(s[1])
  <2>1. s[1] \in Names /\ s[2] \in Addrs /\ s = <<s[1], s[2]>> BY <1>1
  <2>2. ReadAs(s[1], s[2]) = {<<s[1], s[2]>>} BY <1>2, <2>1, PlainRead
  <2>3. QED BY <1>1, <2>1, <2>2
<1>3. CASE ~Plain(s[1]) BY <1>1, <1>3
<1>4. QED BY <1>2, <1>3

(* All of it together. *)
LEMMA AllParts ==
  ASSUME PeersTypeOK', PipeTypeOK', RowsOK', Answers', Transfers'
  PROVE  PeersKnown'
<1>1. CacheWasTrue' BY CacheReadTrue, PTL DEF Answers
<1>2. QED BY <1>1 DEF PeersKnown, PeersInductive, Answers, Transfers

(* The parts that a step which does not touch them keeps. *)
LEMMA Untouched ==
  ASSUME PeersKnown
  PROVE  /\ UNCHANGED store => RowsOK'
         /\ UNCHANGED <<console, cache, exchange>> => Transfers'
         /\ UNCHANGED peersVars => PeersTypeOK' /\ PipeTypeOK'
<1>1. RowsOK /\ CallOK /\ CopyOK /\ FileIsWhole /\ PeersTypeOK /\ PipeTypeOK
  BY DEF PeersKnown, PeersInductive
<1>2. ASSUME UNCHANGED store PROVE RowsOK'
  BY <1>1, <1>2 DEF store, RowsOK, Exists, Connected, AddrOf
<1>3. ASSUME UNCHANGED <<console, cache, exchange>> PROVE Transfers'
  BY <1>1, <1>3 DEF exchange, Transfers, CallOK, CopyOK, FileIsWhole
<1>4. ASSUME UNCHANGED peersVars PROVE PeersTypeOK' /\ PipeTypeOK'
  BY <1>1, <1>4
  DEF peersVars, store, query, exchange, history, PeersTypeOK, PipeTypeOK,
      StoreTypeOK
<1>5. QED BY <1>2, <1>3, <1>4

(* A query, or a file from an address that the cache has. *)
LEMMA CommandKeepsPeers ==
  ASSUME PeersKnown, Users \/ \E n \in Names : GetFile(n)
  PROVE  PeersKnown'
<1>1. PeersTypeOK BY DEF PeersKnown, PeersInductive
<1>2. ASSUME NEW n \in Names \cup {NoName}, AtPrompt, Query(n) PROVE PeersKnown'
  <2>1. PeersTypeOK' /\ PipeTypeOK' BY <1>1, <1>2, QueryTypes
  <2>2. Answers' BY <1>2, QueryStartsAnswers
  <2>3. Transfers' BY <1>2, ConsoleKeepsTransfers
  <2>4. RowsOK' BY <1>2, Untouched DEF Query
  <2>5. QED BY <2>1, <2>2, <2>3, <2>4, AllParts
<1>3. ASSUME NEW n \in Names, AtPrompt, GetFile(n),
             console' = [console EXCEPT !.pc = "call", !.want = n],
             UNCHANGED <<store, host, handler, pipe, closed, cache, exchange,
                         history, moves, faults>>
      PROVE  PeersKnown'
  <2>1. console \in ConsoleState BY AnswersKnown
  <2>2. console' \in ConsoleState /\ console'.pc = "call"
    BY <1>3, <2>1 DEF ConsoleState, Places
  <2>3. PeersTypeOK' /\ PipeTypeOK'
    BY <1>1, <1>3, <2>2
    DEF PeersKnown, PipeTypeOK, PeersTypeOK, StoreTypeOK, store, exchange,
        ConsoleState, Places
  <2>4. ~Asking /\ ~Asking'
    BY <1>3, <2>2 DEF AtPrompt, Asking, Reading
  <2>5. Answers' BY <1>3, <2>4, IdleKeepsAnswers DEF history
  <2>6. Transfers' BY <1>3, ConsoleKeepsTransfers
  <2>7. RowsOK' BY <1>3, Untouched
  <2>8. QED BY <2>3, <2>5, <2>6, <2>7, AllParts
<1>4. QED BY <1>2, <1>3 DEF Users, GetFile

(* Every step of Peers keeps them. *)
LEMMA PeersKeep ==
  ASSUME PeersKnown, PeersNext
  PROVE  PeersKnown'
<1>1. ASSUME ReadCode \/ ReadCount \/ ReadLine \/ Listed \/ GiveUp
      PROVE  PeersKnown'
  <2>1. UNCHANGED store
    BY <1>1 DEF ReadCode, ReadCount, ReadLine, Listed, GiveUp
  <2>2. QED
    BY <1>1, <2>1, ReadingTypes, ReadingKeepsAnswers, ConsoleKeepsTransfers,
       Untouched, AllParts
<1>2. CASE Pick \/ Call
  <2>1. ~Asking BY <1>2 DEF Pick, Call, Asking, Reading
  <2>2. console \in ConsoleState BY AnswersKnown
  <2>3. ~Asking'
    BY <1>2, <2>2 DEF Pick, Call, Asking, Reading, ConsoleState
  <2>4. UNCHANGED <<store, handler, closed, cache, during>>
    BY <1>2 DEF Pick, Call, history
  <2>5. Answers' BY <2>1, <2>3, <2>4, IdleKeepsAnswers
  <2>6. QED
    BY <1>2, <2>4, <2>5, TransferTypes, ConsoleKeepsTransfers, Untouched, AllParts
<1>3. CASE AskFile
  <2>1. console \in ConsoleState BY AnswersKnown
  <2>2. ~Asking /\ ~Asking' /\ UNCHANGED <<store, handler, closed, cache, during>>
    BY <1>3, <2>1 DEF AskFile, Asking, Reading, ConsoleState, history
  <2>3. Answers' BY <2>2, IdleKeepsAnswers
  <2>4. QED
    BY <1>3, <2>2, <2>3, TransferTypes, CopiesKeepTransfers, Untouched, AllParts
<1>4. CASE Handler
  <2>1. UNCHANGED <<store, console, cache, exchange>>
    BY <1>4 DEF Handler, Check, List, SendCount, Line, Close, Answer
  <2>2. QED
    BY <1>4, <2>1, HandlerTypes, HandlerKeepsAnswers, Untouched, AllParts
    DEF Handler
<1>5. CASE Copy \/ Sender
  <2>1. UNCHANGED <<store, query, history>>
    BY <1>5 DEF Copy, Sender, AcceptTimeout, Receive, EndOfFile, Dial, Open,
                SendChunk
  <2>2. QED
    BY <1>5, <2>1, TransferTypes, CopiesKeepTransfers, NothingKeepsAnswers,
       Untouched, AllParts
<1>6. CASE ServerDies \/ SelectFails
  <2>1. UNCHANGED <<store, console, cache, exchange>>
    BY <1>6 DEF ServerDies, SelectFails
  <2>2. QED
    BY <1>6, <2>1, FaultTypes, FaultsKeepAnswers, Untouched, AllParts
    DEF Faults
<1>7. CASE SenderDies \/ CopyFails
  <2>1. UNCHANGED <<store, query, history>> BY <1>7 DEF SenderDies, CopyFails
  <2>2. QED
    BY <1>7, <2>1, FaultTypes, CopiesKeepTransfers, NothingKeepsAnswers,
       Untouched, AllParts
    DEF Faults
<1>8. CASE Relaunch
  <2>1. console \in ConsoleState BY AnswersKnown
  <2>2. ~Asking /\ ~Asking'
    BY <1>8, <2>1 DEF Relaunch, Asking, Reading, ConsoleState
  <2>3. Answers' BY <1>8, <2>2, IdleKeepsAnswers DEF Relaunch
  <2>4. UNCHANGED store BY <1>8 DEF Relaunch
  <2>5. QED
    BY <1>8, <2>3, <2>4, FaultTypes, ConsoleKeepsTransfers, Untouched, AllParts
    DEF Faults
<1>9. CASE Others
  <2>1. Move BY <1>9 DEF Others, Arrive, Depart, Vanish
  <2>2. UNCHANGED <<console, cache, exchange>> BY <2>1 DEF Move, query
  <2>3. QED
    BY <1>9, <2>1, <2>2, OtherTypes, MoveKeepsAnswers, Untouched, AllParts
<1>10. CASE Users \/ \E n \in Names : GetFile(n) BY <1>10, CommandKeepsPeers
<1>11. QED
  BY <1>1, <1>2, <1>3, <1>4, <1>5, <1>6, <1>7, <1>8, <1>9, <1>10
  DEF PeersNext, Client, Faults

(* Before the first call nothing is cached and nobody transfers anything. *)
LEMMA PeersStart ==
  ASSUME PeersInit
  PROVE  PeersKnown
<1> DEFINE mine == [status |-> 1, ip |-> MyAddr[1], port |-> MyAddr[2],
                    msg_counter |-> 0]
           theirs == [status |-> 0, ip |-> NoIp, port |-> 0, msg_counter |-> 0]
<1>1. mine \in UserRow /\ theirs \in UserRow /\ <<MyAddr[1], MyAddr[2]>> \in Addrs
  BY PeersAssumption, MaxIdAssumption DEF UserRow, Addrs
<1>2. /\ users[Me] = mine /\ Me \in Names
      /\ \A n \in Names : users[n] = IF n = Me THEN mine ELSE theirs
  BY PeersAssumption DEF PeersInit
<1>3. users \in [Names -> UserRow \cup {NoUser}]
  BY <1>1, <1>2 DEF PeersInit
<1>4. StoreTypeOK BY <1>3 DEF PeersInit, StoreTypeOK
<1>5. console \in ConsoleState /\ handler \in HandlerState
  BY PeersAssumption DEF PeersInit, ConsoleState, HandlerState, Places
<1>6. transfer \in TransferState /\ sender \in SenderState
  BY Beginnings DEF PeersInit
<1>7. PeersTypeOK
  BY <1>4, <1>5, <1>6, TypesAre, PeersAssumption DEF PeersInit
<1>8. RowsOK
  <2>1. ASSUME NEW n \in Names, n # Me PROVE Exists(n) /\ ~Connected(n)
    <3>1. users[n] = theirs BY <1>2, <2>1
    <3>2. users[n] # NoUser BY <1>1, <3>1, NoUserAssumption
    <3>3. users[n].status = 0 BY <3>1
    <3>4. QED BY <3>2, <3>3 DEF Exists, Connected
  <2>2. Exists(Me) BY <1>1, <1>2, NoUserAssumption DEF Exists
  <2>3. users[Me].ip = MyAddr[1] /\ users[Me].port = MyAddr[2] BY <1>2
  <2>4. AddrOf(Me) \in Addrs BY <1>1, <2>3 DEF AddrOf
  <2>5. QED BY <2>1, <2>2, <2>4 DEF RowsOK
<1>9. PipeTypeOK BY DEF PeersInit, PipeTypeOK
<1>10. ~Asking BY DEF PeersInit, Asking, Reading
<1>11. HistoryOK /\ PipeOK /\ ListOK /\ CacheRead /\ CacheWasTrue
  BY <1>10 DEF PeersInit, HistoryOK, PipeOK, ListOK, CacheRead, CacheWasTrue
<1>12. CallOK /\ CopyOK /\ FileIsWhole
  BY DEF PeersInit, CallOK, CopyOK, FileIsWhole, NoCopy, NoSender, Reading
<1>13. QED
  BY <1>7, <1>8, <1>9, <1>11, <1>12 DEF PeersKnown, PeersInductive

(* Every part of the invariant holds at every step, and what is in the pipe *)
(* is a sequence of codes, counts and lines.                                *)
THEOREM PeersHold == PeersSpec => [](PeersInductive /\ PipeTypeOK)
<1>1. PeersInit => PeersInductive /\ PipeTypeOK BY PeersStart DEF PeersKnown
<1>2. (PeersInductive /\ PipeTypeOK) /\ [PeersNext]_peersVars
        => (PeersInductive /\ PipeTypeOK)'
  <2>1. ASSUME PeersKnown, UNCHANGED peersVars PROVE PeersKnown'
    <3>1. UNCHANGED <<store, query, exchange, history>>
          /\ UNCHANGED <<console, cache>>
      BY <2>1 DEF peersVars, query
    <3>2. QED BY <2>1, <3>1, NothingKeepsAnswers, Untouched, AllParts
  <2>2. QED BY <2>1, PeersKeep DEF PeersKnown
<1>3. QED BY <1>1, <1>2, PTL DEF PeersSpec

(* The types of the query, of the handler and of the transfer. *)
THEOREM PeersTypes == PeersSpec => []PeersTypeOK
<1>1. PeersInductive => PeersTypeOK BY DEF PeersInductive
<1>2. QED BY <1>1, PeersHold, PTL

(* Every address the client keeps was its user's, at the server, while the *)
(* query that brought it ran, or the name of whoever had it has a ':' or a *)
(* blank (USERS and GETFILE, whatever the others did).                     *)
THEOREM CachesWereTrue == PeersSpec => []CacheWasTrue
<1>1. PeersInductive => CacheWasTrue BY DEF PeersInductive
<1>2. QED BY <1>1, PeersHold, PTL

(* GETFILE OK stands for the whole file of the user that was asked, or for *)
(* one of the three accidents that look the same.                          *)
THEOREM FilesAreWhole == PeersSpec => []FileIsWhole
<1>1. PeersInductive => FileIsWhole BY DEF PeersInductive
<1>2. QED BY <1>1, PeersHold, PTL

(* A list that is complete, says the server, is complete: whoever was       *)
(* connected from its first byte to its last is in it, if there was room,   *)
(* nothing failed and the name is one word.                                 *)
THEOREM ListsAreComplete == PeersSpec => ListsTheConnected
<1>1. ASSUME PeersInductive, PipeTypeOK, Listed, ~cut,
             Cardinality({s[1] : s \in during}) =< MaxUsers,
             NEW n \in throughout, Plain(n)
      PROVE  cache[n] # NoAddr
  <2>1. PeersKnown BY <1>1 DEF PeersKnown
  <2>2. /\ PipeOK /\ ListOK /\ handler \in HandlerState /\ Len(pipe) \in Nat
        /\ Taken = 2 /\ Asking /\ Due = 0 /\ Written = 2 + Len(pipe)
    <3>1. Taken = 2 /\ Asking /\ Due = 0
      BY <1>1 DEF Listed, Taken, Asking, Reading, Due
    <3>2. QED BY <2>1, <3>1, AnswersKnown DEF Written
  <2>3. handler.left \in SUBSET Names /\ IsFiniteSet(handler.left)
    BY <2>2, PeersAssumption, FS_Subset DEF HandlerState
  <2>4. Cardinality(handler.left) \in Nat BY <2>3, FS_CardinalityType
  <2>5. Written - 2 + Cardinality(handler.left) =< 0 /\ Written >= 2
    BY <2>2 DEF PipeOK
  <2>6. Len(pipe) = 0 /\ Cardinality(handler.left) = 0
    BY <2>2, <2>4, <2>5
  <2>7. handler.left = {} BY <2>3, <2>6, FS_EmptySet
  <2>8. ~InPipe(n) BY <2>6 DEF InPipe
  <2>9. n \in handler.left \/ InPipe(n) \/ cache[n] # NoAddr
    BY <1>1, <2>2, <2>5 DEF ListOK
  <2>10. QED BY <2>7, <2>8, <2>9
<1>2. PeersInductive /\ PipeTypeOK
        => (Listed /\ ~cut /\ Cardinality({s[1] : s \in during}) =< MaxUsers
              => \A n \in throughout : Plain(n) => cache[n] # NoAddr)
  BY <1>1
<1>3. QED BY <1>2, PeersHold, PTL DEF ListsTheConnected
=============================================================================
