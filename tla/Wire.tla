-------------------------------- MODULE Wire --------------------------------
(***************************************************************************)
(* The text of one command on its way through the system: the line typed   *)
(* at the console (client.py, read_input), the web service that normalises *)
(* a message (ws.py), the request the client builds (commands.py), the     *)
(* fields the server cuts it into (server.c, recv_msg), the frame with     *)
(* which conn_deliver hands a message over, what the listening thread of   *)
(* the receiver makes of it, and the receipt of the sender.                *)
(*                                                                         *)
(* Strings are those of Text.  Buffers have the sizes the code gives them, *)
(* so that what is cut, and where, is what the code cuts.                  *)
(* Sessions, the data base and the order of deliveries are in Client,      *)
(* UserStore and Server; here one command runs at a time.                  *)
(***************************************************************************)
EXTENDS Text

CONSTANTS Lines,    \* the lines typed at the console
          Names,    \* the registered names, as strings
          Me,       \* the name of the user of this console, as a string
          MsgId,    \* the identifier msg_add returns, written in decimal
          Port      \* the port of the listening thread, written in decimal

\* The console hands over whole characters; a number is written in digits.
ASSUME TextsAreText ==
  /\ Lines \subseteq Text /\ Me \in Text
  /\ \A s \in Lines \union {Me} : ~Broken(s)

ASSUME NumbersAreText ==
  \A s \in {MsgId, Port} :
    /\ s \in Text /\ s # <<>> /\ Length(s) <= 10 /\ ~Has(s, Hash)
    /\ \A i \in DOMAIN s : s[i].c = 1

VARIABLES stage,    \* the function about to run
          me,       \* _connected_user: Me, or the empty string
          line,     \* curr_line
          call,     \* the Client method called and its arguments
          request,  \* what _send writes to the server
          rest,     \* the bytes of raw_buf from cursor on
          fields,   \* the fields found so far
          stored,   \* the message given to msg_add
          frame,    \* what conn_deliver sends, to the receiver or the sender
          shown,    \* what the listening thread of the receiver prints
          acked,    \* what the listening thread of the sender prints
          dead      \* the listening threads that ended with an exception

vars == <<stage, me, line, call, request, rest, fields, stored, frame, shown,
          acked, dead>>

MAX_NAME == 256
MAX_MSG == 256
MAX_MSG_FIELDS == 8

\* Mutant: a request with room for one field.
WrongRequestSize == MAX_NAME
RequestSize == MAX_NAME * 5 + 64

\* Mutant: a frame with no room beyond a name and a text.
WrongFrameSize == MAX_NAME + MAX_MSG
FrameSize == MAX_NAME + MAX_MSG + 512
AckSize == 256

-----------------------------------------------------------------------------
(* The console *)

Nothing == [op |-> "none"]

WireInit ==
  /\ stage = "prompt" /\ me = <<>> /\ line = <<>> /\ call = Nothing
  /\ request = <<>> /\ rest = <<>> /\ fields = <<>> /\ stored = Nothing
  /\ frame = <<>> /\ shown = Nothing /\ acked = Nothing /\ dead = {}

\* A line is typed, by a user who is connected or not.
Type ==
  /\ stage = "prompt"
  /\ line' \in Lines
  /\ me' \in {Me, <<>>}
  /\ stage' = "typed"
  /\ call' = Nothing /\ request' = <<>> /\ rest' = <<>> /\ fields' = <<>>
  /\ stored' = Nothing /\ frame' = <<>> /\ shown' = Nothing /\ acked' = Nothing
  /\ UNCHANGED dead

\* The numbers of parts read_input accepts, and the arguments it passes on.
Parts ==
  [REGISTER |-> {2}, UNREGISTER |-> {2}, CONNECT |-> {2}, DISCONNECT |-> {2},
   SEND |-> {3, 4}, SENDATTACH |-> {4}, USERS |-> 1 .. 4]

Arguments ==
  [REGISTER |-> 1, UNREGISTER |-> 1, CONNECT |-> 1, DISCONNECT |-> 1,
   SEND |-> 2, SENDATTACH |-> 3, USERS |-> 0]

\* read_input: the line is split at its first three spaces.  A command it does
\* not know or with another number of parts is refused.
ReadInput ==
  LET parts == Split(line, Space, 3)
      known == {op \in DOMAIN Parts : parts[1] = Token(op) /\ Len(parts) \in Parts[op]}
  IN  /\ stage = "typed"
      /\ \/ /\ known = {}
            /\ stage' = "prompt"
            /\ UNCHANGED call
         \/ \E op \in known :
              /\ call' = [op |-> op, args |-> SubSeq(parts, 2, 1 + Arguments[op])]
              /\ stage' = "call"
      /\ UNCHANGED <<me, line, request, rest, fields, stored, frame, shown, acked, dead>>

\* send: refused when nobody is connected, otherwise the message goes through
\* the web service, or stays as it is when the service does not answer 200.
Normalise ==
  /\ stage = "call" /\ call.op = "SEND"
  /\ IF me = <<>>
     THEN stage' = "prompt" /\ UNCHANGED call
     ELSE /\ \/ call' = [call EXCEPT !.args[2] = QuitarEspacios(@)]
             \/ UNCHANGED call
          /\ stage' = "request"
  /\ UNCHANGED <<me, line, request, rest, fields, stored, frame, shown, acked, dead>>

\* send_attach looks at the first character of the file name: an empty name
\* raises IndexError, which nothing catches.
CheckFile ==
  /\ stage = "call" /\ call.op = "SENDATTACH"
  /\ stage' = CASE call.args[3] = <<>>            -> "crashed"
                [] call.args[3] # <<>> /\ call.args[3][1] # Slash -> "prompt"
                [] OTHER                          -> "request"
  /\ UNCHANGED <<me, line, call, request, rest, fields, stored, frame, shown, acked, dead>>

\* The other methods send their request at once.
Plain ==
  /\ stage = "call" /\ call.op \notin {"SEND", "SENDATTACH"}
  /\ stage' = "request"
  /\ UNCHANGED <<me, line, call, request, rest, fields, stored, frame, shown, acked, dead>>

\* The client is started again, here or at the receiver.
Relaunch ==
  /\ \/ stage = "crashed"
     \/ stage = "prompt" /\ dead # {}
  /\ stage' = "prompt" /\ dead' = {}
  /\ UNCHANGED <<me, line, call, request, rest, fields, stored, frame, shown, acked>>

\* What each method sends after the name of its operation.
Payload ==
  CASE call.op = "CONNECT"    -> <<call.args[1], Port>>
    [] call.op = "SEND"       -> <<me>> \o call.args
    [] call.op = "SENDATTACH" -> <<IF me = <<>> THEN Token("None") ELSE me>> \o call.args
    [] call.op = "USERS"      -> <<me>>
    [] OTHER                  -> call.args

Request ==
  /\ stage = "request"
  /\ request' = Join(<<Token(call.op)>> \o Payload, Hash)
  /\ stage' = "recv"
  /\ UNCHANGED <<me, line, call, rest, fields, stored, frame, shown, acked, dead>>

-----------------------------------------------------------------------------
(* The server *)

\* recv_msg, first loop: bytes up to the '\0' or to the end of raw_buf.
Receive ==
  /\ stage = "recv"
  /\ rest' = Cut(request, RequestSize - 1)
  /\ stage' = "split"
  /\ UNCHANGED <<me, line, call, request, fields, stored, frame, shown, acked, dead>>

\* Mutant: a separator at the end opens one more, empty field.
TrailingSplitField ==
  LET piece == Split(rest, Hash, 1)
      last  == Len(piece) = 1
  IN  /\ stage = "split"
      /\ fields' = Append(fields, Cut(piece[1], MAX_NAME - 1))
      /\ rest' = IF last THEN <<>> ELSE piece[2]
      /\ stage' = IF last \/ Len(fields') = MAX_MSG_FIELDS THEN "dispatch" ELSE "split"
      /\ UNCHANGED <<me, line, call, request, stored, frame, shown, acked, dead>>

\* Mutant: fields is filled past its end.
EndlessSplitField ==
  LET piece == Split(rest, Hash, 1)
      last  == Len(piece) = 1
  IN  /\ stage = "split"
      /\ fields' = Append(fields, Cut(piece[1], MAX_NAME - 1))
      /\ rest' = IF last THEN <<>> ELSE piece[2]
      /\ stage' = IF last \/ rest' = <<>> THEN "dispatch" ELSE "split"
      /\ UNCHANGED <<me, line, call, request, stored, frame, shown, acked, dead>>

\* recv_msg, second loop: one field, cut to MAX_NAME - 1 bytes.  The loop ends
\* at the last separator, when nothing follows a separator, or when fields is
\* full.
SplitField ==
  LET piece == Split(rest, Hash, 1)
      last  == Len(piece) = 1
  IN  /\ stage = "split"
      /\ fields' = Append(fields, Cut(piece[1], MAX_NAME - 1))
      /\ rest' = IF last THEN <<>> ELSE piece[2]
      /\ stage' = IF last \/ rest' = <<>> \/ Len(fields') = MAX_MSG_FIELDS
                  THEN "dispatch" ELSE "split"
      /\ UNCHANGED <<me, line, call, request, stored, frame, shown, acked, dead>>

\* The least number of fields each handler accepts.
Needs ==
  [REGISTER |-> 2, UNREGISTER |-> 2, CONNECT |-> 3, DISCONNECT |-> 2,
   SEND |-> 4, SENDATTACH |-> 5, USERS |-> 2]

\* handle_client calls the handler of the first field; the handler answers 2
\* when fields are missing.
Dispatch ==
  /\ stage = "dispatch"
  /\ stage' = IF \E op \in DOMAIN Needs :
                    fields[1] = Token(op) /\ Len(fields) >= Needs[op]
              THEN "handle" ELSE "prompt"
  /\ UNCHANGED <<me, line, call, request, rest, fields, stored, frame, shown, acked, dead>>

\* handle_send and handle_send_attached: a receiver that is not registered is
\* answered 1, otherwise the message is stored.
Store ==
  /\ stage = "handle" /\ fields[1] \in {Token("SEND"), Token("SENDATTACH")}
  /\ \/ /\ fields[3] \notin Names
        /\ stage' = "prompt"
        /\ UNCHANGED stored
     \/ /\ fields[3] \in Names
        /\ stored' = [op |-> "message", sender |-> fields[2], id |-> MsgId,
                      text |-> fields[4],
                      file |-> IF fields[1] = Token("SEND") THEN <<>> ELSE fields[5]]
        /\ stage' = "deliver"
  /\ UNCHANGED <<me, line, call, request, rest, fields, frame, shown, acked, dead>>

\* The other handlers: their effects are in UserStore, Server and Peers.
HandleOther ==
  /\ stage = "handle" /\ fields[1] \notin {Token("SEND"), Token("SENDATTACH")}
  /\ stage' = "prompt"
  /\ UNCHANGED <<me, line, call, request, rest, fields, stored, frame, shown, acked, dead>>

\* Mutant: the text in the place of the file name.
WrongMessageFrame ==
  IF stored.file # <<>>
  THEN Join(<<Token("SEND_MESSAGE_ATTACH"), stored.sender, stored.id, stored.file,
              stored.text>>, Hash)
  ELSE Join(<<Token("SEND_MESSAGE"), stored.sender, stored.id, stored.text>>, Hash)

\* conn_deliver: the frame of a message, with its file name if it has one.
MessageFrame ==
  IF stored.file # <<>>
  THEN Join(<<Token("SEND_MESSAGE_ATTACH"), stored.sender, stored.id, stored.text,
              stored.file>>, Hash)
  ELSE Join(<<Token("SEND_MESSAGE"), stored.sender, stored.id, stored.text>>, Hash)

\* Mutant: the receipt of a plain message for every message.
WrongAckFrame == Join(<<Token("SEND_MESS_ACK"), stored.id>>, Hash)

AckFrame ==
  IF stored.file # <<>>
  THEN Join(<<Token("SEND_MESS_ATTACH_ACK"), stored.id, stored.file>>, Hash)
  ELSE Join(<<Token("SEND_MESS_ACK"), stored.id>>, Hash)

ASSUME WordsAreText ==
  \A w \in DOMAIN Parts \union {"None", "SEND_MESSAGE", "SEND_MESSAGE_ATTACH",
                                "SEND_MESS_ACK", "SEND_MESS_ATTACH_ACK"} :
    w \in STRING /\ Len(w) \in 1 .. 20

\* The message is sent, unless its frame does not fit or the receiver has no
\* listening thread: then it stays in the data base.
Deliver ==
  /\ stage = "deliver"
  /\ \/ stage' = "prompt" /\ UNCHANGED frame
     \/ /\ Length(MessageFrame) < FrameSize - 1
        /\ "receiver" \notin dead
        /\ frame' = MessageFrame
        /\ stage' = "show"
  /\ UNCHANGED <<me, line, call, request, rest, fields, stored, shown, acked, dead>>

\* The receipt goes to the sender, unless it does not fit or the sender is not
\* connected.
Ack ==
  /\ stage = "ack"
  /\ \/ stage' = "prompt" /\ UNCHANGED frame
     \/ /\ Length(AckFrame) < AckSize
        /\ stored.sender = Me /\ "sender" \notin dead
        /\ frame' = AckFrame
        /\ stage' = "showack"
  /\ UNCHANGED <<me, line, call, request, rest, fields, stored, shown, acked, dead>>

-----------------------------------------------------------------------------
(* The listening threads *)

\* _parse_incoming_message: what is printed for a frame, if anything.
Parsed(s) ==
  LET parts  == Split(s, Hash, 3)
      attach == Split(s, Hash, 4)
  IN  CASE parts[1] = Token("SEND_MESSAGE") /\ Len(parts) = 4 ->
             [op |-> "message", sender |-> parts[2], id |-> parts[3],
              text |-> parts[4], file |-> <<>>]
        [] parts[1] = Token("SEND_MESSAGE_ATTACH") /\ Len(attach) = 5 ->
             [op |-> "message", sender |-> attach[2], id |-> attach[3],
              text |-> attach[4], file |-> attach[5]]
        [] parts[1] = Token("SEND_MESS_ACK") /\ Len(parts) = 2 ->
             [op |-> "ack", id |-> parts[2], file |-> <<>>]
        [] parts[1] = Token("SEND_MESS_ATTACH_ACK") /\ Len(parts) = 3 ->
             [op |-> "ack", id |-> parts[2], file |-> parts[3]]
        [] OTHER -> Nothing

\* Text that does not decode ends the thread; the server has already deleted
\* the message and goes on to the receipt.
Show ==
  /\ stage = "show"
  /\ IF Broken(frame)
     THEN dead' = dead \union {"receiver"} /\ UNCHANGED shown
     ELSE shown' = Parsed(frame) /\ UNCHANGED dead
  /\ stage' = "ack"
  /\ UNCHANGED <<me, line, call, request, rest, fields, stored, frame, acked>>

ShowAck ==
  /\ stage = "showack"
  /\ IF Broken(frame)
     THEN dead' = dead \union {"sender"} /\ UNCHANGED acked
     ELSE acked' = Parsed(frame) /\ UNCHANGED dead
  /\ stage' = "prompt"
  /\ UNCHANGED <<me, line, call, request, rest, fields, stored, frame, shown>>

WireNext ==
  \/ Type \/ ReadInput \/ Normalise \/ CheckFile \/ Plain \/ Relaunch \/ Request
  \/ Receive \/ SplitField \/ Dispatch \/ Store \/ HandleOther \/ Deliver \/ Ack
  \/ Show \/ ShowAck

WireSpec == WireInit /\ [][WireNext]_vars

-----------------------------------------------------------------------------
(* Properties *)

\* Every variable holds what the program declares it to hold; the fields of the
\* server never outgrow message_fields[MAX_MSG_FIELDS][MAX_NAME].
WireTypeOK ==
  /\ stage \in {"prompt", "typed", "call", "request", "crashed", "recv", "split",
                "dispatch", "handle", "deliver", "show", "ack", "showack"}
  /\ me \in {Me, <<>>}
  /\ line \in Lines \union {<<>>}
  /\ call.op \in DOMAIN Parts \union {"none"}
  /\ Length(rest) < RequestSize
  /\ Len(fields) <= MAX_MSG_FIELDS
  /\ \A i \in DOMAIN fields : Length(fields[i]) < MAX_NAME
  /\ stored.op \in {"none", "message"}
  /\ shown.op \in {"none", "message"}
  /\ acked.op \in {"none", "ack"}
  /\ dead \subseteq {"receiver", "sender"}

\* The fields a request is split into by a text: the pieces between separators,
\* as many as there is room for, less an empty piece at the end.
Pieces(s) ==
  LET all == Split(s, Hash, Len(s))
      few == SubSeq(all, 1, Min({Len(all), MAX_MSG_FIELDS}))
      end == IF Last(all) = <<>> THEN Len(all) - 1 ELSE Len(all)
  IN  [i \in 1 .. Min({Len(few), end}) |-> Cut(few[i], MAX_NAME - 1)]

\* The loop of recv_msg, which moves a cursor from separator to separator,
\* finds the fields that splitting the whole request at once gives (server.c,
\* recv_msg).
FieldsAreSplit ==
  stage = "dispatch" => fields = Pieces(Cut(request, RequestSize - 1))

\* Nothing the client sends after the operation holds the separator.
Plainly == \A i \in DOMAIN Payload : ~Has(Payload[i], Hash)

\* The bytes of raw_buf left for the i-th part of the request.
Left(i) ==
  RequestSize - 2 - Length(Join(SubSeq(<<Token(call.op)>> \o Payload, 1, i - 1), Hash))

\* What is left of the i-th part s: a field ends with its buffer or with raw_buf.
Received(s, i) == Cut(s, Min({MAX_NAME - 1, Left(i)}))

\* A handler gets what the client sent: the operation and every argument in its
\* place, cut to the size of a field and no shorter, because the whole request
\* fits raw_buf when none is longer than a field.  Only a '#' typed in an argument moves the
\* ones after it (commands.py builds the request, server.c, recv_msg).
ArgumentsArrive ==
  stage = "handle" /\ Plainly /\ (\A i \in DOMAIN Payload : Length(Payload[i]) < MAX_NAME)
    => fields = <<Token(call.op)>> \o Payload

\* Every message the server accepts can be handed over: its frame fits the
\* buffer of conn_deliver with the longest names, text and file name.  One that
\* did not would stay in the data base for ever (server.c, conn_deliver).
FrameFits == stage = "deliver" => Length(MessageFrame) < FrameSize - 1

\* What the receiver reads is the third word of the line typed, and the file
\* the rest of it, each cut to 255 bytes; unless a '#' was typed.  A word of
\* SEND that holds tabs or other blanks reads as typed or as the web service
\* leaves it.  The sender is the user of the console, and nobody, "None", only
\* in a SENDATTACH of no user.  A request longer than raw_buf loses its end,
\* never another part (client.py, commands.py and server.c together; that the
\* console passes on one word of SEND is not what src/report/report.typ:598-599
\* says of it).
ShownAsSent ==
  shown # Nothing /\ Plainly =>
    LET typed == Split(line, Space, 3)
    IN  /\ shown.sender # Cut(Me, MAX_NAME - 1) =>
             call.op = "SENDATTACH" /\ me = <<>> /\ shown.sender = Token("None")
        /\ shown.id = MsgId
        /\ \/ shown.text = Received(typed[3], 4)
           \/ call.op = "SEND" /\ shown.text = Received(QuitarEspacios(typed[3]), 4)
        /\ shown.file = IF call.op = "SENDATTACH" THEN Received(typed[4], 5) ELSE <<>>

\* The receipt printed for a message names that message and its file, whatever
\* was typed (server.c, conn_deliver; commands.py, _parse_incoming_message).
AckNamesMessage ==
  acked # Nothing => acked = [op |-> "ack", id |-> stored.id, file |-> stored.file]

\* A message, or its receipt, ends the listening thread that reads it only if
\* more than 255 bytes were typed for one of its parts, and characters of
\* several bytes, one of which the server cut in two (server.c, recv_msg;
\* commands.py, _recv_str).
ListenerSurvives ==
  stage \in {"show", "showack"} /\ Broken(frame) =>
    /\ \E i \in DOMAIN Payload : Length(Payload[i]) >= MAX_NAME
    /\ \E i \in DOMAIN Payload : \E j \in DOMAIN Payload[i] : Payload[i][j].c > 1

=============================================================================
