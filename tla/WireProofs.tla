----------------------------- MODULE WireProofs -----------------------------
(* Proofs about Wire, for lines of any length and any characters. *)
EXTENDS Wire, TextProofs

-----------------------------------------------------------------------------
(* The words of the protocol *)

Words == DOMAIN Parts
Others == {"None", "SEND_MESSAGE", "SEND_MESSAGE_ATTACH", "SEND_MESS_ACK",
           "SEND_MESS_ATTACH_ACK"}

LEMMA WordsAre ==
  Words = {"REGISTER", "UNREGISTER", "CONNECT", "DISCONNECT", "SEND", "SENDATTACH", "USERS"}
BY DEF Words, Parts

\* A word is one atom of one-byte characters, and not the separator.
LEMMA TokenIs ==
  ASSUME NEW w \in Words \union Others
  PROVE  /\ Token(w) \in Text /\ Token(w) = <<Atom(w)>> /\ Atom(w) \in Atoms
         /\ Atom(w).w = w /\ Atom(w).c = 1 /\ Atom(w) # Hash
         /\ Length(Token(w)) \in 1 .. 20 /\ Token(w) # <<>>
<1>1. w \in STRING /\ Len(w) \in 1 .. 20 BY WordsAreText DEF Words, Others
<1>2. w # "#" BY WordsAre DEF Others
<1>3. Atom(w) = [w |-> w, n |-> Len(w), c |-> 1] BY Zenon DEF Atom
<1>4. Len(w) \in Nat \ {0} /\ 1 \in Nat \ {0}
  <2>1. 1 \in Nat \ {0} /\ \A n \in 1 .. 20 : n \in Nat \ {0} OBVIOUS
  <2>2. QED BY <1>1, <2>1, Zenon
<1> DEFINE Records == [w : STRING, n : Nat \ {0}, c : Nat \ {0}]
<1>5. Atom(w) \in Records
  <2>1. [w |-> w, n |-> Len(w), c |-> 1] \in Records BY <1>1, <1>4, Zenon
  <2>2. QED BY <1>3, <2>1, Zenon
<1>6. Atom(w).w = w /\ Atom(w).n = Len(w) /\ Atom(w).c = 1 BY <1>3
<1>7. Atom(w) \in Atoms BY <1>2, <1>5, <1>6, Zenon DEF Atoms
<1>8. Atom(w) # Hash
  <2>1. Hash.w = "#" BY MarksAre
  <2>2. QED BY <1>2, <1>6, <2>1, Zenon
<1> HIDE DEF Words, Others
<1>9. Token(w) = <<Atom(w)>> BY DEF Token
<1>10. Token(w) \in Text /\ Length(Token(w)) = Len(w) BY <1>6, <1>7, <1>9, LengthOfOne
<1>11. Token(w) # <<>> BY <1>9
<1>12. QED BY <1>1, <1>6, <1>7, <1>8, <1>9, <1>10, <1>11

LEMMA TokensDiffer ==
  ASSUME NEW v \in Words \union Others, NEW w \in Words \union Others, Token(v) = Token(w)
  PROVE  v = w
<1>1. Token(v)[1] = Atom(v) /\ Token(w)[1] = Atom(w) BY DEF Token
<1>2. Atom(v).w = v /\ Atom(w).w = w BY TokenIs
<1>3. QED BY <1>1, <1>2

LEMMA TokenPlain ==
  ASSUME NEW w \in Words \union Others PROVE ~Has(Token(w), Hash)
<1>1. Token(w) = <<Atom(w)>> /\ Atom(w) # Hash BY TokenIs
<1>2. QED BY <1>1 DEF Has

-----------------------------------------------------------------------------
(* The client *)

Stages == {"prompt", "typed", "call", "request", "crashed", "recv", "split",
           "dispatch", "handle", "deliver", "show", "ack", "showack"}

Typed(op) == [op |-> op, args |-> SubSeq(Split(line, Space, 3), 2, 1 + Arguments[op])]

\* The call passes on the words of the line, that of SEND as the web service
\* leaves it or as it is.
AsTyped ==
  \E op \in Words : /\ Len(Split(line, Space, 3)) >= 1 + Arguments[op]
                   /\ call = Typed(op)

Normalised ==
  /\ Len(Split(line, Space, 3)) >= 3
  /\ call = [Typed("SEND") EXCEPT !.args[2] = QuitarEspacios(@)]

CallIs == call = Nothing \/ AsTyped \/ Normalised

Sent == <<Token(call.op)>> \o Payload

Early == {"typed", "call", "request", "crashed"}
Serving == {"recv", "split", "dispatch", "handle", "deliver", "show", "ack", "showack"}

\* From the line to the request.
ClientInv ==
  /\ stage \in Stages
  /\ me \in {Me, <<>>}
  /\ line \in Lines \union {<<>>}
  /\ CallIs
  /\ stage \in {"call", "request"} => call # Nothing
  /\ stage = "call" => AsTyped
  /\ stage \in Early => request = <<>>
  /\ stage = "request" /\ call.op = "SEND" => me # <<>>
  /\ stage \in Serving => request # <<>>
  /\ request # <<>> => /\ call # Nothing
                       /\ request = Join(Sent, Hash)
                       /\ call.op = "SEND" => me # <<>>
  /\ dead \subseteq {"receiver", "sender"}

LEMMA LineIs == ClientInv => line \in Text /\ me \in Text
BY TextsAreText, AtomIs DEF ClientInv

LEMMA ArgumentsAre ==
  /\ Arguments = [REGISTER |-> 1, UNREGISTER |-> 1, CONNECT |-> 1, DISCONNECT |-> 1,
                  SEND |-> 2, SENDATTACH |-> 3, USERS |-> 0]
  /\ \A op \in Words : Arguments[op] \in 0 .. 3
BY WordsAre DEF Arguments

\* The arguments read from a line are texts, and as many as the method takes.
LEMMA TypedArguments ==
  ASSUME line \in Text, NEW op \in Words,
         Len(Split(line, Space, 3)) >= 1 + Arguments[op]
  PROVE  LET args == Typed(op).args
         IN  /\ Typed(op) = [op |-> op, args |-> args]
             /\ args \in Seq(Text) /\ Len(args) = Arguments[op]
             /\ \A i \in 1 .. Len(args) : args[i] = Split(line, Space, 3)[i + 1]
<1> DEFINE ps == Split(line, Space, 3)
           k == Arguments[op]
           qs == SubSeq(ps, 2, 1 + k)
<1>1. Typed(op) = [op |-> op, args |-> qs] BY DEF Typed
<1>2. Typed(op).args = qs BY DEF Typed
<1>3. ps \in Seq(Text) /\ Len(ps) \in Nat
  <2>1. ps \in Lists BY SplitStep, MarksAre
  <2>2. QED BY <2>1, ListIs DEF Lists
<1>4. k \in 0 .. 3 /\ Len(ps) >= 1 + k BY ArgumentsAre
<1> HIDE DEF ps, k
<1>5. /\ qs \in Seq(Text) /\ Len(qs) = k
      /\ \A i \in 1 .. k : qs[i] = ps[i + 1]
  <2>1. 2 \in 1 .. Len(ps) + 1 /\ 1 + k \in 0 .. Len(ps) BY <1>3, <1>4
  <2>2. \A i \in 2 .. 1 + k : ps[i] \in Text BY <1>3, <1>4
  <2>3. /\ qs \in Seq(Text)
        /\ Len(qs) = IF 2 <= 1 + k THEN (1 + k) - 2 + 1 ELSE 0
        /\ \A i \in 1 .. (1 + k) - 2 + 1 : qs[i] = ps[2 + i - 1]
    BY <1>3, <2>1, <2>2, SubSeqProperties
  <2> HIDE DEF qs
  <2>4. QED BY <1>4, <2>3
<1> HIDE DEF qs
<1>6. QED BY <1>1, <1>2, <1>5 DEF ps, k

\* What the web service makes of the call.
LEMMA NormalisedCall ==
  ASSUME line \in Text, Len(Split(line, Space, 3)) >= 3
  PROVE  LET args == Typed("SEND").args
             sent == [args EXCEPT ![2] = QuitarEspacios(args[2])]
         IN  /\ [Typed("SEND") EXCEPT !.args[2] = QuitarEspacios(@)]
                   = [op |-> "SEND", args |-> sent]
             /\ sent \in Seq(Text) /\ Len(sent) = 2
             /\ sent[1] = Split(line, Space, 3)[2]
             /\ sent[2] = QuitarEspacios(Split(line, Space, 3)[3])
<1> DEFINE args == Typed("SEND").args
           sent == [args EXCEPT ![2] = QuitarEspacios(args[2])]
           ps == Split(line, Space, 3)
<1>1. "SEND" \in Words /\ Arguments["SEND"] = 2 BY WordsAre, ArgumentsAre
<1>2. Len(ps) >= 1 + Arguments["SEND"] BY <1>1
<1>3. /\ Typed("SEND") = [op |-> "SEND", args |-> args]
      /\ args \in Seq(Text) /\ Len(args) = 2
      /\ \A i \in 1 .. Len(args) : args[i] = ps[i + 1]
  BY <1>1, <1>2, TypedArguments
<1>4. [Typed("SEND") EXCEPT !.args[2] = QuitarEspacios(@)] = [op |-> "SEND", args |-> sent]
  <2> HIDE DEF sent
  <2>1. [Typed("SEND") EXCEPT !.args[2] = QuitarEspacios(@)]
          = [Typed("SEND") EXCEPT !.args = sent]
    BY DEF sent
  <2>2. QED BY <1>3, <2>1
<1> HIDE DEF args, ps
<1>5. args[1] = ps[2] /\ args[2] = ps[3]
  <2>1. 1 \in 1 .. Len(args) /\ 2 \in 1 .. Len(args) /\ 1 + 1 = 2 /\ 2 + 1 = 3 BY <1>3
  <2>2. args[1] = ps[1 + 1] /\ args[2] = ps[2 + 1] BY <1>3, <2>1
  <2>3. QED BY <2>1, <2>2
<1>6. args[2] \in Text /\ DOMAIN args = 1 .. 2 BY <1>3
<1>7. QuitarEspacios(args[2]) \in Text
  <2>1. Atoms \in SUBSET Atoms /\ Space \in Atoms BY MarksAre
  <2>2. args[2] \in Seq(Atoms) BY <1>6 DEF Text
  <2>3. QuitarEspacios(args[2]) \in Seq(Atoms) BY <2>1, <2>2, QuitarOver
  <2>4. QED BY <2>3 DEF Text
<1>8. /\ sent \in Seq(Text) /\ Len(sent) = 2 /\ sent[1] = args[1]
      /\ sent[2] = QuitarEspacios(args[2])
  <2> DEFINE x == QuitarEspacios(args[2])
  <2>1. x \in Text /\ args \in Seq(Text) /\ Len(args) = 2 BY <1>3, <1>7
  <2> HIDE DEF x
  <2>2. sent = [args EXCEPT ![2] = x] BY DEF x
  <2> HIDE DEF sent
  <2>3. sent \in Seq(Text) /\ Len(sent) = 2
    <3>1. 2 \in 1 .. Len(args) BY <2>1
    <3>2. [args EXCEPT ![2] = x] \in Seq(Text) /\ Len([args EXCEPT ![2] = x]) = Len(args)
      BY <2>1, <3>1, ExceptSeq
    <3>3. QED BY <2>1, <2>2, <3>2
  <2>4. sent[1] = args[1] /\ sent[2] = x BY <2>1, <2>2
  <2>5. QED BY <2>3, <2>4 DEF x
<1>9. QED BY <1>4, <1>5, <1>8 DEF args, ps

\* The arguments of a call are texts, and as many as its method takes.
LEMMA CallArguments ==
  ASSUME line \in Text, CallIs, call # Nothing
  PROVE  /\ call.op \in Words /\ call.args \in Seq(Text)
         /\ Len(call.args) = Arguments[call.op]
         /\ \A i \in 1 .. Len(call.args) :
              \/ call.args[i] = Split(line, Space, 3)[i + 1]
              \/ /\ call.op = "SEND" /\ i = 2
                 /\ call.args[i] = QuitarEspacios(Split(line, Space, 3)[3])
         /\ Len(Split(line, Space, 3)) >= 1 + Arguments[call.op]
<1>1. CASE AsTyped
  <2>1. PICK op \in Words : /\ Len(Split(line, Space, 3)) >= 1 + Arguments[op]
                            /\ call = Typed(op)
    BY <1>1 DEF AsTyped
  <2>2. call.op = op /\ call.args = Typed(op).args BY <2>1, TypedArguments
  <2>3. QED BY <2>1, <2>2, TypedArguments
<1>2. CASE Normalised
  <2> DEFINE ps == Split(line, Space, 3)
             args == Typed("SEND").args
             sent == [args EXCEPT ![2] = QuitarEspacios(args[2])]
  <2>1. Len(ps) >= 3 /\ call = [Typed("SEND") EXCEPT !.args[2] = QuitarEspacios(@)]
    BY <1>2 DEF Normalised
  <2>2. /\ call = [op |-> "SEND", args |-> sent]
        /\ sent \in Seq(Text) /\ Len(sent) = 2
        /\ sent[1] = ps[2] /\ sent[2] = QuitarEspacios(ps[3])
    BY <2>1, NormalisedCall
  <2> HIDE DEF ps, sent
  <2>3. call.op = "SEND" /\ call.args = sent BY <2>2
  <2>4. "SEND" \in Words /\ Arguments["SEND"] = 2 BY WordsAre, ArgumentsAre
  <2>5. \A i \in 1 .. 2 : i = 1 \/ i = 2 OBVIOUS
  <2>6. ASSUME NEW i \in 1 .. Len(sent)
        PROVE  sent[i] = ps[i + 1] \/ (i = 2 /\ sent[i] = QuitarEspacios(ps[3]))
    <3>1. i = 1 \/ i = 2 BY <2>2, <2>5
    <3>2. 1 + 1 = 2 OBVIOUS
    <3>3. QED BY <2>2, <3>1, <3>2
  <2>7. Len(ps) >= 1 + 2 BY <2>1
  <2>8. QED BY <2>2, <2>3, <2>4, <2>6, <2>7 DEF ps
<1>3. QED BY <1>1, <1>2 DEF CallIs

LEMMA NeedsAre ==
  /\ Needs = [REGISTER |-> 2, UNREGISTER |-> 2, CONNECT |-> 3, DISCONNECT |-> 2,
              SEND |-> 4, SENDATTACH |-> 5, USERS |-> 2]
  /\ DOMAIN Needs = Words /\ \A op \in Words : Needs[op] \in 2 .. 5
BY WordsAre DEF Needs

\* Who the client says it is.
Self == IF call.op = "SENDATTACH" /\ me = <<>> THEN Token("None") ELSE me

\* A call without its user, or with it.
LEMMA PayloadCases ==
  ASSUME line \in Text, CallIs, call # Nothing
  PROVE  /\ call.op \in {"REGISTER", "UNREGISTER", "DISCONNECT"} => Payload = call.args
         /\ call.op = "CONNECT" => Payload = <<call.args[1], Port>>
         /\ call.op \in {"SEND", "SENDATTACH"} => Payload = <<Self>> \o call.args
         /\ call.op = "USERS" => Payload = <<me>>
BY Zenon DEF Payload, Self

LEMMA PayloadIs ==
  ASSUME line \in Text, me \in Text, CallIs, call # Nothing
  PROVE  /\ Payload \in Seq(Text) /\ Len(Payload) + 1 = Needs[call.op]
         /\ call.op \in {"SEND", "SENDATTACH"} =>
              /\ Payload[1] = Self
              /\ \A i \in 1 .. Len(call.args) : Payload[i + 1] = call.args[i]
<1> DEFINE args == call.args
<1>1. /\ call.op \in Words /\ args \in Seq(Text) /\ Len(args) = Arguments[call.op]
  BY CallArguments
<1>2. Self \in Text /\ Port \in Text
  <2>1. Token("None") \in Text BY TokenIs DEF Others
  <2>2. QED BY <2>1, NumbersAreText DEF Self
<1> HIDE DEF args
<1>3. CASE call.op \in {"REGISTER", "UNREGISTER", "DISCONNECT"}
  <2>1. Payload = args BY <1>3, PayloadCases DEF args
  <2>2. Len(args) = 1 /\ Needs[call.op] = 2 BY <1>1, <1>3, ArgumentsAre, NeedsAre
  <2>3. Payload \in Seq(Text) /\ Len(Payload) + 1 = Needs[call.op]
    <3>1. args \in Seq(Text) BY <1>1
    <3>2. Len(args) + 1 = Needs[call.op] BY <2>2
    <3>3. QED BY <2>1, <3>1, <3>2, Zenon
  <2>4. call.op \notin {"SEND", "SENDATTACH"} BY <1>3
  <2>5. QED BY <2>3, <2>4, Zenon
<1>4. CASE call.op = "CONNECT"
  <2>1. Payload = <<args[1], Port>> BY <1>4, PayloadCases DEF args
  <2>2. Len(args) = 1 /\ Needs[call.op] = 3 BY <1>1, <1>4, ArgumentsAre, NeedsAre
  <2>3. args[1] \in Text
    <3>1. args \in Seq(Text) /\ 1 \in 1 .. Len(args) BY <1>1, <2>2
    <3>2. QED BY <3>1, ElementOfSeq
  <2>4. QED BY <1>2, <1>4, <2>1, <2>2, <2>3
<1>5. CASE call.op = "USERS"
  <2>1. Payload = <<me>> BY <1>5, PayloadCases
  <2>2. Needs[call.op] = 2 BY <1>5, NeedsAre
  <2>3. QED BY <1>5, <2>1, <2>2
<1>6. CASE call.op \in {"SEND", "SENDATTACH"}
  <2>1. Payload = <<Self>> \o args BY <1>6, PayloadCases DEF args
  <2>2. Len(args) + 2 = Needs[call.op] BY <1>1, <1>6, ArgumentsAre, NeedsAre
  <2> DEFINE b == <<Self>>
  <2>3. b \in Seq(Text) /\ Len(b) = 1 /\ b[1] = Self /\ 1 \in 1 .. 1 BY <1>2
  <2> HIDE DEF b
  <2>4. /\ b \o args \in Seq(Text) /\ Len(b \o args) = Len(b) + Len(args)
        /\ \A i \in 1 .. Len(b) : (b \o args)[i] = b[i]
        /\ \A i \in 1 .. Len(args) : (b \o args)[Len(b) + i] = args[i]
    BY <1>1, <2>3, ListConcat
  <2>5. Len(args) \in Nat /\ Len(args) + 2 = Needs[call.op] BY <1>1, <2>2
  <2>6. Payload = b \o args BY <2>1 DEF b
  <2>7. \A i \in 1 .. Len(args) : 1 + i = i + 1 BY <2>5
  <2>8. Payload \in Seq(Text) /\ Len(Payload) = 1 + Len(args) /\ Payload[1] = Self
    BY <2>3, <2>4, <2>6
  <2>9. \A i \in 1 .. Len(args) : Payload[i + 1] = args[i]
    BY <2>3, <2>4, <2>6, <2>7
  <2>10. Len(Payload) + 1 = Needs[call.op] BY <2>5, <2>8
  <2>11. QED BY <2>8, <2>9, <2>10 DEF args
<1>7. QED BY <1>1, <1>3, <1>4, <1>5, <1>6, WordsAre

LEMMA SentIs ==
  ASSUME line \in Text, me \in Text, CallIs, call # Nothing
  PROVE  /\ Sent \in Lists /\ Len(Sent) = Needs[call.op] /\ Len(Sent) = Len(Payload) + 1
         /\ Sent[1] = Token(call.op) /\ call.op \in Words
         /\ \A i \in 1 .. Len(Payload) : Sent[i + 1] = Payload[i]
<1> DEFINE b == <<Token(call.op)>>
           ps == Payload
<1>1. call.op \in Words BY CallArguments
<1>2. Token(call.op) \in Text BY <1>1, TokenIs
<1>3. b \in Seq(Text) /\ Len(b) = 1 /\ b[1] = Token(call.op) /\ 1 \in 1 .. 1 BY <1>2
<1>4. Sent = b \o ps BY DEF Sent
<1>5. ps \in Seq(Text) /\ Len(ps) + 1 = Needs[call.op] BY PayloadIs
<1> HIDE DEF b, ps
<1>6. /\ b \o ps \in Seq(Text) /\ Len(b \o ps) = Len(b) + Len(ps)
      /\ \A i \in 1 .. Len(b) : (b \o ps)[i] = b[i]
      /\ \A i \in 1 .. Len(ps) : (b \o ps)[Len(b) + i] = ps[i]
  BY <1>3, <1>5, ListConcat
<1>7. Len(ps) \in Nat /\ \A i \in 1 .. Len(ps) : 1 + i = i + 1 BY <1>5
<1>8. Sent \in Seq(Text) /\ Len(Sent) = Len(ps) + 1 /\ Sent[1] = Token(call.op)
  BY <1>3, <1>4, <1>6, <1>7
<1>9. \A i \in 1 .. Len(ps) : Sent[i + 1] = ps[i] BY <1>3, <1>4, <1>6, <1>7
<1>10. Sent # <<>> BY <1>7, <1>8
<1>11. Len(Sent) = Needs[call.op] BY <1>5, <1>8
<1>12. QED BY <1>1, <1>8, <1>9, <1>10, <1>11 DEF Lists, ps

LEMMA JoinSent ==
  ASSUME line \in Text, me \in Text, CallIs, call # Nothing
  PROVE  Join(Sent, Hash) \in Text /\ Join(Sent, Hash) # <<>>
<1>1. Sent \in Lists /\ Len(Sent) = Needs[call.op] /\ call.op \in Words BY SentIs
<1>2. Len(Sent) \in 2 .. 5 BY <1>1, NeedsAre
<1>3. Join(Sent, Hash) \in Text BY <1>1, LengthJoin, MarksAre
<1>4. Join(Sent, Hash) # <<>>
  <2>1. PICK ps \in Seq(Text), t \in Text : Sent = Append(ps, t)
    BY <1>1, SequenceEmptyOrAppend DEF Lists
  <2>2. ps # <<>>
    <3>1. Len(Sent) = Len(ps) + 1 BY <2>1, AppendProperties
    <3>2. QED BY <1>2, <3>1
  <2>3. ps \in Lists BY <2>2 DEF Lists
  <2>4. /\ Join(ps, Hash) \in Text
        /\ Length(Join(Sent, Hash)) = Length(Join(ps, Hash)) + Hash.n + Length(t)
    BY <2>1, <2>3, LengthJoin, MarksAre
  <2>5. Length(<<>>) = 0 /\ Hash.n = 1 BY LengthStep, MarksAre
  <2>6. Length(Join(Sent, Hash)) > 0 BY <2>4, <2>5, LengthIsNat
  <2>7. QED BY <2>5, <2>6
<1>5. QED BY <1>3, <1>4

LEMMA SameSent ==
  ASSUME call' = call, me' = me
  PROVE  Sent' = Sent /\ Payload' = Payload /\ Self' = Self
<1>1. Payload' = Payload BY DEF Payload
<1>2. QED BY <1>1 DEF Sent, Self

\* A step that leaves the call and its request alone.
LEMMA ClientKept ==
  ASSUME ClientInv, UNCHANGED <<me, line, call, request>>, stage' \in Stages,
         stage' \in {"call", "request"} => call # Nothing,
         stage' = "call" => AsTyped,
         stage' \in Early => request = <<>>,
         stage' = "request" /\ call.op = "SEND" => me # <<>>,
         stage' \in Serving => request # <<>>,
         dead' \subseteq {"receiver", "sender"}
  PROVE  ClientInv'
<1>1. CallIs' = CallIs /\ AsTyped' = AsTyped BY DEF CallIs, AsTyped, Normalised, Typed
<1>2. Sent' = Sent BY SameSent
<1>3. QED BY <1>1, <1>2 DEF ClientInv

LEMMA ClientStarts == WireInit => ClientInv
<1>1. "prompt" \in Stages /\ "prompt" \notin Early /\ "prompt" \notin Serving
  BY DEF Stages, Early, Serving
<1>2. QED BY <1>1 DEF WireInit, ClientInv, CallIs

LEMMA ClientSteps == ClientInv /\ [WireNext]_vars => ClientInv'
<1> SUFFICES ASSUME ClientInv, [WireNext]_vars PROVE ClientInv' OBVIOUS
<1>0. line \in Text /\ me \in Text BY LineIs
<1>1. CASE Type
  <2>1. /\ stage' = "typed" /\ line' \in Lines /\ me' \in {Me, <<>>}
        /\ call' = Nothing /\ request' = <<>> /\ dead' = dead
    BY <1>1 DEF Type
  <2>2. "typed" \in Stages /\ "typed" \notin {"call", "request"} /\ "typed" \notin Serving
    BY DEF Stages, Serving
  <2>3. CallIs' BY <2>1 DEF CallIs, Nothing
  <2>4. stage' # "call" BY <2>1
  <2>5. QED BY <2>1, <2>2, <2>3, <2>4 DEF ClientInv
<1>2. CASE ReadInput
  <2> DEFINE parts == Split(line, Space, 3)
  <2>1. stage = "typed" /\ UNCHANGED <<me, line, request, dead>> BY <1>2 DEF ReadInput
  <2>2. request = <<>> BY <2>1 DEF ClientInv, Early
  <2>3. CASE stage' = "prompt" /\ UNCHANGED call
    <3>1. "prompt" \in Stages /\ "prompt" \notin Early /\ "prompt" \notin Serving
      BY DEF Stages, Early, Serving
    <3>2. dead' \subseteq {"receiver", "sender"} BY <2>1 DEF ClientInv
    <3>3. QED BY <2>1, <2>3, <3>1, <3>2, ClientKept
  <2>4. CASE \E op \in Words : /\ Len(parts) \in Parts[op] /\ call' = Typed(op)
                               /\ stage' = "call"
    <3>1. PICK op \in Words : /\ Len(parts) \in Parts[op] /\ call' = Typed(op)
                              /\ stage' = "call"
      BY <2>4
    <3>2. Len(parts) >= 1 + Arguments[op]
      <4>1. \A n \in Parts[op] : n >= 1 + Arguments[op]
        <5>1. op \in {"REGISTER", "UNREGISTER", "CONNECT", "DISCONNECT", "SEND",
                      "SENDATTACH", "USERS"}
          BY WordsAre
        <5>2. QED BY <5>1 DEF Parts, Arguments
      <4>2. QED BY <3>1, <4>1
    <3>3. AsTyped' /\ CallIs'
      <4>1. Typed(op)' = Typed(op) BY <2>1 DEF Typed
      <4>2. Len(Split(line', Space, 3)) >= 1 + Arguments[op] BY <2>1, <3>2
      <4>3. AsTyped' BY <3>1, <4>1, <4>2 DEF AsTyped
      <4>4. QED BY <4>3 DEF CallIs
    <3>4. call' # Nothing BY <3>1, WordsAre DEF Typed, Nothing
    <3>5. "call" \in Stages /\ "call" \notin Serving BY DEF Stages, Serving
    <3>6. QED BY <2>1, <2>2, <3>1, <3>3, <3>4, <3>5 DEF ClientInv
  <2>5. \/ stage' = "prompt" /\ UNCHANGED call
        \/ \E op \in Words : /\ Len(parts) \in Parts[op] /\ call' = Typed(op)
                             /\ stage' = "call"
    BY <1>2 DEF ReadInput, Typed, Words
  <2>6. QED BY <2>3, <2>4, <2>5
<1>3. CASE Normalise
  <2>1. /\ stage = "call" /\ call.op = "SEND" /\ UNCHANGED <<me, line, request, dead>>
    BY <1>3 DEF Normalise
  <2>2. call # Nothing /\ request = <<>> /\ dead \subseteq {"receiver", "sender"} /\ CallIs
    BY <2>1 DEF ClientInv, Early
  <2>3. stage' = "prompt" \/ (stage' = "request" /\ me # <<>>) BY <1>3 DEF Normalise
  <2>4. /\ stage' \in Stages /\ stage' \notin Serving /\ stage' # "call"
        /\ stage' = "request" => me # <<>>
    BY <2>3 DEF Stages, Serving
  <2>5. CASE call' = call BY <2>1, <2>2, <2>4, <2>5, ClientKept
  <2>6. CASE call' = [call EXCEPT !.args[2] = QuitarEspacios(@)]
    <3>1. PICK op \in Words : /\ Len(Split(line, Space, 3)) >= 1 + Arguments[op]
                              /\ call = Typed(op)
      BY <2>1 DEF ClientInv, AsTyped
    <3>2. op = "SEND" BY <1>0, <2>1, <3>1, TypedArguments
    <3>3. Len(Split(line, Space, 3)) >= 3
      <4>1. Arguments["SEND"] = 2 BY ArgumentsAre
      <4>2. QED BY <3>1, <3>2, <4>1
    <3>4. call' = [Typed("SEND") EXCEPT !.args[2] = QuitarEspacios(@)]
      BY <2>6, <3>1, <3>2
    <3>5. CallIs'
      <4>1. Typed("SEND")' = Typed("SEND") /\ line' = line BY <2>1 DEF Typed
      <4>2. Normalised' BY <3>3, <3>4, <4>1 DEF Normalised
      <4>3. QED BY <4>2 DEF CallIs
    <3>6. call' # Nothing
      <4>1. call'.op = "SEND" BY <1>0, <3>3, <3>4, NormalisedCall
      <4>2. QED BY <4>1 DEF Nothing
    <3>7. request' = <<>> /\ dead' \subseteq {"receiver", "sender"} BY <2>1, <2>2
    <3>8. me' \in {Me, <<>>} /\ line' \in Lines \union {<<>>} BY <2>1 DEF ClientInv
    <3>9. stage' = "request" => me' # <<>> BY <2>1, <2>4
    <3>10. QED BY <2>4, <3>5, <3>6, <3>7, <3>8, <3>9 DEF ClientInv
  <2>7. QED BY <1>3, <2>5, <2>6 DEF Normalise
<1>4. CASE CheckFile
  <2>1. /\ stage = "call" /\ call.op = "SENDATTACH"
        /\ UNCHANGED <<me, line, call, request, dead>>
        /\ stage' \in {"crashed", "prompt", "request"}
    BY <1>4 DEF CheckFile
  <2>2. call # Nothing /\ request = <<>> /\ dead \subseteq {"receiver", "sender"}
    BY <2>1 DEF ClientInv, Early
  <2>3. stage' \in Stages /\ stage' \notin Serving BY <2>1 DEF Stages, Serving
  <2>4. QED BY <2>1, <2>2, <2>3, ClientKept
<1>5. CASE Plain
  <2>1. /\ stage = "call" /\ call.op \notin {"SEND", "SENDATTACH"}
        /\ UNCHANGED <<me, line, call, request, dead>> /\ stage' = "request"
    BY <1>5 DEF Plain
  <2>2. call # Nothing /\ request = <<>> /\ dead \subseteq {"receiver", "sender"}
    BY <2>1 DEF ClientInv, Early
  <2>3. stage' \in Stages /\ stage' \notin Serving BY <2>1 DEF Stages, Serving
  <2>4. QED BY <2>1, <2>2, <2>3, ClientKept
<1>6. CASE Relaunch
  <2>1. UNCHANGED <<me, line, call, request>> /\ stage' = "prompt" /\ dead' = {}
    BY <1>6 DEF Relaunch
  <2>2. /\ "prompt" \in Stages /\ "prompt" \notin Early /\ "prompt" \notin Serving
        /\ "prompt" \notin {"call", "request"}
    BY DEF Stages, Early, Serving
  <2>3. QED BY <2>1, <2>2, ClientKept
<1>7. CASE Request
  <2>1. /\ stage = "request" /\ request' = Join(Sent, Hash) /\ stage' = "recv"
        /\ UNCHANGED <<me, line, call, dead>>
    BY <1>7 DEF Request, Sent
  <2>2. /\ call # Nothing /\ CallIs /\ (call.op = "SEND" => me # <<>>)
        /\ dead \subseteq {"receiver", "sender"}
    BY <2>1 DEF ClientInv
  <2>3. request' # <<>> BY <1>0, <2>1, <2>2, JoinSent
  <2>4. Sent' = Sent BY <2>1, SameSent
  <2>5. CallIs' BY <2>1, <2>2 DEF CallIs, AsTyped, Normalised, Typed
  <2>6. /\ "recv" \in Stages /\ "recv" \notin Early /\ "recv" \notin {"call", "request"}
    BY DEF Stages, Early
  <2>7. QED BY <2>1, <2>2, <2>3, <2>4, <2>5, <2>6 DEF ClientInv
<1>8. CASE \/ Receive \/ SplitField \/ Dispatch \/ Store \/ HandleOther \/ Deliver
           \/ Ack \/ Show \/ ShowAck
  <2>1. /\ stage \in Serving /\ stage' \in Serving \union {"prompt"}
        /\ UNCHANGED <<me, line, call, request>>
    BY <1>8 DEF Receive, SplitField, Dispatch, Store, HandleOther, Deliver, Ack, Show,
                ShowAck, Serving
  <2>2. dead' \subseteq {"receiver", "sender"}
    BY <1>8 DEF Receive, SplitField, Dispatch, Store, HandleOther, Deliver, Ack, Show,
                ShowAck, ClientInv
  <2>3. request # <<>> BY <2>1 DEF ClientInv
  <2>4. stage' \in Stages /\ stage' \notin Early /\ stage' \notin {"call", "request"}
    BY <2>1 DEF Stages, Early, Serving
  <2>5. QED BY <2>1, <2>2, <2>3, <2>4, ClientKept
<1>9. CASE UNCHANGED vars
  <2>1. UNCHANGED <<stage, me, line, call, request, dead>> BY <1>9 DEF vars
  <2>2. QED BY <2>1, ClientKept DEF ClientInv
<1>10. QED BY <1>1, <1>2, <1>3, <1>4, <1>5, <1>6, <1>7, <1>8, <1>9 DEF WireNext

-----------------------------------------------------------------------------
(* The loop of recv_msg *)

Raw == Cut(request, RequestSize - 1)

LEMMA SizesAre == MAX_NAME = 256 /\ MAX_MSG_FIELDS = 8 /\ RequestSize = 1344
                    /\ FrameSize = 1024 /\ AckSize = 256
BY DEF MAX_NAME, MAX_MSG_FIELDS, RequestSize, MAX_MSG, FrameSize, AckSize

LEMMA CutNonempty ==
  ASSUME NEW s \in Text, s # <<>>, NEW max \in Nat \ {0}
  PROVE  Cut(s, max) # <<>>
<1>1. SUFFICES ASSUME Cut(s, max) = <<>> PROVE FALSE OBVIOUS
<1>2. Length(<<>>) = 0 BY LengthStep
<1>3. Length(Cut(s, max)) # max BY <1>1, <1>2
<1>4. QED BY <1>1, <1>3, CutShort

\* The pieces found so far, and what is left to split.
Looping(ps) ==
  /\ Len(ps) = Len(fields) /\ Len(ps) < MAX_MSG_FIELDS
  /\ \A i \in 1 .. Len(ps) : fields[i] = Cut(ps[i], MAX_NAME - 1)
  /\ rest # <<>> /\ Len(rest) <= Len(Raw)
  /\ Split(Raw, Hash, Len(Raw)) = ps \o Split(rest, Hash, Len(Raw))

\* The first piece t of r is the next piece of raw after ps.
Turn(raw, ps, r) ==
  \E t \in Text : ~Has(t, Hash) /\
    \/ /\ Len(Split(r, Hash, 1)) = 1 /\ Split(r, Hash, 1)[1] = t /\ t = r
       /\ Split(raw, Hash, Len(raw)) = Append(ps, t)
    \/ \E q \in Text :
         /\ Len(Split(r, Hash, 1)) = 2
         /\ Split(r, Hash, 1)[1] = t /\ Split(r, Hash, 1)[2] = q
         /\ Len(q) <= Len(raw) /\ Length(q) <= Length(r)
         /\ Split(raw, Hash, Len(raw)) = Append(ps, t) \o Split(q, Hash, Len(raw))

\* One turn of the loop takes the first piece of what is left.
LEMMA OneTurn ==
  ASSUME NEW raw \in Text, NEW ps \in Seq(Text), NEW r \in Text,
         r # <<>>, Len(r) <= Len(raw),
         Split(raw, Hash, Len(raw)) = ps \o Split(r, Hash, Len(raw))
  PROVE  Turn(raw, ps, r)
<1> DEFINE n == Len(raw)
<1>1. n \in Nat /\ Hash \in Atoms /\ Len(r) \in Nat BY AtomIs, MarksAre
<1>2. CASE ~Has(r, Hash)
  <2>1. Split(r, Hash, 1) = <<r>> /\ Split(r, Hash, n) = <<r>>
    BY <1>1, <1>2, SplitPlain
  <2>2. ps \o <<r>> = Append(ps, r) BY AppendIsConcat
  <2>3. Split(raw, Hash, n) = Append(ps, r) BY <2>1, <2>2
  <2>4. Len(<<r>>) = 1 /\ <<r>>[1] = r OBVIOUS
  <2> HIDE DEF n
  <2>5. QED BY <1>2, <2>1, <2>3, <2>4 DEF n, Turn
<1>3. CASE Has(r, Hash)
  <2>1. PICK t \in Text, q \in Text : ~Has(t, Hash) /\ r = (t \o <<Hash>>) \o q
    BY <1>1, <1>3, FirstSeparator
  <2> DEFINE piece == Split(r, Hash, 1)
  <2>2. Len(piece) = 2 /\ piece[1] = t /\ piece[2] = q
    <3> DEFINE one == 1
               us == <<t>>
               vs == <<q>>
    <3>1. Split(r, Hash, one) = us \o Split(q, Hash, one - 1)
      <4>1. one \in Nat \ {0} OBVIOUS
      <4> HIDE DEF one
      <4>2. QED BY <1>1, <2>1, <4>1, SplitFirst
    <3>2. one - 1 = 0 OBVIOUS
    <3>3. Split(q, Hash, one - 1) = vs BY <3>2, SplitPlain
    <3>4. /\ us \in Seq(Text) /\ Len(us) = 1 /\ us[1] = t
          /\ vs \in Seq(Text) /\ Len(vs) = 1 /\ vs[1] = q
          /\ 1 \in 1 .. 1 /\ 1 + 1 = 2
      OBVIOUS
    <3> HIDE DEF us, vs, one
    <3>5. Len(us \o vs) = 2 /\ (us \o vs)[1] = t /\ (us \o vs)[2] = q
      <4>1. /\ Len(us \o vs) = Len(us) + Len(vs)
            /\ \A i \in 1 .. Len(us) : (us \o vs)[i] = us[i]
            /\ \A i \in 1 .. Len(vs) : (us \o vs)[Len(us) + i] = vs[i]
        BY <3>4, ListConcat
      <4>2. QED BY <3>4, <4>1
    <3>6. QED BY <3>1, <3>3, <3>5 DEF one
  <2>3. Len(r) = Len(t) + 1 + Len(q) /\ Len(t) \in Nat /\ Len(q) \in Nat
    <3>1. <<Hash>> \in Text /\ Len(<<Hash>>) = 1 BY <1>1, LengthOfOne
    <3>2. t \o <<Hash>> \in Text /\ Len(t \o <<Hash>>) = Len(t) + 1
      BY <3>1, TextConcat
    <3>3. Len((t \o <<Hash>>) \o q) = Len(t) + 1 + Len(q) BY <3>2, TextConcat
    <3>4. QED BY <2>1, <3>3, AtomIs
  <2>4. Length(q) <= Length(r)
    <3>1. \A i \in 1 .. Len(piece) : Length(piece[i]) <= Length(r) BY SplitLengths
    <3> HIDE DEF piece
    <3>2. 2 \in 1 .. Len(piece) BY <2>2
    <3>3. QED BY <2>2, <3>1, <3>2
  <2>5. Len(q) <= n /\ n \in Nat \ {0} /\ Len(q) <= n - 1 /\ n - 1 \in Nat BY <1>1, <2>3
  <2>6. Split(r, Hash, n) = <<t>> \o Split(q, Hash, n)
    <3>1. Split(r, Hash, n) = <<t>> \o Split(q, Hash, n - 1)
      BY <1>1, <2>1, <2>5, SplitFirst
    <3>2. Split(q, Hash, n - 1) = Split(q, Hash, n) BY <1>1, <2>5, SplitMost
    <3>3. QED BY <3>1, <3>2
  <2>7. Split(raw, Hash, n) = Append(ps, t) \o Split(q, Hash, n)
    <3> DEFINE qs == Split(q, Hash, n)
    <3>1. qs \in Seq(Text) BY <1>1, SplitStep DEF Lists
    <3> HIDE DEF qs
    <3>2. <<t>> \in Seq(Text) /\ ps \o <<t>> = Append(ps, t) BY AppendIsConcat
    <3>3. ps \o (<<t>> \o qs) = (ps \o <<t>>) \o qs BY <3>1, <3>2, ConcatAssociative
    <3>4. QED BY <2>6, <3>2, <3>3 DEF qs
  <2> HIDE DEF n, piece
  <2>8. QED BY <2>1, <2>2, <2>4, <2>5, <2>7 DEF n, piece, Turn
<1>4. QED BY <1>2, <1>3

\* When the loop ends: at the last piece, at an empty end or with fields full.
LEMMA PiecesAre ==
  ASSUME NEW s \in Text, NEW qs \in Seq(Text),
         LET all == Split(s, Hash, Len(s))
             k == Len(qs)
         IN  /\ k <= MAX_MSG_FIELDS
             /\ \A i \in 1 .. k : qs[i] = Cut(all[i], MAX_NAME - 1)
             /\ \/ k = Len(all) /\ all[k] # <<>>
                \/ k + 1 = Len(all) /\ all[k + 1] = <<>>
                \/ k = MAX_MSG_FIELDS /\ k < Len(all)
  PROVE  qs = Pieces(s)
<1> DEFINE all == Split(s, Hash, Len(s))
           k == Len(qs)
           l == Min({Len(all), MAX_MSG_FIELDS})
           few == SubSeq(all, 1, l)
           end == IF Last(all) = <<>> THEN Len(all) - 1 ELSE Len(all)
<1>1. Pieces(s) = [i \in 1 .. Min({Len(few), end}) |-> Cut(few[i], MAX_NAME - 1)]
  BY DEF Pieces
<1>2. all \in Lists /\ Len(s) \in Nat BY AtomIs, MarksAre, SplitStep
<1>3. all \in Seq(Text) /\ Len(all) \in Nat \ {0} BY <1>2, ListIs DEF Lists
<1>4. Last(all) = all[Len(all)] BY DEF Last
<1> HIDE DEF all
<1>5. l \in 1 .. Len(all) /\ (l = IF Len(all) <= 8 THEN Len(all) ELSE 8)
  <2>1. l = IF Len(all) <= 8 THEN Len(all) ELSE 8
    <3>1. Len(all) \in Int /\ MAX_MSG_FIELDS \in Int BY <1>3, SizesAre
    <3>2. l = IF Len(all) <= MAX_MSG_FIELDS THEN Len(all) ELSE MAX_MSG_FIELDS
      BY <3>1, Lesser
    <3>3. QED BY <3>2, SizesAre
  <2>2. QED BY <1>3, <2>1
<1> HIDE DEF l
<1>6. Len(few) = l /\ \A i \in 1 .. l : few[i] = all[i]
  <2>1. 1 \in 1 .. Len(all) + 1 /\ l \in 0 .. Len(all) BY <1>3, <1>5
  <2>2. \A i \in 1 .. l : all[i] \in Text BY <1>3, <1>5
  <2>3. /\ Len(few) = IF 1 <= l THEN l - 1 + 1 ELSE 0
        /\ \A i \in 1 .. l - 1 + 1 : few[i] = all[1 + i - 1]
    BY <1>3, <2>1, <2>2, SubSeqProperties
  <2> HIDE DEF few
  <2>4. QED BY <1>5, <2>3
<1> HIDE DEF few
<1>7. end = Len(all) - 1 \/ end = Len(all) OBVIOUS
<1>8. Min({l, end}) = IF l <= end THEN l ELSE end
  <2>1. l \in Int /\ end \in Int BY <1>3, <1>5, <1>7
  <2> HIDE DEF end
  <2>2. QED BY <2>1, Lesser
<1>9. Min({l, end}) = k
  <2>1. k \in Nat /\ k <= 8 BY SizesAre
  <2>2. \/ k = Len(all) /\ all[Len(all)] # <<>>
        \/ k + 1 = Len(all) /\ all[Len(all)] = <<>>
        \/ k = 8 /\ k < Len(all)
    BY SizesAre DEF all
  <2>3. end = IF all[Len(all)] = <<>> THEN Len(all) - 1 ELSE Len(all) BY <1>4
  <2> HIDE DEF end, k
  <2>4. QED BY <1>3, <1>5, <1>8, <2>1, <2>2, <2>3
<1>10. Pieces(s) = [i \in 1 .. k |-> Cut(few[i], MAX_NAME - 1)] BY <1>1, <1>6, <1>9
<1>11. \A i \in 1 .. k : i \in 1 .. l
  <2>1. k \in Nat /\ k <= l
    <3>1. end \in Int BY <1>3, <1>7
    <3> HIDE DEF end
    <3>2. k <= l BY <1>5, <1>8, <1>9, <3>1
    <3>3. QED BY <3>2
  <2> HIDE DEF k
  <2>2. QED BY <1>5, <2>1
<1>12. \A i \in 1 .. k : qs[i] = Cut(few[i], MAX_NAME - 1)
  <2>1. \A i \in 1 .. k : qs[i] = Cut(all[i], MAX_NAME - 1) BY DEF all
  <2>2. QED BY <1>6, <1>11, <2>1
<1>13. qs = [i \in 1 .. k |-> qs[i]] OBVIOUS
<1> HIDE DEF k
<1>14. QED BY <1>10, <1>12, <1>13
-----------------------------------------------------------------------------
(* The fields of the server *)

AfterSplit == {"dispatch", "handle", "deliver", "show", "ack", "showack"}

Field(s) == s \in Text /\ Length(s) < MAX_NAME /\ ~Has(s, Hash)

\* From the request to its fields.
ServerInv ==
  /\ rest \in Text /\ Length(rest) < RequestSize
  /\ fields \in Seq(Text) /\ Len(fields) <= MAX_MSG_FIELDS
  /\ \A i \in 1 .. Len(fields) : Field(fields[i])
  /\ stage \in Early \union {"recv"} => fields = <<>>
  /\ stage = "split" => \E ps \in Seq(Text) : Looping(ps)
  /\ stage \in AfterSplit => fields = Pieces(Raw) /\ fields # <<>>

LEMMA CutFits ==
  ASSUME NEW s \in Text, NEW max \in Nat PROVE Cut(s, max) \in Text /\ Length(Cut(s, max)) <= max
<1>1. Hash \in Atoms BY MarksAre
<1>2. QED BY <1>1, CutStep

LEMMA RequestIs == ClientInv => request \in Text /\ Raw \in Text /\ Length(Raw) < RequestSize
<1> SUFFICES ASSUME ClientInv PROVE request \in Text /\ Raw \in Text /\ Length(Raw) < RequestSize
  OBVIOUS
<1>1. line \in Text /\ me \in Text BY LineIs
<1>2. request \in Text
  <2>1. CASE request = <<>> BY <2>1, AtomIs
  <2>2. CASE request # <<>> BY <1>1, <2>2, JoinSent DEF ClientInv
  <2>3. QED BY <2>1, <2>2
<1> DEFINE max == RequestSize - 1
<1>3. max \in Nat /\ max < RequestSize /\ RequestSize \in Nat BY SizesAre
<1>4. Raw = Cut(request, max) BY DEF Raw
<1> HIDE DEF max
<1>5. Raw \in Text /\ Length(Raw) <= max BY <1>2, <1>3, <1>4, CutFits
<1>6. Length(Raw) \in Nat BY <1>5, LengthIsNat
<1>7. QED BY <1>2, <1>3, <1>5, <1>6
LEMMA FieldIs ==
  ASSUME NEW t \in Text, ~Has(t, Hash) PROVE Field(Cut(t, MAX_NAME - 1))
<1> DEFINE max == MAX_NAME - 1
<1>1. max \in Nat /\ max < MAX_NAME /\ MAX_NAME \in Nat BY SizesAre
<1> HIDE DEF max
<1>2. Cut(t, max) \in Text /\ Length(Cut(t, max)) <= max BY <1>1, CutFits
<1>3. ~Has(Cut(t, max), Hash) BY <1>1, CutHasNone
<1>4. Length(Cut(t, max)) \in Nat BY <1>2, LengthIsNat
<1>5. Length(Cut(t, max)) < MAX_NAME BY <1>1, <1>2, <1>4
<1>6. QED BY <1>2, <1>3, <1>5 DEF Field, max

LEMMA LoopTurns == ClientInv /\ ServerInv /\ SplitField => ServerInv'
<1> SUFFICES ASSUME ClientInv, ServerInv, SplitField PROVE ServerInv' OBVIOUS
<1> DEFINE piece == Split(rest, Hash, 1)
           n == Len(Raw)
           max == MAX_NAME - 1
<1>1. /\ stage = "split"
      /\ fields' = Append(fields, Cut(piece[1], max))
      /\ rest' = IF Len(piece) = 1 THEN <<>> ELSE piece[2]
      /\ stage' = IF Len(piece) = 1 \/ rest' = <<>> \/ Len(fields') = MAX_MSG_FIELDS
                  THEN "dispatch" ELSE "split"
      /\ request' = request
  BY DEF SplitField
<1>2. PICK ps \in Seq(Text) : Looping(ps) BY <1>1 DEF ServerInv
<1>3. Raw \in Text /\ Length(Raw) < RequestSize BY RequestIs
<1>4. /\ rest \in Text /\ Length(rest) < RequestSize
      /\ fields \in Seq(Text) /\ \A i \in 1 .. Len(fields) : Field(fields[i])
  BY DEF ServerInv
<1>5. /\ Len(ps) = Len(fields) /\ Len(ps) < MAX_MSG_FIELDS
      /\ \A i \in 1 .. Len(ps) : fields[i] = Cut(ps[i], max)
      /\ rest # <<>> /\ Len(rest) <= n
      /\ Split(Raw, Hash, n) = ps \o Split(rest, Hash, n)
  BY <1>2 DEF Looping
<1>6. PICK t \in Text : ~Has(t, Hash) /\
           \/ /\ Len(piece) = 1 /\ piece[1] = t /\ t = rest
              /\ Split(Raw, Hash, n) = Append(ps, t)
           \/ \E q \in Text :
                /\ Len(piece) = 2 /\ piece[1] = t /\ piece[2] = q
                /\ Len(q) <= n /\ Length(q) <= Length(rest)
                /\ Split(Raw, Hash, n) = Append(ps, t) \o Split(q, Hash, n)
  <2>1. rest \in Text /\ Raw \in Text /\ rest # <<>> BY <1>3, <1>4, <1>5
  <2> HIDE DEF max
  <2>2. Turn(Raw, ps, rest) BY <1>5, <2>1, OneTurn
  <2>3. QED BY <2>2 DEF Turn
<1>7. piece[1] = t BY <1>6
<1> DEFINE c == Cut(t, max)
           fs == Append(fields, c)
           us == Append(ps, t)
           k == Len(us)
<1>8. Field(c) /\ c \in Text BY <1>6, FieldIs DEF Field
<1>9. Raw' = Raw BY <1>1 DEF Raw
<1> HIDE DEF piece, n, c, max
<1>10. fields' = fs BY <1>1, <1>7 DEF c
<1>11. /\ us \in Seq(Text) /\ fs \in Seq(Text)
       /\ Len(us) = Len(ps) + 1 /\ Len(fs) = Len(fields) + 1
       /\ us[Len(ps) + 1] = t /\ fs[Len(fields) + 1] = c
       /\ \A i \in 1 .. Len(ps) : us[i] = ps[i]
       /\ \A i \in 1 .. Len(fields) : fs[i] = fields[i]
       /\ Len(ps) \in Nat
  <2>1. Len(ps) \in Nat OBVIOUS
  <2>2. /\ us \in Seq(Text) /\ Len(us) = Len(ps) + 1 /\ us[Len(ps) + 1] = t
        /\ \A i \in 1 .. Len(ps) : us[i] = ps[i]
    BY AppendProperties
  <2>3. /\ fs \in Seq(Text) /\ Len(fs) = Len(fields) + 1 /\ fs[Len(fields) + 1] = c
        /\ \A i \in 1 .. Len(fields) : fs[i] = fields[i]
    BY <1>4, <1>8, AppendProperties
  <2>4. QED BY <2>1, <2>2, <2>3
<1> HIDE DEF us, fs
<1>12. /\ k \in Nat \ {0} /\ k = Len(fs) /\ k <= MAX_MSG_FIELDS /\ us[k] = t
       /\ k = Len(ps) + 1
  BY <1>5, <1>11, SizesAre
<1>13. \A i \in 1 .. k : fs[i] = Cut(us[i], max)
  <2> SUFFICES ASSUME NEW i \in 1 .. k PROVE fs[i] = Cut(us[i], max) OBVIOUS
  <2>1. CASE i = k BY <1>5, <1>11, <1>12, <2>1 DEF c
  <2>2. CASE i # k
    <3>1. i \in 1 .. Len(ps) BY <1>11, <1>12, <2>2
    <3>2. QED BY <1>5, <1>11, <3>1
  <2>3. QED BY <2>1, <2>2
<1>14. \A i \in 1 .. k : Field(fs[i])
  <2> SUFFICES ASSUME NEW i \in 1 .. k PROVE Field(fs[i]) OBVIOUS
  <2>1. CASE i = k BY <1>5, <1>8, <1>11, <1>12, <2>1
  <2>2. CASE i # k
    <3>1. i \in 1 .. Len(fields) BY <1>5, <1>11, <1>12, <2>2
    <3>2. QED BY <1>4, <1>11, <3>1
  <2>3. QED BY <2>1, <2>2
<1>15. fs # <<>> BY <1>12
<1> HIDE DEF k
<1> DEFINE all == Split(Raw, Hash, n)
<1>16. ASSUME fs = Pieces(Raw), stage' = "dispatch", rest' \in Text,
              Length(rest') <= Length(rest)
       PROVE  ServerInv'
  <2>1. rest' \in Text /\ Length(rest') < RequestSize
    BY <1>4, <1>16, LengthIsNat, SizesAre
  <2>2. /\ fields' \in Seq(Text) /\ Len(fields') <= MAX_MSG_FIELDS /\ fields' # <<>>
        /\ \A i \in 1 .. Len(fields') : Field(fields'[i])
    BY <1>10, <1>11, <1>12, <1>14, <1>15
  <2>3. "dispatch" \notin Early \union {"recv"} /\ "dispatch" # "split" BY DEF Early
  <2>4. fields' = Pieces(Raw') BY <1>9, <1>10, <1>16
  <2>5. QED BY <1>16, <2>1, <2>2, <2>3, <2>4 DEF ServerInv
<1>17. ASSUME \A i \in 1 .. k : all[i] = us[i],
              \/ k = Len(all) /\ all[k] # <<>>
              \/ k + 1 = Len(all) /\ all[k + 1] = <<>>
              \/ k = MAX_MSG_FIELDS /\ k < Len(all)
       PROVE  fs = Pieces(Raw)
  <2>1. \A i \in 1 .. k : fs[i] = Cut(all[i], max) BY <1>13, <1>17
  <2>2. fs \in Seq(Text) /\ Len(fs) = k /\ k <= MAX_MSG_FIELDS BY <1>11, <1>12
  <2>3. QED BY <1>3, <1>17, <2>1, <2>2, PiecesAre DEF n, max
<1>18. Length(<<>>) = 0 /\ <<>> \in Text /\ Length(rest) \in Nat
  BY <1>4, AtomIs, LengthStep, LengthIsNat
<1>19. CASE Len(piece) = 1
  <2>1. t = rest /\ all = us BY <1>6, <1>19 DEF us
  <2>2. k = Len(all) /\ all[k] # <<>> BY <1>5, <1>12, <2>1 DEF k
  <2>3. fs = Pieces(Raw) BY <1>17, <2>1, <2>2
  <2>4. rest' = <<>> /\ stage' = "dispatch" BY <1>1, <1>19
  <2>5. QED BY <1>16, <1>18, <2>3, <2>4
<1>20. CASE Len(piece) # 1
  <2>1. PICK q \in Text : /\ Len(piece) = 2 /\ piece[2] = q
                          /\ Len(q) <= n /\ Length(q) <= Length(rest)
                          /\ all = us \o Split(q, Hash, n)
    BY <1>6, <1>20 DEF us
  <2> DEFINE vs == Split(q, Hash, n)
  <2>2. n \in Nat BY <1>3, AtomIs DEF n
  <2>3. vs \in Lists BY <2>2, MarksAre, SplitStep
  <2> HIDE DEF vs
  <2>4. vs \in Seq(Text) /\ Len(vs) \in Nat \ {0} BY <2>3, ListIs
  <2>5. /\ Len(us \o vs) = Len(us) + Len(vs)
        /\ \A i \in 1 .. Len(us) : (us \o vs)[i] = us[i]
        /\ \A i \in 1 .. Len(vs) : (us \o vs)[Len(us) + i] = vs[i]
    BY <1>11, <2>4, ListConcat
  <2>6. all = us \o vs BY <2>1 DEF vs
  <2> HIDE DEF all
  <2>7. /\ Len(all) = k + Len(vs) /\ \A i \in 1 .. k : all[i] = us[i]
        /\ all[k + 1] = vs[1]
    <3>1. 1 \in 1 .. Len(vs) BY <2>4
    <3>2. (us \o vs)[Len(us) + 1] = vs[1] BY <2>5, <3>1
    <3>3. QED BY <2>5, <2>6, <3>2 DEF k
  <2>8. rest' = q /\ q \in Text /\ Length(q) <= Length(rest) BY <1>1, <1>20, <2>1
  <2>9. CASE q = <<>>
    <3>1. vs = << <<>> >> BY <2>2, <2>9, SplitStep DEF vs
    <3>2. Len(vs) = 1 /\ vs[1] = <<>> BY <3>1
    <3>3. k + 1 = Len(all) /\ all[k + 1] = <<>> BY <1>12, <2>7, <3>2
    <3>4. fs = Pieces(Raw) BY <1>17, <2>7, <3>3
    <3>5. stage' = "dispatch" BY <1>1, <2>8, <2>9
    <3>6. QED BY <1>16, <2>8, <3>4, <3>5
  <2>10. CASE k = MAX_MSG_FIELDS
    <3>1. k < Len(all) BY <1>12, <2>4, <2>7
    <3>2. fs = Pieces(Raw) BY <1>17, <2>7, <2>10, <3>1
    <3>3. stage' = "dispatch" BY <1>1, <1>10, <1>12, <2>10
    <3>4. QED BY <1>16, <2>8, <3>2, <3>3
  <2>11. CASE q # <<>> /\ k # MAX_MSG_FIELDS
    <3>1. stage' = "split" BY <1>1, <1>10, <1>12, <1>20, <2>8, <2>11
    <3>2. Looping(us)'
      <4>1. Len(us) = Len(fields') /\ Len(us) < MAX_MSG_FIELDS
        <5>1. k < MAX_MSG_FIELDS BY <1>12, <2>11, SizesAre
        <5>2. QED BY <1>10, <1>12, <5>1 DEF k
      <4>2. \A i \in 1 .. Len(us) : fields'[i] = Cut(us[i], MAX_NAME - 1)
        BY <1>10, <1>13 DEF k, max
      <4>3. rest' # <<>> /\ Len(rest') <= Len(Raw') BY <1>9, <2>1, <2>8, <2>11 DEF n
      <4>4. Split(Raw', Hash, Len(Raw')) = us \o Split(rest', Hash, Len(Raw'))
        BY <1>9, <2>6, <2>8 DEF n, all, vs
      <4>5. QED BY <4>1, <4>2, <4>3, <4>4 DEF Looping
    <3>3. /\ rest' \in Text /\ Length(rest') < RequestSize
      BY <1>4, <1>18, <2>8, LengthIsNat, SizesAre
    <3>4. /\ fields' \in Seq(Text) /\ Len(fields') <= MAX_MSG_FIELDS
          /\ \A i \in 1 .. Len(fields') : Field(fields'[i])
      BY <1>10, <1>11, <1>12, <1>14
    <3>5. "split" \notin Early \union {"recv"} /\ "split" \notin AfterSplit
      BY DEF Early, AfterSplit
    <3>6. \E qs \in Seq(Text) : Looping(qs)' BY <1>11, <3>2
    <3>7. QED BY <3>1, <3>3, <3>4, <3>5, <3>6 DEF ServerInv
  <2>12. QED BY <2>9, <2>10, <2>11
<1>21. QED BY <1>19, <1>20
LEMMA ServerStarts == WireInit => ServerInv
<1>1. SUFFICES ASSUME WireInit PROVE ServerInv OBVIOUS
<1>2. stage = "prompt" /\ rest = <<>> /\ fields = <<>> BY <1>1 DEF WireInit
<1>3. stage \notin AfterSplit /\ stage # "split" BY <1>2 DEF AfterSplit
<1>4. rest \in Text /\ Length(rest) < RequestSize BY <1>2, AtomIs, LengthStep, SizesAre
<1>5. fields \in Seq(Text) /\ Len(fields) = 0 /\ Len(fields) <= MAX_MSG_FIELDS
  BY <1>2, SizesAre
<1>6. QED BY <1>2, <1>3, <1>4, <1>5 DEF ServerInv

\* A step that leaves the request and its fields alone.
LEMMA ServerKept ==
  ASSUME ServerInv, UNCHANGED <<request, rest, fields>>,
         stage' \in Early \union {"recv"} => fields = <<>>,
         stage' # "split",
         stage' \in AfterSplit => stage \in AfterSplit
  PROVE  ServerInv'
<1>1. Raw' = Raw BY DEF Raw
<1>2. stage' \in AfterSplit => fields = Pieces(Raw) /\ fields # <<>> BY DEF ServerInv
<1>3. QED BY <1>1, <1>2 DEF ServerInv

LEMMA ServerSteps == ClientInv /\ ServerInv /\ [WireNext]_vars => ServerInv'
<1> SUFFICES ASSUME ClientInv, ServerInv, [WireNext]_vars PROVE ServerInv' OBVIOUS
<1>1. CASE Type
  <2>1. stage' = "typed" /\ rest' = <<>> /\ fields' = <<>> BY <1>1 DEF Type
  <2>2. "typed" \notin AfterSplit /\ "typed" # "split" BY DEF AfterSplit
  <2>3. rest' \in Text /\ Length(rest') < RequestSize
    BY <2>1, AtomIs, LengthStep, SizesAre
  <2>4. fields' \in Seq(Text) /\ Len(fields') = 0 /\ Len(fields') <= MAX_MSG_FIELDS
    BY <2>1, SizesAre
  <2>5. QED BY <2>1, <2>2, <2>3, <2>4 DEF ServerInv
<1>2. CASE ReadInput \/ Normalise \/ CheckFile \/ Plain
  <2>1. /\ UNCHANGED <<request, rest, fields>> /\ stage \in Early
        /\ stage' \in {"prompt", "call", "request", "crashed"}
    BY <1>2 DEF ReadInput, Normalise, CheckFile, Plain, Early
  <2>2. fields = <<>> BY <2>1 DEF ServerInv
  <2>3. stage' \notin AfterSplit /\ stage' # "split" BY <2>1 DEF AfterSplit
  <2>4. QED BY <2>1, <2>2, <2>3, ServerKept
<1>3. CASE Relaunch
  <2>1. UNCHANGED <<request, rest, fields>> /\ stage' = "prompt" BY <1>3 DEF Relaunch
  <2>2. QED BY <2>1, ServerKept DEF Early, AfterSplit
<1>4. CASE Request
  <2>1. UNCHANGED <<rest, fields>> /\ stage = "request" /\ stage' = "recv"
    BY <1>4 DEF Request
  <2>2. fields = <<>> BY <2>1 DEF ServerInv, Early
  <2>3. "recv" \notin AfterSplit /\ "recv" # "split" BY DEF AfterSplit
  <2>4. QED BY <2>1, <2>2, <2>3 DEF ServerInv
<1>5. CASE Receive
  <2>1. /\ stage = "recv" /\ rest' = Raw /\ stage' = "split"
        /\ UNCHANGED <<request, fields>>
    BY <1>5 DEF Receive, Raw
  <2>2. fields = <<>> BY <2>1 DEF ServerInv
  <2>3. Raw \in Text /\ Length(Raw) < RequestSize /\ request \in Text BY RequestIs
  <2>4. Raw # <<>>
    <3>1. request # <<>> BY <2>1 DEF ClientInv, Serving
    <3>2. RequestSize - 1 \in Nat \ {0} BY SizesAre
    <3>3. QED BY <2>3, <3>1, <3>2, CutNonempty DEF Raw
  <2>5. Raw' = Raw BY <2>1 DEF Raw
  <2> DEFINE qs == Split(Raw, Hash, Len(Raw))
             none == <<>>
  <2>6. none \in Seq(Text) /\ Len(none) = 0 /\ none = <<>> OBVIOUS
  <2>7. qs \in Seq(Text)
    <3>1. Len(Raw) \in Nat BY <2>3, AtomIs
    <3>2. qs \in Lists BY <2>3, <3>1, MarksAre, SplitStep
    <3>3. QED BY <3>2, ListIs
  <2> HIDE DEF qs
  <2>8. qs = none \o qs BY <2>6, <2>7, ConcatEmptySeq
  <2> HIDE DEF none
  <2>9. Looping(none)'
    <3>1. Len(none) = Len(fields') /\ Len(none) < MAX_MSG_FIELDS
      BY <2>1, <2>2, <2>6, SizesAre
    <3>2. Len(Raw) <= Len(Raw) BY <2>3, AtomIs
    <3>3. \A i \in 1 .. Len(none) : fields'[i] = Cut(none[i], MAX_NAME - 1) BY <2>6
    <3>4. QED BY <2>1, <2>4, <2>5, <2>8, <3>1, <3>2, <3>3 DEF Looping, qs
  <2>10. \E ps \in Seq(Text) : Looping(ps)' BY <2>6, <2>9
  <2>11. "split" \notin Early \union {"recv"} /\ "split" \notin AfterSplit
    BY DEF Early, AfterSplit
  <2>12. fields' \in Seq(Text) /\ Len(fields') <= MAX_MSG_FIELDS
         /\ \A i \in 1 .. Len(fields') : Field(fields'[i])
    BY <2>1 DEF ServerInv
  <2>13. QED BY <2>1, <2>3, <2>10, <2>11, <2>12 DEF ServerInv
<1>6. CASE SplitField BY <1>6, LoopTurns
<1>7. CASE Dispatch \/ Store \/ HandleOther \/ Deliver \/ Ack \/ Show \/ ShowAck
  <2>1. /\ UNCHANGED <<request, rest, fields>> /\ stage \in AfterSplit
        /\ stage' \in AfterSplit \union {"prompt"}
    BY <1>7 DEF Dispatch, Store, HandleOther, Deliver, Ack, Show, ShowAck, AfterSplit
  <2>2. stage' \notin Early \union {"recv"} /\ stage' # "split"
    BY <2>1 DEF Early, AfterSplit
  <2>3. QED BY <2>1, <2>2, ServerKept
<1>8. CASE UNCHANGED vars
  <2>1. UNCHANGED <<stage, request, rest, fields>> BY <1>8 DEF vars
  <2>2. Raw' = Raw BY <2>1 DEF Raw
  <2>3. \A ps \in Seq(Text) : Looping(ps)' = Looping(ps) BY <2>1, <2>2 DEF Looping
  <2>4. QED BY <2>1, <2>2, <2>3 DEF ServerInv
<1>9. QED BY <1>1, <1>2, <1>3, <1>4, <1>5, <1>6, <1>7, <1>8 DEF WireNext

LEMMA ServerReached == WireSpec => [](ClientInv /\ ServerInv)
<1>1. WireInit => ClientInv /\ ServerInv BY ClientStarts, ServerStarts
<1>2. ClientInv /\ ServerInv /\ [WireNext]_vars => (ClientInv /\ ServerInv)'
  BY ClientSteps, ServerSteps
<1>3. QED BY <1>1, <1>2, PTL DEF WireSpec

\* The loop of recv_msg finds the fields that splitting the request at once

\* gives, for every request: with empty fields, with more of them than there is
\* room for, ending in a separator, or longer than the buffer.
THEOREM FieldsAreFound == WireSpec => []FieldsAreSplit
<1>1. ServerInv => FieldsAreSplit BY DEF ServerInv, FieldsAreSplit, AfterSplit, Raw
<1>2. QED BY <1>1, ServerReached, PTL
-----------------------------------------------------------------------------
(* The message *)

Before == Early \union {"recv", "split", "dispatch", "handle"}
Delivering == {"deliver", "show", "ack", "showack"}

\* The handler of op has the fields it needs.
Enough(op) == fields[1] = Token(op) /\ Len(fields) >= Needs[op]

Record == [op |-> "message", sender |-> fields[2], id |-> MsgId, text |-> fields[4],
           file |-> IF fields[1] = Token("SEND") THEN <<>> ELSE fields[5]]

\* The message stored is the one of the request that arrived.
StoredIs ==
  /\ request # <<>> /\ fields = Pieces(Raw) /\ fields # <<>>
  /\ Enough("SEND") \/ Enough("SENDATTACH")
  /\ stored = Record

Receipt == [op |-> "ack", id |-> stored.id, file |-> stored.file]

\* From the fields to what is printed.
MessageInv ==
  /\ stage \in Before => stored = Nothing /\ shown = Nothing /\ acked = Nothing
  /\ stage = "handle" => \E op \in Words : Enough(op)
  /\ stored # Nothing => StoredIs
  /\ stage \in Delivering => stored # Nothing
  /\ stage = "show" => frame = MessageFrame
  /\ stage = "showack" => frame = AckFrame
  /\ shown # Nothing => stored # Nothing /\ shown = stored
  /\ acked # Nothing => stored # Nothing /\ acked = Receipt

\* The first piece does not depend on how many are looked for.
LEMMA FirstPiece ==
  ASSUME NEW a \in Atoms, NEW s \in Text, NEW m \in Nat \ {0}, NEW k \in Nat \ {0}
  PROVE  Split(s, a, m)[1] = Split(s, a, k)[1]
<1>1. CASE ~Has(s, a) BY <1>1, SplitPlain
<1>2. CASE Has(s, a)
  <2>1. PICK t \in Text, r \in Text : ~Has(t, a) /\ s = (t \o <<a>>) \o r
    BY <1>2, FirstSeparator
  <2>2. ASSUME NEW n \in Nat \ {0} PROVE Split(s, a, n)[1] = t
    <3> DEFINE us == <<t>>
               vs == Split(r, a, n - 1)
    <3>1. Split(s, a, n) = us \o vs BY <2>1, SplitFirst
    <3>2. n - 1 \in Nat OBVIOUS
    <3>3. vs \in Seq(Text)
      <4> DEFINE l == n - 1
      <4> HIDE DEF l
      <4>1. l \in Nat BY <3>2 DEF l
      <4>2. Split(r, a, l) \in Lists BY <4>1, SplitStep
      <4>3. QED BY <4>2 DEF Lists, l
    <3>4. us \in Seq(Text) /\ Len(us) = 1 /\ us[1] = t /\ 1 \in 1 .. 1 OBVIOUS
    <3> HIDE DEF us, vs
    <3>5. (us \o vs)[1] = us[1] BY <3>3, <3>4, ListConcat
    <3>6. QED BY <3>1, <3>4, <3>5
  <2>3. QED BY <2>2
<1>3. QED BY <1>1, <1>2

\* What the server keeps of a message are texts without a separator.
LEMMA StoredFields ==
  ASSUME ServerInv, StoredIs
  PROVE  /\ Field(stored.sender) /\ Field(stored.text) /\ Field(stored.file)
         /\ stored.id = MsgId /\ stored.op = "message"
         /\ stored.sender = fields[2] /\ stored.text = fields[4]
         /\ stored.file = IF fields[1] = Token("SEND") THEN <<>> ELSE fields[5]
         /\ stored = [op |-> "message", sender |-> stored.sender, id |-> stored.id,
                      text |-> stored.text, file |-> stored.file]
<1>1. /\ stored = Record /\ (Enough("SEND") \/ Enough("SENDATTACH")) BY DEF StoredIs
<1>2. /\ stored.op = "message" /\ stored.id = MsgId /\ stored.sender = fields[2]
      /\ stored.text = fields[4]
      /\ stored.file = IF fields[1] = Token("SEND") THEN <<>> ELSE fields[5]
      /\ stored = [op |-> "message", sender |-> stored.sender, id |-> stored.id,
                   text |-> stored.text, file |-> stored.file]
  BY <1>1 DEF Record
<1>3. /\ fields \in Seq(Text) /\ \A i \in 1 .. Len(fields) : Field(fields[i])
  BY DEF ServerInv
<1>4. Needs["SEND"] = 4 /\ Needs["SENDATTACH"] = 5 BY NeedsAre
<1>5. Len(fields) \in Nat /\ Len(fields) >= 4 BY <1>1, <1>3, <1>4 DEF Enough
<1>6. Field(fields[2]) /\ Field(fields[4])
  <2>1. 2 \in 1 .. Len(fields) /\ 4 \in 1 .. Len(fields) BY <1>5
  <2>2. QED BY <1>3, <2>1
<1>7. Field(stored.file)
  <2>1. CASE fields[1] = Token("SEND")
    <3>1. Field(<<>>) BY AtomIs, LengthStep, SizesAre DEF Field, Has
    <3>2. QED BY <1>2, <2>1, <3>1
  <2>2. CASE fields[1] # Token("SEND")
    <3>1. Len(fields) >= 5 BY <1>1, <1>4, <2>2 DEF Enough
    <3>2. 5 \in 1 .. Len(fields) BY <1>5, <3>1
    <3>3. QED BY <1>2, <1>3, <2>2, <3>2
  <2>3. QED BY <2>1, <2>2
<1>8. QED BY <1>2, <1>6, <1>7

\* A word of the protocol is a text without a separator, and so is a number.
LEMMA PlainParts ==
  /\ \A w \in Words \union Others : Token(w) \in Text /\ ~Has(Token(w), Hash)
  /\ MsgId \in Text /\ ~Has(MsgId, Hash)
BY TokenIs, TokenPlain, NumbersAreText

\* A frame is read as the parts it was built from, unless it has more than the
\* thread looks for.
LEMMA FrameSplits ==
  ASSUME NEW ss \in Lists, NEW w \in Words \union Others, ss[1] = Token(w),
         \A i \in 1 .. Len(ss) : ~Has(ss[i], Hash)
  PROVE  /\ Len(ss) <= 4 => Split(Join(ss, Hash), Hash, 3) = ss
         /\ Len(ss) <= 5 => /\ Split(Join(ss, Hash), Hash, 4) = ss
                            /\ Split(Join(ss, Hash), Hash, 3)[1] = Token(w)
<1>1. Hash \in Atoms /\ Join(ss, Hash) \in Text BY AtomIs, MarksAre, LengthJoin
<1> DEFINE three == 3
           four == 4
<1>2. three \in Nat \ {0} /\ four \in Nat \ {0} /\ three + 1 = 4 /\ four + 1 = 5 OBVIOUS
<1> HIDE DEF three, four
<1>3. Len(ss) <= three + 1 => Split(Join(ss, Hash), Hash, three) = ss
  BY <1>1, <1>2, SplitJoin
<1>4. Len(ss) <= four + 1 => Split(Join(ss, Hash), Hash, four) = ss
  BY <1>1, <1>2, SplitJoin
<1>5. Split(Join(ss, Hash), Hash, three)[1] = Split(Join(ss, Hash), Hash, four)[1]
  BY <1>1, <1>2, FirstPiece
<1>6. QED BY <1>2, <1>3, <1>4, <1>5 DEF three, four

\* The receiver prints the message that was stored.
LEMMA MessageParsed == ServerInv /\ StoredIs => Parsed(MessageFrame) = stored
<1> SUFFICES ASSUME ServerInv, StoredIs PROVE Parsed(MessageFrame) = stored OBVIOUS
<1>1. /\ Field(stored.sender) /\ Field(stored.text) /\ Field(stored.file)
      /\ stored.id = MsgId
      /\ stored = [op |-> "message", sender |-> stored.sender, id |-> stored.id,
                   text |-> stored.text, file |-> stored.file]
  BY StoredFields
<1> DEFINE sender == stored.sender
           id == stored.id
           text == stored.text
           file == stored.file
           sm == Token("SEND_MESSAGE")
           sma == Token("SEND_MESSAGE_ATTACH")
           ack == Token("SEND_MESS_ACK")
           acka == Token("SEND_MESS_ATTACH_ACK")
           frm == MessageFrame
           three == Split(frm, Hash, 3)
           four == Split(frm, Hash, 4)
<1>2. /\ sender \in Text /\ ~Has(sender, Hash) /\ id \in Text /\ ~Has(id, Hash)
      /\ text \in Text /\ ~Has(text, Hash) /\ file \in Text /\ ~Has(file, Hash)
  BY <1>1, PlainParts DEF Field
<1>3. /\ sm \in Text /\ ~Has(sm, Hash) /\ sma \in Text /\ ~Has(sma, Hash)
  BY PlainParts DEF Others
<1>4. /\ sm # sma /\ sm # ack /\ sm # acka /\ sma # ack /\ sma # acka
  BY TokensDiffer DEF Others
<1>5. Parsed(frm) =
        CASE three[1] = sm /\ Len(three) = 4 ->
               [op |-> "message", sender |-> three[2], id |-> three[3],
                text |-> three[4], file |-> <<>>]
          [] three[1] = sma /\ Len(four) = 5 ->
               [op |-> "message", sender |-> four[2], id |-> four[3],
                text |-> four[4], file |-> four[5]]
          [] three[1] = ack /\ Len(three) = 2 ->
               [op |-> "ack", id |-> three[2], file |-> <<>>]
          [] three[1] = acka /\ Len(three) = 3 ->
               [op |-> "ack", id |-> three[2], file |-> three[3]]
          [] OTHER -> Nothing
  BY DEF Parsed
<1> HIDE DEF sender, id, text, sm, sma, ack, acka
<1>6. CASE file = <<>>
  <2> DEFINE ss == <<sm, sender, id, text>>
  <2>1. ss \in Seq(Text) /\ Len(ss) = 4 /\ ss[1] = sm /\ ss[2] = sender /\ ss[3] = id
        /\ ss[4] = text
    BY <1>2, <1>3
  <2>2. frm = Join(ss, Hash)
    BY <1>6 DEF MessageFrame, sender, id, text, sm
  <2> HIDE DEF ss, frm, file
  <2>3. ss \in Lists /\ \A i \in 1 .. Len(ss) : ~Has(ss[i], Hash)
    <3>1. ss # <<>> BY <2>1
    <3>2. \A i \in 1 .. 4 : i = 1 \/ i = 2 \/ i = 3 \/ i = 4 OBVIOUS
    <3>3. \A i \in 1 .. Len(ss) : ~Has(ss[i], Hash) BY <1>2, <1>3, <2>1, <3>2
    <3>4. QED BY <2>1, <3>1, <3>3 DEF Lists
  <2>4. three = ss
    <3>1. Len(ss) <= 4 BY <2>1
    <3>2. ss[1] = Token("SEND_MESSAGE") BY <2>1 DEF sm
    <3>3. QED BY <2>2, <2>3, <3>1, <3>2, FrameSplits DEF Others
  <2>5. three[1] = sm /\ Len(three) = 4 /\ three[2] = sender /\ three[3] = id
        /\ three[4] = text
    BY <2>1, <2>4
  <2> HIDE DEF three, four
  <2>6. Parsed(frm) = [op |-> "message", sender |-> sender, id |-> id, text |-> text,
                       file |-> file]
    BY <1>4, <1>5, <1>6, <2>5, Zenon
  <2>7. QED BY <1>1, <2>6 DEF sender, id, text, file, frm
<1>7. CASE file # <<>>
  <2> DEFINE ss == <<sma, sender, id, text, file>>
  <2>1. ss \in Seq(Text) /\ Len(ss) = 5 /\ ss[1] = sma /\ ss[2] = sender /\ ss[3] = id
        /\ ss[4] = text /\ ss[5] = file
    BY <1>2, <1>3
  <2>2. frm = Join(ss, Hash)
    BY <1>7 DEF MessageFrame, sender, id, text, sma
  <2> HIDE DEF ss, frm, file
  <2>3. ss \in Lists /\ \A i \in 1 .. Len(ss) : ~Has(ss[i], Hash)
    <3>1. ss # <<>> BY <2>1, SMTT(40)
    <3>2. \A i \in 1 .. 5 : i = 1 \/ i = 2 \/ i = 3 \/ i = 4 \/ i = 5 OBVIOUS
    <3>3. \A i \in 1 .. Len(ss) : ~Has(ss[i], Hash) BY <1>2, <1>3, <2>1, <3>2
    <3>4. QED BY <2>1, <3>1, <3>3 DEF Lists
  <2>4. four = ss /\ three[1] = sma
    <3>1. Len(ss) <= 5 BY <2>1
    <3>2. ss[1] = Token("SEND_MESSAGE_ATTACH") BY <2>1 DEF sma
    <3>3. QED BY <2>2, <2>3, <3>1, <3>2, FrameSplits DEF Others, sma
  <2>5. Len(four) = 5 /\ four[2] = sender /\ four[3] = id /\ four[4] = text /\ four[5] = file
    BY <2>1, <2>4
  <2>6. three[1] = sma BY <2>4
  <2> HIDE DEF three, four
  <2>7. Parsed(frm) = [op |-> "message", sender |-> sender, id |-> id, text |-> text,
                       file |-> file]
    BY <1>4, <1>5, <2>5, <2>6, Zenon
  <2>8. QED BY <1>1, <2>7 DEF sender, id, text, file, frm
<1>8. QED BY <1>6, <1>7

\* The sender prints the receipt of the message that was stored.
LEMMA ReceiptParsed == ServerInv /\ StoredIs => Parsed(AckFrame) = Receipt
<1> SUFFICES ASSUME ServerInv, StoredIs PROVE Parsed(AckFrame) = Receipt OBVIOUS
<1>1. Field(stored.file) /\ stored.id = MsgId BY StoredFields
<1> DEFINE id == stored.id
           file == stored.file
           sm == Token("SEND_MESSAGE")
           sma == Token("SEND_MESSAGE_ATTACH")
           ack == Token("SEND_MESS_ACK")
           acka == Token("SEND_MESS_ATTACH_ACK")
           frm == AckFrame
           three == Split(frm, Hash, 3)
           four == Split(frm, Hash, 4)
<1>2. id \in Text /\ ~Has(id, Hash) /\ file \in Text /\ ~Has(file, Hash)
  BY <1>1, PlainParts DEF Field
<1>3. /\ ack \in Text /\ ~Has(ack, Hash) /\ acka \in Text /\ ~Has(acka, Hash)
  BY PlainParts DEF Others
<1>4. /\ ack # sm /\ ack # sma /\ ack # acka /\ acka # sm /\ acka # sma
  BY TokensDiffer DEF Others
<1>5. Parsed(frm) =
        CASE three[1] = sm /\ Len(three) = 4 ->
               [op |-> "message", sender |-> three[2], id |-> three[3],
                text |-> three[4], file |-> <<>>]
          [] three[1] = sma /\ Len(four) = 5 ->
               [op |-> "message", sender |-> four[2], id |-> four[3],
                text |-> four[4], file |-> four[5]]
          [] three[1] = ack /\ Len(three) = 2 ->
               [op |-> "ack", id |-> three[2], file |-> <<>>]
          [] three[1] = acka /\ Len(three) = 3 ->
               [op |-> "ack", id |-> three[2], file |-> three[3]]
          [] OTHER -> Nothing
  BY DEF Parsed
<1> HIDE DEF id, sm, sma, ack, acka
<1>6. CASE file = <<>>
  <2> DEFINE ss == <<ack, id>>
  <2>1. ss \in Seq(Text) /\ Len(ss) = 2 /\ ss[1] = ack /\ ss[2] = id BY <1>2, <1>3
  <2>2. frm = Join(ss, Hash) BY <1>6 DEF AckFrame, id, ack
  <2> HIDE DEF ss, frm, file
  <2>3. ss \in Lists /\ \A i \in 1 .. Len(ss) : ~Has(ss[i], Hash)
    <3>1. ss # <<>> BY <2>1
    <3>2. \A i \in 1 .. 2 : i = 1 \/ i = 2 OBVIOUS
    <3>3. \A i \in 1 .. Len(ss) : ~Has(ss[i], Hash) BY <1>2, <1>3, <2>1, <3>2
    <3>4. QED BY <2>1, <3>1, <3>3 DEF Lists
  <2>4. three = ss
    <3>1. Len(ss) <= 4 BY <2>1
    <3>2. ss[1] = Token("SEND_MESS_ACK") BY <2>1 DEF ack
    <3>3. QED BY <2>2, <2>3, <3>1, <3>2, FrameSplits DEF Others
  <2>5. three[1] = ack /\ Len(three) = 2 /\ three[2] = id BY <2>1, <2>4
  <2> HIDE DEF three, four
  <2>6. Parsed(frm) = [op |-> "ack", id |-> id, file |-> file]
    BY <1>4, <1>5, <1>6, <2>5, Zenon
  <2>7. QED BY <2>6 DEF id, file, frm, Receipt
<1>7. CASE file # <<>>
  <2> DEFINE ss == <<acka, id, file>>
  <2>1. ss \in Seq(Text) /\ Len(ss) = 3 /\ ss[1] = acka /\ ss[2] = id /\ ss[3] = file
    BY <1>2, <1>3
  <2>2. frm = Join(ss, Hash) BY <1>7 DEF AckFrame, id, acka
  <2> HIDE DEF ss, frm, file
  <2>3. ss \in Lists /\ \A i \in 1 .. Len(ss) : ~Has(ss[i], Hash)
    <3>1. ss # <<>> BY <2>1
    <3>2. \A i \in 1 .. 3 : i = 1 \/ i = 2 \/ i = 3 OBVIOUS
    <3>3. \A i \in 1 .. Len(ss) : ~Has(ss[i], Hash) BY <1>2, <1>3, <2>1, <3>2
    <3>4. QED BY <2>1, <3>1, <3>3 DEF Lists
  <2>4. three = ss
    <3>1. Len(ss) <= 4 BY <2>1
    <3>2. ss[1] = Token("SEND_MESS_ATTACH_ACK") BY <2>1 DEF acka
    <3>3. QED BY <2>2, <2>3, <3>1, <3>2, FrameSplits DEF Others
  <2>5. three[1] = acka /\ Len(three) = 3 /\ three[2] = id /\ three[3] = file
    BY <2>1, <2>4
  <2> HIDE DEF three, four
  <2>6. Parsed(frm) = [op |-> "ack", id |-> id, file |-> file]
    BY <1>4, <1>5, <2>5, Zenon
  <2>7. QED BY <2>6 DEF id, file, frm, Receipt
<1>8. QED BY <1>6, <1>7

LEMMA MessageStarts == WireInit => MessageInv
BY DEF WireInit, MessageInv, Delivering

\* A step that leaves the message alone.
LEMMA MessageKept ==
  ASSUME MessageInv, UNCHANGED <<request, fields, stored, shown, acked>>,
         stage' \in Before => stored = Nothing /\ shown = Nothing /\ acked = Nothing,
         stage' = "handle" => \E op \in Words : Enough(op),
         stage' \in Delivering => stored # Nothing,
         stage' = "show" => frame' = MessageFrame,
         stage' = "showack" => frame' = AckFrame
  PROVE  MessageInv'
<1>1. /\ StoredIs' = StoredIs /\ MessageFrame' = MessageFrame /\ AckFrame' = AckFrame
      /\ Receipt' = Receipt
  BY DEF StoredIs, MessageFrame, AckFrame, Receipt, Raw, Enough, Record
<1>2. \A op \in Words : Enough(op)' = Enough(op) BY DEF Enough
<1>3. QED BY <1>1, <1>2 DEF MessageInv

LEMMA MessageSteps == ClientInv /\ ServerInv /\ MessageInv /\ [WireNext]_vars => MessageInv'
<1> SUFFICES ASSUME ClientInv, ServerInv, MessageInv, [WireNext]_vars PROVE MessageInv'
  OBVIOUS
<1>0. /\ "prompt" \notin Before \union Delivering
      /\ Before \intersect Delivering = {}
  BY DEF Before, Delivering, Early
<1>1. CASE Type
  <2>1. /\ stage' = "typed" /\ stored' = Nothing /\ shown' = Nothing /\ acked' = Nothing
    BY <1>1 DEF Type
  <2>2. "typed" \notin Delivering BY DEF Delivering
  <2>3. QED BY <2>1, <2>2 DEF MessageInv
<1>2. CASE ReadInput \/ Normalise \/ CheckFile \/ Plain
  <2>1. /\ UNCHANGED <<request, fields, stored, shown, acked>> /\ stage \in Before
        /\ stage' \in {"prompt", "call", "request", "crashed"}
    BY <1>2 DEF ReadInput, Normalise, CheckFile, Plain, Early, Before
  <2>2. stage' \notin Delivering /\ stage' # "handle" BY <2>1 DEF Delivering
  <2>3. stored = Nothing /\ shown = Nothing /\ acked = Nothing BY <2>1 DEF MessageInv
  <2>4. QED BY <2>1, <2>2, <2>3, MessageKept DEF Delivering
<1>3. CASE Relaunch
  <2>1. /\ UNCHANGED <<request, fields, stored, shown, acked>> /\ stage' = "prompt"
    BY <1>3 DEF Relaunch
  <2>2. QED BY <1>0, <2>1, MessageKept DEF Delivering
<1>4. CASE Request
  <2>1. /\ UNCHANGED <<stored, shown, acked>> /\ stage = "request" /\ stage' = "recv"
    BY <1>4 DEF Request
  <2>2. stored = Nothing /\ shown = Nothing /\ acked = Nothing
    BY <2>1 DEF MessageInv, Before, Early
  <2>3. "recv" \notin Delivering BY DEF Delivering
  <2>4. QED BY <2>1, <2>2, <2>3 DEF MessageInv
<1>5. CASE Receive \/ SplitField
  <2>1. /\ UNCHANGED <<stored, shown, acked>> /\ stage \in {"recv", "split"}
        /\ stage' \in {"split", "dispatch"}
    BY <1>5 DEF Receive, SplitField
  <2>2. stored = Nothing /\ shown = Nothing /\ acked = Nothing
    BY <2>1 DEF MessageInv, Before
  <2>3. stage' \notin Delivering /\ stage' # "handle" /\ stage' # "show" /\ stage' # "showack"
    BY <2>1 DEF Delivering
  <2>4. QED BY <2>1, <2>2, <2>3 DEF MessageInv
<1>6. CASE Dispatch
  <2>1. /\ UNCHANGED <<request, fields, stored, shown, acked>> /\ stage = "dispatch"
        /\ stage' \in {"handle", "prompt"}
        /\ stage' = "handle" => \E op \in Words : Enough(op)
    BY <1>6, NeedsAre DEF Dispatch, Enough
  <2>2. stored = Nothing /\ shown = Nothing /\ acked = Nothing
    BY <2>1 DEF MessageInv, Before
  <2>3. stage' \notin Delivering BY <2>1 DEF Delivering
  <2>4. QED BY <2>1, <2>2, <2>3, MessageKept DEF Delivering
<1>7. CASE Store
  <2>1. /\ stage = "handle" /\ fields[1] \in {Token("SEND"), Token("SENDATTACH")}
        /\ UNCHANGED <<request, fields, shown, acked>>
        /\ \/ stage' = "prompt" /\ UNCHANGED stored
           \/ stored' = Record /\ stage' = "deliver"
    BY <1>7 DEF Store, Record
  <2>2. shown = Nothing /\ acked = Nothing /\ stored = Nothing
    BY <2>1 DEF MessageInv, Before
  <2>3. request # <<>> /\ fields = Pieces(Raw) /\ fields # <<>>
    BY <2>1 DEF ClientInv, ServerInv, Serving, AfterSplit
  <2>4. Enough("SEND") \/ Enough("SENDATTACH")
    <3>1. PICK op \in Words : Enough(op) BY <2>1 DEF MessageInv
    <3>2. "SEND" \in Words /\ "SENDATTACH" \in Words BY WordsAre
    <3>3. op \in {"SEND", "SENDATTACH"} BY <2>1, <3>1, <3>2, TokensDiffer DEF Enough
    <3>4. QED BY <3>1, <3>3
  <2>5. Enough("SEND")' = Enough("SEND") /\ Enough("SENDATTACH")' = Enough("SENDATTACH")
    BY <2>1 DEF Enough
  <2>6. CASE stage' = "prompt" /\ UNCHANGED stored
    BY <1>0, <2>2, <2>6, <2>1 DEF MessageInv, Delivering
  <2>7. CASE stored' = Record /\ stage' = "deliver"
    <3>1. Record' = Record /\ Raw' = Raw BY <2>1 DEF Record, Raw
    <3>2. StoredIs' BY <2>1, <2>3, <2>4, <2>5, <2>7, <3>1 DEF StoredIs
    <3>3. stored' # Nothing
      <4>1. stored'.op = "message" BY <2>7 DEF Record
      <4>2. Nothing.op = "none" BY DEF Nothing
      <4>3. QED BY <4>1, <4>2
    <3>4. "deliver" \notin Before BY DEF Before, Early
    <3>5. QED BY <2>1, <2>2, <2>7, <3>2, <3>3, <3>4 DEF MessageInv
  <2>8. QED BY <2>1, <2>6, <2>7
<1>8. CASE HandleOther
  <2>1. /\ UNCHANGED <<request, fields, stored, shown, acked>> /\ stage' = "prompt"
    BY <1>8 DEF HandleOther
  <2>2. QED BY <1>0, <2>1, MessageKept DEF Delivering
<1>9. CASE Deliver
  <2>1. /\ UNCHANGED <<request, fields, stored, shown, acked>> /\ stage = "deliver"
        /\ \/ stage' = "prompt"
           \/ stage' = "show" /\ frame' = MessageFrame
    BY <1>9 DEF Deliver
  <2>2. stored # Nothing BY <2>1 DEF MessageInv, Delivering
  <2>3. stage' \notin Before BY <2>1 DEF Before, Early
  <2>4. stage' # "handle" /\ stage' # "showack" BY <2>1
  <2>5. QED BY <2>1, <2>2, <2>3, <2>4, MessageKept
<1>10. CASE Ack
  <2>1. /\ UNCHANGED <<request, fields, stored, shown, acked>> /\ stage = "ack"
        /\ \/ stage' = "prompt"
           \/ stage' = "showack" /\ frame' = AckFrame
    BY <1>10 DEF Ack
  <2>2. stored # Nothing BY <2>1 DEF MessageInv, Delivering
  <2>3. stage' \notin Before BY <2>1 DEF Before, Early
  <2>4. stage' # "handle" /\ stage' # "show" BY <2>1
  <2>5. QED BY <2>1, <2>2, <2>3, <2>4, MessageKept
<1>11. CASE Show
  <2>1. /\ UNCHANGED <<request, fields, stored, acked, frame>> /\ stage = "show"
        /\ stage' = "ack" /\ (shown' = shown \/ shown' = Parsed(frame))
    BY <1>11 DEF Show
  <2>2. stored # Nothing /\ StoredIs /\ frame = MessageFrame
    BY <2>1 DEF MessageInv, Delivering
  <2>3. shown' = shown \/ shown' = stored BY <2>1, <2>2, MessageParsed
  <2>4. StoredIs' = StoredIs /\ Receipt' = Receipt
    BY <2>1 DEF StoredIs, Receipt, Raw, Enough, Record
  <2>5. "ack" \notin Before BY DEF Before, Early
  <2>6. QED BY <2>1, <2>2, <2>3, <2>4, <2>5 DEF MessageInv
<1>12. CASE ShowAck
  <2>1. /\ UNCHANGED <<request, fields, stored, shown, frame>> /\ stage = "showack"
        /\ stage' = "prompt" /\ (acked' = acked \/ acked' = Parsed(frame))
    BY <1>12 DEF ShowAck
  <2>2. stored # Nothing /\ StoredIs /\ frame = AckFrame
    BY <2>1 DEF MessageInv, Delivering
  <2>3. acked' = acked \/ acked' = Receipt BY <2>1, <2>2, ReceiptParsed
  <2>4. StoredIs' = StoredIs /\ Receipt' = Receipt
    BY <2>1 DEF StoredIs, Receipt, Raw, Enough, Record
  <2>5. QED BY <1>0, <2>1, <2>2, <2>3, <2>4 DEF MessageInv, Delivering
<1>13. CASE UNCHANGED vars
  <2>1. UNCHANGED <<stage, request, fields, stored, frame, shown, acked>>
    BY <1>13 DEF vars
  <2>2. QED BY <2>1, MessageKept DEF MessageInv
<1>14. QED BY <1>1, <1>2, <1>3, <1>4, <1>5, <1>6, <1>7, <1>8, <1>9, <1>10, <1>11, <1>12,
              <1>13 DEF WireNext

WireInductive == ClientInv /\ ServerInv /\ MessageInv

\* The invariant the theorems rest on, from the line to what is printed.
THEOREM WireHolds == WireSpec => []WireInductive
<1>1. WireInit => WireInductive BY ClientStarts, ServerStarts, MessageStarts DEF WireInductive
<1>2. WireInductive /\ [WireNext]_vars => WireInductive'
  BY ClientSteps, ServerSteps, MessageSteps DEF WireInductive
<1>3. QED BY <1>1, <1>2, PTL DEF WireSpec
-----------------------------------------------------------------------------
(* The theorems *)

\* Every variable holds what the program declares it to hold; the fields never
\* outgrow message_fields[MAX_MSG_FIELDS][MAX_NAME], whatever is typed.
THEOREM WireTypes == WireSpec => []WireTypeOK
<1>1. ASSUME WireInductive PROVE WireTypeOK
  <2>1. ClientInv /\ ServerInv /\ MessageInv BY <1>1 DEF WireInductive
  <2>2. call.op \in Words \union {"none"}
    <3>1. CASE call = Nothing BY <3>1 DEF Nothing
    <3>2. CASE call # Nothing
      <4>1. line \in Text /\ CallIs BY <2>1, LineIs DEF ClientInv
      <4>2. QED BY <3>2, <4>1, CallArguments
    <3>3. QED BY <3>1, <3>2
  <2>3. \A i \in DOMAIN fields : Length(fields[i]) < MAX_NAME
    BY <2>1 DEF ServerInv, Field
  <2>4. stored.op \in {"none", "message"}
    <3>1. CASE stored = Nothing BY <3>1 DEF Nothing
    <3>2. CASE stored # Nothing
      <4>1. StoredIs BY <2>1, <3>2 DEF MessageInv
      <4>2. QED BY <2>1, <4>1, StoredFields
    <3>3. QED BY <3>1, <3>2
  <2>5. shown.op \in {"none", "message"}
    <3>1. CASE shown = Nothing BY <3>1 DEF Nothing
    <3>2. CASE shown # Nothing BY <2>1, <2>4, <3>2 DEF MessageInv
    <3>3. QED BY <3>1, <3>2
  <2>6. acked.op \in {"none", "ack"}
    <3>1. CASE acked = Nothing BY <3>1 DEF Nothing
    <3>2. CASE acked # Nothing BY <2>1, <3>2 DEF MessageInv, Receipt
    <3>3. QED BY <3>1, <3>2
  <2>7. /\ stage \in Stages /\ me \in {Me, <<>>} /\ line \in Lines \union {<<>>}
        /\ dead \subseteq {"receiver", "sender"}
    BY <2>1 DEF ClientInv
  <2>8. Length(rest) < RequestSize /\ Len(fields) <= MAX_MSG_FIELDS
    BY <2>1 DEF ServerInv
  <2>9. QED BY <2>2, <2>3, <2>4, <2>5, <2>6, <2>7, <2>8 DEF WireTypeOK, Stages, Words
<1>2. QED BY <1>1, WireHolds, PTL

\* The receipt printed for a message names that message and its file.
THEOREM ReceiptsName == WireSpec => []AckNamesMessage
<1>1. WireInductive => AckNamesMessage BY DEF WireInductive, MessageInv, AckNamesMessage, Receipt
<1>2. QED BY <1>1, WireHolds, PTL

LEMMA LengthOfThree ==
  ASSUME NEW a \in Text, NEW b \in Text, NEW c \in Text
  PROVE  /\ <<a, b, c>> \in Lists
         /\ Length(Join(<<a, b, c>>, Hash)) = Length(a) + Length(b) + Length(c) + 2
<1> DEFINE one == <<a>>
           two == Append(one, b)
           three == Append(two, c)
           t == <<a, b, c>>
<1>1. Hash \in Atoms /\ Hash.n = 1 BY MarksAre
<1>2. /\ one \in Seq(Text) /\ Len(one) = 1 /\ one[1] = a /\ one # <<>>
      /\ 1 \in 1 .. 1 /\ 1 + 1 = 2
  OBVIOUS
<1>3. t \in Seq(Text) /\ Len(t) = 3 /\ t[1] = a /\ t[2] = b /\ t[3] = c OBVIOUS
<1>4. Length(Join(one, Hash)) = Length(a) BY <1>1, JoinOne
<1> HIDE DEF one
<1>5. two \in Seq(Text) /\ Len(two) = 2 /\ two[1] = a /\ two[2] = b
  BY <1>2, AppendProperties
<1>6. one \in Lists BY <1>2 DEF Lists
<1>7. Length(Join(two, Hash)) = Length(a) + 1 + Length(b) BY <1>1, <1>4, <1>6, LengthJoin
<1> HIDE DEF two
<1>8. two \in Lists
  <2>1. two # <<>> BY <1>5, EmptySeq
  <2>2. QED BY <1>5, <2>1 DEF Lists
<1>9. Length(Join(three, Hash)) = Length(a) + 1 + Length(b) + 1 + Length(c)
  BY <1>1, <1>7, <1>8, LengthJoin
<1>10. three \in Seq(Text) /\ Len(three) = 3 /\ three[1] = a /\ three[2] = b /\ three[3] = c
  <2>1. /\ three \in Seq(Text) /\ Len(three) = Len(two) + 1 /\ three[Len(two) + 1] = c
        /\ \A i \in 1 .. Len(two) : three[i] = two[i]
    <3>1. two \in Seq(Text) BY <1>5
    <3>2. QED BY <3>1, AppendProperties
  <2>2. 1 \in 1 .. 2 /\ 2 \in 1 .. 2 /\ 2 + 1 = 3 OBVIOUS
  <2> HIDE DEF three
  <2>3. QED BY <1>5, <2>1, <2>2
<1> HIDE DEF three, t
<1>11. three = t
  <2>1. \A i \in 1 .. 3 : i = 1 \/ i = 2 \/ i = 3 OBVIOUS
  <2>2. \A i \in 1 .. Len(three) : three[i] = t[i] BY <1>3, <1>10, <2>1
  <2>3. QED BY <1>3, <1>10, <2>2, SameList
<1>12. Length(a) \in Nat /\ Length(b) \in Nat /\ Length(c) \in Nat BY LengthIsNat
<1>13. Length(Join(t, Hash)) = Length(a) + Length(b) + Length(c) + 2
  BY <1>9, <1>11, <1>12
<1>14. t \in Lists
  <2>1. t # <<>> BY <1>3, EmptySeq, SMTT(40)
  <2>2. QED BY <1>3, <2>1 DEF Lists
<1>15. QED BY <1>13, <1>14 DEF t

LEMMA LengthOfFour ==
  ASSUME NEW a \in Text, NEW b \in Text, NEW c \in Text, NEW d \in Text
  PROVE  /\ <<a, b, c, d>> \in Lists
         /\ Length(Join(<<a, b, c, d>>, Hash))
              = Length(a) + Length(b) + Length(c) + Length(d) + 3
<1> DEFINE ss == <<a, b, c>>
           us == Append(ss, d)
           t == <<a, b, c, d>>
<1>1. Hash \in Atoms /\ Hash.n = 1 BY MarksAre
<1>2. /\ ss \in Lists
      /\ Length(Join(ss, Hash)) = Length(a) + Length(b) + Length(c) + 2
  BY LengthOfThree
<1>3. ss \in Seq(Text) /\ Len(ss) = 3 /\ ss[1] = a /\ ss[2] = b /\ ss[3] = c OBVIOUS
<1>4. t \in Seq(Text) /\ Len(t) = 4 /\ t[1] = a /\ t[2] = b /\ t[3] = c /\ t[4] = d OBVIOUS
<1> HIDE DEF ss
<1>5. Length(Join(us, Hash)) = Length(Join(ss, Hash)) + 1 + Length(d)
  BY <1>1, <1>2, LengthJoin, ZenonT(60)
<1>6. us \in Seq(Text) /\ Len(us) = 4 /\ us[1] = a /\ us[2] = b /\ us[3] = c /\ us[4] = d
  <2>1. /\ us \in Seq(Text) /\ Len(us) = Len(ss) + 1 /\ us[Len(ss) + 1] = d
        /\ \A i \in 1 .. Len(ss) : us[i] = ss[i]
    <3>1. ss \in Seq(Text) BY <1>3
    <3>2. QED BY <3>1, AppendProperties
  <2>2. 1 \in 1 .. 3 /\ 2 \in 1 .. 3 /\ 3 \in 1 .. 3 /\ 3 + 1 = 4 OBVIOUS
  <2> HIDE DEF us
  <2>3. QED BY <1>3, <2>1, <2>2
<1> HIDE DEF us, t
<1>7. us = t
  <2>1. \A i \in 1 .. 4 : i = 1 \/ i = 2 \/ i = 3 \/ i = 4 OBVIOUS
  <2>2. \A i \in 1 .. Len(us) : us[i] = t[i] BY <1>4, <1>6, <2>1
  <2>3. QED BY <1>4, <1>6, <2>2, SameList
<1>8. /\ Length(a) \in Nat /\ Length(b) \in Nat /\ Length(c) \in Nat
      /\ Length(d) \in Nat
  BY LengthIsNat
<1>9. Length(Join(t, Hash)) = Length(a) + Length(b) + Length(c) + Length(d) + 3
  BY <1>2, <1>5, <1>7, <1>8
<1>10. t \in Lists BY <1>4 DEF Lists
<1>11. QED BY <1>9, <1>10 DEF t

LEMMA LengthOfFive ==
  ASSUME NEW a \in Text, NEW b \in Text, NEW c \in Text, NEW d \in Text, NEW e \in Text
  PROVE  /\ <<a, b, c, d, e>> \in Lists
         /\ Length(Join(<<a, b, c, d, e>>, Hash))
              = Length(a) + Length(b) + Length(c) + Length(d) + Length(e) + 4
<1> DEFINE ss == <<a, b, c, d>>
           us == Append(ss, e)
           t == <<a, b, c, d, e>>
<1>1. Hash \in Atoms /\ Hash.n = 1 BY MarksAre
<1>2. /\ ss \in Lists
      /\ Length(Join(ss, Hash)) = Length(a) + Length(b) + Length(c) + Length(d) + 3
  BY LengthOfFour
<1>3. /\ ss \in Seq(Text) /\ Len(ss) = 4
      /\ ss[1] = a /\ ss[2] = b /\ ss[3] = c /\ ss[4] = d
  OBVIOUS
<1>4. /\ t \in Seq(Text) /\ Len(t) = 5
      /\ t[1] = a /\ t[2] = b /\ t[3] = c /\ t[4] = d /\ t[5] = e
  OBVIOUS
<1> HIDE DEF ss
<1>5. Length(Join(us, Hash)) = Length(Join(ss, Hash)) + 1 + Length(e)
  BY <1>1, <1>2, LengthJoin, ZenonT(60)
<1>6. /\ us \in Seq(Text) /\ Len(us) = 5
      /\ us[1] = a /\ us[2] = b /\ us[3] = c /\ us[4] = d /\ us[5] = e
  <2>1. /\ us \in Seq(Text) /\ Len(us) = Len(ss) + 1 /\ us[Len(ss) + 1] = e
        /\ \A i \in 1 .. Len(ss) : us[i] = ss[i]
    <3>1. ss \in Seq(Text) BY <1>3
    <3>2. QED BY <3>1, AppendProperties
  <2>2. 1 \in 1 .. 4 /\ 2 \in 1 .. 4 /\ 3 \in 1 .. 4 /\ 4 \in 1 .. 4 /\ 4 + 1 = 5 OBVIOUS
  <2> HIDE DEF us
  <2>3. QED BY <1>3, <2>1, <2>2
<1> HIDE DEF us, t
<1>7. us = t
  <2>1. \A i \in 1 .. 5 : i = 1 \/ i = 2 \/ i = 3 \/ i = 4 \/ i = 5 OBVIOUS
  <2>2. \A i \in 1 .. Len(us) : us[i] = t[i] BY <1>4, <1>6, <2>1
  <2>3. QED BY <1>4, <1>6, <2>2, SameList
<1>8. /\ Length(a) \in Nat /\ Length(b) \in Nat /\ Length(c) \in Nat
      /\ Length(d) \in Nat /\ Length(e) \in Nat
  BY LengthIsNat
<1>9. Length(Join(t, Hash)) = Length(a) + Length(b) + Length(c) + Length(d) + Length(e) + 4
  BY <1>2, <1>5, <1>7, <1>8
<1>10. t \in Lists BY <1>4 DEF Lists
<1>11. QED BY <1>9, <1>10 DEF t

\* Every message the server accepts has a frame that fits the buffer of
\* conn_deliver: none stays in the data base because it cannot be handed over.
THEOREM FramesFit == WireSpec => []FrameFits
<1>1. ASSUME WireInductive, stage = "deliver" PROVE Length(MessageFrame) < FrameSize - 1
  <2>1. ServerInv /\ StoredIs
    BY <1>1 DEF WireInductive, MessageInv, Delivering
  <2> DEFINE a == stored.sender
             b == stored.id
             c == stored.text
             d == stored.file
             sm == Token("SEND_MESSAGE")
             sma == Token("SEND_MESSAGE_ATTACH")
  <2>2. Field(a) /\ Field(c) /\ Field(d) /\ b = MsgId BY <2>1, StoredFields
  <2>3. /\ a \in Text /\ b \in Text /\ c \in Text /\ d \in Text
        /\ Length(a) < 256 /\ Length(b) <= 10 /\ Length(c) < 256 /\ Length(d) < 256
    BY <2>2, NumbersAreText, SizesAre DEF Field
  <2>4. /\ sm \in Text /\ sma \in Text /\ Length(sm) <= 20 /\ Length(sma) <= 20
    <3>1. \A n \in 1 .. 20 : n <= 20 OBVIOUS
    <3>2. QED BY <3>1, TokenIs DEF Others
  <2>5. /\ Length(a) \in Nat /\ Length(b) \in Nat /\ Length(c) \in Nat
        /\ Length(d) \in Nat /\ Length(sm) \in Nat /\ Length(sma) \in Nat
    BY <2>3, <2>4, LengthIsNat
  <2>6. MessageFrame = IF d # <<>> THEN Join(<<sma, a, b, c, d>>, Hash)
                       ELSE Join(<<sm, a, b, c>>, Hash)
    BY DEF MessageFrame
  <2> HIDE DEF a, b, c, d, sm, sma
  <2>7. Length(Join(<<sma, a, b, c, d>>, Hash))
          = Length(sma) + Length(a) + Length(b) + Length(c) + Length(d) + 4
    BY <2>3, <2>4, LengthOfFive
  <2>8. Length(Join(<<sm, a, b, c>>, Hash))
          = Length(sm) + Length(a) + Length(b) + Length(c) + 3
    BY <2>3, <2>4, LengthOfFour
  <2>9. Length(MessageFrame) < 1023
    <3>1. CASE d # <<>>
      <4>1. Length(MessageFrame)
              = Length(sma) + Length(a) + Length(b) + Length(c) + Length(d) + 4
        BY <2>6, <2>7, <3>1
      <4>2. QED BY <2>3, <2>4, <2>5, <4>1
    <3>2. CASE d = <<>>
      <4>1. Length(MessageFrame)
              = Length(sm) + Length(a) + Length(b) + Length(c) + 3
        BY <2>6, <2>8, <3>2
      <4>2. QED BY <2>3, <2>4, <2>5, <4>1
    <3>3. QED BY <3>1, <3>2
  <2>10. QED BY <2>9, SizesAre
<1>2. WireInductive => FrameFits BY <1>1 DEF FrameFits
<1>3. QED BY <1>2, WireHolds, PTL

-----------------------------------------------------------------------------
(* From the parts sent to the fields *)

\* The fields are the pieces, cut, as far as they go.
LEMMA PiecesKnown ==
  ASSUME NEW s \in Text
  PROVE  LET all == Split(s, Hash, Len(s))
         IN  /\ Len(Pieces(s)) \in Int /\ Len(Pieces(s)) <= Len(all)
             /\ \A i \in 1 .. Len(Pieces(s)) : Pieces(s)[i] = Cut(all[i], MAX_NAME - 1)
<1> DEFINE all == Split(s, Hash, Len(s))
           l == Min({Len(all), MAX_MSG_FIELDS})
           few == SubSeq(all, 1, l)
           end == IF Last(all) = <<>> THEN Len(all) - 1 ELSE Len(all)
           k == Min({Len(few), end})
<1>1. Pieces(s) = [i \in 1 .. k |-> Cut(few[i], MAX_NAME - 1)] BY DEF Pieces
<1>2. all \in Lists /\ Len(s) \in Nat BY AtomIs, MarksAre, SplitStep
<1>3. all \in Seq(Text) /\ Len(all) \in Nat \ {0} BY <1>2, ListIs DEF Lists
<1> HIDE DEF all
<1>4. l \in 1 .. Len(all)
  <2>1. Len(all) \in Int /\ MAX_MSG_FIELDS \in Int BY <1>3, SizesAre
  <2>2. l = IF Len(all) <= MAX_MSG_FIELDS THEN Len(all) ELSE MAX_MSG_FIELDS
    BY <2>1, Lesser
  <2>3. QED BY <1>3, <2>2, SizesAre
<1> HIDE DEF l
<1>5. Len(few) = l /\ \A i \in 1 .. l : few[i] = all[i]
  <2>1. 1 \in 1 .. Len(all) + 1 /\ l \in 0 .. Len(all) BY <1>3, <1>4
  <2>2. \A i \in 1 .. l : all[i] \in Text BY <1>3, <1>4
  <2>3. /\ Len(few) = IF 1 <= l THEN l - 1 + 1 ELSE 0
        /\ \A i \in 1 .. l - 1 + 1 : few[i] = all[1 + i - 1]
    BY <1>3, <2>1, <2>2, SubSeqProperties
  <2> HIDE DEF few
  <2>4. QED BY <1>4, <2>3
<1> HIDE DEF few
<1>6. end \in Nat BY <1>3
<1> HIDE DEF end
<1>7. k \in Nat /\ k <= l
  <2>1. Len(few) \in Int /\ end \in Int BY <1>4, <1>5, <1>6
  <2>2. k = IF Len(few) <= end THEN Len(few) ELSE end BY <2>1, Lesser
  <2>3. QED BY <1>4, <1>5, <1>6, <2>2
<1> HIDE DEF k
<1>8. Len(Pieces(s)) = k BY <1>1, <1>7
<1>9. \A i \in 1 .. k : Pieces(s)[i] = Cut(all[i], MAX_NAME - 1)
  <2> SUFFICES ASSUME NEW i \in 1 .. k PROVE Pieces(s)[i] = Cut(all[i], MAX_NAME - 1)
    OBVIOUS
  <2>1. i \in 1 .. l BY <1>4, <1>7
  <2>2. Pieces(s)[i] = Cut(few[i], MAX_NAME - 1) BY <1>1
  <2>3. QED BY <1>5, <2>1, <2>2
<1>10. k <= Len(all) BY <1>3, <1>4, <1>7
<1>11. QED BY <1>7, <1>8, <1>9, <1>10 DEF all

\* What the client sends is what a property says of the request.
LEMMA SentParts ==
  ASSUME ClientInv, request # <<>>
  PROVE  /\ line \in Text /\ me \in Text /\ CallIs /\ call # Nothing /\ call.op \in Words
         /\ request = Join(Sent, Hash) /\ request \in Text
         /\ Sent \in Lists /\ Len(Sent) \in 2 .. 5 /\ Len(Sent) = Needs[call.op]
         /\ Payload \in Seq(Text) /\ Len(Payload) = Len(Sent) - 1
         /\ Sent[1] = Token(call.op) /\ \A i \in DOMAIN Payload : Sent[i + 1] = Payload[i]
<1>1. line \in Text /\ me \in Text BY LineIs
<1>2. CallIs /\ call # Nothing /\ request = Join(Sent, Hash) BY DEF ClientInv
<1>3. /\ Sent \in Lists /\ Len(Sent) = Needs[call.op] /\ Len(Sent) = Len(Payload) + 1
      /\ Sent[1] = Token(call.op) /\ call.op \in Words
      /\ \A i \in 1 .. Len(Payload) : Sent[i + 1] = Payload[i]
  BY <1>1, <1>2, SentIs
<1>4. Payload \in Seq(Text) BY <1>1, <1>2, PayloadIs
<1>5. Len(Sent) \in 2 .. 5 BY <1>3, NeedsAre
<1>6. Len(Payload) \in Nat /\ DOMAIN Payload = 1 .. Len(Payload) BY <1>4
<1>7. request \in Text BY <1>1, <1>2, JoinSent
<1>8. Len(Payload) = Len(Sent) - 1 BY <1>3, <1>5, <1>6
<1>9. QED BY <1>1, <1>2, <1>3, <1>4, <1>5, <1>6, <1>7, <1>8

\* The parts are those of the payload, after the name of the operation.
LEMMA EachPart ==
  ASSUME ClientInv, request # <<>>, NEW i \in 1 .. Len(Sent)
  PROVE  \/ Sent[i] = Token(call.op) /\ call.op \in Words
         \/ \E j \in DOMAIN Payload : Sent[i] = Payload[j]
<1>1. /\ Sent[1] = Token(call.op) /\ call.op \in Words /\ Len(Sent) \in 2 .. 5
      /\ Len(Payload) = Len(Sent) - 1 /\ Payload \in Seq(Text)
      /\ \A j \in DOMAIN Payload : Sent[j + 1] = Payload[j]
  BY SentParts
<1>2. CASE i = 1 BY <1>1, <1>2
<1>3. CASE i # 1
  <2>1. i - 1 \in 1 .. Len(Payload) /\ (i - 1) + 1 = i BY <1>1, <1>3
  <2>2. i - 1 \in DOMAIN Payload BY <1>1, <2>1
  <2>3. QED BY <1>1, <2>1, <2>2
<1>4. QED BY <1>2, <1>3

\* Parts no longer than a field fit the buffer together.
LEMMA ShortArrives ==
  ASSUME ClientInv, request # <<>>, \A i \in DOMAIN Payload : Length(Payload[i]) < MAX_NAME
  PROVE  Raw = request /\ \A i \in 1 .. Len(Sent) : Length(Sent[i]) <= 255
<1>1. \A i \in 1 .. Len(Sent) : Length(Sent[i]) <= 255
  <2> SUFFICES ASSUME NEW i \in 1 .. Len(Sent) PROVE Length(Sent[i]) <= 255 OBVIOUS
  <2>1. \A n \in 1 .. 20 : n <= 255 OBVIOUS
  <2>2. CASE Sent[i] = Token(call.op) /\ call.op \in Words BY <2>1, <2>2, TokenIs
  <2>3. CASE \E j \in DOMAIN Payload : Sent[i] = Payload[j]
    <3>1. PICK j \in DOMAIN Payload : Sent[i] = Payload[j] BY <2>3
    <3>2. Payload \in Seq(Text) BY SentParts
    <3>3. Payload[j] \in Text BY <3>2
    <3>4. Length(Payload[j]) \in Nat /\ Length(Payload[j]) < 256
      BY <3>3, LengthIsNat, SizesAre
    <3>5. QED BY <3>1, <3>4
  <2>4. QED BY <2>2, <2>3, EachPart
<1>2. /\ request = Join(Sent, Hash) /\ request \in Text /\ Sent \in Lists
      /\ Len(Sent) \in 2 .. 5
  BY SentParts
<1> DEFINE max == RequestSize - 1
           full == 255
           ss == Sent
           n == Len(ss)
           size == Length(request)
<1>3. max \in Nat /\ max = 1343 BY SizesAre
<1>4. full \in Nat /\ full = 255 OBVIOUS
<1> HIDE DEF full, ss
<1>5. Length(Join(ss, Hash)) + Hash.n <= Len(ss) * (full + Hash.n)
  BY <1>1, <1>2, <1>4, JoinShort, MarksAre, ZenonT(60) DEF ss
<1>6. size + 1 <= n * 256
  <2>1. Hash.n = 1 BY MarksAre
  <2>2. full + Hash.n = 256 BY <1>4, <2>1
  <2>3. Length(Join(ss, Hash)) + 1 <= Len(ss) * 256 BY <1>5, <2>1, <2>2
  <2>4. QED BY <1>2, <2>3 DEF ss
<1>7. size \in Nat BY <1>2, LengthIsNat
<1>8. n \in 2 .. 5 BY <1>2 DEF ss
<1> HIDE DEF n, size, max
<1>9. n * 256 <= 1280
  <2>1. n = 2 \/ n = 3 \/ n = 4 \/ n = 5 BY <1>8
  <2>2. QED BY <2>1
<1>10. size + 1 <= 1280
  <2>1. n * 256 \in Int BY <1>8
  <2> DEFINE m == n * 256
  <2>2. m \in Int /\ size + 1 <= m /\ m <= 1280 BY <1>6, <1>9, <2>1
  <2> HIDE DEF m
  <2>3. QED BY <1>7, <2>2
<1>11. size <= max BY <1>3, <1>7, <1>10
<1>12. Raw = request BY <1>2, <1>3, <1>11, CutAll DEF Raw, size, max
<1>13. QED BY <1>1, <1>12

\* A request without a separator in its parts is split into its parts.
LEMMA PlainSent ==
  ASSUME ClientInv, request # <<>>, Plainly
  PROVE  \A i \in 1 .. Len(Sent) : ~Has(Sent[i], Hash)
<1> SUFFICES ASSUME NEW i \in 1 .. Len(Sent) PROVE ~Has(Sent[i], Hash) OBVIOUS
<1>1. CASE Sent[i] = Token(call.op) /\ call.op \in Words BY <1>1, TokenPlain
<1>2. CASE \E j \in DOMAIN Payload : Sent[i] = Payload[j] BY <1>2 DEF Plainly
<1>3. QED BY <1>1, <1>2, EachPart

\* The operation the server found is the one the client named.
LEMMA SameOperation ==
  ASSUME ClientInv, request # <<>>, Plainly, fields = Pieces(Raw), fields # <<>>,
         NEW op \in Words, Enough(op)
  PROVE  /\ op = call.op /\ Len(fields) >= Len(Sent)
         /\ Len(fields) <= Len(Split(Raw, Hash, Len(Raw)))
         /\ \A i \in 1 .. Len(fields) :
              fields[i] = Cut(Split(Raw, Hash, Len(Raw))[i], MAX_NAME - 1)
<1> DEFINE all == Split(Raw, Hash, Len(Raw))
           max == RequestSize - 1
           k == MAX_NAME - 1
           ss == Sent
           w == Token(call.op)
<1>1. /\ request = Join(ss, Hash) /\ request \in Text /\ ss \in Lists /\ ss[1] = w
      /\ call.op \in Words /\ Len(ss) = Needs[call.op] /\ Len(ss) \in 2 .. 5
  BY SentParts
<1>2. /\ Len(fields) \in Int /\ Len(fields) <= Len(all)
      /\ \A i \in 1 .. Len(fields) : fields[i] = Cut(all[i], MAX_NAME - 1)
  BY RequestIs, PiecesKnown
<1>3. max \in Nat /\ max = 1343 /\ k \in Nat /\ k = 255 BY SizesAre
<1>4. w \in Text /\ Length(w) <= 20 /\ Length(w) \in Nat
  <2>1. \A n \in 1 .. 20 : n <= 20 /\ n \in Nat OBVIOUS
  <2>2. QED BY <1>1, <2>1, TokenIs
<1> HIDE DEF max, k
<1>5. all[1] = w
  <2> DEFINE most == Len(Raw)
  <2>1. Raw = Cut(Join(ss, Hash), max) BY <1>1 DEF Raw, max
  <2>2. most \in Nat /\ Len(Raw) <= most BY RequestIs, AtomIs
  <2>3. Length(ss[1]) <= max BY <1>1, <1>3, <1>4
  <2>4. \A i \in 1 .. Len(ss) : ~Has(ss[i], Hash) BY PlainSent
  <2> HIDE DEF most, ss
  <2>5. Split(Cut(Join(ss, Hash), max), Hash, most)[1] = ss[1]
    <3>1. Len(Cut(Join(ss, Hash), max)) <= most BY <2>1, <2>2
    <3>2. ss \in Lists /\ max \in Nat /\ most \in Nat BY <1>1, <1>3, <2>2
    <3>3. QED BY <2>3, <2>4, <3>1, <3>2, CutFirst
  <2>6. QED BY <1>1, <2>1, <2>5 DEF most
<1>6. Needs[op] \in 2 .. 5 /\ Len(fields) >= Needs[op] /\ fields[1] = Token(op)
  BY NeedsAre DEF Enough
<1>7. 1 \in 1 .. Len(fields) BY <1>2, <1>6
<1>8. fields[1] = Cut(w, k) BY <1>2, <1>5, <1>7 DEF k
<1>9. Length(w) <= k BY <1>3, <1>4
<1>10. Cut(w, k) = w BY <1>3, <1>4, <1>9, CutAll
<1>11. op = call.op BY <1>1, <1>6, <1>8, <1>10, TokensDiffer
<1>12. Len(fields) >= Len(Sent) BY <1>1, <1>6, <1>11
<1>13. QED BY <1>2, <1>11, <1>12

\* The handler of the operation typed gets what was typed.
THEOREM ArgumentsCome == WireSpec => []ArgumentsArrive
<1>1. ASSUME WireInductive, stage = "handle", Plainly,
             \A i \in DOMAIN Payload : Length(Payload[i]) < MAX_NAME
      PROVE  fields = Sent
  <2>1. ClientInv /\ ServerInv /\ MessageInv BY <1>1 DEF WireInductive
  <2>2. request # <<>> /\ fields = Pieces(Raw) /\ fields # <<>>
    BY <1>1, <2>1 DEF ClientInv, ServerInv, Serving, AfterSplit
  <2>3. PICK op \in Words : Enough(op) BY <1>1, <2>1 DEF MessageInv
  <2> DEFINE all == Split(Raw, Hash, Len(Raw))
             k == MAX_NAME - 1
             ss == Sent
  <2>4. /\ Len(fields) >= Len(ss) /\ Len(fields) <= Len(all)
        /\ \A i \in 1 .. Len(fields) : fields[i] = Cut(all[i], k)
    BY <1>1, <2>1, <2>2, <2>3, SameOperation
  <2>5. Raw = request /\ \A i \in 1 .. Len(ss) : Length(ss[i]) <= 255
    BY <1>1, <2>1, <2>2, ShortArrives
  <2>6. request = Join(ss, Hash) /\ request \in Text /\ ss \in Lists
    BY <2>1, <2>2, SentParts
  <2>7. \A i \in 1 .. Len(ss) : ~Has(ss[i], Hash) BY <1>1, <2>1, <2>2, PlainSent
  <2> HIDE DEF ss
  <2>8. all = ss
    <3> DEFINE most == Len(Raw)
    <3>1. most \in Nat /\ Len(request) <= most BY <2>5, <2>6, AtomIs
    <3> HIDE DEF most
    <3>2. Split(Join(ss, Hash), Hash, most) = ss
      BY <2>6, <2>7, <3>1, MarksAre, SplitJoined
    <3>3. QED BY <2>5, <2>6, <3>2 DEF most
  <2>9. ss \in Seq(Text) /\ fields \in Seq(Text) BY <2>1, <2>6, ListIs DEF ServerInv
  <2>10. Len(fields) = Len(ss)
    <3>1. Len(fields) \in Nat /\ Len(ss) \in Nat BY <2>9
    <3>2. Len(fields) <= Len(ss) BY <2>4, <2>8
    <3>3. QED BY <2>4, <3>1, <3>2
  <2>11. \A i \in 1 .. Len(fields) : fields[i] = ss[i]
    <3> SUFFICES ASSUME NEW i \in 1 .. Len(fields) PROVE fields[i] = ss[i] OBVIOUS
    <3>1. ss[i] \in Text /\ Length(ss[i]) <= 255 BY <2>5, <2>9, <2>10
    <3>2. k \in Nat /\ k = 255 BY SizesAre
    <3>3. fields[i] = Cut(ss[i], k) BY <2>4, <2>8
    <3> HIDE DEF k
    <3>4. Cut(ss[i], k) = ss[i] BY <3>1, <3>2, CutAll
    <3>5. QED BY <3>3, <3>4
  <2>12. QED BY <2>9, <2>10, <2>11, SameList DEF ss
<1>2. WireInductive => ArgumentsArrive BY <1>1 DEF ArgumentsArrive, Sent
<1>3. QED BY <1>2, WireHolds, PTL

\* Every part of a request that was accepted arrives, cut to a field; the last
\* may be cut by the end of raw_buf.
LEMMA PartsArrive ==
  ASSUME ClientInv, request # <<>>, Plainly, fields = Pieces(Raw), fields # <<>>,
         NEW op \in Words, Enough(op), Len(Sent) > 2
  PROVE  LET n == Len(Sent)
         IN  /\ op = call.op /\ Len(fields) >= n
             /\ \A i \in 1 .. n - 1 : fields[i] = Cut(Sent[i], MAX_NAME - 1)
             /\ fields[n - 1] = Received(Sent[n - 1], n - 1)
             /\ fields[n] = Received(Sent[n], n)
<1> DEFINE all == Split(Raw, Hash, Len(Raw))
           max == RequestSize - 1
           k == MAX_NAME - 1
           ss == Sent
           n == Len(ss)
           us == SubSeq(ss, 1, n - 1)
           vs == SubSeq(ss, 1, n - 2)
           s == Join(us, Hash)
           r == Join(vs, Hash)
<1>1. /\ request = Join(ss, Hash) /\ request \in Text /\ ss \in Lists /\ n \in 3 .. 5
  BY SentParts
<1>2. ss \in Seq(Text) /\ \A i \in 1 .. n : ~Has(ss[i], Hash) /\ ss[i] \in Text
  BY <1>1, PlainSent, ListIs
<1>3. max \in Nat /\ max = 1343 /\ k \in Nat /\ k = 255 BY SizesAre
<1>4. /\ op = call.op /\ Len(fields) >= n /\ Len(fields) <= Len(all)
      /\ \A i \in 1 .. Len(fields) : fields[i] = Cut(all[i], k)
  BY SameOperation
<1>5. /\ Left(n) = RequestSize - 2 - Length(s) /\ RequestSize - 2 = max - 1
      /\ Left(n - 1) = RequestSize - 2 - Length(Join(SubSeq(ss, 1, n - 1 - 1), Hash))
  BY SizesAre DEF Left, Sent
<1>6. Raw = Cut(Join(ss, Hash), max) BY <1>1 DEF Raw
<1> HIDE DEF ss, max, k
<1>7. n - 1 \in 1 .. Len(ss) /\ n - 1 < Len(ss) /\ n - 1 + 1 = n
      /\ n - 2 \in 1 .. Len(ss) /\ n - 2 < Len(ss) /\ n - 2 + 1 = n - 1 /\ n \in 1 .. Len(ss)
      /\ n - 1 - 1 = n - 2
  <2>1. \A x \in 3 .. 5 :
          /\ x - 1 \in 1 .. x /\ x - 1 < x /\ x - 1 + 1 = x
          /\ x - 2 \in 1 .. x /\ x - 2 < x /\ x - 2 + 1 = x - 1 /\ x \in 1 .. x
          /\ x - 1 - 1 = x - 2
    OBVIOUS
  <2>2. QED BY <1>1, <2>1, Zenon
<1>8. /\ us \in Lists /\ Len(us) = n - 1 /\ \A i \in 1 .. n - 1 : us[i] = ss[i]
      /\ ss = Append(us, ss[n])
  <2> DEFINE p == n - 1
  <2>1. p \in 1 .. Len(ss) /\ p < Len(ss) /\ p + 1 = n BY <1>7
  <2> HIDE DEF p
  <2>2. /\ SubSeq(ss, 1, p) \in Lists /\ Len(SubSeq(ss, 1, p)) = p
        /\ \A i \in 1 .. p : SubSeq(ss, 1, p)[i] = ss[i]
        /\ SubSeq(ss, 1, p + 1) = Append(SubSeq(ss, 1, p), ss[p + 1])
    BY <1>2, <2>1, FrontIs
  <2>3. SubSeq(ss, 1, n) = ss BY <1>2, <1>7, FrontIs
  <2>4. QED BY <2>1, <2>2, <2>3 DEF p
<1>9. vs \in Lists /\ us = Append(vs, ss[n - 1])
  <2> DEFINE p == n - 2
  <2>1. p \in 1 .. Len(ss) /\ p < Len(ss) /\ p + 1 = n - 1 BY <1>7
  <2> HIDE DEF p
  <2>2. /\ SubSeq(ss, 1, p) \in Lists
        /\ SubSeq(ss, 1, p + 1) = Append(SubSeq(ss, 1, p), ss[p + 1])
    BY <1>2, <2>1, FrontIs
  <2>3. QED BY <2>1, <2>2 DEF p
<1>10. Left(n - 1) = max - 1 - Length(r) BY <1>5, <1>7
<1>11. Left(n) = max - 1 - Length(s) BY <1>5
<1> HIDE DEF us, vs
<1>12. /\ s \in Text /\ r \in Text /\ Length(s) = Length(r) + 1 + Length(ss[n - 1])
       /\ Length(s) \in Nat /\ Length(r) \in Nat /\ Length(ss[n - 1]) \in Nat
  <2>1. Hash \in Atoms /\ Hash.n = 1 BY MarksAre
  <2>2. ss[n - 1] \in Text BY <1>2, <1>7
  <2>3. r \in Text /\ Length(Join(Append(vs, ss[n - 1]), Hash))
                        = Length(r) + Hash.n + Length(ss[n - 1])
    BY <1>9, <2>1, <2>2, LengthJoin
  <2>4. s \in Text BY <1>8, <2>1, <2>2, LengthJoin
  <2> HIDE DEF s, r
  <2>5. Length(s) = Length(r) + 1 + Length(ss[n - 1]) BY <1>9, <2>1, <2>3 DEF s
  <2>6. QED BY <2>2, <2>3, <2>4, <2>5, LengthIsNat
<1> DEFINE t == ss[n]
           left == max - 1 - Length(s)
           c == Cut(t, left)
<1>13. Length(s) < max /\ all = Append(us, c)
  <2> DEFINE most == Len(Raw)
             kept == Cut(Join(Append(us, t), Hash), max)
  <2>1. most \in Nat /\ kept = Raw
    <3>1. Raw \in Text BY RequestIs
    <3>2. QED BY <1>6, <1>8, <3>1, AtomIs
  <2>2. t \in Text /\ ~Has(t, Hash) BY <1>2, <1>7
  <2>3. \A i \in 1 .. Len(us) : ~Has(us[i], Hash)
    <3> SUFFICES ASSUME NEW i \in 1 .. Len(us) PROVE ~Has(us[i], Hash) OBVIOUS
    <3>1. i \in 1 .. n - 1 /\ i \in 1 .. n BY <1>1, <1>8
    <3>2. QED BY <1>2, <1>8, <3>1
  <2>4. Len(kept) <= most BY <2>1
  <2> HIDE DEF most, t
  <2>5. \/ Length(s) < max /\ Split(kept, Hash, most) = Append(us, c)
        \/ /\ Length(s) >= max /\ kept = Cut(s, max)
           /\ Len(Split(kept, Hash, most)) <= Len(us)
    <3>1. us \in Lists /\ t \in Text /\ max \in Nat /\ most \in Nat
      BY <1>3, <1>8, <2>1, <2>2
    <3>2. ~Has(t, Hash) BY <2>2
    <3>3. QED BY <2>3, <2>4, <3>1, <3>2, CutJoin
  <2>6. Split(kept, Hash, most) = all BY <2>1 DEF most
  <2> HIDE DEF all, kept, s, c
  <2>7. \/ Length(s) < max /\ all = Append(us, c)
        \/ Len(all) <= n - 1
    BY <1>8, <2>5, <2>6
  <2>8. ~(Len(all) <= n - 1)
    <3>1. Len(fields) \in Int BY PiecesKnown, RequestIs
    <3>2. Len(all) \in Int
      <4>1. Raw \in Text BY RequestIs
      <4>2. most \in Nat BY <2>1
      <4>3. Split(Raw, Hash, most) \in Lists BY <4>1, <4>2, MarksAre, SplitStep
      <4>4. QED BY <4>3, ListIs DEF all, most
    <3>3. QED BY <1>1, <1>4, <3>1, <3>2
  <2>9. QED BY <2>7, <2>8
<1>14. left \in Nat /\ c \in Text /\ t \in Text
  <2>1. left \in Nat BY <1>3, <1>12, <1>13
  <2> HIDE DEF left
  <2>2. t \in Text BY <1>2, <1>7
  <2> HIDE DEF t
  <2>3. QED BY <2>1, <2>2, CutFits
<1> HIDE DEF all, c, t, s, r
<1>15. all[n] = c /\ \A i \in 1 .. n - 1 : all[i] = ss[i]
  <2>1. us \in Seq(Text) /\ Len(us) + 1 = n BY <1>8, <1>1, ListIs
  <2>2. /\ Append(us, c)[Len(us) + 1] = c
        /\ \A i \in 1 .. Len(us) : Append(us, c)[i] = us[i]
    BY <1>14, <2>1, AppendProperties
  <2>3. QED BY <1>8, <1>13, <2>1, <2>2
<1>16. n \in 1 .. Len(fields) /\ \A i \in 1 .. n - 1 : i \in 1 .. Len(fields)
  <2> DEFINE m == Len(fields)
  <2>1. m \in Int /\ m >= n BY <1>4, PiecesKnown, RequestIs
  <2> HIDE DEF m
  <2>2. \A x \in 3 .. 5, y \in Int :
          y >= x => x \in 1 .. y /\ \A i \in 1 .. x - 1 : i \in 1 .. y
    OBVIOUS
  <2>3. n \in 1 .. m /\ \A i \in 1 .. n - 1 : i \in 1 .. m BY <1>1, <2>1, <2>2, Zenon
  <2>4. QED BY <2>3 DEF m
<1>17. \A i \in 1 .. n - 1 : fields[i] = Cut(ss[i], k) BY <1>4, <1>15, <1>16
<1>18. fields[n] = Received(ss[n], n)
  <2>1. fields[n] = Cut(c, k) BY <1>4, <1>15, <1>16
  <2>2. Cut(c, k) = Cut(t, Min({k, left}))
    <3> HIDE DEF left
    <3>1. QED BY <1>3, <1>14, CutCut DEF c
  <2>3. Left(n) = left BY <1>11
  <2>4. QED BY <2>1, <2>2, <2>3 DEF Received, k, t
<1>19. fields[n - 1] = Received(ss[n - 1], n - 1)
  <2> DEFINE u == ss[n - 1]
             room == max - 1 - Length(r)
  <2>1. u \in Text BY <1>2, <1>7
  <2>2. room \in Nat /\ Length(u) <= room BY <1>3, <1>12, <1>13
  <2>3. fields[n - 1] = Cut(u, k)
    <3>1. n - 1 \in 1 .. n - 1 BY <1>1
    <3>2. QED BY <1>17, <3>1
  <2>4. Left(n - 1) = room BY <1>10
  <2> HIDE DEF room, u
  <2>5. Min({k, room}) = IF k <= room THEN k ELSE room
    <3>1. k \in Int /\ room \in Int BY <1>3, <2>2
    <3>2. QED BY <3>1, Lesser
  <2>6. Cut(u, Min({k, room})) = Cut(u, k)
    <3>1. CASE k <= room BY <2>5, <3>1
    <3>2. CASE ~(k <= room)
      <4>1. Length(u) \in Nat BY <2>1, LengthIsNat
      <4>2. Length(u) <= k BY <1>3, <2>2, <3>2, <4>1
      <4>3. Cut(u, k) = u BY <1>3, <2>1, <4>2, CutAll
      <4>4. Cut(u, room) = u BY <2>1, <2>2, CutAll
      <4>5. QED BY <2>5, <3>2, <4>3, <4>4
    <3>3. QED BY <3>1, <3>2
  <2>7. QED BY <2>3, <2>4, <2>6 DEF Received, k, u
<1>20. QED BY <1>4, <1>17, <1>18, <1>19 DEF ss, k

\* What is shown is what was typed: the text is the third word of the line, in a
\* SEND perhaps as the web service leaves it, and the file its rest, whatever
\* their length and characters.
THEOREM ShownIsSent == WireSpec => []ShownAsSent
<1>1. ASSUME WireInductive, shown # Nothing, Plainly
      PROVE  LET typed == Split(line, Space, 3)
             IN  /\ shown.sender # Cut(Me, MAX_NAME - 1) =>
                      call.op = "SENDATTACH" /\ me = <<>> /\ shown.sender = Token("None")
                 /\ shown.id = MsgId
                 /\ \/ shown.text = Received(typed[3], 4)
                    \/ call.op = "SEND" /\ shown.text = Received(QuitarEspacios(typed[3]), 4)
                 /\ shown.file = IF call.op = "SENDATTACH" THEN Received(typed[4], 5)
                                 ELSE <<>>
  <2> DEFINE typed == Split(line, Space, 3)
             ss == Sent
             n == Len(ss)
  <2>1. ClientInv /\ ServerInv /\ MessageInv BY <1>1 DEF WireInductive
  <2>2. shown = stored /\ StoredIs BY <1>1, <2>1 DEF MessageInv
  <2>3. request # <<>> /\ fields = Pieces(Raw) /\ fields # <<>> BY <2>2 DEF StoredIs
  <2>4. PICK op \in {"SEND", "SENDATTACH"} : Enough(op) BY <2>2 DEF StoredIs
  <2>5. op \in Words /\ Needs["SEND"] = 4 /\ Needs["SENDATTACH"] = 5 BY WordsAre, NeedsAre
  <2>6. op = call.op BY <1>1, <2>1, <2>3, <2>4, <2>5, SameOperation
  <2>7. /\ line \in Text /\ me \in Text /\ CallIs /\ call # Nothing
        /\ n = Needs[call.op] /\ \A i \in DOMAIN Payload : ss[i + 1] = Payload[i]
        /\ Payload \in Seq(Text) /\ Len(Payload) = n - 1
    BY <2>1, <2>3, SentParts
  <2>8. n \in {4, 5} BY <2>4, <2>5, <2>6, <2>7
  <2>9. /\ \A i \in 1 .. n - 1 : fields[i] = Cut(ss[i], MAX_NAME - 1)
        /\ fields[n - 1] = Received(ss[n - 1], n - 1)
        /\ fields[n] = Received(ss[n], n)
    <3>1. Len(Sent) > 2 BY <2>8, SMTT(40)
    <3>2. QED BY <1>1, <2>1, <2>3, <2>4, <2>5, <3>1, PartsArrive
  <2>10. /\ shown.id = MsgId /\ shown.sender = fields[2] /\ shown.text = fields[4]
         /\ shown.file = IF fields[1] = Token("SEND") THEN <<>> ELSE fields[5]
    BY <2>1, <2>2, StoredFields
  <2>11. fields[1] = Token(call.op) BY <2>4, <2>6 DEF Enough
  <2>12. fields[1] = Token("SEND") <=> call.op = "SEND"
    <3>1. "SEND" \in Words /\ call.op \in Words BY <2>4, <2>6, WordsAre
    <3>2. QED BY <2>11, <3>1, TokensDiffer
  <2>13. /\ Len(call.args) = Arguments[call.op] /\ call.args \in Seq(Text)
         /\ \A i \in 1 .. Len(call.args) :
              \/ call.args[i] = typed[i + 1]
              \/ call.op = "SEND" /\ i = 2 /\ call.args[i] = QuitarEspacios(typed[3])
    BY <2>7, CallArguments
  <2>14. /\ \A i \in 1 .. Len(call.args) : Payload[i + 1] = call.args[i]
    BY <2>4, <2>6, <2>7, PayloadIs
  <2>15. Arguments["SEND"] = 2 /\ Arguments["SENDATTACH"] = 3 BY ArgumentsAre
  <2> HIDE DEF ss, typed
  <2>16. ss[2] = Payload[1] /\ ss[4] = Payload[3]
    <3>1. DOMAIN Payload = 1 .. n - 1 BY <2>7
    <3>2. \A x \in {4, 5} : 1 \in 1 .. x - 1 /\ 3 \in 1 .. x - 1 OBVIOUS
    <3>3. 1 \in DOMAIN Payload /\ 3 \in DOMAIN Payload BY <2>8, <3>1, <3>2
    <3>4. 1 + 1 = 2 /\ 3 + 1 = 4 OBVIOUS
    <3>5. QED BY <2>7, <3>3, <3>4
  <2>17. \/ Payload[3] = typed[3]
         \/ call.op = "SEND" /\ Payload[3] = QuitarEspacios(typed[3])
    <3>1. Len(call.args) \in {2, 3} BY <2>4, <2>6, <2>13, <2>15
    <3>2. 2 \in 1 .. Len(call.args)
      <4>1. \A x \in {2, 3} : 2 \in 1 .. x OBVIOUS
      <4>2. QED BY <3>1, <4>1, Zenon
    <3>3. 2 + 1 = 3 OBVIOUS
    <3>4. /\ Payload[2 + 1] = call.args[2]
          /\ \/ call.args[2] = typed[2 + 1]
             \/ call.op = "SEND" /\ call.args[2] = QuitarEspacios(typed[3])
      BY <2>13, <2>14, <3>2
    <3>5. QED BY <3>3, <3>4
  <2>18. shown.sender # Cut(Me, MAX_NAME - 1) =>
           call.op = "SENDATTACH" /\ me = <<>> /\ shown.sender = Token("None")
    <3> DEFINE none == Token("None")
    <3>1. 2 \in 1 .. n - 1 BY <2>8
    <3>2. shown.sender = Cut(Payload[1], MAX_NAME - 1) BY <2>9, <2>10, <2>16, <3>1
    <3>3. Payload[1] = Self BY <2>4, <2>6, <2>7, PayloadIs
    <3>4. me \in {Me, <<>>} /\ (call.op = "SEND" => me # <<>>)
      BY <2>1, <2>3 DEF ClientInv
    <3>5. Cut(none, MAX_NAME - 1) = none
      <4>1. none \in Text /\ Length(none) \in 1 .. 20 BY TokenIs DEF Others
      <4>2. MAX_NAME - 1 \in Nat /\ \A i \in 1 .. 20 : i <= MAX_NAME - 1 BY SizesAre
      <4> HIDE DEF none
      <4>3. QED BY <4>1, <4>2, CutAll
    <3>6. Self = me \/ (call.op = "SENDATTACH" /\ me = <<>> /\ Self = none) BY DEF Self
    <3>7. ASSUME Self = me, me # Me
          PROVE  call.op = "SENDATTACH" /\ me = <<>> /\ Self = none
      BY <2>4, <2>6, <3>4, <3>7 DEF Self
    <3> HIDE DEF none
    <3>8. QED BY <3>2, <3>3, <3>5, <3>6, <3>7 DEF none
  <2>19. CASE call.op = "SEND"
    <3>1. n = 4 BY <2>5, <2>7, <2>19
    <3>2. \/ shown.text = Received(typed[3], 4)
          \/ call.op = "SEND" /\ shown.text = Received(QuitarEspacios(typed[3]), 4)
      BY <2>9, <2>10, <2>16, <2>17, <3>1
    <3>3. shown.file = <<>> BY <2>10, <2>12, <2>19
    <3>4. QED BY <2>10, <2>18, <2>19, <3>2, <3>3 DEF typed
  <2>20. CASE call.op = "SENDATTACH"
    <3>1. n = 5 /\ n - 1 = 4 BY <2>5, <2>7, <2>20
    <3>2. shown.text = Received(typed[3], 4) BY <2>9, <2>10, <2>16, <2>17, <2>20, <3>1
    <3>3. Payload[4] = typed[4] /\ ss[5] = Payload[4]
      <4>1. Len(call.args) = 3 BY <2>13, <2>15, <2>20
      <4>2. 3 \in 1 .. Len(call.args) BY <4>1
      <4>3. Payload[3 + 1] = call.args[3] /\ call.args[3] = typed[3 + 1]
        BY <2>13, <2>14, <4>2
      <4>4. 3 + 1 = 4 /\ 4 + 1 = 5 OBVIOUS
      <4>5. 4 \in DOMAIN Payload BY <2>7, <3>1
      <4>6. ss[4 + 1] = Payload[4] BY <2>7, <4>5
      <4>7. QED BY <4>3, <4>4, <4>6
    <3>4. fields[5] = Received(typed[4], 5) BY <2>9, <3>1, <3>3
    <3>5. shown.file = Received(typed[4], 5) BY <2>10, <2>12, <2>20, <3>4
    <3>6. QED BY <2>10, <2>18, <2>20, <3>2, <3>5 DEF typed
  <2>21. QED BY <2>4, <2>6, <2>19, <2>20
<1>2. WireInductive => ShownAsSent BY <1>1 DEF ShownAsSent
<1>3. QED BY <1>2, WireHolds, PTL

-----------------------------------------------------------------------------
(* Characters *)

Whole == {x \in Atoms : x.n % x.c = 0}
Narrow == {x \in Atoms : x.c = 1}

LEMMA WholeIs ==
  /\ Narrow \subseteq Whole /\ Whole \subseteq Atoms
  /\ \A s \in Text : ~Broken(s) <=> s \in Seq(Whole)
  /\ Hash \in Narrow
  /\ \A x \in Narrow, y \in Atoms : y.w = x.w /\ y.c = x.c => y \in Narrow
<1>1. \A n \in Nat : n % 1 = 0 OBVIOUS
<1>2. Narrow \subseteq Whole BY <1>1, AtomIs DEF Narrow, Whole
<1>3. ASSUME NEW s \in Text PROVE ~Broken(s) <=> s \in Seq(Whole)
  <2>1. Whole \in SUBSET Atoms BY DEF Whole
  <2>2. s \in Seq(Whole) <=> \A i \in 1 .. Len(s) : s[i] \in Whole BY <2>1, TextOver
  <2>3. DOMAIN s = 1 .. Len(s) /\ \A i \in 1 .. Len(s) : s[i] \in Atoms BY AtomIs
  <2>4. QED BY <2>2, <2>3 DEF Broken, Whole
<1>4. Hash \in Narrow BY MarksAre DEF Narrow
<1>5. QED BY <1>2, <1>3, <1>4 DEF Narrow, Whole

\* Words and numbers are of one-byte characters.
LEMMA NarrowParts ==
  /\ \A w \in Words \union Others : Token(w) \in Seq(Narrow)
  /\ MsgId \in Seq(Narrow) /\ Port \in Seq(Narrow)
<1>1. Narrow \in SUBSET Atoms BY DEF Narrow
<1>2. ASSUME NEW w \in Words \union Others PROVE Token(w) \in Seq(Narrow)
  <2>1. Token(w) = <<Atom(w)>> /\ Atom(w) \in Atoms /\ Atom(w).c = 1 BY TokenIs
  <2>2. Atom(w) \in Narrow BY <2>1 DEF Narrow
  <2>3. QED BY <1>1, <2>1, <2>2, TextOver
<1>3. ASSUME NEW s \in {MsgId, Port} PROVE s \in Seq(Narrow)
  <2>1. s \in Text /\ \A i \in DOMAIN s : s[i].c = 1 BY NumbersAreText
  <2>2. DOMAIN s = 1 .. Len(s) /\ \A i \in 1 .. Len(s) : s[i] \in Atoms BY <2>1, AtomIs
  <2>3. \A i \in 1 .. Len(s) : s[i] \in Narrow BY <2>1, <2>2 DEF Narrow
  <2>4. QED BY <1>1, <2>1, <2>3, TextOver
<1>4. QED BY <1>2, <1>3

\* What is handed over is made of the characters of the fields.
LEMMA FrameOver ==
  ASSUME ServerInv, StoredIs, NEW A \in SUBSET Atoms, Narrow \subseteq A,
         \A i \in 1 .. Len(fields) : fields[i] \in Seq(A)
  PROVE  MessageFrame \in Seq(A) /\ AckFrame \in Seq(A)
<1> DEFINE a == stored.sender
           b == stored.id
           c == stored.text
           d == stored.file
           sm == Token("SEND_MESSAGE")
           sma == Token("SEND_MESSAGE_ATTACH")
           ack == Token("SEND_MESS_ACK")
           acka == Token("SEND_MESS_ATTACH_ACK")
<1>1. Seq(Narrow) \subseteq Seq(A) /\ Hash \in A BY WholeIs, SeqMonotonic
<1>2. \A w \in Others : Token(w) \in Seq(A) BY <1>1, NarrowParts
<1>3. sm \in Seq(A) /\ sma \in Seq(A) /\ ack \in Seq(A) /\ acka \in Seq(A)
  BY <1>2 DEF Others
<1>4. MsgId \in Seq(A) BY <1>1, NarrowParts
<1>5. Needs["SEND"] = 4 /\ Needs["SENDATTACH"] = 5 BY NeedsAre
<1>6. /\ b = MsgId /\ a = fields[2] /\ c = fields[4]
      /\ d = IF fields[1] = Token("SEND") THEN <<>> ELSE fields[5]
  BY StoredFields
<1>7. Len(fields) \in Nat /\ (Enough("SEND") \/ Enough("SENDATTACH"))
  BY DEF ServerInv, StoredIs
<1>8. a \in Seq(A) /\ c \in Seq(A) /\ d \in Seq(A)
  <2>1. Len(fields) >= 4 BY <1>5, <1>7 DEF Enough
  <2>2. 2 \in 1 .. Len(fields) /\ 4 \in 1 .. Len(fields) BY <1>7, <2>1
  <2>3. d \in Seq(A)
    <3>1. CASE fields[1] = Token("SEND") BY <1>6, <3>1, TextOver
    <3>2. CASE fields[1] # Token("SEND")
      <4>1. Len(fields) >= 5 BY <1>5, <1>7, <3>2 DEF Enough
      <4>2. 5 \in 1 .. Len(fields) BY <1>7, <4>1
      <4>3. QED BY <1>6, <3>2, <4>2
    <3>3. QED BY <3>1, <3>2
  <2>4. QED BY <1>6, <2>2, <2>3
<1>9. b \in Seq(A) BY <1>4, <1>6
<1>10. MessageFrame = IF d # <<>> THEN Join(<<sma, a, b, c, d>>, Hash)
                      ELSE Join(<<sm, a, b, c>>, Hash)
  BY DEF MessageFrame
<1>11. AckFrame = IF d # <<>> THEN Join(<<acka, b, d>>, Hash) ELSE Join(<<ack, b>>, Hash)
  BY DEF AckFrame
<1> HIDE DEF a, b, c, d, sm, sma, ack, acka
<1>12. Seq(A) \subseteq Text BY TextOver
<1>13. ASSUME NEW ss \in Seq(Seq(A)), ss # <<>> PROVE Join(ss, Hash) \in Seq(A)
  <2>1. ss \in Seq(Text) BY <1>12, SeqMonotonic
  <2>2. ss \in Lists BY <1>13, <2>1 DEF Lists
  <2>3. \A i \in 1 .. Len(ss) : ss[i] \in Seq(A) OBVIOUS
  <2>4. QED BY <1>1, <2>2, <2>3, JoinOver
<1>14. /\ <<sma, a, b, c, d>> \in Seq(Seq(A)) /\ <<sma, a, b, c, d>> # <<>>
       /\ <<sm, a, b, c>> \in Seq(Seq(A)) /\ <<sm, a, b, c>> # <<>>
       /\ <<acka, b, d>> \in Seq(Seq(A)) /\ <<acka, b, d>> # <<>>
       /\ <<ack, b>> \in Seq(Seq(A)) /\ <<ack, b>> # <<>>
  BY <1>3, <1>8, <1>9
<1>15. QED BY <1>10, <1>11, <1>13, <1>14, Zenon

\* Whole characters are typed, so whole characters are sent.
LEMMA PayloadWhole ==
  ASSUME ClientInv, request # <<>>
  PROVE  \A i \in DOMAIN Payload : Payload[i] \in Seq(Whole)
<1> DEFINE args == call.args
           ps == Split(line, Space, 3)
<1>1. /\ line \in Text /\ me \in Text /\ CallIs /\ call # Nothing /\ call.op \in Words
      /\ Payload \in Seq(Text) /\ Len(Payload) = Len(Sent) - 1
      /\ Len(Sent) = Needs[call.op]
  BY SentParts
<1>2. line \in Seq(Whole) /\ me \in Seq(Whole)
  <2>1. ~Broken(<<>>) BY DEF Broken
  <2>2. line \in Lines \union {<<>>} /\ me \in {Me, <<>>} BY DEF ClientInv
  <2>3. ~Broken(line) /\ ~Broken(me) BY <2>1, <2>2, TextsAreText
  <2>4. QED BY <1>1, <2>3, WholeIs
<1>3. Seq(Narrow) \subseteq Seq(Whole) BY WholeIs, SeqMonotonic
<1>4. Port \in Seq(Whole) /\ Self \in Seq(Whole)
  <2>1. Token("None") \in Seq(Whole) BY <1>3, NarrowParts DEF Others
  <2>2. Port \in Seq(Whole) BY <1>3, NarrowParts
  <2>3. QED BY <1>2, <2>1, <2>2 DEF Self
<1>5. /\ args \in Seq(Text) /\ Len(args) = Arguments[call.op]
      /\ \A i \in 1 .. Len(args) :
           \/ args[i] = ps[i + 1]
           \/ call.op = "SEND" /\ i = 2 /\ args[i] = QuitarEspacios(ps[3])
      /\ Len(ps) >= 1 + Arguments[call.op]
  BY <1>1, CallArguments
<1>6. Arguments[call.op] \in 0 .. 3 BY <1>1, ArgumentsAre
<1>7. \A i \in 1 .. Len(args) : args[i] \in Seq(Whole)
  <2>1. Space \in Atoms BY MarksAre
  <2>2. \A i \in 1 .. Len(ps) : ps[i] \in Seq(Whole)
    <3>1. Whole \in SUBSET Atoms BY DEF Whole
    <3> DEFINE most == 3
    <3>2. most \in Nat OBVIOUS
    <3> HIDE DEF most
    <3>3. \A i \in 1 .. Len(Split(line, Space, most)) :
            Split(line, Space, most)[i] \in Seq(Whole)
      BY <1>2, <3>1, <3>2, SplitOver
    <3>4. QED BY <3>3 DEF most
  <2>3. Len(ps) \in Nat
    <3>1. ps \in Lists BY <1>1, <2>1, SplitStep
    <3> HIDE DEF ps
    <3>2. QED BY <3>1, ListIs
  <2> HIDE DEF ps, args
  <2> SUFFICES ASSUME NEW i \in 1 .. Len(args) PROVE args[i] \in Seq(Whole) OBVIOUS
  <2>4. i + 1 \in 1 .. Len(ps)
    <3> DEFINE k == Arguments[call.op]
    <3>1. k \in 0 .. 3 /\ i \in 1 .. k /\ Len(ps) >= 1 + k BY <1>5, <1>6
    <3> HIDE DEF k
    <3>2. QED BY <2>3, <3>1
  <2>5. CASE args[i] = ps[i + 1] BY <2>2, <2>4, <2>5
  <2>6. CASE i = 2 /\ args[i] = QuitarEspacios(ps[3])
    <3>1. ps[3] \in Seq(Whole)
      <4>1. 2 + 1 = 3 OBVIOUS
      <4>2. QED BY <2>2, <2>4, <2>6, <4>1
    <3>2. Whole \in SUBSET Atoms /\ Space \in Whole BY MarksAre, WholeIs DEF Whole
    <3>3. QuitarEspacios(ps[3]) \in Seq(Whole) BY <3>1, <3>2, QuitarOver
    <3>4. QED BY <2>6, <3>3
  <2>7. QED BY <1>5, <2>5, <2>6
<1> HIDE DEF args, ps
<1>8. CASE call.op \in {"REGISTER", "UNREGISTER", "DISCONNECT"}
  <2>1. Payload = args BY <1>1, <1>8, PayloadCases DEF args
  <2>2. QED BY <1>5, <1>7, <2>1
<1>9. CASE call.op = "CONNECT"
  <2>1. Payload = <<args[1], Port>> BY <1>1, <1>9, PayloadCases DEF args
  <2>2. Len(args) = 1 BY <1>5, <1>9, ArgumentsAre
  <2>3. args[1] \in Seq(Whole)
    <3>1. 1 \in 1 .. Len(args) BY <2>2
    <3>2. QED BY <1>7, <3>1
  <2>4. \A i \in DOMAIN Payload : i = 1 \/ i = 2 BY <2>1
  <2>5. Payload[1] = args[1] /\ Payload[2] = Port BY <2>1
  <2>6. QED BY <1>4, <2>3, <2>4, <2>5
<1>10. CASE call.op = "USERS"
  <2>1. Payload = <<me>> BY <1>1, <1>10, PayloadCases
  <2>2. (\A i \in DOMAIN Payload : i = 1) /\ Payload[1] = me BY <2>1
  <2>3. QED BY <1>2, <2>2
<1>11. CASE call.op \in {"SEND", "SENDATTACH"}
  <2>1. /\ Payload[1] = Self /\ \A i \in 1 .. Len(args) : Payload[i + 1] = args[i]
    BY <1>1, <1>11, PayloadIs DEF args
  <2>2. Len(Payload) = Len(args) + 1
    <3>1. Arguments["SEND"] = 2 /\ Arguments["SENDATTACH"] = 3 BY ArgumentsAre
    <3>2. Needs["SEND"] = 4 /\ Needs["SENDATTACH"] = 5 BY NeedsAre
    <3>3. QED BY <1>1, <1>5, <1>11, <3>1, <3>2, SMTT(40)
  <2>3. Len(args) \in Nat BY <1>5
  <2> SUFFICES ASSUME NEW i \in DOMAIN Payload PROVE Payload[i] \in Seq(Whole) OBVIOUS
  <2>4. i \in 1 .. Len(args) + 1 BY <1>1, <2>2
  <2>5. CASE i = 1 BY <1>4, <2>1, <2>5
  <2>6. CASE i # 1
    <3>1. i - 1 \in 1 .. Len(args) /\ (i - 1) + 1 = i BY <2>3, <2>4, <2>6
    <3>2. QED BY <1>7, <2>1, <3>1
  <2>7. QED BY <2>5, <2>6
<1>12. QED BY <1>1, <1>8, <1>9, <1>10, <1>11, WordsAre

\* The listening threads read what they are sent, unless a part too long for a

\* field was cut inside a character of several bytes.
THEOREM ListenersSurvive == WireSpec => []ListenerSurvives
<1>1. ASSUME WireInductive, stage \in {"show", "showack"}, Broken(frame)
      PROVE  /\ \E i \in DOMAIN Payload : Length(Payload[i]) >= MAX_NAME
             /\ \E i \in DOMAIN Payload : \E j \in DOMAIN Payload[i] : Payload[i][j].c > 1
  <2> DEFINE all == Split(Raw, Hash, Len(Raw))
             ss == Sent
             k == MAX_NAME - 1
             max == RequestSize - 1
             most == Len(Raw)
  <2>1. ClientInv /\ ServerInv /\ MessageInv BY <1>1 DEF WireInductive
  <2>2. stored # Nothing /\ StoredIs BY <1>1, <2>1 DEF MessageInv, Delivering
  <2>3. request # <<>> /\ fields = Pieces(Raw) BY <2>2 DEF StoredIs
  <2>4. frame = MessageFrame \/ frame = AckFrame BY <1>1, <2>1 DEF MessageInv
  <2>5. /\ ss \in Lists /\ request = Join(ss, Hash) /\ request \in Text
        /\ Payload \in Seq(Text)
    BY <2>1, <2>3, SentParts
  <2>6. /\ Len(fields) \in Int /\ Len(fields) <= Len(all)
        /\ \A i \in 1 .. Len(fields) : fields[i] = Cut(all[i], k)
    BY <2>1, <2>3, RequestIs, PiecesKnown
  <2>7. k \in Nat /\ k = 255 /\ max \in Nat BY SizesAre
  <2>8. Raw = Cut(request, max) /\ Raw \in Text /\ most \in Nat
    BY <2>1, RequestIs, AtomIs DEF Raw
  <2>9. Narrow \in SUBSET Atoms /\ Whole \in SUBSET Atoms BY DEF Narrow, Whole
  <2>10. ASSUME NEW A \in {Narrow, Whole}, \A i \in 1 .. Len(fields) : fields[i] \in Seq(A)
         PROVE  FALSE
    <3>1. A \in SUBSET Atoms /\ Narrow \subseteq A /\ A \subseteq Whole
      BY <2>9, <2>10, WholeIs
    <3>2. MessageFrame \in Seq(A) /\ AckFrame \in Seq(A)
      BY <2>1, <2>2, <2>10, <3>1, FrameOver
    <3>3. frame \in Seq(A) BY <2>4, <3>2
    <3>4. frame \in Seq(Whole) BY <3>1, <3>3, SeqMonotonic
    <3>5. frame \in Text BY <2>9, <3>4, TextOver
    <3>6. QED BY <1>1, <3>4, <3>5, WholeIs
  <2>11. \A i \in 1 .. Len(fields) : i \in 1 .. Len(all)
    <3> DEFINE m == Len(fields)
               l == Len(all)
    <3>1. m \in Int /\ m <= l BY <2>6
    <3>2. l \in Int
      <4>1. all \in Lists BY <2>8, MarksAre, SplitStep
      <4> HIDE DEF all
      <4>2. QED BY <4>1, ListIs
    <3> HIDE DEF m, l
    <3>3. \A i \in 1 .. m : i \in 1 .. l BY <3>1, <3>2
    <3>4. QED BY <3>3 DEF m, l
  <2> HIDE DEF ss, k, max
  <2>12. ASSUME NEW A \in SUBSET Atoms, Raw \in Seq(A)
         PROVE  \A i \in 1 .. Len(all) : all[i] \in Seq(A)
    <3> HIDE DEF most
    <3>1. \A i \in 1 .. Len(Split(Raw, Hash, most)) : Split(Raw, Hash, most)[i] \in Seq(A)
      BY <2>8, <2>12, SplitOver
    <3>2. QED BY <3>1 DEF most
  <2> HIDE DEF all
  <2>13. ASSUME \A i \in DOMAIN Payload : Length(Payload[i]) < MAX_NAME
         PROVE  FALSE
    <3>1. Raw = request /\ \A i \in 1 .. Len(ss) : Length(ss[i]) <= 255
      BY <2>1, <2>3, <2>13, ShortArrives DEF ss
    <3>2. \A i \in 1 .. Len(ss) : ss[i] \in Seq(Whole)
      <4> SUFFICES ASSUME NEW i \in 1 .. Len(ss) PROVE ss[i] \in Seq(Whole) OBVIOUS
      <4>1. ASSUME ss[i] = Token(call.op), call.op \in Words PROVE ss[i] \in Seq(Whole)
        <5>1. Token(call.op) \in Seq(Narrow) BY <4>1, NarrowParts
        <5>2. QED BY <4>1, <5>1, WholeIs, SeqMonotonic
      <4>2. CASE \E j \in DOMAIN Payload : ss[i] = Payload[j]
        BY <2>1, <2>3, <4>2, PayloadWhole
      <4>3. QED BY <2>1, <2>3, <4>1, <4>2, EachPart DEF ss
    <3>3. Hash \in Whole BY WholeIs
    <3>4. Raw \in Seq(Whole) BY <2>5, <2>9, <3>1, <3>2, <3>3, JoinOver
    <3>5. \A i \in 1 .. Len(all) : all[i] \in Seq(Whole) BY <2>9, <2>12, <3>4
    <3>6. \A i \in 1 .. Len(all) : Length(all[i]) <= k
      <4>1. Len(Join(ss, Hash)) <= most BY <2>5, <2>8, <3>1
      <4> HIDE DEF most
      <4>2. \A i \in 1 .. Len(Split(Join(ss, Hash), Hash, most)) :
              Length(Split(Join(ss, Hash), Hash, most)[i]) <= k
        BY <2>5, <2>7, <2>8, <3>1, <4>1, MarksAre, JoinPieces
      <4>3. QED BY <2>5, <3>1, <4>2 DEF all, most
    <3>7. \A i \in 1 .. Len(fields) : fields[i] \in Seq(Whole)
      <4> SUFFICES ASSUME NEW i \in 1 .. Len(fields) PROVE fields[i] \in Seq(Whole)
        OBVIOUS
      <4>1. all[i] \in Seq(Whole) /\ Length(all[i]) <= k BY <2>11, <3>5, <3>6
      <4>2. all[i] \in Text BY <2>9, <4>1, TextOver
      <4>3. Cut(all[i], k) = all[i] BY <2>7, <4>1, <4>2, CutAll
      <4>4. QED BY <2>6, <4>1, <4>3
    <3>8. QED BY <2>10, <3>7
  <2>14. ASSUME \A i \in DOMAIN Payload : \A j \in DOMAIN Payload[i] : ~(Payload[i][j].c > 1)
         PROVE  FALSE
    <3>1. \A i \in DOMAIN Payload : Payload[i] \in Seq(Narrow)
      <4> SUFFICES ASSUME NEW i \in DOMAIN Payload PROVE Payload[i] \in Seq(Narrow)
        OBVIOUS
      <4> DEFINE s == Payload[i]
      <4>1. s \in Text BY <2>5
      <4>2. \A j \in DOMAIN s : ~(s[j].c > 1) BY <2>14
      <4> HIDE DEF s
      <4>3. DOMAIN s = 1 .. Len(s) /\ \A j \in 1 .. Len(s) : s[j] \in Atoms
        BY <4>1, AtomIs
      <4>4. \A j \in 1 .. Len(s) : s[j].c = 1
        <5> SUFFICES ASSUME NEW j \in 1 .. Len(s) PROVE s[j].c = 1 OBVIOUS
        <5>1. s[j].c \in Nat \ {0} BY <4>3, AtomIs
        <5>2. ~(s[j].c > 1) BY <4>2, <4>3
        <5>3. QED BY <5>1, <5>2
      <4>5. \A j \in 1 .. Len(s) : s[j] \in Narrow BY <4>3, <4>4 DEF Narrow
      <4>6. s \in Seq(Narrow) BY <2>9, <4>1, <4>5, TextOver
      <4>7. QED BY <4>6 DEF s
    <3>2. \A i \in 1 .. Len(ss) : ss[i] \in Seq(Narrow)
      <4> SUFFICES ASSUME NEW i \in 1 .. Len(ss) PROVE ss[i] \in Seq(Narrow) OBVIOUS
      <4>1. CASE ss[i] = Token(call.op) /\ call.op \in Words BY <4>1, NarrowParts
      <4>2. CASE \E j \in DOMAIN Payload : ss[i] = Payload[j] BY <3>1, <4>2
      <4>3. QED BY <2>1, <2>3, <4>1, <4>2, EachPart DEF ss
    <3>3. Hash \in Narrow /\ \A x \in Narrow, y \in Atoms :
                               y.w = x.w /\ y.c = x.c => y \in Narrow
      BY WholeIs
    <3>4. request \in Seq(Narrow) BY <2>5, <2>9, <3>2, <3>3, JoinOver
    <3>5. Raw \in Seq(Narrow) BY <2>7, <2>8, <2>9, <3>3, <3>4, CutOver
    <3>6. \A i \in 1 .. Len(all) : all[i] \in Seq(Narrow) BY <2>9, <2>12, <3>5
    <3>7. \A i \in 1 .. Len(fields) : fields[i] \in Seq(Narrow)
      <4> SUFFICES ASSUME NEW i \in 1 .. Len(fields) PROVE fields[i] \in Seq(Narrow)
        OBVIOUS
      <4>1. all[i] \in Seq(Narrow) BY <2>11, <3>6
      <4>2. Cut(all[i], k) \in Seq(Narrow) BY <2>7, <2>9, <3>3, <4>1, CutOver
      <4>3. QED BY <2>6, <4>2
    <3>8. QED BY <2>10, <3>7
  <2>15. \E i \in DOMAIN Payload : Length(Payload[i]) >= MAX_NAME
    <3>1. PICK i \in DOMAIN Payload : ~(Length(Payload[i]) < MAX_NAME) BY <2>13
    <3>2. Payload[i] \in Text BY <2>5
    <3>3. Length(Payload[i]) \in Nat BY <3>2, LengthIsNat
    <3>4. Length(Payload[i]) >= MAX_NAME BY <3>1, <3>3, SizesAre
    <3>5. QED BY <3>4
  <2>16. QED BY <2>14, <2>15
<1>2. WireInductive => ListenerSurvives BY <1>1 DEF ListenerSurvives
<1>3. QED BY <1>2, WireHolds, PTL
=============================================================================
