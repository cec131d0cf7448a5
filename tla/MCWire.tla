------------------------------- MODULE MCWire -------------------------------
(* The console of ana, who writes to bob: short and long words, words of     *)
(* characters of one, two and three bytes, blanks and separators.            *)
EXTENDS Wire

Ana == Token("ana")
Bob == Token("bob")
Hola == Token("hola")
Accent == <<[w |-> "acento", n |-> 4, c |-> 2]>>
Euros == <<[w |-> "euros", n |-> 252, c |-> 3]>>
Long == <<[w |-> "long", n |-> 300, c |-> 1]>>
Wide == <<[w |-> "wide", n |-> 300, c |-> 2]>>
Big == <<[w |-> "big", n |-> 1201, c |-> 1]>>
Huge == <<[w |-> "huge", n |-> 1400, c |-> 2]>>
Mid == <<Slash, [w |-> "mid", n |-> 200, c |-> 2]>>
Command(ss) == Join(ss, Space)

Texts == {<<>>, Hola, Accent, Euros, Long, Wide, Big, Huge, <<Hash>>, Hola \o <<Hash>> \o Accent,
          Hola \o <<Space, Space>> \o Accent,
          Hola \o [i \in 1 .. 12 |-> IF i % 2 = 1 THEN Hash ELSE Atom("x")],
          Long \o <<Space>> \o Wide,
          Hola \o <<Tab, NoBreak>> \o Accent, <<NoBreak>> \o Euros \o <<Tab>>, <<Tab, Tab>>}
Files == {<<>>, Hola, <<Slash>> \o Hola, <<Slash>> \o Long, <<Slash>> \o Wide, Mid,
          <<Slash>> \o Hola \o <<Space>> \o Hola, <<Slash, Hash>> \o Hola}

TypedLines ==
  {Command(<<Token("SEND"), to, text>>) : to \in {Bob, Long, <<>>}, text \in Texts}
  \union {Command(<<Token("SENDATTACH"), to, text, file>>) :
            to \in {Bob, Hola}, text \in Texts, file \in Files}
  \union {Command(<<Token(op), name>>) :
            op \in {"REGISTER", "UNREGISTER", "CONNECT", "DISCONNECT"},
            name \in {Bob, <<>>, Long, Wide, Hola \o <<Hash>> \o Hola}}
  \union {Token("USERS"), Token("SEND"), Token("HELP"),
          Command(<<Token("REGISTER"), Ana, Bob>>)}

RegisteredNames == {Ana, Bob}
LongestId == Token("4294967295")
OpenPort == Token("50000")
=============================================================================
