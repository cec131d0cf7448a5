-------------------------------- MODULE Text --------------------------------
(***************************************************************************)
(* The strings that go through the system, and what its parts do to them:  *)
(* cut at the size of a buffer (server.c), split at a separator and joined *)
(* by it (client.py, commands.py, server.c), blanks normalised (ws.py).    *)
(*                                                                         *)
(* A string is a sequence of atoms.  An atom is a word that no stage needs *)
(* to look into: its identity w, its length n in bytes and the bytes c     *)
(* that each of its characters takes in UTF-8.                             *)
(***************************************************************************)
EXTENDS Integers, SequencesExt

Atom(w) == [w |-> w, n |-> Len(w), c |-> 1]
Space == Atom(" ")
Hash == Atom("#")
Slash == Atom("/")
Token(w) == <<Atom(w)>>

\* A string of TLA+ is a sequence of characters.
ASSUME MarksAreSingle == \A w \in {" ", "#", "/"} : w \in STRING /\ Len(w) = 1

\* A word has at least one byte; the separator is a word of its own.
Atoms ==
  {x \in [w : STRING, n : Nat \ {0}, c : Nat \ {0}] : x.w = "#" => x = Hash}
Text == Seq(Atoms)

Has(s, a) == \E i \in DOMAIN s : s[i] = a

\* s ends a character short of its last byte: decode("utf_8") raises.
Broken(s) == \E i \in DOMAIN s : s[i].n % s[i].c # 0

\* The bytes of s.
Length(s) ==
  LET bytes[i \in 0 .. Len(s)] == IF i = 0 THEN 0 ELSE bytes[i - 1] + s[i].n
  IN  bytes[Len(s)]

\* The first max bytes of s; the last atom kept may lose its end.
Cut(s, max) ==
  LET kept[i \in 0 .. Len(s)] ==
        IF i = 0 THEN <<>>
        ELSE LET t == kept[i - 1]
             IN  IF Length(t) = max THEN t
                 ELSE Append(t, [s[i] EXCEPT !.n = Min({@, max - Length(t)})])
  IN  kept[Len(s)]

\* str.split(a, most): the pieces of s between its first most occurrences of a.
Split(s, a, most) ==
  LET pieces[i \in 0 .. Len(s)] ==
        IF i = 0 THEN << <<>> >>
        ELSE LET ps == pieces[i - 1]
             IN  IF s[i] = a /\ Len(ps) <= most
                 THEN Append(ps, <<>>)
                 ELSE [ps EXCEPT ![Len(ps)] = Append(@, s[i])]
  IN  pieces[Len(s)]

\* The strings of a sequence that is not empty, joined by the atom a.
Join(ss, a) ==
  LET joined[i \in 0 .. Len(ss)] ==
        IF i = 0 THEN <<>> ELSE joined[i - 1] \o <<a>> \o ss[i]
  IN  Tail(joined[Len(ss)])

\* The characters at which str.split() breaks a string: besides the space, Tab
\* and NoBreak stand for those of one byte and of several.
Tab == [w |-> "tab", n |-> 1, c |-> 1]
NoBreak == [w |-> "nbsp", n |-> 2, c |-> 2]
Blanks == {Space, Tab, NoBreak}

\* The character x after the words t, with one space between two words.
Spaced(t, x) ==
  IF x \notin Blanks THEN Append(t, x)
  ELSE IF t = <<>> \/ Last(t) = Space THEN t
  ELSE Append(t, Space)

\* quitar_espacios: " ".join(item.split()).
QuitarEspacios(s) ==
  LET words[i \in 0 .. Len(s)] == IF i = 0 THEN <<>> ELSE Spaced(words[i - 1], s[i])
      t == words[Len(s)]
  IN  IF t # <<>> /\ Last(t) = Space THEN Front(t) ELSE t
=============================================================================
