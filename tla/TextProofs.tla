----------------------------- MODULE TextProofs -----------------------------
(* Lemmas about the operators of Text, for strings of any length. *)
EXTENDS Text, SequenceTheorems, FiniteSetTheorems, TLAPS

-----------------------------------------------------------------------------
(* Induction.  A set takes the place of the predicate. *)

\* A set of numbers has a least one: 1 .. m is the smaller set the less m is.
LEMMA LeastNumber ==
  ASSUME NEW S \in SUBSET Nat, S # {}
  PROVE  \E n \in S : \A m \in S : n <= m
<1> DEFINE R == StrictSubsetOrdering(Nat)
           F == FiniteSubsetsOf(Nat)
           T == {1 .. n : n \in S}
<1>1. IsWellFoundedOn(R, F) BY FS_StrictSubsetOrderingWellFounded
<1>2. T \subseteq F
  <2>1. ASSUME NEW n \in Nat PROVE 1 .. n \in SUBSET Nat /\ IsFiniteSet(1 .. n)
    BY FS_Interval
  <2>2. \A t \in T : t \in SUBSET Nat /\ IsFiniteSet(t) BY <2>1
  <2> HIDE DEF T
  <2>3. QED BY <2>2, Zenon DEF FiniteSubsetsOf
<1>3. PICK t \in T : \A u \in T : <<u, t>> \notin R
  <2>1. T # {} OBVIOUS
  <2> HIDE DEF R, F, T
  <2>2. QED BY <1>1, <1>2, <2>1, WFMin, Zenon
<1>4. PICK n \in S : t = 1 .. n OBVIOUS
<1>5. ASSUME NEW m \in S, m < n PROVE FALSE
  <2>1. n \in 1 .. n /\ n \notin 1 .. m BY <1>5
  <2>2. <<1 .. m, 1 .. n>> \in R BY <1>5, <2>1 DEF StrictSubsetOrdering
  <2>3. QED BY <1>3, <1>4, <2>2
<1>6. QED BY <1>5

LEMMA InductionOnNat ==
  ASSUME NEW P \in SUBSET Nat, 0 \in P, \A n \in P : n + 1 \in P
  PROVE  P = Nat
<1>1. SUFFICES ASSUME Nat \ P # {} PROVE FALSE OBVIOUS
<1>2. PICK n \in Nat \ P : \A m \in Nat \ P : n <= m BY <1>1, LeastNumber
<1>3. n - 1 \in Nat /\ n - 1 \notin Nat \ P BY <1>2
<1>4. QED BY <1>2, <1>3

LEMMA InductionOnSeq ==
  ASSUME NEW S, NEW P \in SUBSET Seq(S), <<>> \in P,
         \A s \in P, x \in S : Append(s, x) \in P
  PROVE  P = Seq(S)
<1> DEFINE N == {n \in Nat : \A s \in Seq(S) : Len(s) = n => s \in P}
<1>1. 0 \in N
  <2>1. ASSUME NEW s \in Seq(S), Len(s) = 0 PROVE s = <<>> BY <2>1
  <2>2. QED BY <2>1
<1>2. ASSUME NEW n \in N PROVE n + 1 \in N
  <2>1. SUFFICES ASSUME NEW s \in Seq(S), Len(s) = n + 1 PROVE s \in P
    BY <1>2
  <2>2. PICK t \in Seq(S), x \in S : s = Append(t, x)
    <3>1. s # <<>> BY <2>1, <1>2
    <3>2. QED BY <3>1, SequenceEmptyOrAppend, Zenon
  <2>3. Len(t) = n BY <2>1, <2>2, <1>2, AppendProperties, LenProperties
  <2>4. QED BY <1>2, <2>2, <2>3
<1>3. N = Nat
  <2> HIDE DEF N
  <2>1. N \in SUBSET Nat BY DEF N
  <2>2. QED BY <1>1, <1>2, <2>1, InductionOnNat
<1>4. QED BY <1>3, LenProperties

LEMMA InductionToLimit ==
  ASSUME NEW n \in Nat, NEW P, 0 \in P,
         \A i \in 1 .. n : i - 1 \in P => i \in P
  PROVE  \A i \in 0 .. n : i \in P
<1> DEFINE Q == {i \in Nat : i <= n => i \in P}
<1>1. 0 \in Q OBVIOUS
<1>2. ASSUME NEW i \in Q PROVE i + 1 \in Q
  <2>1. CASE i + 1 <= n
    <3>1. i + 1 \in 1 .. n /\ (i + 1) - 1 = i /\ i \in P BY <2>1
    <3>2. QED BY <3>1
  <2>2. QED BY <2>1
<1>3. Q = Nat
  <2>1. Q \in SUBSET Nat OBVIOUS
  <2> HIDE DEF Q
  <2>2. QED BY <1>1, <1>2, <2>1, InductionOnNat
<1>4. QED BY <1>3

\* Two runs of a recursion that take the same steps have the same values.
LEMMA SameRun ==
  ASSUME NEW n \in Nat, NEW f, NEW g, f[0] = g[0],
         \A i \in 1 .. n : f[i - 1] = g[i - 1] => f[i] = g[i]
  PROVE  \A i \in 0 .. n : f[i] = g[i]
<1> DEFINE P == {i \in 0 .. n : f[i] = g[i]}
<1>1. \A i \in 1 .. n : i - 1 \in P => i \in P OBVIOUS
<1>2. 0 \in P OBVIOUS
<1> HIDE DEF P
<1>3. \A i \in 0 .. n : i \in P BY <1>1, <1>2, InductionToLimit
<1>4. QED BY <1>3 DEF P

\* What the steps of a recursion keep holds of all its values.
LEMMA RunStays ==
  ASSUME NEW n \in Nat, NEW f, NEW D, f[0] \in D,
         \A i \in 1 .. n : f[i - 1] \in D => f[i] \in D
  PROVE  \A i \in 0 .. n : f[i] \in D
<1> DEFINE P == {i \in 0 .. n : f[i] \in D}
<1>1. \A i \in 1 .. n : i - 1 \in P => i \in P OBVIOUS
<1>2. 0 \in P OBVIOUS
<1> HIDE DEF P
<1>3. \A i \in 0 .. n : i \in P BY <1>1, <1>2, InductionToLimit
<1>4. QED BY <1>3 DEF P

\* f is the recursion that starts from b and takes a step in D for each element

\* of the sequence s.
IsRun(f, D, b, step, s) ==
  /\ f \in [0 .. Len(s) -> D]
  /\ f[0] = b
  /\ \A i \in 1 .. Len(s) : f[i] = step[f[i - 1]][s[i]]

\* There is one.
LEMMA RunExists ==
  ASSUME NEW S, NEW D, NEW b \in D, NEW step \in [D -> [S -> D]], NEW s \in Seq(S)
  PROVE  \E f : IsRun(f, D, b, step, s)
<1> USE DEF IsRun
<1> DEFINE Run(t, f) == IsRun(f, D, b, step, t)
           P == {t \in Seq(S) : \E f : Run(t, f)}
<1>1. <<>> \in P
  <2>1. Run(<<>>, [i \in {0} |-> b]) OBVIOUS
  <2>2. <<>> \in Seq(S) OBVIOUS
  <2> HIDE DEF IsRun
  <2>3. QED BY <2>1, <2>2
<1>2. ASSUME NEW t \in P, NEW x \in S PROVE Append(t, x) \in P
  <2>1. PICK f : Run(t, f) OBVIOUS
  <2> DEFINE u == Append(t, x)
             g == [i \in 0 .. Len(u) |->
                     IF i = Len(u) THEN step[f[Len(t)]][x] ELSE f[i]]
  <2>2. /\ u \in Seq(S) /\ Len(u) = Len(t) + 1 /\ u[Len(u)] = x /\ Len(t) \in Nat
        /\ \A i \in 1 .. Len(t) : u[i] = t[i]
    BY AppendProperties, LenProperties
  <2>3. step[f[Len(t)]][x] \in D
    <3>1. Len(t) \in 0 .. Len(t) BY <2>2
    <3>2. f[Len(t)] \in D BY <2>1, <3>1
    <3>3. QED BY <3>2
  <2> HIDE DEF u
  <2>4. Run(u, g)
    <3>1. g \in [0 .. Len(u) -> D] BY <2>1, <2>2, <2>3
    <3>2. g[0] = b BY <2>1, <2>2
    <3>3. ASSUME NEW i \in 1 .. Len(u) PROVE g[i] = step[g[i - 1]][u[i]]
      <4>1. CASE i = Len(u)
        <5>1. i - 1 = Len(t) /\ i - 1 \in 0 .. Len(u) /\ i - 1 # Len(u) BY <2>2, <4>1
        <5>2. g[i] = step[f[Len(t)]][x] /\ g[i - 1] = f[Len(t)] BY <4>1, <5>1
        <5>3. QED BY <2>2, <4>1, <5>2
      <4>2. CASE i # Len(u)
        <5>1. /\ i \in 1 .. Len(t)
              /\ i \in 0 .. Len(u) /\ i - 1 \in 0 .. Len(u) /\ i - 1 # Len(u)
          <6>1. \A m \in Nat : \A j \in 1 .. m + 1 : j # m + 1 =>
                  j \in 1 .. m /\ j \in 0 .. m + 1 /\ j - 1 \in 0 .. m + 1 /\ j - 1 # m + 1
            OBVIOUS
          <6>2. Len(t) \in Nat /\ Len(u) = Len(t) + 1 BY <2>2
          <6> HIDE DEF g, P, IsRun
          <6>3. QED BY <4>2, <6>1, <6>2
        <5>2. g[i] = f[i] /\ g[i - 1] = f[i - 1] BY <4>2, <5>1
        <5>3. f[i] = step[f[i - 1]][t[i]] BY <2>1, <5>1
        <5>4. u[i] = t[i] BY <2>2, <5>1
        <5>5. QED BY <5>2, <5>3, <5>4
      <4>3. QED BY <4>1, <4>2
    <3>4. QED BY <3>1, <3>2, <3>3
  <2> HIDE DEF g
  <2>5. QED BY <2>2, <2>4 DEF u
<1>3. s \in P
  <2>1. P \in SUBSET Seq(S) OBVIOUS
  <2> HIDE DEF P
  <2>2. P = Seq(S) BY <1>1, <1>2, <2>1, InductionOnSeq
  <2>3. QED BY <2>2
<1>4. PICK f : Run(s, f) BY <1>3
<1>5. QED BY <1>4

-----------------------------------------------------------------------------
(* Length *)

LEMMA AtomIs ==
  /\ \A x \in Atoms : /\ x.n \in Nat \ {0} /\ x.c \in Nat \ {0}
                      /\ x = [w |-> x.w, n |-> x.n, c |-> x.c]
  /\ \A s \in Text : /\ Len(s) \in Nat /\ DOMAIN s = 1 .. Len(s)
                     /\ \A i \in 1 .. Len(s) : s[i] \in Atoms
  /\ <<>> \in Text
BY DEF Atoms, Text

LEMMA MarksAre ==
  /\ Hash = [w |-> "#", n |-> 1, c |-> 1]
  /\ Space = [w |-> " ", n |-> 1, c |-> 1]
  /\ Slash = [w |-> "/", n |-> 1, c |-> 1]
  /\ Hash \in Atoms /\ Space \in Atoms /\ Slash \in Atoms
<1>1. /\ Len("#") = 1 /\ Len(" ") = 1 /\ Len("/") = 1
      /\ "#" \in STRING /\ " " \in STRING /\ "/" \in STRING
  BY MarksAreSingle, Zenon
<1>2. /\ Hash = [w |-> "#", n |-> 1, c |-> 1]
      /\ Space = [w |-> " ", n |-> 1, c |-> 1]
      /\ Slash = [w |-> "/", n |-> 1, c |-> 1]
  BY <1>1, Zenon DEF Hash, Space, Slash, Atom
<1> DEFINE Records == [w : STRING, n : Nat \ {0}, c : Nat \ {0}]
<1>3. /\ [w |-> "#", n |-> 1, c |-> 1] \in Records
      /\ [w |-> " ", n |-> 1, c |-> 1] \in Records
      /\ [w |-> "/", n |-> 1, c |-> 1] \in Records
  <2>1. 1 \in Nat \ {0} OBVIOUS
  <2>2. QED BY <1>1, <2>1, Zenon
<1>4. Hash \in Records /\ Space \in Records /\ Slash \in Records
  BY <1>2, <1>3, Zenon
<1>5. Space.w # "#" /\ Slash.w # "#" BY <1>2
<1>6. Hash \in Atoms /\ Space \in Atoms /\ Slash \in Atoms
  BY <1>4, <1>5, Zenon DEF Atoms
<1>7. QED BY <1>2, <1>6, Zenon

LEMMA LengthStep ==
  /\ Length(<<>>) = 0
  /\ \A s \in Text, x \in Atoms :
       Length(s) \in Nat /\ Length(Append(s, x)) = Length(s) + x.n
<1> DEFINE G(s) == CHOOSE f : f = [i \in 0 .. Len(s) |->
                                     IF i = 0 THEN 0 ELSE f[i - 1] + s[i].n]
<1>1. ASSUME NEW s PROVE Length(s) = G(s)[Len(s)] BY DEF Length
<1>2. ASSUME NEW s \in Text
      PROVE  G(s) = [i \in 0 .. Len(s) |->
                       IF i = 0 THEN 0 ELSE G(s)[i - 1] + s[i].n]
  <2> DEFINE D == Nat
             zero == 0
             step == [k \in D |-> [x \in Atoms |-> k + x.n]]
  <2>1. step \in [D -> [Atoms -> D]] BY AtomIs
  <2>2. PICK f : IsRun(f, D, zero, step, s)
    <3>1. s \in Seq(Atoms) BY DEF Text
    <3>2. zero \in D OBVIOUS
    <3> HIDE DEF step, G, D, zero
    <3>3. QED BY <2>1, <3>1, <3>2, RunExists
  <2>3. ASSUME NEW i \in 1 .. Len(s) PROVE f[i] = f[i - 1] + s[i].n
    <3>1. f[i - 1] \in Nat /\ s[i] \in Atoms BY <2>2, AtomIs DEF IsRun
    <3>2. step[f[i - 1]][s[i]] = f[i - 1] + s[i].n BY <3>1
    <3>3. f[i] = step[f[i - 1]][s[i]] BY <2>2 DEF IsRun
    <3>4. QED BY <3>2, <3>3
  <2>4. f = [i \in 0 .. Len(s) |-> IF i = 0 THEN 0 ELSE f[i - 1] + s[i].n]
    <3> HIDE DEF G, step
    <3>1. Len(s) \in Nat BY AtomIs
    <3>2. QED BY <2>2, <2>3, <3>1 DEF IsRun
  <2>5. QED BY <2>4
<1> HIDE DEF G
<1>3. ASSUME NEW s \in Text
      PROVE  /\ G(s)[0] = 0
             /\ \A i \in 1 .. Len(s) : G(s)[i] = G(s)[i - 1] + s[i].n
             /\ \A i \in 0 .. Len(s) : G(s)[i] \in Nat
  <2>1. /\ G(s)[0] = 0
        /\ \A i \in 1 .. Len(s) : G(s)[i] = G(s)[i - 1] + s[i].n
    BY <1>2, AtomIs
  <2>2. \A i \in 1 .. Len(s) : G(s)[i - 1] \in Nat => G(s)[i] \in Nat
    BY <2>1, AtomIs
  <2>3. Len(s) \in Nat /\ G(s)[0] \in Nat BY <2>1, AtomIs
  <2>4. \A i \in 0 .. Len(s) : G(s)[i] \in Nat BY <2>2, <2>3, RunStays
  <2>5. QED BY <2>1, <2>4
<1>4. ASSUME NEW s \in Text, NEW x \in Atoms
      PROVE  Length(s) \in Nat /\ Length(Append(s, x)) = Length(s) + x.n
  <2> DEFINE t == Append(s, x)
  <2>1. /\ t \in Text /\ Len(t) = Len(s) + 1 /\ t[Len(t)] = x
        /\ \A i \in 1 .. Len(s) : t[i] = s[i]
    BY AppendProperties DEF Text
  <2> HIDE DEF t
  <2>2. \A i \in 1 .. Len(s) : G(s)[i - 1] = G(t)[i - 1] => G(s)[i] = G(t)[i]
    BY <1>3, <2>1, AtomIs
  <2>3. Len(s) \in Nat /\ G(s)[0] = G(t)[0] BY <1>3, <2>1, AtomIs
  <2>4. \A i \in 0 .. Len(s) : G(s)[i] = G(t)[i]
    <3> DEFINE f == G(s)
               g == G(t)
               n == Len(s)
    <3>1. /\ n \in Nat /\ f[0] = g[0]
          /\ \A i \in 1 .. n : f[i - 1] = g[i - 1] => f[i] = g[i]
      BY <2>2, <2>3
    <3> HIDE DEF f, g, n
    <3>2. \A i \in 0 .. n : f[i] = g[i] BY <3>1, SameRun
    <3>3. QED BY <3>2 DEF f, g, n
  <2>5. G(t)[Len(t)] = G(s)[Len(s)] + x.n
    <3>1. G(t)[Len(t)] = G(t)[Len(t) - 1] + t[Len(t)].n BY <1>3, <2>1, <2>3
    <3>2. G(t)[Len(s)] = G(s)[Len(s)] BY <2>3, <2>4
    <3>3. QED BY <2>1, <2>3, <3>1, <3>2
  <2>6. G(s)[Len(s)] \in Nat BY <1>3, <2>3
  <2>7. QED BY <1>1, <2>5, <2>6 DEF t
<1>5. Length(<<>>) = 0 BY <1>1, <1>3, AtomIs
<1>6. QED BY <1>4, <1>5

-----------------------------------------------------------------------------
(* Cut *)

LEMMA Lesser ==
  ASSUME NEW a \in Int, NEW b \in Int
  PROVE  Min({a, b}) = IF a <= b THEN a ELSE b
BY DEF Min

\* One step of Cut.
Kept(t, x, max) ==
  IF Length(t) = max THEN t
  ELSE Append(t, [x EXCEPT !.n = Min({@, max - Length(t)})])

\* An atom keeps its identity when its end is cut.
LEMMA TrimmedAtom ==
  ASSUME NEW x \in Atoms, NEW k \in Nat \ {0}
  PROVE  LET y == [x EXCEPT !.n = Min({@, k})]
         IN  /\ y \in Atoms /\ y.n <= k /\ y.n <= x.n /\ y.w = x.w /\ y.c = x.c
             /\ y.n = k \/ y = x
             /\ x.n <= k => y = x
<1> DEFINE y == [x EXCEPT !.n = Min({@, k})]
<1>1. y.n = IF x.n <= k THEN x.n ELSE k BY Lesser, AtomIs DEF Atoms
<1>2. y = [w |-> x.w, n |-> y.n, c |-> x.c] BY AtomIs
<1>3. y.w = x.w /\ y.c = x.c BY <1>2
<1>4. x.w = "#" => x.n = 1
  <2>1. x.w = "#" => x = Hash BY Zenon DEF Atoms
  <2>2. Hash.n = 1 BY MarksAre
  <2>3. QED BY <2>1, <2>2, Zenon
<1>5. x.n <= k => y = x BY <1>1, <1>2, AtomIs
<1>6. y \in [w : STRING, n : Nat \ {0}, c : Nat \ {0}] BY <1>1, <1>2 DEF Atoms
<1>7. y.w = "#" => y = Hash BY <1>3, <1>4, <1>5, AtomIs DEF Atoms
<1>8. QED BY <1>1, <1>3, <1>5, <1>6, <1>7, AtomIs DEF Atoms

LEMMA KeptFits ==
  ASSUME NEW max \in Nat, NEW t \in Text, Length(t) <= max, NEW x \in Atoms
  PROVE  Kept(t, x, max) \in Text /\ Length(Kept(t, x, max)) <= max
<1>1. Length(t) \in Nat BY LengthStep, AtomIs
<1>2. CASE Length(t) = max BY <1>2 DEF Kept
<1>3. CASE Length(t) # max
  <2> DEFINE y == [x EXCEPT !.n = Min({@, max - Length(t)})]
  <2>1. max - Length(t) \in Nat \ {0} BY <1>1, <1>3
  <2>2. y \in Atoms /\ y.n <= max - Length(t) BY <2>1, TrimmedAtom
  <2>3. Kept(t, x, max) = Append(t, y) BY <1>3 DEF Kept
  <2> HIDE DEF y
  <2>4. Append(t, y) \in Text BY <2>2, AppendProperties DEF Text
  <2>5. Length(Append(t, y)) = Length(t) + y.n BY <2>2, LengthStep
  <2>6. QED BY <1>1, <2>2, <2>3, <2>4, <2>5, AtomIs
<1>4. QED BY <1>2, <1>3

LEMMA CutStep ==
  ASSUME NEW max \in Nat
  PROVE  /\ Cut(<<>>, max) = <<>>
         /\ \A s \in Text, x \in Atoms :
              /\ Cut(s, max) \in Text /\ Length(Cut(s, max)) <= max
              /\ Cut(Append(s, x), max) = Kept(Cut(s, max), x, max)
<1> DEFINE G(s) == CHOOSE f : f = [i \in 0 .. Len(s) |->
                                     IF i = 0 THEN <<>> ELSE Kept(f[i - 1], s[i], max)]
           D == {t \in Text : Length(t) <= max}
<1>1. ASSUME NEW s PROVE Cut(s, max) = G(s)[Len(s)] BY DEF Cut, Kept
<1>2. <<>> \in D BY LengthStep, AtomIs
<1>3. \A t \in D, x \in Atoms : Kept(t, x, max) \in D BY KeptFits
<1>4. ASSUME NEW s \in Text
      PROVE  G(s) = [i \in 0 .. Len(s) |->
                       IF i = 0 THEN <<>> ELSE Kept(G(s)[i - 1], s[i], max)]
  <2> DEFINE step == [t \in D |-> [x \in Atoms |-> Kept(t, x, max)]]
  <2>1. step \in [D -> [Atoms -> D]]
    <3> HIDE DEF D, G
    <3>1. QED BY <1>3
  <2>2. PICK f : IsRun(f, D, <<>>, step, s)
    <3>1. s \in Seq(Atoms) BY DEF Text
    <3> HIDE DEF step, G, D
    <3>2. QED BY <1>2, <2>1, <3>1, RunExists
  <2>3. ASSUME NEW i \in 1 .. Len(s) PROVE f[i] = Kept(f[i - 1], s[i], max)
    <3> HIDE DEF D, G
    <3>1. f[i - 1] \in D /\ s[i] \in Atoms BY <2>2, AtomIs DEF IsRun
    <3>2. step[f[i - 1]][s[i]] = Kept(f[i - 1], s[i], max) BY <3>1
    <3>3. f[i] = step[f[i - 1]][s[i]] BY <2>2 DEF IsRun
    <3>4. QED BY <3>2, <3>3
  <2>4. f = [i \in 0 .. Len(s) |->
               IF i = 0 THEN <<>> ELSE Kept(f[i - 1], s[i], max)]
    <3> HIDE DEF G, step, D
    <3>1. Len(s) \in Nat BY AtomIs
    <3>2. QED BY <2>2, <2>3, <3>1 DEF IsRun
  <2>5. QED BY <2>4
<1> HIDE DEF G, D
<1>5. ASSUME NEW s \in Text
      PROVE  /\ G(s)[0] = <<>>
             /\ \A i \in 1 .. Len(s) : G(s)[i] = Kept(G(s)[i - 1], s[i], max)
             /\ \A i \in 0 .. Len(s) : G(s)[i] \in D
  <2>1. /\ G(s)[0] = <<>>
        /\ \A i \in 1 .. Len(s) : G(s)[i] = Kept(G(s)[i - 1], s[i], max)
    BY <1>4, AtomIs
  <2>2. \A i \in 1 .. Len(s) : G(s)[i - 1] \in D => G(s)[i] \in D
    BY <1>3, <2>1, AtomIs
  <2>3. Len(s) \in Nat /\ G(s)[0] \in D BY <1>2, <2>1, AtomIs
  <2>4. \A i \in 0 .. Len(s) : G(s)[i] \in D BY <2>2, <2>3, RunStays
  <2>5. QED BY <2>1, <2>4
<1>6. ASSUME NEW s \in Text PROVE Cut(s, max) \in D
  BY <1>1, <1>5, AtomIs, SMTT(40)
<1>7. ASSUME NEW s \in Text, NEW x \in Atoms
      PROVE  Cut(Append(s, x), max) = Kept(Cut(s, max), x, max)
  <2> DEFINE t == Append(s, x)
  <2>1. /\ t \in Text /\ Len(t) = Len(s) + 1 /\ t[Len(t)] = x
        /\ \A i \in 1 .. Len(s) : t[i] = s[i]
    BY AppendProperties DEF Text
  <2> HIDE DEF t
  <2>2. \A i \in 1 .. Len(s) : G(s)[i - 1] = G(t)[i - 1] => G(s)[i] = G(t)[i]
    BY <1>5, <2>1, AtomIs
  <2>3. Len(s) \in Nat /\ G(s)[0] = G(t)[0] BY <1>5, <2>1, AtomIs
  <2>4. \A i \in 0 .. Len(s) : G(s)[i] = G(t)[i]
    <3> DEFINE f == G(s)
               g == G(t)
               n == Len(s)
    <3>1. /\ n \in Nat /\ f[0] = g[0]
          /\ \A i \in 1 .. n : f[i - 1] = g[i - 1] => f[i] = g[i]
      BY <2>2, <2>3
    <3> HIDE DEF f, g, n
    <3>2. \A i \in 0 .. n : f[i] = g[i] BY <3>1, SameRun
    <3>3. QED BY <3>2 DEF f, g, n
  <2>5. G(t)[Len(t)] = Kept(G(s)[Len(s)], x, max)
    <3>1. G(t)[Len(t)] = Kept(G(t)[Len(t) - 1], t[Len(t)], max) BY <1>5, <2>1, <2>3
    <3>2. G(t)[Len(s)] = G(s)[Len(s)] BY <2>3, <2>4
    <3>3. QED BY <2>1, <2>3, <3>1, <3>2
  <2>6. QED BY <1>1, <2>5 DEF t
<1>8. Cut(<<>>, max) = <<>> BY <1>1, <1>5, AtomIs
<1>9. QED BY <1>6, <1>7, <1>8 DEF D

-----------------------------------------------------------------------------
(* Length and Cut of whole strings *)

LEMMA InductionOnText ==
  ASSUME NEW P \in SUBSET Text, <<>> \in P,
         \A s \in P, x \in Atoms : Append(s, x) \in P
  PROVE  P = Text
BY InductionOnSeq DEF Text

LEMMA TextConcat ==
  ASSUME NEW s \in Text, NEW t \in Text
  PROVE  /\ s \o t \in Text /\ s \o <<>> = s /\ <<>> \o s = s
         /\ Len(s \o t) = Len(s) + Len(t)
BY ConcatProperties, ConcatEmptySeq DEF Text

LEMMA TextAssoc ==
  ASSUME NEW s \in Text, NEW t \in Text, NEW u \in Text
  PROVE  (s \o t) \o u = s \o (t \o u)
BY ConcatAssociative DEF Text

LEMMA TextAppend ==
  ASSUME NEW s \in Text, NEW x \in Atoms
  PROVE  /\ Append(s, x) \in Text /\ <<x>> \in Text
         /\ Append(s, x) = s \o <<x>>
         /\ \A t \in Text : t \o Append(s, x) = Append(t \o s, x)
<1>1. Append(s, x) \in Text /\ <<x>> \in Text BY AppendProperties DEF Text
<1>2. \A t \in Text : Append(t, x) = t \o <<x>> BY AppendIsConcat DEF Text
<1>3. ASSUME NEW t \in Text PROVE t \o Append(s, x) = Append(t \o s, x)
  <2>1. t \o s \in Text BY TextConcat
  <2>2. Append(t \o s, x) = (t \o s) \o <<x>> BY <1>2, <2>1
  <2>3. t \o Append(s, x) = t \o (s \o <<x>>) BY <1>2
  <2>4. QED BY <1>1, <2>2, <2>3, TextAssoc
<1>4. QED BY <1>1, <1>2, <1>3

LEMMA LengthConcat ==
  ASSUME NEW s \in Text, NEW t \in Text
  PROVE  Length(s \o t) = Length(s) + Length(t)
<1> DEFINE P == {u \in Text : Length(s \o u) = Length(s) + Length(u)}
<1>1. <<>> \in P
  <2>1. s \o <<>> = s BY TextConcat
  <2>2. Length(<<>>) = 0 /\ Length(s) \in Nat BY LengthStep, MarksAre
  <2>3. QED BY <2>1, <2>2, AtomIs
<1>2. ASSUME NEW u \in P, NEW x \in Atoms PROVE Append(u, x) \in P
  <2>1. /\ s \o u \in Text /\ Append(u, x) \in Text
        /\ s \o Append(u, x) = Append(s \o u, x)
    BY TextConcat, TextAppend, ZenonT(60)
  <2>2. Length(Append(s \o u, x)) = Length(s \o u) + x.n BY <2>1, LengthStep
  <2>3. Length(Append(u, x)) = Length(u) + x.n BY LengthStep
  <2>4. Length(s) \in Nat /\ Length(u) \in Nat /\ x.n \in Nat BY LengthStep, AtomIs
  <2>5. Length(s \o Append(u, x)) = Length(s) + Length(Append(u, x))
    BY <2>1, <2>2, <2>3, <2>4
  <2>6. QED BY <2>1, <2>5
<1>3. P = Text
  <2>1. P \in SUBSET Text OBVIOUS
  <2> HIDE DEF P
  <2>2. QED BY <1>1, <1>2, <2>1, InductionOnText
<1>4. QED BY <1>3

LEMMA LengthOfOne ==
  ASSUME NEW x \in Atoms PROVE <<x>> \in Text /\ Length(<<x>>) = x.n
<1>1. <<x>> = Append(<<>>, x) OBVIOUS
<1>2. Length(Append(<<>>, x)) = 0 + x.n BY LengthStep, AtomIs
<1>3. QED BY <1>1, <1>2, TextAppend, AtomIs

LEMMA LengthIsNat == \A s \in Text : Length(s) \in Nat
BY LengthStep, MarksAre

\* What fits is not cut.
LEMMA CutAll ==
  ASSUME NEW max \in Nat, NEW s \in Text, Length(s) <= max
  PROVE  Cut(s, max) = s
<1> DEFINE P == {u \in Text : Length(u) <= max => Cut(u, max) = u}
<1>1. <<>> \in P BY CutStep, AtomIs
<1>2. ASSUME NEW u \in P, NEW x \in Atoms PROVE Append(u, x) \in P
  <2>1. Append(u, x) \in Text BY TextAppend
  <2>2. SUFFICES ASSUME Length(Append(u, x)) <= max
                 PROVE  Cut(Append(u, x), max) = Append(u, x)
    BY <2>1
  <2>3. Length(Append(u, x)) = Length(u) + x.n /\ Length(u) \in Nat BY LengthStep
  <2>4. /\ Length(u) < max /\ x.n <= max - Length(u)
        /\ max - Length(u) \in Nat \ {0}
    BY <2>2, <2>3, AtomIs
  <2>5. Cut(u, max) = u BY <2>3, <2>4
  <2>6. [x EXCEPT !.n = Min({@, max - Length(u)})] = x BY <2>4, TrimmedAtom
  <2>7. Kept(u, x, max) = Append(u, x) BY <2>3, <2>4, <2>6 DEF Kept
  <2>8. QED BY <2>5, <2>7, CutStep
<1>3. P = Text
  <2>1. P \in SUBSET Text OBVIOUS
  <2> HIDE DEF P
  <2>2. QED BY <1>1, <1>2, <2>1, InductionOnText
<1>4. QED BY <1>3

\* What does not fill the room was not cut.
LEMMA CutShort ==
  ASSUME NEW max \in Nat, NEW s \in Text, Length(Cut(s, max)) # max
  PROVE  Cut(s, max) = s
<1> DEFINE P == {u \in Text : Length(Cut(u, max)) # max => Cut(u, max) = u}
<1>1. <<>> \in P BY CutStep, AtomIs
<1>2. ASSUME NEW u \in P, NEW x \in Atoms PROVE Append(u, x) \in P
  <2> DEFINE t == Cut(u, max)
             y == [x EXCEPT !.n = Min({@, max - Length(t)})]
  <2>1. /\ t \in Text /\ Length(t) <= max /\ Length(t) \in Nat
        /\ Cut(Append(u, x), max) = Kept(t, x, max)
    BY CutStep, LengthIsNat
  <2>2. Append(u, x) \in Text BY TextAppend
  <2>3. SUFFICES ASSUME Length(Kept(t, x, max)) # max
                 PROVE  Kept(t, x, max) = Append(u, x)
    BY <2>1, <2>2
  <2>4. Length(t) # max BY <2>3 DEF Kept
  <2>5. t = u BY <2>4
  <2>6. max - Length(t) \in Nat \ {0} BY <2>1, <2>4
  <2>7. y \in Atoms /\ (y.n = max - Length(t) \/ y = x) BY <2>6, TrimmedAtom
  <2>8. Kept(t, x, max) = Append(t, y) BY <2>4 DEF Kept
  <2> HIDE DEF t, y
  <2>9. Length(Append(t, y)) = Length(t) + y.n BY <2>1, <2>7, LengthStep
  <2>10. y = x BY <2>1, <2>3, <2>6, <2>7, <2>8, <2>9
  <2>11. QED BY <2>5, <2>8, <2>10
<1>3. P = Text
  <2>1. P \in SUBSET Text OBVIOUS
  <2> HIDE DEF P
  <2>2. QED BY <1>1, <1>2, <2>1, InductionOnText
<1>4. QED BY <1>3

\* Cutting takes atoms from the end, and bytes from the last.
LEMMA CutAtoms ==
  ASSUME NEW max \in Nat, NEW s \in Text
  PROVE  /\ Len(Cut(s, max)) <= Len(s)
         /\ \A i \in 1 .. Len(Cut(s, max)) :
              Cut(s, max)[i].w = s[i].w /\ Cut(s, max)[i].c = s[i].c
<1> DEFINE Same(t, u) == /\ Len(t) <= Len(u)
                         /\ \A i \in 1 .. Len(t) : t[i].w = u[i].w /\ t[i].c = u[i].c
           P == {u \in Text : Same(Cut(u, max), u)}
<1>1. <<>> \in P BY CutStep, AtomIs
<1>2. ASSUME NEW u \in P, NEW x \in Atoms PROVE Append(u, x) \in P
  <2> DEFINE t == Cut(u, max)
             v == Append(u, x)
             y == [x EXCEPT !.n = Min({@, max - Length(t)})]
  <2>1. t \in Text /\ Length(t) <= max /\ Cut(v, max) = Kept(t, x, max) BY CutStep
  <2>2. Same(t, u) OBVIOUS
  <2>3. /\ v \in Text /\ Len(v) = Len(u) + 1 /\ Len(u) \in Nat
        /\ v[Len(u) + 1] = x /\ \A i \in 1 .. Len(u) : v[i] = u[i]
    BY AppendProperties, AtomIs DEF Text
  <2> HIDE DEF t, v
  <2>4. CASE Length(t) = max
    <3>1. Kept(t, x, max) = t BY <2>4 DEF Kept
    <3>2. Len(t) \in Nat BY <2>1, AtomIs
    <3>3. Same(t, v) BY <2>2, <2>3, <3>2
    <3>4. QED BY <2>1, <2>3, <3>1, <3>3 DEF v
  <2>5. CASE Length(t) # max
    <3>1. max - Length(t) \in Nat \ {0} BY <2>1, <2>5, LengthIsNat
    <3>2. y \in Atoms /\ y.w = x.w /\ y.c = x.c BY <3>1, TrimmedAtom
    <3>3. Kept(t, x, max) = Append(t, y) BY <2>5 DEF Kept
    <3>4. t = u BY <2>5, CutShort DEF t
    <3> HIDE DEF y
    <3>5. /\ Len(Append(t, y)) = Len(t) + 1 /\ Append(t, y)[Len(t) + 1] = y
          /\ \A i \in 1 .. Len(t) : Append(t, y)[i] = t[i]
      BY <2>1, <3>2, AppendProperties DEF Text
    <3>6. Same(Append(t, y), v) BY <2>3, <3>2, <3>4, <3>5
    <3>7. QED BY <2>1, <2>3, <3>3, <3>6 DEF v
  <2>6. QED BY <2>4, <2>5
<1>3. P = Text
  <2>1. P \in SUBSET Text OBVIOUS
  <2> HIDE DEF P
  <2>2. QED BY <1>1, <1>2, <2>1, InductionOnText
<1>4. QED BY <1>3

-----------------------------------------------------------------------------
(* Split *)

Lists == {ps \in Seq(Text) : ps # <<>>}

\* One step of Split.
Piece(ps, x, a, most) ==
  IF x = a /\ Len(ps) <= most THEN Append(ps, <<>>)
  ELSE [ps EXCEPT ![Len(ps)] = Append(@, x)]

LEMMA ListIs ==
  ASSUME NEW ps \in Lists
  PROVE  /\ ps \in Seq(Text) /\ Len(ps) \in Nat \ {0} /\ DOMAIN ps = 1 .. Len(ps)
         /\ Len(ps) \in 1 .. Len(ps)
         /\ \A i \in 1 .. Len(ps) : ps[i] \in Text
BY DEF Lists

LEMMA PieceIs ==
  ASSUME NEW ps \in Lists, NEW x \in Atoms, NEW a, NEW most \in Nat
  PROVE  LET qs == Piece(ps, x, a, most)
             n  == Len(ps)
         IN  /\ qs \in Lists
             /\ x = a /\ n <= most =>
                  qs = Append(ps, <<>>) /\ Len(qs) = n + 1 /\ qs[n + 1] = <<>>
             /\ ~(x = a /\ n <= most) => Len(qs) = n /\ qs[n] = Append(ps[n], x)
             /\ \A i \in 1 .. n : i # n \/ (x = a /\ n <= most) => qs[i] = ps[i]
<1> DEFINE qs == Piece(ps, x, a, most)
           n == Len(ps)
<1>1. CASE x = a /\ n <= most
  <2>1. qs = Append(ps, <<>>) BY <1>1 DEF Piece
  <2>2. <<>> \in Text BY AtomIs
  <2>3. /\ qs \in Seq(Text) /\ Len(qs) = n + 1 /\ qs[n + 1] = <<>>
        /\ \A i \in 1 .. n : qs[i] = ps[i]
    BY <2>1, <2>2, ListIs, AppendProperties
  <2>4. qs # <<>> BY <2>3, ListIs
  <2>5. QED BY <1>1, <2>1, <2>3, <2>4 DEF Lists
<1>2. CASE ~(x = a /\ n <= most)
  <2>1. qs = [ps EXCEPT ![n] = Append(ps[n], x)] BY <1>2, Zenon DEF Piece
  <2>2. Append(ps[n], x) \in Text /\ n \in 1 .. n BY ListIs, TextAppend
  <2>3. /\ qs \in Seq(Text) /\ Len(qs) = n /\ qs[n] = Append(ps[n], x)
        /\ \A i \in 1 .. n : i # n => qs[i] = ps[i]
    BY <2>1, <2>2, ListIs, ExceptSeq
  <2>4. qs # <<>> BY <2>3, ListIs
  <2>5. QED BY <1>2, <2>3, <2>4 DEF Lists
<1>3. QED BY <1>1, <1>2

LEMMA SplitStep ==
  ASSUME NEW a, NEW most \in Nat
  PROVE  /\ Split(<<>>, a, most) = << <<>> >>
         /\ \A s \in Text, x \in Atoms :
              /\ Split(s, a, most) \in Lists
              /\ Split(Append(s, x), a, most) = Piece(Split(s, a, most), x, a, most)
<1> DEFINE G(s) == CHOOSE f : f = [i \in 0 .. Len(s) |->
                                     IF i = 0 THEN << <<>> >>
                                     ELSE Piece(f[i - 1], s[i], a, most)]
           b == << <<>> >>
<1>1. ASSUME NEW s PROVE Split(s, a, most) = G(s)[Len(s)] BY DEF Split, Piece
<1>2. b \in Lists
  <2>1. <<>> \in Text BY AtomIs
  <2>2. QED BY <2>1 DEF Lists
<1>3. \A ps \in Lists, x \in Atoms : Piece(ps, x, a, most) \in Lists BY PieceIs
<1>4. ASSUME NEW s \in Text
      PROVE  G(s) = [i \in 0 .. Len(s) |->
                       IF i = 0 THEN b ELSE Piece(G(s)[i - 1], s[i], a, most)]
  <2> DEFINE step == [ps \in Lists |-> [x \in Atoms |-> Piece(ps, x, a, most)]]
  <2>1. step \in [Lists -> [Atoms -> Lists]]
    <3> HIDE DEF G
    <3>1. QED BY <1>3
  <2>2. PICK f : IsRun(f, Lists, b, step, s)
    <3>1. s \in Seq(Atoms) BY DEF Text
    <3> HIDE DEF step, G, b
    <3>2. QED BY <1>2, <2>1, <3>1, RunExists
  <2>3. ASSUME NEW i \in 1 .. Len(s) PROVE f[i] = Piece(f[i - 1], s[i], a, most)
    <3> HIDE DEF G
    <3>1. f[i - 1] \in Lists /\ s[i] \in Atoms BY <2>2, AtomIs DEF IsRun
    <3>2. step[f[i - 1]][s[i]] = Piece(f[i - 1], s[i], a, most) BY <3>1
    <3>3. f[i] = step[f[i - 1]][s[i]] BY <2>2 DEF IsRun
    <3>4. QED BY <3>2, <3>3
  <2>4. f = [i \in 0 .. Len(s) |->
               IF i = 0 THEN b ELSE Piece(f[i - 1], s[i], a, most)]
    <3> HIDE DEF G, step, b
    <3>1. Len(s) \in Nat BY AtomIs
    <3>2. QED BY <2>2, <2>3, <3>1 DEF IsRun
  <2>5. QED BY <2>4
<1> HIDE DEF G, b
<1>5. ASSUME NEW s \in Text
      PROVE  /\ G(s)[0] = b
             /\ \A i \in 1 .. Len(s) : G(s)[i] = Piece(G(s)[i - 1], s[i], a, most)
             /\ \A i \in 0 .. Len(s) : G(s)[i] \in Lists
  <2>1. /\ G(s)[0] = b
        /\ \A i \in 1 .. Len(s) : G(s)[i] = Piece(G(s)[i - 1], s[i], a, most)
    BY <1>4, AtomIs
  <2>2. \A i \in 1 .. Len(s) : G(s)[i - 1] \in Lists => G(s)[i] \in Lists
    BY <1>3, <2>1, AtomIs
  <2>3. Len(s) \in Nat /\ G(s)[0] \in Lists BY <1>2, <2>1, AtomIs
  <2>4. \A i \in 0 .. Len(s) : G(s)[i] \in Lists BY <2>2, <2>3, RunStays
  <2>5. QED BY <2>1, <2>4
<1>6. ASSUME NEW s \in Text PROVE Split(s, a, most) \in Lists
  BY <1>1, <1>5, AtomIs, SMTT(40)
<1>7. ASSUME NEW s \in Text, NEW x \in Atoms
      PROVE  Split(Append(s, x), a, most) = Piece(Split(s, a, most), x, a, most)
  <2> DEFINE t == Append(s, x)
  <2>1. /\ t \in Text /\ Len(t) = Len(s) + 1 /\ t[Len(t)] = x
        /\ \A i \in 1 .. Len(s) : t[i] = s[i]
    BY AppendProperties DEF Text
  <2> HIDE DEF t
  <2>2. \A i \in 1 .. Len(s) : G(s)[i - 1] = G(t)[i - 1] => G(s)[i] = G(t)[i]
    BY <1>5, <2>1, AtomIs
  <2>3. Len(s) \in Nat /\ G(s)[0] = G(t)[0] BY <1>5, <2>1, AtomIs
  <2>4. \A i \in 0 .. Len(s) : G(s)[i] = G(t)[i]
    <3> DEFINE f == G(s)
               g == G(t)
               n == Len(s)
    <3>1. /\ n \in Nat /\ f[0] = g[0]
          /\ \A i \in 1 .. n : f[i - 1] = g[i - 1] => f[i] = g[i]
      BY <2>2, <2>3
    <3> HIDE DEF f, g, n
    <3>2. \A i \in 0 .. n : f[i] = g[i] BY <3>1, SameRun
    <3>3. QED BY <3>2 DEF f, g, n
  <2>5. G(t)[Len(t)] = Piece(G(s)[Len(s)], x, a, most)
    <3>1. G(t)[Len(t)] = Piece(G(t)[Len(t) - 1], t[Len(t)], a, most)
      BY <1>5, <2>1, <2>3
    <3>2. G(t)[Len(s)] = G(s)[Len(s)] BY <2>3, <2>4
    <3>3. QED BY <2>1, <2>3, <3>1, <3>2
  <2>6. QED BY <1>1, <2>5 DEF t
<1>8. Split(<<>>, a, most) = b BY <1>1, <1>5, AtomIs
<1>9. QED BY <1>6, <1>7, <1>8 DEF b

-----------------------------------------------------------------------------
(* What Split returns *)

\* Two lists with the same strings are the same.
LEMMA SameList ==
  ASSUME NEW ps \in Seq(Text), NEW qs \in Seq(Text), Len(ps) = Len(qs),
         \A i \in 1 .. Len(ps) : ps[i] = qs[i]
  PROVE  ps = qs
BY SeqEqual

\* The pieces up to the last but one that is looked for hold no separator, and there is one
\* more of them at most than separators looked for or atoms.
LEMMA SplitPieces ==
  ASSUME NEW a, NEW most \in Nat, NEW s \in Text
  PROVE  LET ps == Split(s, a, most)
         IN  /\ Len(ps) <= most + 1 /\ Len(ps) <= Len(s) + 1
             /\ \A i \in 1 .. Len(ps) : i <= most => ~Has(ps[i], a)
<1> DEFINE Good(ps, n) == /\ Len(ps) <= most + 1 /\ Len(ps) <= n + 1
                          /\ \A i \in 1 .. Len(ps) : i <= most => ~Has(ps[i], a)
           P == {u \in Text : Good(Split(u, a, most), Len(u))}
<1>1. <<>> \in P
  <2>1. Good(<< <<>> >>, 0) BY DEF Has
  <2>2. Split(<<>>, a, most) = << <<>> >> /\ <<>> \in Text BY SplitStep, AtomIs
  <2>3. QED BY <2>1, <2>2
<1>2. ASSUME NEW u \in P, NEW x \in Atoms PROVE Append(u, x) \in P
  <2> DEFINE ps == Split(u, a, most)
             qs == Piece(ps, x, a, most)
             n == Len(ps)
  <2>1. ps \in Lists /\ Split(Append(u, x), a, most) = qs BY SplitStep
  <2>2. Len(Append(u, x)) = Len(u) + 1 /\ Append(u, x) \in Text /\ Len(u) \in Nat
    BY AppendProperties, AtomIs DEF Text
  <2>3. Good(ps, Len(u)) OBVIOUS
  <2>4. n \in Nat \ {0} BY <2>1, ListIs
  <2>5. Good(qs, Len(u) + 1)
    <3> HIDE DEF ps
    <3>1. CASE x = a /\ n <= most
      <4>1. Len(qs) = n + 1 /\ qs[n + 1] = <<>> BY <2>1, <3>1, PieceIs
      <4>2. \A i \in 1 .. n : qs[i] = ps[i] BY <2>1, <3>1, PieceIs
      <4>3. ~Has(<<>>, a) BY DEF Has
      <4> HIDE DEF qs
      <4>4. ASSUME NEW i \in 1 .. Len(qs), i <= most PROVE ~Has(qs[i], a)
        <5>1. CASE i = n + 1 BY <4>1, <4>3, <5>1
        <5>2. CASE i # n + 1
          <6>1. i \in 1 .. n BY <2>4, <4>1, <5>2
          <6>2. ~Has(ps[i], a) BY <2>3, <4>4, <6>1
          <6>3. QED BY <4>2, <6>1, <6>2
        <5>3. QED BY <5>1, <5>2
      <4>5. Len(qs) <= most + 1 /\ Len(qs) <= (Len(u) + 1) + 1
        BY <2>2, <2>3, <2>4, <3>1, <4>1
      <4>6. QED BY <4>4, <4>5
    <3>2. CASE ~(x = a /\ n <= most)
      <4>1. Len(qs) = n /\ qs[n] = Append(ps[n], x) BY <2>1, <3>2, PieceIs
      <4>2. \A i \in 1 .. n : i # n => qs[i] = ps[i] BY <2>1, PieceIs
      <4>3. n <= most => ~Has(Append(ps[n], x), a)
        <5>1. ps[n] \in Text /\ n \in 1 .. n BY <2>1, ListIs
        <5>2. SUFFICES ASSUME n <= most, NEW i \in DOMAIN Append(ps[n], x)
                       PROVE  Append(ps[n], x)[i] # a
          BY DEF Has
        <5>3. ~Has(ps[n], a) /\ x # a BY <2>3, <3>2, <5>1, <5>2
        <5>4. /\ Len(Append(ps[n], x)) = Len(ps[n]) + 1 /\ Append(ps[n], x) \in Text
              /\ Append(ps[n], x)[Len(ps[n]) + 1] = x
              /\ \A k \in 1 .. Len(ps[n]) : Append(ps[n], x)[k] = ps[n][k]
          BY <5>1, AppendProperties DEF Text
        <5>5. i \in 1 .. Len(ps[n]) + 1 BY <5>4, AtomIs
        <5>6. \A k \in 1 .. Len(ps[n]) : ps[n][k] # a BY <5>1, <5>3, AtomIs DEF Has
        <5>7. Len(ps[n]) \in Nat BY <5>1, AtomIs
        <5>8. QED BY <5>3, <5>4, <5>5, <5>6, <5>7
      <4> HIDE DEF qs
      <4>4. ASSUME NEW i \in 1 .. Len(qs), i <= most PROVE ~Has(qs[i], a)
        <5>1. CASE i = n BY <4>1, <4>3, <4>4, <5>1
        <5>2. CASE i # n
          <6>1. ~Has(ps[i], a) BY <2>3, <4>1, <4>4
          <6>2. QED BY <4>1, <4>2, <5>2, <6>1
        <5>3. QED BY <5>1, <5>2
      <4>5. Len(qs) <= most + 1 /\ Len(qs) <= (Len(u) + 1) + 1
        BY <2>2, <2>3, <2>4, <4>1
      <4>6. QED BY <4>4, <4>5
    <3>3. QED BY <3>1, <3>2
  <2> HIDE DEF ps, qs
  <2>6. QED BY <2>1, <2>2, <2>5
<1>3. P = Text
  <2>1. P \in SUBSET Text OBVIOUS
  <2> HIDE DEF P
  <2>2. QED BY <1>1, <1>2, <2>1, InductionOnText
<1>4. QED BY <1>3

Extend(ps, t) == [ps EXCEPT ![Len(ps)] = @ \o t]

LEMMA ExtendIs ==
  ASSUME NEW ps \in Lists, NEW t \in Text
  PROVE  /\ Extend(ps, t) \in Lists /\ Len(Extend(ps, t)) = Len(ps)
         /\ Extend(ps, t)[Len(ps)] = ps[Len(ps)] \o t
         /\ \A i \in 1 .. Len(ps) : i # Len(ps) => Extend(ps, t)[i] = ps[i]
<1>1. Len(ps) \in 1 .. Len(ps) /\ ps[Len(ps)] \o t \in Text BY ListIs, TextConcat
<1>2. Extend(ps, t) = [ps EXCEPT ![Len(ps)] = ps[Len(ps)] \o t] BY DEF Extend
<1>3. /\ Extend(ps, t) \in Seq(Text) /\ Len(Extend(ps, t)) = Len(ps)
      /\ Extend(ps, t)[Len(ps)] = ps[Len(ps)] \o t
      /\ \A i \in 1 .. Len(ps) : i # Len(ps) => Extend(ps, t)[i] = ps[i]
  BY <1>1, <1>2, ListIs, ExceptSeq
<1>4. Extend(ps, t) # <<>> BY <1>3, ListIs
<1>5. QED BY <1>3, <1>4 DEF Lists

LEMMA HasAppend ==
  ASSUME NEW s \in Text, NEW x \in Atoms, NEW a
  PROVE  Has(Append(s, x), a) <=> Has(s, a) \/ x = a
<1>1. /\ Len(Append(s, x)) = Len(s) + 1 /\ Append(s, x) \in Text
      /\ Append(s, x)[Len(s) + 1] = x /\ Len(s) \in Nat
      /\ \A k \in 1 .. Len(s) : Append(s, x)[k] = s[k]
  BY AppendProperties, AtomIs DEF Text
<1>2. /\ DOMAIN Append(s, x) = 1 .. Len(s) + 1 /\ DOMAIN s = 1 .. Len(s)
  BY <1>1, AtomIs
<1>3. QED BY <1>1, <1>2 DEF Has

\* Text without a separator, or after the last one looked for, goes to the last piece.
LEMMA SplitMore ==
  ASSUME NEW a, NEW most \in Nat, NEW s \in Text, NEW t \in Text,
         ~Has(t, a) \/ Len(Split(s, a, most)) > most
  PROVE  Split(s \o t, a, most) = Extend(Split(s, a, most), t)
<1> DEFINE ps == Split(s, a, most)
           n == Len(ps)
           P == {u \in Text : ~Has(u, a) \/ n > most =>
                                Split(s \o u, a, most) = Extend(ps, u)}
<1>1. ps \in Lists BY SplitStep, MarksAre
<1>2. <<>> \in P
  <2>1. s \o <<>> = s /\ <<>> \in Text BY TextConcat, AtomIs
  <2>2. ps[n] \in Text BY <1>1, ListIs
  <2>3. ps[n] \o <<>> = ps[n] BY <2>2, TextConcat
  <2>4. Extend(ps, <<>>) = ps
    <3> HIDE DEF ps
    <3>1. \A i \in 1 .. n : Extend(ps, <<>>)[i] = ps[i]
      BY <1>1, <2>1, <2>3, ExtendIs
    <3>2. /\ Extend(ps, <<>>) \in Seq(Text) /\ Len(Extend(ps, <<>>)) = Len(ps)
          /\ ps \in Seq(Text)
      BY <1>1, <2>1, ExtendIs DEF Lists
    <3>3. QED BY <3>1, <3>2, SameList
  <2>5. QED BY <2>1, <2>4
<1>3. ASSUME NEW u \in P, NEW x \in Atoms PROVE Append(u, x) \in P
  <2>1. Append(u, x) \in Text BY TextAppend
  <2>2. SUFFICES ASSUME ~Has(Append(u, x), a) \/ n > most
                 PROVE  Split(s \o Append(u, x), a, most) = Extend(ps, Append(u, x))
    BY <2>1
  <2>3. ~Has(u, a) \/ n > most BY <2>2, HasAppend
  <2>4. ~(x = a /\ n <= most) BY <1>1, <2>2, HasAppend, ListIs
  <2> DEFINE qs == Extend(ps, u)
             rs == Piece(qs, x, a, most)
  <2>5. Split(s \o u, a, most) = qs BY <2>3
  <2>6. s \o Append(u, x) = Append(s \o u, x) /\ s \o u \in Text
    BY TextAppend, TextConcat
  <2>7. Split(s \o Append(u, x), a, most) = rs BY <2>5, <2>6, SplitStep, ZenonT(60)
  <2>8. rs = Extend(ps, Append(u, x))
    <3> HIDE DEF ps
    <3>1. /\ qs \in Lists /\ Len(qs) = n /\ qs[n] = ps[n] \o u
          /\ \A i \in 1 .. n : i # n => qs[i] = ps[i]
      BY <1>1, ExtendIs
    <3> HIDE DEF qs
    <3>2. ~(x = a /\ Len(qs) <= most) BY <2>4, <3>1
    <3>3. /\ rs \in Lists /\ Len(rs) = n /\ rs[n] = Append(qs[n], x)
          /\ \A i \in 1 .. n : i # n => rs[i] = qs[i]
      BY <3>1, <3>2, PieceIs, SMTT(40)
    <3> HIDE DEF rs
    <3> DEFINE vs == Extend(ps, Append(u, x))
    <3>4. /\ vs \in Lists /\ Len(vs) = n /\ vs[n] = ps[n] \o Append(u, x)
          /\ \A i \in 1 .. n : i # n => vs[i] = ps[i]
      BY <1>1, <2>1, ExtendIs
    <3> HIDE DEF vs
    <3>5. ps[n] \o Append(u, x) = Append(ps[n] \o u, x)
      BY <1>1, ListIs, TextAppend
    <3>6. \A i \in 1 .. n : rs[i] = vs[i] BY <3>1, <3>3, <3>4, <3>5
    <3>7. rs = vs BY <3>3, <3>4, <3>6, SameList DEF Lists
    <3>8. QED BY <3>7 DEF vs
  <2>9. QED BY <2>7, <2>8
<1>4. P = Text
  <2>1. P \in SUBSET Text OBVIOUS
  <2> HIDE DEF P
  <2>2. QED BY <1>2, <1>3, <2>1, InductionOnText
<1>5. QED BY <1>4

LEMMA SplitPlain ==
  ASSUME NEW a, NEW most \in Nat, NEW t \in Text, ~Has(t, a) \/ most = 0
  PROVE  Split(t, a, most) = <<t>>
<1> DEFINE ps == << <<>> >>
<1>1. <<>> \in Text /\ <<>> \o t = t BY AtomIs, TextConcat
<1>2. ps \in Lists /\ Len(ps) = 1 BY <1>1 DEF Lists
<1>3. Split(<<>>, a, most) = ps BY SplitStep
<1>4. ~Has(t, a) \/ Len(Split(<<>>, a, most)) > most BY <1>2, <1>3
<1>5. Split(<<>> \o t, a, most) = Extend(Split(<<>>, a, most), t)
  BY <1>1, <1>4, SplitMore
<1>6. Split(t, a, most) = Extend(ps, t) BY <1>1, <1>3, <1>5
<1>7. Extend(ps, t) = <<t>> BY <1>1 DEF Extend
<1>8. QED BY <1>6, <1>7

LEMMA SplitSeparator ==
  ASSUME NEW most \in Nat, NEW s \in Text, NEW a \in Atoms,
         Len(Split(s, a, most)) <= most
  PROVE  Split(Append(s, a), a, most) = Append(Split(s, a, most), <<>>)
<1>1. Split(Append(s, a), a, most) = Piece(Split(s, a, most), a, a, most) BY SplitStep
<1>2. QED BY <1>1 DEF Piece

\* What precedes the first separator is the first piece; the rest is split on its own.
LEMMA SplitFirst ==
  ASSUME NEW a \in Atoms, NEW most \in Nat \ {0}, NEW t \in Text, ~Has(t, a),
         NEW r \in Text
  PROVE  Split((t \o <<a>>) \o r, a, most) = <<t>> \o Split(r, a, most - 1)
<1> DEFINE h == t \o <<a>>
           P == {u \in Text : Split(h \o u, a, most) = <<t>> \o Split(u, a, most - 1)}
<1>1. h \in Text /\ h = Append(t, a) BY TextAppend
<1>2. <<t>> \in Seq(Text) /\ most - 1 \in Nat OBVIOUS
<1>3. <<>> \in P
  <2>1. Split(t, a, most) = <<t>> BY SplitPlain
  <2>2. Split(h, a, most) = Append(<<t>>, <<>>)
    <3>1. Len(<<t>>) <= most OBVIOUS
    <3>2. QED BY <1>1, <2>1, <3>1, SplitSeparator
  <2>3. Split(<<>>, a, most - 1) = << <<>> >> BY <1>2, SplitStep
  <2>4. h \o <<>> = h /\ <<>> \in Text BY <1>1, TextConcat, AtomIs
  <2>5. Append(<<t>>, <<>>) = <<t>> \o << <<>> >> OBVIOUS
  <2> HIDE DEF h
  <2>6. QED BY <2>2, <2>3, <2>4, <2>5
<1>4. ASSUME NEW u \in P, NEW x \in Atoms PROVE Append(u, x) \in P
  <2> DEFINE ps == Split(u, a, most - 1)
             qs == Piece(ps, x, a, most - 1)
             vs == <<t>> \o ps
             ws == Piece(vs, x, a, most)
  <2>1. /\ h \o u \in Text /\ Append(u, x) \in Text
        /\ h \o Append(u, x) = Append(h \o u, x)
    <3>1. u \in Text OBVIOUS
    <3> HIDE DEF h, P
    <3>2. h \o u \in Text BY <1>1, <3>1, TextConcat
    <3>3. Append(u, x) \in Text BY <3>1, TextAppend
    <3>4. h \o Append(u, x) = Append(h \o u, x) BY <1>1, <3>1, TextAppend
    <3>5. QED BY <3>2, <3>3, <3>4
  <2>2. Split(h \o Append(u, x), a, most) = ws
    <3>1. Split(h \o u, a, most) = vs OBVIOUS
    <3> HIDE DEF h, vs
    <3>2. Split(Append(h \o u, x), a, most) = Piece(Split(h \o u, a, most), x, a, most)
      BY <2>1, SplitStep
    <3>3. QED BY <2>1, <3>1, <3>2
  <2>3. Split(Append(u, x), a, most - 1) = qs /\ ps \in Lists BY <1>2, SplitStep
  <2>4. ws = <<t>> \o qs
    <3> HIDE DEF ps
    <3> DEFINE n == Len(ps)
    <3>1. ps \in Seq(Text) /\ n \in Nat \ {0} BY <2>3, ListIs
    <3>2. /\ vs \in Seq(Text) /\ Len(vs) = n + 1 /\ vs[1] = t
          /\ \A i \in 1 .. n : vs[i + 1] = ps[i]
      BY <3>1
    <3>3. vs \in Lists BY <3>2, <3>1 DEF Lists
    <3> HIDE DEF vs
    <3>4. qs \in Lists /\ ws \in Lists BY <1>2, <2>3, <3>3, PieceIs
    <3>5. CASE x = a /\ n <= most - 1
      <4>1. qs = Append(ps, <<>>) /\ Len(qs) = n + 1 BY <1>2, <2>3, <3>5, PieceIs
      <4>2. x = a /\ Len(vs) <= most BY <3>1, <3>2, <3>5
      <4>3. ws = Append(vs, <<>>) BY <3>3, <4>2, PieceIs
      <4> HIDE DEF qs, ws
      <4>4. Append(<<t>> \o ps, <<>>) = <<t>> \o Append(ps, <<>>)
        <5>1. <<>> \in Text BY AtomIs
        <5>2. QED BY <3>1, <5>1
      <4>5. QED BY <4>1, <4>3, <4>4 DEF vs
    <3>6. CASE ~(x = a /\ n <= most - 1)
      <4>1. /\ Len(qs) = n /\ qs[n] = Append(ps[n], x)
            /\ \A i \in 1 .. n : i # n => qs[i] = ps[i]
        BY <1>2, <2>3, <3>6, PieceIs
      <4>2. ~(x = a /\ Len(vs) <= most) BY <3>1, <3>2, <3>6
      <4>3. /\ Len(ws) = n + 1 /\ ws[n + 1] = Append(vs[n + 1], x)
            /\ \A i \in 1 .. n + 1 : i # n + 1 => ws[i] = vs[i]
        BY <3>2, <3>3, <4>2, PieceIs
      <4> HIDE DEF qs, ws
      <4>4. qs \in Seq(Text) /\ ws \in Seq(Text) BY <3>4 DEF Lists
      <4>5. /\ <<t>> \o qs \in Seq(Text) /\ Len(<<t>> \o qs) = n + 1
            /\ (<<t>> \o qs)[1] = t /\ \A i \in 1 .. n : (<<t>> \o qs)[i + 1] = qs[i]
        BY <3>1, <4>1, <4>4
      <4>6. ASSUME NEW i \in 1 .. n + 1 PROVE ws[i] = (<<t>> \o qs)[i]
        <5>1. CASE i = 1 BY <3>1, <3>2, <4>3, <4>5, <5>1
        <5>2. CASE i # 1
          <6>1. i - 1 \in 1 .. n /\ (i - 1) + 1 = i BY <3>1, <5>2
          <6>2. vs[i] = ps[i - 1] /\ (<<t>> \o qs)[i] = qs[i - 1] BY <3>2, <4>5, <6>1
          <6>3. CASE i = n + 1
            <7>1. i - 1 = n BY <3>1, <6>3
            <7>2. QED BY <4>1, <4>3, <6>2, <6>3, <7>1
          <6>4. CASE i # n + 1
            <7>1. i - 1 # n BY <3>1, <6>4
            <7>2. QED BY <4>1, <4>3, <6>1, <6>2, <6>4, <7>1
          <6>5. QED BY <6>3, <6>4
        <5>3. QED BY <5>1, <5>2
      <4>7. QED BY <4>3, <4>4, <4>5, <4>6, SameList
    <3>7. QED BY <3>5, <3>6
  <2> HIDE DEF h, ws, qs
  <2>5. QED BY <2>1, <2>2, <2>3, <2>4
<1>5. P = Text
  <2>1. P \in SUBSET Text OBVIOUS
  <2> HIDE DEF P
  <2>2. QED BY <1>3, <1>4, <2>1, InductionOnText
<1>6. QED BY <1>5

\* A limit that no separator reaches makes no difference.
LEMMA SplitMost ==
  ASSUME NEW a, NEW m \in Nat, NEW k \in Nat, NEW s \in Text,
         Len(s) <= m, Len(s) <= k
  PROVE  Split(s, a, m) = Split(s, a, k)
<1> DEFINE P == {u \in Text : Len(u) <= m /\ Len(u) <= k =>
                                Split(u, a, m) = Split(u, a, k)}
<1>1. <<>> \in P BY SplitStep, AtomIs
<1>2. ASSUME NEW u \in P, NEW x \in Atoms PROVE Append(u, x) \in P
  <2>1. Len(Append(u, x)) = Len(u) + 1 /\ Append(u, x) \in Text /\ Len(u) \in Nat
    BY AppendProperties, AtomIs DEF Text
  <2>2. SUFFICES ASSUME Len(u) + 1 <= m, Len(u) + 1 <= k
                 PROVE  Split(Append(u, x), a, m) = Split(Append(u, x), a, k)
    BY <2>1
  <2> DEFINE ps == Split(u, a, m)
  <2>3. ps = Split(u, a, k) BY <2>1, <2>2
  <2>4. Len(ps) <= Len(u) + 1 /\ ps \in Lists BY SplitPieces, SplitStep
  <2>5. Len(ps) <= m /\ Len(ps) <= k BY <2>1, <2>2, <2>4, ListIs
  <2>6. Piece(ps, x, a, m) = Piece(ps, x, a, k) BY <2>5 DEF Piece
  <2>7. QED BY <2>3, <2>6, SplitStep, ZenonT(60)
<1>3. P = Text
  <2>1. P \in SUBSET Text OBVIOUS
  <2> HIDE DEF P
  <2>2. QED BY <1>1, <1>2, <2>1, InductionOnText
<1>4. QED BY <1>3

\* The first separator.
LEMMA FirstSeparator ==
  ASSUME NEW a \in Atoms, NEW s \in Text, Has(s, a)
  PROVE  \E t \in Text, r \in Text : ~Has(t, a) /\ s = (t \o <<a>>) \o r
<1> DEFINE P == {u \in Text : Has(u, a) =>
                   \E t \in Text, r \in Text : ~Has(t, a) /\ u = (t \o <<a>>) \o r}
<1>1. <<>> \in P BY AtomIs DEF Has
<1>2. ASSUME NEW u \in P, NEW x \in Atoms PROVE Append(u, x) \in P
  <2>1. Append(u, x) \in Text BY TextAppend
  <2>2. SUFFICES ASSUME Has(Append(u, x), a)
                 PROVE  \E t \in Text, r \in Text :
                          ~Has(t, a) /\ Append(u, x) = (t \o <<a>>) \o r
    BY <2>1
  <2>3. CASE Has(u, a)
    <3>1. PICK t \in Text, r \in Text : ~Has(t, a) /\ u = (t \o <<a>>) \o r BY <2>3
    <3>2. t \o <<a>> \in Text /\ Append(r, x) \in Text BY TextAppend, TextConcat
    <3>3. (t \o <<a>>) \o Append(r, x) = Append((t \o <<a>>) \o r, x)
      BY <3>2, TextAppend
    <3>4. QED BY <3>1, <3>2, <3>3
  <2>4. CASE ~Has(u, a)
    <3>1. x = a BY <2>2, <2>4, HasAppend
    <3>2. Append(u, x) = u \o <<a>> BY <3>1, TextAppend
    <3>3. (u \o <<a>>) \o <<>> = u \o <<a>> /\ <<>> \in Text
      BY TextAppend, TextConcat, AtomIs
    <3>4. QED BY <2>4, <3>2, <3>3
  <2>5. QED BY <2>3, <2>4
<1>3. P = Text
  <2>1. P \in SUBSET Text OBVIOUS
  <2> HIDE DEF P
  <2>2. QED BY <1>1, <1>2, <2>1, InductionOnText
<1>4. QED BY <1>3

-----------------------------------------------------------------------------
(* Join *)

Joined(t, u, a) == (t \o <<a>>) \o u

\* Join before the first separator is taken off.
LEMMA JoinStep ==
  ASSUME NEW a \in Atoms
  PROVE  \E J \in [Seq(Text) -> Text] :
           /\ J[<<>>] = <<>>
           /\ \A ss \in Seq(Text) : Join(ss, a) = Tail(J[ss])
           /\ \A ss \in Seq(Text), t \in Text : J[Append(ss, t)] = Joined(J[ss], t, a)
<1> DEFINE G(s) == CHOOSE f : f = [i \in 0 .. Len(s) |->
                                     IF i = 0 THEN <<>> ELSE Joined(f[i - 1], s[i], a)]
           J == [ss \in Seq(Text) |-> G(ss)[Len(ss)]]
<1>1. ASSUME NEW s PROVE Join(s, a) = Tail(G(s)[Len(s)]) BY DEF Join, Joined
<1>2. \A t \in Text, u \in Text : Joined(t, u, a) \in Text
  <2>1. \A t \in Text : t \o <<a>> \in Text BY TextAppend
  <2>2. QED BY <2>1, TextConcat DEF Joined
<1>3. ASSUME NEW s \in Seq(Text)
      PROVE  G(s) = [i \in 0 .. Len(s) |->
                       IF i = 0 THEN <<>> ELSE Joined(G(s)[i - 1], s[i], a)]
  <2> DEFINE step == [t \in Text |-> [u \in Text |-> Joined(t, u, a)]]
  <2>1. step \in [Text -> [Text -> Text]]
    <3> HIDE DEF G, J
    <3>1. QED BY <1>2
  <2>2. PICK f : IsRun(f, Text, <<>>, step, s)
    <3>1. <<>> \in Text BY AtomIs
    <3> HIDE DEF step, G, J
    <3>2. QED BY <2>1, <3>1, RunExists
  <2>3. ASSUME NEW i \in 1 .. Len(s) PROVE f[i] = Joined(f[i - 1], s[i], a)
    <3> HIDE DEF G, J
    <3>1. f[i - 1] \in Text /\ s[i] \in Text BY <2>2 DEF IsRun
    <3>2. step[f[i - 1]][s[i]] = Joined(f[i - 1], s[i], a) BY <3>1
    <3>3. f[i] = step[f[i - 1]][s[i]] BY <2>2 DEF IsRun
    <3>4. QED BY <3>2, <3>3
  <2>4. f = [i \in 0 .. Len(s) |->
               IF i = 0 THEN <<>> ELSE Joined(f[i - 1], s[i], a)]
    <3> HIDE DEF G, step, J
    <3>1. Len(s) \in Nat OBVIOUS
    <3>2. QED BY <2>2, <2>3, <3>1 DEF IsRun
  <2>5. QED BY <2>4
<1> HIDE DEF G
<1>4. ASSUME NEW s \in Seq(Text)
      PROVE  /\ G(s)[0] = <<>>
             /\ \A i \in 1 .. Len(s) : G(s)[i] = Joined(G(s)[i - 1], s[i], a)
             /\ \A i \in 0 .. Len(s) : G(s)[i] \in Text
  <2>1. Len(s) \in Nat /\ \A i \in 1 .. Len(s) : s[i] \in Text OBVIOUS
  <2>2. /\ G(s)[0] = <<>>
        /\ \A i \in 1 .. Len(s) : G(s)[i] = Joined(G(s)[i - 1], s[i], a)
    <3> HIDE DEF J
    <3>1. QED BY <1>3, <2>1
  <2>3. \A i \in 1 .. Len(s) : G(s)[i - 1] \in Text => G(s)[i] \in Text
    BY <1>2, <2>1, <2>2
  <2>4. G(s)[0] \in Text BY <2>2, AtomIs
  <2>5. \A i \in 0 .. Len(s) : G(s)[i] \in Text BY <2>1, <2>3, <2>4, RunStays
  <2>6. QED BY <2>2, <2>5
<1>5. J \in [Seq(Text) -> Text]
  <2>1. ASSUME NEW ss \in Seq(Text) PROVE G(ss)[Len(ss)] \in Text
    <3>1. Len(ss) \in 0 .. Len(ss) OBVIOUS
    <3>2. QED BY <1>4, <3>1
  <2>2. QED BY <2>1
<1>6. J[<<>>] = <<>>
  <2>1. <<>> \in Seq(Text) /\ Len(<<>>) = 0 OBVIOUS
  <2>2. QED BY <1>4, <2>1
<1>7. ASSUME NEW s \in Seq(Text), NEW x \in Text
      PROVE  J[Append(s, x)] = Joined(J[s], x, a)
  <2> DEFINE t == Append(s, x)
  <2>1. /\ t \in Seq(Text) /\ Len(t) = Len(s) + 1 /\ t[Len(t)] = x
        /\ \A i \in 1 .. Len(s) : t[i] = s[i]
    BY AppendProperties
  <2>2. Len(s) \in Nat OBVIOUS
  <2> HIDE DEF t
  <2>3. \A i \in 1 .. Len(s) : G(s)[i - 1] = G(t)[i - 1] => G(s)[i] = G(t)[i]
    <3> HIDE DEF J
    <3>1. SUFFICES ASSUME NEW i \in 1 .. Len(s), G(s)[i - 1] = G(t)[i - 1]
                   PROVE  G(s)[i] = G(t)[i]
      OBVIOUS
    <3>2. i \in 1 .. Len(t) /\ s[i] = t[i] BY <2>1, <2>2
    <3>3. G(s)[i] = Joined(G(s)[i - 1], s[i], a) BY <1>4
    <3>4. G(t)[i] = Joined(G(t)[i - 1], t[i], a) BY <1>4, <2>1, <3>2
    <3>5. QED BY <3>1, <3>2, <3>3, <3>4
  <2>4. G(s)[0] = G(t)[0] BY <1>4, <2>1
  <2>5. \A i \in 0 .. Len(s) : G(s)[i] = G(t)[i] BY <2>2, <2>3, <2>4, SameRun, ZenonT(60)
  <2>6. G(t)[Len(t)] = Joined(G(s)[Len(s)], x, a)
    <3>1. G(t)[Len(t)] = Joined(G(t)[Len(t) - 1], t[Len(t)], a)
      <4>1. Len(t) \in 1 .. Len(t) BY <2>1, <2>2
      <4> HIDE DEF J
      <4>2. QED BY <1>4, <2>1, <4>1
    <3>2. G(t)[Len(s)] = G(s)[Len(s)] BY <2>2, <2>5
    <3>3. Len(t) - 1 = Len(s) BY <2>1, <2>2
    <3>4. QED BY <2>1, <3>1, <3>2, <3>3
  <2>7. QED BY <2>1, <2>6 DEF t
<1>8. QED
  <2>1. \A ss \in Seq(Text) : Join(ss, a) = Tail(J[ss]) BY <1>1
  <2> HIDE DEF J
  <2>2. QED BY <1>5, <1>6, <1>7, <2>1

LEMMA JoinOne ==
  ASSUME NEW a \in Atoms, NEW t \in Text
  PROVE  Join(<<t>>, a) = t
<1>1. PICK J \in [Seq(Text) -> Text] :
        /\ J[<<>>] = <<>>
        /\ \A ss \in Seq(Text) : Join(ss, a) = Tail(J[ss])
        /\ \A ss \in Seq(Text), u \in Text : J[Append(ss, u)] = Joined(J[ss], u, a)
  BY JoinStep
<1>2. <<>> \in Seq(Text) /\ <<t>> \in Seq(Text) /\ Append(<<>>, t) = <<t>> OBVIOUS
<1>3. J[<<t>>] = (<<>> \o <<a>>) \o t BY <1>1, <1>2 DEF Joined
<1>4. <<a>> \in Text /\ <<>> \o <<a>> = <<a>> BY TextAppend, TextConcat, AtomIs
<1>5. Tail(<<a>> \o t) = t BY DEF Text
<1>6. QED BY <1>1, <1>2, <1>3, <1>4, <1>5

LEMMA JoinMore ==
  ASSUME NEW a \in Atoms, NEW ss \in Seq(Text), ss # <<>>, NEW t \in Text
  PROVE  /\ Join(ss, a) \in Text
         /\ Join(Append(ss, t), a) = (Join(ss, a) \o <<a>>) \o t
<1>1. PICK J \in [Seq(Text) -> Text] :
        /\ J[<<>>] = <<>>
        /\ \A qs \in Seq(Text) : Join(qs, a) = Tail(J[qs])
        /\ \A qs \in Seq(Text), u \in Text : J[Append(qs, u)] = Joined(J[qs], u, a)
  BY JoinStep
<1>2. PICK qs \in Seq(Text), u \in Text : ss = Append(qs, u)
  BY SequenceEmptyOrAppend
<1>3. J[ss] = (J[qs] \o <<a>>) \o u BY <1>1, <1>2 DEF Joined
<1>4. J[ss] # <<>> /\ J[ss] \in Text
  <2>1. J[qs] \in Text BY <1>1
  <2>2. J[qs] \o <<a>> = Append(J[qs], a) /\ Append(J[qs], a) \in Text
    BY <2>1, TextAppend
  <2>3. Len(Append(J[qs], a)) = Len(J[qs]) + 1 BY <2>1, AppendProperties DEF Text
  <2>4. Len(J[ss]) = Len(J[qs]) + 1 + Len(u) BY <1>3, <2>2, <2>3, TextConcat
  <2>5. Len(J[qs]) \in Nat /\ Len(u) \in Nat /\ Len(<<>>) = 0 BY <2>1, AtomIs
  <2>6. QED BY <1>1, <2>4, <2>5
<1>5. Join(ss, a) = Tail(J[ss]) /\ Tail(J[ss]) \in Text BY <1>1, <1>4 DEF Text
<1>6. Join(Append(ss, t), a) = Tail(J[Append(ss, t)])
  <2>1. Append(ss, t) \in Seq(Text) BY AppendProperties
  <2>2. QED BY <1>1, <2>1
<1>7. J[Append(ss, t)] = (J[ss] \o <<a>>) \o t BY <1>1 DEF Joined
<1>8. ASSUME NEW v \in Text, v # <<>>, NEW w \in Text
      PROVE  Tail(v \o w) = Tail(v) \o w
  BY <1>8 DEF Text
<1>9. /\ <<a>> \in Text /\ J[ss] \o <<a>> \in Text
      /\ Tail(J[ss] \o <<a>>) = Tail(J[ss]) \o <<a>>
  BY <1>4, <1>8, TextAppend, TextConcat
<1>10. J[ss] \o <<a>> # <<>>
  <2>1. Len(J[ss] \o <<a>>) = Len(J[ss]) + Len(<<a>>) BY <1>4, <1>9, TextConcat
  <2>2. Len(J[ss]) \in Nat /\ Len(<<a>>) = 1 BY <1>4, AtomIs
  <2>3. QED BY <2>1, <2>2
<1>11. Tail((J[ss] \o <<a>>) \o t) = (Tail(J[ss]) \o <<a>>) \o t
  BY <1>8, <1>9, <1>10
<1>12. QED BY <1>5, <1>6, <1>7, <1>11

-----------------------------------------------------------------------------
(* Texts over some of the atoms *)

LEMMA TextOver ==
  ASSUME NEW A \in SUBSET Atoms
  PROVE  /\ Seq(A) \subseteq Text /\ <<>> \in Seq(A)
         /\ \A s \in Text : s \in Seq(A) <=> \A i \in 1 .. Len(s) : s[i] \in A
         /\ \A s \in Text, x \in Atoms : Append(s, x) \in Seq(A) <=> s \in Seq(A) /\ x \in A
         /\ \A s \in Seq(A), t \in Seq(A) : s \o t \in Seq(A)
         /\ \A x \in A : <<x>> \in Seq(A)
<1>1. \A s \in Text : s \in Seq(A) <=> \A i \in 1 .. Len(s) : s[i] \in A
  BY DEF Text
<1>2. ASSUME NEW s \in Text, NEW x \in Atoms
      PROVE  Append(s, x) \in Seq(A) <=> s \in Seq(A) /\ x \in A
  <2>1. /\ Append(s, x) \in Text /\ Len(Append(s, x)) = Len(s) + 1
        /\ Append(s, x)[Len(s) + 1] = x
        /\ \A i \in 1 .. Len(s) : Append(s, x)[i] = s[i]
    BY TextAppend, AppendProperties DEF Text
  <2>2. Len(s) \in Nat BY AtomIs
  <2>3. (\A i \in 1 .. Len(s) + 1 : Append(s, x)[i] \in A)
          <=> (\A i \in 1 .. Len(s) : s[i] \in A) /\ x \in A
    BY <2>1, <2>2
  <2>4. QED BY <1>1, <2>1, <2>3
<1>3. \A s \in Seq(A), t \in Seq(A) : s \o t \in Seq(A) BY ConcatProperties
<1>4. Seq(A) \subseteq Text BY DEF Text
<1>5. <<>> \in Seq(A) /\ \A x \in A : <<x>> \in Seq(A) OBVIOUS
<1>6. QED BY <1>1, <1>2, <1>3, <1>4, <1>5

LEMMA HasNone ==
  ASSUME NEW s \in Text, NEW a
  PROVE  ~Has(s, a) <=> s \in Seq(Atoms \ {a})
<1>1. (Atoms \ {a}) \in SUBSET Atoms OBVIOUS
<1>2. s \in Seq(Atoms \ {a}) <=> \A i \in 1 .. Len(s) : s[i] \in Atoms \ {a}
  BY <1>1, TextOver
<1>3. /\ \A i \in 1 .. Len(s) : s[i] \in Atoms
      /\ DOMAIN s = 1 .. Len(s)
  BY AtomIs
<1>4. QED BY <1>2, <1>3 DEF Has

\* What Cut leaves of a text has the atoms of the text, whole or cut.
LEMMA CutOver ==
  ASSUME NEW A \in SUBSET Atoms, NEW s \in Seq(A), NEW max \in Nat,
         \A x \in A, y \in Atoms : y.w = x.w /\ y.c = x.c => y \in A
  PROVE  Cut(s, max) \in Seq(A)
<1>1. s \in Text /\ Cut(s, max) \in Text BY TextOver, CutStep
<1>2. ASSUME NEW i \in 1 .. Len(Cut(s, max)) PROVE Cut(s, max)[i] \in A
  <2>1. Cut(s, max)[i] \in Atoms BY <1>1, AtomIs
  <2>2. i \in 1 .. Len(s) BY <1>1, CutAtoms, AtomIs
  <2>3. s[i] \in A BY <1>1, <2>2, TextOver
  <2>4. Cut(s, max)[i].w = s[i].w /\ Cut(s, max)[i].c = s[i].c BY <1>1, CutAtoms
  <2>5. QED BY <2>1, <2>3, <2>4
<1>3. QED BY <1>1, <1>2, TextOver

\* No separator appears where one was not.
LEMMA CutHasNone ==
  ASSUME NEW s \in Text, ~Has(s, Hash), NEW max \in Nat
  PROVE  ~Has(Cut(s, max), Hash)
<1> DEFINE A == Atoms \ {Hash}
<1>1. A \in SUBSET Atoms /\ s \in Seq(A) BY HasNone
<1>2. ASSUME NEW x \in A, NEW y \in Atoms, y.w = x.w PROVE y \in A
  <2>1. x.w # "#" BY DEF Atoms
  <2>2. Hash.w = "#" BY MarksAre
  <2>3. QED BY <1>2, <2>1, <2>2
<1> HIDE DEF A
<1>3. Cut(s, max) \in Seq(A) BY <1>1, <1>2, CutOver
<1>4. QED BY <1>3, CutStep, HasNone DEF A

LEMMA SplitOver ==
  ASSUME NEW A \in SUBSET Atoms, NEW s \in Seq(A), NEW a, NEW most \in Nat
  PROVE  \A i \in 1 .. Len(Split(s, a, most)) : Split(s, a, most)[i] \in Seq(A)
<1> DEFINE Good(ps) == \A i \in 1 .. Len(ps) : ps[i] \in Seq(A)
           P == {u \in Text : u \in Seq(A) => Good(Split(u, a, most))}
<1>1. <<>> \in P
  <2>1. <<>> \in Text /\ <<>> \in Seq(A) BY AtomIs, TextOver
  <2> DEFINE b == << <<>> >>
  <2>2. Len(b) = 1 /\ b[1] = <<>> OBVIOUS
  <2>3. Split(<<>>, a, most) = b BY SplitStep
  <2> HIDE DEF b
  <2>4. Good(b)
    <3>1. \A i \in 1 .. 1 : b[i] = <<>> BY <2>2
    <3>2. \A i \in 1 .. 1 : b[i] \in Seq(A) BY <2>1, <3>1
    <3>3. QED BY <2>2, <3>2, Zenon
  <2>5. QED BY <2>1, <2>3, <2>4
<1>2. ASSUME NEW u \in P, NEW x \in Atoms PROVE Append(u, x) \in P
  <2> DEFINE ps == Split(u, a, most)
             n == Len(ps)
             qs == Piece(ps, x, a, most)
  <2>1. Append(u, x) \in Text /\ ps \in Lists /\ Split(Append(u, x), a, most) = qs
    BY TextAppend, SplitStep
  <2>2. SUFFICES ASSUME Append(u, x) \in Seq(A) PROVE Good(qs)
    BY <2>1
  <2>3. u \in Seq(A) /\ x \in A BY <2>2, TextOver
  <2>4. Good(ps) BY <2>3
  <2> HIDE DEF ps
  <2>5. CASE x = a /\ n <= most
    <3>1. Len(qs) = n + 1 /\ qs[n + 1] = <<>> /\ \A i \in 1 .. n : qs[i] = ps[i]
      BY <2>1, <2>5, PieceIs
    <3>2. <<>> \in Seq(A) /\ n \in Nat BY <2>1, ListIs, TextOver
    <3> HIDE DEF qs
    <3>3. ASSUME NEW i \in 1 .. Len(qs) PROVE qs[i] \in Seq(A)
      <4>1. CASE i = n + 1 BY <3>1, <3>2, <4>1
      <4>2. CASE i # n + 1
        <5>1. i \in 1 .. n BY <3>1, <3>2, <4>2
        <5>2. QED BY <2>4, <3>1, <5>1
      <4>3. QED BY <4>1, <4>2
    <3>4. QED BY <3>3
  <2>6. CASE ~(x = a /\ n <= most)
    <3>1. /\ Len(qs) = n /\ qs[n] = Append(ps[n], x)
          /\ \A i \in 1 .. n : i # n => qs[i] = ps[i]
      BY <2>1, <2>6, PieceIs
    <3>2. n \in 1 .. n BY <2>1, ListIs
    <3>3. ps[n] \in Seq(A) BY <2>4, <3>2
    <3>4. Append(ps[n], x) \in Seq(A) BY <2>3, <3>3, AppendProperties
    <3> HIDE DEF qs
    <3>5. QED BY <2>4, <3>1, <3>4
  <2>7. QED BY <2>5, <2>6
<1>3. P = Text
  <2>1. P \in SUBSET Text OBVIOUS
  <2> HIDE DEF P
  <2>2. QED BY <1>1, <1>2, <2>1, InductionOnText
<1>4. s \in Text BY TextOver
<1>5. QED BY <1>3, <1>4

\* A piece is no longer than the text.
LEMMA SplitLengths ==
  ASSUME NEW s \in Text, NEW a, NEW most \in Nat
  PROVE  \A i \in 1 .. Len(Split(s, a, most)) : Length(Split(s, a, most)[i]) <= Length(s)
<1> DEFINE Good(ps, k) == \A i \in 1 .. Len(ps) : Length(ps[i]) <= k
           P == {u \in Text : Good(Split(u, a, most), Length(u))}
<1>1. <<>> \in P
  <2>1. <<>> \in Text /\ Length(<<>>) = 0 BY AtomIs, LengthStep
  <2>2. Good(<< <<>> >>, 0) BY <2>1
  <2>3. QED BY <2>1, <2>2, SplitStep
<1>2. ASSUME NEW u \in P, NEW x \in Atoms PROVE Append(u, x) \in P
  <2> DEFINE ps == Split(u, a, most)
             n == Len(ps)
             qs == Piece(ps, x, a, most)
             k == Length(u)
  <2>1. Append(u, x) \in Text /\ ps \in Lists /\ Split(Append(u, x), a, most) = qs
    BY TextAppend, SplitStep
  <2>2. Length(Append(u, x)) = k + x.n /\ k \in Nat /\ x.n \in Nat
    BY LengthStep, AtomIs
  <2>3. Good(ps, k) OBVIOUS
  <2> HIDE DEF ps
  <2>4. \A i \in 1 .. n : Length(ps[i]) \in Nat BY <2>1, ListIs, LengthIsNat
  <2>5. Good(qs, k + x.n)
    <3>1. CASE x = a /\ n <= most
      <4>1. Len(qs) = n + 1 /\ qs[n + 1] = <<>> /\ \A i \in 1 .. n : qs[i] = ps[i]
        BY <2>1, <3>1, PieceIs
      <4>2. n \in Nat /\ Length(<<>>) = 0 BY <2>1, ListIs, LengthStep
      <4> HIDE DEF qs, k
      <4>3. QED BY <2>2, <2>3, <2>4, <4>1, <4>2
    <3>2. CASE ~(x = a /\ n <= most)
      <4>1. /\ Len(qs) = n /\ qs[n] = Append(ps[n], x)
            /\ \A i \in 1 .. n : i # n => qs[i] = ps[i]
        BY <2>1, <3>2, PieceIs
      <4>2. n \in 1 .. n /\ ps[n] \in Text BY <2>1, ListIs
      <4>3. Length(Append(ps[n], x)) = Length(ps[n]) + x.n BY <4>2, LengthStep
      <4> HIDE DEF qs, k, P
      <4>4. ASSUME NEW i \in 1 .. Len(qs) PROVE Length(qs[i]) <= k + x.n
        <5>1. i \in 1 .. n BY <4>1, <4>4
        <5>2. Length(ps[i]) <= k /\ Length(ps[i]) \in Nat BY <2>3, <2>4, <5>1
        <5>3. CASE i = n
          <6>1. Length(qs[n]) = Length(ps[n]) + x.n BY <4>1, <4>3
          <6>2. Length(ps[n]) <= k /\ Length(ps[n]) \in Nat BY <5>2, <5>3
          <6>3. Length(qs[n]) <= k + x.n BY <2>2, <6>1, <6>2
          <6>4. QED BY <5>3, <6>3
        <5>4. CASE i # n BY <2>2, <4>1, <5>1, <5>2, <5>4
        <5>5. QED BY <5>3, <5>4
      <4>5. QED BY <4>4
    <3>3. QED BY <3>1, <3>2
  <2>6. QED BY <2>1, <2>2, <2>5
<1>3. P = Text
  <2>1. P \in SUBSET Text OBVIOUS
  <2> HIDE DEF P
  <2>2. QED BY <1>1, <1>2, <2>1, InductionOnText
<1>4. QED BY <1>3

-----------------------------------------------------------------------------
(* Split of what Join joins *)

LEMMA ListConcat ==
  ASSUME NEW ps \in Seq(Text), NEW qs \in Seq(Text)
  PROVE  /\ ps \o qs \in Seq(Text) /\ Len(ps \o qs) = Len(ps) + Len(qs)
         /\ \A i \in 1 .. Len(ps) : (ps \o qs)[i] = ps[i]
         /\ \A i \in 1 .. Len(qs) : (ps \o qs)[Len(ps) + i] = qs[i]
<1>1. ps \o qs \in Seq(Text) /\ Len(ps \o qs) = Len(ps) + Len(qs)
  BY ConcatProperties
<1>2. \A i \in 1 .. Len(ps) : (ps \o qs)[i] = ps[i] BY ConcatProperties
<1>3. ASSUME NEW i \in 1 .. Len(qs) PROVE (ps \o qs)[Len(ps) + i] = qs[i]
  <2>1. /\ Len(ps) \in Nat /\ Len(ps) + i \in 1 .. Len(ps) + Len(qs)
        /\ ~(Len(ps) + i <= Len(ps)) /\ (Len(ps) + i) - Len(ps) = i
    OBVIOUS
  <2>2. QED BY <2>1, ConcatProperties
<1>4. QED BY <1>1, <1>2, <1>3

LEMMA PieceConcat ==
  ASSUME NEW ps \in Lists, NEW qs \in Lists, NEW x \in Atoms, NEW a, NEW most \in Nat,
         Len(ps) + Len(qs) <= most
  PROVE  Piece(ps \o qs, x, a, most) = ps \o Piece(qs, x, a, most)
<1> DEFINE n == Len(ps)
           k == Len(qs)
           us == ps \o qs
           ws == Piece(qs, x, a, most)
           vs == Piece(us, x, a, most)
<1>1. n \in Nat \ {0} /\ k \in Nat \ {0} BY ListIs
<1>2. ps \in Seq(Text) /\ qs \in Seq(Text) BY DEF Lists
<1>3. /\ us \in Seq(Text) /\ Len(us) = n + k
      /\ \A i \in 1 .. n : us[i] = ps[i]
      /\ \A i \in 1 .. k : us[n + i] = qs[i]
  BY <1>2, ListConcat
<1> HIDE DEF us
<1>4. us \in Lists BY <1>1, <1>3 DEF Lists
<1>5. ws \in Lists /\ vs \in Lists BY <1>4, PieceIs
<1>6. ws \in Seq(Text) /\ vs \in Seq(Text) BY <1>5 DEF Lists
<1>7. Len(qs) <= most /\ Len(us) <= most BY <1>1, <1>3
<1>8. CASE x = a
  <2>1. /\ Len(ws) = k + 1 /\ ws[k + 1] = <<>> /\ \A i \in 1 .. k : ws[i] = qs[i]
    BY <1>7, <1>8, PieceIs
  <2>2. /\ Len(vs) = n + k + 1 /\ vs[n + k + 1] = <<>>
        /\ \A i \in 1 .. n + k : vs[i] = us[i]
    <3>1. /\ Len(vs) = Len(us) + 1 /\ vs[Len(us) + 1] = <<>>
          /\ \A i \in 1 .. Len(us) : vs[i] = us[i]
      BY <1>4, <1>7, <1>8, PieceIs
    <3> HIDE DEF vs
    <3>2. QED BY <1>3, <3>1
  <2> HIDE DEF ws, vs
  <2>3. /\ ps \o ws \in Seq(Text) /\ Len(ps \o ws) = n + (k + 1)
        /\ \A i \in 1 .. n : (ps \o ws)[i] = ps[i]
        /\ \A i \in 1 .. k + 1 : (ps \o ws)[n + i] = ws[i]
    <3>1. /\ ps \o ws \in Seq(Text) /\ Len(ps \o ws) = Len(ps) + Len(ws)
          /\ \A i \in 1 .. Len(ps) : (ps \o ws)[i] = ps[i]
          /\ \A i \in 1 .. Len(ws) : (ps \o ws)[Len(ps) + i] = ws[i]
      BY <1>2, <1>6, ListConcat
    <3>2. QED BY <2>1, <3>1
  <2>4. ASSUME NEW i \in 1 .. n + k + 1 PROVE vs[i] = (ps \o ws)[i]
    <3>1. CASE i \in 1 .. n
      <4>1. i \in 1 .. n + k BY <1>1, <3>1
      <4>2. QED BY <1>3, <2>2, <2>3, <3>1, <4>1
    <3>2. CASE i \in n + 1 .. n + k
      <4>1. i - n \in 1 .. k /\ i - n \in 1 .. k + 1 /\ n + (i - n) = i /\ i \in 1 .. n + k
        BY <1>1, <3>2
      <4>2. vs[i] = qs[i - n] BY <1>3, <2>2, <4>1
      <4>3. (ps \o ws)[i] = qs[i - n] BY <2>1, <2>3, <4>1
      <4>4. QED BY <4>2, <4>3
    <3>3. CASE i = n + k + 1
      <4>1. k + 1 \in 1 .. k + 1 /\ n + (k + 1) = i BY <1>1, <3>3
      <4>2. (ps \o ws)[i] = <<>> BY <2>1, <2>3, <4>1
      <4>3. QED BY <2>2, <3>3, <4>2
    <3>4. i \in 1 .. n \/ i \in n + 1 .. n + k \/ i = n + k + 1 BY <1>1
    <3>5. QED BY <3>1, <3>2, <3>3, <3>4
  <2>5. vs = ps \o ws BY <1>1, <1>6, <2>2, <2>3, <2>4, SameList
  <2>6. QED BY <2>5 DEF vs, ws, us
<1>9. CASE x # a
  <2>1. /\ Len(ws) = k /\ ws[k] = Append(qs[k], x)
        /\ \A i \in 1 .. k : i # k => ws[i] = qs[i]
    BY <1>9, PieceIs
  <2>2. /\ Len(vs) = n + k /\ vs[n + k] = Append(us[n + k], x)
        /\ \A i \in 1 .. n + k : i # n + k => vs[i] = us[i]
    BY <1>3, <1>4, <1>9, PieceIs
  <2> HIDE DEF ws, vs
  <2>3. /\ ps \o ws \in Seq(Text) /\ Len(ps \o ws) = n + k
        /\ \A i \in 1 .. n : (ps \o ws)[i] = ps[i]
        /\ \A i \in 1 .. k : (ps \o ws)[n + i] = ws[i]
    <3>1. /\ ps \o ws \in Seq(Text) /\ Len(ps \o ws) = Len(ps) + Len(ws)
          /\ \A i \in 1 .. Len(ps) : (ps \o ws)[i] = ps[i]
          /\ \A i \in 1 .. Len(ws) : (ps \o ws)[Len(ps) + i] = ws[i]
      BY <1>2, <1>6, ListConcat
    <3>2. QED BY <2>1, <3>1
  <2>4. ASSUME NEW i \in 1 .. n + k PROVE vs[i] = (ps \o ws)[i]
    <3>1. CASE i \in 1 .. n
      <4>1. i # n + k BY <1>1, <3>1
      <4>2. QED BY <1>3, <2>2, <2>3, <3>1, <4>1
    <3>2. CASE i \in n + 1 .. n + k /\ i # n + k
      <4>1. i - n \in 1 .. k /\ i - n # k /\ n + (i - n) = i BY <1>1, <3>2
      <4>2. vs[i] = qs[i - n] BY <1>3, <2>2, <3>2, <4>1
      <4>3. (ps \o ws)[i] = qs[i - n] BY <2>1, <2>3, <4>1
      <4>4. QED BY <4>2, <4>3
    <3>3. CASE i = n + k
      <4>1. k \in 1 .. k BY <1>1
      <4>2. us[n + k] = qs[k] BY <1>3, <4>1
      <4>3. (ps \o ws)[i] = Append(qs[k], x) BY <2>1, <2>3, <3>3, <4>1
      <4>4. QED BY <2>2, <3>3, <4>2, <4>3
    <3>4. i \in 1 .. n \/ (i \in n + 1 .. n + k /\ i # n + k) \/ i = n + k BY <1>1
    <3>5. QED BY <3>1, <3>2, <3>3, <3>4
  <2>5. vs = ps \o ws BY <1>1, <1>6, <2>2, <2>3, <2>4, SameList
  <2>6. QED BY <2>5 DEF vs, ws, us
<1>10. QED BY <1>8, <1>9

\* The text on either side of a separator is split on its own.
LEMMA SplitBoth ==
  ASSUME NEW a \in Atoms, NEW s \in Text, NEW t \in Text, NEW most \in Nat,
         Len(s) + 1 + Len(t) <= most
  PROVE  Split((s \o <<a>>) \o t, a, most) = Split(s, a, most) \o Split(t, a, most)
<1> DEFINE h == s \o <<a>>
           ps == Split(s, a, most)
           P == {u \in Text : Len(s) + 1 + Len(u) <= most =>
                                Split(h \o u, a, most) = ps \o Split(u, a, most)}
<1>1. h \in Text /\ h = Append(s, a) BY TextAppend
<1>2. ps \in Lists /\ Len(ps) <= Len(s) + 1 BY SplitStep, SplitPieces
<1>3. Len(s) \in Nat /\ Len(ps) \in Nat \ {0} BY <1>2, ListIs, AtomIs
<1> HIDE DEF ps, h
<1>4. <<>> \in P
  <2>1. <<>> \in Text /\ Len(<<>>) = 0 /\ h \o <<>> = h BY <1>1, TextConcat, AtomIs
  <2>2. SUFFICES ASSUME Len(s) + 1 <= most
                 PROVE  Split(h, a, most) = ps \o Split(<<>>, a, most)
    BY <1>3, <2>1
  <2>3. Len(ps) <= most BY <1>2, <1>3, <2>2
  <2>4. Split(h, a, most) = Append(ps, <<>>)
    BY <1>1, <2>3, SplitSeparator DEF ps
  <2>5. Split(<<>>, a, most) = << <<>> >> BY SplitStep
  <2>6. Append(ps, <<>>) = ps \o << <<>> >>
    <3>1. ps \in Seq(Text) BY <1>2 DEF Lists
    <3>2. QED BY <2>1, <3>1, AppendIsConcat
  <2>7. QED BY <2>4, <2>5, <2>6
<1>5. ASSUME NEW u \in P, NEW x \in Atoms PROVE Append(u, x) \in P
  <2>1. Append(u, x) \in Text /\ Len(Append(u, x)) = Len(u) + 1 /\ Len(u) \in Nat
    BY TextAppend, AppendProperties, AtomIs DEF Text
  <2>2. SUFFICES ASSUME Len(s) + 1 + (Len(u) + 1) <= most
                 PROVE  Split(h \o Append(u, x), a, most) = ps \o Split(Append(u, x), a, most)
    BY <2>1
  <2> DEFINE qs == Split(u, a, most)
  <2>3. Split(h \o u, a, most) = ps \o qs BY <1>3, <2>1, <2>2
  <2>4. qs \in Lists /\ Len(qs) <= Len(u) + 1 BY SplitStep, SplitPieces
  <2>5. Split(Append(u, x), a, most) = Piece(qs, x, a, most) BY SplitStep
  <2> HIDE DEF qs
  <2>6. h \o u \in Text /\ h \o Append(u, x) = Append(h \o u, x)
    <3>1. u \in Text OBVIOUS
    <3> HIDE DEF P
    <3>2. h \o u \in Text BY <1>1, <3>1, TextConcat
    <3>3. h \o Append(u, x) = Append(h \o u, x) BY <1>1, <3>1, TextAppend
    <3>4. QED BY <3>2, <3>3
  <2>7. Split(h \o Append(u, x), a, most) = Piece(ps \o qs, x, a, most)
    <3> HIDE DEF P
    <3>1. Split(Append(h \o u, x), a, most) = Piece(Split(h \o u, a, most), x, a, most)
      BY <2>6, SplitStep
    <3>2. QED BY <2>3, <2>6, <3>1
  <2>8. Len(ps) + Len(qs) <= most BY <1>2, <1>3, <2>1, <2>2, <2>4, ListIs
  <2>9. Piece(ps \o qs, x, a, most) = ps \o Piece(qs, x, a, most)
    BY <1>2, <2>4, <2>8, PieceConcat
  <2>10. QED BY <2>5, <2>7, <2>9
<1>6. P = Text
  <2>1. P \in SUBSET Text OBVIOUS
  <2> HIDE DEF P
  <2>2. QED BY <1>4, <1>5, <2>1, InductionOnText
<1>7. QED BY <1>6 DEF ps, h

LEMMA InductionOnLists ==
  ASSUME NEW P \in SUBSET Lists, \A t \in Text : <<t>> \in P,
         \A ss \in P, t \in Text : Append(ss, t) \in P
  PROVE  P = Lists
<1> DEFINE Q == {ss \in Seq(Text) : ss # <<>> => ss \in P}
<1>1. <<>> \in Q OBVIOUS
<1>2. ASSUME NEW ss \in Q, NEW t \in Text PROVE Append(ss, t) \in Q
  <2>1. Append(ss, t) \in Seq(Text) BY AppendProperties
  <2>2. CASE ss = <<>>
    <3>1. Append(ss, t) = <<t>> BY <2>2
    <3>2. QED BY <2>1, <3>1
  <2>3. CASE ss # <<>> BY <2>1, <2>3
  <2>4. QED BY <2>2, <2>3
<1>3. Q = Seq(Text)
  <2>1. Q \in SUBSET Seq(Text) OBVIOUS
  <2> HIDE DEF Q
  <2>2. QED BY <1>1, <1>2, <2>1, InductionOnSeq
<1>4. QED BY <1>3 DEF Lists

\* Texts without the separator come back from what was joined.
LEMMA SplitJoin ==
  ASSUME NEW a \in Atoms, NEW ss \in Lists, NEW most \in Nat,
         Len(ss) <= most + 1, \A i \in 1 .. Len(ss) : ~Has(ss[i], a)
  PROVE  Split(Join(ss, a), a, most) = ss
<1> DEFINE Good(ps) == Len(ps) <= most + 1 /\ \A i \in 1 .. Len(ps) : ~Has(ps[i], a)
           P == {ps \in Lists : Good(ps) => Split(Join(ps, a), a, most) = ps}
<1>1. ASSUME NEW t \in Text PROVE <<t>> \in P
  <2>1. <<t>> \in Lists BY DEF Lists
  <2>2. SUFFICES ASSUME ~Has(t, a) PROVE Split(Join(<<t>>, a), a, most) = <<t>>
    BY <2>1
  <2>3. QED BY <2>2, JoinOne, SplitPlain
<1>2. ASSUME NEW ps \in P, NEW t \in Text PROVE Append(ps, t) \in P
  <2> DEFINE qs == Append(ps, t)
             n == Len(ps)
  <2>1. n \in Nat \ {0} /\ ps \in Seq(Text) /\ ps # <<>> BY ListIs DEF Lists
  <2>2. /\ qs \in Seq(Text) /\ Len(qs) = n + 1 /\ qs[n + 1] = t
        /\ \A i \in 1 .. n : qs[i] = ps[i]
    BY <2>1, AppendProperties
  <2>3. qs \in Lists BY <2>1, <2>2 DEF Lists
  <2>4. SUFFICES ASSUME Good(qs) PROVE Split(Join(qs, a), a, most) = qs
    BY <2>3
  <2> DEFINE j == Join(ps, a)
  <2>5. j \in Text /\ Join(qs, a) = (j \o <<a>>) \o t BY <2>1, JoinMore
  <2>6. ~Has(t, a) /\ n <= most /\ Good(ps) BY <2>1, <2>2, <2>4
  <2>7. Split(j, a, most) = ps BY <2>6
  <2> HIDE DEF j
  <2>8. j \o <<a>> \in Text /\ Split(j \o <<a>>, a, most) = Append(ps, <<>>)
    <3>1. j \o <<a>> = Append(j, a) /\ Append(j, a) \in Text BY <2>5, TextAppend
    <3>2. Split(Append(j, a), a, most) = Append(Split(j, a, most), <<>>)
      BY <2>5, <2>6, <2>7, SplitSeparator
    <3>3. QED BY <2>7, <3>1, <3>2
  <2> DEFINE es == Append(ps, <<>>)
  <2>9. Split((j \o <<a>>) \o t, a, most) = Extend(es, t)
    <3>1. Split((j \o <<a>>) \o t, a, most) = Extend(Split(j \o <<a>>, a, most), t)
      BY <2>6, <2>8, SplitMore
    <3>2. QED BY <2>8, <3>1
  <2>10. /\ es \in Lists /\ Len(es) = n + 1 /\ es[n + 1] = <<>>
         /\ \A i \in 1 .. n : es[i] = ps[i]
    <3>1. <<>> \in Text BY AtomIs
    <3>2. /\ es \in Seq(Text) /\ Len(es) = n + 1 /\ es[n + 1] = <<>>
          /\ \A i \in 1 .. n : es[i] = ps[i]
      BY <2>1, <3>1, AppendProperties
    <3>3. QED BY <2>1, <3>2 DEF Lists
  <2> HIDE DEF es, qs
  <2> DEFINE vs == Extend(es, t)
  <2>11. /\ vs \in Lists /\ Len(vs) = n + 1 /\ vs[n + 1] = es[n + 1] \o t
         /\ \A i \in 1 .. n : vs[i] = es[i]
    <3>1. /\ vs \in Lists /\ Len(vs) = Len(es) /\ vs[Len(es)] = es[Len(es)] \o t
          /\ \A i \in 1 .. Len(es) : i # Len(es) => vs[i] = es[i]
      BY <2>10, ExtendIs
    <3> HIDE DEF vs
    <3>2. \A i \in 1 .. n : i \in 1 .. n + 1 /\ i # n + 1 BY <2>1
    <3>3. /\ vs \in Lists /\ Len(vs) = n + 1 /\ vs[n + 1] = es[n + 1] \o t
          /\ \A i \in 1 .. n + 1 : i # n + 1 => vs[i] = es[i]
      BY <2>10, <3>1
    <3>4. QED BY <3>2, <3>3
  <2>12. vs[n + 1] = t BY <2>10, <2>11, TextConcat
  <2> HIDE DEF vs
  <2>13. \A i \in 1 .. n + 1 : vs[i] = qs[i] BY <2>1, <2>2, <2>10, <2>11, <2>12
  <2>14. vs = qs BY <2>2, <2>11, <2>13, SameList DEF Lists
  <2>15. QED BY <2>5, <2>9, <2>14 DEF vs
<1>3. P = Lists
  <2>1. P \in SUBSET Lists OBVIOUS
  <2> HIDE DEF P
  <2>2. QED BY <1>1, <1>2, <2>1, InductionOnLists
<1>4. QED BY <1>3

\* What is joined has the atoms of the parts and the separator.
LEMMA JoinOver ==
  ASSUME NEW A \in SUBSET Atoms, NEW a \in A, NEW ss \in Lists,
         \A i \in 1 .. Len(ss) : ss[i] \in Seq(A)
  PROVE  Join(ss, a) \in Seq(A)
<1> DEFINE Good(ps) == \A i \in 1 .. Len(ps) : ps[i] \in Seq(A)
           P == {ps \in Lists : Good(ps) => Join(ps, a) \in Seq(A)}
<1>1. ASSUME NEW t \in Text PROVE <<t>> \in P
  <2>1. <<t>> \in Lists BY DEF Lists
  <2>2. Join(<<t>>, a) = t BY JoinOne
  <2>3. Good(<<t>>) => t \in Seq(A)
    <3> DEFINE b == <<t>>
    <3>1. Len(b) = 1 /\ b[1] = t /\ 1 \in 1 .. 1 OBVIOUS
    <3> HIDE DEF b
    <3>2. Good(b) => t \in Seq(A) BY <3>1
    <3>3. QED BY <3>2 DEF b
  <2> HIDE DEF Good
  <2>4. QED BY <2>1, <2>2, <2>3
<1>2. ASSUME NEW ps \in P, NEW t \in Text PROVE Append(ps, t) \in P
  <2> DEFINE qs == Append(ps, t)
             n == Len(ps)
             j == Join(ps, a)
  <2>1. n \in Nat \ {0} /\ ps \in Seq(Text) /\ ps # <<>> BY ListIs DEF Lists
  <2>2. /\ qs \in Seq(Text) /\ Len(qs) = n + 1 /\ qs[n + 1] = t
        /\ \A i \in 1 .. n : qs[i] = ps[i]
    BY <2>1, AppendProperties
  <2>3. qs \in Lists BY <2>1, <2>2 DEF Lists
  <2>4. Join(qs, a) = (j \o <<a>>) \o t BY <2>1, JoinMore
  <2>5. Good(qs) => Good(ps) /\ t \in Seq(A)
    <3> HIDE DEF qs
    <3>1. SUFFICES ASSUME Good(qs) PROVE Good(ps) /\ t \in Seq(A) OBVIOUS
    <3>2. n + 1 \in 1 .. n + 1 /\ \A i \in 1 .. n : i \in 1 .. n + 1 BY <2>1
    <3>3. QED BY <2>2, <3>1, <3>2
  <2>6. Good(ps) => j \in Seq(A) OBVIOUS
  <2>7. j \in Seq(A) /\ t \in Seq(A) => (j \o <<a>>) \o t \in Seq(A)
    <3> HIDE DEF j
    <3>1. <<a>> \in Seq(A) BY TextOver
    <3>2. QED BY <3>1, TextOver
  <2> HIDE DEF Good, qs, j
  <2>8. QED BY <2>3, <2>4, <2>5, <2>6, <2>7 DEF qs
<1>3. P = Lists
  <2>1. P \in SUBSET Lists OBVIOUS
  <2> HIDE DEF P
  <2>2. QED BY <1>1, <1>2, <2>1, InductionOnLists
<1>4. QED BY <1>3

LEMMA LengthJoin ==
  ASSUME NEW a \in Atoms, NEW ss \in Lists, NEW t \in Text
  PROVE  /\ Join(ss, a) \in Text
         /\ Length(Join(<<t>>, a)) = Length(t)
         /\ Length(Join(Append(ss, t), a)) = Length(Join(ss, a)) + a.n + Length(t)
<1> DEFINE j == Join(ss, a)
<1>1. ss \in Seq(Text) /\ ss # <<>> BY DEF Lists
<1>2. j \in Text /\ Join(Append(ss, t), a) = (j \o <<a>>) \o t BY <1>1, JoinMore
<1> HIDE DEF j
<1>3. <<a>> \in Text /\ Length(<<a>>) = a.n BY LengthOfOne
<1>4. j \o <<a>> \in Text /\ Length(j \o <<a>>) = Length(j) + a.n
  BY <1>2, <1>3, TextConcat, LengthConcat, ZenonT(60)
<1>5. Length((j \o <<a>>) \o t) = Length(j) + a.n + Length(t)
  BY <1>4, LengthConcat
<1>6. QED BY <1>2, <1>5, JoinOne DEF j

\* No piece of what is joined is longer than the longest part.
LEMMA JoinPieces ==
  ASSUME NEW a \in Atoms, NEW ss \in Lists, NEW most \in Nat, NEW k \in Nat,
         Len(Join(ss, a)) <= most, \A i \in 1 .. Len(ss) : Length(ss[i]) <= k
  PROVE  \A i \in 1 .. Len(Split(Join(ss, a), a, most)) :
           Length(Split(Join(ss, a), a, most)[i]) <= k
<1> DEFINE Short(ps) == \A i \in 1 .. Len(ps) : Length(ps[i]) <= k
           P == {ps \in Lists : Short(ps) /\ Len(Join(ps, a)) <= most
                                  => Short(Split(Join(ps, a), a, most))}
<1>1. ASSUME NEW t \in Text PROVE <<t>> \in P
  <2> DEFINE b == <<t>>
             qs == Split(t, a, most)
  <2>1. b \in Lists /\ Len(b) = 1 /\ b[1] = t /\ 1 \in 1 .. 1 BY DEF Lists
  <2>2. Join(b, a) = t BY JoinOne
  <2> HIDE DEF b
  <2>3. SUFFICES ASSUME Short(b) PROVE Short(qs) BY <2>1, <2>2 DEF b
  <2>4. Length(t) <= k /\ Length(t) \in Nat BY <2>1, <2>3, LengthIsNat
  <2>5. qs \in Lists /\ \A i \in 1 .. Len(qs) : Length(qs[i]) <= Length(t)
    BY SplitLengths, SplitStep
  <2> HIDE DEF qs
  <2>6. \A i \in 1 .. Len(qs) : Length(qs[i]) \in Nat BY <2>5, ListIs, LengthIsNat
  <2>7. QED BY <2>4, <2>5, <2>6
<1>2. ASSUME NEW ps \in P, NEW t \in Text PROVE Append(ps, t) \in P
  <2> DEFINE qs == Append(ps, t)
             n == Len(ps)
             j == Join(ps, a)
  <2>1. n \in Nat \ {0} /\ ps \in Seq(Text) /\ ps # <<>> BY ListIs DEF Lists
  <2>2. /\ qs \in Seq(Text) /\ Len(qs) = n + 1 /\ qs[n + 1] = t
        /\ \A i \in 1 .. n : qs[i] = ps[i]
    BY <2>1, AppendProperties
  <2>3. qs \in Lists BY <2>1, <2>2 DEF Lists
  <2>4. j \in Text /\ Join(qs, a) = (j \o <<a>>) \o t BY <2>1, JoinMore
  <2> DEFINE us == Split(j, a, most)
             vs == Split(t, a, most)
             ws == us \o vs
  <2>5. Len((j \o <<a>>) \o t) = Len(j) + 1 + Len(t) /\ Len(j) \in Nat /\ Len(t) \in Nat
    <3> HIDE DEF j
    <3>1. <<a>> \in Text /\ Len(<<a>>) = 1 BY LengthOfOne
    <3>2. j \o <<a>> \in Text /\ Len(j \o <<a>>) = Len(j) + 1 BY <2>4, <3>1, TextConcat
    <3>3. Len((j \o <<a>>) \o t) = Len(j) + 1 + Len(t) BY <3>2, TextConcat
    <3>4. QED BY <2>4, <3>3, AtomIs
  <2>6. SUFFICES ASSUME Short(qs), Len(j) + 1 + Len(t) <= most
                 PROVE  Short(Split(Join(qs, a), a, most))
    <3> HIDE DEF Short, qs, j
    <3>1. QED BY <2>3, <2>4, <2>5 DEF qs
  <2>7. Split(Join(qs, a), a, most) = ws
    <3>1. j \in Text /\ Len(j) + 1 + Len(t) <= most BY <2>4, <2>6
    <3> HIDE DEF j, qs, Short
    <3>2. Split((j \o <<a>>) \o t, a, most) = Split(j, a, most) \o Split(t, a, most)
      BY <3>1, SplitBoth
    <3>3. QED BY <2>4, <3>2
  <2>8. Short(ps) /\ Length(t) <= k
    <3> HIDE DEF qs
    <3>1. n + 1 \in 1 .. n + 1 /\ \A i \in 1 .. n : i \in 1 .. n + 1 BY <2>1
    <3>2. QED BY <2>2, <2>6, <3>1
  <2>9. Short(us)
    <3>1. Len(j) <= most BY <2>5, <2>6
    <3> HIDE DEF Short, j
    <3>2. QED BY <2>8, <3>1 DEF j
  <2>10. Short(vs)
    <3>1. vs \in Lists /\ \A i \in 1 .. Len(vs) : Length(vs[i]) <= Length(t)
      BY SplitLengths, SplitStep
    <3> HIDE DEF vs
    <3>2. \A i \in 1 .. Len(vs) : Length(vs[i]) \in Nat BY <3>1, ListIs, LengthIsNat
    <3>3. Length(t) \in Nat BY LengthIsNat
    <3>4. QED BY <2>8, <3>1, <3>2, <3>3
  <2>11. us \in Seq(Text) /\ vs \in Seq(Text) BY <2>4, SplitStep DEF Lists
  <2> HIDE DEF us, vs
  <2>12. /\ Len(ws) = Len(us) + Len(vs)
         /\ \A i \in 1 .. Len(us) : ws[i] = us[i]
         /\ \A i \in 1 .. Len(vs) : ws[Len(us) + i] = vs[i]
    BY <2>11, ListConcat
  <2>13. Len(us) \in Nat /\ Len(vs) \in Nat BY <2>11
  <2> HIDE DEF ws, P
  <2>14. ASSUME NEW i \in 1 .. Len(ws) PROVE Length(ws[i]) <= k
    <3>1. CASE i \in 1 .. Len(us) BY <2>9, <2>12, <3>1
    <3>2. CASE i \notin 1 .. Len(us)
      <4>1. i - Len(us) \in 1 .. Len(vs) /\ Len(us) + (i - Len(us)) = i
        BY <2>12, <2>13, <3>2
      <4>2. ws[i] = vs[i - Len(us)] BY <2>12, <4>1
      <4>3. QED BY <2>10, <4>1, <4>2
    <3>3. QED BY <3>1, <3>2
  <2>15. QED BY <2>7, <2>14
<1>3. P = Lists
  <2>1. P \in SUBSET Lists OBVIOUS
  <2> HIDE DEF P
  <2>2. QED BY <1>1, <1>2, <2>1, InductionOnLists
<1>4. QED BY <1>3

-----------------------------------------------------------------------------
(* Cut of what is cut, or joined, or split *)

\* What precedes the cut is left whole.
LEMMA CutConcat ==
  ASSUME NEW s \in Text, NEW t \in Text, NEW max \in Nat
  PROVE  /\ Length(s) <= max => Cut(s \o t, max) = s \o Cut(t, max - Length(s))
         /\ Length(s) >= max => Cut(s \o t, max) = Cut(s, max)
<1> DEFINE k == max - Length(s)
           P == {u \in Text :
                   /\ k >= 0 => Cut(s \o u, max) = s \o Cut(u, k)
                   /\ k <= 0 => Cut(s \o u, max) = Cut(s, max)}
<1>1. Length(s) \in Nat BY LengthIsNat
<1>2. <<>> \in P
  <2>1. <<>> \in Text /\ s \o <<>> = s BY TextConcat, AtomIs
  <2>2. k >= 0 => Cut(s, max) = s \o Cut(<<>>, k)
    <3>1. SUFFICES ASSUME k >= 0 PROVE Cut(s, max) = s \o Cut(<<>>, k) OBVIOUS
    <3>2. k \in Nat /\ Length(s) <= max BY <1>1, <3>1
    <3>3. Cut(s, max) = s BY <3>2, CutAll
    <3> HIDE DEF k
    <3>4. Cut(<<>>, k) = <<>> BY <3>2, CutStep
    <3>5. QED BY <2>1, <3>3, <3>4
  <2> HIDE DEF k
  <2>3. QED BY <2>1, <2>2
<1>3. ASSUME NEW u \in P, NEW x \in Atoms PROVE Append(u, x) \in P
  <2> DEFINE v == Append(u, x)
             w == s \o u
  <2>1. v \in Text /\ w \in Text /\ s \o v = Append(w, x)
    BY TextAppend, TextConcat, ZenonT(60)
  <2>2. Cut(s \o v, max) = Kept(Cut(w, max), x, max) BY <2>1, CutStep
  <2>3. CASE k <= 0
    <3>1. Cut(w, max) = Cut(s, max) BY <2>3
    <3>2. Length(Cut(s, max)) = max
      <4>1. CASE Length(Cut(s, max)) # max
        <5>1. Cut(s, max) = s /\ Length(Cut(s, max)) <= max BY <4>1, CutShort, CutStep
        <5>2. QED BY <1>1, <2>3, <4>1, <5>1
      <4>2. QED BY <4>1
    <3>3. Kept(Cut(s, max), x, max) = Cut(s, max) BY <3>2 DEF Kept
    <3>4. Cut(s \o v, max) = Cut(s, max) BY <2>2, <3>1, <3>3
    <3>5. k >= 0 => Cut(s \o v, max) = s \o Cut(v, k)
      <4>1. SUFFICES ASSUME k >= 0 PROVE Cut(s \o v, max) = s \o Cut(v, k) OBVIOUS
      <4>2. k = 0 /\ 0 \in Nat BY <1>1, <2>3, <4>1
      <4>3. Cut(v, 0) \in Text /\ Length(Cut(v, 0)) <= 0 BY <2>1, CutStep
      <4>4. Cut(u, 0) \in Text /\ Length(Cut(u, 0)) <= 0 BY CutStep
      <4>5. Cut(v, 0) = Kept(Cut(u, 0), x, 0) BY CutStep
      <4>6. Length(Cut(u, 0)) = 0 BY <4>4, LengthIsNat
      <4>7. Cut(v, 0) = Cut(u, 0) BY <4>5, <4>6 DEF Kept
      <4>8. Cut(w, max) = s \o Cut(u, 0) BY <4>2
      <4> HIDE DEF k, v, w
      <4>9. QED BY <3>1, <3>4, <4>2, <4>7, <4>8
    <3> HIDE DEF k, v, w
    <3>6. QED BY <2>1, <3>4, <3>5 DEF v
  <2>4. CASE k > 0
    <3>1. k \in Nat \ {0} /\ k \in Nat /\ ~(k <= 0) /\ k >= 0 BY <1>1, <2>4
    <3>2. Cut(w, max) = s \o Cut(u, k) BY <3>1
    <3>3. k = max - Length(s) OBVIOUS
    <3> HIDE DEF k
    <3> DEFINE c == Cut(u, k)
    <3>4. c \in Text /\ Length(c) \in Nat /\ Cut(v, k) = Kept(c, x, k)
      BY <3>1, CutStep, LengthIsNat
    <3> HIDE DEF c
    <3>5. Length(s \o c) = Length(s) + Length(c) BY <3>4, LengthConcat
    <3>6. Kept(s \o c, x, max) = s \o Kept(c, x, k)
      <4>1. CASE Length(c) = k
        <5>1. Length(s \o c) = max BY <1>1, <3>1, <3>3, <3>5, <4>1
        <5>2. QED BY <4>1, <5>1 DEF Kept
      <4>2. CASE Length(c) # k
        <5>1. Length(c) <= k BY <3>1, CutStep DEF c
        <5>2. /\ Length(s \o c) # max /\ max - Length(s \o c) = k - Length(c)
              /\ k - Length(c) \in Nat \ {0}
          BY <1>1, <3>1, <3>3, <3>4, <3>5, <4>2, <5>1
        <5> DEFINE y == [x EXCEPT !.n = Min({@, k - Length(c)})]
        <5>3. Kept(c, x, k) = Append(c, y) BY <4>2 DEF Kept
        <5>4. Kept(s \o c, x, max) = Append(s \o c, y) BY <5>2 DEF Kept
        <5>5. y \in Atoms BY <5>2, TrimmedAtom
        <5> HIDE DEF y
        <5>6. s \o Append(c, y) = Append(s \o c, y) BY <3>4, <5>5, TextAppend
        <5>7. QED BY <5>3, <5>4, <5>6
      <4>3. QED BY <4>1, <4>2
    <3>7. Cut(s \o v, max) = s \o Cut(v, k)
      <4> HIDE DEF v, w
      <4>1. QED BY <2>2, <3>2, <3>4, <3>6 DEF c
    <3> HIDE DEF v, w
    <3>8. QED BY <2>1, <3>1, <3>7 DEF v
  <2>5. k <= 0 \/ k > 0 BY <1>1
  <2>6. QED BY <2>3, <2>4, <2>5
<1>4. P = Text
  <2>1. P \in SUBSET Text OBVIOUS
  <2> HIDE DEF P
  <2>2. QED BY <1>2, <1>3, <2>1, InductionOnText
<1>5. t \in P BY <1>4
<1>6. (Length(s) <= max => k >= 0) /\ (Length(s) >= max => k <= 0) BY <1>1
<1>7. QED BY <1>5, <1>6

\* Cutting twice is cutting at the lesser of both.
LEMMA CutCut ==
  ASSUME NEW s \in Text, NEW k \in Nat, NEW max \in Nat
  PROVE  Cut(Cut(s, k), max) = Cut(s, Min({max, k}))
<1>1. CASE k <= max
  <2>1. Cut(s, k) \in Text /\ Length(Cut(s, k)) <= k BY CutStep, MarksAre
  <2>2. Length(Cut(s, k)) <= max BY <1>1, <2>1, LengthIsNat
  <2>3. Cut(Cut(s, k), max) = Cut(s, k) BY <2>1, <2>2, CutAll
  <2>4. Min({max, k}) = k BY <1>1, Lesser
  <2>5. QED BY <2>3, <2>4
<1>2. CASE max < k
  <2> DEFINE P == {u \in Text : Cut(Cut(u, k), max) = Cut(u, max)}
  <2>1. <<>> \in P BY CutStep, AtomIs
  <2>2. ASSUME NEW u \in P, NEW x \in Atoms PROVE Append(u, x) \in P
    <3> DEFINE v == Append(u, x)
               c == Cut(u, k)
               d == Cut(u, max)
    <3>1. /\ v \in Text /\ c \in Text /\ d \in Text /\ Length(c) <= k /\ Length(d) <= max
          /\ Length(c) \in Nat /\ Length(d) \in Nat
          /\ Cut(v, k) = Kept(c, x, k) /\ Cut(v, max) = Kept(d, x, max)
      BY TextAppend, CutStep, LengthIsNat
    <3>2. Cut(c, max) = d OBVIOUS
    <3>3. CASE Length(c) = k
      <4>1. Cut(v, k) = c BY <3>1, <3>3 DEF Kept
      <4>2. Length(d) = max
        <5>1. SUFFICES ASSUME Length(d) # max PROVE FALSE OBVIOUS
        <5>2. d = u /\ Length(u) <= k BY <1>2, <3>1, <5>1, CutShort
        <5>3. c = u BY <5>2, CutAll
        <5>4. QED BY <1>2, <3>1, <3>3, <5>2, <5>3
      <4>3. Cut(v, max) = d BY <3>1, <4>2 DEF Kept
      <4> HIDE DEF c, d
      <4>4. QED BY <3>1, <3>2, <4>1, <4>3
    <3>4. CASE Length(c) # k
      <4>1. c = u /\ k - Length(c) \in Nat \ {0} BY <3>1, <3>4, CutShort
      <4> DEFINE y == [x EXCEPT !.n = Min({@, k - Length(c)})]
      <4>2. Cut(v, k) = Append(u, y) BY <3>1, <3>4, <4>1 DEF Kept
      <4>3. y \in Atoms BY <4>1, TrimmedAtom
      <4>4. Cut(Append(u, y), max) = Kept(d, y, max)
        <5> HIDE DEF y
        <5>1. QED BY <4>3, CutStep
      <4>5. Kept(d, y, max) = Kept(d, x, max)
        <5>1. CASE Length(d) = max BY <5>1 DEF Kept
        <5>2. CASE Length(d) # max
          <6>1. d = u /\ max - Length(d) \in Nat \ {0} BY <3>1, <5>2, CutShort
          <6> DEFINE p == k - Length(c)
                     q == max - Length(d)
          <6>2. p \in Nat /\ q \in Nat /\ q <= p BY <1>2, <3>1, <4>1, <6>1
          <6>3. x.n \in Nat BY AtomIs
          <6> HIDE DEF p, q
          <6>4. Min({Min({x.n, p}), q}) = Min({x.n, q})
            <7>1. Min({x.n, p}) = IF x.n <= p THEN x.n ELSE p BY <6>2, <6>3, Lesser
            <7>2. Min({x.n, p}) \in Int BY <6>2, <6>3, <7>1
            <7> DEFINE r == Min({x.n, p})
            <7> HIDE DEF r
            <7>3. Min({r, q}) = IF r <= q THEN r ELSE q
              <8>1. r \in Int /\ q \in Int BY <6>2, <7>2 DEF r
              <8>2. QED BY <8>1, Lesser
            <7>4. Min({x.n, q}) = IF x.n <= q THEN x.n ELSE q BY <6>2, <6>3, Lesser
            <7>5. Min({r, q}) = Min({x.n, q}) BY <6>2, <6>3, <7>1, <7>3, <7>4 DEF r
            <7>6. QED BY <7>5 DEF r
          <6>5. [y EXCEPT !.n = Min({@, q})] = [x EXCEPT !.n = Min({@, q})]
            <7>1. x = [w |-> x.w, n |-> x.n, c |-> x.c] BY AtomIs
            <7>2. y = [w |-> x.w, n |-> Min({x.n, p}), c |-> x.c] BY <7>1 DEF p
            <7>3. QED BY <6>4, <7>1, <7>2
          <6>6. QED BY <5>2, <6>5 DEF Kept, q
        <5>3. QED BY <5>1, <5>2
      <4> HIDE DEF y, c, d
      <4>6. QED BY <3>1, <4>2, <4>4, <4>5
    <3>5. QED BY <3>3, <3>4
  <2>3. P = Text
    <3>1. P \in SUBSET Text OBVIOUS
    <3> HIDE DEF P
    <3>2. QED BY <2>1, <2>2, <3>1, InductionOnText
  <2>4. Min({max, k}) = max BY <1>2, Lesser
  <2>5. s \in P BY <2>3
  <2>6. QED BY <2>4, <2>5
<1>3. QED BY <1>1, <1>2

\* Cutting makes no separators.
LEMMA CutSplit ==
  ASSUME NEW s \in Text, NEW max \in Nat, NEW most \in Nat
  PROVE  Len(Split(Cut(s, max), Hash, most)) <= Len(Split(s, Hash, most))
<1> DEFINE P == {u \in Text :
                   Len(Split(Cut(u, max), Hash, most)) <= Len(Split(u, Hash, most))}
<1>1. <<>> \in P
  <2>1. Cut(<<>>, max) = <<>> /\ <<>> \in Text BY CutStep, AtomIs
  <2>2. Split(<<>>, Hash, most) \in Lists BY <2>1, SplitStep, MarksAre
  <2>3. Len(Split(<<>>, Hash, most)) \in Nat BY <2>2, ListIs
  <2>4. QED BY <2>1, <2>3
<1>2. ASSUME NEW u \in P, NEW x \in Atoms PROVE Append(u, x) \in P
  <2> DEFINE v == Append(u, x)
             c == Cut(u, max)
             ps == Split(u, Hash, most)
  <2>1. /\ v \in Text /\ c \in Text /\ Length(c) <= max
        /\ Cut(v, max) = Kept(c, x, max)
        /\ ps \in Lists /\ Split(v, Hash, most) = Piece(ps, x, Hash, most)
    BY TextAppend, CutStep, SplitStep, ZenonT(60)
  <2>2. Len(ps) \in Nat BY <2>1, ListIs
  <2>3. CASE Length(c) = max
    <3>1. Cut(v, max) = c BY <2>1, <2>3 DEF Kept
    <3>2. Len(Split(c, Hash, most)) <= Len(ps) /\ Len(Split(c, Hash, most)) \in Nat
      <4>1. Split(c, Hash, most) \in Lists BY <2>1, SplitStep, MarksAre
      <4>2. QED BY <4>1, ListIs
    <3>3. Len(ps) <= Len(Piece(ps, x, Hash, most)) /\ Len(Piece(ps, x, Hash, most)) \in Nat
      <4>1. \/ Len(Piece(ps, x, Hash, most)) = Len(ps)
            \/ Len(Piece(ps, x, Hash, most)) = Len(ps) + 1
        BY <2>1, PieceIs
      <4>2. QED BY <2>2, <4>1
    <3>4. Len(Split(c, Hash, most)) <= Len(Split(v, Hash, most))
      BY <2>1, <2>2, <3>2, <3>3
    <3> HIDE DEF c, v
    <3>5. QED BY <2>1, <3>1, <3>4 DEF v
  <2>4. CASE Length(c) # max
    <3>1. c = u /\ max - Length(c) \in Nat \ {0}
      <4>1. Length(c) \in Nat BY <2>1, LengthIsNat
      <4>2. QED BY <2>1, <2>4, <4>1, CutShort
    <3> DEFINE y == [x EXCEPT !.n = Min({@, max - Length(c)})]
    <3>2. y \in Atoms /\ y.w = x.w BY <3>1, TrimmedAtom
    <3>3. y = Hash <=> x = Hash
      <4>1. \A z \in Atoms : z.w = "#" => z = Hash BY Zenon DEF Atoms
      <4>2. Hash.w = "#" BY MarksAre
      <4> HIDE DEF y
      <4>3. QED BY <3>2, <4>1, <4>2
    <3>4. Cut(v, max) = Append(u, y) BY <2>1, <2>4, <3>1 DEF Kept
    <3> HIDE DEF y
    <3>5. Split(Append(u, y), Hash, most) = Piece(ps, y, Hash, most)
      BY <3>2, SplitStep
    <3>6. Len(Piece(ps, y, Hash, most)) = Len(Piece(ps, x, Hash, most))
      <4>1. CASE x = Hash /\ Len(ps) <= most
        <5>1. y = Hash BY <3>3, <4>1
        <5>2. Len(Piece(ps, y, Hash, most)) = Len(ps) + 1
          BY <2>1, <3>2, <4>1, <5>1, PieceIs
        <5>3. Len(Piece(ps, x, Hash, most)) = Len(ps) + 1
          BY <2>1, <4>1, PieceIs
        <5>4. QED BY <5>2, <5>3
      <4>2. CASE ~(x = Hash /\ Len(ps) <= most)
        <5>1. ~(y = Hash /\ Len(ps) <= most) BY <3>3, <4>2
        <5>2. Len(Piece(ps, y, Hash, most)) = Len(ps)
          BY <2>1, <3>2, <5>1, PieceIs
        <5>3. Len(Piece(ps, x, Hash, most)) = Len(ps)
          BY <2>1, <4>2, PieceIs
        <5>4. QED BY <5>2, <5>3
      <4>3. QED BY <4>1, <4>2
    <3>7. Len(Piece(ps, x, Hash, most)) \in Nat
      <4>1. Piece(ps, x, Hash, most) \in Lists BY <2>1, PieceIs
      <4>2. QED BY <4>1, ListIs
    <3>8. Len(Split(Cut(v, max), Hash, most)) <= Len(Split(v, Hash, most))
      <4>1. Split(Cut(v, max), Hash, most) = Piece(ps, y, Hash, most) BY <3>4, <3>5
      <4>2. Split(v, Hash, most) = Piece(ps, x, Hash, most) BY <2>1
      <4> HIDE DEF c, v, ps
      <4>3. QED BY <3>6, <3>7, <4>1, <4>2
    <3> HIDE DEF c, ps
    <3>9. QED BY <2>1, <3>8
  <2>5. QED BY <2>3, <2>4
<1>3. P = Text
  <2>1. P \in SUBSET Text OBVIOUS
  <2> HIDE DEF P
  <2>2. QED BY <1>1, <1>2, <2>1, InductionOnText
<1>4. QED BY <1>3

-----------------------------------------------------------------------------
(* QuitarEspacios *)

\* The web service adds no character to a text but spaces.
LEMMA QuitarOver ==
  ASSUME NEW A \in SUBSET Atoms, Space \in A, NEW s \in Seq(A)
  PROVE  QuitarEspacios(s) \in Seq(A)
<1> DEFINE G == CHOOSE f : f = [i \in 0 .. Len(s) |->
                                  IF i = 0 THEN <<>> ELSE Spaced(f[i - 1], s[i])]
           D == Seq(A)
           t == G[Len(s)]
<1>1. QuitarEspacios(s) = IF t # <<>> /\ Last(t) = Space THEN Front(t) ELSE t
  BY DEF QuitarEspacios
<1>2. Len(s) \in Nat /\ <<>> \in D /\ \A i \in 1 .. Len(s) : s[i] \in A
  OBVIOUS
<1>3. ASSUME NEW u \in D, NEW x \in A PROVE Spaced(u, x) \in D
  <2>1. Append(u, x) \in D /\ Append(u, Space) \in D BY AppendProperties
  <2> HIDE DEF D
  <2>2. QED BY <2>1, Zenon DEF Spaced
<1>4. G = [i \in 0 .. Len(s) |-> IF i = 0 THEN <<>> ELSE Spaced(G[i - 1], s[i])]
  <2> DEFINE step == [u \in D |-> [x \in A |-> Spaced(u, x)]]
  <2>1. step \in [D -> [A -> D]]
    <3> HIDE DEF D, G
    <3>1. QED BY <1>3
  <2>2. PICK f : IsRun(f, D, <<>>, step, s)
    <3>1. s \in Seq(A) OBVIOUS
    <3> HIDE DEF step, G, D
    <3>2. QED BY <1>2, <2>1, <3>1, RunExists
  <2>3. ASSUME NEW i \in 1 .. Len(s) PROVE f[i] = Spaced(f[i - 1], s[i])
    <3> HIDE DEF D, G
    <3>1. f[i - 1] \in D /\ s[i] \in A BY <1>2, <2>2 DEF IsRun
    <3>2. step[f[i - 1]][s[i]] = Spaced(f[i - 1], s[i]) BY <3>1
    <3>3. f[i] = step[f[i - 1]][s[i]] BY <2>2 DEF IsRun
    <3>4. QED BY <3>2, <3>3
  <2>4. f = [i \in 0 .. Len(s) |-> IF i = 0 THEN <<>> ELSE Spaced(f[i - 1], s[i])]
    <3> HIDE DEF G, step, D
    <3>1. QED BY <1>2, <2>2, <2>3 DEF IsRun
  <2>5. QED BY <2>4
<1>5. t \in D
  <2> HIDE DEF G, D
  <2>1. G[0] = <<>> /\ \A i \in 1 .. Len(s) : G[i] = Spaced(G[i - 1], s[i])
    BY <1>2, <1>4
  <2>2. \A i \in 1 .. Len(s) : G[i - 1] \in D => G[i] \in D BY <1>2, <1>3, <2>1
  <2>3. \A i \in 0 .. Len(s) : G[i] \in D BY <1>2, <2>1, <2>2, RunStays
  <2>4. QED BY <1>2, <2>3
<1> HIDE DEF t, G
<1>6. ASSUME t # <<>> PROVE Front(t) \in D
  <2>1. t \in Seq(A) /\ Len(t) \in Nat \ {0} BY <1>5, <1>6
  <2>2. /\ 1 \in 1 .. Len(t) + 1 /\ Len(t) - 1 \in 0 .. Len(t)
        /\ \A k \in 1 .. Len(t) - 1 : t[k] \in A
    BY <2>1
  <2>3. SubSeq(t, 1, Len(t) - 1) \in Seq(A) BY <2>1, <2>2, SubSeqProperties
  <2>4. QED BY <2>3 DEF Front
<1>7. QED BY <1>1, <1>5, <1>6

\* What is joined is no longer than its parts and as many separators, less one.
LEMMA JoinShort ==
  ASSUME NEW a \in Atoms, NEW ss \in Lists, NEW k \in Nat,
         \A i \in 1 .. Len(ss) : Length(ss[i]) <= k
  PROVE  Length(Join(ss, a)) + a.n <= Len(ss) * (k + a.n)
<1> DEFINE Short(ps) == \A i \in 1 .. Len(ps) : Length(ps[i]) <= k
           P == {ps \in Lists : Short(ps) => Length(Join(ps, a)) + a.n <= Len(ps) * (k + a.n)}
<1>1. ASSUME NEW t \in Text PROVE <<t>> \in P
  <2> DEFINE b == <<t>>
  <2>1. b \in Lists /\ Len(b) = 1 /\ b[1] = t /\ 1 \in 1 .. 1 BY DEF Lists
  <2>2. Join(b, a) = t BY JoinOne
  <2> HIDE DEF b
  <2>3. Short(b) => Length(t) <= k BY <2>1
  <2>4. Length(t) \in Nat /\ a.n \in Nat /\ 1 * (k + a.n) = k + a.n
    BY LengthIsNat, AtomIs
  <2>5. Short(b) => Length(Join(b, a)) + a.n <= Len(b) * (k + a.n)
    BY <2>1, <2>2, <2>3, <2>4
  <2>6. QED BY <2>1, <2>5 DEF b
<1>2. ASSUME NEW ps \in P, NEW t \in Text PROVE Append(ps, t) \in P
  <2> DEFINE qs == Append(ps, t)
             n == Len(ps)
             j == Length(Join(ps, a))
             m == k + a.n
  <2>1. n \in Nat \ {0} /\ ps \in Seq(Text) /\ ps # <<>> BY ListIs DEF Lists
  <2>2. /\ qs \in Seq(Text) /\ Len(qs) = n + 1 /\ qs[n + 1] = t
        /\ \A i \in 1 .. n : qs[i] = ps[i]
    BY <2>1, AppendProperties
  <2>3. qs \in Lists BY <2>1, <2>2 DEF Lists
  <2>4. SUFFICES ASSUME Short(qs) PROVE Length(Join(qs, a)) + a.n <= Len(qs) * m
    BY <2>3
  <2>5. Length(Join(qs, a)) = j + a.n + Length(t) BY LengthJoin
  <2>6. Short(ps) /\ Length(t) <= k
    <3> HIDE DEF qs
    <3>1. n + 1 \in 1 .. n + 1 /\ \A i \in 1 .. n : i \in 1 .. n + 1 BY <2>1
    <3>2. QED BY <2>2, <2>4, <3>1
  <2>7. j + a.n <= n * m BY <2>6
  <2>8. a.n \in Nat /\ Length(t) \in Nat /\ j \in Nat
    <3>1. Join(ps, a) \in Text BY LengthJoin
    <3>2. QED BY <3>1, LengthIsNat, AtomIs
  <2>9. (n + 1) * m = n * m + m /\ n * m \in Nat BY <2>1, <2>8
  <2> HIDE DEF qs, j
  <2> DEFINE p == n * m
             q == (n + 1) * m
  <2>10. p \in Nat /\ q = p + k + a.n /\ j + a.n <= p BY <2>7, <2>8, <2>9
  <2> HIDE DEF p
  <2>11. j + a.n + Length(t) + a.n <= p + k + a.n BY <2>6, <2>8, <2>10, SMTT(40)
  <2>12. Length(Join(qs, a)) + a.n <= q BY <2>5, <2>10, <2>11 DEF qs
  <2>13. QED BY <2>2, <2>12
<1>3. P = Lists
  <2>1. P \in SUBSET Lists OBVIOUS
  <2> HIDE DEF P
  <2>2. QED BY <1>1, <1>2, <2>1, InductionOnLists
<1>4. QED BY <1>3

\* As SplitJoin, when as many pieces are looked for as the text has atoms.
LEMMA SplitJoined ==
  ASSUME NEW a \in Atoms, NEW ss \in Lists, NEW most \in Nat,
         Len(Join(ss, a)) <= most, \A i \in 1 .. Len(ss) : ~Has(ss[i], a)
  PROVE  Split(Join(ss, a), a, most) = ss
<1> DEFINE s == Join(ss, a)
           more == most + Len(ss)
<1>1. s \in Text BY AtomIs, LengthJoin
<1>2. Len(ss) \in Nat /\ more \in Nat /\ Len(s) <= most /\ Len(s) \in Nat BY <1>1, ListIs, AtomIs
<1>3. Len(ss) <= more + 1 /\ Len(s) <= more BY <1>2
<1> HIDE DEF s, more
<1>4. Split(s, a, more) = ss BY <1>2, <1>3, SplitJoin DEF s
<1>5. Split(s, a, most) = Split(s, a, more) BY <1>1, <1>2, <1>3, SplitMost
<1>6. QED BY <1>4, <1>5 DEF s

\* What a buffer keeps of a joined list: all the parts but the last and what

\* is left for the last, or nothing of the last.
LEMMA CutJoin ==
  ASSUME NEW us \in Lists, NEW t \in Text, NEW max \in Nat, NEW most \in Nat,
         Len(Cut(Join(Append(us, t), Hash), max)) <= most,
         \A i \in 1 .. Len(us) : ~Has(us[i], Hash), ~Has(t, Hash)
  PROVE  LET s    == Join(us, Hash)
             kept == Cut(Join(Append(us, t), Hash), max)
             all  == Split(kept, Hash, most)
         IN  \/ Length(s) < max /\ all = Append(us, Cut(t, max - 1 - Length(s)))
             \/ Length(s) >= max /\ kept = Cut(s, max) /\ Len(all) <= Len(us)
<1> DEFINE s == Join(us, Hash)
           h == s \o <<Hash>>
           kept == Cut(Join(Append(us, t), Hash), max)
           k == max - 1 - Length(s)
<1>1. Hash \in Atoms /\ Hash.n = 1 /\ <<Hash>> \in Text /\ Length(<<Hash>>) = 1
      /\ Len(<<Hash>>) = 1
  <2>1. Hash \in Atoms /\ Hash.n = 1 BY MarksAre
  <2>2. QED BY <2>1, LengthOfOne
<1>2. /\ s \in Text /\ Join(Append(us, t), Hash) = h \o t
  BY <1>1, JoinMore, ListIs DEF Lists
<1> HIDE DEF s
<1>3. h \in Text /\ Length(h) = Length(s) + 1 /\ Len(h) = Len(s) + 1
      /\ Length(s) \in Nat /\ Len(s) \in Nat
  BY <1>1, <1>2, LengthConcat, TextConcat, LengthIsNat, AtomIs
<1> HIDE DEF h
<1>4. CASE Length(s) < max
  <2>1. k \in Nat /\ k = max - Length(h) /\ Length(h) <= max BY <1>3, <1>4
  <2> HIDE DEF k
  <2> DEFINE c == Cut(t, k)
  <2>2. kept = h \o c
    <3>1. Cut(h \o t, max) = h \o Cut(t, max - Length(h)) BY <1>3, <2>1, CutConcat
    <3>2. QED BY <1>2, <2>1, <3>1
  <2>3. c \in Text /\ ~Has(c, Hash) BY <1>1, <2>1, CutStep, CutHasNone
  <2> HIDE DEF c
  <2>4. Len(s) + 1 + Len(c) <= most /\ Len(s) <= most
    <3>1. Len(h \o c) = Len(h) + Len(c) BY <1>3, <2>3, TextConcat
    <3>2. Len(c) \in Nat BY <2>3, AtomIs
    <3>3. QED BY <1>3, <2>2, <3>1, <3>2
  <2> DEFINE ps == Split(s, Hash, most)
             qs == Split(c, Hash, most)
  <2>5. Split(h \o c, Hash, most) = ps \o qs
    BY <1>1, <1>2, <2>3, <2>4, SplitBoth, ZenonT(60) DEF h
  <2>6. ps = us BY <1>1, <2>4, SplitJoined DEF s
  <2>7. qs = <<c>> BY <2>3, SplitPlain
  <2> HIDE DEF ps, qs
  <2>8. us \o <<c>> = Append(us, c) BY <2>3, ListIs, AppendIsConcat
  <2> HIDE DEF kept
  <2>9. Split(kept, Hash, most) = Append(us, c) BY <2>2, <2>5, <2>6, <2>7, <2>8
  <2>10. QED BY <1>4, <2>9 DEF c, k, kept, s
<1>5. CASE Length(s) >= max
  <2>1. h \o t = s \o (<<Hash>> \o t) /\ <<Hash>> \o t \in Text
    BY <1>1, <1>2, TextAssoc, TextConcat DEF h
  <2>2. kept = Cut(s, max) BY <1>2, <1>5, <2>1, CutConcat
  <2> DEFINE c == Cut(s, max)
             more == most + Len(s)
  <2>3. c \in Text BY <1>1, <1>2, CutStep
  <2>4. Len(c) \in Nat /\ Len(c) <= most BY <2>2, <2>3, AtomIs
  <2>5. more \in Nat /\ Len(c) <= more /\ Len(s) <= more BY <1>3, <2>4
  <2> HIDE DEF more
  <2>6. Len(Split(c, Hash, more)) <= Len(Split(s, Hash, more))
    BY <1>2, <2>5, CutSplit
  <2>7. Split(s, Hash, more) = us BY <1>1, <2>5, SplitJoined DEF s
  <2> HIDE DEF c
  <2>8. Split(c, Hash, most) = Split(c, Hash, more) BY <2>3, <2>4, <2>5, SplitMost
  <2>9. kept = c BY <2>2 DEF c
  <2> HIDE DEF kept
  <2>10. Len(Split(kept, Hash, most)) <= Len(us) BY <2>6, <2>7, <2>8, <2>9
  <2>11. QED BY <1>5, <2>9, <2>10 DEF c, kept, s
<1>6. Length(s) < max \/ Length(s) >= max BY <1>3
<1>7. QED BY <1>4, <1>5, <1>6

\* A buffer that holds the first part keeps it as the first piece.
LEMMA CutFirst ==
  ASSUME NEW ss \in Lists, NEW max \in Nat, NEW most \in Nat,
         Len(Cut(Join(ss, Hash), max)) <= most,
         \A i \in 1 .. Len(ss) : ~Has(ss[i], Hash), Length(ss[1]) <= max
  PROVE  Split(Cut(Join(ss, Hash), max), Hash, most)[1] = ss[1]
<1> DEFINE Good(us) == /\ Len(Cut(Join(us, Hash), max)) <= most
                       /\ \A i \in 1 .. Len(us) : ~Has(us[i], Hash)
                       /\ Length(us[1]) <= max
           First(us) == Split(Cut(Join(us, Hash), max), Hash, most)[1]
           P == {us \in Lists : Good(us) => First(us) = us[1]}
<1>1. \A t \in Text : <<t>> \in P
  <2> TAKE t \in Text
  <2> DEFINE us == <<t>>
  <2>0. us \in Lists BY DEF Lists
  <2> SUFFICES ASSUME Good(us) PROVE First(us) = us[1]
    <3> HIDE DEF us, Good, First
    <3>1. QED BY <2>0 DEF us
  <2>1. us[1] = t /\ Len(us) = 1 /\ 1 \in 1 .. 1 OBVIOUS
  <2>2. Join(us, Hash) = t BY MarksAre, JoinOne
  <2>3. ~Has(t, Hash) /\ Length(t) <= max
    <3>1. Good(us) OBVIOUS
    <3> HIDE DEF us
    <3>2. QED BY <2>1, <3>1
  <2>4. Cut(t, max) = t BY <2>3, CutAll
  <2>5. Split(t, Hash, most) = us BY <2>3, SplitPlain
  <2> HIDE DEF us
  <2>6. QED BY <2>2, <2>4, <2>5
<1>2. \A us \in P, t \in Text : Append(us, t) \in P
  <2> SUFFICES ASSUME NEW us \in P, NEW t \in Text PROVE Append(us, t) \in P OBVIOUS
  <2> DEFINE vs == Append(us, t)
  <2>1. us \in Lists /\ (Good(us) => First(us) = us[1]) OBVIOUS
  <2>2. us \in Seq(Text) /\ Len(us) \in Nat \ {0} BY <2>1, ListIs
  <2>3. /\ vs \in Seq(Text) /\ vs # <<>> /\ Len(vs) = Len(us) + 1
        /\ \A i \in 1 .. Len(us) : vs[i] = us[i]
        /\ vs[Len(us) + 1] = t
    BY <2>2, AppendProperties
  <2> HIDE DEF P, vs
  <2>4. vs \in Lists BY <2>3 DEF Lists
  <2>5. ASSUME Good(vs) PROVE First(vs) = vs[1]
    <3>1. 1 \in 1 .. Len(us) /\ vs[1] = us[1] BY <2>2, <2>3
    <3>2. Length(us[1]) <= max BY <2>5, <3>1
    <3>3. \A i \in 1 .. Len(us) : ~Has(us[i], Hash)
      <4>1. \A i \in 1 .. Len(us) : i \in 1 .. Len(vs) BY <2>2, <2>3
      <4>2. QED BY <2>3, <2>5, <4>1
    <3>4. ~Has(t, Hash)
      <4>1. Len(us) + 1 \in 1 .. Len(vs) BY <2>2, <2>3
      <4>2. QED BY <2>3, <2>5, <4>1
    <3> DEFINE s == Join(us, Hash)
               kept == Cut(Join(vs, Hash), max)
               all == Split(kept, Hash, most)
               c == Cut(t, max - 1 - Length(s))
    <3>5. \/ Length(s) < max /\ all = Append(us, c)
          \/ Length(s) >= max /\ kept = Cut(s, max)
      BY <2>1, <2>5, <3>3, <3>4, CutJoin DEF vs
    <3>6. CASE Length(s) >= max /\ kept = Cut(s, max)
      <4>1. Good(us) BY <2>5, <3>2, <3>3, <3>6
      <4>2. First(us) = us[1] BY <2>1, <4>1
      <4>3. QED BY <3>1, <3>6, <4>2
    <3>7. CASE Length(s) < max /\ all = Append(us, c)
      <4>1. s \in Text BY MarksAre, AtomIs, LengthJoin, <2>1
      <4>2. Length(s) \in Nat BY <4>1, LengthIsNat
      <4>3. max - 1 - Length(s) \in Nat BY <3>7, <4>2
      <4> DEFINE k == max - 1 - Length(s)
      <4>4. c \in Text
        <5>1. k \in Nat BY <4>3
        <5> HIDE DEF k
        <5>2. Cut(t, k) \in Text BY <5>1, MarksAre, CutStep
        <5>3. QED BY <5>2 DEF k
      <4> HIDE DEF c
      <4>5. Append(us, c)[1] = us[1] BY <2>2, <3>1, <4>4, AppendProperties
      <4>6. all[1] = us[1] BY <3>7, <4>5
      <4>7. QED BY <3>1, <4>6
    <3>8. QED BY <3>5, <3>6, <3>7
  <2>6. QED BY <2>4, <2>5 DEF P, vs
<1>3. P \in SUBSET Lists OBVIOUS
<1> HIDE DEF P
<1>4. P = Lists BY <1>1, <1>2, <1>3, InductionOnLists
<1>5. ss \in P BY <1>4
<1>6. QED BY <1>5 DEF P
LEMMA FrontIs ==
  ASSUME NEW ss \in Seq(Text), NEW n \in 1 .. Len(ss)
  PROVE  LET us == SubSeq(ss, 1, n)
         IN  /\ us \in Lists /\ Len(us) = n /\ \A i \in 1 .. n : us[i] = ss[i]
             /\ n = Len(ss) => us = ss
             /\ n < Len(ss) => SubSeq(ss, 1, n + 1) = Append(us, ss[n + 1])
<1> DEFINE Initial(k) == SubSeq(ss, 1, k)
<1>1. ASSUME NEW k \in 1 .. Len(ss)
      PROVE  /\ Initial(k) \in Seq(Text) /\ Len(Initial(k)) = k
             /\ \A i \in 1 .. k : Initial(k)[i] = ss[i]
  <2>1. 1 \in 1 .. Len(ss) + 1 /\ k \in 0 .. Len(ss) OBVIOUS
  <2>2. \A i \in 1 .. k : ss[i] \in Text OBVIOUS
  <2>3. /\ Initial(k) \in Seq(Text)
        /\ Len(Initial(k)) = IF 1 <= k THEN k - 1 + 1 ELSE 0
        /\ \A i \in 1 .. k - 1 + 1 : Initial(k)[i] = ss[1 + i - 1]
    BY <2>1, <2>2, SubSeqProperties
  <2> HIDE DEF Initial
  <2>4. QED BY <2>3
<1> DEFINE us == Initial(n)
<1>2. us \in Seq(Text) /\ Len(us) = n /\ \A i \in 1 .. n : us[i] = ss[i] BY <1>1
<1> HIDE DEF us
<1>3. us \in Lists
  <2>1. us # <<>> BY <1>2
  <2>2. QED BY <1>2, <2>1 DEF Lists
<1>4. n = Len(ss) => us = ss BY <1>2, SameList
<1>5. ASSUME n < Len(ss) PROVE Initial(n + 1) = Append(us, ss[n + 1])
  <2> DEFINE vs == Initial(n + 1)
             ws == Append(us, ss[n + 1])
  <2>1. n + 1 \in 1 .. Len(ss) /\ ss[n + 1] \in Text BY <1>5
  <2>2. vs \in Seq(Text) /\ Len(vs) = n + 1 /\ \A i \in 1 .. n + 1 : vs[i] = ss[i]
    BY <1>1, <2>1
  <2>3. /\ ws \in Seq(Text) /\ Len(ws) = Len(us) + 1 /\ ws[Len(us) + 1] = ss[n + 1]
        /\ \A i \in 1 .. Len(us) : ws[i] = us[i]
    BY <1>2, <2>1, AppendProperties
  <2> HIDE DEF vs, ws
  <2>4. \A i \in 1 .. Len(vs) : vs[i] = ws[i]
    <3> SUFFICES ASSUME NEW i \in 1 .. Len(vs) PROVE vs[i] = ws[i] OBVIOUS
    <3>1. CASE i = n + 1 BY <1>2, <2>2, <2>3, <3>1
    <3>2. CASE i # n + 1
      <4>1. i \in 1 .. n BY <2>2, <3>2
      <4>2. QED BY <1>2, <2>2, <2>3, <4>1
    <3>3. QED BY <3>1, <3>2
  <2>5. vs = ws BY <1>2, <2>2, <2>3, <2>4, SameList
  <2>6. QED BY <2>5 DEF vs, ws
<1>6. QED BY <1>2, <1>3, <1>4, <1>5 DEF us
=============================================================================
