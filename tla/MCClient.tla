------------------------------- MODULE MCClient -------------------------------
(* Instances of Client for TLC: another process on the same machine and one *)
(* on another machine.                                                      *)
EXTENDS Client

Strangers == {<<"h1", 2>>, <<"h2", 1>>}
=============================================================================
