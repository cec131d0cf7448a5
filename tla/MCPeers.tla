------------------------------- MODULE MCPeers -------------------------------
(* A client and two others, of whom one has the file.  The name of the other *)
(* one reads as an address of the first; the client's own reads as nothing.  *)
EXTENDS Peers

AnasAddr == <<"h1", 1>>

\* None of these words is read as a host.
Text(n)   == [name |-> n, ip |-> "h1", port |-> 0]
Number(p) == [name |-> "bob", ip |-> "h1", port |-> p]

Words ==
  [n \in Names |-> CASE n = "bob"   -> <<Text("bob")>>
                     [] n = "bob:2" -> <<Text("bob"), Number(2)>>
                     [] n = "ana:w" -> <<Text("ana:w"), Text("ana:w")>>]
=============================================================================
