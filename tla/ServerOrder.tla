----------------------------- MODULE ServerOrder -----------------------------
(***************************************************************************)
(* The server, and which messages were stored while their receiver was     *)
(* away: what a document of the repository says of their order.            *)
(***************************************************************************)
EXTENDS Server

VARIABLE offline   \* the rows inserted while the receiver was not connected

OrderInit == Init /\ offline = {}

OrderNext ==
  /\ Next
  /\ offline' =
       offline \cup RowsOf({m \in sent' \ sent : ~Connected(m.receiver)})

OrderSpec == OrderInit /\ [][OrderNext]_<<vars, offline>>

(* "Mensajes offline llegan en el mismo orden en que se enviaron": a        *)
(* message stored while its receiver was away is not handed over before an  *)
(* older one that was stored while it was away too (SEND's own attempt      *)
(* does not look whether older messages wait).                              *)
OfflineOrder ==
  [][\A m \in messages :
       m.row \in offline /\ m.row \in handed' \ handed =>
         \A k \in PendingOf(m.receiver) :
           k.row < m.row => k.row \notin offline]_<<vars, offline>>
=============================================================================
