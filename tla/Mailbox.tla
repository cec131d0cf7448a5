------------------------------- MODULE Mailbox -------------------------------
(***************************************************************************)
(* What the server promises about messages, whatever its threads, users    *)
(* and failures do: a store that keeps every message until it has been     *)
(* handed over at least once, or its receiver asks to be unregistered.     *)
(* Where msg_delete names an identifier, the messages that share it with a *)
(* handed one may go too.  A message may be handed over more than once,    *)
(* also after it left the store; one that was never accepted is not, and   *)
(* the sender gets a receipt only for what was handed over.                *)
(***************************************************************************)
CONSTANT Owners     \* the users messages are kept for

VARIABLES accepted, \* the messages SEND accepted: records with the fields
                    \* row, which names the message, id and receiver
          waiting,  \* those that are in the store
          out,      \* the rows handed over
          forgone,  \* the rows that an UNREGISTER of their receiver took
          receipts  \* the rows the sender has a receipt for

mail == <<accepted, waiting, out, forgone, receipts>>

MailInit ==
  accepted = {} /\ waiting = {} /\ out = {} /\ forgone = {} /\ receipts = {}

Accept ==
  \E m \in accepted' \ accepted :
    /\ \A k \in accepted : k.row # m.row
    /\ accepted' = accepted \cup {m} /\ waiting' = waiting \cup {m}
    /\ UNCHANGED <<out, forgone, receipts>>

Hand ==
  /\ \E m \in accepted : out' = out \cup {m.row}
  /\ UNCHANGED <<accepted, waiting, forgone, receipts>>

\* m was handed over, or goes in the place of a message that was.
MayGo(m) ==
  \E k \in accepted : k.row \in out /\ k.receiver = m.receiver /\ k.id = m.id

Remove ==
  /\ waiting' \subseteq waiting
  /\ \A m \in waiting \ waiting' : MayGo(m)
  /\ UNCHANGED <<accepted, out, forgone, receipts>>

\* An UNREGISTER of the receiver takes all that waited for it, also when it
\* fails after that and the receiver stays.
Drop(n) ==
  /\ waiting' = {m \in waiting : m.receiver # n}
  /\ forgone' = forgone \cup {m.row : m \in waiting \ waiting'}
  /\ UNCHANGED <<accepted, out, receipts>>

Confirm ==
  /\ \E r \in out : receipts' = receipts \cup {r}
  /\ UNCHANGED <<accepted, waiting, out, forgone>>

MailNext == Accept \/ Hand \/ Remove \/ Confirm \/ \E n \in Owners : Drop(n)

MailSpec == MailInit /\ [][MailNext]_mail
=============================================================================
