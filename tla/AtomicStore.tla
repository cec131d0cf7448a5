----------------------------- MODULE AtomicStore -----------------------------
(***************************************************************************)
(* What src/users.c promises its callers: every function acts on the       *)
(* tables at once.  When an SQL statement fails, or the process dies, the  *)
(* half-done effects of HalfRemove and SkippedId are possible too, and no  *)
(* others.                                                                 *)
(***************************************************************************)
EXTENDS UserStore

VARIABLE faulty   \* a statement has failed or the process has died

atomicVars == <<store, faulty>>

AtomicInit == StoreInit /\ faulty = FALSE

Operation ==
  \/ \E n \in Names, rc \in 0..2 :
       \/ UserAdd(n, rc)
       \/ UserRemove(n, rc)
       \/ \E a \in Addrs : UserConnect(n, a[1], a[2], rc)
       \/ UserDisconnect(n, rc)
  \/ \E r \in Names, s \in Names, rc \in 0..MaxId : MsgAdd(r, s, rc)
  \/ \E r \in Names, id \in 1..MaxId : MsgDelete(r, id)

AtomicNext ==
  \/ Operation /\ UNCHANGED faulty
  \/ faulty' = TRUE /\ UNCHANGED store
  \/ /\ faulty' = TRUE
     /\ \E n \in Names : HalfRemove(n) \/ SkippedId(n) \/ Operation

AtomicSpec == AtomicInit /\ [][AtomicNext]_atomicVars
=============================================================================
