----------------------------- MODULE TradeStore -----------------------------
(***************************************************************************)
(* What a batch inserter promises to the handlers that feed it, whatever   *)
(* it does inside: an accepted row stays outstanding until one upsert that *)
(* contains it, or a later delivery of the same key, has been acknowledged *)
(* by the database.  A statement whose acknowledgement is lost may still   *)
(* have been applied, so a row may be written more than once.  There is no *)
(* promise about the order in which deliveries of one key reach the table. *)
(* The store ends only after it was told to stop, and rows that are        *)
(* outstanding then are gone.                                              *)
(***************************************************************************)
EXTENDS Naturals

CONSTANTS Keys,     \* primary keys (tx_signature, ix_index)
          Rows      \* deliveries: records with a key and a number n

VARIABLES outstanding,  \* accepted rows that no acknowledged upsert covers yet
          table,        \* key -> number of the delivery it holds, 0: no row
          phase         \* "running", "stopping" (told to), "ended"

svars == <<outstanding, table, phase>>

\* The deliveries of S that remain when only the latest one of each key is kept.
Latest(S) == {r \in S : \A q \in S : q.key = r.key => q.n <= r.n}

\* The table after upserting the latest delivery of each key of S.
Upserted(t, S) ==
    [k \in Keys |-> IF \E r \in S : r.key = k
                    THEN (CHOOSE r \in Latest(S) : r.key = k).n
                    ELSE t[k]]

Init == /\ outstanding = {} /\ phase = "running"
        /\ table = [k \in Keys |-> 0]

Accept(r) == /\ phase # "ended"
             /\ outstanding' = outstanding \cup {r}
             /\ UNCHANGED <<table, phase>>

\* One acknowledged statement settles all the rows it was built from.
Persist(S) == /\ S \subseteq outstanding
              /\ outstanding' = outstanding \ S
              /\ table' = Upserted(table, S)
              /\ UNCHANGED phase

\* The statement is applied, its acknowledgement is not received.
PersistUnacked(S) == /\ S \subseteq outstanding
                     /\ table' = Upserted(table, S)
                     /\ UNCHANGED <<outstanding, phase>>

\* The pruner deletes the rows of K from the table.
Prune(K) == /\ table' = [k \in Keys |-> IF k \in K THEN 0 ELSE table[k]]
            /\ UNCHANGED <<outstanding, phase>>

\* Shutdown is signalled; some time later the inserter ends.
Stop == phase = "running" /\ phase' = "stopping" /\ UNCHANGED <<outstanding, table>>

End == /\ phase = "stopping" /\ phase' = "ended"
       /\ outstanding' = {}
       /\ UNCHANGED table

Next == \/ \E r \in Rows : Accept(r)
        \/ \E S \in SUBSET outstanding : Persist(S) \/ PersistUnacked(S)
        \/ \E K \in SUBSET Keys : Prune(K)
        \/ Stop \/ End

Spec == Init /\ [][Next]_svars
=============================================================================
