--------------------------- MODULE ImportContract ---------------------------
(***************************************************************************)
(* What an import job promises to the readers of its table: rows are       *)
(* gathered out of sight, and reach the table all at once or never.  Rows  *)
(* are never taken away.                                                   *)
(***************************************************************************)
CONSTANT Workers

VARIABLES table,     \* key -> row, what a reader sees
          gathered   \* [Workers -> (key -> row)]

Nothing == [key \in {} |-> 0]

Merge(old, new) ==
  [key \in DOMAIN old \cup DOMAIN new |-> IF key \in DOMAIN new THEN new[key] ELSE old[key]]

Init == /\ table = Nothing
        /\ gathered = [w \in Workers |-> Nothing]

Gather(w) == /\ \A key \in DOMAIN gathered[w] :
                  key \in DOMAIN gathered'[w] /\ gathered'[w][key] = gathered[w][key]
             /\ gathered' = [gathered EXCEPT ![w] = gathered'[w]]
             /\ UNCHANGED table

Publish(w) == /\ table' = Merge(table, gathered[w])
              /\ gathered' = [gathered EXCEPT ![w] = Nothing]

Abandon(w) == /\ gathered' = [gathered EXCEPT ![w] = Nothing]
              /\ UNCHANGED table

Next == \E w \in Workers : Gather(w) \/ Publish(w) \/ Abandon(w)

Spec == Init /\ [][Next]_<<table, gathered>>

=============================================================================
