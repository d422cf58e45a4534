------------------------------- MODULE Tables -------------------------------
(***************************************************************************)
(* Dictionaries: functions whose domain grows and shrinks, the form every  *)
(* Swift [K: V] table of the bridge takes in these specifications.         *)
(***************************************************************************)

EmptyTable == [k \in {} |-> k]

\* table[key] = value
Put(table, key, value) ==
    [k \in DOMAIN table \cup {key} |-> IF k = key THEN value ELSE table[k]]

\* table.removeValue(forKey: key); an absent key leaves the table as it is
Drop(table, key) == [k \in DOMAIN table \ {key} |-> table[k]]

IsTable(table, Keys, Values) ==
    DOMAIN table \subseteq Keys /\ table \in [DOMAIN table -> Values]

=============================================================================
