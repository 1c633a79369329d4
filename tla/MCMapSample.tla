----------------------------- MODULE MCMapSample ------------------------------
(* Finite instances of MapSample for TLC. *)
EXTENDS MapSample

\* Files of others: two fields, one of any kind and value, the second one cut short perhaps;
\* three fields, of which one may come twice; one to five fields that are all missing.
Any(id) == IF id = "other" THEN {"num"} ELSE Decodes(id) \cup {"alien"}
AnyField == UNION { { [id |-> id, value |-> v] : v \in Any(id) } : id \in Field \cup {"other"} }
Cut == { [id |-> id, value |-> "cut"] : id \in {"ashort", "astring"} }
Some == { [id |-> "ashort", value |-> "high"], [id |-> "astring", value |-> "text"],
          [id |-> "abool", value |-> "true"] }
Announcing(nr, fields) == [nr |-> nr, fields |-> fields, of |-> NewSample]
MCForeign ==
    { Announcing(2, <<f, g>>) : f \in AnyField, g \in Some \cup Cut }
    \cup { Announcing(2, <<f, g>>) : f \in Some, g \in AnyField }
    \cup { Announcing(3, fields) : fields \in [1 .. 3 -> Some] }
    \cup { Announcing(nr, <<>>) : nr \in 1 .. 5 }

\* What follows in another message: a field that is cut, one that is whole, or two.
MCTails ==
    { << [id |-> "ashort", value |-> "cut"] >>, << [id |-> "abool", value |-> "true"] >>,
      << [id |-> "astring", value |-> "text"] >>,
      << [id |-> "astring", value |-> "bad"], [id |-> "abool", value |-> "false"] >> }
=============================================================================
