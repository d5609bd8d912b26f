----------------------------- MODULE BugLifecycle -----------------------------
(***************************************************************************)
(* What the pipeline promises about every bug, whatever is delivered       *)
(* twice, late or to whom: a fact about a bug is never taken back, and it  *)
(* becomes known only after the facts it rests on.                         *)
(*                                                                         *)
(*   bug.ingest.request -> bug.created -> bug.classified -> bug.scored     *)
(*      -> bug.triaged                                       (README.md)   *)
(***************************************************************************)
CONSTANT Bug

VARIABLE facts      \* what is known of each bug

Fact == {"stored", "announced", "classified", "deduplicated",
         "asked", "scored", "triaged"}

(* A row comes first; dedup judges what was announced; a bug is scored if  *)
(* dedup passed it on or somebody asked for it; and analyzed if scored.    *)
Earned(b, f) ==
    CASE f \in {"stored", "asked"} -> TRUE
      [] f = "announced" -> "stored" \in facts[b]
      [] f \in {"classified", "deduplicated"} -> "announced" \in facts[b]
      [] f = "scored" -> /\ "stored" \in facts[b]
                         /\ facts[b] \cap {"classified", "asked"} # {}
      [] f = "triaged" -> "scored" \in facts[b]

Learn(b, f) ==
    /\ Earned(b, f)
    /\ facts' = [facts EXCEPT ![b] = @ \cup {f}]

Init == facts = [b \in Bug |-> {}]
Next == \E b \in Bug, f \in Fact : Learn(b, f)
Spec == Init /\ [][Next]_facts
=============================================================================
