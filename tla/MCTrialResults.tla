---------------------------- MODULE MCTrialResults -----------------------------
(***************************************************************************)
(* Two strategies, one with a single attempt and one with two, on a case   *)
(* of each type.                                                           *)
(***************************************************************************)
EXTENDS TrialResults

EntryOf(c, type, strategy) == [case |-> c, type |-> type, trial |-> 1, strategy |-> strategy]

MCTrials ==
    <<EntryOf("c1", "direct", "direct-one-shot"), EntryOf("c1", "direct", "bumpshield"),
      EntryOf("c2", "transitive", "bumpshield"), EntryOf("c2", "transitive", "direct-one-shot")>>
MCBudget == [s \in {"direct-one-shot"} |-> 1] @@ [s \in {"bumpshield"} |-> 2]

\* One that ends well, one that meets an outage, and one that times out.
MCProviders ==
    {[status |-> "SUCCESS", says |-> {}], [status |-> "ERROR", says |-> {"quota", "exit"}],
     [status |-> "TIMEOUT", says |-> {}]}

MCDiagnoses ==
    {[hypothesis |-> "right", ready |-> r, localized |-> r] : r \in BOOLEAN}
=============================================================================
