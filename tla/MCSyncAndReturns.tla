---- MODULE MCSyncAndReturns ----
EXTENDS DataSync, MCTaxReturns

CONSTANTS d1, d2, w1, w2, w3, r1, r2, r3

\* Two installs with one round each, one install with two rounds, or the taxes of
\* documents and their reports.
VARIABLE part

MCParent == [r \in Rows |-> IF r = r3 THEN r1 ELSE NoRow]
MCInstall == [x \in Runners |-> IF x = w2 THEN d2 ELSE d1]
MCRivals == {{r1, r2}}

\* The pair has rows that rival each other and is linked once; the other install
\* has a row that refers to another, and may be linked again or (in its first
\* link) lose an answer or have a change that SetStatus leaves undated.
Takes == IF part = "pair" THEN {w2, w3} ELSE {w1, w3}
Within ==
    IF part = "pair" THEN r3 \notin born' /\ \A x \in Devices : links'[x].gen <= 1 /\ lost' = 0
    ELSE /\ r2 \notin born' /\ links'[d2].gen = 0 /\ log'[d2] = <<>>
         /\ (lost' = 0 /\ apart' = {}) \/ links'[d1].gen <= 1

MCInit ==
    /\ part \in {"pair", "alone", "returns"}
    /\ SyncInit /\ TaxationInit
    /\ part # "returns" => company.country = "US"

SyncStep ==
    /\ \/ \E s \in Sites, r \in Rows : Edit(s, r) \/ SetStatus(s, r)
       \/ \E s \in Sites : \E i \in DOMAIN log[s] : CommitEdit(s, i) \/ AbortEdit(s, i)
       \/ \E x \in Devices : Link(x) \/ Unlink(x)
       \/ \E x \in Takes : Step(x) \/ StopRound(x)
    /\ Within

\* The rate table is India's; the other regimes' rates are in the code.
MCNext ==
    /\ UNCHANGED part
    /\ \/ part # "returns" /\ SyncStep /\ UNCHANGED taxVars
       \/ part = "returns" /\ TaxationNext /\ MCOverlaps /\ UNCHANGED syncVars
          /\ (company.country = "IN" \/ rates' = rates)
MCSpec == MCInit /\ [][MCNext]_<<syncVars, taxVars, part>>
====
