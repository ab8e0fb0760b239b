------------------------------- MODULE MCMasters -------------------------------
(***************************************************************************)
(* The records everything else refers to, on small instances, one part at  *)
(* a time: the catalogue with one manager at a time (deletions among other *)
(* work) and with two together (imports that overlap), a business brought  *)
(* over, the pipeline of leads, signatures and labels, and backups.        *)
(*                                                                         *)
(* Handwork and Begun bound what is done by single transactions (but for   *)
(* making units) and how many requests of several are begun; in "leads"    *)
(* there are three of them in all.                                         *)
(***************************************************************************)
EXTENDS Catalogue, Leads, DocumentMarks, Backups, TLC

CONSTANTS
    Second,         \* the manager who is there in "together" only
    Handwork,       \* [parts -> bounds]
    Begun           \* [parts -> bounds]

VARIABLES part, handwork, begun

mastersVars == <<catalogueVars, legacyVars, leadVars, marksVars, backupVars, part, handwork, begun>>

MCSkuOf == [n \in Names |-> "sku"]
Good(n, base, c, p, r, q) == [name |-> n, unit |-> "KG", base |-> base, barcode |-> c, price |-> p, rate |-> r, stock |-> q]
MCSheets == {<<Good("rice", "sku", "b1", 2, 0, 3), Good("dal", "sku", Empty, 0, 1, 0)>>,
             <<Good("rice", "r", Empty, 2, 0, 0), Good("rice", "r", "b1", 0, 0, 0)>>}

Someone(t, n, phone) == [type |-> t, name |-> n, phone |-> phone]
MCNewParties == {Someone("CUSTOMER", "asha", "100"), Someone("SUPPLIER", "asha", NoPhone), Someone("BOTH", "ravi", NoPhone)}
MCPartyFiles == {<<Someone("CUSTOMER", "asha", NoPhone), Someone("BOTH", "ravi", "100")>>}
Due1(n, s, a) == [name |-> n, side |-> s, amount |-> a]
MCBalanceFiles == {<<Due1("ravi", "RECEIVABLE", 5), Due1("ravi", "PAYABLE", 3)>>, <<Due1("asha", "", 7)>>}
Past(n, who, t, p) == [number |-> n, name |-> who, total |-> t, paid |-> p]
MCInvoiceFiles == {[kind |-> "SALE", rows |-> <<Past(1, "asha", 2, 1), Past(1, "asha", 2, 3)>>],
                   [kind |-> "PURCHASE", rows |-> <<Past(1, "ravi", 2, 0), Past(1, "ravi", 4, 0)>>]}

Draft(t, p, e) == [title |-> t, phone |-> p, email |-> e]
MCDrafts == {Draft("asha", NoPhone, "r@")}
MCLeadFiles == {<<Draft("asha", "100", "r@") @@ [stage |-> "Won", owner |-> "u1"],
                  Draft("meera", "100", NoEmail) @@ [stage |-> "New", owner |-> NoSeller]>>,
                <<Draft("ravi", NoPhone, NoEmail) @@ [stage |-> "Lost", owner |-> NoSeller]>>}
MCStages == "New" :> "OPEN" @@ "Won" :> "WON" @@ "Lost" :> "LOST"

MCHandwork == "apart" :> 2 @@ "together" :> 1 @@ "books" :> 4 @@ "leads" :> 2 @@ "marks" :> 0 @@ "backups" :> 0
MCBegun == "apart" :> 2 @@ "together" :> 2 @@ "books" :> 2 @@ "leads" :> 2 @@ "marks" :> 0 @@ "backups" :> 0

MCSymmetry == Permutations(Callers) \cup Permutations(Agents)

MCInit ==
    /\ CatalogueInit /\ LegacyInit /\ LeadsInit /\ MarksInit /\ BackupsInit
    /\ part \in DOMAIN Handwork /\ handwork = 0 /\ begun = 0

\* A step leaves the requests alone, or begins one, or carries one on.
Counted(requests, after, fresh) ==
    /\ handwork' = (IF after = requests /\ units' = units THEN handwork + 1 ELSE handwork)
    /\ begun' = (IF \E r \in DOMAIN requests : requests[r] = fresh /\ after[r] # fresh THEN begun + 1 ELSE begun)

CatalogueStep ==
    /\ part \in {"apart", "together"} /\ CatalogueNext
    /\ part = "apart" => manager'[Second] = Free
    /\ Counted(manager, manager', Free)
    /\ UNCHANGED <<legacyVars, leadVars, marksVars, backupVars>>

LegacyStep ==
    /\ part = "books" /\ LegacyNext
    /\ UNCHANGED <<catalogueVars, leadVars, marksVars, backupVars>>
    /\ Counted(caller, caller', Waiting)

LeadsStep ==
    /\ part = "leads"
    /\ LeadsNext \/ ((\E new \in NewParties : CreateParty(new)) /\ UNCHANGED leadVars)
    /\ Len(parties') <= 2
    /\ UNCHANGED <<catalogueVars, marksVars, backupVars>>
    /\ Counted(agent, agent', Unengaged)
    /\ handwork' + begun' <= 3

MarksStep == part = "marks" /\ MarksNext /\ UNCHANGED <<catalogueVars, legacyVars, leadVars, backupVars, handwork, begun>>

BackupsStep == part = "backups" /\ BackupsNext /\ UNCHANGED <<catalogueVars, legacyVars, leadVars, marksVars, handwork, begun>>

MCNext ==
    /\ CatalogueStep \/ LegacyStep \/ LeadsStep \/ MarksStep \/ BackupsStep
    /\ handwork' <= Handwork[part] /\ begun' <= Begun[part]
    /\ UNCHANGED part

MCSpec == MCInit /\ [][MCNext]_mastersVars
=============================================================================
