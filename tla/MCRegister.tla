------------------------------ MODULE MCRegister ------------------------------
(***************************************************************************)
(* VerifactuChain on a small instance, in two parts: "chain" is two clerks *)
(* at a time and a clock, and nothing is sent; "submit" is one clerk and   *)
(* both senders, the clock stands still and the chain is shorter, as it is *)
(* in "chain" with a race. No failure comes with a record sent twice.      *)
(***************************************************************************)
EXTENDS VerifactuChain

CONSTANTS
    LastClerk,      \* the clerk who works in "chain" only
    MaxSubmitted    \* bound on the chain in "submit", and with a race

VARIABLES part

MCInit == VerifactuInit /\ part \in {"chain", "submit"}

MCNext ==
    /\ VerifactuNext
    /\ UNCHANGED part
    /\ IF part = "chain"
         THEN /\ sender' = sender /\ ~settings'.cert
              /\ raced' = {} \/ Len(chain') <= MaxSubmitted
              /\ ~(\E i \in Positions : event'[i] = "done" \/ sub'[i] # sub[i])
         ELSE /\ clerk'[LastClerk] = Free /\ now' = now /\ Len(chain') <= MaxSubmitted
              /\ faults' = 0 \/ doubled' = {}

MCSpec == MCInit /\ [][MCNext]_<<verifactuVars, part>> /\ VerifactuFairness
=============================================================================
