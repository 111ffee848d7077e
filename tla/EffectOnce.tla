----------------------------- MODULE EffectOnce -----------------------------
(***************************************************************************)
(* What the execution audit of crates/ptr-runtime promises about external  *)
(* effects, without its ledger, its memory and its failures: at most one   *)
(* attempt is open, an effect is applied only while its attempt is open, a *)
(* closed attempt's outcome is the truth, and an attempt under a key is    *)
(* begun only while no outcome says the key was applied.                   *)
(*                                                                         *)
(* ExecutionAudit implements this specification (AuditImplementsOnce), and *)
(* ExecWire builds the network host on it.                                 *)
(***************************************************************************)
EXTENDS Naturals

CONSTANTS
    Key, NoKey,  \* at-most-once keys; no key
    Attempt      \* names of attempts

ASSUME KeyAssumption == NoKey \notin Key

VARIABLES
    tried,    \* the key of every attempt that was begun
    open,     \* the attempts that are not settled or reconciled
    effects,  \* the attempts whose effect was applied
    outcome   \* what is recorded of each key: "none", "applied" or "not_applied"

onceVars == <<tried, open, effects, outcome>>

OnceTypeOK ==
    /\ DOMAIN tried \subseteq Attempt
    /\ \A i \in DOMAIN tried : tried[i] \in Key \cup {NoKey}
    /\ open \subseteq DOMAIN tried /\ effects \subseteq DOMAIN tried
    /\ outcome \in [Key -> {"none", "applied", "not_applied"}]

OnceInit ==
    /\ tried = [i \in {} |-> NoKey]
    /\ open = {} /\ effects = {}
    /\ outcome = [k \in Key |-> "none"]

\* A key whose effect applied is answered from history.
Spent(k) == k # NoKey /\ outcome[k] = "applied"

\* admit_effect logs the attempt.
Begin(i, k) ==
    /\ open = {} /\ i \in Attempt \ DOMAIN tried
    /\ ~Spent(k)
    /\ tried' = [j \in DOMAIN tried \cup {i} |-> IF j = i THEN k ELSE tried[j]]
    /\ open' = {i}
    /\ UNCHANGED <<effects, outcome>>

\* The executor or a detached adapter acts.
Apply(i) ==
    /\ i \in open \ effects
    /\ effects' = effects \cup {i}
    /\ UNCHANGED <<tried, open, outcome>>

\* The attempt is settled or reconciled.
Close(i) ==
    /\ i \in open
    /\ open' = open \ {i}
    /\ outcome' = IF tried[i] = NoKey THEN outcome
                  ELSE [outcome EXCEPT ![tried[i]] = IF i \in effects THEN "applied" ELSE "not_applied"]
    /\ UNCHANGED <<tried, effects>>

OnceNext ==
    \/ \E i \in Attempt, k \in Key \cup {NoKey} : Begin(i, k)
    \/ \E i \in open : Apply(i) \/ Close(i)

OnceSpec == OnceInit /\ [][OnceNext]_onceVars

\* An effect under a key is applied at most once.
KeyAppliesOnce ==
    \A i, j \in effects : tried[i] # NoKey /\ tried[i] = tried[j] => i = j

\* The inductive strengthening: the fence admits one attempt, and a key is
\* recorded as applied exactly when a closed attempt under it was.
OnceInv ==
    /\ OnceTypeOK
    /\ KeyAppliesOnce
    /\ \A i, j \in open : i = j
    /\ \A i \in effects \ open : tried[i] # NoKey => outcome[tried[i]] = "applied"
    /\ \A i \in open : ~Spent(tried[i])
=============================================================================
