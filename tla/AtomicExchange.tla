---------------------------- MODULE AtomicExchange ----------------------------
(***************************************************************************)
(* What an exchange promises its owners, without the machinery: its        *)
(* outcome is decided once, a commit only once every participant can still *)
(* publish its result, and each participant then learns that outcome.      *)
(***************************************************************************)
CONSTANTS Exchange, Adventure, Participants

VARIABLES
    outcome,  \* "open" until decided
    side      \* what each adventure keeps of each exchange

AtomicInit ==
    /\ outcome = [t \in Exchange |-> "open"]
    /\ side = [a \in Adventure |-> [t \in Exchange |-> "own"]]

\* A result is ready at one participant, even one nobody waits for any more.
Ready(a, t) ==
    /\ side[a][t] = "own"
    /\ side' = [side EXCEPT ![a][t] = "ready"]
    /\ UNCHANGED outcome

DecideCommit(t) ==
    /\ outcome[t] = "open"
    /\ \A a \in Participants[t] : side[a][t] = "ready"
    /\ outcome' = [outcome EXCEPT ![t] = "COMMIT"]
    /\ UNCHANGED side

\* Who has nothing ready to take back may learn of the abort with the decision.
DecideAbort(t) ==
    /\ outcome[t] = "open"
    /\ outcome' = [outcome EXCEPT ![t] = "ABORT"]
    /\ \E settled \in SUBSET {a \in Participants[t] : side[a][t] = "own"} :
          side' = [a \in Adventure |-> IF a \in settled THEN [side[a] EXCEPT ![t] = "kept"] ELSE side[a]]

\* A participant acts on the outcome, once.
Learn(a, t) ==
    /\ \/ outcome[t] = "COMMIT" /\ side[a][t] = "ready"
          /\ side' = [side EXCEPT ![a][t] = "swapped"]
       \/ outcome[t] = "ABORT" /\ side[a][t] \in {"own", "ready"}
          /\ side' = [side EXCEPT ![a][t] = "kept"]
    /\ UNCHANGED outcome

AtomicNext ==
    \E t \in Exchange :
        \/ DecideCommit(t) \/ DecideAbort(t)
        \/ \E a \in Participants[t] : Ready(a, t) \/ Learn(a, t)

AtomicSpec == AtomicInit /\ [][AtomicNext]_<<outcome, side>>
==============================================================================
