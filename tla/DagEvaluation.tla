--------------------------- MODULE DagEvaluation ---------------------------
(***************************************************************************)
(* What the scheduler promises to its clients, without queues, workers,     *)
(* cache or calls: every group of a submitted DAG ends once, it is executed *)
(* only if the groups it depends on succeeded, it is skipped only if one of *)
(* them did not, and the evaluation is announced as done when all of its    *)
(* groups have ended or when the client leaves.                             *)
(***************************************************************************)
CONSTANTS Client, Group, Owner, Deps, Outs

VARIABLES live, gone, verdict, announced

dagvars == <<live, gone, verdict, announced>>

(* The groups whose outputs g takes as input *)
Producers(g) == {h \in Group : Outs[h] \cap Deps[g] # {}}

DagInit ==
    /\ live = {}
    /\ gone = {}
    /\ verdict = [g \in Group |-> "none"]
    /\ announced = {}

Submit(c) ==
    /\ c \notin live \cup gone
    /\ live' = live \cup {c}
    /\ UNCHANGED <<gone, verdict, announced>>

Finish(g, r) ==
    /\ Owner[g] \in live
    /\ verdict[g] = "none"
    /\ \A h \in Producers(g) : verdict[h] = "ok"
    /\ verdict' = [verdict EXCEPT ![g] = r]
    /\ UNCHANGED <<live, gone, announced>>

(* The groups in S are skipped, all because of groups that already ended. *)
Skip(S) ==
    /\ \A g \in S : /\ Owner[g] \in live
                    /\ verdict[g] = "none"
                    /\ \E h \in Producers(g) : verdict[h] \in {"fail", "internal", "skipped"}
    /\ verdict' = [g \in Group |-> IF g \in S THEN "skipped" ELSE verdict[g]]
    /\ UNCHANGED <<live, gone, announced>>

Announce(c) ==
    /\ c \in live
    /\ \A g \in Group : Owner[g] = c => verdict[g] # "none"
    /\ announced' = announced \cup {c}
    /\ UNCHANGED <<live, gone, verdict>>

Leave(c) ==
    /\ c \notin gone
    /\ live' = live \ {c}
    /\ gone' = gone \cup {c}
    /\ announced' = announced \/ announced' = announced \cup {c}
    /\ UNCHANGED verdict

DagNext ==
    \/ \E c \in Client : Submit(c) \/ Announce(c) \/ Leave(c)
    \/ \E g \in Group, r \in {"ok", "fail", "internal"} : Finish(g, r)
    \/ \E S \in SUBSET Group : Skip(S)

DagSpec == DagInit /\ [][DagNext]_dagvars

=============================================================================
