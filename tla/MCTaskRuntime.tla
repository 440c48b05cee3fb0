--------------------------- MODULE MCTaskRuntime ---------------------------
(***************************************************************************)
(* TaskRuntime for TLC: the symmetries of its row identities, sound for    *)
(* the safety runs, and the shapes of work a run is kept to.               *)
(***************************************************************************)
EXTENDS LedgerInvariant, TLC

Symmetry ==
    Permutations(Version) \cup Permutations(Hold) \cup Permutations(Lease) \cup Permutations(Call)

Filled(table) == {i \in DOMAIN table : table[i].state # "none"}
OnTasks == {lineage[l].task : l \in Filled(lineage)}
Numbered(S, all) == \A i \in S : \A j \in all : j < i => j \in S

\* Several lineages of the smallest size on one task, ended and restarted.
Restarted ==
    /\ Cardinality(OnTasks) <= 1 /\ Cardinality(Filled(hold)) <= 2
    /\ \A v \in Filled(version) : version[v].maximum = 1

\* Two lineages on one business cap.
Shared == Cardinality(Filled(lineage)) <= 2 /\ Cardinality(Filled(version)) <= 2

\* Tables only ever fill, so the states of a shape are all reached within it.
\* Lineages, envelopes and tasks are numbers, used in order.
RestartedOrShared ==
    /\ Numbered(Filled(lineage), Lineage)
    /\ Numbered(Filled(envelope), Envelope)
    /\ Numbered(OnTasks, Task)
    /\ Restarted \/ Shared
=============================================================================
