---------------------------- MODULE MCQueueState ----------------------------
(* Small instances of QueueState for TLC. *)
EXTENDS QueueState, TLC

OneTalk  == {1}
TwoTalks == {1, 2}

AllFillers == {"scan_shownotes", "update_talk_publishing", "record_pptx", "source_repairs"}
AllRepairs == {"pending", "needs-reprocessing", "processed_partial", "skipped_no_sources"}

\* Run ids and batch ids are compared and never read otherwise.
RunSymmetry == Permutations(Runs)
Symmetry == RunSymmetry \union Permutations(Sources)

\* The second of two talks is there for the batches: it is pending at first, and only
\* claims, recoveries and returns change it.  NarrowInit chooses such initial states,
\* Narrow is an action constraint.
Rest == Talks \ {1}
NarrowInit ==
  /\ Init
  /\ \A t \in Rest : talks[t].status = "pending" /\ Cardinality(talks[t].sources) = 1
NarrowSpec == NarrowInit /\ [][Next]_vars
Narrow ==
  \A t \in Rest :
    /\ talks'[t].sources = talks[t].sources
    /\ talks'[t].reason = talks[t].reason
    /\ Open(talks[t]) /\ Open(talks'[t]) => talks'[t].status = talks[t].status

=============================================================================
