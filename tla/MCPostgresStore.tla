-------------------------- MODULE MCPostgresStore --------------------------
(* Small instances of PostgresStore for TLC. *)
EXTENDS PostgresStore

CONSTANTS s1, s2, b1, b2
TwoSaves == {s1, s2}
TwoBackfills == {b1, b2}
Symmetry == Permutations(TwoSaves) \cup Permutations(TwoBackfills)

Fresh == [state |-> NoRow, probes |-> <<>>, intervals |-> <<>>, backfilled |-> FALSE,
          alerts |-> <<>>, notified |-> NoStatus]

\* A failing monitor of a version without intervals, and the same some time later.
Old == [Fresh EXCEPT !.state = [NoRow EXCEPT !.status = "FAILING", !.failures = 1],
                     !.probes = <<TRUE, FALSE>>]
Later == [Old EXCEPT !.intervals = <<"UP", "FAILING">>, !.backfilled = TRUE]

FreshOrOld == {Fresh, Old, Later}
=============================================================================
