-------------------------- MODULE MCStatusHistory --------------------------
(* Small instances of StatusHistory for TLC. *)
EXTENDS StatusHistory

TwoDays == {2, 3}

\* The windows and the observer are looked through by reports, the others have the
\* intervals written anew.
AbsencesOrUpgrade ==
    {[events |-> {"maintenance", "observer", "removal"}, end |-> 4],
     [events |-> {"upgrade", "observer", "guard"}, end |-> 5]}

=============================================================================
