--------------------------- MODULE MCManagedQueue ---------------------------
(***************************************************************************)
(* Instances of ManagedQueue for TLC.                                      *)
(***************************************************************************)
EXTENDS ManagedQueue

\* The backfill finds one row.  Rows and job ids are interchangeable, so one
\* choice of both stands for all.
OneStored ==
    /\ Init
    /\ LET r == CHOOSE r \in Row : TRUE
           j == CHOOSE j \in JobId : TRUE
       IN  (\A x \in Row : kind[x] = "text" <=> x = r) /\ job[j].row = r

StoredSpec == OneStored /\ [][Next]_vars /\ Fairness

=============================================================================
