-------------------------- MODULE TransactionDocs --------------------------
(***************************************************************************)
(* What comments of the source say of a transaction, and the code does not *)
(* do: each of these is refuted by a run.                                  *)
(***************************************************************************)
EXTENDS TransactionProps

\* DBInsertOptions::can_add_stations: "If false, it will not create a missing
\* station record, and only data for existing stations can be added."
OnlyExistingStations ==
    [][\A k \in Stations, V \in VarSets, dt \in Datetimes, lt \in LevTrs,
          cr \in BOOLEAN :
          InsertData(k, MissingId, dt, lt, V, cr, FALSE)
             => (k \in {r.key : r \in station'}
                   => k \in {r.key : r \in station})
      ]_vars
=============================================================================
