------------------------------ MODULE MCSched ------------------------------
(***************************************************************************)
(* Instances of Sched for TLC.                                             *)
(***************************************************************************)
EXTENDS Sched

\* The applications of apps/: app1 reads the additional page, the others none.
RepositoryApps == [t \in Tasks |-> IF t = 0 THEN {"additional"} ELSE {"own"}]

\* An application that also strays to an address nothing maps.
StrayingApps ==
  [t \in Tasks |-> IF t = 0 THEN {"additional"} ELSE {"own", "unmapped"}]
=============================================================================
