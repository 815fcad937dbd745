------------------------- MODULE UpdateControllerMC -------------------------
(* The plans of the runs of UpdateController.                               *)
EXTENDS UpdateController

Plan(migrates, compatible, misbuilt) ==
    [migrates |-> migrates, compatible |-> compatible, misbuilt |-> misbuilt]

\* A migration with no way back, built right and wrong; one that the release
\* before reads; and a wrong build without a migration.
SomePlans == {Plan(TRUE, FALSE, FALSE), Plan(TRUE, FALSE, TRUE),
              Plan(TRUE, TRUE, FALSE), Plan(FALSE, TRUE, TRUE)}

\* For liveness: one that must not be switched back, built wrong; and a good one.
TwoPlans == {Plan(TRUE, FALSE, TRUE), Plan(TRUE, TRUE, FALSE)}

\* A runner that ends half way does not meet a restart, a registration or a rollback.
OneDisturbance == (used.crashes + used.restarts + used.registered + used.rollbacks)' <= 1
=============================================================================
