-------------------------- MODULE MCHealthChecker --------------------------
EXTENDS HealthChecker
Settings(enabled, fall, rise) == [enabled |-> enabled, fall |-> fall, rise |-> rise]
MCHcConfigs == {Settings(FALSE, 2, 2), Settings(TRUE, 2, 2), Settings(TRUE, 1, 3)}
=============================================================================
