------------------------ MODULE MCProductionSchedule ------------------------
EXTENDS ProductionSchedule
=============================================================================
