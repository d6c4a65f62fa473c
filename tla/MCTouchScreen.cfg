SPECIFICATION Spec
INVARIANTS TypeOK SlotsAgree SuspendedIsSilent OffMeansSuspended AtMostOneStrayRead RemoveWaitsForAll
PROPERTIES ScreenComesBack
CHECK_DEADLOCK FALSE
