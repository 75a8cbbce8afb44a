CONSTANT Magnifications <- Signs
SPECIFICATION Spec
INVARIANTS
    TypeOK
    ReadyBeforeFrames
    LicenseFirst
PROPERTY ExitReleasesModules
CHECK_DEADLOCK FALSE
