CONSTANTS
    KIB = 2
    USIZE_MAX = 1000
    Limits <- MCLimits
    DEFAULT_TARGET_SIZE = 1
    MINUTE = 2
    HOUR = 4
    U64_MAX = 2
    Hosts <- MCHosts
    LaunchArgs <- MCLaunchArgs
    Configs <- MCConfigs
    RESTART_POLL_ATTEMPTS = 2
SPECIFICATION Spec
CHECK_DEADLOCK FALSE
PROPERTIES
    BackupsResume
    RecordHeals
    StopEnds
