SPECIFICATION FairSpec
CONSTANTS
    Intervals <- UnknownInterval
    DefaultOfflineTimeout = 1
    CapabilitiesTimeout = 1
    Horizon = 2
    Messages <- MCMessages
    ChannelStates <- ChannelMayFail
INVARIANT TimelineOnlyLags
PROPERTY AlertsAreReleased
