SPECIFICATION Spec
CONSTANTS
    Intervals <- MCIntervals
    DefaultOfflineTimeout = 2
    CapabilitiesTimeout = 2
    Horizon = 4
    Messages <- MCMessages
    ChannelStates <- ChannelUp
INVARIANT TypeOK
INVARIANT AlertProvenance
INVARIANT ClockIsLastAssertion
INVARIANT TimelineInSync
INVARIANT PagesShowDeviceAlert
PROPERTY ReleaseJustified
PROPERTY PollOnlyLiveAlert
PROPERTY ImplementsLatch
