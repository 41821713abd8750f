SPECIFICATION Spec
CONSTANTS
    Open = {o1}
    cable = cable
    iptv = iptv
    Channel = {news, sport}
    Source = {cable, iptv}
    Streams <- MCStreams
    MaxStreams <- MCMaxStreams
    Limits = {0, 1}
    None = None
    MaxBreaks = 1
    MaxFailovers = 1
INVARIANT HoldFollowsUpstream
CHECK_DEADLOCK FALSE
