\* Packets of four mixes at any times, with a restart of the analyzer.
SPECIFICATION SpanSpec
CONSTANTS
    p1 = p1
    p2 = p2
    p3 = p3
    m1 = m1
    m2 = m2
    ip1 = ip1
    ip2 = ip2
    Ips = {ip1, ip2}
    Ports = {p1, p2, p3}
    Macs = {m1, m2}
    Sec = 2
    Above <- MCAbove
    ScanPorts = 2
    ScanWindow = 2
    Cooldown = 2
    Mixes <- MCMixes
    MaxPackets = 5
    MaxTime = 5
    MaxRestarts = 1
INVARIANTS SpanTypeOK AlertsSound FloodsAlerted
CHECK_DEADLOCK FALSE
