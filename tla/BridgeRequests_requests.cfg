\* Two connections that come and go, two requests.
SPECIFICATION FairSpec
CONSTANTS
    c1 = c1
    c2 = c2
    r1 = r1
    r2 = r2
    NoConn = NoConn
    Conn = {c1, c2}
    Req = {r1, r2}
INVARIANTS TypeOK WaitersAreServed ChannelsAreSound
PROPERTIES RequestsReturn
