\* Violation: the end of one connection fails a request sent over the next.
SPECIFICATION Spec
CONSTANTS
    c1 = c1
    c2 = c2
    r1 = r1
    r2 = r2
    NoConn = NoConn
    Conn = {c1, c2}
    Req = {r1}
INVARIANTS FailsWithItsConnection
