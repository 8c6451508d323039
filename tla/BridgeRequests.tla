---------------------------- MODULE BridgeRequests ----------------------------
(***************************************************************************)
(* Requests of the server to the bridge over its socket: OpenClawHandler   *)
(* admits one connection at a time, its read pump hands each reply to the  *)
(* request it belongs to and fails the pending ones when the connection    *)
(* ends, and Request waits for a connection, sends, waits, and tries       *)
(* twice.  One action is what a goroutine does between two critical        *)
(* sections or channel operations.                                         *)
(***************************************************************************)
EXTENDS Integers, FiniteSets

CONSTANTS
    Conn,     \* connections; one that is closed and forgotten may be dialed again
    Req,      \* calls of Request, each with a request id of its own
    NoConn    \* a nil connection

ASSUME ConnAssumption == NoConn \notin Conn

Attempt == {1, 2}

\* The channel that one attempt of a request waits on; it has room for one result.
Channel == Req \X Attempt

VARIABLES
    conns,     \* the state of each connection and of its read pump
    current,   \* h.conn
    requests,  \* h.requests: the attempt a request id is registered for, or 0
    held,      \* per read pump: channels it took from h.requests
    chan,      \* the content of each channel
    callers,   \* the local state of each call of Request
    sent       \* attempts that were written and whose reply has yet to be read

vars == <<conns, current, requests, held, chan, callers, sent>>

ConnState == {"closed", "upgraded", "open", "broken", "cleared", "failing"}

CallerPC == {"waiting", "connected", "registered", "writing", "select", "retrying", "leaving", "done"}

Caller == [pc : CallerPC, attempt : Attempt, conn : Conn \cup {NoConn}]

-----------------------------------------------------------------------------
(* Mutants *)

\* ServeHTTP does not look at h.conn again after the upgrade.
Unchecked == TRUE

\* A reply leaves its request registered.
TakenKept(r) == requests

\* Request returns without removing its registration.
RemovedNot(r) == requests

\* The read pump does not fail the pending requests.
PendingNone == {}

\* Request tries as often as it can.
MayAlwaysTry(r) == TRUE

-----------------------------------------------------------------------------
(* Connections *)

\* h.conn is nil.
Vacant == current = NoConn

\* No caller has anything to do with connection c any more.
Forgotten(c) == \A r \in Req : callers[r].conn # c

\* The bridge dials: ServeHTTP refuses if a bridge is connected, and upgrades otherwise.
Upgrade(c) ==
    /\ conns[c] = "closed" /\ Forgotten(c)
    /\ Vacant
    /\ conns' = [conns EXCEPT ![c] = "upgraded"]
    /\ UNCHANGED <<current, requests, held, chan, callers, sent>>

StillVacant == Vacant

\* Another connection may have been installed since.
Install(c) ==
    /\ conns[c] = "upgraded"
    /\ IF StillVacant
       THEN current' = c /\ conns' = [conns EXCEPT ![c] = "open"]
       ELSE current' = current /\ conns' = [conns EXCEPT ![c] = "closed"]
    /\ UNCHANGED <<requests, held, chan, callers, sent>>

\* The connection is lost, with any of the requests and replies on it; its read
\* fails next.
Break(c) ==
    /\ conns[c] = "open"
    /\ conns' = [conns EXCEPT ![c] = "broken"]
    /\ sent' \in SUBSET sent
    /\ UNCHANGED <<current, requests, held, chan, callers>>

-----------------------------------------------------------------------------
(* readPump *)

Taken(r) == [requests EXCEPT ![r] = 0]

\* The bridge answers a request over the connection that it has then.
\* tryResolveRequest looks the request up and removes it, whichever attempt the
\* reply is to; a reply to none goes to the browsers.
PumpTakes(c, r) ==
    /\ conns[c] = "open" /\ held[c] = {}
    /\ \E n \in Attempt : <<r, n>> \in sent /\ sent' = sent \ {<<r, n>>}
    /\ IF requests[r] = 0
       THEN UNCHANGED <<held, requests>>
       ELSE /\ held' = [held EXCEPT ![c] = {<<r, requests[r]>>}]
            /\ requests' = Taken(r)
    /\ UNCHANGED <<conns, current, chan, callers>>

\* The result goes into the channel if there is room.
Give(c, ch, result) ==
    /\ ch \in held[c]
    /\ chan' = [chan EXCEPT ![ch] = IF @ = "empty" THEN result ELSE @]
    /\ held' = [held EXCEPT ![c] = @ \ {ch}]
    /\ UNCHANGED <<conns, current, requests, callers, sent>>

PumpGives(c) == conns[c] \in {"open", "broken"} /\ \E ch \in held[c] : Give(c, ch, "reply")

\* The deferred function clears h.conn if it is this connection ...
PumpClears(c) ==
    /\ conns[c] = "broken" /\ held[c] = {}
    /\ current' = IF current = c THEN NoConn ELSE current
    /\ conns' = [conns EXCEPT ![c] = IF current = c THEN "cleared" ELSE "closed"]
    /\ UNCHANGED <<requests, held, chan, callers, sent>>

\* ... and then fails the requests that are pending: it takes all of them,
Pending == {ch \in Channel : requests[ch[1]] = ch[2]}

PumpSwaps(c) ==
    /\ conns[c] = "cleared"
    /\ held' = [held EXCEPT ![c] = Pending]
    /\ requests' = [r \in Req |-> 0]
    /\ conns' = [conns EXCEPT ![c] = "failing"]
    /\ UNCHANGED <<current, chan, callers, sent>>

\* ... gives each an error,
PumpFails(c) == conns[c] = "failing" /\ \E ch \in held[c] : Give(c, ch, "failed")

\* ... and closes the connection.
PumpCloses(c) ==
    /\ conns[c] = "failing" /\ held[c] = {}
    /\ conns' = [conns EXCEPT ![c] = "closed"]
    /\ UNCHANGED <<current, requests, held, chan, callers, sent>>

-----------------------------------------------------------------------------
(* Request *)

MyChannel(r) == <<r, callers[r].attempt>>

Goto(r, pc) == callers' = [callers EXCEPT ![r].pc = pc]

\* Only the first attempt may be followed by another.
MayTryAgain(r) == callers[r].attempt = 1

\* The attempt is over.
Leave(r, mayRetry) ==
    callers' = [callers EXCEPT ![r].conn = NoConn, ![r].pc =
                    IF mayRetry /\ MayTryAgain(r) THEN "retrying" ELSE "leaving"]

\* waitForConnection sees a connection ...
SeesConnection(r) ==
    /\ callers[r].pc = "waiting"
    /\ ~ Vacant
    /\ Goto(r, "connected")
    /\ UNCHANGED <<conns, current, requests, held, chan, sent>>

\* ... or times out between two looks, or its context ends.
WaitExpires(r) ==
    /\ callers[r].pc = "waiting"
    /\ Goto(r, "done")
    /\ UNCHANGED <<conns, current, requests, held, chan, sent>>

RegisterRequest(r) ==
    /\ callers[r].pc = "connected"
    /\ requests' = [requests EXCEPT ![r] = callers[r].attempt]
    /\ Goto(r, "registered")
    /\ UNCHANGED <<conns, current, held, chan, sent>>

\* SendToOpenClaw reads h.conn; without a connection the caller may try again.
ReadConn(r) ==
    /\ callers[r].pc = "registered"
    /\ IF Vacant THEN Leave(r, TRUE)
       ELSE callers' = [callers EXCEPT ![r].pc = "writing", ![r].conn = current]
    /\ UNCHANGED <<conns, current, requests, held, chan, sent>>

\* The write; on a connection that is lost it may succeed all the same.
Write(r) ==
    /\ callers[r].pc = "writing"
    /\ conns[callers[r].conn] # "closed"
    /\ Goto(r, "select")
    /\ sent' = IF conns[callers[r].conn] = "open" THEN sent \cup {MyChannel(r)} ELSE sent
    /\ UNCHANGED <<conns, current, requests, held, chan>>

WriteFails(r) ==
    /\ callers[r].pc = "writing"
    /\ conns[callers[r].conn] # "open"
    /\ Leave(r, FALSE)
    /\ UNCHANGED <<conns, current, requests, held, chan, sent>>

Receive(r) ==
    /\ callers[r].pc = "select"
    /\ chan[MyChannel(r)] # "empty"
    /\ Leave(r, chan[MyChannel(r)] = "failed")
    /\ UNCHANGED <<conns, current, requests, held, chan, sent>>

ContextEnds(r) ==
    /\ callers[r].pc = "select"
    /\ Leave(r, FALSE)
    /\ UNCHANGED <<conns, current, requests, held, chan, sent>>

\* removeRequest, on every way out.
\* Nobody reads the attempt's channel any more, and what it holds is forgotten.
Removed(r) == [requests EXCEPT ![r] = 0]

Remove(r) ==
    /\ callers[r].pc \in {"retrying", "leaving"}
    /\ requests' = Removed(r)
    /\ chan' = [chan EXCEPT ![MyChannel(r)] = "empty"]
    /\ IF callers[r].pc = "retrying"
       THEN callers' = [callers EXCEPT ![r].pc = "waiting", ![r].attempt = @ + 1]
       ELSE Goto(r, "done")
    /\ UNCHANGED <<conns, current, held, sent>>

-----------------------------------------------------------------------------
(* The specification *)

Init ==
    /\ conns = [c \in Conn |-> "closed"]
    /\ current = NoConn
    /\ requests = [r \in Req |-> 0]
    /\ held = [c \in Conn |-> {}]
    /\ chan = [ch \in Channel |-> "empty"]
    /\ callers = [r \in Req |-> [pc |-> "waiting", attempt |-> 1, conn |-> NoConn]]
    /\ sent = {}

ServerStep(c) == Upgrade(c) \/ Install(c) \/ Break(c)

ReadPumpStep(c) ==
    \/ \E r \in Req : PumpTakes(c, r)
    \/ PumpGives(c) \/ PumpClears(c) \/ PumpSwaps(c) \/ PumpFails(c) \/ PumpCloses(c)

CallerStep(r) ==
    \/ SeesConnection(r) \/ WaitExpires(r) \/ RegisterRequest(r) \/ ReadConn(r)
    \/ Write(r) \/ WriteFails(r) \/ Receive(r) \/ Remove(r)

Next ==
    \/ \E c \in Conn : ServerStep(c) \/ ReadPumpStep(c)
    \/ \E r \in Req : CallerStep(r) \/ ContextEnds(r)

Spec == Init /\ [][Next]_vars

\* Goroutines run; the bridge answers every request or loses its connection.
\* Contexts need never end.
Fairness ==
    /\ \A c \in Conn : WF_vars(ReadPumpStep(c))
    /\ \A r \in Req : WF_vars(CallerStep(r))

FairSpec == Spec /\ Fairness

-----------------------------------------------------------------------------
(* Properties *)

\* The type invariant.
TypeOK ==
    /\ conns \in [Conn -> ConnState]
    /\ current \in Conn \cup {NoConn}
    /\ requests \in [Req -> {0} \cup Attempt]
    /\ held \in [Conn -> SUBSET Channel]
    /\ chan \in [Channel -> {"empty", "reply", "failed"}]
    /\ callers \in [Req -> Caller]
    /\ sent \subseteq Channel

\* A connection whose read pump has not yet failed the pending requests.
Live(c) == c \in Conn /\ conns[c] \in {"open", "broken", "cleared"}

IsHeld(ch) == \E c \in Conn : ch \in held[c]

\* At most one connection is installed, and h.conn is that one: the check before
\* the upgrade and the one after it admit no second.
OneConnection == \A c \in Conn : conns[c] \in {"open", "broken"} <=> current = c

\* No wake-up is lost: a request that waits for its reply is registered while the
\* connection it was written to lives, or a read pump is about to serve it.
WaitersAreServed ==
    \A r \in Req : callers[r].pc = "select" /\ chan[MyChannel(r)] = "empty" =>
        \/ IsHeld(MyChannel(r))
        \/ requests[r] = callers[r].attempt /\ Live(callers[r].conn)

\* A channel is registered, held by one read pump or filled, but not two of
\* these: the result of a request is never dropped because another came first.
OneResult ==
    \A ch \in Channel :
        /\ requests[ch[1]] = ch[2] => ~ IsHeld(ch)
        /\ requests[ch[1]] = ch[2] \/ IsHeld(ch) => chan[ch] = "empty"
        /\ \A c, d \in Conn : ch \in held[c] /\ ch \in held[d] => c = d

\* Requests that have returned, or wait for a connection, are not registered:
\* h.requests does not grow.
NoLeak ==
    \A r \in Req : requests[r] # 0 =>
        /\ requests[r] = callers[r].attempt
        /\ callers[r].pc \in {"registered", "writing", "select", "retrying", "leaving"}

\* However connections, requests and read pumps interleave: one connection, no result that is
\* dropped, no registration that stays.
ChannelsAreSound == OneConnection /\ OneResult /\ NoLeak

\* A request fails for a lost connection only if the connection it was written
\* to is lost.
FailsWithItsConnection ==
    \A r \in Req : callers[r].pc = "select" /\ chan[MyChannel(r)] = "failed" =>
        conns[callers[r].conn] # "open"

\* Every request returns, although its context may never end.
RequestsReturn == <>(\A r \in Req : callers[r].pc = "done")

=============================================================================
