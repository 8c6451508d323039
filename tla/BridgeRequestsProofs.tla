-------------------------- MODULE BridgeRequestsProofs ------------------------
(***************************************************************************)
(* Proofs about BridgeRequests, for any connections and requests: the      *)
(* types, and that no wake-up is lost, no result dropped, no registration  *)
(* left behind, and one connection installed.                              *)
(***************************************************************************)
EXTENDS BridgeRequests, TLAPS

-----------------------------------------------------------------------------
(* BridgeRequests: types *)

\* Only a first attempt is followed by another.
RetriesOnce == \A r \in Req : callers[r].pc = "retrying" => callers[r].attempt = 1

TypeInv == TypeOK /\ RetriesOnce

LEMMA TypeInit == Init => TypeInv
BY ConnAssumption DEF Init, TypeInv, TypeOK, RetriesOnce, ConnState, CallerPC, Caller, Attempt, Channel

\* What a step of a caller does to its own record.
LEMMA GotoType ==
    ASSUME TypeInv, NEW r \in Req, NEW pc \in CallerPC \ {"retrying"}, Goto(r, pc)
    PROVE  callers' \in [Req -> Caller] /\ RetriesOnce'
BY DEF TypeInv, TypeOK, RetriesOnce, Goto, Caller

LEMMA LeaveType ==
    ASSUME TypeInv, NEW r \in Req, NEW b \in BOOLEAN, Leave(r, b)
    PROVE  callers' \in [Req -> Caller] /\ RetriesOnce'
<1> DEFINE pc == IF b /\ MayTryAgain(r) THEN "retrying" ELSE "leaving"
<1>1. pc \in CallerPC /\ (pc = "retrying" => callers[r].attempt = 1)
    BY DEF MayTryAgain, CallerPC
<1>2. callers' = [callers EXCEPT ![r].conn = NoConn, ![r].pc = pc]
    BY DEF Leave
<1> HIDE DEF pc
<1>3. callers[r] \in Caller
    BY DEF TypeInv, TypeOK
<1>4. callers' \in [Req -> Caller]
    BY <1>1, <1>2, <1>3 DEF TypeInv, TypeOK, Caller
<1>5. /\ callers'[r].pc = pc /\ callers'[r].attempt = callers[r].attempt
      /\ \A q \in Req \ {r} : callers'[q] = callers[q]
    BY <1>2, <1>3 DEF TypeInv, TypeOK, Caller
<1> QED BY <1>1, <1>4, <1>5 DEF TypeInv, RetriesOnce

LEMMA TypeNext == TypeInv /\ [Next]_vars => TypeInv'
<1> SUFFICES ASSUME TypeInv, [Next]_vars PROVE TypeInv'
    OBVIOUS
<1> USE DEF TypeInv, TypeOK, RetriesOnce
<1>1. ASSUME NEW c \in Conn, ServerStep(c) PROVE TypeInv'
    BY <1>1 DEF ServerStep, Upgrade, Install, Break, StillVacant, Vacant, ConnState
<1>2. ASSUME NEW c \in Conn, ReadPumpStep(c) PROVE TypeInv'
    <2>1. ASSUME NEW r \in Req, PumpTakes(c, r) PROVE TypeInv'
        BY <2>1 DEF PumpTakes, Taken, Channel, Attempt
    <2>2. ASSUME NEW ch, NEW result \in {"reply", "failed"}, Give(c, ch, result) PROVE TypeInv'
        BY <2>2 DEF Give
    <2>3. CASE PumpClears(c) \/ PumpCloses(c)
        BY <2>3 DEF PumpClears, PumpCloses, ConnState
    <2>4. CASE PumpSwaps(c)
        BY <2>4 DEF PumpSwaps, Pending, ConnState
    <2> QED BY <1>2, <2>1, <2>2, <2>3, <2>4 DEF ReadPumpStep, PumpGives, PumpFails
<1>3. ASSUME NEW r \in Req, CallerStep(r) \/ ContextEnds(r) PROVE TypeInv'
    <2>1. CASE SeesConnection(r) \/ WaitExpires(r)
        BY <2>1, GotoType DEF SeesConnection, WaitExpires, CallerPC
    <2>2. CASE RegisterRequest(r)
        <3>1. callers' \in [Req -> Caller] /\ RetriesOnce'
            BY <2>2, GotoType DEF RegisterRequest, CallerPC
        <3> QED BY <2>2, <3>1 DEF RegisterRequest, Caller
    <2>3. CASE ReadConn(r)
        <3>1. CASE Vacant
            BY <2>3, <3>1, LeaveType DEF ReadConn
        <3>2. CASE ~ Vacant
            BY <2>3, <3>2 DEF ReadConn, Caller, CallerPC
        <3> QED BY <3>1, <3>2
    <2>4. CASE Write(r)
        <3>1. callers' \in [Req -> Caller] /\ RetriesOnce'
            BY <2>4, GotoType DEF Write, CallerPC
        <3> QED BY <2>4, <3>1 DEF Write, MyChannel, Channel, Caller
    <2>5. CASE WriteFails(r) \/ ContextEnds(r)
        BY <2>5, LeaveType DEF WriteFails, ContextEnds
    <2>6. CASE Receive(r)
        BY <2>6, LeaveType DEF Receive
    <2>7. CASE Remove(r)
        <3>1. callers' \in [Req -> Caller] /\ RetriesOnce'
            <4>1. CASE callers[r].pc = "retrying"
                BY <2>7, <4>1 DEF Remove, Caller, CallerPC, Attempt
            <4>2. CASE callers[r].pc # "retrying"
                BY <2>7, <4>2, GotoType DEF Remove, CallerPC
            <4> QED BY <4>1, <4>2
        <3> QED BY <2>7, <3>1 DEF Remove, Removed
    <2> QED BY <1>3, <2>1, <2>2, <2>3, <2>4, <2>5, <2>6, <2>7 DEF CallerStep
<1>4. CASE UNCHANGED vars
    BY <1>4 DEF vars
<1> QED BY <1>1, <1>2, <1>3, <1>4 DEF Next

\* Every variable keeps its type, and Request does not try a third time: an attempt
\* that ends with ErrOpenClawNotConnected is repeated only when it was the first.
THEOREM TypeCorrect == Spec => []TypeOK
<1>1. TypeInv => TypeOK
    BY DEF TypeInv
<1> QED BY <1>1, TypeInit, TypeNext, PTL DEF Spec

-----------------------------------------------------------------------------
(* The inductive invariant *)

\* A read pump holds channels while it hands over a reply or fails the pending requests.
Holders == \A c \in Conn : held[c] # {} => conns[c] \in {"open", "broken", "failing"}

\* From its registration on, an attempt is registered, in the hands of a read pump, or served.
Awaited ==
    \A r \in Req : callers[r].pc \in {"registered", "writing", "select"} =>
        \/ requests[r] = callers[r].attempt
        \/ IsHeld(MyChannel(r))
        \/ chan[MyChannel(r)] # "empty"

\* Request registers before it reads h.conn, so the connection that it writes to
\* will fail it unless it is served before.
WrittenToLive ==
    \A r \in Req : callers[r].pc \in {"writing", "select"} /\ requests[r] # 0 => Live(callers[r].conn)

\* The channel of an attempt that is not registered yet.
Ahead(ch) ==
    \/ ch[2] > callers[ch[1]].attempt
    \/ ch[2] = callers[ch[1]].attempt /\ callers[ch[1]].pc \in {"waiting", "connected"}

Untouched == \A ch \in Channel : Ahead(ch) => chan[ch] = "empty" /\ ~ IsHeld(ch)

IInv ==
    /\ TypeInv /\ OneConnection /\ OneResult /\ NoLeak
    /\ Holders /\ Awaited /\ WrittenToLive /\ Untouched

LEMMA InvInit == Init => IInv
<1> SUFFICES ASSUME Init PROVE IInv
    OBVIOUS
<1>1. TypeInv
    BY TypeInit
<1>2. OneConnection /\ OneResult /\ NoLeak /\ Holders
    BY ConnAssumption DEF Init, OneConnection, OneResult, NoLeak, Holders, IsHeld, Attempt, Channel
<1>3. Awaited /\ WrittenToLive /\ Untouched
    BY DEF Init, Awaited, WrittenToLive, Untouched, IsHeld
<1> QED BY <1>1, <1>2, <1>3 DEF IInv

\* A step of a connection that leaves requests, channels and callers alone.
LEMMA ConnStep ==
    ASSUME IInv, TypeInv', NEW c \in Conn,
           Upgrade(c) \/ Install(c) \/ Break(c) \/ PumpClears(c) \/ PumpCloses(c)
    PROVE  IInv'
<1> USE DEF IInv, TypeInv, TypeOK
<1>1. /\ UNCHANGED <<requests, held, chan, callers>>
      /\ \A d \in Conn \ {c} : conns'[d] = conns[d]
    BY DEF Upgrade, Install, Break, PumpClears, PumpCloses
<1>2. OneConnection'
    BY ConnAssumption DEF OneConnection, Upgrade, Install, Break, PumpClears, PumpCloses, StillVacant, Vacant
<1>3. OneResult' /\ NoLeak' /\ Awaited' /\ Untouched'
    BY <1>1 DEF OneResult, NoLeak, Awaited, Untouched, Ahead, IsHeld, MyChannel
<1>4. Holders'
    BY <1>1 DEF Holders, Upgrade, Install, Break, PumpClears, PumpCloses
<1>5. WrittenToLive'
    BY <1>1 DEF WrittenToLive, Live, OneConnection, Upgrade, Install, Break, PumpClears, PumpCloses
<1> QED BY <1>2, <1>3, <1>4, <1>5

LEMMA TakesStep ==
    ASSUME IInv, TypeInv', NEW c \in Conn, NEW r \in Req, PumpTakes(c, r), requests[r] # 0
    PROVE  IInv'
<1> USE DEF IInv, TypeInv, TypeOK
<1> DEFINE ch == <<r, requests[r]>>
<1>1. /\ UNCHANGED <<conns, current, chan, callers>>
      /\ held' = [held EXCEPT ![c] = {ch}]
      /\ requests' = [requests EXCEPT ![r] = 0]
      /\ held[c] = {} /\ conns[c] = "open"
    BY DEF PumpTakes, Taken
<1>2. ch \in Channel /\ ch[1] = r /\ ch[2] = requests[r] /\ requests[r] = callers[r].attempt
      /\ callers[r].pc \notin {"waiting", "connected"}
    BY DEF Channel, NoLeak
<1>3. \A x : IsHeld(x)' <=> IsHeld(x) \/ x = ch
    BY <1>1 DEF IsHeld
<1>4. OneResult'
    <2>1. ~ IsHeld(ch) /\ chan[ch] = "empty"
        BY <1>2 DEF OneResult
    <2>2. \A x \in Channel : requests'[x[1]] = x[2] => requests[x[1]] = x[2] /\ x # ch
        BY <1>1 DEF Channel, Attempt
    <2>3. \A x \in Channel : \A a, b \in Conn : x \in held'[a] /\ x \in held'[b] => a = b
        BY <1>1, <2>1 DEF OneResult, IsHeld
    <2> QED BY <1>1, <1>3, <2>1, <2>2, <2>3 DEF OneResult
<1>5. Awaited'
    BY <1>1, <1>2, <1>3 DEF Awaited, MyChannel
<1>6. Untouched'
    BY <1>1, <1>2, <1>3 DEF Untouched, Ahead, Caller, Attempt
<1>7. OneConnection' /\ NoLeak' /\ Holders' /\ WrittenToLive'
    BY <1>1 DEF OneConnection, NoLeak, Holders, WrittenToLive, Live
<1> QED BY <1>4, <1>5, <1>6, <1>7

\* A reply to no request.
LEMMA PassesStep ==
    ASSUME IInv, TypeInv', UNCHANGED <<conns, current, requests, held, chan, callers>>
    PROVE  IInv'
BY DEF IInv, OneConnection, OneResult, NoLeak, Holders, Awaited, WrittenToLive, Untouched,
       Ahead, IsHeld, MyChannel, Live

LEMMA GiveStep ==
    ASSUME IInv, TypeInv', NEW c \in Conn, NEW ch, NEW result \in {"reply", "failed"}, Give(c, ch, result)
    PROVE  IInv'
<1> USE DEF IInv, TypeInv, TypeOK
<1>1. /\ UNCHANGED <<conns, current, requests, callers>>
      /\ held' = [held EXCEPT ![c] = @ \ {ch}]
      /\ ch \in held[c] /\ ch \in Channel /\ IsHeld(ch) /\ chan[ch] = "empty"
      /\ chan' = [chan EXCEPT ![ch] = result]
    BY DEF Give, OneResult, IsHeld
<1>2. \A x \in Channel : IsHeld(x)' <=> IsHeld(x) /\ x # ch
    BY <1>1 DEF IsHeld, OneResult
<1>3. OneResult'
    BY <1>1, <1>2 DEF OneResult
<1>4. Awaited'
    BY <1>1, <1>2 DEF Awaited, MyChannel, Channel, Caller
<1>5. Untouched'
    BY <1>1, <1>2 DEF Untouched, Ahead
<1>6. OneConnection' /\ NoLeak' /\ Holders' /\ WrittenToLive'
    BY <1>1 DEF OneConnection, NoLeak, Holders, WrittenToLive, Live
<1> QED BY <1>3, <1>4, <1>5, <1>6

LEMMA SwapsStep ==
    ASSUME IInv, TypeInv', NEW c \in Conn, PumpSwaps(c)
    PROVE  IInv'
<1> USE DEF IInv, TypeInv, TypeOK
<1>1. /\ UNCHANGED <<current, chan, callers>>
      /\ held' = [held EXCEPT ![c] = Pending]
      /\ requests' = [r \in Req |-> 0]
      /\ conns' = [conns EXCEPT ![c] = "failing"] /\ conns[c] = "cleared"
      /\ held[c] = {}
    BY DEF PumpSwaps, Holders
<1>2. \A x \in Channel : IsHeld(x)' <=> IsHeld(x) \/ requests[x[1]] = x[2]
    BY <1>1 DEF IsHeld, Pending
<1>3. OneResult'
    <2>1. \A x \in Channel : requests'[x[1]] # x[2]
        BY <1>1 DEF Channel, Attempt
    <2>2. \A x \in Channel : IsHeld(x)' => chan'[x] = "empty"
        BY <1>1, <1>2 DEF OneResult
    <2>3. \A x \in Channel : \A a, b \in Conn : x \in held'[a] /\ x \in held'[b] => a = b
        BY <1>1 DEF OneResult, Pending, IsHeld
    <2> QED BY <2>1, <2>2, <2>3 DEF OneResult
<1>4. Awaited'
    BY <1>1, <1>2 DEF Awaited, MyChannel, Channel, Caller
<1>5. Untouched'
    BY <1>1, <1>2 DEF Untouched, Ahead, Channel, NoLeak, Attempt, Caller
<1>6. OneConnection' /\ NoLeak' /\ Holders' /\ WrittenToLive'
    BY <1>1 DEF OneConnection, NoLeak, Holders, WrittenToLive
<1> QED BY <1>3, <1>4, <1>5, <1>6

\* A step of a caller that leaves requests and channels alone, and does not move
\* into a place where it waits for more than it did.
LEMMA CallerStepInv ==
    ASSUME IInv, TypeInv', NEW r \in Req, UNCHANGED <<conns, current, requests, held, chan>>,
           \A q \in Req \ {r} : callers'[q] = callers[q],
           callers'[r].attempt = callers[r].attempt,
           requests[r] # 0 => callers'[r].pc \in {"registered", "writing", "select", "retrying", "leaving"},
           Awaited', WrittenToLive',
           callers'[r].pc \in {"waiting", "connected"} => callers[r].pc \in {"waiting", "connected"}
    PROVE  IInv'
<1> USE DEF IInv, TypeInv, TypeOK
<1>1. OneConnection' /\ OneResult' /\ Holders'
    BY DEF OneConnection, OneResult, Holders, IsHeld
<1>2. NoLeak'
    BY DEF NoLeak
<1>3. Untouched'
    <2>1. \A x \in Channel : Ahead(x)' => Ahead(x)
        BY DEF Ahead, Channel
    <2> QED BY <2>1 DEF Untouched, IsHeld
<1> QED BY <1>1, <1>2, <1>3

LEMMA MovesStep ==
    ASSUME IInv, TypeInv', NEW r \in Req,
           SeesConnection(r) \/ WaitExpires(r) \/ ReadConn(r) \/ Write(r) \/ WriteFails(r)
              \/ Receive(r) \/ ContextEnds(r)
    PROVE  IInv'
<1> USE DEF IInv, TypeInv, TypeOK
<1>1. /\ UNCHANGED <<conns, current, requests, held, chan>>
      /\ \A q \in Req \ {r} : callers'[q] = callers[q]
      /\ callers'[r].attempt = callers[r].attempt
    BY DEF SeesConnection, WaitExpires, ReadConn, Write, WriteFails, Receive, ContextEnds, Goto, Leave, Caller
<1>2. \/ callers'[r].pc = "connected" /\ callers[r].pc = "waiting"
      \/ callers'[r].pc = "done" /\ callers[r].pc = "waiting"
      \/ callers'[r].pc \in {"retrying", "leaving"} /\ callers[r].pc \in {"registered", "writing", "select"}
      \/ /\ callers'[r].pc = "writing" /\ callers[r].pc = "registered"
         /\ callers'[r].conn = current /\ current # NoConn
      \/ /\ callers'[r].pc = "select" /\ callers[r].pc = "writing"
         /\ callers'[r].conn = callers[r].conn
    <2>1. CASE SeesConnection(r) \/ WaitExpires(r) \/ Write(r)
        BY <2>1 DEF SeesConnection, WaitExpires, Write, Goto, Caller
    <2>2. CASE ReadConn(r)
        BY <2>2 DEF ReadConn, Leave, Vacant, Caller
    <2>3. CASE WriteFails(r) \/ Receive(r) \/ ContextEnds(r)
        BY <2>3 DEF WriteFails, Receive, ContextEnds, Leave, Caller
    <2> QED BY <2>1, <2>2, <2>3
<1>3. Awaited'
    BY <1>1, <1>2 DEF Awaited, MyChannel, IsHeld
<1>4. WrittenToLive'
    BY <1>1, <1>2 DEF WrittenToLive, Live, OneConnection
<1>5. requests[r] # 0 => callers'[r].pc \in {"registered", "writing", "select", "retrying", "leaving"}
    BY <1>2 DEF NoLeak
<1>6. callers'[r].pc \in {"waiting", "connected"} => callers[r].pc \in {"waiting", "connected"}
    BY <1>2
<1> QED BY <1>1, <1>3, <1>4, <1>5, <1>6, CallerStepInv

LEMMA RegisterStep ==
    ASSUME IInv, TypeInv', NEW r \in Req, RegisterRequest(r)
    PROVE  IInv'
<1> USE DEF IInv, TypeInv, TypeOK
<1>1. /\ UNCHANGED <<conns, current, held, chan>>
      /\ requests' = [requests EXCEPT ![r] = callers[r].attempt]
      /\ \A q \in Req \ {r} : callers'[q] = callers[q]
      /\ callers'[r].attempt = callers[r].attempt /\ callers'[r].pc = "registered"
      /\ callers[r].pc = "connected"
    BY DEF RegisterRequest, Goto, Caller
<1>2. MyChannel(r) \in Channel /\ chan[MyChannel(r)] = "empty" /\ ~ IsHeld(MyChannel(r))
    BY <1>1 DEF MyChannel, Channel, Caller, Untouched, Ahead
<1>3. \A x \in Channel : requests'[x[1]] = x[2] => requests[x[1]] = x[2] \/ x = MyChannel(r)
    BY <1>1 DEF Channel, MyChannel
<1>4. OneResult'
    BY <1>1, <1>2, <1>3 DEF OneResult, IsHeld
<1>5. NoLeak' /\ OneConnection' /\ Holders'
    BY <1>1 DEF NoLeak, OneConnection, Holders
<1>6. Awaited' /\ WrittenToLive'
    BY <1>1 DEF Awaited, WrittenToLive, MyChannel, IsHeld, Live
<1>7. Untouched'
    <2>1. \A x \in Channel : Ahead(x)' => Ahead(x)
        BY <1>1 DEF Ahead, Channel
    <2> QED BY <1>1, <2>1 DEF Untouched, IsHeld
<1> QED BY <1>4, <1>5, <1>6, <1>7

LEMMA RemoveStep ==
    ASSUME IInv, TypeInv', NEW r \in Req, Remove(r)
    PROVE  IInv'
<1> USE DEF IInv, TypeInv, TypeOK
<1>1. /\ UNCHANGED <<conns, current, held>>
      /\ requests' = [requests EXCEPT ![r] = 0]
      /\ chan' = [chan EXCEPT ![MyChannel(r)] = "empty"]
      /\ \A q \in Req \ {r} : callers'[q] = callers[q]
    BY DEF Remove, Removed, Goto
<1>2. \/ callers'[r].pc = "waiting" /\ callers[r].attempt = 1 /\ callers'[r].attempt = 2
      \/ callers'[r].pc = "done" /\ callers'[r].attempt = callers[r].attempt
    BY DEF Remove, Goto, Caller, RetriesOnce
<1>3. MyChannel(r) \in Channel /\ MyChannel(r)[1] = r
    BY DEF MyChannel, Channel, Caller
<1>4. OneResult'
    <2>1. \A x \in Channel : requests'[x[1]] = x[2] => requests[x[1]] = x[2]
        BY <1>1 DEF Channel, Attempt
    <2> QED BY <1>1, <1>3, <2>1 DEF OneResult, IsHeld
<1>5. NoLeak' /\ OneConnection' /\ Holders'
    BY <1>1 DEF NoLeak, OneConnection, Holders
<1>6. Awaited'
    BY <1>1, <1>2, <1>3 DEF Awaited, MyChannel, IsHeld, Channel, Caller
<1>7. WrittenToLive'
    BY <1>1 DEF WrittenToLive, Live
<1>8. Untouched'
    <2>1. \A x \in Channel : Ahead(x)' => Ahead(x)
        BY <1>1, <1>2 DEF Ahead, Channel, Attempt
    <2> QED BY <1>1, <1>3, <2>1 DEF Untouched, IsHeld
<1> QED BY <1>4, <1>5, <1>6, <1>7, <1>8

LEMMA InvNext == IInv /\ [Next]_vars => IInv'
<1> SUFFICES ASSUME IInv, [Next]_vars PROVE IInv'
    OBVIOUS
<1>1. TypeInv'
    BY TypeNext DEF IInv
<1>2. ASSUME NEW c \in Conn, ServerStep(c) PROVE IInv'
    BY <1>1, <1>2, ConnStep DEF ServerStep
<1>3. ASSUME NEW c \in Conn, ReadPumpStep(c) PROVE IInv'
    <2>1. ASSUME NEW r \in Req, PumpTakes(c, r) PROVE IInv'
        <3>1. CASE requests[r] = 0
            BY <1>1, <2>1, <3>1, PassesStep DEF PumpTakes
        <3> QED BY <1>1, <2>1, <3>1, TakesStep
    <2>2. CASE PumpGives(c) \/ PumpFails(c)
        BY <1>1, <2>2, GiveStep DEF PumpGives, PumpFails
    <2>3. CASE PumpClears(c) \/ PumpCloses(c)
        BY <1>1, <2>3, ConnStep
    <2>4. CASE PumpSwaps(c)
        BY <1>1, <2>4, SwapsStep
    <2> QED BY <1>3, <2>1, <2>2, <2>3, <2>4 DEF ReadPumpStep
<1>4. ASSUME NEW r \in Req, CallerStep(r) \/ ContextEnds(r) PROVE IInv'
    BY <1>1, <1>4, MovesStep, RegisterStep, RemoveStep DEF CallerStep
<1>5. CASE UNCHANGED vars
    BY <1>1, <1>5, PassesStep DEF vars
<1> QED BY <1>2, <1>3, <1>4, <1>5 DEF Next

-----------------------------------------------------------------------------
(* What the invariant gives *)

LEMMA InvImplies == IInv => OneConnection /\ OneResult /\ NoLeak /\ WaitersAreServed
BY DEF IInv, Awaited, WrittenToLive, WaitersAreServed, TypeInv, TypeOK, Caller, Attempt

\* No wake-up is lost: whatever connections come and go, an attempt whose request was
\* sent is served by a read pump, or registered while the connection lives that
\* will fail it.
THEOREM WaitersServed == Spec => []WaitersAreServed
BY InvInit, InvNext, InvImplies, PTL DEF Spec

\* No result is dropped: the select with a default in tryResolveRequest and
\* failPendingRequests always finds room.
THEOREM ResultsKept == Spec => []OneResult
BY InvInit, InvNext, InvImplies, PTL DEF Spec

\* h.requests holds only the attempts of calls that have not returned.
THEOREM RegistrationsEnd == Spec => []NoLeak
BY InvInit, InvNext, InvImplies, PTL DEF Spec

\* ServeHTTP admits one connection at a time, however many bridges dial.
THEOREM SingleConnection == Spec => []OneConnection
BY InvInit, InvNext, InvImplies, PTL DEF Spec

\* The three of them: what ServeHTTP, Request and the read pump keep of h.conn, h.requests and
\* the channels.
THEOREM ChannelsSound == Spec => []ChannelsAreSound
<1>1. IInv => ChannelsAreSound
    BY InvImplies DEF ChannelsAreSound
<1> QED BY <1>1, InvInit, InvNext, PTL DEF Spec

-----------------------------------------------------------------------------
(* When a request fails with the connection it was written to *)

\* The attempt of r is registered or further, and not over.
Trying(r) == callers[r].pc \in {"registered", "writing", "select"}

\* What failPendingRequests does not look at: the read pump that ends takes only
\* attempts that SendToOpenClaw gave its own connection.
SwapsOwn ==
    \A c \in Conn : PumpSwaps(c) =>
        \A ch \in Pending : Trying(ch[1]) => callers[ch[1]].conn = c

\* SendToOpenClaw's connection is a local of the attempt.
LocalConn ==
    \A r \in Req : IF callers[r].pc \in {"writing", "select"}
                   THEN callers[r].conn \in Conn
                   ELSE callers[r].conn = NoConn

\* A channel that holds an error belongs to a written attempt whose connection ended ...
FailedRightly ==
    \A r \in Req : Trying(r) /\ chan[MyChannel(r)] = "failed" =>
        callers[r].pc # "registered" /\ conns[callers[r].conn] \in {"failing", "closed"}

\* ... and so does one that a read pump is about to give an error.
FailsOwn ==
    \A r \in Req, c \in Conn : Trying(r) /\ conns[c] = "failing" /\ MyChannel(r) \in held[c] =>
        callers[r].pc # "registered" /\ callers[r].conn = c

FailInv == LocalConn /\ FailedRightly /\ FailsOwn

LEMMA FailInit == Init => FailInv
BY DEF Init, FailInv, LocalConn, FailedRightly, FailsOwn, Trying

LEMMA FailConnStep ==
    ASSUME IInv, FailInv, NEW c \in Conn,
           Upgrade(c) \/ Install(c) \/ Break(c) \/ PumpClears(c) \/ PumpCloses(c)
    PROVE  FailInv'
<1> USE DEF IInv, TypeInv, TypeOK, FailInv
<1>1. UNCHANGED <<requests, held, chan, callers>>
    BY DEF Upgrade, Install, Break, PumpClears, PumpCloses
<1>2. LocalConn'
    BY <1>1 DEF LocalConn
<1>3. FailedRightly'
    <2>1. \A d \in Conn : conns[d] \in {"failing", "closed"} /\ ~ Forgotten(d)
                              => conns'[d] \in {"failing", "closed"}
        BY DEF Upgrade, Install, Break, PumpClears, PumpCloses
    <2>2. \A r \in Req : callers[r].conn \in Conn => ~ Forgotten(callers[r].conn)
        BY DEF Forgotten
    <2> QED BY <1>1, <2>1, <2>2 DEF FailedRightly, LocalConn, Trying, MyChannel
<1>4. FailsOwn'
    <2>1. \A d \in Conn : conns'[d] = "failing" => conns[d] = "failing"
        BY DEF Upgrade, Install, Break, PumpClears, PumpCloses
    <2> QED BY <1>1, <2>1 DEF FailsOwn, Trying, MyChannel
<1> QED BY <1>2, <1>3, <1>4

LEMMA FailPumpStep ==
    ASSUME IInv, FailInv, SwapsOwn, NEW c \in Conn, ReadPumpStep(c)
    PROVE  FailInv'
<1> USE DEF IInv, TypeInv, TypeOK, FailInv
<1>1. ASSUME NEW r \in Req, PumpTakes(c, r) PROVE FailInv'
    BY <1>1 DEF PumpTakes, LocalConn, FailedRightly, FailsOwn, Trying, MyChannel
<1>2. CASE PumpGives(c)
    <2>1. PICK ch \in held[c] : Give(c, ch, "reply")
        BY <1>2 DEF PumpGives
    <2>2. \A x \in Channel : chan'[x] = "failed" => chan[x] = "failed"
        BY <2>1 DEF Give
    <2>3. \A r \in Req : MyChannel(r) \in Channel
        BY DEF MyChannel, Channel, Caller
    <2>4. UNCHANGED <<conns, callers>> /\ \A d \in Conn : held'[d] \subseteq held[d]
        BY <2>1 DEF Give
    <2>5. FailedRightly'
        BY <2>2, <2>3, <2>4 DEF FailedRightly, Trying, MyChannel
    <2>6. LocalConn' /\ FailsOwn'
        BY <2>4 DEF LocalConn, FailsOwn, Trying, MyChannel
    <2> QED BY <2>5, <2>6
<1>3. CASE PumpFails(c)
    <2>1. PICK ch \in held[c] : Give(c, ch, "failed")
        BY <1>3 DEF PumpFails
    <2>2. conns[c] = "failing" /\ UNCHANGED <<conns, callers>>
        BY <1>3, <2>1 DEF PumpFails, Give
    <2>3. \A x \in Channel : chan'[x] = "failed" => chan[x] = "failed" \/ x \in held[c]
        BY <2>1 DEF Give
    <2>4. \A r \in Req : MyChannel(r) \in Channel
        BY DEF MyChannel, Channel, Caller
    <2>5. FailedRightly'
        BY <2>2, <2>3, <2>4 DEF FailedRightly, FailsOwn, Trying, MyChannel
    <2>6. LocalConn' /\ FailsOwn'
        BY <2>1, <2>2 DEF Give, LocalConn, FailsOwn, Trying, MyChannel
    <2> QED BY <2>5, <2>6
<1>4. CASE PumpClears(c) \/ PumpCloses(c)
    BY <1>4, FailConnStep
<1>5. CASE PumpSwaps(c)
    <2>1. /\ UNCHANGED <<chan, callers>>
          /\ \A d \in Conn \ {c} : conns'[d] = conns[d] /\ held'[d] = held[d]
          /\ conns[c] = "cleared" /\ conns'[c] = "failing" /\ held'[c] = Pending
        BY <1>5 DEF PumpSwaps
    <2>2. \A r \in Req : Trying(r) /\ MyChannel(r) \in Pending => callers[r].conn = c
        BY <1>5 DEF SwapsOwn, MyChannel
    <2>3. FailsOwn'
        BY <2>1, <2>2, ConnAssumption DEF FailsOwn, LocalConn, Trying, MyChannel
    <2>4. LocalConn' /\ FailedRightly'
        BY <2>1 DEF LocalConn, FailedRightly, Trying, MyChannel
    <2> QED BY <2>3, <2>4
<1> QED BY <1>1, <1>2, <1>3, <1>4, <1>5 DEF ReadPumpStep

LEMMA FailCallerStep ==
    ASSUME IInv, FailInv, NEW r \in Req, CallerStep(r) \/ ContextEnds(r)
    PROVE  FailInv'
<1> USE DEF IInv, TypeInv, TypeOK, FailInv
<1>1. /\ UNCHANGED <<conns, current, held>>
      /\ \A q \in Req \ {r} : callers'[q] = callers[q]
    BY DEF CallerStep, SeesConnection, WaitExpires, RegisterRequest, ReadConn, Write, WriteFails,
           Receive, ContextEnds, Remove, Goto, Leave
<1>2. \A q \in Req \ {r} : MyChannel(q) \in Channel /\ chan'[MyChannel(q)] = chan[MyChannel(q)]
    BY DEF CallerStep, SeesConnection, WaitExpires, RegisterRequest, ReadConn, Write, WriteFails,
           Receive, ContextEnds, Remove, MyChannel, Channel, Caller
<1>3. SUFFICES
        /\ IF callers'[r].pc \in {"writing", "select"} THEN callers'[r].conn \in Conn
                                                       ELSE callers'[r].conn = NoConn
        /\ Trying(r)' /\ chan'[MyChannel(r)'] = "failed" =>
               callers'[r].pc # "registered" /\ conns[callers'[r].conn] \in {"failing", "closed"}
        /\ \A c \in Conn : Trying(r)' /\ conns[c] = "failing" /\ MyChannel(r)' \in held[c] =>
               callers'[r].pc # "registered" /\ callers'[r].conn = c
    <2>1. LocalConn'
        BY <1>1, <1>3 DEF LocalConn
    <2>2. FailedRightly'
        BY <1>1, <1>2, <1>3 DEF FailedRightly, Trying, MyChannel
    <2>3. FailsOwn'
        BY <1>1, <1>3 DEF FailsOwn, Trying, MyChannel
    <2> QED BY <2>1, <2>2, <2>3
<1>4. CASE \/ SeesConnection(r) \/ WaitExpires(r)
           \/ WriteFails(r) \/ Receive(r) \/ ContextEnds(r) \/ Remove(r)
    <2>1. callers'[r].pc \notin {"registered", "writing", "select"} /\ callers'[r].conn = NoConn
        <3>1. CASE SeesConnection(r) \/ WaitExpires(r)
            BY <3>1 DEF SeesConnection, WaitExpires, Goto, LocalConn, Caller
        <3>2. CASE WriteFails(r) \/ Receive(r) \/ ContextEnds(r)
            BY <3>2 DEF WriteFails, Receive, ContextEnds, Leave, Caller
        <3>3. CASE Remove(r)
            BY <3>3 DEF Remove, Goto, LocalConn, Caller
        <3> QED BY <1>4, <3>1, <3>2, <3>3
    <2> QED BY <2>1 DEF Trying
<1>5. CASE RegisterRequest(r)
    <2>1. callers'[r] = [callers[r] EXCEPT !.pc = "registered"] /\ callers[r].pc = "connected" /\ chan' = chan
        BY <1>5 DEF RegisterRequest, Goto
    <2>2. chan[MyChannel(r)] = "empty" /\ ~ IsHeld(MyChannel(r))
        BY <2>1 DEF MyChannel, Channel, Caller, Untouched, Ahead
    <2>3. MyChannel(r)' = MyChannel(r) /\ callers'[r].conn = NoConn /\ callers'[r].pc = "registered"
        BY <2>1 DEF MyChannel, Caller, LocalConn
    <2> QED BY <2>1, <2>2, <2>3 DEF IsHeld
<1>6. CASE ReadConn(r) /\ Vacant
    <2>1. callers'[r].pc \in {"retrying", "leaving"} /\ callers'[r].conn = NoConn
        BY <1>6 DEF ReadConn, Leave, Caller
    <2> QED BY <2>1 DEF Trying
<1>7. CASE ReadConn(r) /\ ~ Vacant
    <2>1. /\ callers[r].pc = "registered" /\ chan' = chan
          /\ callers'[r] = [callers[r] EXCEPT !.pc = "writing", !.conn = current]
        BY <1>7 DEF ReadConn
    <2>2. /\ callers'[r].pc = "writing" /\ callers'[r].conn \in Conn
          /\ MyChannel(r)' = MyChannel(r) /\ Trying(r)
        BY <1>7, <2>1 DEF MyChannel, Caller, Vacant, Trying
    <2> QED BY <2>1, <2>2 DEF FailedRightly, FailsOwn
<1>8. CASE Write(r)
    <2>1. callers[r].pc = "writing" /\ callers'[r] = [callers[r] EXCEPT !.pc = "select"] /\ chan' = chan
        BY <1>8 DEF Write, Goto
    <2>2. /\ callers'[r].pc = "select" /\ callers'[r].conn = callers[r].conn
          /\ MyChannel(r)' = MyChannel(r) /\ Trying(r)
        BY <2>1 DEF MyChannel, Caller, Trying
    <2> QED BY <2>1, <2>2 DEF FailedRightly, FailsOwn, LocalConn
<1> QED BY <1>4, <1>5, <1>6, <1>7, <1>8 DEF CallerStep

LEMMA FailNext == IInv /\ FailInv /\ [Next]_vars /\ [SwapsOwn]_vars => FailInv'
<1> SUFFICES ASSUME IInv, FailInv, [Next]_vars, [SwapsOwn]_vars PROVE FailInv'
    OBVIOUS
<1>1. CASE UNCHANGED vars
    BY <1>1 DEF vars, FailInv, LocalConn, FailedRightly, FailsOwn, Trying, MyChannel
<1>2. ASSUME NEW c \in Conn, ServerStep(c) PROVE FailInv'
    BY <1>2, FailConnStep DEF ServerStep
<1>3. ASSUME NEW c \in Conn, ReadPumpStep(c), SwapsOwn PROVE FailInv'
    BY <1>3, FailPumpStep
<1>4. ASSUME NEW r \in Req, CallerStep(r) \/ ContextEnds(r) PROVE FailInv'
    BY <1>4, FailCallerStep
<1> QED BY <1>1, <1>2, <1>3, <1>4 DEF Next

\* The run stale_failure shows a request that fails although the connection it was written to is
\* open.  The cause is that failPendingRequests takes every request there is: if the read
\* pump that ends took only those of its own connection, a request would fail for a
\* lost connection only when it was written to that one.
THEOREM FailsRightly == Spec /\ [][SwapsOwn]_vars => []FailsWithItsConnection
<1>1. IInv /\ FailInv => FailsWithItsConnection
    BY DEF IInv, FailInv, FailedRightly, FailsWithItsConnection, Trying
<1> QED BY <1>1, InvInit, InvNext, FailInit, FailNext, PTL DEF Spec

=============================================================================
