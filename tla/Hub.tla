---------------------------------- MODULE Hub ---------------------------------
(***************************************************************************)
(* The hub of the browsers' WebSocket connections.  One goroutine owns the *)
(* set of clients and takes registrations, ends and broadcasts one after   *)
(* the other, over channels without a buffer; a broadcast goes through the *)
(* clients and never waits for one: a client whose buffer is full is       *)
(* dropped.  Each client has a pump that reads and a pump that writes.     *)
(***************************************************************************)
EXTENDS Naturals, Sequences, FiniteSets

CONSTANTS
    Browser,       \* clients
    BufferSize,    \* the capacity of a client's Send channel
    MaxMessages    \* broadcasts in a behaviour

ASSUME HubAssumption == BufferSize \in Nat \ {0} /\ MaxMessages \in Nat

VARIABLES
    clients,       \* the hub's map
    sends,         \* per client: what is in its Send channel
    shut,          \* the clients whose Send channel is closed
    level,         \* per client: in no workspace yet, in the workspace, or at the topic too
    reader,        \* per client: where its ReadPump is
    writer,        \* per client: where its WritePump is
    dead,          \* the clients whose connection is closed
    written,       \* per client: the messages that were written to its connection
    loop,          \* what the hub's goroutine does
    messages,      \* the broadcasts so far: whether they have a topic
    panics         \* what a goroutine panicked of

hubVars == <<clients, sends, shut, level, reader, writer, dead, written, loop, messages, panics>>

Waiting == [at |-> "select", todo |-> {}]

HubInit ==
    /\ clients = {} /\ shut = {} /\ dead = {} /\ panics = {}
    /\ level = [c \in Browser |-> "none"]
    /\ sends = [c \in Browser |-> <<>>] /\ written = [c \in Browser |-> <<>>]
    /\ reader = [c \in Browser |-> "new"] /\ writer = [c \in Browser |-> "new"]
    /\ loop = Waiting
    /\ messages = <<>>

-----------------------------------------------------------------------------
(* Mutants *)

\* The end of a client closes its channel, also when the hub has dropped it before.
EndsAlways(c) == TRUE

\* A message that finds the buffer full is skipped.
OverflowSkips(c) == UNCHANGED <<clients, shut, panics>>

\* The channel of a dropped client stays open.
OverflowForgets(c) == clients' = clients \ {c} /\ UNCHANGED <<shut, panics>>

-----------------------------------------------------------------------------
(* The hub's goroutine *)

pumpVars == <<level, reader, writer, dead, written>>

\* The goroutine selects as long as nothing has panicked.
Selects == loop = Waiting /\ panics = {}

\* Closing a channel twice is a panic.
CloseSend(c) ==
    /\ shut' = shut \cup {c}
    /\ panics' = IF c \in shut THEN panics \cup {"close of closed channel"} ELSE panics

\* ServeHTTP hands the client over, and then starts its pumps.
Register(c) ==
    /\ Selects /\ reader[c] = "new"
    /\ clients' = clients \cup {c}
    /\ reader' = [reader EXCEPT ![c] = "reading"] /\ writer' = [writer EXCEPT ![c] = "writing"]
    /\ UNCHANGED <<sends, shut, level, dead, written, loop, messages, panics>>

Known(c) == c \in clients

\* The ReadPump hands the client over at its end.
Unregister(c) ==
    /\ Selects /\ reader[c] = "leaving"
    /\ \/ Known(c) /\ clients' = clients \ {c} /\ CloseSend(c)
       \/ ~Known(c) /\ UNCHANGED <<clients, shut, panics>>
    /\ reader' = [reader EXCEPT ![c] = "gone"] /\ dead' = dead \cup {c}
    /\ UNCHANGED <<sends, level, writer, written, loop, messages>>

\* Broadcast or BroadcastTopic by any handler.
Broadcast(topic) ==
    /\ Selects /\ Len(messages) < MaxMessages
    /\ messages' = Append(messages, topic)
    /\ loop' = [at |-> "deliver", todo |-> clients]
    /\ UNCHANGED <<clients, sends, shut, panics, pumpVars>>

HasPlace(c) == Len(sends[c]) < BufferSize

\* The client is dropped and its channel is closed.
Overflow(c) == clients' = clients \ {c} /\ CloseSend(c)

\* Message n goes to the clients of its workspace, and of its topic if it has one.
IsFor(n, c) == level[c] = "topic" \/ (level[c] = "workspace" /\ ~messages[n])

\* A send to a closed channel is a panic.
SendTo(c, n) ==
    /\ sends' = IF c \in shut THEN sends ELSE [sends EXCEPT ![c] = Append(@, n)]
    /\ panics' = IF c \in shut THEN panics \cup {"send on closed channel"} ELSE panics
    /\ UNCHANGED <<clients, shut>>

\* A client is offered the message; one that it is for and whose buffer is full is dropped.
Deliver(c) ==
    /\ c \in loop.todo /\ panics = {}
    /\ LET n == Len(messages)  sent == c \in shut \/ HasPlace(c) IN
        \/ ~IsFor(n, c) /\ UNCHANGED <<clients, sends, shut, panics>>
        \/ IsFor(n, c) /\ sent /\ SendTo(c, n)
        \/ IsFor(n, c) /\ ~sent /\ Overflow(c) /\ UNCHANGED sends
    /\ loop' = [loop EXCEPT !.todo = @ \ {c}]
    /\ UNCHANGED <<messages, pumpVars>>

Delivered ==
    /\ loop.at = "deliver" /\ loop.todo = {}
    /\ loop' = Waiting
    /\ UNCHANGED <<clients, sends, shut, messages, panics, pumpVars>>

-----------------------------------------------------------------------------
(* The pumps *)

mapVars == <<clients, shut, loop, messages, panics>>

\* A message of the browser: the first names its workspace, and it may subscribe to the
\* topic and unsubscribe.
Subscribe(c) ==
    /\ reader[c] = "reading" /\ c \notin dead
    /\ \E l \in {"workspace", "topic"} : level' = [level EXCEPT ![c] = l]
    /\ UNCHANGED <<sends, reader, writer, dead, written, mapVars>>

\* The connection ends: the browser is gone, or missed a ping.
Disconnect(c) ==
    /\ reader[c] = "reading" /\ c \notin dead
    /\ dead' = dead \cup {c}
    /\ UNCHANGED <<sends, level, reader, writer, written, mapVars>>

\* The next read of a closed connection fails.
ReadFails(c) ==
    /\ reader[c] = "reading" /\ c \in dead
    /\ reader' = [reader EXCEPT ![c] = "leaving"]
    /\ UNCHANGED <<sends, level, writer, dead, written, mapVars>>

\* A message from the channel is written.
WriteMessage(c) ==
    /\ writer[c] = "writing" /\ sends[c] # <<>> /\ c \notin dead
    /\ written' = [written EXCEPT ![c] = Append(@, Head(sends[c]))]
    /\ sends' = [sends EXCEPT ![c] = Tail(@)]
    /\ UNCHANGED <<level, reader, writer, dead, mapVars>>

\* A write or a ping fails, or the channel is closed and empty: the pump closes the connection.
WriterEnds(c) ==
    /\ writer[c] = "writing"
    /\ c \in dead \/ (c \in shut /\ sends[c] = <<>>)
    /\ writer' = [writer EXCEPT ![c] = "gone"] /\ dead' = dead \cup {c}
    /\ UNCHANGED <<sends, level, reader, written, mapVars>>

-----------------------------------------------------------------------------

HubStep == Delivered \/ \E c \in Browser : Register(c) \/ Unregister(c) \/ Deliver(c)

PumpStep(c) == ReadFails(c) \/ WriterEnds(c) \/ WriteMessage(c)

HubNext ==
    \/ HubStep
    \/ \E topic \in BOOLEAN : Broadcast(topic)
    \/ \E c \in Browser : Subscribe(c) \/ Disconnect(c) \/ PumpStep(c)

HubSpec == HubInit /\ [][HubNext]_hubVars

-----------------------------------------------------------------------------
(* Properties *)

HubTypeOK ==
    /\ clients \subseteq Browser /\ shut \subseteq Browser
    /\ level \in [Browser -> {"none", "workspace", "topic"}] /\ dead \subseteq Browser
    /\ sends \in [Browser -> Seq(1 .. MaxMessages)] /\ written \in [Browser -> Seq(1 .. MaxMessages)]
    /\ \A c \in Browser : Len(sends[c]) <= BufferSize
    /\ reader \in [Browser -> {"new", "reading", "leaving", "gone"}]
    /\ writer \in [Browser -> {"new", "writing", "gone"}]
    /\ loop \in [at : {"select", "deliver"}, todo : SUBSET Browser]
    /\ messages \in Seq(BOOLEAN) /\ Len(messages) <= MaxMessages
    /\ panics \subseteq {"close of closed channel", "send on closed channel"}

\* A channel is closed once and nothing is sent to it afterwards, although both the hub and,
\* later, the client's own read pump end a client that is slow.
NeverPanics == panics = {}

\* What a client gets has no gaps: between two messages that it was sent there is none for
\* the whole workspace.  A slow client is dropped; it never skips a message and goes on.
NoGaps ==
    \A c \in Browser : LET got == written[c] \o sends[c] IN
        \A i \in 2 .. Len(got) : got[i - 1] < got[i] /\ \A n \in (got[i - 1] + 1) .. (got[i] - 1) : messages[n]

\* A client that the hub has dropped, or whose connection is closed, is taken out of the map
\* and both of its pumps end: neither waits for the other for ever.
ClientsAreReleased ==
    \A c \in Browser :
        reader[c] # "new" /\ (c \notin clients \/ c \in dead)
            ~> c \notin clients /\ reader[c] = "gone" /\ writer[c] = "gone"

\* The hub survives every client, and a client that it serves misses nothing.
HubIsSound == NeverPanics /\ NoGaps
=============================================================================
