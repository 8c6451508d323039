----------------------------- MODULE EllieIngestion ---------------------------
(***************************************************************************)
(* Ellie's ingestion of chat rooms.  A run of the ingestion worker lists   *)
(* the rooms with messages past their cursor, and room by room reads the   *)
(* cursor, lists messages after it, extracts memories window by window,    *)
(* and at the end of the room moves the cursor to the last message of the  *)
(* last window that succeeded.  The worker of the server, the one of the   *)
(* migration pipeline and other servers run the same code on the same      *)
(* rows.  Meanwhile messages arrive, those of an imported history with the *)
(* times they once had, and a reset deletes cursors and memories.          *)
(***************************************************************************)
EXTENDS Naturals, FiniteSets, FiniteSetsExt

CONSTANTS
    Ingester,      \* runs that can be under way at once
    Room,          \* the rooms that are not excluded
    Flaky,         \* the rooms whose extraction may fail for ever
    LastMessage,   \* per room: the messages it can have, numbered by (created_at, id)
    MaxPerRoom,    \* the most messages of a room in a run
    RoomBatch,     \* the most rooms in a run
    MaxUpsets      \* failures of other rooms' extraction, of the database and of servers, and resets

ASSUME IngestAssumption ==
    /\ Flaky \subseteq Room
    /\ LastMessage \in [Room -> Nat]
    /\ MaxPerRoom \in Nat \ {0} /\ RoomBatch \in Nat \ {0}
    /\ MaxUpsets \in Nat

VARIABLES
    stored,     \* per room: the messages in chat_messages
    covered,    \* per room: the messages of windows whose memories are stored
    cursor,     \* per room: the message of its row in ellie_ingestion_cursors, or 0
    late,       \* messages that arrived with a place that a cursor or a run had passed
    ingester,   \* the local state of each run
    upset,      \* a reset met a run
    upsets      \* failures and resets so far

ingVars == <<stored, covered, cursor, late, ingester, upset, upsets>>

Message == UNION {1 .. LastMessage[r] : r \in Room}

Resting == [pc |-> "idle"]

\* Where a run is: the rooms to do; and in a room what it has read, what is left of the
\* messages it listed, and the last message of a window that succeeded, or 0.
RunState ==
    {Resting}
    \cup [pc : {"rooms"}, todo : SUBSET Room]
    \cup [pc : {"list", "windows", "cursor"}, todo : SUBSET Room, room : Room,
          from : Message \cup {0}, left : SUBSET Message, last : Message \cup {0}]

IngInit ==
    /\ stored = [r \in Room |-> {}] /\ covered = [r \in Room |-> {}]
    /\ cursor = [r \in Room |-> 0]
    /\ late = {}
    /\ ingester = [w \in Ingester |-> Resting]
    /\ upset = FALSE /\ upsets = 0

RoomDone(w) == [pc |-> "rooms", todo |-> ingester[w].todo \ {ingester[w].room}]

-----------------------------------------------------------------------------
(* Mutants *)

\* The cursor moves to the end of what was listed, also when a window failed.
ReachedAll(w) == IF ingester[w].left = {} THEN ingester[w].last ELSE Max(ingester[w].left)

\* A room that fails ends the run.
RoomFailedStops(w) == Resting

-----------------------------------------------------------------------------
(* Runs *)

InRun(w, pc) == ingester[w].pc = pc /\ UNCHANGED <<stored, late, upset>>

Run(w, s) == ingester' = [ingester EXCEPT ![w] = s]

\* The rooms whose latest message is past the cursor.
Candidates == {r \in Room : \E m \in stored[r] : m > cursor[r]}

\* ListRoomsForIngestion: no more than the limit, those with the oldest latest messages; the
\* numbers of messages of different rooms say nothing about their times.
ListRooms(w) ==
    /\ InRun(w, "idle") /\ Candidates # {}
    /\ \E todo \in SUBSET Candidates :
        /\ Cardinality(todo) = IF Cardinality(Candidates) < RoomBatch THEN Cardinality(Candidates)
                                                                      ELSE RoomBatch
        /\ Run(w, [pc |-> "rooms", todo |-> todo])
    /\ UNCHANGED <<covered, cursor, upsets>>

GetRoomCursor(w) ==
    /\ InRun(w, "rooms")
    /\ \E r \in ingester[w].todo :
        Run(w, [pc |-> "list", todo |-> ingester[w].todo, room |-> r,
                from |-> cursor[r], left |-> {}, last |-> 0])
    /\ UNCHANGED <<covered, cursor, upsets>>

\* The first messages of S, up to the limit.
First(S) == {m \in S : Cardinality({n \in S : n <= m}) <= MaxPerRoom}

ListRoomMessages(w) ==
    /\ InRun(w, "list")
    /\ LET new == First({m \in stored[ingester[w].room] : m > ingester[w].from}) IN
        \/ new = {} /\ Run(w, RoomDone(w))
        \/ new # {} /\ Run(w, [ingester[w] EXCEPT !.pc = "windows", !.left = new])
    /\ UNCHANGED <<covered, cursor, upsets>>

\* The next window, cut by time, count and prompt budget, is extracted and its memories are
\* stored; there may be none to store.
Window(w) ==
    /\ InRun(w, "windows")
    /\ \E end \in ingester[w].left :
        LET rest == {m \in ingester[w].left : m > end} IN
        /\ covered' = [covered EXCEPT ![ingester[w].room] = @ \cup (ingester[w].left \ rest)]
        /\ Run(w, [ingester[w] EXCEPT !.pc = IF rest = {} THEN "cursor" ELSE "windows",
                                      !.left = rest, !.last = end])
    /\ UNCHANGED <<cursor, upsets>>

\* What follows a window that failed: the cursor, if another window succeeded before, or the
\* next room.
RoomFailed(w) ==
    IF ingester[w].last = 0 THEN RoomDone(w) ELSE [ingester[w] EXCEPT !.pc = "cursor"]

\* The extraction fails, also when it is tried again, and the rest of the room is left.
WindowFails(w) ==
    /\ InRun(w, "windows")
    /\ \/ ingester[w].room \in Flaky /\ UNCHANGED upsets
       \/ upsets < MaxUpsets /\ upsets' = upsets + 1
    /\ Run(w, RoomFailed(w))
    /\ UNCHANGED <<covered, cursor>>

\* The last message of a window that succeeded.
Reached(w) == ingester[w].last

\* UpsertRoomCursor writes what it is given, whatever the cursor is by then.
UpsertRoomCursor(w) ==
    /\ InRun(w, "cursor")
    /\ cursor' = [cursor EXCEPT ![ingester[w].room] = Reached(w)]
    /\ Run(w, RoomDone(w))
    /\ UNCHANGED <<covered, upsets>>

EndRun(w) ==
    /\ InRun(w, "rooms") /\ ingester[w].todo = {}
    /\ Run(w, Resting)
    /\ UNCHANGED <<covered, cursor, upsets>>

\* A database call fails and RunOnce returns its error, or the server stops.
RunAborts(w) ==
    /\ ingester[w] # Resting /\ upsets < MaxUpsets
    /\ upsets' = upsets + 1
    /\ Run(w, Resting)
    /\ UNCHANGED <<stored, covered, cursor, late, upset>>

-----------------------------------------------------------------------------
(* The rest of the system *)

\* The place of m in room r is behind the cursor, or behind the cursor that a run has read (another
\* run may have moved it back since), or behind what it has listed.
Passed(r, m) ==
    \/ m < cursor[r]
    \/ \E w \in Ingester :
        /\ ingester[w].pc \in {"list", "windows", "cursor"} /\ ingester[w].room = r
        /\ \/ m < ingester[w].from \/ m < ingester[w].last
           \/ \E n \in ingester[w].left : m < n

\* A message of a handler, or of an import; its time is not that of its commit.
Arrive(r, m) ==
    /\ m \in (1 .. LastMessage[r]) \ stored[r]
    /\ stored' = [stored EXCEPT ![r] = @ \cup {m}]
    /\ late' = IF Passed(r, m) THEN late \cup {<<r, m>>} ELSE late
    /\ UNCHANGED <<covered, cursor, ingester, upset, upsets>>

\* ResetMemoryExtractionState deletes cursors and extracted memories in one transaction.
ResetIngestion ==
    /\ upsets < MaxUpsets /\ upsets' = upsets + 1
    /\ covered' = [r \in Room |-> {}] /\ cursor' = [r \in Room |-> 0]
    /\ upset' = (upset \/ \E w \in Ingester : ingester[w] # Resting)
    /\ UNCHANGED <<stored, late, ingester>>

IngestStep(w) ==
    \/ ListRooms(w) \/ GetRoomCursor(w) \/ ListRoomMessages(w) \/ Window(w) \/ WindowFails(w)
    \/ UpsertRoomCursor(w) \/ EndRun(w)

IngNext ==
    \/ \E w \in Ingester : IngestStep(w) \/ RunAborts(w)
    \/ \E r \in Room, m \in Message : Arrive(r, m)
    \/ ResetIngestion

IngSpec == IngInit /\ [][IngNext]_ingVars

-----------------------------------------------------------------------------
(* Properties *)

\* The rows, and the local state of the runs.
IngTypeOK ==
    /\ stored \in [Room -> SUBSET Message] /\ covered \in [Room -> SUBSET Message]
    /\ cursor \in [Room -> Message \cup {0}]
    /\ late \subseteq Room \X Message
    /\ ingester \in [Ingester -> RunState]
    /\ upset \in BOOLEAN /\ upsets \in 0 .. MaxUpsets

\* Memories of the message are stored, or it came too late for that.
Settled(r, m) == m \in covered[r] \/ <<r, m>> \in late

\* No message is passed over: what lies behind a cursor was in a window that succeeded, however
\* runs overlap, windows fail and runs break off between storing memories and moving the
\* cursor.  It does not hold of messages that arrive with a place already passed (imported
\* history, or a slow transaction), and of a reset under a run, whose cursor comes after it.
NothingPassedOver ==
    ~upset => \A r \in Room : \A m \in stored[r] : m <= cursor[r] => Settled(r, m)

\* Again and again nothing is left to do: every message that came in time is covered in the
\* end, also while the extraction of another room fails for ever, because a room that fails
\* does not end the run.
AllCovered == \A r \in Room \ Flaky : \A m \in stored[r] : Settled(r, m)

EventuallyCovered == []<>(AllCovered \/ upset)
=============================================================================
