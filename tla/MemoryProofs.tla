------------------------------ MODULE MemoryProofs -----------------------------
(***************************************************************************)
(* Proofs about the ways into Ellie's memory and the workers on it.  For   *)
(* any rooms, messages and runs of the ingestion, no message that came in  *)
(* time is passed over; for any phases, batches, runs and calls of a       *)
(* migration, its rows never claim more of the history than is imported,   *)
(* and a pause is heeded after one batch; for any messages, rooms and      *)
(* workers, conversations have messages and totals are true; for any       *)
(* memories and decisions, deduplication loses no fact; and for any rooms  *)
(* and memories, injections keep their distance and are in the ledger, as  *)
(* far as nothing broke.                                                   *)
(***************************************************************************)
EXTENDS EllieIngestion, Migration, Conversations, Dedup, ContextInjection, FiniteSetTheorems, TLAPS

-----------------------------------------------------------------------------
(* EllieIngestion *)

InRoom == {"list", "windows", "cursor"}

\* Where a run is in a room, it stands on messages of that room.
Placed(q) ==
    q.pc \in InRoom =>
        /\ q.from \in stored[q.room] \cup {0} /\ q.last \in stored[q.room] \cup {0}
        /\ q.left \subseteq stored[q.room]

\* What a run in a room has behind it is settled; what it has before it, it has listed without a
\* gap.
NothingLeft(q) ==
    q.pc \in InRoom => \A m \in stored[q.room] :
        /\ m <= q.from \/ m <= q.last => Settled(q.room, m)
        /\ (\E n \in q.left : m < n) => m \in q.left \/ Settled(q.room, m)

CursorsPlaced ==
    \A r \in Room : stored[r] \subseteq 1 .. LastMessage[r] /\ cursor[r] \in stored[r] \cup {0}

IngInv ==
    /\ IngTypeOK /\ CursorsPlaced /\ NothingPassedOver
    /\ \A w \in Ingester : Placed(ingester[w])
    /\ ~upset => \A w \in Ingester : NothingLeft(ingester[w])

\* The first messages of a room are an initial segment of them.
LEMMA FirstIsPrefix ==
    ASSUME NEW N \in Nat, NEW S \in SUBSET (1 .. N)
    PROVE  /\ First(S) \subseteq S
           /\ \A m \in S : \A n \in First(S) : m < n => m \in First(S)
<1>1. ASSUME NEW m \in S, NEW n \in First(S), m < n PROVE m \in First(S)
    <2> DEFINE A == {k \in S : k <= m}
               B == {k \in S : k <= n}
    <2>1. n \in S /\ Cardinality(B) <= MaxPerRoom
        BY DEF First
    <2>2. A \subseteq B
        <3>1. m \in Int /\ n \in Int /\ \A k \in S : k \in Int
            BY <2>1
        <3>2. ASSUME NEW k \in S, k <= m PROVE k <= n
            <4>1. k \in Int
                BY <3>1
            <4> QED BY <1>1, <3>1, <3>2, <4>1
        <3> QED BY <3>2
    <2>3. IsFiniteSet(B)
        <3>1. IsFiniteSet(1 .. N)
            BY FS_Interval
        <3> QED BY <3>1, FS_Subset
    <2>4. IsFiniteSet(A) /\ Cardinality(A) <= Cardinality(B)
        BY <2>2, <2>3, FS_Subset
    <2>5. Cardinality(A) \in Nat /\ Cardinality(B) \in Nat
        BY <2>3, <2>4, FS_CardinalityType
    <2> HIDE DEF A, B
    <2>6. Cardinality(A) <= MaxPerRoom
        BY <2>1, <2>4, <2>5, IngestAssumption
    <2> QED BY <2>6 DEF A, First
<1> QED BY <1>1 DEF First

LEMMA RunShape ==
    ASSUME NEW q \in RunState
    PROVE  /\ q.pc \in {"idle", "rooms"} \cup InRoom /\ (q = Resting <=> q.pc = "idle")
           /\ q.pc # "idle" => q.todo \subseteq Room
           /\ q.pc \in InRoom =>
                /\ q = [pc |-> q.pc, todo |-> q.todo, room |-> q.room, from |-> q.from,
                        left |-> q.left, last |-> q.last]
                /\ q.room \in Room /\ q.from \in Message \cup {0} /\ q.last \in Message \cup {0}
                /\ q.left \subseteq Message
BY DEF RunState, Resting, InRoom

InRoomState ==
    [pc : InRoom, todo : SUBSET Room, room : Room, from : Message \cup {0},
     left : SUBSET Message, last : Message \cup {0}]

LEMMA RunInRoom ==
    /\ InRoomState \subseteq RunState
    /\ \A q \in RunState : q.pc \in InRoom => q \in InRoomState
BY DEF InRoomState, RunState, Resting, InRoom

LEMMA IngInitInv == IngInit => IngInv
<1> SUFFICES ASSUME IngInit PROVE IngInv
    OBVIOUS
<1>1. 0 \in 0 .. MaxUpsets
    BY IngestAssumption
<1>2. Resting \in RunState /\ Resting.pc \notin InRoom
    BY DEF RunState, Resting, InRoom
<1>3. IngTypeOK
    BY <1>1, <1>2 DEF IngInit, IngTypeOK
<1>4. \A w \in Ingester : ingester[w] = Resting
    BY DEF IngInit
<1>5. CursorsPlaced /\ NothingPassedOver
    BY DEF IngInit, CursorsPlaced, NothingPassedOver
<1>6. \A w \in Ingester : Placed(ingester[w]) /\ NothingLeft(ingester[w])
    BY <1>2, <1>4 DEF Placed, NothingLeft
<1> QED BY <1>3, <1>5, <1>6 DEF IngInv

\* A step of the run w, which goes on as s: what it must have of its room, and of what it covers.
LEMMA IngGoes ==
    ASSUME IngInv, NEW w \in Ingester, NEW s \in RunState, Run(w, s), UNCHANGED <<stored, late, upset>>,
           upsets' \in 0 .. MaxUpsets,
           covered' \in [Room -> SUBSET Message], \A r \in Room : covered[r] \subseteq covered'[r],
           cursor' \in [Room -> Message \cup {0}], \A r \in Room : cursor'[r] \in stored[r] \cup {0},
           Placed(s),
           ~upset => \A r \in Room : \A m \in stored[r] : m <= cursor'[r] => m \in covered'[r] \/ <<r, m>> \in late,
           ~upset => (s.pc \in InRoom => \A m \in stored[s.room] :
                /\ m <= s.from \/ m <= s.last => m \in covered'[s.room] \/ <<s.room, m>> \in late
                /\ (\E n \in s.left : m < n) => m \in s.left \/ m \in covered'[s.room] \/ <<s.room, m>> \in late)
    PROVE  IngInv'
<1>1. /\ \A v \in Ingester : ingester'[v] = IF v = w THEN s ELSE ingester[v]
      /\ ingester' \in [Ingester -> RunState]
    BY DEF IngInv, IngTypeOK, Run
<1>2. IngTypeOK'
    BY <1>1 DEF IngInv, IngTypeOK
<1>3. CursorsPlaced'
    BY DEF IngInv, CursorsPlaced
<1>4. NothingPassedOver'
    BY DEF NothingPassedOver, Settled
<1>5. ASSUME NEW v \in Ingester PROVE Placed(ingester[v])'
    BY <1>1 DEF IngInv, Placed
<1>6. ASSUME ~upset', NEW v \in Ingester PROVE NothingLeft(ingester[v])'
    <2>1. CASE v = w
        BY <1>1, <1>6, <2>1 DEF NothingLeft, Settled
    <2>2. CASE v # w
        <3>1. ingester'[v] = ingester[v] /\ NothingLeft(ingester[v])
            BY <1>1, <1>6, <2>2 DEF IngInv
        <3>2. ingester[v].pc \in InRoom => ingester[v].room \in Room
            BY RunShape DEF IngInv, IngTypeOK
        <3> QED BY <3>1, <3>2 DEF NothingLeft, Settled
    <2> QED BY <2>1, <2>2
<1> QED BY <1>2, <1>3, <1>4, <1>5, <1>6 DEF IngInv

\* A step between rooms.
LEMMA IngRests ==
    ASSUME IngInv, NEW w \in Ingester, NEW s \in RunState, Run(w, s), s.pc \notin InRoom,
           UNCHANGED <<stored, covered, cursor, late, upset>>, upsets' \in 0 .. MaxUpsets
    PROVE  IngInv'
<1>1. Placed(s)
    BY DEF Placed
<1>2. covered' \in [Room -> SUBSET Message] /\ cursor' \in [Room -> Message \cup {0}]
    BY DEF IngInv, IngTypeOK
<1>3. \A r \in Room : cursor'[r] \in stored[r] \cup {0} /\ covered[r] \subseteq covered'[r]
    BY DEF IngInv, CursorsPlaced
<1>4. ~upset => \A r \in Room : \A m \in stored[r] : m <= cursor'[r] => m \in covered'[r] \/ <<r, m>> \in late
    BY DEF IngInv, NothingPassedOver, Settled
<1> QED BY <1>1, <1>2, <1>3, <1>4, IngGoes

LEMMA RestingRuns ==
    ASSUME IngInv, NEW w \in Ingester
    PROVE  /\ Resting \in RunState /\ Resting.pc \notin InRoom
           /\ ingester[w].pc \in InRoom => RoomDone(w) \in RunState /\ RoomDone(w).pc \notin InRoom
<1>1. ingester[w] \in RunState
    BY DEF IngInv, IngTypeOK
<1>2. ingester[w].pc \in InRoom => ingester[w].todo \subseteq Room
    BY <1>1, RunShape DEF InRoom
<1> QED BY <1>2 DEF RoomDone, RunState, Resting, InRoom

LEMMA RoomsStep ==
    ASSUME IngInv, NEW w \in Ingester, ListRooms(w) \/ EndRun(w) \/ WindowFails(w) \/ RunAborts(w)
    PROVE  IngInv'
<1>1. ingester[w] \in RunState /\ upsets \in 0 .. MaxUpsets
    BY DEF IngInv, IngTypeOK
<1>2. upsets' \in 0 .. MaxUpsets
    BY <1>1, IngestAssumption DEF ListRooms, EndRun, WindowFails, RunAborts
<1>3. UNCHANGED <<stored, covered, cursor, late, upset>>
    BY DEF ListRooms, EndRun, WindowFails, RunAborts, InRun
<1>4. CASE ListRooms(w)
    <2>1. PICK todo \in SUBSET Candidates : Run(w, [pc |-> "rooms", todo |-> todo])
        BY <1>4 DEF ListRooms
    <2>2. [pc |-> "rooms", todo |-> todo] \in RunState /\ "rooms" \notin InRoom
        BY DEF RunState, Candidates, InRoom
    <2> QED BY <1>2, <1>3, <2>1, <2>2, IngRests
<1>5. CASE EndRun(w) \/ RunAborts(w)
    <2>1. Run(w, Resting)
        BY <1>5 DEF EndRun, RunAborts
    <2> QED BY <1>2, <1>3, <2>1, RestingRuns, IngRests
<1>6. CASE WindowFails(w)
    <2> DEFINE q == ingester[w]
               s == [q EXCEPT !.pc = "cursor"]
    <2>1. q.pc = "windows" /\ q.pc \in InRoom
        BY <1>6 DEF WindowFails, InRun, InRoom
    <2>2. Run(w, RoomDone(w)) \/ Run(w, s)
        BY <1>6 DEF WindowFails, RoomFailed
    <2>3. CASE Run(w, RoomDone(w))
        BY <1>2, <1>3, <2>1, <2>3, RestingRuns, IngRests
    <2>4. CASE Run(w, s)
        <3>1. s \in RunState /\ s.pc = "cursor" /\ s.room = q.room /\ s.from = q.from /\ s.left = q.left
              /\ s.last = q.last
            <4>1. "cursor" \in InRoom /\ q \in InRoomState /\ s = [q EXCEPT !.pc = "cursor"]
                BY <1>1, <2>1, RunInRoom DEF InRoom
            <4> HIDE DEF q, s
            <4>2. /\ s \in InRoomState /\ s.pc = "cursor" /\ s.room = q.room /\ s.from = q.from
                  /\ s.left = q.left /\ s.last = q.last
                BY <4>1 DEF InRoomState
            <4> QED BY <4>2, RunInRoom
        <3>2. Placed(q) /\ (~upset => NothingLeft(q))
            BY DEF IngInv
        <3> HIDE DEF q, s
        <3>3. Placed(s)
            BY <2>1, <3>1, <3>2 DEF Placed
        <3>4. covered' \in [Room -> SUBSET Message] /\ cursor' \in [Room -> Message \cup {0}]
            BY <1>3 DEF IngInv, IngTypeOK
        <3>5. \A r \in Room : cursor'[r] \in stored[r] \cup {0} /\ covered[r] \subseteq covered'[r]
            BY <1>3 DEF IngInv, CursorsPlaced
        <3>6. ~upset => \A r \in Room : \A m \in stored[r] : m <= cursor'[r] => m \in covered'[r] \/ <<r, m>> \in late
            BY <1>3 DEF IngInv, NothingPassedOver, Settled
        <3>7. ~upset => (s.pc \in InRoom => \A m \in stored[s.room] :
                /\ m <= s.from \/ m <= s.last => m \in covered'[s.room] \/ <<s.room, m>> \in late
                /\ (\E n \in s.left : m < n) => m \in s.left \/ m \in covered'[s.room] \/ <<s.room, m>> \in late)
            BY <1>3, <2>1, <3>1, <3>2 DEF NothingLeft, Settled
        <3> QED BY <1>2, <1>3, <2>4, <3>1, <3>3, <3>4, <3>5, <3>6, <3>7, IngGoes
    <2> QED BY <2>2, <2>3, <2>4
<1> QED BY <1>4, <1>5, <1>6

LEMMA ReadingStep ==
    ASSUME IngInv, NEW w \in Ingester, GetRoomCursor(w) \/ ListRoomMessages(w)
    PROVE  IngInv'
<1> DEFINE q == ingester[w]
<1>1. q \in RunState /\ upsets' \in 0 .. MaxUpsets /\ UNCHANGED <<stored, covered, cursor, late, upset>>
    BY DEF IngInv, IngTypeOK, GetRoomCursor, ListRoomMessages, InRun
<1>2. covered' \in [Room -> SUBSET Message] /\ cursor' \in [Room -> Message \cup {0}]
    BY <1>1 DEF IngInv, IngTypeOK
<1>3. \A r \in Room : cursor'[r] \in stored[r] \cup {0} /\ covered[r] \subseteq covered'[r]
    BY <1>1 DEF IngInv, CursorsPlaced
<1>4. ~upset => \A r \in Room : \A m \in stored[r] : m <= cursor'[r] => m \in covered'[r] \/ <<r, m>> \in late
    BY <1>1 DEF IngInv, NothingPassedOver, Settled
<1>5. Placed(q) /\ (~upset => NothingLeft(q))
    BY DEF IngInv
<1>6. CASE GetRoomCursor(w)
    <2>1. PICK r \in q.todo : Run(w, [pc |-> "list", todo |-> q.todo, room |-> r,
                                      from |-> cursor[r], left |-> {}, last |-> 0])
        BY <1>6 DEF GetRoomCursor
    <2> DEFINE s == [pc |-> "list", todo |-> q.todo, room |-> r, from |-> cursor[r], left |-> {}, last |-> 0]
    <2>2. q.todo \subseteq Room /\ r \in Room
        BY <1>1, <1>6, <2>1, RunShape DEF GetRoomCursor, InRun
    <2>3. s \in RunState
        BY <2>2 DEF RunState, IngInv, IngTypeOK
    <2>4. s.pc = "list" /\ s.room = r /\ s.from = cursor[r] /\ s.left = {} /\ s.last = 0
        OBVIOUS
    <2>5. Run(w, s)
        BY <2>1
    <2> HIDE DEF s
    <2>6. Placed(s)
        BY <2>2, <2>4 DEF Placed, IngInv, CursorsPlaced
    <2>7. ~upset => (s.pc \in InRoom => \A m \in stored[s.room] :
            /\ m <= s.from \/ m <= s.last => m \in covered'[s.room] \/ <<s.room, m>> \in late
            /\ (\E n \in s.left : m < n) => m \in s.left \/ m \in covered'[s.room] \/ <<s.room, m>> \in late)
        <3>1. \A m \in stored[r] : m \in 1 .. LastMessage[r] /\ LastMessage[r] \in Nat
            BY <2>2, IngestAssumption DEF IngInv, CursorsPlaced
        <3>2. \A m \in stored[r] : ~(m <= s.last)
            BY <2>4, <3>1
        <3> QED BY <1>1, <1>4, <2>2, <2>4, <3>2
    <2> QED BY <1>1, <1>2, <1>3, <1>4, <2>3, <2>5, <2>6, <2>7, IngGoes
<1>7. CASE ListRoomMessages(w)
    <2> DEFINE S == {m \in stored[q.room] : m > q.from}
               L == First(S)
               s == [q EXCEPT !.pc = "windows", !.left = L]
    <2>1. q.pc = "list" /\ q.pc \in InRoom /\ (Run(w, RoomDone(w)) \/ Run(w, s))
        BY <1>7 DEF ListRoomMessages, InRun, InRoom
    <2>2. CASE Run(w, RoomDone(w))
        BY <1>1, <2>1, <2>2, RestingRuns, IngRests
    <2>3. CASE Run(w, s)
        <3>1. q.room \in Room /\ q.last \in Message \cup {0} /\ q.from \in Message \cup {0}
            BY <1>1, <2>1, RunShape
        <3>2. LastMessage[q.room] \in Nat /\ stored[q.room] \subseteq 1 .. LastMessage[q.room]
              /\ stored[q.room] \subseteq Message
            BY <3>1, IngestAssumption DEF IngInv, CursorsPlaced, IngTypeOK
        <3>3. L \subseteq S /\ \A m \in S : \A n \in L : m < n => m \in L
            BY <3>2, FirstIsPrefix
        <3>4. L \in SUBSET Message
            BY <3>2, <3>3
        <3>5. s \in RunState /\ s.pc = "windows" /\ s.room = q.room /\ s.from = q.from /\ s.left = L
              /\ s.last = q.last
            <4>1. "windows" \in InRoom /\ q \in InRoomState /\ s = [q EXCEPT !.pc = "windows", !.left = L]
                BY <1>1, <2>1, RunInRoom DEF InRoom
            <4> HIDE DEF L, q, s
            <4>2. /\ s \in InRoomState /\ s.pc = "windows" /\ s.room = q.room /\ s.from = q.from
                  /\ s.left = L /\ s.last = q.last
                BY <3>4, <4>1 DEF InRoomState
            <4> QED BY <4>2, RunInRoom
        <3>6. \A m \in stored[q.room] : m \in S \/ m <= q.from
            <4>1. q.from \in Int /\ \A m \in stored[q.room] : m \in Int
                BY <1>5, <2>1, <3>2 DEF Placed
            <4> QED BY <4>1
        <3>7. L \subseteq stored[q.room]
            BY <3>3
        <3> HIDE DEF q, L, s, S
        <3>8. Placed(s)
            BY <1>5, <2>1, <3>5, <3>7 DEF Placed
        <3>9. ~upset => (s.pc \in InRoom => \A m \in stored[s.room] :
                /\ m <= s.from \/ m <= s.last => m \in covered'[s.room] \/ <<s.room, m>> \in late
                /\ (\E n \in s.left : m < n) => m \in s.left \/ m \in covered'[s.room] \/ <<s.room, m>> \in late)
            <4> SUFFICES ASSUME ~upset, NEW m \in stored[q.room]
                         PROVE  /\ m <= q.from \/ m <= q.last => m \in covered[q.room] \/ <<q.room, m>> \in late
                                /\ (\E n \in L : m < n)
                                        => m \in L \/ m \in covered[q.room] \/ <<q.room, m>> \in late
                BY <1>1, <3>5
            <4>1. m <= q.from \/ m <= q.last => m \in covered[q.room] \/ <<q.room, m>> \in late
                BY <1>5, <2>1 DEF NothingLeft, Settled
            <4>2. CASE m \in S
                BY <3>3, <4>1, <4>2
            <4>3. CASE m <= q.from
                BY <4>1, <4>3
            <4> QED BY <3>6, <4>1, <4>2, <4>3
        <3> QED BY <1>1, <1>2, <1>3, <1>4, <2>3, <3>5, <3>8, <3>9, IngGoes
    <2> QED BY <2>1, <2>2, <2>3
<1> QED BY <1>6, <1>7

LEMMA WindowStep ==
    ASSUME IngInv, NEW w \in Ingester, Window(w)
    PROVE  IngInv'
<1> DEFINE q == ingester[w]
           R == q.room
<1>1. q \in RunState /\ q.pc = "windows" /\ q.pc \in InRoom /\ UNCHANGED <<stored, cursor, late, upset, upsets>>
    BY DEF IngInv, IngTypeOK, Window, InRun, InRoom
<1>2. R \in Room /\ q.left \subseteq Message
    BY <1>1, RunShape
<1>3. Placed(q) /\ (~upset => NothingLeft(q))
    BY DEF IngInv
<1>4. PICK end \in q.left :
        LET rest == {m \in q.left : m > end}
        IN  /\ covered' = [covered EXCEPT ![R] = @ \cup (q.left \ rest)]
            /\ Run(w, [q EXCEPT !.pc = IF rest = {} THEN "cursor" ELSE "windows", !.left = rest, !.last = end])
    BY DEF Window
<1> DEFINE rest == {m \in q.left : m > end}
           p == IF rest = {} THEN "cursor" ELSE "windows"
           s == [q EXCEPT !.pc = p, !.left = rest, !.last = end]
<1>5. Run(w, s) /\ covered' = [covered EXCEPT ![R] = @ \cup (q.left \ rest)]
    BY <1>4
<1>6. \A m \in stored[R] : m \in Int
    <2>1. stored[R] \subseteq 1 .. LastMessage[R]
        BY <1>2 DEF IngInv, CursorsPlaced
    <2> QED BY <2>1
<1>7. end \in stored[R] /\ rest \subseteq q.left /\ q.left \subseteq stored[R]
    BY <1>1, <1>3, <1>4 DEF Placed
<1>8. s \in RunState /\ s.pc = p /\ s.room = R /\ s.from = q.from /\ s.left = rest /\ s.last = end
    <2>1. p \in InRoom /\ rest \in SUBSET Message /\ end \in Message \cup {0}
        BY <1>2, <1>4 DEF InRoom
    <2>2. s = [q EXCEPT !.pc = p, !.left = rest, !.last = end] /\ q.room = R /\ q \in InRoomState
        BY <1>1, RunInRoom
    <2> HIDE DEF rest, p, q, s, R
    <2>3. /\ s \in InRoomState /\ s.pc = p /\ s.room = R /\ s.from = q.from /\ s.left = rest
          /\ s.last = end
        BY <2>1, <2>2 DEF InRoomState
    <2> QED BY <2>3, RunInRoom
<1>9. /\ covered' \in [Room -> SUBSET Message] /\ \A r \in Room : covered[r] \subseteq covered'[r]
      /\ covered'[R] = covered[R] \cup (q.left \ rest)
    BY <1>2, <1>5 DEF IngInv, IngTypeOK
<1>10. \A m \in q.left : m \in rest \/ m \in covered'[R]
    BY <1>9
<1>11. \A m \in rest : ~(m <= end)
    BY <1>6, <1>7
<1> HIDE DEF q, R, rest, p, s
<1>12. Placed(s)
    BY <1>1, <1>3, <1>7, <1>8 DEF Placed, R
<1>13. ASSUME ~upset, NEW m \in stored[R]
       PROVE  /\ m <= s.from \/ m <= s.last => m \in covered'[R] \/ <<R, m>> \in late
              /\ (\E n \in s.left : m < n) => m \in s.left \/ m \in covered'[R] \/ <<R, m>> \in late
    <2>1. m <= q.from => m \in covered'[R] \/ <<R, m>> \in late
        BY <1>1, <1>2, <1>3, <1>9, <1>13 DEF NothingLeft, Settled, R
    <2>2. ASSUME NEW n \in q.left, m < n PROVE m \in q.left \/ m \in covered'[R] \/ <<R, m>> \in late
        BY <1>1, <1>2, <1>3, <1>9, <1>13, <2>2 DEF NothingLeft, Settled, R
    <2>3. m <= end => m \in covered'[R] \/ <<R, m>> \in late
        <3>1. CASE m = end
            BY <1>10, <1>11, <1>6, <3>1
        <3>2. CASE m < end
            BY <1>6, <1>7, <1>10, <1>11, <2>2, <3>2
        <3>3. m <= end => m = end \/ m < end
            BY <1>6, <1>7
        <3> QED BY <3>1, <3>2, <3>3
    <2>4. (\E n \in rest : m < n) => m \in rest \/ m \in covered'[R] \/ <<R, m>> \in late
        BY <1>7, <1>10, <2>2
    <2> QED BY <1>8, <2>1, <2>3, <2>4
<1>14. cursor' \in [Room -> Message \cup {0}] /\ \A r \in Room : cursor'[r] \in stored[r] \cup {0}
    BY <1>1 DEF IngInv, IngTypeOK, CursorsPlaced
<1>15. ~upset => \A r \in Room : \A m \in stored[r] : m <= cursor'[r] => m \in covered'[r] \/ <<r, m>> \in late
    BY <1>1, <1>9 DEF IngInv, NothingPassedOver, Settled
<1>16. upsets' \in 0 .. MaxUpsets
    BY <1>1 DEF IngInv, IngTypeOK
<1>17. UNCHANGED <<stored, late, upset>>
    BY <1>1
<1>18. ~upset => (s.pc \in InRoom => \A m \in stored[s.room] :
        /\ m <= s.from \/ m <= s.last => m \in covered'[s.room] \/ <<s.room, m>> \in late
        /\ (\E n \in s.left : m < n) => m \in s.left \/ m \in covered'[s.room] \/ <<s.room, m>> \in late)
    BY <1>8, <1>13
<1> QED BY <1>5, <1>8, <1>9, <1>12, <1>14, <1>15, <1>16, <1>17, <1>18, IngGoes

LEMMA CursorStep ==
    ASSUME IngInv, NEW w \in Ingester, UpsertRoomCursor(w)
    PROVE  IngInv'
<1> DEFINE q == ingester[w]
<1>1. /\ q \in RunState /\ q.pc \in InRoom /\ UNCHANGED <<stored, covered, late, upset, upsets>>
      /\ cursor' = [cursor EXCEPT ![q.room] = q.last] /\ Run(w, RoomDone(w))
    BY DEF IngInv, IngTypeOK, UpsertRoomCursor, InRun, InRoom, Reached
<1>2. q.room \in Room /\ q.last \in Message \cup {0} /\ q.last \in stored[q.room] \cup {0}
    BY <1>1, RunShape DEF IngInv, Placed
<1>3. RoomDone(w) \in RunState /\ RoomDone(w).pc \notin InRoom
    BY <1>1, RestingRuns
<1>4. ~upset => \A m \in stored[q.room] : m <= q.last => m \in covered[q.room] \/ <<q.room, m>> \in late
    BY <1>1 DEF IngInv, NothingLeft, Settled
<1> HIDE DEF q
<1>5. /\ cursor' \in [Room -> Message \cup {0}]
      /\ \A r \in Room : cursor'[r] = IF r = q.room THEN q.last ELSE cursor[r]
    BY <1>1, <1>2 DEF IngInv, IngTypeOK
<1>6. \A r \in Room : cursor'[r] \in stored[r] \cup {0}
    BY <1>2, <1>5 DEF IngInv, CursorsPlaced
<1>7. ~upset => \A r \in Room : \A m \in stored[r] : m <= cursor'[r] => m \in covered'[r] \/ <<r, m>> \in late
    BY <1>1, <1>4, <1>5 DEF IngInv, NothingPassedOver, Settled
<1>8. covered' \in [Room -> SUBSET Message] /\ (\A r \in Room : covered[r] \subseteq covered'[r])
      /\ upsets' \in 0 .. MaxUpsets
    BY <1>1 DEF IngInv, IngTypeOK
<1>9. Placed(RoomDone(w))
    BY <1>3 DEF Placed
<1> QED BY <1>1, <1>3, <1>5, <1>6, <1>7, <1>8, <1>9, IngGoes

\* A message comes in, perhaps behind a cursor or a run.
LEMMA ArrivalStep ==
    ASSUME IngInv, NEW r \in Room, NEW m \in Message, Arrive(r, m)
    PROVE  IngInv'
<1>1. /\ m \in 1 .. LastMessage[r] /\ m \notin stored[r] /\ LastMessage[r] \in Nat
      /\ stored' = [stored EXCEPT ![r] = @ \cup {m}]
      /\ late' = IF Passed(r, m) THEN late \cup {<<r, m>>} ELSE late
      /\ UNCHANGED <<covered, cursor, ingester, upset, upsets>>
    BY IngestAssumption DEF Arrive
<1>2. \A o \in Room : stored'[o] = IF o = r THEN stored[r] \cup {m} ELSE stored[o]
    BY <1>1 DEF IngInv, IngTypeOK
<1>3. IngTypeOK'
    BY <1>1 DEF IngInv, IngTypeOK, Message
<1>4. CursorsPlaced'
    BY <1>1, <1>2 DEF IngInv, CursorsPlaced
<1>5. \A w \in Ingester : Placed(ingester[w])'
    BY <1>1, <1>2, RunShape DEF IngInv, IngTypeOK, Placed
<1>6. late \subseteq late'
    BY <1>1
<1>7. m <= cursor[r] => <<r, m>> \in late'
    <2>1. m \in Int /\ cursor[r] \in Int /\ m # cursor[r]
        BY <1>1 DEF IngInv, CursorsPlaced
    <2>2. m < cursor[r] => Passed(r, m)
        BY DEF Passed
    <2> QED BY <1>1, <2>1, <2>2
<1>8. NothingPassedOver'
    BY <1>1, <1>2, <1>6, <1>7 DEF IngInv, NothingPassedOver, Settled
<1>9. ASSUME ~upset', NEW w \in Ingester PROVE NothingLeft(ingester[w])'
    <2> DEFINE q == ingester[w]
    <2>1. Placed(q) /\ NothingLeft(q) /\ q \in RunState /\ UNCHANGED <<covered, ingester>>
        BY <1>1, <1>9 DEF IngInv, IngTypeOK
    <2>2. ASSUME q.pc \in InRoom, q.room = r
          PROVE  /\ m <= q.from \/ m <= q.last => <<r, m>> \in late'
                 /\ (\E n \in q.left : m < n) => <<r, m>> \in late'
        <3>1. \A n \in stored[r] : n \in Int /\ n # m
            BY <1>1 DEF IngInv, CursorsPlaced
        <3>2. q.from \in Int /\ q.last \in Int /\ m \in Int /\ m # q.from /\ m # q.last
            BY <1>1, <2>1, <2>2, <3>1 DEF Placed
        <3>3. m < q.from \/ m < q.last \/ (\E n \in q.left : m < n) => Passed(r, m)
            BY <2>2 DEF Passed, InRoom
        <3> QED BY <1>1, <3>2, <3>3
    <2>3. q.pc \in InRoom => q.room \in Room
        BY <2>1, RunShape
    <2>4. \A n \in stored'[q.room] : n \in stored[q.room] \/ (n = m /\ q.room = r) \/ q.pc \notin InRoom
        BY <1>2, <2>3
    <2>5. ASSUME q.pc \in InRoom, NEW n \in stored[q.room]
          PROVE  /\ n <= q.from \/ n <= q.last => Settled(q.room, n)
                 /\ (\E k \in q.left : n < k) => n \in q.left \/ Settled(q.room, n)
        BY <2>1, <2>5 DEF NothingLeft
    <2> HIDE DEF q
    <2>6. \A n : Settled(q.room, n) => n \in covered'[q.room] \/ <<q.room, n>> \in late'
        BY <1>6, <2>1 DEF Settled
    <2>7. q.pc \in InRoom => \A n \in stored'[q.room] :
            /\ n <= q.from \/ n <= q.last => n \in covered'[q.room] \/ <<q.room, n>> \in late'
            /\ (\E k \in q.left : n < k) => n \in q.left \/ n \in covered'[q.room] \/ <<q.room, n>> \in late'
        BY <2>2, <2>4, <2>5, <2>6
    <2>8. ingester'[w] = q
        BY <2>1 DEF q
    <2> QED BY <2>7, <2>8 DEF NothingLeft, Settled
<1> QED BY <1>3, <1>4, <1>5, <1>8, <1>9 DEF IngInv

LEMMA ResetStep ==
    ASSUME IngInv, ResetIngestion
    PROVE  IngInv'
<1>1. /\ covered' = [r \in Room |-> {}] /\ cursor' = [r \in Room |-> 0] /\ UNCHANGED <<stored, late, ingester>>
      /\ upset' = (upset \/ \E w \in Ingester : ingester[w] # Resting) /\ upsets' \in 0 .. MaxUpsets
    BY IngestAssumption DEF ResetIngestion, IngInv, IngTypeOK
<1>2. IngTypeOK'
    BY <1>1 DEF IngInv, IngTypeOK
<1>3. CursorsPlaced' /\ NothingPassedOver'
    <2>1. \A r \in Room : stored'[r] \subseteq 1 .. LastMessage[r] /\ cursor'[r] = 0
        BY <1>1 DEF IngInv, CursorsPlaced
    <2>2. \A r \in Room : \A m \in stored'[r] : ~(m <= cursor'[r])
        BY <2>1, IngestAssumption
    <2> QED BY <2>1, <2>2 DEF CursorsPlaced, NothingPassedOver
<1>4. \A w \in Ingester : Placed(ingester[w])'
    BY <1>1 DEF IngInv, Placed
<1>5. ASSUME ~upset', NEW w \in Ingester PROVE NothingLeft(ingester[w])'
    <2>1. ingester'[w] = Resting /\ Resting.pc \notin InRoom
        BY <1>1, <1>5 DEF Resting, InRoom
    <2> QED BY <2>1 DEF NothingLeft
<1> QED BY <1>2, <1>3, <1>4, <1>5 DEF IngInv

LEMMA IngStep == IngInv /\ [IngNext]_ingVars => IngInv'
<1> SUFFICES ASSUME IngInv, [IngNext]_ingVars PROVE IngInv'
    OBVIOUS
<1>1. CASE UNCHANGED ingVars
    BY <1>1 DEF ingVars, IngInv, IngTypeOK, CursorsPlaced, NothingPassedOver, Placed, NothingLeft, Settled, Message
<1>2. CASE IngNext
    BY <1>2, RoomsStep, ReadingStep, WindowStep, CursorStep, ArrivalStep, ResetStep DEF IngNext, IngestStep
<1> QED BY <1>1, <1>2

\* The rows and the runs of the ingestion keep their types.
THEOREM IngestionTypes == IngSpec => []IngTypeOK
<1>1. IngInv => IngTypeOK
    BY DEF IngInv
<1> QED BY <1>1, IngInitInv, IngStep, PTL DEF IngSpec

\* For any rooms, messages and numbers of overlapping runs: every message behind the cursor of its
\* room was in a window that was extracted, or came in behind a cursor or a run.
THEOREM NothingIsPassedOver == IngSpec => []NothingPassedOver
<1>1. IngInv => NothingPassedOver
    BY DEF IngInv
<1> QED BY <1>1, IngInitInv, IngStep, PTL DEF IngSpec

-----------------------------------------------------------------------------
(* Migration *)

Batched(k) == phases[k] = "batched"

\* The worker has phases of its own; a call that counts a batch has imported it.
Places ==
    /\ worker.pc # "idle" => IsWorkers(worker.k)
    /\ api.pc \in {"count", "begin", "add"} => disturbed
    /\ runner.pc \in {"work", "advance", "check"} /\ Batched(runner.k) => runner.at < Batches
    /\ runner.pc \in {"advance", "check"} => Batched(runner.k)

\* The rows claim no more than is imported.
RowsAreTrue ==
    \A k \in MigPhase : Batched(k) =>
        /\ 1 .. processed[k] \subseteq imported
        /\ status[k] = "completed" => 1 .. Batches \subseteq imported

\* The runner has imported what it has gone past, and the count of its row is not ahead of it.
RunnerIsTrue ==
    LET k == runner.k
        n == runner.at
    IN  Batched(k) =>
        /\ runner.pc = "start" => n = 0
        /\ runner.pc \in {"resume", "work"} => 1 .. n \subseteq imported /\ processed[k] <= n
        /\ runner.pc = "advance" => 1 .. (n + 1) \subseteq imported /\ processed[k] <= n
        /\ runner.pc = "check" => 1 .. (n + 1) \subseteq imported /\ processed[k] <= n + 1
        /\ runner.pc = "finish" => 1 .. Batches \subseteq imported

\* A batch that the runner imported under a pause is followed by a stop, unless the row is gone.
PauseInv ==
    /\ PauseIsHeeded
    /\ overrun > 0 /\ runner.pc \in {"advance", "check"} => status[runner.k] \in {"paused", "absent"}
    /\ overrun > 0 /\ runner.pc = "work" => status[runner.k] = "absent"

MigInv == MigTypeOK /\ Places /\ PauseInv /\ (~disturbed => RowsAreTrue /\ RunnerIsTrue)

MigStatus == [MigPhase -> RowStatus]

LEMMA SomePhase == MigTypeOK => Len(phases) \in Nat /\ 1 \in MigPhase /\ phases \in Seq(PhaseKind)
BY PhasesAssumption DEF MigTypeOK, MigPhase

LEMMA MigInitInv == MigInit => MigInv
<1> SUFFICES ASSUME MigInit PROVE MigInv
    OBVIOUS
<1>1. /\ 0 \in 0 .. MaxRuns /\ 0 \in 0 .. MaxCalls /\ 0 \in 0 .. MaxFaults /\ Units \in Nat /\ Batches \in Nat
    BY BoundsAssumption
<1>2. 1 \in MigPhase
    BY PhasesAssumption DEF MigInit, MigPhase
<1>3. MigTypeOK
    <2>1. runner \in [pc : RunnerPC, k : MigPhase, at : 0 .. Batches]
        BY <1>1, <1>2 DEF MigInit, RunnerIdle, RunnerPC
    <2>2. /\ worker \in [pc : {"idle", "work", "done", "some", "retry", "fail"}, k : MigPhase]
          /\ api \in [pc : {"idle", "read", "start", "force", "forget", "count", "begin", "add"}, k : MigPhase]
        BY <1>2 DEF MigInit, WorkerIdle, ApiIdle
    <2>3. /\ status \in [MigPhase -> RowStatus] /\ processed \in [MigPhase -> Nat]
          /\ pending \in [MigPhase -> Backlog]
        BY DEF MigInit, RowStatus
    <2>4. phases \in PhaseLists /\ imported \subseteq 1 .. Batches /\ disturbed \in BOOLEAN /\ overrun \in Nat
        BY DEF MigInit
    <2>5. runs \in 0 .. MaxRuns /\ calls \in 0 .. MaxCalls /\ faults \in 0 .. MaxFaults
        BY <1>1 DEF MigInit
    <2> QED BY <2>1, <2>2, <2>3, <2>4, <2>5 DEF MigTypeOK
<1>4. runner.pc = "idle" /\ worker.pc = "idle" /\ api.pc = "idle" /\ overrun = 0
    BY DEF MigInit, RunnerIdle, WorkerIdle, ApiIdle
<1>5. Places /\ PauseInv
    BY <1>4 DEF Places, PauseInv, PauseIsHeeded
<1>6. RunnerIsTrue
    BY <1>4 DEF RunnerIsTrue
<1>7. RowsAreTrue
    <2>1. \A k \in MigPhase : processed[k] = 0 /\ status[k] = "absent"
        BY DEF MigInit
    <2> QED BY <2>1 DEF RowsAreTrue
<1> QED BY <1>3, <1>5, <1>6, <1>7 DEF MigInv

\* What starting a phase and setting its status do to the rows.
LEMMA RowWrites ==
    ASSUME MigTypeOK, NEW k \in MigPhase, NEW s \in RowStatus, StartPhase(k) \/ SetStatus(k, s)
    PROVE  /\ status' \in [MigPhase -> RowStatus] /\ processed' \in [MigPhase -> Nat]
           /\ \A i \in MigPhase : i # k => status'[i] = status[i] /\ processed'[i] = processed[i]
           /\ StartPhase(k) => status'[k] = "running" /\ processed'[k] = 0
           /\ SetStatus(k, s) => status[k] # "absent" /\ status'[k] = s /\ processed'[k] = processed[k]
<1>1. status \in [MigPhase -> RowStatus] /\ processed \in [MigPhase -> Nat] /\ "running" \in RowStatus
    BY DEF MigTypeOK, RowStatus
<1>2. CASE StartPhase(k)
    <2>1. status' = [status EXCEPT ![k] = "running"] /\ processed' = [processed EXCEPT ![k] = 0]
        BY <1>2 DEF StartPhase
    <2>2. SetStatus(k, s) => status[k] # "absent" /\ status'[k] = s /\ processed'[k] = processed[k]
        BY <1>1 DEF SetStatus
    <2> QED BY <1>1, <2>1, <2>2
<1>3. CASE SetStatus(k, s)
    <2>1. status[k] # "absent" /\ status' = [status EXCEPT ![k] = s] /\ processed' = processed
        BY <1>3 DEF SetStatus
    <2>2. StartPhase(k) => status'[k] = "running" /\ processed'[k] = 0
        BY <1>1 DEF StartPhase
    <2> QED BY <1>1, <2>1, <2>2
<1> QED BY <1>2, <1>3

\* The rows as they are.
LEMMA RowsStay ==
    ASSUME MigTypeOK, UNCHANGED rowVars
    PROVE  /\ UNCHANGED <<status, processed>>
           /\ status' \in [MigPhase -> RowStatus] /\ processed' \in [MigPhase -> Nat]
BY DEF MigTypeOK, rowVars

LEMMA MigTypes ==
    ASSUME MigTypeOK, UNCHANGED phases,
           status' \in [MigPhase -> RowStatus], processed' \in [MigPhase -> Nat],
           imported' \subseteq 1 .. Batches, pending' \in [MigPhase -> Backlog],
           runner' \in [pc : RunnerPC, k : MigPhase, at : 0 .. Batches],
           worker' \in [pc : {"idle", "work", "done", "some", "retry", "fail"}, k : MigPhase],
           api' \in [pc : {"idle", "read", "start", "force", "forget", "count", "begin", "add"}, k : MigPhase],
           disturbed' \in BOOLEAN, overrun' \in Nat,
           runs' \in 0 .. MaxRuns, calls' \in 0 .. MaxCalls, faults' \in 0 .. MaxFaults
    PROVE  MigTypeOK'
BY DEF MigTypeOK, MigPhase

\* What the worker and the endpoints may do under the runner.
LEMMA OthersWrite ==
    ASSUME MigInv, MigTypeOK', UNCHANGED <<phases, runner>>,
           worker'.pc # "idle" => IsWorkers(worker'.k),
           api'.pc \in {"count", "begin", "add"} => disturbed',
           ~disturbed' => ~disturbed,
           ~disturbed' => imported' = imported,
           ~disturbed' => \A k \in MigPhase : Batched(k) =>
                                /\ processed'[k] = processed[k] \/ processed'[k] = 0
                                /\ status'[k] = "completed" => status[k] = "completed",
           \/ overrun' = 0
           \/ /\ overrun' = overrun
              /\ \A k \in MigPhase : status[k] = "absent" => status'[k] = "absent"
              /\ \A k \in MigPhase : Batched(k) /\ status[k] = "paused" => status'[k] \in {"paused", "absent"}
    PROVE  MigInv'
<1>1. MigTypeOK /\ Places /\ PauseInv /\ runner.k \in MigPhase /\ runner.at \in Nat
      /\ processed[runner.k] \in Nat /\ processed'[runner.k] \in Nat
    BY BoundsAssumption DEF MigInv, MigTypeOK
<1>2. \A k : Batched(k) <=> phases'[k] = "batched"
    BY DEF Batched
<1>3. Places'
    BY <1>1 DEF Places, Batched, IsWorkers
<1>4. PauseInv'
    <2>1. CASE overrun' = 0
        BY <2>1 DEF PauseInv, PauseIsHeeded
    <2>2. CASE overrun' # 0
        BY <1>1, <2>2 DEF PauseInv, PauseIsHeeded, Places
    <2> QED BY <2>1, <2>2
<1>5. ASSUME ~disturbed' PROVE RowsAreTrue'
    <2>1. RowsAreTrue /\ imported' = imported /\ MigPhase' = MigPhase
        BY <1>5 DEF MigInv, MigPhase
    <2>2. ASSUME NEW k \in MigPhase, Batched(k)
          PROVE  1 .. processed'[k] \subseteq imported' /\ (status'[k] = "completed" => 1 .. Batches \subseteq imported')
        <3>1. processed'[k] = processed[k] \/ processed'[k] = 0
            BY <1>5, <2>2
        <3>2. 1 .. processed[k] \subseteq imported
            BY <2>1, <2>2 DEF RowsAreTrue
        <3>3. processed'[k] = 0 => 1 .. processed'[k] = {}
            OBVIOUS
        <3>4. 1 .. processed'[k] \subseteq imported'
            BY <2>1, <3>1, <3>2, <3>3
        <3>5. status'[k] = "completed" => 1 .. Batches \subseteq imported'
            BY <1>5, <2>1, <2>2 DEF RowsAreTrue
        <3> QED BY <3>4, <3>5
    <2> QED BY <2>1, <2>2 DEF RowsAreTrue, Batched
<1>6. ASSUME ~disturbed' PROVE RunnerIsTrue'
    <2>1. RunnerIsTrue /\ imported' = imported
        BY <1>6 DEF MigInv
    <2>2. Batched(runner.k) => processed'[runner.k] <= processed[runner.k]
        BY <1>1, <1>6
    <2> QED BY <1>1, <2>1, <2>2 DEF RunnerIsTrue, Batched
<1> QED BY <1>3, <1>4, <1>5, <1>6 DEF MigInv

\* A backlog of which some was done.
LEMMA BacklogLowers ==
    ASSUME pending \in [MigPhase -> Backlog], NEW k \in MigPhase, NEW left \in pending[k].stuck .. pending[k].all,
           pending' = [pending EXCEPT ![k].all = left]
    PROVE  pending' \in [MigPhase -> Backlog]
<1>1. pending[k] \in [all : 0 .. Units, stuck : 0 .. Units] /\ Units \in Nat
    BY BoundsAssumption DEF Backlog
<1>2. left \in 0 .. Units /\ pending[k].stuck <= left
    BY <1>1
<1>3. [pending[k] EXCEPT !.all = left] \in Backlog
    BY <1>1, <1>2 DEF Backlog
<1>4. pending' = [pending EXCEPT ![k] = [pending[k] EXCEPT !.all = left]]
    OBVIOUS
<1> QED BY <1>3, <1>4

LEMMA WorkerMoves ==
    ASSUME MigInv, UNCHANGED phases, WorkerStep
    PROVE  MigInv'
<1>1. MigTypeOK /\ UNCHANGED <<imported, runner, api, disturbed, overrun, runs, calls>>
    BY DEF MigInv, WorkerStep, WorkerScan, WorkerWorks, WorkerFaults, WorkerWrites, WorkerRestarts, workerKeeps
<1>2. /\ worker \in [pc : {"idle", "work", "done", "some", "retry", "fail"}, k : MigPhase]
      /\ pending \in [MigPhase -> Backlog] /\ faults \in 0 .. MaxFaults /\ 1 \in MigPhase
      /\ Units \in Nat /\ MaxFaults \in Nat
    BY <1>1, SomePhase, BoundsAssumption DEF MigTypeOK
<1>3. faults' \in 0 .. MaxFaults
    BY <1>2 DEF WorkerStep, WorkerScan, WorkerWorks, WorkerFaults, WorkerWrites, WorkerRestarts
<1>4. pending' \in [MigPhase -> Backlog]
    <2>1. CASE WorkerWorks
        <3> DEFINE b == pending[worker.k]
                   left == IF b.all > b.stuck THEN b.all - 1 ELSE b.all
        <3>1. b \in Backlog /\ worker.k \in MigPhase
            BY <1>2
        <3>2. left \in b.stuck .. b.all
            BY <1>2, <3>1 DEF Backlog
        <3>3. pending' = [pending EXCEPT ![worker.k].all = left]
            BY <2>1 DEF WorkerWorks
        <3> HIDE DEF left
        <3> QED BY <1>2, <3>1, <3>2, <3>3, BacklogLowers
    <2>2. CASE ~WorkerWorks
        BY <1>2, <2>2 DEF WorkerStep, WorkerScan, WorkerFaults, WorkerWrites, WorkerRestarts
    <2> QED BY <2>1, <2>2
<1>5. /\ worker' \in [pc : {"idle", "work", "done", "some", "retry", "fail"}, k : MigPhase]
      /\ worker'.pc # "idle" => IsWorkers(worker'.k)
    <2>1. CASE WorkerScan
        <3>1. CASE IsWorkers(worker.k) /\ status[worker.k] = "running"
            <4>1. worker' = [worker EXCEPT !.pc = "work"]
                BY <2>1, <3>1 DEF WorkerScan
            <4> QED BY <1>2, <3>1, <4>1
        <3>2. CASE ~(IsWorkers(worker.k) /\ status[worker.k] = "running")
            <4>1. worker.pc = "idle"
                  /\ worker' = IF worker.k = Len(phases) THEN WorkerIdle ELSE [worker EXCEPT !.k = @ + 1]
                BY <2>1, <3>2 DEF WorkerScan
            <4>2. worker.k # Len(phases) => worker.k + 1 \in MigPhase
                BY <1>1, <1>2, SomePhase DEF MigPhase
            <4> QED BY <1>2, <4>1, <4>2 DEF WorkerIdle
        <3> QED BY <3>1, <3>2
    <2>2. CASE WorkerWorks \/ WorkerFaults
        <3>1. PICK p \in {"some", "retry", "fail", "done"} : worker' = [worker EXCEPT !.pc = p]
            BY <2>2 DEF WorkerWorks, WorkerFaults
        <3>2. IsWorkers(worker.k)
            BY <2>2 DEF WorkerWorks, WorkerFaults, MigInv, Places
        <3>3. worker'.k = worker.k
            BY <1>2, <3>1
        <3> QED BY <1>2, <3>1, <3>2, <3>3
    <2>3. CASE WorkerWrites \/ WorkerRestarts
        BY <1>2, <2>3 DEF WorkerWrites, WorkerRestarts, WorkerIdle
    <2> QED BY <2>1, <2>2, <2>3 DEF WorkerStep
<1>6. /\ status' \in [MigPhase -> RowStatus] /\ processed' \in [MigPhase -> Nat]
      /\ \A k \in MigPhase : Batched(k) => status'[k] = status[k] /\ processed'[k] = processed[k]
      /\ \A k \in MigPhase : status[k] = "absent" => status'[k] = "absent"
    <2>1. CASE UNCHANGED rowVars
        BY <1>1, <2>1, RowsStay
    <2>2. CASE WorkerWrites /\ ~UNCHANGED rowVars
        <3>1. PICK s \in RowStatus : SetStatus(worker.k, s)
            BY <2>2 DEF WorkerWrites, Outcome, RowStatus
        <3>2. worker.k \in MigPhase /\ IsWorkers(worker.k)
            BY <1>2, <2>2 DEF WorkerWrites, MigInv, Places
        <3>3. ~Batched(worker.k)
            BY <3>2 DEF IsWorkers, Batched
        <3> QED BY <1>1, <3>1, <3>2, <3>3, RowWrites
    <2> QED BY <2>1, <2>2 DEF WorkerStep, WorkerScan, WorkerWorks, WorkerFaults, WorkerRestarts
<1>7. MigTypeOK'
    BY <1>1, <1>3, <1>4, <1>5, <1>6, MigTypes DEF MigTypeOK
<1>8. api'.pc \in {"count", "begin", "add"} => disturbed'
    BY <1>1 DEF MigInv, Places
<1> QED BY <1>1, <1>5, <1>6, <1>7, <1>8, OthersWrite

ApiPC == {"idle", "read", "start", "force", "forget", "count", "begin", "add"}

\* A step of an endpoint, by its parts.
LEMMA EndpointMoves ==
    ASSUME MigInv, UNCHANGED <<phases, runner, worker, runs, faults>>,
           status' \in [MigPhase -> RowStatus], processed' \in [MigPhase -> Nat],
           imported' \subseteq 1 .. Batches, pending' \in [MigPhase -> Backlog],
           api' \in [pc : ApiPC, k : MigPhase], disturbed' \in BOOLEAN, calls' \in 0 .. MaxCalls,
           api'.pc \in {"count", "begin", "add"} => disturbed', disturbed => disturbed',
           ~disturbed' => imported' = imported,
           ~disturbed' => \A k \in MigPhase : Batched(k) =>
                                /\ processed'[k] = processed[k] \/ processed'[k] = 0
                                /\ status'[k] = "completed" => status[k] = "completed",
           \/ overrun' = 0
           \/ /\ overrun' = overrun
              /\ \A k \in MigPhase : status[k] = "absent" => status'[k] = "absent"
              /\ \A k \in MigPhase : Batched(k) /\ status[k] = "paused" => status'[k] \in {"paused", "absent"}
    PROVE  MigInv'
<1>1. MigTypeOK'
    <2>1. MigTypeOK
        BY DEF MigInv
    <2>2. overrun' \in Nat
        BY <2>1 DEF MigTypeOK
    <2> QED BY <2>1, <2>2, MigTypes DEF MigTypeOK, ApiPC
<1>2. worker'.pc # "idle" => IsWorkers(worker'.k)
    BY DEF MigInv, Places
<1> QED BY <1>1, <1>2, OthersWrite

LEMMA ApiTypes ==
    ASSUME MigTypeOK
    PROVE  /\ status \in [MigPhase -> RowStatus] /\ processed \in [MigPhase -> Nat]
           /\ imported \subseteq 1 .. Batches /\ pending \in [MigPhase -> Backlog]
           /\ api \in [pc : ApiPC, k : MigPhase] /\ disturbed \in BOOLEAN /\ calls \in 0 .. MaxCalls
           /\ ApiIdle \in [pc : ApiPC, k : MigPhase] /\ ApiIdle.pc = "idle"
           /\ Units \in Nat /\ Batches \in Nat /\ (NewCall => calls' \in 0 .. MaxCalls)
<1>1. MaxCalls \in Nat /\ Units \in Nat /\ Batches \in Nat
    BY BoundsAssumption
<1>2. ApiIdle \in [pc : ApiPC, k : MigPhase] /\ ApiIdle.pc = "idle"
    BY SomePhase DEF ApiIdle, ApiPC
<1>3. NewCall => calls' \in 0 .. MaxCalls
    BY <1>1 DEF MigTypeOK, NewCall
<1> QED BY <1>1, <1>2, <1>3 DEF MigTypeOK, ApiPC

\* Where an endpoint goes.
LEMMA ApiGoes ==
    ASSUME MigTypeOK, NEW k \in MigPhase, NEW p \in ApiPC, ApiGo(p, k)
    PROVE  api' \in [pc : ApiPC, k : MigPhase] /\ api'.pc = p
BY DEF ApiGo

LEMMA ApiNexts ==
    ASSUME MigTypeOK, NEW k \in MigPhase, ApiNext(k)
    PROVE  api' \in [pc : ApiPC, k : MigPhase] /\ api'.pc \in {"idle", "read"}
<1>1. k # Len(phases) => k + 1 \in MigPhase
    BY SomePhase DEF MigPhase
<1>2. "read" \in ApiPC
    BY DEF ApiPC
<1> QED BY <1>1, <1>2, ApiGoes, ApiTypes DEF ApiNext

LEMMA CallsMove ==
    ASSUME MigInv, UNCHANGED phases, Pause \/ Resume \/ ApiRun \/ ApiRead \/ ApiAborts
    PROVE  MigInv'
<1>1. MigTypeOK /\ (api.pc \in {"count", "begin", "add"} => disturbed)
    BY DEF MigInv, Places
<1>2. UNCHANGED <<processed, imported, pending, runner, worker, disturbed, runs, faults>>
    BY DEF Pause, Resume, ApiRun, ApiRead, ApiAborts, NewCall, LongCall, ApiAt, budgets, rowVars
<1>3. calls' \in 0 .. MaxCalls
    BY <1>1, ApiTypes DEF Pause, Resume, ApiRun, ApiRead, ApiAborts, LongCall, ApiAt, budgets
<1>4. CASE Pause \/ Resume
    <2>1. PICK from, to \in RowStatus :
            /\ MoveAll(from, to) /\ to \in {"running", "paused"} /\ from \in {"running", "paused"}
            /\ overrun' = 0 \/ overrun' = overrun
            /\ overrun' = 0 \/ from = "running"
        <3>1. {"running", "paused"} \subseteq RowStatus
            BY DEF RowStatus
        <3>2. CASE Pause
            BY <3>1, <3>2 DEF Pause
        <3>3. CASE Resume
            BY <3>1, <3>3 DEF Resume
        <3> QED BY <1>4, <3>2, <3>3
    <2>2. /\ status' \in [MigPhase -> RowStatus]
          /\ \A k \in MigPhase : status'[k] = IF status[k] = from THEN to ELSE status[k]
        BY <1>1, <2>1 DEF MoveAll, MigTypeOK
    <2>3. UNCHANGED api
        BY <1>4 DEF Pause, Resume
    <2>4. \A k \in MigPhase : status'[k] = "completed" => status[k] = "completed"
        BY <2>1, <2>2
    <2>5. \A k \in MigPhase : status[k] = "absent" => status'[k] = "absent"
        BY <2>1, <2>2
    <2>6. from = "running" => \A k \in MigPhase : status[k] = "paused" => status'[k] \in {"paused", "absent"}
        BY <2>2
    <2> QED BY <1>1, <1>2, <1>3, <2>1, <2>2, <2>3, <2>4, <2>5, <2>6, ApiTypes, EndpointMoves
<1>5. CASE ApiRun \/ ApiRead \/ ApiAborts
    <2>1. UNCHANGED <<rowVars, overrun>>
        BY <1>5 DEF ApiRun, ApiRead, ApiAborts
    <2>2. api' \in [pc : ApiPC, k : MigPhase] /\ api'.pc \notin {"count", "begin", "add"}
        <3>1. CASE ApiRun
            BY <1>1, <3>1, ApiGoes DEF ApiRun, ApiPC
        <3>2. CASE ApiRead
            <4>1. api.k \in MigPhase /\ {"start", "force"} \subseteq ApiPC
                BY <1>1, ApiTypes DEF ApiPC
            <4>2. ApiGo("start", api.k) \/ ApiGo("force", api.k) \/ ApiNext(api.k) \/ api' = ApiIdle
                BY <3>2 DEF ApiRead
            <4> QED BY <1>1, <4>1, <4>2, ApiGoes, ApiNexts, ApiTypes
        <3>3. CASE ApiAborts
            BY <1>1, <3>3, ApiTypes DEF ApiAborts
        <3> QED BY <1>5, <3>1, <3>2, <3>3
    <2>3. UNCHANGED <<status, processed>>
        BY <2>1 DEF rowVars
    <2> QED BY <1>1, <1>2, <1>3, <2>1, <2>2, <2>3, ApiTypes, EndpointMoves
<1> QED BY <1>4, <1>5

LEMMA CallsWrite ==
    ASSUME MigInv, UNCHANGED phases, ApiWrite \/ CountBatch \/ ImportBatch
    PROVE  MigInv'
<1>1. MigTypeOK /\ (api.pc \in {"count", "begin", "add"} => disturbed)
    BY DEF MigInv, Places
<1>2. UNCHANGED <<pending, runner, worker, runs, faults>> /\ calls' \in 0 .. MaxCalls
    BY <1>1, ApiTypes DEF ApiWrite, CountBatch, ImportBatch, LongCall, NewCall, budgets
<1>3. api.k \in MigPhase
    BY <1>1, ApiTypes
<1>4. CASE ApiWrite
    <2>1. /\ StartPhase(api.k) \/ SetStatus(api.k, "running")
          /\ ApiNext(api.k) /\ overrun' = 0 /\ UNCHANGED <<imported, disturbed>>
        BY <1>4 DEF ApiWrite
    <2>2. "running" \in RowStatus
        BY DEF RowStatus
    <2>3. /\ status' \in [MigPhase -> RowStatus] /\ processed' \in [MigPhase -> Nat]
          /\ \A k \in MigPhase : /\ processed'[k] = processed[k] \/ processed'[k] = 0
                                 /\ status'[k] = "completed" => status[k] = "completed"
        BY <1>1, <1>3, <2>1, <2>2, RowWrites
    <2>4. api' \in [pc : ApiPC, k : MigPhase] /\ api'.pc \notin {"count", "begin", "add"}
        BY <1>1, <1>3, <2>1, ApiNexts
    <2> QED BY <1>1, <1>2, <2>1, <2>3, <2>4, ApiTypes, EndpointMoves
<1>5. CASE CountBatch
    <2>1. disturbed /\ disturbed' /\ overrun' = 0 /\ UNCHANGED imported
        BY <1>1, <1>5 DEF CountBatch
    <2>2. status' \in [MigPhase -> RowStatus] /\ processed' \in [MigPhase -> Nat]
        <3>1. CASE StartPhase(api.k) \/ SetStatus(api.k, "running")
            <4>1. "running" \in RowStatus
                BY DEF RowStatus
            <4> QED BY <1>1, <1>3, <3>1, <4>1, RowWrites
        <3>2. CASE UNCHANGED rowVars
            BY <1>1, <3>2, RowsStay
        <3>3. CASE processed' = [processed EXCEPT ![api.k] = @ + 1] /\ UNCHANGED status
            BY <1>1, <1>3, <3>3, ApiTypes
        <3> QED BY <1>5, <3>1, <3>2, <3>3 DEF CountBatch
    <2>3. api' \in [pc : ApiPC, k : MigPhase]
        <3>1. ApiGo("begin", api.k) \/ ApiGo("add", api.k) \/ api' = ApiIdle
            BY <1>5 DEF CountBatch
        <3>2. "begin" \in ApiPC /\ "add" \in ApiPC
            BY DEF ApiPC
        <3> QED BY <1>1, <1>3, <3>1, <3>2, ApiGoes, ApiTypes
    <2> QED BY <1>1, <1>2, <2>1, <2>2, <2>3, ApiTypes, EndpointMoves
<1>6. CASE ImportBatch
    <2>1. PICK k \in MigPhase, b \in 1 .. Batches : imported' = imported \cup {b} /\ ApiGo("count", k)
        BY <1>6 DEF ImportBatch
    <2>2. disturbed' = TRUE /\ UNCHANGED <<rowVars, overrun>>
        BY <1>6 DEF ImportBatch
    <2>3. "count" \in ApiPC
        BY DEF ApiPC
    <2>4. api' \in [pc : ApiPC, k : MigPhase]
        BY <1>1, <2>1, <2>3, ApiGoes
    <2>5. imported' \subseteq 1 .. Batches
        BY <1>1, <2>1, ApiTypes
    <2>6. UNCHANGED <<status, processed>>
        BY <2>2 DEF rowVars
    <2> QED BY <1>1, <1>2, <2>2, <2>4, <2>5, <2>6, ApiTypes, EndpointMoves
<1> QED BY <1>4, <1>5, <1>6

LEMMA ForgettingMoves ==
    ASSUME MigInv, UNCHANGED phases, ResetMemory \/ ForgetRows
    PROVE  MigInv'
<1>1. MigTypeOK /\ (api.pc \in {"count", "begin", "add"} => disturbed)
    BY DEF MigInv, Places
<1>2. UNCHANGED <<imported, runner, worker, disturbed, overrun, runs, faults>> /\ calls' \in 0 .. MaxCalls
    BY <1>1, ApiTypes DEF ResetMemory, ForgetRows, LongCall, NewCall, ApiAt, budgets
<1>3. CASE ResetMemory
    <2>1. ApiGo("forget", 1) /\ UNCHANGED rowVars /\ WorkAnew
        BY <1>3 DEF ResetMemory
    <2>2. 1 \in MigPhase /\ "forget" \in ApiPC
        BY <1>1, SomePhase DEF ApiPC
    <2>3. pending' \in [MigPhase -> Backlog]
        BY <2>1 DEF WorkAnew
    <2>4. api' \in [pc : ApiPC, k : MigPhase] /\ api'.pc = "forget"
        BY <1>1, <2>1, <2>2, ApiGoes
    <2>5. UNCHANGED <<status, processed>>
        BY <2>1 DEF rowVars
    <2> QED BY <1>1, <1>2, <2>3, <2>4, <2>5, ApiTypes, EndpointMoves
<1>4. CASE ForgetRows
    <2>1. /\ status' = [k \in MigPhase |-> IF IsWorkers(k) THEN "absent" ELSE status[k]]
          /\ processed' = [k \in MigPhase |-> IF IsWorkers(k) THEN 0 ELSE processed[k]]
          /\ api' = ApiIdle /\ UNCHANGED pending
        BY <1>4 DEF ForgetRows
    <2>2. status' \in [MigPhase -> RowStatus] /\ processed' \in [MigPhase -> Nat]
        BY <1>1, <2>1, ApiTypes DEF RowStatus
    <2>3. \A k \in MigPhase : /\ processed'[k] = processed[k] \/ processed'[k] = 0
                              /\ status'[k] = "absent" \/ status'[k] = status[k]
        BY <1>1, <2>1
    <2> QED BY <1>1, <1>2, <2>1, <2>2, <2>3, ApiTypes, EndpointMoves
<1> QED BY <1>3, <1>4

LEMMA ArrivalMoves ==
    ASSUME MigInv, UNCHANGED phases, WorkArrives
    PROVE  MigInv'
<1>1. MigTypeOK /\ (api.pc \in {"count", "begin", "add"} => disturbed)
    BY DEF MigInv, Places
<1>2. UNCHANGED <<status, processed, imported, runner, worker, api, disturbed, overrun, runs, faults>>
      /\ calls' \in 0 .. MaxCalls
    BY <1>1, ApiTypes DEF WorkArrives, NewCall, rowVars
<1>3. pending' \in [MigPhase -> Backlog]
    <2>1. PICK k \in MigPhase, b \in Backlog : pending' = [pending EXCEPT ![k] = b]
        BY DEF WorkArrives
    <2> QED BY <1>1, <2>1, ApiTypes
<1> QED BY <1>1, <1>2, <1>3, ApiTypes, EndpointMoves

LEMMA ResetMoves ==
    ASSUME MigInv, UNCHANGED phases, Reset
    PROVE  MigInv'
<1>1. MigTypeOK /\ Places /\ PauseInv
    BY DEF MigInv
<1>2. /\ status' = [k \in MigPhase |-> "absent"] /\ processed' = [k \in MigPhase |-> 0] /\ imported' = {}
      /\ disturbed' = (disturbed \/ runner # RunnerIdle)
      /\ UNCHANGED <<runner, worker, api, overrun, runs, faults>> /\ calls' \in 0 .. MaxCalls
      /\ pending' \in [MigPhase -> Backlog]
    BY <1>1, ApiTypes DEF Reset, NewCall, WorkAnew
<1>3. /\ \A k \in MigPhase : status'[k] = "absent" /\ processed'[k] = 0
      /\ status' \in [MigPhase -> RowStatus] /\ processed' \in [MigPhase -> Nat]
    BY <1>2 DEF RowStatus
<1>4. disturbed' \in BOOLEAN
    BY <1>1, <1>2 DEF MigTypeOK
<1>5. MigTypeOK'
    BY <1>1, <1>2, <1>3, <1>4, MigTypes DEF MigTypeOK
<1>6. Places'
    BY <1>1, <1>2 DEF Places, Batched, IsWorkers
<1>7. PauseInv'
    BY <1>1, <1>2, <1>3 DEF PauseInv, PauseIsHeeded, MigTypeOK
<1>8. RowsAreTrue'
    <2>1. MigPhase' = MigPhase
        BY DEF MigPhase
    <2>2. 1 .. 0 = {}
        OBVIOUS
    <2>3. \A k \in MigPhase : 1 .. processed'[k] = {} /\ status'[k] # "completed"
        BY <1>3, <2>2
    <2> QED BY <2>1, <2>3 DEF RowsAreTrue
<1>9. ASSUME ~disturbed' PROVE RunnerIsTrue'
    <2>1. runner' = RunnerIdle
        BY <1>2, <1>9
    <2>2. runner'.pc = "idle"
        BY <2>1 DEF RunnerIdle
    <2> QED BY <2>2 DEF RunnerIsTrue
<1> QED BY <1>5, <1>6, <1>7, <1>8, <1>9 DEF MigInv

RunnerState == [pc : RunnerPC, k : MigPhase, at : 0 .. Batches]

LEMMA RunnerGoes ==
    ASSUME NEW p \in RunnerPC, NEW k \in MigPhase, NEW n \in 0 .. Batches, RunnerGo(p, k, n)
    PROVE  runner' \in RunnerState /\ runner'.pc = p /\ runner'.k = k /\ runner'.at = n
BY DEF RunnerGo, RunnerState

\* A run that stops, or goes on to the next phase, claims nothing.
LEMMA RunnerLeaves ==
    ASSUME MigTypeOK, NEW k \in MigPhase, RunnerStops \/ RunnerNext(k)
    PROVE  runner' \in RunnerState /\ runner'.pc \in {"idle", "load"}
<1>1. 1 \in MigPhase /\ 0 \in 0 .. Batches /\ {"idle", "load"} \subseteq RunnerPC
    BY SomePhase, BoundsAssumption DEF RunnerPC
<1>2. CASE RunnerStops
    BY <1>1, <1>2 DEF RunnerStops, RunnerIdle, RunnerState
<1>3. CASE RunnerNext(k) /\ ~RunnerStops
    <2>1. RunnerGo("load", k + 1, 0) /\ k + 1 \in MigPhase
        BY <1>3, SomePhase DEF RunnerNext, MigPhase
    <2> QED BY <1>1, <2>1, RunnerGoes
<1> QED BY <1>2, <1>3

\* A step of the runner, by its parts.
LEMMA RunnerMoves ==
    ASSUME MigInv, UNCHANGED <<phases, worker, api, disturbed, calls, faults>>,
           status' \in [MigPhase -> RowStatus], processed' \in [MigPhase -> Nat],
           imported' \subseteq 1 .. Batches, pending' \in [MigPhase -> Backlog],
           runner' \in RunnerState, runs' \in 0 .. MaxRuns, overrun' \in Nat,
           runner'.pc \in {"work", "advance", "check"} /\ Batched(runner'.k) => runner'.at < Batches,
           runner'.pc \in {"advance", "check"} => Batched(runner'.k),
           PauseInv', ~disturbed => RowsAreTrue' /\ RunnerIsTrue'
    PROVE  MigInv'
<1>1. MigTypeOK'
    BY MigTypes DEF MigInv, MigTypeOK, RunnerState
<1>2. Places'
    BY DEF MigInv, Places, Batched, IsWorkers
<1> QED BY <1>1, <1>2 DEF MigInv

\* The runner leaves the rows and the history alone, and stops or goes on to the next phase.
LEMMA RunnerPauses ==
    ASSUME MigInv, UNCHANGED <<phases, worker, api, disturbed, calls, faults, status, processed, imported, pending>>,
           runner' \in RunnerState, runner'.pc \in {"idle", "load"}, runs' \in 0 .. MaxRuns,
           overrun' = 0 \/ overrun' = overrun
    PROVE  MigInv'
<1>1. /\ status' \in [MigPhase -> RowStatus] /\ processed' \in [MigPhase -> Nat]
      /\ imported' \subseteq 1 .. Batches /\ pending' \in [MigPhase -> Backlog] /\ overrun' \in Nat
    BY DEF MigInv, MigTypeOK
<1>2. PauseInv'
    BY DEF MigInv, PauseInv, PauseIsHeeded
<1>3. ~disturbed => RowsAreTrue'
    BY DEF MigInv, RowsAreTrue, MigPhase, Batched
<1>4. RunnerIsTrue'
    BY DEF RunnerIsTrue
<1> QED BY <1>1, <1>2, <1>3, <1>4, RunnerMoves

LEMMA RunnerTypes ==
    ASSUME MigTypeOK
    PROVE  /\ status \in [MigPhase -> RowStatus] /\ processed \in [MigPhase -> Nat]
           /\ imported \subseteq 1 .. Batches /\ pending \in [MigPhase -> Backlog] /\ overrun \in Nat
           /\ runner \in RunnerState /\ runner.k \in MigPhase /\ runner.at \in 0 .. Batches
           /\ runs \in 0 .. MaxRuns /\ Batches \in Nat /\ Units \in Nat /\ MaxRuns \in Nat
BY BoundsAssumption DEF MigTypeOK, RunnerState

LEMMA StartingMoves ==
    ASSUME MigInv, UNCHANGED phases, RunnerStart \/ RunnerLoad \/ RunnerDies
    PROVE  MigInv'
<1>1. MigTypeOK /\ RunnerIdle \in RunnerState /\ RunnerIdle.pc = "idle"
    BY SomePhase, BoundsAssumption DEF MigInv, RunnerIdle, RunnerState, RunnerPC
<1>2. UNCHANGED <<status, processed, imported, pending, worker, api, disturbed, calls, faults>>
    BY DEF RunnerStart, RunnerLoad, RunnerDies, rowVars, RunnerAt, budgets
<1>3. CASE RunnerStart
    <2>1. RunnerGo("load", 1, 0) /\ overrun' = 0 /\ runs' \in 0 .. MaxRuns
        BY <1>1, <1>3, RunnerTypes DEF RunnerStart
    <2>2. 1 \in MigPhase /\ 0 \in 0 .. Batches /\ "load" \in RunnerPC
        BY <1>1, SomePhase, BoundsAssumption DEF RunnerPC
    <2>3. runner' \in RunnerState /\ runner'.pc = "load"
        BY <2>1, <2>2, RunnerGoes
    <2> QED BY <1>2, <2>1, <2>3, RunnerPauses
<1>4. CASE RunnerDies
    <2>1. runner' = RunnerIdle /\ UNCHANGED <<overrun, runs>>
        BY <1>4 DEF RunnerDies, RunnerStops, budgets
    <2>2. runs' \in 0 .. MaxRuns
        BY <1>1, <2>1, RunnerTypes
    <2> QED BY <1>1, <1>2, <2>1, <2>2, RunnerPauses
<1>5. CASE RunnerLoad
    <2> DEFINE k == runner.k
               n == ResumeAt(k)
    <2>1. UNCHANGED <<overrun, runs>> /\ k \in MigPhase /\ runs' \in 0 .. MaxRuns
        BY <1>1, <1>5, RunnerTypes DEF RunnerLoad, RunnerAt, budgets
    <2>2. CASE RunnerNext(k) \/ RunnerStops
        <3>1. runner' \in RunnerState /\ runner'.pc \in {"idle", "load"}
            BY <1>1, <2>1, <2>2, RunnerLeaves
        <3> QED BY <1>2, <2>1, <3>1, RunnerPauses
    <2>3. CASE RunnerGo("start", k, 0) \/ RunnerGo("resume", k, n)
        <3>1. /\ processed[k] \in Nat /\ Batches \in Nat /\ n = (IF processed[k] > Batches THEN Batches ELSE processed[k])
            BY <1>1, <2>1, RunnerTypes DEF ResumeAt
        <3>2. n \in 0 .. Batches /\ 0 \in 0 .. Batches /\ {"start", "resume"} \subseteq RunnerPC
            BY <3>1 DEF RunnerPC
        <3> HIDE DEF n
        <3>3. /\ runner' \in RunnerState /\ runner'.k = k
              /\ \/ runner'.pc = "start" /\ runner'.at = 0
                 \/ runner'.pc = "resume" /\ runner'.at = n
            BY <2>1, <2>3, <3>2, RunnerGoes
        <3>4. PauseInv'
            BY <1>2, <2>1, <3>3 DEF MigInv, PauseInv, PauseIsHeeded
        <3>5. ~disturbed => RowsAreTrue'
            BY <1>2 DEF MigInv, RowsAreTrue, MigPhase, Batched
        <3>6. ASSUME ~disturbed PROVE RunnerIsTrue'
            <4>1. Batched(k) => 1 .. processed[k] \subseteq imported
                BY <2>1, <3>6 DEF MigInv, RowsAreTrue
            <4>2. Batched(k) => processed[k] <= Batches
                <5>1. Batched(k) => 1 .. processed[k] \subseteq 1 .. Batches
                    BY <1>1, <4>1, RunnerTypes
                <5>2. processed[k] > 0 => processed[k] \in 1 .. processed[k]
                    BY <3>1
                <5> QED BY <3>1, <5>1, <5>2
            <4>3. Batched(k) => n = processed[k]
                BY <3>1, <4>2
            <4>4. Batched(k) => 1 .. n \subseteq imported /\ processed[k] <= n
                BY <3>1, <4>1, <4>3
            <4> HIDE DEF k
            <4> QED BY <1>2, <3>3, <4>4 DEF RunnerIsTrue, Batched
        <3>7. /\ status' \in [MigPhase -> RowStatus] /\ processed' \in [MigPhase -> Nat]
              /\ imported' \subseteq 1 .. Batches /\ pending' \in [MigPhase -> Backlog] /\ overrun' \in Nat
            BY <1>1, <1>2, <2>1, RunnerTypes
        <3> QED BY <1>2, <2>1, <3>3, <3>4, <3>5, <3>6, <3>7, RunnerMoves
    <2> QED BY <1>5, <2>2, <2>3 DEF RunnerLoad
<1> QED BY <1>3, <1>4, <1>5

LEMMA MarkMoves ==
    ASSUME MigInv, UNCHANGED phases, RunnerMark
    PROVE  MigInv'
<1> DEFINE k == runner.k
           n == runner.at
<1>1. MigTypeOK /\ k \in MigPhase /\ n \in 0 .. Batches /\ processed[k] \in Nat /\ Batches \in Nat
    BY RunnerTypes DEF MigInv
<1>2. /\ UNCHANGED <<pending, worker, api, disturbed, runs, calls, faults, imported>> /\ overrun' = 0
      /\ runner.pc \in {"start", "resume"}
    BY DEF RunnerMark, budgets
<1>3. /\ imported' \subseteq 1 .. Batches /\ pending' \in [MigPhase -> Backlog]
      /\ overrun' \in Nat /\ runs' \in 0 .. MaxRuns
    BY <1>1, <1>2, RunnerTypes
<1>4. CASE RunnerStops /\ UNCHANGED rowVars
    <2>1. runner' \in RunnerState /\ runner'.pc \in {"idle", "load"}
        BY <1>1, <1>4, RunnerLeaves
    <2>2. UNCHANGED <<status, processed>>
        BY <1>4 DEF rowVars
    <2> QED BY <1>2, <1>3, <2>1, <2>2, RunnerPauses
<1>5. CASE ~(RunnerStops /\ UNCHANGED rowVars)
    <2> DEFINE go == IF phases[k] = "batched" /\ n >= Batches THEN "finish" ELSE "work"
    <2>1. \/ runner.pc = "start" /\ StartPhase(k) /\ RunnerGo(go, k, n)
          \/ runner.pc = "resume" /\ SetStatus(k, "running") /\ RunnerGo(go, k, n)
        BY <1>5 DEF RunnerMark
    <2>2. go \in RunnerPC /\ go \in {"finish", "work"}
        BY DEF RunnerPC
    <2>3. Batched(k) => (go = "work" => n < Batches) /\ (go = "finish" => n >= Batches)
        BY <1>1 DEF Batched
    <2> HIDE DEF go
    <2>4. runner' \in RunnerState /\ runner'.pc = go /\ runner'.k = k /\ runner'.at = n
        BY <1>1, <2>1, <2>2, RunnerGoes
    <2>5. /\ status' \in [MigPhase -> RowStatus] /\ processed' \in [MigPhase -> Nat]
          /\ \A i \in MigPhase : i # k => status'[i] = status[i] /\ processed'[i] = processed[i]
          /\ status'[k] = "running"
          /\ \/ runner.pc = "start" /\ processed'[k] = 0
             \/ runner.pc = "resume" /\ processed'[k] = processed[k]
        <3>1. "running" \in RowStatus
            BY DEF RowStatus
        <3> HIDE DEF k, n
        <3> QED BY <1>1, <2>1, <3>1, RowWrites
    <2>6. PauseInv'
        BY <1>2 DEF PauseInv, PauseIsHeeded
    <2>7. 1 .. 0 = {}
        OBVIOUS
    <2>8. ASSUME ~disturbed PROVE RowsAreTrue'
        <3>1. ASSUME NEW i \in MigPhase, Batched(i)
              PROVE  1 .. processed'[i] \subseteq imported /\ (status'[i] = "completed" => 1 .. Batches \subseteq imported)
            BY <2>5, <2>7, <2>8, <3>1 DEF MigInv, RowsAreTrue
        <3> QED BY <1>2, <3>1 DEF RowsAreTrue, Batched, MigPhase
    <2>9. ASSUME ~disturbed PROVE RunnerIsTrue'
        <3>1. ASSUME Batched(k) PROVE 1 .. n \subseteq imported /\ processed'[k] <= n
            <4>1. RunnerIsTrue
                BY <2>9 DEF MigInv
            <4>2. CASE runner.pc = "start"
                BY <1>1, <2>5, <2>7, <3>1, <4>1, <4>2 DEF RunnerIsTrue
            <4>3. CASE runner.pc = "resume"
                BY <1>1, <2>5, <3>1, <4>1, <4>3 DEF RunnerIsTrue
            <4> QED BY <1>2, <4>2, <4>3
        <3>2. Batched(k) /\ go = "finish" => 1 .. Batches \subseteq imported
            BY <1>1, <2>3, <3>1
        <3> HIDE DEF k, n
        <3> QED BY <1>2, <2>2, <2>4, <3>1, <3>2 DEF RunnerIsTrue, Batched
    <2>10. /\ runner'.pc \in {"work", "advance", "check"} /\ Batched(runner'.k) => runner'.at < Batches
           /\ runner'.pc \in {"advance", "check"} => Batched(runner'.k)
        BY <2>2, <2>3, <2>4
    <2> QED BY <1>2, <1>3, <2>4, <2>5, <2>6, <2>8, <2>9, <2>10, RunnerMoves
<1> QED BY <1>4, <1>5

LEMMA PhaseWorkMoves ==
    ASSUME MigInv, UNCHANGED phases, RunnerWork
    PROVE  MigInv'
<1> DEFINE k == runner.k
           n == runner.at
<1>1. MigTypeOK /\ k \in MigPhase /\ n \in 0 .. Batches /\ Batches \in Nat /\ overrun \in Nat
      /\ pending \in [MigPhase -> Backlog] /\ Units \in Nat /\ imported \subseteq 1 .. Batches
    BY RunnerTypes DEF MigInv
<1>2. UNCHANGED <<status, processed, worker, api, disturbed, runs, calls, faults>> /\ runner.pc = "work"
    BY DEF RunnerWork, rowVars, budgets
<1>3. status' \in [MigPhase -> RowStatus] /\ processed' \in [MigPhase -> Nat] /\ runs' \in 0 .. MaxRuns
    BY <1>1, <1>2, RunnerTypes
<1>4. CASE Batched(k)
    <2>1. /\ imported' = imported \cup {n + 1} /\ overrun' = (IF status[k] = "paused" THEN overrun + 1 ELSE 0)
          /\ RunnerGo("advance", k, n) /\ UNCHANGED pending
        BY <1>4 DEF RunnerWork, Batched
    <2>2. runner' \in RunnerState /\ runner'.pc = "advance" /\ runner'.k = k /\ runner'.at = n
        BY <1>1, <2>1, RunnerGoes DEF RunnerPC
    <2>3. n < Batches
        BY <1>2, <1>4 DEF MigInv, Places
    <2>4. imported' \subseteq 1 .. Batches /\ overrun' \in Nat
        <3>1. n + 1 \in 1 .. Batches
            BY <1>1, <2>3
        <3>2. overrun' \in Nat
            BY <1>1, <2>1
        <3> HIDE DEF n
        <3> QED BY <1>1, <2>1, <3>1, <3>2
    <2>5. PauseInv'
        <3>1. status[k] = "paused" => overrun = 0
            BY <1>1, <1>2 DEF MigInv, PauseInv
        <3>2. overrun' <= 1 /\ (overrun' > 0 => status[k] = "paused")
            BY <2>1, <3>1
        <3> QED BY <1>2, <2>2, <3>2 DEF PauseInv, PauseIsHeeded
    <2>6. ~disturbed => RowsAreTrue'
        BY <1>2, <2>1 DEF MigInv, RowsAreTrue, Batched, MigPhase
    <2>7. ASSUME ~disturbed PROVE RunnerIsTrue'
        <3>1. 1 .. n \subseteq imported /\ processed[k] <= n
            BY <1>2, <1>4, <2>7 DEF MigInv, RunnerIsTrue
        <3>2. 1 .. (n + 1) \subseteq imported'
            BY <1>1, <2>1, <3>1
        <3> HIDE DEF k, n
        <3> QED BY <1>2, <2>2, <3>1, <3>2 DEF RunnerIsTrue, Batched
    <2>8. pending' \in [MigPhase -> Backlog] /\ runner'.at < Batches /\ Batched(runner'.k)
        BY <1>1, <1>4, <2>1, <2>2, <2>3
    <2> QED BY <1>2, <1>3, <2>2, <2>4, <2>5, <2>6, <2>7, <2>8, RunnerMoves
<1>5. CASE ~Batched(k)
    <2>1. RunnerGo("finish", k, 0) /\ UNCHANGED <<imported, overrun>>
        BY <1>5 DEF RunnerWork, Batched
    <2>2. runner' \in RunnerState /\ runner'.pc = "finish" /\ runner'.k = k
        BY <1>1, <2>1, RunnerGoes DEF RunnerPC
    <2>3. pending' \in [MigPhase -> Backlog]
        <3>1. PICK left \in pending[k].stuck .. pending[k].all : pending' = [pending EXCEPT ![k].all = left]
            BY <1>5 DEF RunnerWork, Batched
        <3> HIDE DEF k
        <3> QED BY <1>1, <3>1, BacklogLowers
    <2>4. PauseInv'
        BY <2>1, <2>2 DEF MigInv, PauseInv, PauseIsHeeded
    <2>5. ~disturbed => RowsAreTrue'
        BY <1>2, <2>1 DEF MigInv, RowsAreTrue, Batched, MigPhase
    <2>6. RunnerIsTrue'
        BY <1>5, <2>2 DEF RunnerIsTrue, Batched
    <2> QED BY <1>1, <1>2, <1>3, <2>1, <2>2, <2>3, <2>4, <2>5, <2>6, RunnerMoves
<1> QED BY <1>4, <1>5

LEMMA CountMoves ==
    ASSUME MigInv, UNCHANGED phases, RunnerAdvance \/ RunnerCheck
    PROVE  MigInv'
<1> DEFINE k == runner.k
           n == runner.at
<1>1. /\ MigTypeOK /\ k \in MigPhase /\ n \in 0 .. Batches /\ processed \in [MigPhase -> Nat] /\ Batches \in Nat
      /\ overrun \in Nat
    BY RunnerTypes DEF MigInv
<1>2. /\ UNCHANGED <<status, imported, overrun, pending, worker, api, disturbed, runs, calls, faults>>
      /\ runner.pc \in {"advance", "check"}
    BY DEF RunnerAdvance, RunnerCheck, RunnerAt, rowVars, budgets
<1>3. Batched(k) /\ n < Batches
    BY <1>2 DEF MigInv, Places
<1>4. /\ status' \in [MigPhase -> RowStatus] /\ imported' \subseteq 1 .. Batches
      /\ pending' \in [MigPhase -> Backlog] /\ overrun' \in Nat /\ runs' \in 0 .. MaxRuns
    BY <1>1, <1>2, RunnerTypes
<1>5. CASE RunnerStops /\ UNCHANGED processed
    <2>1. runner' \in RunnerState /\ runner'.pc \in {"idle", "load"}
        BY <1>1, <1>5, RunnerLeaves
    <2> QED BY <1>2, <1>4, <1>5, <2>1, RunnerPauses
<1>6. CASE RunnerAdvance /\ ~(RunnerStops /\ UNCHANGED processed)
    <2>1. /\ processed' = [processed EXCEPT ![k] = @ + 1] /\ RunnerGo("check", k, n)
          /\ runner.pc = "advance" /\ status[k] # "absent"
        BY <1>6 DEF RunnerAdvance, RunnerAt
    <2>2. runner' \in RunnerState /\ runner'.pc = "check" /\ runner'.k = k /\ runner'.at = n
        BY <1>1, <2>1, RunnerGoes DEF RunnerPC
    <2>3. /\ processed' \in [MigPhase -> Nat] /\ processed'[k] = processed[k] + 1
          /\ \A i \in MigPhase : i # k => processed'[i] = processed[i]
        BY <1>1, <2>1
    <2>4. PauseInv'
        BY <1>2, <2>1, <2>2 DEF MigInv, PauseInv, PauseIsHeeded
    <2>5. ASSUME ~disturbed
          PROVE  1 .. (n + 1) \subseteq imported /\ processed'[k] <= n + 1 /\ 1 .. processed'[k] \subseteq imported
        <3>1. 1 .. (n + 1) \subseteq imported /\ processed[k] <= n
            BY <1>3, <2>1, <2>5 DEF MigInv, RunnerIsTrue
        <3> QED BY <1>1, <2>3, <3>1
    <2>6. ASSUME ~disturbed PROVE RowsAreTrue'
        <3>1. ASSUME NEW i \in MigPhase, Batched(i)
              PROVE  1 .. processed'[i] \subseteq imported /\ (status[i] = "completed" => 1 .. Batches \subseteq imported)
            BY <2>3, <2>5, <2>6, <3>1 DEF MigInv, RowsAreTrue
        <3> QED BY <1>2, <3>1 DEF RowsAreTrue, Batched, MigPhase
    <2>7. ASSUME ~disturbed PROVE RunnerIsTrue'
        <3> HIDE DEF k, n
        <3> QED BY <1>2, <2>2, <2>5, <2>7 DEF RunnerIsTrue, Batched
    <2>8. runner'.at < Batches /\ Batched(runner'.k)
        BY <1>3, <2>2
    <2> QED BY <1>2, <1>4, <2>2, <2>3, <2>4, <2>6, <2>7, <2>8, RunnerMoves
<1>7. CASE RunnerCheck /\ ~(RunnerStops /\ UNCHANGED processed)
    <2> DEFINE go == IF n + 1 >= Batches THEN "finish" ELSE "work"
    <2>1. RunnerGo(go, k, n + 1) /\ UNCHANGED processed /\ runner.pc = "check" /\ status[k] # "paused"
        BY <1>7 DEF RunnerCheck, RunnerAt, PausedNow, rowVars
    <2>2. go \in RunnerPC /\ n + 1 \in 0 .. Batches /\ go \in {"finish", "work"}
        BY <1>1, <1>3 DEF RunnerPC
    <2>3. (go = "finish" => n + 1 = Batches) /\ (go = "work" => n + 1 < Batches)
        BY <1>1, <1>3
    <2> HIDE DEF go
    <2>4. runner' \in RunnerState /\ runner'.pc = go /\ runner'.k = k /\ runner'.at = n + 1
        BY <1>1, <2>1, <2>2, RunnerGoes
    <2>5. PauseInv'
        <3>1. overrun > 0 => status[k] = "absent"
            BY <2>1 DEF MigInv, PauseInv
        <3> QED BY <1>2, <2>2, <2>4, <3>1 DEF MigInv, PauseInv, PauseIsHeeded
    <2>6. ~disturbed => RowsAreTrue'
        BY <1>2, <2>1 DEF MigInv, RowsAreTrue, Batched, MigPhase
    <2>7. ASSUME ~disturbed PROVE RunnerIsTrue'
        <3>1. 1 .. (n + 1) \subseteq imported /\ processed[k] <= n + 1
            BY <1>3, <2>1, <2>7 DEF MigInv, RunnerIsTrue
        <3>2. go = "finish" => 1 .. Batches \subseteq imported
            BY <2>3, <3>1
        <3> HIDE DEF k, n
        <3> QED BY <1>2, <2>1, <2>2, <2>4, <3>1, <3>2 DEF RunnerIsTrue, Batched
    <2>8. /\ runner'.pc \in {"work", "advance", "check"} /\ Batched(runner'.k) => runner'.at < Batches
          /\ runner'.pc \in {"advance", "check"} => Batched(runner'.k)
          /\ processed' \in [MigPhase -> Nat]
        BY <1>1, <1>3, <2>1, <2>2, <2>3, <2>4
    <2> QED BY <1>2, <1>4, <2>4, <2>5, <2>6, <2>7, <2>8, RunnerMoves
<1> QED BY <1>5, <1>6, <1>7

LEMMA EndingMoves ==
    ASSUME MigInv, UNCHANGED phases, RunnerFails \/ RunnerFinish
    PROVE  MigInv'
<1> DEFINE k == runner.k
<1>1. MigTypeOK /\ k \in MigPhase
    BY RunnerTypes DEF MigInv
<1>2. UNCHANGED <<imported, overrun, pending, worker, api, disturbed, runs, calls, faults>>
    BY DEF RunnerFails, RunnerFinish, RunnerAt, budgets
<1>3. runner' \in RunnerState /\ runner'.pc \in {"idle", "load"}
    BY <1>1, RunnerLeaves DEF RunnerFails, RunnerFinish
<1>4. /\ imported' \subseteq 1 .. Batches /\ pending' \in [MigPhase -> Backlog]
      /\ overrun' \in Nat /\ runs' \in 0 .. MaxRuns
    BY <1>1, <1>2, RunnerTypes
<1>5. CASE UNCHANGED rowVars
    BY <1>2, <1>3, <1>4, <1>5, RunnerPauses DEF rowVars
<1>6. CASE ~UNCHANGED rowVars
    <2>1. PICK s \in RowStatus : SetStatus(k, s) /\ (s = "completed" => runner.pc = "finish")
        BY <1>6 DEF RunnerFails, RunnerFinish, RunnerAt, RowStatus
    <2>2. /\ status' \in [MigPhase -> RowStatus] /\ processed' \in [MigPhase -> Nat]
          /\ \A i \in MigPhase : i # k => status'[i] = status[i] /\ processed'[i] = processed[i]
          /\ status'[k] = s /\ processed'[k] = processed[k]
        <3> HIDE DEF k
        <3> QED BY <1>1, <2>1, RowWrites
    <2>3. PauseInv'
        BY <1>2, <1>3 DEF MigInv, PauseInv, PauseIsHeeded
    <2>4. ASSUME ~disturbed PROVE RowsAreTrue'
        <3>1. s = "completed" /\ Batched(k) => 1 .. Batches \subseteq imported
            BY <2>1, <2>4 DEF MigInv, RunnerIsTrue
        <3>2. ASSUME NEW i \in MigPhase, Batched(i)
              PROVE  1 .. processed'[i] \subseteq imported /\ (status'[i] = "completed" => 1 .. Batches \subseteq imported)
            BY <2>2, <2>4, <3>1, <3>2 DEF MigInv, RowsAreTrue
        <3> QED BY <1>2, <3>2 DEF RowsAreTrue, Batched, MigPhase
    <2>5. RunnerIsTrue'
        BY <1>3 DEF RunnerIsTrue
    <2> QED BY <1>2, <1>3, <1>4, <2>2, <2>3, <2>4, <2>5, RunnerMoves
<1> QED BY <1>5, <1>6

LEMMA MigStep == MigInv /\ [MigNext]_migVars => MigInv'
<1> SUFFICES ASSUME MigInv, [MigNext]_migVars PROVE MigInv'
    OBVIOUS
<1>1. CASE UNCHANGED migVars
    <2>1. UNCHANGED <<phases, status, processed, imported, pending, runner, worker, api, disturbed, overrun,
                      runs, calls, faults>>
        BY <1>1 DEF migVars
    <2>2. MigTypeOK' /\ disturbed' = disturbed
        BY <2>1 DEF MigInv, MigTypeOK, MigPhase
    <2>3. Places' /\ PauseInv'
        BY <2>1, Zenon DEF MigInv, Places, Batched, IsWorkers, PauseInv, PauseIsHeeded
    <2>4. ~disturbed => RowsAreTrue' /\ RunnerIsTrue'
        BY <2>1 DEF MigInv, MigPhase, Batched, RowsAreTrue, RunnerIsTrue
    <2> QED BY <2>2, <2>3, <2>4 DEF MigInv
<1>2. CASE MigNext
    BY <1>2, StartingMoves, MarkMoves, WorkerMoves, CountMoves, EndingMoves, PhaseWorkMoves, CallsMove, CallsWrite,
       ForgettingMoves, ResetMoves, ArrivalMoves DEF MigNext, RunnerStep, ApiStep
<1> QED BY <1>1, <1>2

LEMMA MigImplies == MigInv => HistoryIsSound
BY DEF MigInv, RowsAreTrue, Batched, PauseInv, HistoryIsSound, ResumePointIsImported, CompletedIsImported

\* The rows of a migration and the four who write them keep their types.
THEOREM MigrationTypes == MigSpec => []MigTypeOK
<1>1. MigInv => MigTypeOK
    BY DEF MigInv
<1> QED BY <1>1, MigInitInv, MigStep, PTL DEF MigSpec

\* For any phases, batches, runs and calls: the point at which the next run goes on is imported up
\* to there, a completed history is whole, and a pause stops the runner after at most one batch.
THEOREM HistorySound == MigSpec => []HistoryIsSound
<1> QED BY MigImplies, MigInitInv, MigStep, PTL DEF MigSpec

-----------------------------------------------------------------------------
(* Conversations *)

ConvInv == ConvTypeOK /\ ConversationsAreSound

LEMMA TalkNumbers ==
    /\ Talk \subseteq Nat \ {0}
    /\ \A m \in ChatMessage : RoomOf[m] \in ChatRoom /\ RoomOf[m] \in Nat \ {0}
    /\ 0 \notin ChatRoom
<1>1. Cardinality(ChatMessage) \in Nat
    BY ConversationAssumption, FS_CardinalityType
<1>2. \A m \in ChatMessage : RoomOf[m] \in ChatRoom
    BY DEF ChatRoom
<1>3. Talk \subseteq Nat \ {0}
    BY <1>1 DEF Talk
<1>4. ChatRoom \subseteq Nat \ {0}
    BY ConversationAssumption
<1> QED BY <1>2, <1>3, <1>4

\* Counting more of a finite set.
LEMMA CountMore ==
    ASSUME NEW A \in SUBSET ChatMessage, NEW B \in SUBSET ChatMessage, A \cap B = {}
    PROVE  /\ Cardinality(A) \in Nat /\ Cardinality(B) \in Nat
           /\ Cardinality(A \cup B) = Cardinality(A) + Cardinality(B)
<1>1. IsFiniteSet(A) /\ IsFiniteSet(B)
    BY ConversationAssumption, FS_Subset
<1>2. Cardinality(A) \in Nat /\ Cardinality(B) \in Nat
    BY <1>1, FS_CardinalityType
<1>3. Cardinality(A \cup B) = Cardinality(A) + Cardinality(B) - Cardinality(A \cap B)
    BY <1>1, FS_Union
<1>4. Cardinality(A \cap B) = 0
    BY FS_EmptySet
<1> QED BY <1>2, <1>3, <1>4

LEMMA CountOne ==
    ASSUME NEW A \in SUBSET ChatMessage, NEW m \in ChatMessage \ A
    PROVE  Cardinality(A) \in Nat /\ Cardinality(A \cup {m}) = Cardinality(A) + 1
<1>1. Cardinality({m}) = 1
    BY FS_Singleton
<1> QED BY <1>1, CountMore

LEMMA ConvInitInv == ConvInit => ConvInv
<1> SUFFICES ASSUME ConvInit PROVE ConvInv
    OBVIOUS
<1>1. PICK inTalk \in SUBSET chat :
        /\ \A m, n \in inTalk : RoomOf[m] = RoomOf[n]
        /\ talkOf = [m \in ChatMessage |-> IF m \in inTalk THEN 1 ELSE 0]
        /\ talkRoom = [c \in Talk |->
                        IF c = 1 /\ inTalk # {} THEN RoomOf[CHOOSE m \in inTalk : TRUE] ELSE 0]
    BY DEF ConvInit
<1>2. chat \subseteq ChatMessage
    BY ConversationAssumption DEF ConvInit
<1>3. inTalk # {} => (CHOOSE m \in inTalk : TRUE) \in inTalk
    OBVIOUS
<1>4. inTalk # {} => 1 \in Talk
    <2>1. SUFFICES ASSUME inTalk # {} PROVE 1 \in Talk
        OBVIOUS
    <2>2. Cardinality(ChatMessage) \in Nat /\ IsFiniteSet(ChatMessage)
        BY ConversationAssumption, FS_CardinalityType
    <2>3. ChatMessage # {}
        BY <1>2, <2>1
    <2>4. Cardinality(ChatMessage) # 0
        BY <2>2, <2>3, FS_EmptySet
    <2> QED BY <2>2, <2>4 DEF Talk
<1>5. talkOf \in [ChatMessage -> Talk \cup {0}]
    BY <1>1, <1>4
<1>6. talkRoom \in [Talk -> ChatRoom \cup {0}]
    BY <1>1, <1>2, <1>3, TalkNumbers
<1>7. roomTotal \in [ChatRoom -> Nat] /\ talkTotal \in [Talk -> Nat]
    BY DEF ConvInit
<1>8. ConvTypeOK
    BY <1>2, <1>5, <1>6, <1>7 DEF ConvInit, ConvTypeOK
<1>9. SegmentsAreSound
    BY <1>1, <1>2, <1>3, <1>4, <1>5, <1>6, TalkNumbers DEF SegmentsAreSound, Members
<1>10. TotalsAreTrue
    <2>1. \A r \in ChatRoom : roomTotal[r] = 0 /\ {m \in counted : RoomOf[m] = r} = {}
        BY DEF ConvInit
    <2>2. \A c \in Talk : talkTotal[c] = 0 /\ counted \cap Members(c) = {}
        BY DEF ConvInit
    <2> QED BY <2>1, <2>2, FS_EmptySet DEF TotalsAreTrue
<1> QED BY <1>8, <1>9, <1>10 DEF ConvInv, ConversationsAreSound

\* The trigger on an insertion keeps the totals true, whatever the message is part of.
LEMMA InsertionCounts ==
    ASSUME ConvInv, NEW m \in ChatMessage \ chat, NEW c \in Talk \cup {0}, CountsInserted(m, c),
           chat' = chat \cup {m}, counted' = counted \cup {m},
           talkOf' = [talkOf EXCEPT ![m] = c], UNCHANGED importedTwice
    PROVE  /\ TotalsAreTrue'
           /\ roomTotal' \in [ChatRoom -> Nat] /\ talkTotal' \in [Talk -> Nat]
<1>1. /\ chat \subseteq ChatMessage /\ counted \subseteq chat /\ talkOf \in [ChatMessage -> Talk \cup {0}]
      /\ roomTotal \in [ChatRoom -> Nat] /\ talkTotal \in [Talk -> Nat] /\ TotalsAreTrue
      /\ SegmentsAreSound
    BY DEF ConvInv, ConvTypeOK, ConversationsAreSound
<1>2. /\ roomTotal' = [roomTotal EXCEPT ![RoomOf[m]] = @ + 1]
      /\ talkTotal' = [d \in Talk |-> talkTotal[d] + IF d = c THEN 1 ELSE 0]
    BY DEF CountsInserted
<1>3. roomTotal' \in [ChatRoom -> Nat] /\ talkTotal' \in [Talk -> Nat]
    BY <1>1, <1>2, TalkNumbers
<1>4. ASSUME NEW r \in ChatRoom \ importedTwice
      PROVE  roomTotal'[r] = Cardinality({n \in counted' : RoomOf[n] = r})
    <2> DEFINE A == {n \in counted : RoomOf[n] = r}
    <2>1. roomTotal[r] = Cardinality(A)
        BY <1>1 DEF TotalsAreTrue
    <2>2. A \in SUBSET ChatMessage /\ m \notin A
        BY <1>1
    <2>3. CASE RoomOf[m] = r
        <3>1. {n \in counted' : RoomOf[n] = r} = A \cup {m}
            BY <2>3
        <3>2. roomTotal'[r] = roomTotal[r] + 1
            BY <1>1, <1>2, <2>3
        <3> QED BY <2>1, <2>2, <3>1, <3>2, CountOne
    <2>4. CASE RoomOf[m] # r
        <3>1. {n \in counted' : RoomOf[n] = r} = A
            BY <2>4
        <3>2. roomTotal'[r] = roomTotal[r]
            BY <1>1, <1>2, <2>4
        <3> QED BY <2>1, <3>1, <3>2
    <2> QED BY <2>3, <2>4
<1>5. ASSUME NEW d \in Talk
      PROVE  talkTotal'[d] = Cardinality((counted \cap Members(d))')
    <2> DEFINE A == {n \in counted : talkOf[n] = d}
    <2>1. talkTotal[d] = Cardinality(A)
        <3>1. A = counted \cap Members(d)
            BY <1>1 DEF Members
        <3> QED BY <1>1, <3>1 DEF TotalsAreTrue
    <2>2. A \in SUBSET ChatMessage /\ m \notin A
        BY <1>1
    <2>3. (counted \cap Members(d))' = {n \in counted \cup {m} : talkOf'[n] = d}
        BY <1>1 DEF Members
    <2>4. \A n \in ChatMessage : talkOf'[n] = IF n = m THEN c ELSE talkOf[n]
        BY <1>1
    <2>5. CASE d = c
        <3>1. (counted \cap Members(d))' = A \cup {m}
            BY <1>1, <2>3, <2>4, <2>5
        <3>2. talkTotal'[d] = talkTotal[d] + 1
            BY <1>1, <1>2, <2>5
        <3> QED BY <2>1, <2>2, <3>1, <3>2, CountOne
    <2>6. CASE d # c
        <3>1. (counted \cap Members(d))' = A
            BY <1>1, <2>3, <2>4, <2>6
        <3>2. talkTotal'[d] = talkTotal[d]
            BY <1>1, <1>2, <2>6
        <3> QED BY <2>1, <3>1, <3>2
    <2> QED BY <2>5, <2>6
<1>6. TotalsAreTrue'
    BY <1>4, <1>5 DEF TotalsAreTrue
<1> QED BY <1>3, <1>6

\* The trigger on an update keeps the totals true, for whatever reason the rows are updated, if
\* those that are in a conversation stay there.
LEMMA UpdateCounts ==
    ASSUME ConvInv, NEW S \in SUBSET chat, NEW conv \in [ChatMessage -> Talk \cup {0}],
           CountsUpdated(S, conv), talkOf' = conv, UNCHANGED <<chat, importedTwice>>,
           \A m \in ChatMessage : m \notin S \/ talkOf[m] # 0 => conv[m] = talkOf[m]
    PROVE  /\ TotalsAreTrue' /\ counted' = counted \cup S
           /\ roomTotal' \in [ChatRoom -> Nat] /\ talkTotal' \in [Talk -> Nat]
<1>1. /\ chat \subseteq ChatMessage /\ counted \subseteq chat /\ talkOf \in [ChatMessage -> Talk \cup {0}]
      /\ roomTotal \in [ChatRoom -> Nat] /\ talkTotal \in [Talk -> Nat] /\ TotalsAreTrue
    BY DEF ConvInv, ConvTypeOK, ConversationsAreSound
<1>2. /\ counted' = counted \cup S
      /\ roomTotal' = [r \in ChatRoom |->
                        roomTotal[r] + Cardinality({m \in S \ counted : RoomOf[m] = r})]
      /\ talkTotal' = [c \in Talk |-> talkTotal[c] + Cardinality(TalkGains(S, conv, c))]
    BY DEF CountsUpdated
<1>3. ASSUME NEW r \in ChatRoom
      PROVE  /\ roomTotal'[r] \in Nat
             /\ r \notin importedTwice => roomTotal'[r] = Cardinality({n \in counted' : RoomOf[n] = r})
    <2> DEFINE A == {n \in counted : RoomOf[n] = r}
               B == {n \in S \ counted : RoomOf[n] = r}
    <2>1. A \in SUBSET ChatMessage /\ B \in SUBSET ChatMessage /\ A \cap B = {}
        BY <1>1
    <2>2. {n \in counted' : RoomOf[n] = r} = A \cup B
        BY <1>2
    <2>3. r \notin importedTwice => roomTotal[r] = Cardinality(A)
        BY <1>1 DEF TotalsAreTrue
    <2>4. roomTotal'[r] = roomTotal[r] + Cardinality(B)
        BY <1>2
    <2>5. /\ Cardinality(A) \in Nat /\ Cardinality(B) \in Nat
          /\ Cardinality(A \cup B) = Cardinality(A) + Cardinality(B)
        BY <2>1, CountMore
    <2>6. roomTotal[r] \in Nat
        BY <1>1
    <2> HIDE DEF A, B
    <2>7. /\ roomTotal'[r] \in Nat
          /\ r \notin importedTwice => roomTotal'[r] = Cardinality(A \cup B)
        BY <2>3, <2>4, <2>5, <2>6
    <2> QED BY <2>2, <2>7
<1>4. ASSUME NEW c \in Talk
      PROVE  /\ talkTotal'[c] \in Nat
             /\ talkTotal'[c] = Cardinality((counted \cap Members(c))')
    <2> DEFINE A == {n \in counted : talkOf[n] = c}
               B == TalkGains(S, conv, c)
    <2>1. A \in SUBSET ChatMessage /\ B \in SUBSET ChatMessage /\ A \cap B = {}
        BY <1>1 DEF TalkGains
    <2>2. (counted \cap Members(c))' = {n \in counted \cup S : conv[n] = c}
        BY <1>1, <1>2 DEF Members
    <2>3. {n \in counted \cup S : conv[n] = c} = A \cup B
        BY <1>1, TalkNumbers DEF TalkGains
    <2>4. talkTotal[c] = Cardinality(A)
        <3>1. A = counted \cap Members(c)
            BY <1>1 DEF Members
        <3> QED BY <1>1, <3>1 DEF TotalsAreTrue
    <2>5. talkTotal'[c] = talkTotal[c] + Cardinality(B)
        BY <1>2
    <2>6. /\ Cardinality(A) \in Nat /\ Cardinality(B) \in Nat
          /\ Cardinality(A \cup B) = Cardinality(A) + Cardinality(B)
        BY <2>1, CountMore
    <2>7. (counted \cap Members(c))' = A \cup B
        BY <2>2, <2>3
    <2> HIDE DEF A, B
    <2>8. talkTotal'[c] = Cardinality(A \cup B) /\ talkTotal'[c] \in Nat
        BY <2>4, <2>5, <2>6
    <2> QED BY <2>7, <2>8
<1>5. TotalsAreTrue'
    BY <1>3, <1>4 DEF TotalsAreTrue
<1>6. roomTotal' \in [ChatRoom -> Nat]
    <2>1. DOMAIN roomTotal' = ChatRoom /\ roomTotal' = [r \in ChatRoom |-> roomTotal'[r]]
        BY <1>2
    <2> QED BY <1>3, <2>1
<1>7. talkTotal' \in [Talk -> Nat]
    <2>1. talkTotal' = [c \in Talk |-> talkTotal'[c]]
        BY <1>2
    <2> QED BY <1>4, <2>1
<1> QED BY <1>2, <1>5, <1>6, <1>7

\* What is said of conversations, where messages and conversations stay as they are.
LEMMA ConversationsStay ==
    ASSUME SegmentsAreSound, UNCHANGED <<chat, talkOf, talkRoom>>
    PROVE  SegmentsAreSound'
BY DEF SegmentsAreSound, Members

LEMMA WriteStep == \A m \in ChatMessage : ConvInv /\ Write(m) => ConvInv'
<1> SUFFICES ASSUME ConvInv, NEW m \in ChatMessage, Write(m) PROVE ConvInv'
    OBVIOUS
<1>1. ConvTypeOK /\ SegmentsAreSound
    BY DEF ConvInv, ConversationsAreSound
<1>2. PICK c \in {0} \cup Answered(m) : talkOf' = [talkOf EXCEPT ![m] = c] /\ CountsInserted(m, c)
    BY DEF Write
<1>3. /\ m \notin chat /\ chat' = chat \cup {m} /\ counted' = counted \cup {m}
      /\ UNCHANGED <<embedded, talkRoom, toSegment, toEmbed, importedTwice, spent>>
    BY DEF Write
<1>4. c \in Talk \cup {0} /\ (c # 0 => talkRoom[c] = RoomOf[m])
    BY <1>1, <1>2 DEF Answered, ConvTypeOK, SegmentsAreSound
<1>5. /\ TotalsAreTrue'
      /\ roomTotal' \in [ChatRoom -> Nat] /\ talkTotal' \in [Talk -> Nat]
    BY <1>2, <1>3, <1>4, InsertionCounts
<1>6. ConvTypeOK'
    BY <1>1, <1>2, <1>3, <1>4, <1>5 DEF ConvTypeOK
<1>7. \A n \in ChatMessage : talkOf'[n] = IF n = m THEN c ELSE talkOf[n]
    BY <1>1, <1>2 DEF ConvTypeOK
<1>8. SegmentsAreSound'
    <2>1. ASSUME NEW d \in Talk, talkRoom[d] # 0 PROVE Members(d)' # {}
        <3>1. PICK n \in chat : talkOf[n] = d
            BY <1>1, <2>1 DEF SegmentsAreSound, Members
        <3>2. n \in ChatMessage /\ n # m
            BY <1>1, <1>3 DEF ConvTypeOK
        <3> QED BY <1>3, <1>7, <3>1, <3>2 DEF Members
    <2>2. ASSUME NEW n \in ChatMessage, talkOf'[n] # 0
          PROVE  n \in chat' /\ talkRoom[talkOf'[n]] = RoomOf[n]
        BY <1>1, <1>3, <1>4, <1>7, <2>2 DEF SegmentsAreSound
    <2> QED BY <1>3, <2>1, <2>2 DEF SegmentsAreSound
<1> QED BY <1>5, <1>6, <1>8 DEF ConvInv, ConversationsAreSound

LEMMA WriteAgainStep == \A m \in ChatMessage : ConvInv /\ WriteAgain(m) => ConvInv'
<1> SUFFICES ASSUME ConvInv, NEW m \in ChatMessage, WriteAgain(m) PROVE ConvInv'
    OBVIOUS
<1>1. ConvTypeOK /\ SegmentsAreSound /\ TotalsAreTrue
    BY DEF ConvInv, ConversationsAreSound
<1>2. /\ roomTotal' = [roomTotal EXCEPT ![RoomOf[m]] = @ + 1]
      /\ talkTotal' = [d \in Talk |-> talkTotal[d] + IF d = 0 THEN 1 ELSE 0]
      /\ importedTwice' = importedTwice \cup {RoomOf[m]}
      /\ spent' = [spent EXCEPT !.reimports = @ + 1]
      /\ UNCHANGED <<chat, talkOf, counted, embedded, talkRoom, toSegment, toEmbed>>
    BY DEF WriteAgain, CountsInserted
<1>3. talkTotal' = talkTotal
    <2>1. \A d \in Talk : talkTotal'[d] = talkTotal[d]
        BY <1>1, <1>2, TalkNumbers DEF ConvTypeOK
    <2> QED BY <1>1, <1>2, <2>1 DEF ConvTypeOK
<1>4. ConvTypeOK'
    BY <1>1, <1>2, <1>3, TalkNumbers DEF ConvTypeOK
<1>5. TotalsAreTrue'
    <2>1. \A r \in ChatRoom \ importedTwice' : r \in ChatRoom \ importedTwice /\ roomTotal'[r] = roomTotal[r]
        BY <1>1, <1>2 DEF ConvTypeOK
    <2>2. \A d \in Talk : (counted \cap Members(d))' = counted \cap Members(d)
        BY <1>2 DEF Members
    <2> QED BY <1>1, <1>2, <1>3, <2>1, <2>2 DEF TotalsAreTrue
<1>6. SegmentsAreSound'
    BY <1>1, <1>2, ConversationsStay
<1> QED BY <1>4, <1>5, <1>6 DEF ConvInv, ConversationsAreSound

LEMMA WipeStep == ConvInv /\ Wipe => ConvInv'
<1> SUFFICES ASSUME ConvInv, Wipe PROVE ConvInv'
    OBVIOUS
<1>1. /\ chat' = {} /\ counted' = {} /\ embedded' = {} /\ importedTwice' = {}
      /\ talkOf' = [m \in ChatMessage |-> 0] /\ talkRoom' = [c \in Talk |-> 0]
      /\ roomTotal' = [r \in ChatRoom |-> 0] /\ talkTotal' = [c \in Talk |-> 0]
      /\ toSegment' = [w \in Segmenter |-> {}]
      /\ toEmbed' = toEmbed \cap FromHistory /\ spent' = [spent EXCEPT !.wipes = @ + 1]
    BY DEF Wipe
<1>2. ConvTypeOK'
    BY <1>1 DEF ConvInv, ConvTypeOK
<1>3. SegmentsAreSound'
    BY <1>1 DEF SegmentsAreSound
<1>4. TotalsAreTrue'
    <2>1. \A r \in ChatRoom : {m \in counted' : RoomOf[m] = r} = {}
        BY <1>1
    <2>2. \A c \in Talk : (counted \cap Members(c))' = {}
        BY <1>1
    <2> QED BY <1>1, <2>1, <2>2, FS_EmptySet DEF TotalsAreTrue
<1> QED BY <1>2, <1>3, <1>4 DEF ConvInv, ConversationsAreSound

\* An update of rows for another reason than their conversation.
LEMMA OtherUpdates ==
    ASSUME ConvInv, NEW S \in SUBSET chat, CountsUpdated(S, talkOf),
           embedded' \in SUBSET chat, toEmbed' \in SUBSET ChatMessage,
           UNCHANGED <<chat, talkOf, talkRoom, toSegment, importedTwice, spent>>
    PROVE  ConvInv'
<1>1. ConvTypeOK /\ SegmentsAreSound
    BY DEF ConvInv, ConversationsAreSound
<1>2. talkOf \in [ChatMessage -> Talk \cup {0}]
    BY <1>1 DEF ConvTypeOK
<1>3. /\ TotalsAreTrue' /\ counted' = counted \cup S
      /\ roomTotal' \in [ChatRoom -> Nat] /\ talkTotal' \in [Talk -> Nat]
    BY <1>2, UpdateCounts
<1>4. ConvTypeOK'
    BY <1>1, <1>3 DEF ConvTypeOK
<1> QED BY <1>1, <1>3, <1>4, ConversationsStay DEF ConvInv, ConversationsAreSound

\* The messages of a segment are of one room.
LEMMA SegmentInRoom ==
    ASSUME NEW S \in SUBSET ChatMessage
    PROVE  /\ Segment(S) \subseteq S
           /\ \A m, n \in Segment(S) : RoomOf[m] = RoomOf[n]
<1> DEFINE room == {m \in S : \A n \in S : RoomOf[m] <= RoomOf[n]}
<1>1. Segment(S) \subseteq room /\ room \subseteq S
    BY DEF Segment
<1>2. ASSUME NEW m \in room, NEW n \in room PROVE RoomOf[m] = RoomOf[n]
    <2>1. RoomOf[m] \in Nat /\ RoomOf[n] \in Nat
        BY TalkNumbers
    <2>2. RoomOf[m] <= RoomOf[n] /\ RoomOf[n] <= RoomOf[m]
        OBVIOUS
    <2> QED BY <2>1, <2>2
<1> QED BY <1>1, <1>2

LEMMA CreateSegmentStep == \A w \in Segmenter : ConvInv /\ CreateSegment(w) => ConvInv'
<1> SUFFICES ASSUME ConvInv, NEW w \in Segmenter, CreateSegment(w) PROVE ConvInv'
    OBVIOUS
<1> DEFINE segment == Segment(toSegment[w])
           rows == segment \cap Unassigned
<1>1. ConvTypeOK /\ SegmentsAreSound /\ TotalsAreTrue
    BY DEF ConvInv, ConversationsAreSound
<1>2. UNCHANGED <<chat, embedded, toEmbed, importedTwice, spent>>
    BY DEF CreateSegment
<1>3. toSegment[w] \in SUBSET ChatMessage
    BY <1>1 DEF ConvTypeOK
<1>4. segment \subseteq ChatMessage /\ \A m, n \in segment : RoomOf[m] = RoomOf[n]
    BY <1>3, SegmentInRoom
<1>5. CASE ~ SomeAssigned(rows)
    <2>1. /\ toSegment' = [toSegment EXCEPT ![w] = {}]
          /\ UNCHANGED <<talkOf, talkRoom, counted, roomTotal, talkTotal>>
        BY <1>5 DEF CreateSegment, AfterFailure
    <2>2. ConvTypeOK'
        BY <1>1, <1>2, <2>1 DEF ConvTypeOK
    <2>3. TotalsAreTrue'
        BY <1>1, <1>2, <2>1 DEF TotalsAreTrue, Members
    <2> QED BY <1>1, <1>2, <2>1, <2>2, <2>3, ConversationsStay DEF ConvInv, ConversationsAreSound
<1>6. CASE SomeAssigned(rows)
    <2>1. PICK c \in Talk :
            /\ talkRoom[c] = 0
            /\ talkOf' = [m \in ChatMessage |-> IF m \in rows THEN c ELSE talkOf[m]]
            /\ talkRoom' = [talkRoom EXCEPT ![c] = RoomOf[CHOOSE m \in segment : TRUE]]
            /\ CountsUpdated(rows, talkOf')
        BY <1>6 DEF CreateSegment
    <2>2. toSegment' = [toSegment EXCEPT ![w] = @ \ segment]
        BY <1>6 DEF CreateSegment
    <2>3. rows # {} /\ rows \subseteq chat /\ \A m \in rows : talkOf[m] = 0 /\ m \in segment
        BY <1>6 DEF SomeAssigned, Unassigned
    <2>4. (CHOOSE m \in segment : TRUE) \in segment
        BY <2>3
    <2>5. PICK r \in ChatRoom : /\ talkRoom' = [talkRoom EXCEPT ![c] = r]
                                /\ \A m \in rows : RoomOf[m] = r
        BY <1>4, <2>1, <2>3, <2>4, TalkNumbers
    <2> HIDE DEF segment, rows
    <2>6. \A m \in ChatMessage : talkOf'[m] = IF m \in rows THEN c ELSE talkOf[m]
        BY <2>1
    <2>7. talkOf' \in [ChatMessage -> Talk \cup {0}]
        BY <1>1, <2>1 DEF ConvTypeOK
    <2>8. \A m \in ChatMessage : m \notin rows \/ talkOf[m] # 0 => talkOf'[m] = talkOf[m]
        BY <2>3, <2>6
    <2>9. /\ TotalsAreTrue' /\ counted' = counted \cup rows
          /\ roomTotal' \in [ChatRoom -> Nat] /\ talkTotal' \in [Talk -> Nat]
        BY <1>2, <2>1, <2>3, <2>7, <2>8, UpdateCounts
    <2>10. ConvTypeOK'
        BY <1>1, <1>2, <2>2, <2>3, <2>5, <2>7, <2>9 DEF ConvTypeOK
    <2>11. \A d \in Talk : talkRoom'[d] = IF d = c THEN r ELSE talkRoom[d]
        BY <1>1, <2>5 DEF ConvTypeOK
    <2>12. \A m \in ChatMessage : talkOf[m] # c
        BY <1>1, <2>1, TalkNumbers DEF SegmentsAreSound
    <2>13. SegmentsAreSound'
        <3>1. ASSUME NEW d \in Talk, talkRoom'[d] # 0 PROVE Members(d)' # {}
            <4>1. CASE d = c
                BY <1>1, <1>2, <2>3, <2>6, <4>1 DEF Members, ConvTypeOK
            <4>2. CASE d # c
                <5>1. PICK m \in chat : talkOf[m] = d
                    BY <1>1, <2>11, <3>1, <4>2 DEF SegmentsAreSound, Members
                <5>2. m \notin rows /\ m \in ChatMessage
                    BY <1>1, <2>3, <5>1, TalkNumbers DEF ConvTypeOK
                <5> QED BY <1>2, <2>6, <5>1, <5>2 DEF Members
            <4> QED BY <4>1, <4>2
        <3>2. ASSUME NEW m \in ChatMessage, talkOf'[m] # 0
              PROVE  m \in chat' /\ talkRoom'[talkOf'[m]] = RoomOf[m]
            <4>1. CASE m \in rows
                BY <1>2, <2>3, <2>5, <2>6, <2>11, <4>1
            <4>2. CASE m \notin rows
                <5>1. talkOf'[m] = talkOf[m] /\ talkOf[m] \in Talk \ {c}
                    BY <1>1, <2>6, <2>12, <3>2, <4>2 DEF ConvTypeOK
                <5> QED BY <1>1, <1>2, <2>11, <3>2, <5>1 DEF SegmentsAreSound
            <4> QED BY <4>1, <4>2
        <3> QED BY <3>1, <3>2 DEF SegmentsAreSound
    <2> QED BY <2>9, <2>10, <2>13 DEF ConvInv, ConversationsAreSound
<1> QED BY <1>5, <1>6

LEMMA ConvSteps == ConvInv /\ [ConvNext]_convVars => ConvInv'
<1> SUFFICES ASSUME ConvInv, [ConvNext]_convVars PROVE ConvInv'
    OBVIOUS
<1>1. ConvTypeOK /\ SegmentsAreSound /\ TotalsAreTrue
    BY DEF ConvInv, ConversationsAreSound
<1>2. CASE Backfill
    <2> DEFINE batch == Earliest(BackfillBatch, chat \ counted)
    <2>1. batch \in SUBSET chat
        BY DEF Earliest
    <2>2. CountsUpdated(batch, talkOf)
        BY <1>2 DEF Backfill
    <2> HIDE DEF batch
    <2> QED BY <1>1, <1>2, <2>1, <2>2, OtherUpdates DEF Backfill, ConvTypeOK
<1>3. ASSUME NEW w \in Segmenter, ListPending(w) PROVE ConvInv'
    <2>1. UNCHANGED <<chat, talkOf, counted, embedded, talkRoom, roomTotal, talkTotal, toEmbed,
                      importedTwice, spent>>
        BY <1>3 DEF ListPending
    <2>2. PICK S \in SUBSET Unassigned : toSegment' = [toSegment EXCEPT ![w] = S]
        BY <1>3 DEF ListPending
    <2>3. ConvTypeOK'
        BY <1>1, <2>1, <2>2 DEF ConvTypeOK, Unassigned
    <2>4. TotalsAreTrue'
        BY <1>1, <2>1 DEF TotalsAreTrue, Members
    <2> QED BY <1>1, <2>1, <2>3, <2>4, ConversationsStay DEF ConvInv, ConversationsAreSound
<1>4. CASE EmbedBatchNow
    <2>1. toEmbed' = PendingEmbeddings /\ PendingEmbeddings \subseteq chat
        BY <1>4 DEF EmbedBatchNow, PendingEmbeddings, Earliest
    <2>2. UNCHANGED <<chat, talkOf, counted, embedded, talkRoom, roomTotal, talkTotal, toSegment,
                      importedTwice, spent>>
        BY <1>4 DEF EmbedBatchNow
    <2>3. ConvTypeOK'
        BY <1>1, <2>1, <2>2 DEF ConvTypeOK
    <2>4. TotalsAreTrue'
        BY <1>1, <2>2 DEF TotalsAreTrue, Members
    <2> QED BY <1>1, <2>2, <2>3, <2>4, ConversationsStay DEF ConvInv, ConversationsAreSound
<1>5. CASE StoreEmbedding
    <2>1. PICK m : /\ toEmbed' = toEmbed \ {m} /\ embedded' = embedded \cup ({m} \cap chat)
                   /\ CountsUpdated({m} \cap chat, talkOf)
        BY <1>5 DEF StoreEmbedding
    <2>2. UNCHANGED <<chat, talkOf, talkRoom, toSegment, importedTwice, spent>>
        BY <1>5 DEF StoreEmbedding
    <2> QED BY <1>1, <2>1, <2>2, OtherUpdates DEF ConvTypeOK
<1>6. ASSUME NEW m \in ChatMessage, EmbedOne(m) PROVE ConvInv'
    <2>1. /\ m \in chat /\ embedded' = embedded \cup {m} /\ CountsUpdated({m}, talkOf)
          /\ UNCHANGED <<chat, talkOf, talkRoom, toSegment, toEmbed, importedTwice, spent>>
        BY <1>6 DEF EmbedOne
    <2> QED BY <1>1, <2>1, OtherUpdates DEF ConvTypeOK
<1>7. CASE UNCHANGED convVars
    <2>1. ConvTypeOK' /\ TotalsAreTrue'
        BY <1>1, <1>7 DEF convVars, ConvTypeOK, TotalsAreTrue, Members
    <2> QED BY <1>1, <1>7, <2>1, ConversationsStay DEF convVars, ConvInv, ConversationsAreSound
<1> QED BY <1>2, <1>3, <1>4, <1>5, <1>6, <1>7, WriteStep, WriteAgainStep, WipeStep, CreateSegmentStep
        DEF ConvNext, SegmentStep, EmbedStep

\* For any messages, rooms, workers and batches: the types of the table and of the workers' lists.
THEOREM ConversationTypes == ConvSpec => []ConvTypeOK
<1>1. ConvInv => ConvTypeOK
    BY DEF ConvInv
<1> QED BY <1>1, ConvInitInv, ConvSteps, PTL DEF ConvSpec

\* For any messages, rooms, workers and batches: whichever writers and workers meet on a row, a
\* conversation has messages, all of one room, and what was counted is in the totals once.
THEOREM ConversationsSound == ConvSpec => []ConversationsAreSound
<1>1. ConvInv => ConversationsAreSound
    BY DEF ConvInv
<1> QED BY <1>1, ConvInitInv, ConvSteps, PTL DEF ConvSpec

-----------------------------------------------------------------------------
(* Dedup *)

InCluster == {"merge", "deprecate", "record", "cursor"}

\* The shapes of a run: between clusters, with a merge decided, and after a decision.
DedupTurn == [pc : {"next"}, todo : SUBSET SUBSET Memory, count : Nat]

MergeDecided ==
    [pc : {"merge"}, todo : SUBSET SUBSET Memory, count : Nat, cluster : SUBSET Memory]

DecisionMade ==
    [pc : {"deprecate", "record", "cursor"}, todo : SUBSET SUBSET Memory, count : Nat,
     cluster : SUBSET Memory, gone : SUBSET Memory, by : Memory]

DedupRuns == {NoRun} \cup DedupTurn \cup MergeDecided \cup DecisionMade

\* Clusters do not overlap, and what they consist of is in the table or was.
ClustersApart ==
    run.pc # "idle" =>
        /\ \A C, D \in run.todo : C # D => C \cap D = {}
        /\ \A C \in run.todo : \A i \in C : mem[i].status # "absent"

\* Nothing is deprecated yet of a cluster whose turn has not come ...
AheadIsIntact ==
    run.pc # "idle" => \A C \in run.todo :
        run.pc \in {"next", "merge"} \/ C # run.cluster => C \cap Deprecated = {}

\* ... and what a decision is about to deprecate gets a successor that was not deprecated.
DecisionIsSafe ==
    /\ run.pc \in InCluster => run.cluster \in run.todo
    /\ run.pc = "deprecate" => run.gone \subseteq run.cluster /\ run.by \notin run.gone \cup Deprecated

DedupInv ==
    /\ DedupTypeOK /\ run \in DedupRuns
    /\ ClustersApart /\ AheadIsIntact /\ DecisionIsSafe
    /\ NoFactIsLost

Present == {i \in Memory : Exists(i)}

LEMMA MemoryRows ==
    ASSUME DedupTypeOK, NEW i \in Memory
    PROVE  /\ mem[i].status \in MemStatus /\ mem[i].by \in Memory \cup {0}
           /\ 0 \notin Memory /\ mem[i] = [status |-> mem[i].status, by |-> mem[i].by]
BY DedupAssumption DEF DedupTypeOK

\* Pairs that are looked at are of memories in the table.
LEMMA PairsAreActive ==
    ASSUME DedupTypeOK, NEW p \in OpenPairs
    PROVE  p \subseteq Memory /\ \A i \in p : mem[i].status = "active"
<1>1. PICK n \in Ranks : p = Similar[n]
    BY DEF OpenPairs
<1>2. n \in DOMAIN Similar /\ \A i \in Similar[n] : mem[i].status = "active"
    BY <1>1 DEF Ranks
<1>3. Similar[n] \in {S \in SUBSET Memory : Cardinality(S) = 2}
    BY <1>2, DedupAssumption
<1> QED BY <1>1, <1>2, <1>3

\* Connected components do not overlap.
LEMMA ComponentsApart ==
    ASSUME NEW pairs, NEW C \in Clusters(pairs), NEW D \in Clusters(pairs), C \cap D # {}
    PROVE  C = D
<1>1. C \in SUBSET UNION pairs /\ D \in SUBSET UNION pairs /\ Closed(C, pairs) /\ Closed(D, pairs)
    BY DEF Clusters
<1>2. Closed(C \cap D, pairs)
    BY <1>1 DEF Closed
<1>3. C \cap D \in {S \in SUBSET UNION pairs : S # {} /\ Closed(S, pairs)}
    BY <1>1, <1>2
<1>4. C \cap D = C /\ C \cap D = D
    BY <1>3 DEF Clusters
<1> QED BY <1>4

LEMMA DedupInitInv == DedupInit => DedupInv
<1> SUFFICES ASSUME DedupInit PROVE DedupInv
    OBVIOUS
<1>1. \A i \in Memory : mem[i].status = "absent"
    BY DEF DedupInit, NoMemory
<1>2. DedupTypeOK
    BY DedupAssumption DEF DedupInit, DedupTypeOK, NoMemory, MemStatus
<1>3. run = NoRun /\ run.pc = "idle"
    BY DEF DedupInit, NoRun
<1>4. run \in DedupRuns /\ ClustersApart /\ AheadIsIntact /\ DecisionIsSafe
    BY <1>3 DEF DedupRuns, ClustersApart, AheadIsIntact, DecisionIsSafe, InCluster
<1>5. Deprecated = {}
    BY <1>1 DEF Deprecated
<1>6. NoFactIsLost
    BY <1>5 DEF NoFactIsLost, SuccessorsExist, NoCircle
<1> QED BY <1>2, <1>4, <1>6 DEF DedupInv

\* What the shape of a run says.
LEMMA RunParts ==
    ASSUME run \in DedupRuns
    PROVE  /\ run.pc \in {"idle", "next"} \cup InCluster
           /\ run.pc = "idle" => run = NoRun
           /\ run.pc # "idle" => run.todo \in SUBSET SUBSET Memory /\ run.count \in Nat
           /\ run.pc \in InCluster => run.cluster \in SUBSET Memory
           /\ run.pc \in {"deprecate", "record", "cursor"} =>
                run.gone \in SUBSET Memory /\ run.by \in Memory
           /\ run.pc = "next" => run \in DedupTurn
           /\ run.pc = "merge" => run \in MergeDecided
           /\ run.pc \in {"deprecate", "record", "cursor"} => run \in DecisionMade
BY DEF DedupRuns, NoRun, DedupTurn, MergeDecided, DecisionMade, InCluster

\* A step that deprecates nothing and deletes nothing keeps what is said of facts.
LEMMA FactsStay ==
    ASSUME DedupInv, UNCHANGED <<mem, wiped>>
    PROVE  NoFactIsLost' /\ Deprecated' = Deprecated
BY DEF DedupInv, NoFactIsLost, SuccessorsExist, NoCircle, Deprecated, Exists, IsActive

\* A run that has ended.
LEMMA NothingUnderWay ==
    ASSUME RunEnds
    PROVE  (run \in DedupRuns /\ ClustersApart /\ AheadIsIntact /\ DecisionIsSafe)'
<1>1. run' = NoRun /\ run'.pc = "idle"
    BY DEF RunEnds, NoRun
<1> QED BY <1>1 DEF DedupRuns, ClustersApart, AheadIsIntact, DecisionIsSafe, InCluster

LEMMA StartRunStep == DedupInv /\ StartRun => DedupInv'
<1> SUFFICES ASSUME DedupInv, StartRun PROVE DedupInv'
    OBVIOUS
<1>t. DedupTypeOK /\ run \in DedupRuns
    BY DEF DedupInv
<1>f. NoFactIsLost' /\ Deprecated' = Deprecated
    BY FactsStay DEF StartRun
<1>1. CASE OpenPairs = {}
    <2>1. complete' = TRUE /\ lastKey' = {} /\ UNCHANGED <<run, mem, reviewedPairs, wiped, dedupFaults>>
        BY <1>1 DEF StartRun
    <2>2. DedupTypeOK'
        BY <1>t, <2>1 DEF DedupTypeOK
    <2>3. (run \in DedupRuns /\ ClustersApart /\ AheadIsIntact /\ DecisionIsSafe)'
        BY <2>1, <1>f DEF DedupInv, ClustersApart, AheadIsIntact, DecisionIsSafe
    <2> QED BY <2>2, <2>3, <1>f DEF DedupInv
<1>2. CASE OpenPairs # {}
    <2> DEFINE T == {C \in Clusters(OpenPairs) : lastKey # {} => KeyAfter(C, lastKey)}
    <2>1. run' = Turn(T, 0) /\ UNCHANGED <<mem, complete, lastKey, reviewedPairs, wiped, dedupFaults>>
        BY <1>2 DEF StartRun
    <2>2. DedupTypeOK'
        BY <1>t, <2>1 DEF DedupTypeOK
    <2>3. \A C \in T : C \subseteq Memory /\ \A i \in C : mem[i].status = "active"
        <3>1. \A C \in T : C \subseteq UNION OpenPairs
            BY DEF Clusters
        <3> QED BY <1>t, <3>1, PairsAreActive
    <2>4. \A C, D \in T : C # D => C \cap D = {}
        BY ComponentsApart
    <2> HIDE DEF T
    <2>5. run'.pc = "next" /\ run'.todo = T /\ run' \in DedupRuns
        BY <2>1, <2>3 DEF Turn, DedupRuns, DedupTurn
    <2>6. ClustersApart'
        BY <2>1, <2>3, <2>4, <2>5 DEF ClustersApart
    <2>7. \A C \in T : C \cap Deprecated = {}
        BY <2>3 DEF Deprecated
    <2>8. AheadIsIntact' /\ DecisionIsSafe'
        BY <2>5, <2>7, <1>f DEF AheadIsIntact, DecisionIsSafe, InCluster
    <2> QED BY <1>f, <2>2, <2>5, <2>6, <2>8 DEF DedupInv
<1> QED BY <1>1, <1>2

LEMMA ReviewKeeps == DedupInv /\ Review => DedupInv'
<1> SUFFICES ASSUME DedupInv, Review PROVE DedupInv'
    OBVIOUS
<1>t. DedupTypeOK /\ run \in DedupRuns /\ run.pc = "next"
    BY DEF DedupInv, Review, Running
<1>f. NoFactIsLost' /\ Deprecated' = Deprecated
    BY FactsStay DEF Review
<1>1. DedupTypeOK'
    BY <1>t DEF DedupTypeOK, Review
<1>2. UNCHANGED mem
    BY DEF Review
<1>3. run.todo \in SUBSET SUBSET Memory /\ run.count \in Nat
    BY <1>t, RunParts
<1>4. PICK C \in NextCluster(run.todo) :
        \/ run' = [pc |-> "merge", todo |-> run.todo, count |-> run.count, cluster |-> C]
        \/ \E d \in Decisions(C) :
            run' = [pc |-> IF d.gone = {} THEN "record" ELSE "deprecate", todo |-> run.todo,
                    count |-> run.count, cluster |-> C, gone |-> d.gone, by |-> d.keep]
    BY DEF Review
<1>5. C \in run.todo /\ C \subseteq Memory
    BY <1>3, <1>4 DEF NextCluster
<1>6. C \cap Deprecated = {}
    BY <1>5, <1>t DEF DedupInv, AheadIsIntact
<1>7. CASE run' = [pc |-> "merge", todo |-> run.todo, count |-> run.count, cluster |-> C]
    <2>1. run'.pc = "merge" /\ run'.todo = run.todo /\ run'.cluster = C
        BY <1>7
    <2>2. run' \in DedupRuns
        BY <1>3, <1>5, <1>7 DEF DedupRuns, MergeDecided
    <2>3. ClustersApart' /\ AheadIsIntact' /\ DecisionIsSafe'
        BY <1>2, <1>5, <1>f, <1>t, <2>1 DEF DedupInv, ClustersApart, AheadIsIntact, DecisionIsSafe, InCluster
    <2> QED BY <1>1, <1>f, <2>2, <2>3 DEF DedupInv
<1>8. ASSUME NEW d \in Decisions(C),
            run' = [pc |-> IF d.gone = {} THEN "record" ELSE "deprecate", todo |-> run.todo,
                    count |-> run.count, cluster |-> C, gone |-> d.gone, by |-> d.keep]
      PROVE DedupInv'
    <2>1. d.keep \in C /\ d.gone \subseteq C /\ d.keep \notin d.gone
        BY DEF Decisions
    <2>2. /\ run'.pc \in {"record", "deprecate"} /\ run'.todo = run.todo /\ run'.cluster = C
          /\ run'.gone = d.gone /\ run'.by = d.keep
        BY <1>8
    <2>3. run' \in DedupRuns
        BY <1>3, <1>5, <1>8, <2>1 DEF DedupRuns, DecisionMade
    <2>4. ClustersApart' /\ AheadIsIntact'
        BY <1>2, <1>f, <1>t, <2>2 DEF DedupInv, ClustersApart, AheadIsIntact
    <2>5. DecisionIsSafe'
        BY <1>5, <1>6, <1>f, <2>1, <2>2 DEF DecisionIsSafe, InCluster
    <2> QED BY <1>1, <1>f, <2>3, <2>4, <2>5 DEF DedupInv
<1> QED BY <1>4, <1>7, <1>8

\* A row is added or embedded, and nothing is deprecated or deleted.
LEMMA RowsGrow ==
    ASSUME DedupInv, UNCHANGED wiped, mem' \in [Memory -> [status : MemStatus, by : Memory \cup {0}]],
           \A i \in Memory : i \in Deprecated \/ Exists(i) \/ mem[i].status = "deleted" =>
                /\ mem'[i].by = mem[i].by
                /\ mem'[i].status = mem[i].status \/ (mem[i].status = "plain" /\ mem'[i].status = "active"),
           \A i \in Memory : mem[i].status = "absent" => mem'[i].status \in {"absent", "plain"}
    PROVE  NoFactIsLost' /\ Deprecated' = Deprecated
<1>1. \A i \in Memory : mem[i].status \in MemStatus
    BY MemoryRows DEF DedupInv
<1>2. Deprecated' = Deprecated /\ \A i \in Memory : Exists(i) => Exists(i)'
    BY <1>1 DEF Deprecated, Exists, IsActive, MemStatus
<1>3. \A i \in Deprecated : i \in Memory /\ mem'[i].by = mem[i].by /\ mem[i].by \in Memory \cup {0}
    BY MemoryRows DEF DedupInv, Deprecated
<1>4. SuccessorsExist'
    BY <1>2, <1>3 DEF DedupInv, NoFactIsLost, SuccessorsExist
<1>5. NoCircle'
    BY <1>2, <1>3 DEF DedupInv, NoFactIsLost, NoCircle
<1> QED BY <1>2, <1>4, <1>5 DEF NoFactIsLost

LEMMA RowSteps == DedupInv /\ (\E i \in Memory : Add(i) \/ Embed(i)) => DedupInv'
<1> SUFFICES ASSUME DedupInv, NEW i \in Memory, Add(i) \/ Embed(i) PROVE DedupInv'
    OBVIOUS
<1>0. /\ UNCHANGED <<reviewedPairs, lastKey, run, complete, wiped, dedupFaults>>
      /\ DedupTypeOK /\ run \in DedupRuns
    BY DEF Add, Embed, DedupInv
<1>1. /\ mem' \in [Memory -> [status : MemStatus, by : Memory \cup {0}]]
      /\ \A j \in Memory \ {i} : mem'[j] = mem[j]
      /\ mem'[i].by = mem[i].by
      /\ \/ mem[i].status = "absent" /\ mem'[i].status = "plain"
         \/ mem[i].status = "plain" /\ mem'[i].status = "active"
    BY <1>0, MemoryRows DEF Add, Embed, DedupTypeOK, MemStatus, NoMemory
<1>2. NoFactIsLost' /\ Deprecated' = Deprecated
    BY <1>0, <1>1, RowsGrow DEF Deprecated, Exists, IsActive
<1>3. DedupTypeOK'
    BY <1>0, <1>1 DEF DedupTypeOK
<1>4. ClustersApart'
    <2>1. \A j \in Memory : mem[j].status # "absent" => mem'[j].status # "absent"
        BY <1>1
    <2>2. run.pc # "idle" => run.todo \in SUBSET SUBSET Memory
        BY <1>0, RunParts
    <2> QED BY <1>0, <2>1, <2>2 DEF DedupInv, ClustersApart
<1>5. AheadIsIntact' /\ DecisionIsSafe'
    BY <1>0, <1>2 DEF DedupInv, AheadIsIntact, DecisionIsSafe
<1> QED BY <1>0, <1>2, <1>3, <1>4, <1>5 DEF DedupInv

LEMMA CreateMergedStep == DedupInv /\ CreateMerged => DedupInv'
<1> SUFFICES ASSUME DedupInv, CreateMerged PROVE DedupInv'
    OBVIOUS
<1>1. PICK i \in Spare :
        /\ mem' = [mem EXCEPT ![i].status = "plain"]
        /\ run' = [pc |-> "deprecate", todo |-> run.todo, count |-> run.count,
                   cluster |-> run.cluster, gone |-> run.cluster, by |-> i]
    BY DEF CreateMerged
<1>2. /\ DedupTypeOK /\ run \in DedupRuns /\ run.pc = "merge"
      /\ UNCHANGED <<reviewedPairs, lastKey, complete, wiped, dedupFaults>>
    BY DEF DedupInv, CreateMerged, Running
<1>3. i \in Memory /\ mem[i].status = "absent" /\ mem[i].by = 0
    BY DEF Spare, NoMemory, Memory
<1>4. /\ mem' \in [Memory -> [status : MemStatus, by : Memory \cup {0}]]
      /\ \A j \in Memory \ {i} : mem'[j] = mem[j]
      /\ mem'[i].by = mem[i].by /\ mem'[i].status = "plain"
    BY <1>1, <1>2, <1>3, MemoryRows DEF DedupTypeOK, MemStatus
<1>5. NoFactIsLost' /\ Deprecated' = Deprecated
    BY <1>2, <1>3, <1>4, RowsGrow DEF Deprecated, Exists, IsActive
<1>6. DedupTypeOK'
    BY <1>2, <1>4 DEF DedupTypeOK
<1>7. /\ run.todo \in SUBSET SUBSET Memory /\ run.count \in Nat /\ run.cluster \in SUBSET Memory
      /\ run.cluster \in run.todo
    BY <1>2, RunParts DEF DedupInv, DecisionIsSafe, InCluster
<1>8. /\ run'.pc = "deprecate" /\ run'.todo = run.todo /\ run'.cluster = run.cluster
      /\ run'.gone = run.cluster /\ run'.by = i
    BY <1>1
<1>9. run' \in DedupRuns
    BY <1>1, <1>3, <1>7 DEF DedupRuns, DecisionMade
<1>10. ClustersApart'
    BY <1>2, <1>3, <1>4, <1>7, <1>8 DEF DedupInv, ClustersApart
<1>11. AheadIsIntact'
    BY <1>2, <1>5, <1>8 DEF DedupInv, AheadIsIntact
<1>12. i \notin run.cluster /\ i \notin Deprecated
    BY <1>2, <1>3, <1>7 DEF DedupInv, ClustersApart, Deprecated
<1>13. DecisionIsSafe'
    BY <1>5, <1>7, <1>8, <1>12 DEF DecisionIsSafe, InCluster
<1> QED BY <1>5, <1>6, <1>9, <1>10, <1>11, <1>13 DEF DedupInv

\* The rows that are deprecated were active, and their successor is there and not deprecated: no
\* chain of successors can come back to them.
LEMMA DeprecateStep == DedupInv /\ Deprecate => DedupInv'
<1> SUFFICES ASSUME DedupInv, Deprecate PROVE DedupInv'
    OBVIOUS
<1> DEFINE rows == {i \in run.gone : IsActive(i)}
<1>1. /\ DedupTypeOK /\ run \in DedupRuns /\ run.pc = "deprecate"
      /\ UNCHANGED <<reviewedPairs, lastKey, complete, wiped, dedupFaults>>
    BY DEF DedupInv, Deprecate, Running
<1>2. CASE rows = {} \/ Exists(run.by)
    <2>1. /\ mem' = [i \in Memory |-> IF i \in rows THEN [status |-> "deprecated", by |-> run.by]
                                                  ELSE mem[i]]
          /\ run' = [run EXCEPT !.pc = "record"]
        BY <1>2 DEF Deprecate
    <2>2. /\ run.todo \in SUBSET SUBSET Memory /\ run.count \in Nat /\ run.cluster \in SUBSET Memory
          /\ run.gone \in SUBSET Memory /\ run.by \in Memory /\ run \in DecisionMade
          /\ run.cluster \in run.todo /\ run.gone \subseteq run.cluster
          /\ run.by \notin run.gone /\ run.by \notin Deprecated
        BY <1>1, RunParts DEF DedupInv, DecisionIsSafe, InCluster
    <2>3. /\ run' \in DedupRuns /\ run'.pc = "record" /\ run'.todo = run.todo
          /\ run'.cluster = run.cluster
        BY <2>1, <2>2 DEF DedupRuns, DecisionMade
    <2>4. rows \subseteq run.gone /\ \A i \in rows : i \in Memory /\ IsActive(i)
        BY <2>2
    <2> HIDE DEF rows
    <2>5. /\ mem' \in [Memory -> [status : MemStatus, by : Memory \cup {0}]]
          /\ \A i \in Memory \ rows : mem'[i] = mem[i]
          /\ \A i \in rows : mem'[i].status = "deprecated" /\ mem'[i].by = run.by
        BY <1>1, <2>1, <2>2, <2>4 DEF DedupTypeOK, MemStatus
    <2>6. DedupTypeOK'
        BY <1>1, <2>5 DEF DedupTypeOK
    <2>7. Deprecated' = Deprecated \cup rows
        BY <2>4, <2>5 DEF Deprecated
    <2>8. Present \subseteq Present'
        BY <2>5, <2>7 DEF Present, Exists, IsActive
    <2>9. SuccessorsExist'
        <3> SUFFICES ASSUME NEW i \in (Deprecated \ wiped)'
                     PROVE  mem'[i].by # 0 /\ mem'[i].by \in Present'
            BY DEF SuccessorsExist, Present, Exists, IsActive, Deprecated
        <3>1. CASE i \in rows
            <4>1. mem'[i].by = run.by /\ Exists(run.by)
                BY <1>2, <2>5, <3>1
            <4>2. run.by \in Present /\ run.by # 0
                BY <1>1, <2>2, <4>1, MemoryRows DEF Present
            <4> QED BY <2>8, <4>1, <4>2
        <3>2. CASE i \notin rows
            <4>1. i \in Deprecated \ wiped /\ i \in Memory /\ mem'[i] = mem[i]
                BY <1>1, <2>5, <2>7, <3>2 DEF Deprecated
            <4>2. mem[i].by # 0 /\ mem[i].by \in Present
                BY <1>1, <4>1, MemoryRows DEF DedupInv, NoFactIsLost, SuccessorsExist, Present
            <4> QED BY <2>8, <4>1, <4>2
        <3> QED BY <3>1, <3>2
    <2>10. NoCircle'
        <3> SUFFICES ASSUME NEW S \in SUBSET Deprecated', S # {}
                     PROVE  \E i \in S : mem'[i].by \notin S
            BY DEF NoCircle
        <3>1. CASE S \cap rows # {}
            <4>1. PICK i \in S : i \in rows
                BY <3>1
            <4>2. mem'[i].by = run.by /\ run.by \notin Deprecated \cup rows
                BY <2>2, <2>4, <2>5, <4>1
            <4> QED BY <2>7, <4>1, <4>2
        <3>2. CASE S \cap rows = {}
            <4>1. S \in SUBSET Deprecated /\ \A i \in S : i \in Memory \ rows
                BY <2>7, <3>2 DEF Deprecated
            <4>2. PICK i \in S : mem[i].by \notin S
                BY <4>1 DEF DedupInv, NoFactIsLost, NoCircle
            <4> QED BY <2>5, <4>1, <4>2
        <3> QED BY <3>1, <3>2
    <2>11. ClustersApart'
        BY <1>1, <2>2, <2>3, <2>4, <2>5 DEF DedupInv, ClustersApart
    <2>12. AheadIsIntact'
        <3>1. ASSUME NEW C \in run.todo, C # run.cluster PROVE C \cap (Deprecated \cup rows) = {}
            <4>1. C \cap run.cluster = {}
                BY <1>1, <2>2, <3>1 DEF DedupInv, ClustersApart
            <4>2. C \cap Deprecated = {}
                BY <1>1, <3>1 DEF DedupInv, AheadIsIntact
            <4> QED BY <2>2, <2>4, <4>1, <4>2
        <3> QED BY <2>3, <2>7, <3>1 DEF AheadIsIntact
    <2>13. DecisionIsSafe'
        BY <2>2, <2>3 DEF DecisionIsSafe, InCluster
    <2> QED BY <2>3, <2>6, <2>9, <2>10, <2>11, <2>12, <2>13 DEF DedupInv, NoFactIsLost
<1>3. CASE ~ (rows = {} \/ Exists(run.by))
    <2>1. UNCHANGED mem /\ RunEnds
        BY <1>3 DEF Deprecate
    <2>2. NoFactIsLost'
        BY <1>1, <2>1, FactsStay
    <2>3. DedupTypeOK'
        BY <1>1, <2>1 DEF DedupTypeOK
    <2> QED BY <2>1, <2>2, <2>3, NothingUnderWay DEF DedupInv
<1> QED BY <1>2, <1>3

LEMMA RecordedPairs ==
    ASSUME DedupTypeOK, run \in DedupRuns, run.pc \in InCluster,
           NEW some \in SUBSET PairsToRecord(run.cluster, run.gone)
    PROVE  reviewedPairs \cup some \subseteq SUBSET Memory
BY RunParts DEF PairsToRecord, DedupTypeOK

\* The rest of a run's steps leaves the memories alone.
LEMMA RunGoesOn == DedupInv /\ (Record \/ MoveCursor \/ EndDedupRun \/ RunFails) => DedupInv'
<1> SUFFICES ASSUME DedupInv, Record \/ MoveCursor \/ EndDedupRun \/ RunFails PROVE DedupInv'
    OBVIOUS
<1>1. DedupTypeOK /\ run \in DedupRuns /\ UNCHANGED <<mem, complete, wiped>>
    BY DEF DedupInv, Record, MoveCursor, EndDedupRun, RunFails
<1>2. NoFactIsLost' /\ Deprecated' = Deprecated
    BY <1>1, FactsStay
<1>3. CASE Record
    <2>1. run.pc = "record" /\ run.pc \in InCluster /\ UNCHANGED <<lastKey, dedupFaults>>
        BY <1>3 DEF Record, Running, InCluster
    <2>2. DedupTypeOK'
        <3>1. \E some \in SUBSET PairsToRecord(run.cluster, run.gone) :
                reviewedPairs' = reviewedPairs \cup some
            BY <1>3 DEF Record
        <3> QED BY <1>1, <2>1, <3>1, RecordedPairs DEF DedupTypeOK
    <2>3. CASE RunEnds
        BY <1>2, <2>2, <2>3, NothingUnderWay DEF DedupInv
    <2>4. CASE run' = [run EXCEPT !.pc = "cursor"]
        <3>1. /\ run' \in DedupRuns /\ run'.pc = "cursor" /\ run'.todo = run.todo
              /\ run'.cluster = run.cluster
            BY <1>1, <2>1, <2>4, RunParts DEF DedupRuns, DecisionMade
        <3>2. ClustersApart' /\ AheadIsIntact' /\ DecisionIsSafe'
            BY <1>1, <1>2, <2>1, <3>1
            DEF DedupInv, ClustersApart, AheadIsIntact, DecisionIsSafe, InCluster
        <3> QED BY <1>2, <2>2, <3>1, <3>2 DEF DedupInv
    <2> QED BY <1>3, <2>3, <2>4 DEF Record
<1>4. CASE MoveCursor
    <2>1. /\ run.pc = "cursor" /\ run.pc \in InCluster /\ UNCHANGED <<reviewedPairs, dedupFaults>>
          /\ lastKey' = run.cluster
        BY <1>4 DEF MoveCursor, Running, InCluster
    <2>2. /\ run.todo \in SUBSET SUBSET Memory /\ run.count \in Nat /\ run.cluster \in SUBSET Memory
        BY <1>1, <2>1, RunParts
    <2>3. DedupTypeOK'
        BY <1>1, <2>1, <2>2 DEF DedupTypeOK
    <2>4. CASE run' = NoRun
        BY <1>2, <2>3, <2>4, NothingUnderWay DEF DedupInv, RunEnds
    <2>5. CASE run' = Turn(run.todo \ {run.cluster}, run.count + 1)
        <3>1. /\ run' \in DedupRuns /\ run'.pc = "next" /\ run'.todo = run.todo \ {run.cluster}
            BY <2>2, <2>5 DEF DedupRuns, DedupTurn, Turn
        <3>2. ClustersApart'
            BY <1>1, <2>1, <3>1 DEF DedupInv, ClustersApart
        <3>3. AheadIsIntact'
            BY <1>2, <2>1, <3>1 DEF DedupInv, AheadIsIntact
        <3>4. DecisionIsSafe'
            BY <3>1 DEF DecisionIsSafe, InCluster
        <3> QED BY <1>2, <2>3, <3>1, <3>2, <3>3, <3>4 DEF DedupInv
    <2> QED BY <1>4, <2>4, <2>5 DEF MoveCursor
<1>5. CASE EndDedupRun
    <2>1. RunEnds /\ UNCHANGED <<reviewedPairs, dedupFaults>> /\ lastKey' \in {{}, lastKey}
        BY <1>5 DEF EndDedupRun, AfterNothing
    <2>2. DedupTypeOK'
        BY <1>1, <2>1 DEF DedupTypeOK
    <2> QED BY <1>2, <2>1, <2>2, NothingUnderWay DEF DedupInv
<1>6. CASE RunFails
    <2>1. RunEnds /\ UNCHANGED lastKey /\ dedupFaults' = dedupFaults + 1
        BY <1>6 DEF RunFails, Spend
    <2>2. reviewedPairs' \subseteq SUBSET Memory
        <3>1. CASE run.pc = "record"
            <4>1. run.pc \in InCluster
                BY <3>1 DEF InCluster
            <4>2. \E some \in SUBSET PairsToRecord(run.cluster, run.gone) :
                    reviewedPairs' = reviewedPairs \cup some
                BY <1>6, <3>1 DEF RunFails, Running
            <4> QED BY <1>1, <4>1, <4>2, RecordedPairs
        <3>2. CASE run.pc # "record"
            BY <1>1, <1>6, <3>2 DEF RunFails, Running, DedupTypeOK
        <3> QED BY <3>1, <3>2
    <2>3. DedupTypeOK'
        BY <1>1, <2>1, <2>2 DEF DedupTypeOK
    <2> QED BY <1>2, <2>1, <2>3, NothingUnderWay DEF DedupInv
<1> QED BY <1>3, <1>4, <1>5, <1>6

\* A reset deletes memories; what they had superseded is noted.
LEMMA MemoryResets == DedupInv /\ (ResetExtraction \/ ResetAll) => DedupInv'
<1> SUFFICES ASSUME DedupInv, ResetExtraction \/ ResetAll PROVE DedupInv'
    OBVIOUS
<1>1. /\ DedupTypeOK /\ run \in DedupRuns /\ dedupFaults' = dedupFaults + 1
      /\ reviewedPairs' = {} /\ complete' = FALSE /\ (lastKey' = {} \/ lastKey' = lastKey) /\ UNCHANGED run
    BY DEF DedupInv, ResetExtraction, ResetAll, Spend
<1>2. \A i \in Memory : mem[i].status \in MemStatus /\ mem[i].by \in Memory \cup {0}
    BY <1>1, MemoryRows
<1>3. 0 \notin Memory /\ Extracted \subseteq Memory
    BY DedupAssumption DEF Memory
<1>r. reviewedPairs' \subseteq SUBSET Memory /\ lastKey' \subseteq Memory
    BY <1>1 DEF DedupTypeOK
<1>s. complete' \in BOOLEAN
    BY <1>1
<1>n. dedupFaults' \in Nat
    BY <1>1 DEF DedupTypeOK
<1>4. ASSUME DedupTypeOK', NoFactIsLost', Deprecated' \subseteq Deprecated,
             \A i \in Memory : mem[i].status # "absent" => mem'[i].status # "absent"
      PROVE  DedupInv'
    <2>1. run.pc # "idle" => run.todo \in SUBSET SUBSET Memory
        BY <1>1, RunParts
    <2>2. ClustersApart'
        BY <1>1, <1>4, <2>1 DEF DedupInv, ClustersApart
    <2>3. AheadIsIntact' /\ DecisionIsSafe'
        BY <1>1, <1>4 DEF DedupInv, AheadIsIntact, DecisionIsSafe
    <2> QED BY <1>1, <1>4, <2>2, <2>3 DEF DedupInv
<1>5. CASE ResetExtraction
    <2> DEFINE deleted == {i \in Extracted : Exists(i)}
    <2>1. /\ mem' = [i \in Memory |->
                    IF i \in deleted THEN [status |-> "deleted", by |-> 0]
                    ELSE IF mem[i].by \in deleted THEN [mem[i] EXCEPT !.by = 0] ELSE mem[i]]
          /\ wiped' = wiped \cup {i \in Deprecated \ deleted : mem[i].by \in deleted}
        BY <1>5 DEF ResetExtraction
    <2>2. deleted \subseteq Memory /\ \A i \in deleted : Exists(i)
        BY <1>3
    <2> HIDE DEF deleted
    <2>3. ASSUME NEW i \in Memory
          PROVE  /\ i \in deleted => mem'[i].status = "deleted" /\ mem'[i].by = 0
                 /\ i \notin deleted => /\ mem'[i].status = mem[i].status
                                        /\ mem'[i].by = IF mem[i].by \in deleted THEN 0 ELSE mem[i].by
        BY <1>1, <2>1, MemoryRows DEF DedupTypeOK
    <2>4. mem' \in [Memory -> [status : MemStatus, by : Memory \cup {0}]]
        <3>1. \A i \in Memory : mem[i] \in [status : MemStatus, by : Memory \cup {0}]
            BY <1>1 DEF DedupTypeOK
        <3>2. [status |-> "deleted", by |-> 0] \in [status : MemStatus, by : Memory \cup {0}]
            BY DEF MemStatus
        <3>3. \A i \in Memory : [mem[i] EXCEPT !.by = 0] \in [status : MemStatus, by : Memory \cup {0}]
            BY <3>1
        <3> QED BY <2>1, <3>1, <3>2, <3>3
    <2>5. Deprecated' = Deprecated \ deleted
        BY <2>3 DEF Deprecated
    <2>6. DedupTypeOK'
        BY <1>1, <1>r, <1>s, <1>n, <2>1, <2>4 DEF DedupTypeOK, Deprecated
    <2>7. Present \ deleted \subseteq Present'
        BY <2>3, <2>5 DEF Present, Exists, IsActive
    <2>8. SuccessorsExist'
        <3> SUFFICES ASSUME NEW i \in (Deprecated \ wiped)'
                     PROVE  mem'[i].by # 0 /\ mem'[i].by \in Present'
            BY DEF SuccessorsExist, Present, Exists, IsActive, Deprecated
        <3>1. i \in Deprecated /\ i \in Memory /\ i \notin wiped /\ i \notin deleted /\ mem[i].by \notin deleted
            BY <2>1, <2>5 DEF Deprecated
        <3>2. mem[i].by # 0 /\ mem[i].by \in Present
            BY <1>2, <3>1 DEF DedupInv, NoFactIsLost, SuccessorsExist, Present
        <3> QED BY <2>3, <2>7, <3>1, <3>2
    <2>9. NoCircle'
        <3> SUFFICES ASSUME NEW S \in SUBSET Deprecated', S # {}
                     PROVE  \E i \in S : mem'[i].by \notin S
            BY DEF NoCircle
        <3>1. S \in SUBSET Deprecated /\ \A i \in S : i \in Memory /\ i \notin deleted
            BY <2>5 DEF Deprecated
        <3>2. PICK i \in S : mem[i].by \notin S
            BY <3>1 DEF DedupInv, NoFactIsLost, NoCircle
        <3>3. 0 \notin S
            BY <1>3, <3>1
        <3> QED BY <2>3, <3>1, <3>2, <3>3
    <2>10. \A i \in Memory : mem[i].status # "absent" => mem'[i].status # "absent"
        BY <2>3
    <2> QED BY <1>4, <2>5, <2>6, <2>8, <2>9, <2>10 DEF NoFactIsLost
<1>6. CASE ResetAll
    <2>1. /\ mem' = [i \in Memory |-> IF Exists(i) THEN [status |-> "deleted", by |-> 0] ELSE mem[i]]
          /\ UNCHANGED wiped
        BY <1>6 DEF ResetAll
    <2>2. /\ mem' \in [Memory -> [status : MemStatus, by : Memory \cup {0}]]
          /\ \A i \in Memory : mem'[i].status \in {"deleted", mem[i].status}
          /\ \A i \in Memory : Exists(i) => mem'[i].status = "deleted"
        BY <1>1, <2>1 DEF DedupTypeOK, MemStatus
    <2>3. DedupTypeOK'
        BY <1>1, <1>r, <1>s, <1>n, <2>1, <2>2 DEF DedupTypeOK
    <2>4. Deprecated' = {}
        BY <2>2 DEF Deprecated, Exists
    <2>5. NoFactIsLost'
        BY <2>4 DEF NoFactIsLost, SuccessorsExist, NoCircle
    <2>6. \A i \in Memory : mem[i].status # "absent" => mem'[i].status # "absent"
        BY <2>2
    <2> QED BY <1>4, <2>3, <2>4, <2>5, <2>6
<1> QED BY <1>5, <1>6

LEMMA DedupSteps == DedupInv /\ [DedupNext]_dedupVars => DedupInv'
<1>1. ASSUME DedupInv, UNCHANGED dedupVars PROVE DedupInv'
    BY <1>1 DEF dedupVars, DedupInv, DedupTypeOK, ClustersApart, AheadIsIntact, DecisionIsSafe,
        NoFactIsLost, SuccessorsExist, NoCircle, Deprecated, Exists, IsActive
<1> QED BY <1>1, StartRunStep, ReviewKeeps, RowSteps, CreateMergedStep, DeprecateStep, RunGoesOn,
           MemoryResets DEF DedupNext, DedupStep

\* For any memories, similar pairs and decisions, and wherever runs are cut short and memories are
\* reset: following superseded_by from a deprecated memory never comes back to it, and finds memories
\* that are there until one whose successor a reset deleted.
THEOREM FactsAreKept == DedupSpec => []NoFactIsLost
<1>1. DedupInv => NoFactIsLost
    BY DEF DedupInv
<1> QED BY <1>1, DedupInitInv, DedupSteps, PTL DEF DedupSpec

\* The memories, the pairs and the run of a deduplication keep their types.
THEOREM DedupTypes == DedupSpec => []DedupTypeOK
<1>1. DedupInv => DedupTypeOK
    BY DEF DedupInv
<1> QED BY <1>1, DedupInitInv, DedupSteps, PTL DEF DedupSpec

-----------------------------------------------------------------------------
(* ContextInjection *)

AtMessage == {"search", "create", "record"}

\* The worker stands on a message and has messages before it.
InjectorPlaced ==
    /\ injector.pc # "idle" => injector.todo \subseteq 1 .. Len(talk)
    /\ injector.pc \in AtMessage => lookedAt \in 1 .. Len(talk)

\* The talk that the worker found without a recent injection still has none, ...
StillCooled == injector.pc \in {"search", "create"} => Cooled(Here)

\* ... and what it picked for the room, the room has not in its ledger before it is shown.
PickedIsFit ==
    /\ injector.pc = "create" => injector.picked # {} /\ injector.picked \subseteq Fit(Here)
    /\ injector.pc = "record" => \A k \in injector.picked : InjectionsOf(Here, k) # {}

\* The worker has shown k to r and is about to note it.
InHand(r, k) == injector.pc = "record" /\ r = Here /\ k \in injector.picked

\* Every injection of k is one in the ledger, one to be noted, or one that broke.
InjectionsAccounted ==
    \A r \in TalkRoom, k \in Recalled :
        /\ Cardinality(InjectionsOf(r, k)) <= broken + IF <<r, k>> \in ledger \/ InHand(r, k) THEN 1 ELSE 0
        /\ <<r, k>> \in ledger => InjectionsOf(r, k) # {}

InjInv ==
    /\ InjTypeOK /\ InjectorPlaced /\ StillCooled /\ PickedIsFit
    /\ Spaced /\ InjectionsAccounted

LEMMA InjectorParts ==
    ASSUME InjTypeOK
    PROVE  /\ injector.pc \in {"idle", "look"} \cup AtMessage
           /\ injector.pc = "idle" => injector = Dozing
           /\ injector.pc # "idle" => injector.todo \in SUBSET Nat
           /\ injector.pc \in AtMessage =>
                /\ injector.picked \in SUBSET Recalled
                /\ injector \in [pc : {"search", "create", "record"}, todo : SUBSET Nat, picked : SUBSET Recalled]
BY DEF InjTypeOK, InjectorState, Dozing, AtMessage

LEMMA InjInitInv == InjInit => InjInv
<1> SUFFICES ASSUME InjInit PROVE InjInv
    OBVIOUS
<1>1. talk = <<>> /\ Len(talk) = 0 /\ ledger = {} /\ lookedAt = 0 /\ broken = 0
    BY DEF InjInit
<1>2. injector = Dozing /\ injector.pc = "idle"
    BY DEF InjInit, Dozing
<1>3. InjTypeOK
    BY <1>1, <1>2 DEF InjTypeOK, InjectorState
<1>4. InjectorPlaced /\ StillCooled /\ PickedIsFit
    BY <1>2 DEF InjectorPlaced, StillCooled, PickedIsFit, AtMessage
<1>5. Spaced
    BY <1>1 DEF Spaced
<1>6. InjectionsAccounted
    <2>1. \A r \in TalkRoom, k \in Recalled : InjectionsOf(r, k) = {} /\ <<r, k>> \notin ledger
        BY <1>1 DEF InjectionsOf
    <2>2. Cardinality({}) = 0
        BY FS_EmptySet
    <2>3. \A r \in TalkRoom, k \in Recalled : ~ InHand(r, k)
        BY <1>2 DEF InHand
    <2> QED BY <1>1, <2>1, <2>2, <2>3 DEF InjectionsAccounted
<1> QED BY <1>3, <1>4, <1>5, <1>6 DEF InjInv

\* A message more.
LEMMA TalkGrows ==
    ASSUME InjTypeOK, NEW e \in TalkEntry, talk' = Append(talk, e)
    PROVE  /\ Len(talk) \in Nat /\ Len(talk') = Len(talk) + 1 /\ talk' \in Seq(TalkEntry)
           /\ 1 .. Len(talk) \subseteq 1 .. Len(talk')
           /\ \A p \in 1 .. Len(talk) : talk'[p] = talk[p] /\ talk[p] \in TalkEntry
           /\ talk'[Len(talk) + 1] = e
BY DEF InjTypeOK

\* The messages in a stretch of the talk.
LEMMA Stretch ==
    ASSUME NEW a \in Int, NEW b \in Int, NEW S \in SUBSET (a .. b), NEW T \in SUBSET S
    PROVE  /\ Cardinality(S) \in Nat /\ Cardinality(T) \in Nat /\ Cardinality(T) <= Cardinality(S)
           /\ IsFiniteSet(S)
<1>1. IsFiniteSet(a .. b)
    BY FS_Interval
<1>2. IsFiniteSet(S) /\ IsFiniteSet(T) /\ Cardinality(T) <= Cardinality(S)
    BY <1>1, FS_Subset
<1> QED BY <1>2, FS_CardinalityType

\* Spacing, and the silence in a room, as the talk grows.
LEMMA SpacingStays ==
    ASSUME InjInv, NEW e \in TalkEntry, talk' = Append(talk, e), e.shows # {} => Cooled(e.room)
    PROVE  /\ Spaced'
           /\ \A r \in TalkRoom : e.shows = {} /\ Cooled(r) => Cooled(r)'
<1> DEFINE n == Len(talk)
<1>1. /\ n \in Nat /\ Len(talk') = n + 1
      /\ \A p \in 1 .. n : talk'[p] = talk[p] /\ talk[p] \in TalkEntry
      /\ talk'[n + 1] = e
    BY TalkGrows DEF InjInv
<1>2. CooldownMessages \in Nat
    BY InjectionAssumption
<1>3. ASSUME NEW p \in 1 .. Len(talk'), NEW q \in 1 .. Len(talk'), p < q,
             talk'[p].shows # {}, talk'[q].shows # {}, talk'[p].room = talk'[q].room
      PROVE  Cardinality({x \in p + 1 .. q - 1 : talk'[x].room = talk'[p].room}) > CooldownMessages
    <2>1. p \in 1 .. n
        BY <1>1, <1>3
    <2>2. {x \in p + 1 .. q - 1 : talk'[x].room = talk'[p].room}
            = {x \in p + 1 .. q - 1 : talk[x].room = talk[p].room}
        BY <1>1, <2>1
    <2>3. CASE q \in 1 .. n
        <3>1. IsInjection(p) /\ IsInjection(q) /\ talk[p].room = talk[q].room
            BY <1>1, <1>3, <2>1, <2>3 DEF IsInjection
        <3> QED BY <1>3, <2>1, <2>2, <2>3, <3>1 DEF InjInv, Spaced
    <2>4. CASE q = n + 1
        <3>1. Cooled(e.room) /\ talk[p].room = e.room /\ IsInjection(p)
            BY <1>1, <1>3, <2>1, <2>4 DEF IsInjection
        <3>2. Cardinality({x \in p + 1 .. n : talk[x].room = e.room}) > CooldownMessages
            BY <2>1, <3>1 DEF Cooled
        <3>3. p + 1 .. q - 1 = p + 1 .. n
            BY <1>1, <2>4
        <3>4. talk'[p].room = e.room
            BY <1>1, <2>1, <3>1
        <3>5. {x \in p + 1 .. q - 1 : talk'[x].room = talk'[p].room}
                = {x \in p + 1 .. n : talk[x].room = e.room}
            BY <2>2, <3>1, <3>3
        <3> QED BY <3>2, <3>5
    <2>5. q \in 1 .. n \/ q = n + 1
        <3>1. q \in 1 .. n + 1
            BY <1>1, <1>3
        <3> QED BY <1>1, <3>1
    <2> QED BY <2>3, <2>4, <2>5
<1>4. Spaced'
    BY <1>3 DEF Spaced, IsInjection
<1>5. ASSUME NEW r \in TalkRoom, e.shows = {}, Cooled(r) PROVE Cooled(r)'
    <2> SUFFICES ASSUME NEW p \in 1 .. Len(talk'), talk'[p].room = r, talk'[p].shows # {}
                 PROVE  Cardinality({q \in p + 1 .. Len(talk') : talk'[q].room = r}) > CooldownMessages
        BY DEF Cooled, IsInjection
    <2> DEFINE S == {q \in p + 1 .. Len(talk') : talk'[q].room = r}
               T == {q \in p + 1 .. n : talk[q].room = r}
    <2>1. p \in 1 .. n /\ talk[p].room = r /\ IsInjection(p)
        BY <1>1, <1>5 DEF IsInjection
    <2>2. Cardinality(T) > CooldownMessages
        BY <1>5, <2>1 DEF Cooled
    <2>3. T \subseteq S /\ S \subseteq p + 1 .. Len(talk') /\ p + 1 \in Int /\ Len(talk') \in Int
        BY <1>1, <2>1
    <2>4. Cardinality(S) \in Nat /\ Cardinality(T) \in Nat /\ Cardinality(T) <= Cardinality(S)
        BY <2>3, Stretch
    <2> HIDE DEF S, T
    <2>5. Cardinality(S) > CooldownMessages
        BY <1>2, <2>2, <2>4
    <2> QED BY <2>5 DEF S
<1> QED BY <1>4, <1>5

\* The injections of a memory, as the talk grows.
LEMMA ShowingsGrow ==
    ASSUME InjTypeOK, NEW e \in TalkEntry, talk' = Append(talk, e),
           NEW r \in TalkRoom, NEW k \in Recalled
    PROVE  /\ InjectionsOf(r, k)' = IF r = e.room /\ k \in e.shows THEN InjectionsOf(r, k) \cup {Len(talk) + 1}
                                    ELSE InjectionsOf(r, k)
           /\ IsFiniteSet(InjectionsOf(r, k)) /\ Cardinality(InjectionsOf(r, k)) \in Nat
           /\ Cardinality(InjectionsOf(r, k) \cup {Len(talk) + 1}) = Cardinality(InjectionsOf(r, k)) + 1
<1> DEFINE n == Len(talk)
<1>1. /\ n \in Nat /\ Len(talk') = n + 1
      /\ \A p \in 1 .. n : talk'[p] = talk[p]
      /\ talk'[n + 1] = e
    BY TalkGrows
<1>2. InjectionsOf(r, k)' = {p \in 1 .. n + 1 : talk'[p].room = r /\ k \in talk'[p].shows}
    BY <1>1 DEF InjectionsOf
<1>3. InjectionsOf(r, k) = {p \in 1 .. n : talk[p].room = r /\ k \in talk[p].shows}
    BY DEF InjectionsOf
<1>4. 1 .. n + 1 = (1 .. n) \cup {n + 1} /\ n + 1 \notin 1 .. n
    BY <1>1
<1>5. InjectionsOf(r, k)' = IF r = e.room /\ k \in e.shows THEN InjectionsOf(r, k) \cup {n + 1}
                            ELSE InjectionsOf(r, k)
    BY <1>1, <1>2, <1>3, <1>4
<1>6. InjectionsOf(r, k) \subseteq 1 .. n
    BY <1>3
<1>7. IsFiniteSet(InjectionsOf(r, k))
    <2>1. IsFiniteSet(1 .. n)
        BY <1>1, FS_Interval
    <2> QED BY <1>6, <2>1, FS_Subset
<1>8. Cardinality(InjectionsOf(r, k)) \in Nat
    BY <1>7, FS_CardinalityType
<1>9. n + 1 \notin InjectionsOf(r, k)
    BY <1>4, <1>6
<1>10. Cardinality(InjectionsOf(r, k) \cup {n + 1}) = Cardinality(InjectionsOf(r, k)) + 1
    BY <1>7, <1>9, FS_AddElement
<1> QED BY <1>5, <1>7, <1>8, <1>10

LEMMA SayStep == \A r \in TalkRoom : InjInv /\ Say(r) => InjInv'
<1> SUFFICES ASSUME InjInv, NEW r \in TalkRoom, Say(r) PROVE InjInv'
    OBVIOUS
<1> DEFINE e == [room |-> r, shows |-> {}]
<1>1. e \in TalkEntry /\ e.shows = {} /\ talk' = Append(talk, e)
      /\ UNCHANGED <<ledger, lookedAt, injector, broken>>
    BY DEF Say, TalkEntry
<1> HIDE DEF e
<1>2. InjTypeOK
    BY DEF InjInv
<1>3. /\ Len(talk) \in Nat /\ Len(talk') = Len(talk) + 1 /\ talk' \in Seq(TalkEntry)
      /\ 1 .. Len(talk) \subseteq 1 .. Len(talk')
      /\ \A p \in 1 .. Len(talk) : talk'[p] = talk[p] /\ talk[p] \in TalkEntry
    BY <1>1, <1>2, TalkGrows
<1>4. Spaced' /\ \A x \in TalkRoom : Cooled(x) => Cooled(x)'
    BY <1>1, SpacingStays
<1>5. InjTypeOK'
    BY <1>1, <1>2, <1>3 DEF InjTypeOK
<1>6. InjectorPlaced'
    BY <1>1, <1>3 DEF InjInv, InjectorPlaced
<1>7. injector.pc \in AtMessage => Here' = Here /\ Here \in TalkRoom
    BY <1>1, <1>3 DEF InjInv, InjectorPlaced, Here, TalkEntry
<1>8. StillCooled'
    <2> SUFFICES ASSUME injector.pc \in {"search", "create"} PROVE Cooled(Here)'
        BY <1>1 DEF StillCooled
    <2>1. Cooled(Here) /\ Here' = Here /\ Here \in TalkRoom
        BY <1>7 DEF InjInv, StillCooled, AtMessage
    <2>2. PICK x \in TalkRoom : x = Here
        BY <2>1
    <2>3. Cooled(x)'
        BY <1>4, <2>1, <2>2
    <2> QED BY <2>1, <2>2, <2>3 DEF Cooled
<1>9. \A x \in TalkRoom, k \in Recalled : InjectionsOf(x, k)' = InjectionsOf(x, k)
    BY <1>1, <1>2, ShowingsGrow
<1>10. PickedIsFit'
    <2>1. injector.pc = "create" => Fit(Here)' = Fit(Here)
        BY <1>1, <1>7 DEF Fit, AtMessage
    <2>2. ASSUME injector.pc = "record", NEW k \in injector.picked PROVE InjectionsOf(Here, k)' # {}
        <3>1. Here' = Here /\ Here \in TalkRoom /\ k \in Recalled /\ InjectionsOf(Here, k) # {}
            BY <1>2, <1>7, <2>2, InjectorParts DEF InjInv, PickedIsFit, AtMessage
        <3>2. PICK x \in TalkRoom : x = Here
            BY <3>1
        <3>3. InjectionsOf(x, k)' # {}
            BY <1>9, <3>1, <3>2
        <3> QED BY <3>1, <3>2, <3>3 DEF InjectionsOf
    <2> QED BY <1>1, <2>1, <2>2 DEF InjInv, PickedIsFit
<1>11. InjectionsAccounted'
    <2>1. \A x \in TalkRoom, k \in Recalled : InHand(x, k)' <=> InHand(x, k)
        BY <1>1, <1>7 DEF InHand, AtMessage
    <2> QED BY <1>1, <1>9, <2>1 DEF InjInv, InjectionsAccounted
<1> QED BY <1>4, <1>5, <1>6, <1>8, <1>10, <1>11 DEF InjInv

\* A step of the worker that writes no message.
LEMMA QuietStep ==
    ASSUME InjInv, UNCHANGED <<talk, broken>>, ledger' \subseteq TalkRoom \X Recalled,
           lookedAt' \in 0 .. Len(talk), injector' \in InjectorState,
           InjectorPlaced', StillCooled', PickedIsFit',
           \A r \in TalkRoom, k \in Recalled :
                /\ <<r, k>> \in ledger \/ InHand(r, k) => <<r, k>> \in ledger' \/ InHand(r, k)'
                /\ <<r, k>> \in ledger' => InjectionsOf(r, k) # {}
    PROVE  InjInv'
<1>0. InjTypeOK /\ talk' = talk /\ broken' = broken
    BY DEF InjInv
<1>1. InjTypeOK'
    BY <1>0 DEF InjTypeOK
<1>2. Spaced'
    <2>1. Spaced
        BY DEF InjInv
    <2> QED BY <1>0, <2>1 DEF Spaced, IsInjection
<1>3. \A r \in TalkRoom, k \in Recalled : InjectionsOf(r, k)' = InjectionsOf(r, k)
    BY <1>0 DEF InjectionsOf
<1>4. InjectionsAccounted'
    <2> SUFFICES ASSUME NEW r \in TalkRoom, NEW k \in Recalled
                 PROVE  /\ Cardinality(InjectionsOf(r, k)') <=
                                broken' + IF <<r, k>> \in ledger' \/ InHand(r, k)' THEN 1 ELSE 0
                        /\ <<r, k>> \in ledger' => InjectionsOf(r, k)' # {}
        BY DEF InjectionsAccounted
    <2>1. Cardinality(InjectionsOf(r, k)) \in Nat /\ broken \in Nat
        <3>1. InjectionsOf(r, k) \subseteq 1 .. Len(talk) /\ Len(talk) \in Nat
            BY DEF InjectionsOf, InjInv, InjTypeOK
        <3>2. IsFiniteSet(1 .. Len(talk))
            BY <3>1, FS_Interval
        <3> QED BY <3>1, <3>2, FS_Subset, FS_CardinalityType DEF InjInv, InjTypeOK
    <2>2. Cardinality(InjectionsOf(r, k)) <= broken + IF <<r, k>> \in ledger \/ InHand(r, k) THEN 1 ELSE 0
        BY DEF InjInv, InjectionsAccounted
    <2>3. broken' = broken /\ (<<r, k>> \in ledger \/ InHand(r, k) => <<r, k>> \in ledger' \/ InHand(r, k)')
        OBVIOUS
    <2>4. <<r, k>> \in ledger' => InjectionsOf(r, k) # {}
        OBVIOUS
    <2> QED BY <1>3, <2>1, <2>2, <2>3, <2>4
<1> QED BY <1>1, <1>2, <1>4 DEF InjInv

LEMMA WorkerSteps == InjInv /\ (ListMessages \/ LookAt \/ EndPass \/ Search \/ RecordInjection) => InjInv'
<1> SUFFICES ASSUME InjInv, ListMessages \/ LookAt \/ EndPass \/ Search \/ RecordInjection PROVE InjInv'
    OBVIOUS
<1>1. InjTypeOK /\ lookedAt \in 0 .. Len(talk) /\ Len(talk) \in Nat /\ talk \in Seq(TalkEntry)
    BY DEF InjInv, InjTypeOK
<1>2. UNCHANGED <<talk, broken>>
    BY DEF ListMessages, LookAt, EndPass, Search, RecordInjection
<1>3. \A r \in TalkRoom, k \in Recalled : <<r, k>> \in ledger => InjectionsOf(r, k) # {}
    BY DEF InjInv, InjectionsAccounted
<1>4. ledger \subseteq TalkRoom \X Recalled
    BY <1>1 DEF InjTypeOK
\* A worker that goes on between messages, with nothing in hand.
<1>5. ASSUME UNCHANGED ledger, lookedAt' \in 0 .. Len(talk), \A r \in TalkRoom, k \in Recalled : ~ InHand(r, k),
             NEW todo \in SUBSET (1 .. Len(talk)), injector' \in {Dozing, Looking(todo)}
      PROVE  InjInv'
    <2>0. todo \in SUBSET Nat
        BY <1>1, <1>5
    <2>1. /\ injector' \in InjectorState /\ injector'.pc \in {"idle", "look"}
          /\ injector'.pc = "look" => injector'.todo = todo
        <3>1. CASE injector' = Dozing
            BY <3>1 DEF InjectorState, Dozing
        <3>2. CASE injector' = Looking(todo)
            BY <2>0, <3>2 DEF InjectorState, Looking
        <3> QED BY <1>5, <3>1, <3>2
    <2>2. InjectorPlaced' /\ StillCooled' /\ PickedIsFit'
        BY <1>2, <1>5, <2>1 DEF InjectorPlaced, StillCooled, PickedIsFit, AtMessage
    <2> QED BY <1>2, <1>3, <1>4, <1>5, <2>1, <2>2, QuietStep
<1>6. injector.pc # "record" => \A r \in TalkRoom, k \in Recalled : ~ InHand(r, k)
    BY DEF InHand
<1>7. CASE ListMessages
    <2> DEFINE todo == {p \in Ahead : Cardinality({q \in Ahead : q <= p}) <= InjectionBatch}
    <2>1. injector' = Looking(todo) /\ UNCHANGED <<ledger, lookedAt>> /\ injector.pc = "idle"
        BY <1>7 DEF ListMessages, InPass
    <2>2. todo \subseteq 1 .. Len(talk)
        BY <1>1 DEF Ahead
    <2> HIDE DEF todo
    <2> QED BY <1>1, <1>5, <1>6, <2>1, <2>2
<1>8. CASE LookAt
    <2>1. /\ injector.pc = "look" /\ UNCHANGED ledger
          /\ injector.todo \subseteq 1 .. Len(talk)
        BY <1>8 DEF LookAt, InPass, InjInv, InjectorPlaced
    <2>2. PICK p \in injector.todo :
            /\ lookedAt' = p
            /\ injector' = IF Cooled(talk[p].room)
                           THEN [pc |-> "search", todo |-> injector.todo \ {p}, picked |-> {}]
                           ELSE Looking(injector.todo \ {p})
        BY <1>8 DEF LookAt
    <2>3. CASE ~ Cooled(talk[p].room)
        <3>1. injector.todo \ {p} \in SUBSET (1 .. Len(talk)) /\ lookedAt' \in 0 .. Len(talk)
            BY <1>1, <2>1, <2>2
        <3>2. injector' = Looking(injector.todo \ {p})
            BY <2>2, <2>3
        <3> QED BY <1>5, <1>6, <2>1, <3>1, <3>2
    <2>4. CASE Cooled(talk[p].room)
        <3>1. injector' = [pc |-> "search", todo |-> injector.todo \ {p}, picked |-> {}]
            BY <2>2, <2>4
        <3>2. injector' \in InjectorState /\ injector'.pc = "search" /\ injector'.todo \subseteq 1 .. Len(talk)
            BY <1>1, <2>1, <3>1 DEF InjectorState
        <3>3. InjectorPlaced'
            BY <1>2, <2>1, <2>2, <3>2 DEF InjectorPlaced
        <3>4. StillCooled'
            BY <1>2, <2>2, <2>4 DEF StillCooled, Here, Cooled, IsInjection
        <3>5. PickedIsFit' /\ \A r \in TalkRoom, k \in Recalled : ~ InHand(r, k)
            BY <1>6, <2>1, <3>2 DEF PickedIsFit
        <3>6. lookedAt' \in 0 .. Len(talk)
            BY <1>1, <2>1, <2>2
        <3> QED BY <1>2, <1>3, <1>4, <2>1, <3>2, <3>3, <3>4, <3>5, <3>6, QuietStep
    <2> QED BY <2>3, <2>4
<1>9. CASE EndPass
    <2>1. injector' = Dozing /\ UNCHANGED <<ledger, lookedAt>> /\ injector.pc = "look"
        BY <1>9 DEF EndPass, InPass
    <2> QED BY <1>1, <1>5, <1>6, <2>1
<1>10. CASE Search
    <2>1. injector.pc = "search" /\ injector.pc \in AtMessage /\ UNCHANGED <<ledger, lookedAt>>
        BY <1>10 DEF Search, InPass, AtMessage
    <2>2. /\ injector.todo \subseteq 1 .. Len(talk) /\ lookedAt \in 1 .. Len(talk) /\ Cooled(Here)
          /\ injector \in [pc : {"search", "create", "record"}, todo : SUBSET Nat, picked : SUBSET Recalled]
        BY <1>1, <2>1, InjectorParts DEF InjInv, InjectorPlaced, StillCooled
    <2>3. PICK picked \in SUBSET Fit(Here) :
            injector' = IF picked = {} THEN Looking(injector.todo)
                        ELSE [injector EXCEPT !.pc = "create", !.picked = picked]
        BY <1>10 DEF Search
    <2>4. CASE picked = {}
        BY <1>1, <1>5, <1>6, <2>1, <2>2, <2>3, <2>4
    <2>5. CASE picked # {}
        <3>1. /\ injector' \in InjectorState /\ injector'.pc = "create" /\ injector'.todo = injector.todo
              /\ injector'.picked = picked
            BY <2>2, <2>3, <2>5 DEF InjectorState, Fit
        <3>2. InjectorPlaced'
            BY <1>2, <2>1, <2>2, <3>1 DEF InjectorPlaced
        <3>3. Here' = Here /\ Fit(Here)' = Fit(Here) /\ (Cooled(Here) => Cooled(Here)')
            BY <1>2, <2>1 DEF Here, Fit, Cooled, IsInjection
        <3>4. StillCooled' /\ PickedIsFit'
            BY <2>2, <2>5, <3>1, <3>3 DEF StillCooled, PickedIsFit
        <3> QED BY <1>1, <1>2, <1>3, <1>4, <1>6, <2>1, <3>1, <3>2, <3>4, QuietStep
    <2> QED BY <2>4, <2>5
<1>11. CASE RecordInjection
    <2>1. injector.pc = "record" /\ injector.pc \in AtMessage /\ UNCHANGED lookedAt
        BY <1>11 DEF RecordInjection, InPass, AtMessage
    <2>2. /\ injector.todo \subseteq 1 .. Len(talk) /\ lookedAt \in 1 .. Len(talk)
          /\ injector \in [pc : {"search", "create", "record"}, todo : SUBSET Nat, picked : SUBSET Recalled]
          /\ \A k \in injector.picked : InjectionsOf(Here, k) # {}
        BY <1>1, <2>1, InjectorParts DEF InjInv, InjectorPlaced, PickedIsFit
    <2>3. PICK k \in injector.picked :
            /\ ledger' = ledger \cup {<<Here, k>>}
            /\ injector' = IF injector.picked = {k} THEN Looking(injector.todo)
                           ELSE [injector EXCEPT !.picked = @ \ {k}]
        BY <1>11 DEF RecordInjection
    <2>4. Here \in TalkRoom /\ Here' = Here /\ k \in Recalled
        <3>1. talk[lookedAt] \in TalkEntry
            BY <1>1, <2>2
        <3> QED BY <1>2, <2>1, <2>2, <2>3, <3>1 DEF Here, TalkEntry
    <2>5. ledger' \subseteq TalkRoom \X Recalled
        BY <1>4, <2>3, <2>4
    <2>6. /\ injector' \in InjectorState /\ injector'.pc \in {"look", "record"}
          /\ injector'.todo = injector.todo
          /\ injector'.pc = "record" => injector'.picked = injector.picked \ {k}
          /\ injector'.pc = "look" => injector.picked = {k}
        BY <2>1, <2>2, <2>3 DEF InjectorState, Looking
    <2>7. InjectorPlaced' /\ StillCooled'
        BY <1>2, <2>1, <2>2, <2>6 DEF InjectorPlaced, StillCooled
    <2>8. PickedIsFit'
        <3>1. \A j \in injector.picked : InjectionsOf(Here, j)' # {}
            BY <1>2, <2>1, <2>2 DEF InjectionsOf, Here
        <3> QED BY <2>6, <3>1 DEF PickedIsFit
    <2>9. ASSUME NEW r \in TalkRoom, NEW j \in Recalled
          PROVE  /\ <<r, j>> \in ledger \/ InHand(r, j) => <<r, j>> \in ledger' \/ InHand(r, j)'
                 /\ <<r, j>> \in ledger' => InjectionsOf(r, j) # {}
        <3>1. InHand(r, j) => r = Here /\ j \in injector.picked
            BY DEF InHand
        <3>2. r = Here /\ j \in injector.picked /\ j # k => InHand(r, j)'
            BY <2>4, <2>6 DEF InHand
        <3>3. r = Here /\ j = k => <<r, j>> \in ledger' /\ InjectionsOf(r, j) # {}
            BY <2>2, <2>3
        <3>4. <<r, j>> \in ledger' => <<r, j>> \in ledger \/ (r = Here /\ j = k)
            BY <2>3
        <3> QED BY <1>3, <2>3, <3>1, <3>2, <3>3, <3>4
    <2> QED BY <1>1, <1>2, <2>1, <2>5, <2>6, <2>7, <2>8, <2>9, QuietStep
<1> QED BY <1>7, <1>8, <1>9, <1>10, <1>11

\* The injection is written: the room had a long silence, and none of what is shown was in hand or
\* in the ledger.
LEMMA CreateInjectionStep == InjInv /\ CreateInjectionMessage => InjInv'
<1> SUFFICES ASSUME InjInv, CreateInjectionMessage PROVE InjInv'
    OBVIOUS
<1> DEFINE e == [room |-> Here, shows |-> injector.picked]
<1>1. /\ injector.pc = "create" /\ injector.pc \in AtMessage /\ talk' = Append(talk, e)
      /\ injector' = [injector EXCEPT !.pc = "record"] /\ UNCHANGED <<ledger, lookedAt, broken>>
    BY DEF CreateInjectionMessage, InPass, AtMessage
<1>2. InjTypeOK
    BY DEF InjInv
<1>3. /\ injector.todo \subseteq 1 .. Len(talk) /\ lookedAt \in 1 .. Len(talk) /\ Cooled(Here)
      /\ injector \in [pc : {"search", "create", "record"}, todo : SUBSET Nat, picked : SUBSET Recalled]
      /\ injector.picked # {} /\ injector.picked \subseteq Fit(Here) /\ injector.picked \subseteq Recalled
    BY <1>1, <1>2, InjectorParts DEF InjInv, InjectorPlaced, StillCooled, PickedIsFit
<1>4. Here \in TalkRoom
    <2>1. talk[lookedAt] \in TalkEntry
        BY <1>2, <1>3 DEF InjTypeOK
    <2> QED BY <2>1 DEF Here, TalkEntry
<1>5. e \in TalkEntry /\ e.room = Here /\ e.shows = injector.picked
    BY <1>3, <1>4 DEF TalkEntry
<1> HIDE DEF e
<1>6. /\ Len(talk) \in Nat /\ Len(talk') = Len(talk) + 1 /\ talk' \in Seq(TalkEntry)
      /\ 1 .. Len(talk) \subseteq 1 .. Len(talk')
      /\ \A p \in 1 .. Len(talk) : talk'[p] = talk[p] /\ talk[p] \in TalkEntry
    BY <1>1, <1>2, <1>5, TalkGrows
<1>7. Spaced'
    BY <1>1, <1>3, <1>5, SpacingStays
<1>8. /\ injector' \in InjectorState /\ injector'.pc = "record" /\ injector'.todo = injector.todo
      /\ injector'.picked = injector.picked
    BY <1>1, <1>3 DEF InjectorState
<1>9. InjTypeOK'
    BY <1>1, <1>2, <1>6, <1>8 DEF InjTypeOK
<1>10. InjectorPlaced' /\ StillCooled'
    BY <1>1, <1>3, <1>6, <1>8 DEF InjectorPlaced, StillCooled
<1>11. Here' = Here
    BY <1>1, <1>3, <1>6 DEF Here
<1>12. ASSUME NEW r \in TalkRoom, NEW k \in Recalled
       PROVE  /\ InjectionsOf(r, k)' = IF r = Here /\ k \in injector.picked
                                       THEN InjectionsOf(r, k) \cup {Len(talk) + 1} ELSE InjectionsOf(r, k)
              /\ Cardinality(InjectionsOf(r, k)) \in Nat
              /\ Cardinality(InjectionsOf(r, k) \cup {Len(talk) + 1}) = Cardinality(InjectionsOf(r, k)) + 1
    BY <1>1, <1>2, <1>5, ShowingsGrow
<1>13. PickedIsFit'
    <2>1. \A r \in TalkRoom, k \in Recalled : r = Here /\ k \in injector.picked => InjectionsOf(r, k)' # {}
        BY <1>12
    <2>2. PICK r \in TalkRoom : r = Here
        BY <1>4
    <2>3. \A k \in injector.picked : InjectionsOf(r, k)' # {}
        BY <1>3, <2>1, <2>2
    <2>4. \A k \in injector.picked : InjectionsOf(Here, k)' # {}
        BY <1>11, <2>2, <2>3 DEF InjectionsOf
    <2> QED BY <1>8, <2>4 DEF PickedIsFit
<1>14. InjectionsAccounted'
    <2> SUFFICES ASSUME NEW r \in TalkRoom, NEW k \in Recalled
                 PROVE  /\ Cardinality(InjectionsOf(r, k)') <=
                                broken' + IF <<r, k>> \in ledger' \/ InHand(r, k)' THEN 1 ELSE 0
                        /\ <<r, k>> \in ledger' => InjectionsOf(r, k)' # {}
        BY DEF InjectionsAccounted
    <2>1. /\ Cardinality(InjectionsOf(r, k)) <= broken + IF <<r, k>> \in ledger THEN 1 ELSE 0
          /\ <<r, k>> \in ledger => InjectionsOf(r, k) # {}
        BY <1>1 DEF InjInv, InjectionsAccounted, InHand
    <2>2. broken \in Nat
        BY <1>2 DEF InjTypeOK
    <2>3. CASE r = Here /\ k \in injector.picked
        <3>1. <<r, k>> \notin ledger /\ InHand(r, k)'
            BY <1>3, <1>8, <1>11, <2>3 DEF Fit, InHand
        <3>2. Cardinality(InjectionsOf(r, k)') = Cardinality(InjectionsOf(r, k)) + 1
            <4>1. InjectionsOf(r, k)' = InjectionsOf(r, k) \cup {Len(talk) + 1}
                BY <1>12, <2>3
            <4>2. Cardinality(InjectionsOf(r, k) \cup {Len(talk) + 1}) = Cardinality(InjectionsOf(r, k)) + 1
                BY <1>12
            <4> QED BY <4>1, <4>2
        <3> DEFINE before == Cardinality(InjectionsOf(r, k))
        <3>3. before \in Nat /\ before <= broken
            <4>1. before \in Nat
                BY <1>12
            <4>2. before <= broken + IF <<r, k>> \in ledger THEN 1 ELSE 0
                BY <2>1
            <4> HIDE DEF before
            <4> QED BY <2>2, <3>1, <4>1, <4>2
        <3>4. InjectionsOf(r, k)' # {}
            BY <1>12, <2>3
        <3>5. Cardinality(InjectionsOf(r, k)') <= broken + 1
            BY <2>2, <3>2, <3>3
        <3> QED BY <1>1, <3>1, <3>4, <3>5
    <2>4. CASE ~ (r = Here /\ k \in injector.picked)
        <3>1. InjectionsOf(r, k)' = InjectionsOf(r, k)
            BY <1>12, <2>4
        <3>2. ~ InHand(r, k)'
            BY <1>8, <1>11, <2>4 DEF InHand
        <3> QED BY <1>1, <2>1, <3>1, <3>2
    <2> QED BY <2>3, <2>4
<1> QED BY <1>7, <1>9, <1>10, <1>13, <1>14 DEF InjInv

\* A step that breaks may leave an injection without its entry in the ledger.
LEMMA BreakSteps == InjInv /\ (InjectorFails \/ InjectorRestarts) => InjInv'
<1> SUFFICES ASSUME InjInv, InjectorFails \/ InjectorRestarts PROVE InjInv'
    OBVIOUS
<1>1. /\ injector' = Dozing /\ broken' = broken + 1 /\ UNCHANGED <<talk, ledger>>
      /\ lookedAt' \in {0, lookedAt}
    BY DEF InjectorFails, InjectorRestarts, Break
<1>2. InjTypeOK /\ Len(talk) \in Nat /\ broken \in Nat
    BY DEF InjInv, InjTypeOK
<1>3. injector' \in InjectorState /\ injector'.pc = "idle"
    BY <1>1 DEF InjectorState, Dozing
<1>4. lookedAt' \in 0 .. Len(talk)
    BY <1>1, <1>2 DEF InjTypeOK
<1>5. InjTypeOK'
    BY <1>1, <1>2, <1>3, <1>4 DEF InjTypeOK
<1>6. InjectorPlaced' /\ StillCooled' /\ PickedIsFit'
    BY <1>3 DEF InjectorPlaced, StillCooled, PickedIsFit, AtMessage
<1>7. Spaced'
    <2>1. Spaced /\ talk' = talk
        BY <1>1 DEF InjInv
    <2> QED BY <2>1 DEF Spaced, IsInjection
<1>8. InjectionsAccounted'
    <2> SUFFICES ASSUME NEW r \in TalkRoom, NEW k \in Recalled
                 PROVE  /\ Cardinality(InjectionsOf(r, k)') <=
                                broken' + IF <<r, k>> \in ledger' \/ InHand(r, k)' THEN 1 ELSE 0
                        /\ <<r, k>> \in ledger' => InjectionsOf(r, k)' # {}
        BY DEF InjectionsAccounted
    <2>1. InjectionsOf(r, k)' = InjectionsOf(r, k)
        BY <1>1 DEF InjectionsOf
    <2>2. /\ Cardinality(InjectionsOf(r, k)) <= broken + IF <<r, k>> \in ledger \/ InHand(r, k) THEN 1 ELSE 0
          /\ <<r, k>> \in ledger => InjectionsOf(r, k) # {}
        BY DEF InjInv, InjectionsAccounted
    <2>3. ~ InHand(r, k)'
        BY <1>3 DEF InHand
    <2>4. Cardinality(InjectionsOf(r, k)) \in Nat
        <3>1. InjectionsOf(r, k) \subseteq 1 .. Len(talk)
            BY DEF InjectionsOf
        <3>2. IsFiniteSet(1 .. Len(talk))
            BY <1>2, FS_Interval
        <3> QED BY <3>1, <3>2, FS_Subset, FS_CardinalityType
    <2> QED BY <1>1, <1>2, <2>1, <2>2, <2>3, <2>4
<1> QED BY <1>5, <1>6, <1>7, <1>8 DEF InjInv

LEMMA InjSteps == InjInv /\ [InjNext]_injVars => InjInv'
<1>1. ASSUME InjInv, UNCHANGED injVars PROVE InjInv'
    <2>1. UNCHANGED <<talk, ledger, lookedAt, injector, broken>>
        BY <1>1 DEF injVars
    <2>2. InjTypeOK'
        BY <1>1, <2>1 DEF InjInv, InjTypeOK
    <2>6. InjectorPlaced'
        BY <1>1, <2>1 DEF InjInv, InjectorPlaced
    <2>7. Spaced'
        BY <1>1, <2>1 DEF InjInv, Spaced, IsInjection
    <2>4. StillCooled'
        BY <1>1, <2>1 DEF InjInv, StillCooled, Cooled, Here, IsInjection
    <2>5. PickedIsFit'
        BY <1>1, <2>1 DEF InjInv, PickedIsFit, Here, Fit, InjectionsOf
    <2>3. InjectionsAccounted'
        BY <1>1, <2>1 DEF InjInv, InjectionsAccounted, InjectionsOf, InHand, Here
    <2> QED BY <2>2, <2>3, <2>4, <2>5, <2>6, <2>7 DEF InjInv
<1> QED BY <1>1, SayStep, WorkerSteps, CreateInjectionStep, BreakSteps DEF InjNext, InjectorStep

LEMMA InjImplies == InjInv => InjectionsAreSound
<1> SUFFICES ASSUME InjInv PROVE InjectionsAreSound
    OBVIOUS
<1>1. ASSUME NEW r \in TalkRoom, NEW k \in Recalled
      PROVE  /\ Cardinality(InjectionsOf(r, k)) <= 1 + broken
             /\ <<r, k>> \in ledger => InjectionsOf(r, k) # {}
    <2>1. /\ Cardinality(InjectionsOf(r, k)) <= broken + IF <<r, k>> \in ledger \/ InHand(r, k) THEN 1 ELSE 0
          /\ <<r, k>> \in ledger => InjectionsOf(r, k) # {}
        BY DEF InjInv, InjectionsAccounted
    <2>2. broken \in Nat /\ InjectionsOf(r, k) \subseteq 1 .. Len(talk) /\ Len(talk) \in Nat
        BY DEF InjInv, InjTypeOK, InjectionsOf
    <2>3. IsFiniteSet(1 .. Len(talk))
        BY <2>2, FS_Interval
    <2>4. Cardinality(InjectionsOf(r, k)) \in Nat
        BY <2>2, <2>3, FS_Subset, FS_CardinalityType
    <2> QED BY <2>1, <2>2, <2>4
<1> QED BY <1>1 DEF InjInv, InjectionsAreSound, ShownOnce

\* For any rooms, memories and limits: injections in a room keep their distance, also when the worker
\* goes through the history again, and a memory is shown again only for a step that broke.
THEOREM InjectionsSound == InjSpec => []InjectionsAreSound
<1> QED BY InjImplies, InjInitInv, InjSteps, PTL DEF InjSpec

\* The conversation, the ledger and the worker of the injection keep their types.
THEOREM InjectionTypes == InjSpec => []InjTypeOK
<1>1. InjInv => InjTypeOK
    BY DEF InjInv
<1> QED BY <1>1, InjInitInv, InjSteps, PTL DEF InjSpec

=============================================================================
