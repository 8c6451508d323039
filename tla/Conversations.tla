----------------------------- MODULE Conversations ----------------------------
(***************************************************************************)
(* What the background workers make of the table chat_messages.  The       *)
(* segmentation worker lists messages without a conversation, cuts them    *)
(* where the room changes or was silent for long, and writes one           *)
(* conversation per segment; the embedding worker lists messages without   *)
(* an embedding, has them embedded together and stores the vectors one by  *)
(* one; the token backfill counts messages that were there before token    *)
(* counting.  A trigger on the table keeps the totals of rooms and         *)
(* conversations, whoever writes.  Messages come live or by the import of  *)
(* a history, whose messages have stable identifiers; a reset deletes all. *)
(* Every message counts as one token.                                      *)
(***************************************************************************)
EXTENDS Naturals, FiniteSets, FiniteSetsExt

CONSTANTS
    RoomOf,          \* the room of each message; messages are numbered by the time they bear
    Old,             \* messages that were there before their tokens were counted
    FromHistory,     \* messages that are imported, and may be imported again
    FromWorker,      \* context injections, which carry the conversation they answer
    AgentRoom,       \* rooms with an agent, for which there are context injections
    Segmenter,       \* segmentation workers (one per server)
    GapThreshold,    \* the longest silence within a conversation
    SegmentBatch,    \* the most messages that a segmentation lists
    BackfillBatch,      \* the most messages that a backfill counts
    EmbedBatch,      \* the most messages that are embedded together
    Unembeddable,    \* messages that the embedder refuses
    MaxReimports,    \* bound: imports of a message that is there
    MaxWipes         \* bound: resets

ChatMessage == DOMAIN RoomOf

ChatRoom == {RoomOf[m] : m \in ChatMessage}

ASSUME ConversationAssumption ==
    /\ ChatMessage \subseteq Nat \ {0} /\ IsFiniteSet(ChatMessage)
    /\ ChatRoom \subseteq Nat \ {0} /\ AgentRoom \subseteq ChatRoom
    /\ Old \subseteq ChatMessage /\ FromHistory \subseteq ChatMessage
    /\ FromWorker \subseteq ChatMessage /\ Unembeddable \subseteq ChatMessage
    /\ GapThreshold \in Nat /\ MaxReimports \in Nat /\ MaxWipes \in Nat
    /\ SegmentBatch \in Nat \ {0} /\ BackfillBatch \in Nat \ {0} /\ EmbedBatch \in Nat \ {0}

VARIABLES
    chat,        \* the messages in the table
    talkOf,      \* per message: its conversation_id, or 0
    counted,     \* messages with a token_count
    embedded,    \* messages with an embedding
    talkRoom,    \* per conversation: its room, or 0 if there is no such conversation
    roomTotal,   \* per room: total_tokens
    talkTotal,   \* per conversation: total_tokens
    toSegment,   \* per segmenter: what is left of the messages that it listed
    toEmbed,     \* messages whose vectors the embedding worker holds
    importedTwice, \* rooms that an import of messages that were there has met
    spent        \* of the bounds

convVars == <<chat, talkOf, counted, embedded, talkRoom, roomTotal, talkTotal, toSegment,
              toEmbed, importedTwice, spent>>

\* There are never more conversations than messages.
Talk == 1 .. Cardinality(ChatMessage)

\* The first k of a set, in the order of created_at.
Earliest(k, S) == {m \in S : Cardinality({n \in S : n <= m}) <= k}

\* Old messages may be in the table, and some of them in a conversation.
ConvInit ==
    /\ chat \in SUBSET Old
    /\ \E inTalk \in SUBSET chat :
        /\ \A m, n \in inTalk : RoomOf[m] = RoomOf[n]
        /\ talkOf = [m \in ChatMessage |-> IF m \in inTalk THEN 1 ELSE 0]
        /\ talkRoom = [c \in Talk |->
                        IF c = 1 /\ inTalk # {} THEN RoomOf[CHOOSE m \in inTalk : TRUE] ELSE 0]
    /\ counted = {} /\ embedded = {}
    /\ roomTotal = [r \in ChatRoom |-> 0] /\ talkTotal = [c \in Talk |-> 0]
    /\ toSegment = [w \in Segmenter |-> {}]
    /\ toEmbed = {} /\ importedTwice = {}
    /\ spent = [reimports |-> 0, wipes |-> 0]

-----------------------------------------------------------------------------
(* Mutants *)

\* An update that assigns a conversation adds to it what the count grew by, as for the room.
TalkGainsGrowth(S, talk, c) == {m \in S \ counted : talk[m] = c}

\* A conversation is committed although the update assigned no message to it.
AnyAssigned(rows) == TRUE

\* A segmentation that fails keeps its list.
KeptAfterFailure(w) == toSegment[w]

-----------------------------------------------------------------------------
(* otter_chat_messages_token_rollup *)

\* The trigger when a row is inserted, with a conversation or without (0).
CountsInserted(m, c) ==
    /\ roomTotal' = [roomTotal EXCEPT ![RoomOf[m]] = @ + 1]
    /\ talkTotal' = [d \in Talk |-> talkTotal[d] + IF d = c THEN 1 ELSE 0]

\* The messages of S that add their tokens to a conversation when an update gives S the
\* conversations of talk.
TalkGains(S, talk, c) == {m \in S : talk[m] = c /\ (talkOf[m] # c \/ m \notin counted)}

\* The trigger when the rows of S are updated: whatever the update was for, it counts a row
\* that was not counted.
CountsUpdated(S, talk) ==
    /\ counted' = counted \cup S
    /\ roomTotal' = [r \in ChatRoom |->
                        roomTotal[r] + Cardinality({m \in S \ counted : RoomOf[m] = r})]
    /\ talkTotal' = [c \in Talk |-> talkTotal[c] + Cardinality(TalkGains(S, talk, c))]

-----------------------------------------------------------------------------
(* Messages *)

\* The conversations that m may carry when it is written.
Answered(m) == {talkOf[n] : n \in {n \in chat : m \in FromWorker /\ RoomOf[n] = RoomOf[m]}}

\* A message is written, by a handler, a worker or an import.
Write(m) ==
    /\ m \notin chat
    /\ \E c \in {0} \cup Answered(m) :
        /\ talkOf' = [talkOf EXCEPT ![m] = c]
        /\ CountsInserted(m, c)
    /\ chat' = chat \cup {m} /\ counted' = counted \cup {m}
    /\ UNCHANGED <<embedded, talkRoom, toSegment, toEmbed, importedTwice, spent>>

\* The import writes a message that is there: ON CONFLICT (id) DO NOTHING, after the trigger
\* has run.
WriteAgain(m) ==
    /\ m \in chat \cap FromHistory
    /\ spent.reimports < MaxReimports /\ spent' = [spent EXCEPT !.reimports = @ + 1]
    /\ CountsInserted(m, 0)
    /\ importedTwice' = importedTwice \cup {RoomOf[m]}
    /\ UNCHANGED <<chat, talkOf, counted, embedded, talkRoom, toSegment, toEmbed>>

\* The reset of the migration deletes messages, conversations and rooms; a room that comes
\* later is a new one, and a segmentation under way fails at the room it knew.
Wipe ==
    /\ chat # {}
    /\ spent.wipes < MaxWipes /\ spent' = [spent EXCEPT !.wipes = @ + 1]
    /\ chat' = {} /\ counted' = {} /\ embedded' = {} /\ importedTwice' = {}
    /\ talkOf' = [m \in ChatMessage |-> 0] /\ talkRoom' = [c \in Talk |-> 0]
    /\ roomTotal' = [r \in ChatRoom |-> 0] /\ talkTotal' = [c \in Talk |-> 0]
    /\ toSegment' = [w \in Segmenter |-> {}]
    /\ toEmbed' = toEmbed \cap FromHistory

\* BackfillMissingTokenCounts: one statement.
Backfill ==
    LET batch == Earliest(BackfillBatch, chat \ counted) IN
    /\ batch # {}
    /\ CountsUpdated(batch, talkOf)
    /\ UNCHANGED <<chat, talkOf, embedded, talkRoom, toSegment, toEmbed, importedTwice, spent>>

-----------------------------------------------------------------------------
(* Segmentation *)

Unassigned == {m \in chat : talkOf[m] = 0}

\* The order of room_id, created_at.
Precedes(m, n) == RoomOf[m] < RoomOf[n] \/ (RoomOf[m] = RoomOf[n] /\ m < n)

ListPending(w) ==
    /\ toSegment[w] = {} /\ Unassigned # {}
    /\ toSegment' = [toSegment EXCEPT ![w] =
            {m \in Unassigned :
                Cardinality({n \in Unassigned : Precedes(n, m)}) < SegmentBatch}]
    /\ UNCHANGED <<chat, talkOf, counted, embedded, talkRoom, roomTotal, talkTotal, toEmbed,
                   importedTwice, spent>>

\* The messages before m in its room and in S, and whether m follows one of them closely.
Follows(m, S) == \E n \in S : RoomOf[n] = RoomOf[m] /\ n < m /\ m - n <= GapThreshold

\* The first segment of S: the messages of the first room up to the first long silence.
Segment(S) ==
    LET room == {m \in S : \A n \in S : RoomOf[m] <= RoomOf[n]} IN
    {m \in room : \A n \in room : n <= m /\ (\E p \in room : p < n) => Follows(n, room)}

SomeAssigned(rows) == rows # {}

AfterFailure(w) == {}

\* CreateConversationSegment: the messages of the segment that still have none get a new
\* conversation; if there are none it is rolled back, and the run ends.
CreateSegment(w) ==
    LET segment == Segment(toSegment[w])  rows == segment \cap Unassigned IN
    /\ toSegment[w] # {}
    /\ \/ /\ SomeAssigned(rows)
          /\ \E c \in {c \in Talk : talkRoom[c] = 0 /\ \A d \in 1 .. c - 1 : talkRoom[d] # 0} :
                LET talk == [m \in ChatMessage |-> IF m \in rows THEN c ELSE talkOf[m]] IN
                /\ talkOf' = talk
                /\ talkRoom' = [talkRoom EXCEPT ![c] = RoomOf[CHOOSE m \in segment : TRUE]]
                /\ CountsUpdated(rows, talk)
          /\ toSegment' = [toSegment EXCEPT ![w] = @ \ segment]
       \/ /\ ~ SomeAssigned(rows)
          /\ toSegment' = [toSegment EXCEPT ![w] = AfterFailure(w)]
          /\ UNCHANGED <<talkOf, talkRoom, counted, roomTotal, talkTotal>>
    /\ UNCHANGED <<chat, embedded, toEmbed, importedTwice, spent>>

SegmentStep(w) == ListPending(w) \/ CreateSegment(w)

-----------------------------------------------------------------------------
(* Embedding *)

PendingEmbeddings == Earliest(EmbedBatch, chat \ embedded)

\* The embedder takes a batch as a whole or refuses it as a whole.
EmbedBatchNow ==
    /\ toEmbed = {} /\ PendingEmbeddings # {} /\ PendingEmbeddings \cap Unembeddable = {}
    /\ toEmbed' = PendingEmbeddings
    /\ UNCHANGED <<chat, talkOf, counted, embedded, talkRoom, roomTotal, talkTotal, toSegment,
                   importedTwice, spent>>

\* UpdateChatMessageEmbedding, for the messages of the batch in their order.
StoreEmbedding ==
    /\ toEmbed # {}
    /\ LET m == Min(toEmbed)  row == {m} \cap chat IN
        /\ toEmbed' = toEmbed \ {m}
        /\ embedded' = embedded \cup row
        /\ CountsUpdated(row, talkOf)
    /\ UNCHANGED <<chat, talkOf, talkRoom, toSegment, importedTwice, spent>>

\* UpdateMessageEmbedding: the injection worker embeds a message that it looks at.
EmbedOne(m) ==
    /\ m \in chat \ (embedded \cup Unembeddable \cup FromWorker) /\ RoomOf[m] \in AgentRoom
    /\ embedded' = embedded \cup {m}
    /\ CountsUpdated({m}, talkOf)
    /\ UNCHANGED <<chat, talkOf, talkRoom, toSegment, toEmbed, importedTwice, spent>>

EmbedStep == EmbedBatchNow \/ StoreEmbedding

ConvNext ==
    \/ \E m \in ChatMessage : Write(m) \/ WriteAgain(m) \/ EmbedOne(m)
    \/ Wipe
    \/ Backfill
    \/ \E w \in Segmenter : SegmentStep(w)
    \/ EmbedStep

ConvSpec == ConvInit /\ [][ConvNext]_convVars

-----------------------------------------------------------------------------
(* Properties *)

ConvTypeOK ==
    /\ chat \subseteq ChatMessage /\ counted \subseteq chat /\ embedded \subseteq chat
    /\ talkOf \in [ChatMessage -> Talk \cup {0}]
    /\ talkRoom \in [Talk -> ChatRoom \cup {0}]
    /\ roomTotal \in [ChatRoom -> Nat] /\ talkTotal \in [Talk -> Nat]
    /\ toSegment \in [Segmenter -> SUBSET ChatMessage]
    /\ toEmbed \subseteq ChatMessage /\ importedTwice \subseteq ChatRoom
    /\ spent \in [{"reimports", "wipes"} -> Nat]

Members(c) == {m \in chat : talkOf[m] = c}

\* A conversation has messages, all of its room, and a message is in one that is there.
SegmentsAreSound ==
    /\ \A c \in Talk : talkRoom[c] # 0 => Members(c) # {}
    /\ \A m \in ChatMessage : talkOf[m] # 0 => m \in chat /\ talkRoom[talkOf[m]] = RoomOf[m]

\* Writers update the same rows, most of them for another reason than counting: each
\* message is in the totals of its room and of its conversation once.  A room's total is too
\* high where a history was imported again.
TotalsAreTrue ==
    /\ \A r \in ChatRoom \ importedTwice :
        roomTotal[r] = Cardinality({m \in counted : RoomOf[m] = r})
    /\ \A c \in Talk : talkTotal[c] = Cardinality(counted \cap Members(c))

ConversationsAreSound == SegmentsAreSound /\ TotalsAreTrue

\* Every message comes to be counted and in a conversation, whether or not the embedder refuses
\* another; and it is embedded, unless a batch before it or its own is refused.
AllWorkedOff ==
    /\ chat \subseteq counted /\ Unassigned = {}
    /\ PendingEmbeddings # {} => PendingEmbeddings \cap Unembeddable # {}

EventuallyWorkedOff == []<>AllWorkedOff
=============================================================================
