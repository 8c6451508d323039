--------------------------- MODULE ContextInjection ---------------------------
(***************************************************************************)
(* Ellie puts memories that fit the talk into a room.  One worker goes     *)
(* through the messages of all rooms in the order of their time; where it  *)
(* stands it knows in memory only.  For a message in a room without a      *)
(* recent injection it searches memories, leaves out those that the room's *)
(* ledger has, writes the others as one message, and then enters each in   *)
(* the ledger: a transaction for each step, none of which is tried again.  *)
(***************************************************************************)
EXTENDS Naturals, Sequences, FiniteSets

CONSTANTS
    TalkRoom, Recalled,    \* rooms, and memories that a search may find
    CooldownMessages,
    InjectionBatch,        \* the most messages that the worker lists
    MaxItems,              \* the most memories in one injection
    MaxTalk,               \* bound: messages in all
    MaxInjectionFaults     \* bound: steps that fail and restarts

ASSUME InjectionAssumption ==
    /\ CooldownMessages \in Nat \ {0} /\ MaxTalk \in Nat /\ MaxInjectionFaults \in Nat
    /\ InjectionBatch \in Nat \ {0} /\ MaxItems \in Nat \ {0}

VARIABLES
    talk,       \* chat_messages, in the order of created_at
    ledger,     \* context_injections
    lookedAt,   \* the last message that the worker looked at, or 0
    injector,   \* what the worker is doing
    broken      \* steps that failed and restarts so far

injVars == <<talk, ledger, lookedAt, injector, broken>>

\* What a message shows: an injection shows memories, any other message none.
TalkEntry == [room : TalkRoom, shows : SUBSET Recalled]

IsInjection(p) == talk[p].shows # {}

Dozing == [pc |-> "idle"]

\* The worker is to look at the messages `todo', and has picked memories for the last it looked at.
InjectorState ==
    {Dozing} \cup [pc : {"look"}, todo : SUBSET Nat]
    \cup [pc : {"search", "create", "record"}, todo : SUBSET Nat, picked : SUBSET Recalled]

InjInit ==
    /\ talk = <<>> /\ ledger = {} /\ lookedAt = 0 /\ injector = Dozing /\ broken = 0

-----------------------------------------------------------------------------
(* Mutants *)

\* The cooldown counts one message less.
CooledAtLimit(r) == \A p \in 1 .. Len(talk) :
    talk[p].room = r /\ IsInjection(p) =>
        Cardinality({q \in p + 1 .. Len(talk) : talk[q].room = r}) >= CooldownMessages

\* The search does not ask the ledger of the room.
FitAny(r) == Recalled

-----------------------------------------------------------------------------
(* RunOnce *)

InPass(pc) == injector.pc = pc

Here == talk[lookedAt].room

\* The messages after the cursor that are no injections.
Ahead == {p \in lookedAt + 1 .. Len(talk) : ~ IsInjection(p)}

Looking(todo) == [pc |-> "look", todo |-> todo]

\* ListPendingMessagesSince
ListMessages ==
    /\ InPass("idle") /\ Ahead # {}
    /\ injector' = Looking({p \in Ahead : Cardinality({q \in Ahead : q <= p}) <= InjectionBatch})
    /\ UNCHANGED <<talk, ledger, lookedAt, broken>>

\* CountMessagesSinceLastContextInjection is above the cooldown, or there was no injection.
Cooled(r) == \A p \in 1 .. Len(talk) :
    talk[p].room = r /\ IsInjection(p) =>
        Cardinality({q \in p + 1 .. Len(talk) : talk[q].room = r}) > CooldownMessages

\* The worker notes the message before it does anything about it.
LookAt ==
    /\ InPass("look")
    /\ \E p \in injector.todo :
        /\ \A q \in injector.todo : p <= q
        /\ lookedAt' = p
        /\ LET rest == injector.todo \ {p} IN
            injector' = IF Cooled(talk[p].room)
                        THEN [pc |-> "search", todo |-> rest, picked |-> {}] ELSE Looking(rest)
    /\ UNCHANGED <<talk, ledger, broken>>

EndPass ==
    /\ InPass("look") /\ injector.todo = {}
    /\ injector' = Dozing
    /\ UNCHANGED <<talk, ledger, lookedAt, broken>>

\* WasInjectedSinceCompaction: nothing in the program sets last_compacted_at.
Fit(r) == {k \in Recalled : <<r, k>> \notin ledger}

\* SearchMemoryCandidatesByEmbedding and BuildBundle.
Search ==
    /\ InPass("search")
    /\ \E picked \in SUBSET Fit(Here) :
        /\ Cardinality(picked) <= MaxItems
        /\ injector' = IF picked = {} THEN Looking(injector.todo)
                       ELSE [injector EXCEPT !.pc = "create", !.picked = picked]
    /\ UNCHANGED <<talk, ledger, lookedAt, broken>>

CreateInjectionMessage ==
    /\ InPass("create")
    /\ talk' = Append(talk, [room |-> Here, shows |-> injector.picked])
    /\ injector' = [injector EXCEPT !.pc = "record"]
    /\ UNCHANGED <<ledger, lookedAt, broken>>

RecordInjection ==
    /\ InPass("record")
    /\ \E k \in injector.picked :
        /\ ledger' = ledger \cup {<<Here, k>>}
        /\ injector' = IF injector.picked = {k} THEN Looking(injector.todo)
                       ELSE [injector EXCEPT !.picked = @ \ {k}]
    /\ UNCHANGED <<talk, lookedAt, broken>>

InjectorStep ==
    ListMessages \/ LookAt \/ EndPass \/ Search \/ CreateInjectionMessage \/ RecordInjection

-----------------------------------------------------------------------------
(* Around it *)

\* Somebody writes a message; there is room for an injection under way.
Say(r) ==
    /\ Len(talk) < MaxTalk - (IF InPass("create") \/ InPass("search") THEN 1 ELSE 0)
    /\ talk' = Append(talk, [room |-> r, shows |-> {}])
    /\ UNCHANGED <<ledger, lookedAt, injector, broken>>

Break == broken < MaxInjectionFaults /\ broken' = broken + 1

\* A step fails: the run ends, and the next one goes on after the message.
InjectorFails ==
    /\ ~ InPass("idle") /\ Break
    /\ injector' = Dozing
    /\ UNCHANGED <<talk, ledger, lookedAt>>

\* The server restarts: the worker starts at the first message there is.
InjectorRestarts ==
    /\ Break
    /\ injector' = Dozing /\ lookedAt' = 0
    /\ UNCHANGED <<talk, ledger>>

InjNext ==
    \/ InjectorStep
    \/ \E r \in TalkRoom : Say(r)
    \/ InjectorFails \/ InjectorRestarts

InjSpec == InjInit /\ [][InjNext]_injVars

-----------------------------------------------------------------------------
(* Properties *)

InjTypeOK ==
    /\ talk \in Seq(TalkEntry) /\ ledger \subseteq TalkRoom \X Recalled
    /\ lookedAt \in 0 .. Len(talk) /\ injector \in InjectorState /\ broken \in Nat

InjectionsOf(r, k) == {p \in 1 .. Len(talk) : talk[p].room = r /\ k \in talk[p].shows}

\* More than CooldownMessages messages lie between two injections in a room, also when the
\* worker goes through the history again.
Spaced ==
    \A p, q \in 1 .. Len(talk) :
        p < q /\ IsInjection(p) /\ IsInjection(q) /\ talk[p].room = talk[q].room =>
            Cardinality({x \in p + 1 .. q - 1 : talk[x].room = talk[p].room}) > CooldownMessages

\* A room is shown a memory again only if the worker was stopped between the message and the
\* ledger: as often as that happened.
ShownOnce ==
    \A r \in TalkRoom, k \in Recalled :
        /\ Cardinality(InjectionsOf(r, k)) <= 1 + broken
        /\ <<r, k>> \in ledger => InjectionsOf(r, k) # {}

InjectionsAreSound == Spaced /\ ShownOnce
=============================================================================
