------------------------------ MODULE BackendProofs ---------------------------
(***************************************************************************)
(* Proofs about the parts of the server that share no state, together.     *)
(* First those of two parts: ExecApprovals, one decision for any number of *)
(* people who answer at the same time; and Hub, which no number of slow,   *)
(* leaving or broken browsers make panic.  Then the whole: every property  *)
(* that is proved of a part holds in the behaviours of MCBackend.          *)
(***************************************************************************)
EXTENDS MCBackend, IssueProofs, MemoryProofs, RepositoryProofs, SequenceTheorems, TLAPS

-----------------------------------------------------------------------------
(* ExecApprovals *)

RespondState == {NoRespond} \cup [pc : {"post", "record"}, d : Decision]

\* A call that is about to record has had its decision heard, if there is anybody to hear it.
HeardFirst ==
    hasCallback => \A c \in Responder : responder[c].pc = "record" => responder[c].d \in heard

ExecInv == ExecTypeOK /\ DecisionIsShared /\ HeardFirst

LEMMA ExecInitInv == ExecInit => ExecInv
<1> SUFFICES ASSUME ExecInit PROVE ExecInv
    OBVIOUS
<1>1. ExecTypeOK
    BY RespondsAssumption DEF ExecInit, ExecTypeOK
<1>2. DecisionIsShared /\ HeardFirst
    BY DEF ExecInit, DecisionIsShared, OneDecision, RecordedIsHeard, HeardFirst, StatusOf, NoRespond
<1> QED BY <1>1, <1>2 DEF ExecInv

LEMMA ResponderFields ==
    ASSUME ExecTypeOK, NEW c \in Responder
    PROVE  /\ responder[c].pc \in {"post", "record"} => responder[c].d \in Decision
           /\ responder[c].pc = "post" =>
                [responder[c] EXCEPT !.pc = "record"] = [pc |-> "record", d |-> responder[c].d]
BY DEF ExecTypeOK, NoRespond

\* A call goes on as r and decides nothing.
LEMMA RespondGoes ==
    ASSUME ExecInv, NEW c \in Responder, NEW r \in RespondState,
           responder' = [responder EXCEPT ![c] = r],
           UNCHANGED <<approval, hasCallback, told>>, responds' \in 0 .. MaxResponds,
           heard \subseteq heard', heard' \subseteq Decision,
           hasCallback /\ r.pc = "record" => r.d \in heard'
    PROVE  ExecInv'
<1>1. responder' \in [Responder -> RespondState]
    BY DEF ExecInv, ExecTypeOK, RespondState
<1>2. ExecTypeOK'
    BY <1>1 DEF ExecInv, ExecTypeOK, RespondState
<1>3. DecisionIsShared'
    BY DEF ExecInv, DecisionIsShared, OneDecision, RecordedIsHeard
<1>4. \A d \in Responder : responder'[d] = IF d = c THEN r ELSE responder[d]
    BY DEF ExecInv, ExecTypeOK
<1>5. HeardFirst'
    BY <1>4 DEF ExecInv, HeardFirst
<1> QED BY <1>2, <1>3, <1>5 DEF ExecInv

LEMMA ExecStep == ExecInv /\ [ExecNext]_execVars => ExecInv'
<1> SUFFICES ASSUME ExecInv, [ExecNext]_execVars PROVE ExecInv'
    OBVIOUS
<1>1. ExecTypeOK
    BY DEF ExecInv
<1>2. CASE RequestComes
    <2>1. approval' = approval \/ (approval = "none" /\ approval' = "pending")
        BY <1>2 DEF RequestComes, Requested
    <2>2. UNCHANGED <<hasCallback, heard, told, responder, responds>>
        BY <1>2 DEF RequestComes
    <2>3. ExecTypeOK'
        BY <2>1, <2>2 DEF ExecInv, ExecTypeOK
    <2>4. \A d \in Decision : approval' = StatusOf(d) <=> approval = StatusOf(d)
        BY <2>1 DEF StatusOf
    <2> QED BY <2>2, <2>3, <2>4 DEF ExecInv, DecisionIsShared, OneDecision, RecordedIsHeard, HeardFirst
<1>3. ASSUME NEW c \in Responder, RespondRead(c) PROVE ExecInv'
    <2>1. PICK d \in Decision : responder' = [responder EXCEPT ![c] = [pc |-> AfterRead, d |-> d]]
        BY <1>3 DEF RespondRead
    <2>2. [pc |-> AfterRead, d |-> d] \in RespondState /\ (hasCallback => AfterRead = "post")
        BY DEF AfterRead, RespondState
    <2>3. responds' \in 0 .. MaxResponds
        BY <1>1, <1>3, RespondsAssumption DEF RespondRead, ExecTypeOK
    <2>4. UNCHANGED <<approval, hasCallback, heard, told>> /\ heard \subseteq Decision
        BY <1>1, <1>3 DEF RespondRead, ExecTypeOK
    <2> QED BY <2>1, <2>2, <2>3, <2>4, RespondGoes
<1>4. ASSUME NEW c \in Responder, PostCallback(c) PROVE ExecInv'
    <2> DEFINE on == [pc |-> "record", d |-> responder[c].d]
    <2>1. responder[c].pc = "post" /\ UNCHANGED <<hasCallback, responds, approval, told>>
        BY <1>4 DEF PostCallback, Responding
    <2>2. responder[c].d \in Decision /\ [responder[c] EXCEPT !.pc = "record"] = on
        BY <1>1, <2>1, ResponderFields
    <2>3. on \in RespondState /\ NoRespond \in RespondState /\ NoRespond.pc # "record"
        BY <2>2 DEF RespondState, NoRespond
    <2>4. \/ /\ heard' = heard \cup {responder[c].d}
             /\ responder' = [responder EXCEPT ![c] = on] \/ responder' = [responder EXCEPT ![c] = NoRespond]
          \/ heard' = heard /\ responder' = [responder EXCEPT ![c] = NoRespond]
        BY <1>4, <2>2 DEF PostCallback
    <2>5. heard \subseteq heard' /\ heard' \subseteq Decision /\ responds' \in 0 .. MaxResponds
        BY <1>1, <2>1, <2>2, <2>4 DEF ExecTypeOK
    <2>6. CASE responder' = [responder EXCEPT ![c] = NoRespond]
        BY <2>1, <2>3, <2>5, <2>6, RespondGoes
    <2>7. CASE heard' = heard \cup {responder[c].d} /\ responder' = [responder EXCEPT ![c] = on]
        <3>1. on.pc = "record" /\ on.d \in heard'
            BY <2>7
        <3> HIDE DEF on
        <3> QED BY <2>1, <2>3, <2>5, <2>7, <3>1, RespondGoes
    <2> QED BY <2>4, <2>6, <2>7
<1>5. ASSUME NEW c \in Responder, RespondAborts(c) \/ (RecordDecision(c) /\ ~Undecided) PROVE ExecInv'
    <2>1. /\ responder' = [responder EXCEPT ![c] = NoRespond]
          /\ UNCHANGED <<approval, hasCallback, heard, told, responds>>
        BY <1>5 DEF RespondAborts, RecordDecision, Responding
    <2>2. NoRespond \in RespondState /\ NoRespond.pc # "record"
        BY DEF RespondState, NoRespond
    <2> QED BY <1>1, <2>1, <2>2, RespondGoes DEF ExecTypeOK
<1>6. ASSUME NEW c \in Responder, RecordDecision(c), Undecided PROVE ExecInv'
    <2> DEFINE d == responder[c].d
    <2>1. /\ responder[c].pc = "record" /\ approval = "pending" /\ approval' = StatusOf(d)
          /\ told' = told \/ told' = [told EXCEPT ![d] = @ + 1]
          /\ responder' = [responder EXCEPT ![c] = NoRespond]
          /\ UNCHANGED <<hasCallback, heard, responds>>
        BY <1>6 DEF RecordDecision, Responding, Undecided
    <2>2. d \in Decision
        BY <1>1, <2>1, ResponderFields
    <2>3. \A e \in Decision : told[e] = 0
        BY <1>1, <2>1 DEF ExecInv, DecisionIsShared, OneDecision, StatusOf, ExecTypeOK
    <2>4. told' \in [Decision -> Nat] /\ \A e \in Decision : told'[e] <= IF e = d THEN 1 ELSE 0
        BY <1>1, <2>1, <2>2, <2>3 DEF ExecTypeOK
    <2>5. \A e \in Decision : approval' = StatusOf(e) <=> e = d
        BY <2>1, <2>2 DEF StatusOf, Decision
    <2>6. ExecTypeOK'
        <3>1. approval' \in {"approved", "denied"}
            BY <2>1 DEF StatusOf
        <3>2. responder' \in [Responder -> {NoRespond} \cup [pc : {"post", "record"}, d : Decision]]
            BY <1>1, <2>1 DEF ExecTypeOK
        <3> QED BY <1>1, <2>1, <2>4, <3>1, <3>2 DEF ExecTypeOK
    <2>7. HeardFirst'
        BY <1>1, <2>1 DEF ExecInv, HeardFirst, ExecTypeOK, NoRespond
    <2>8. hasCallback => d \in heard
        BY <2>1 DEF ExecInv, HeardFirst
    <2>9. DecisionIsShared'
        <3> HIDE DEF d
        <3>1. OneDecision'
            BY <2>4, <2>5 DEF OneDecision
        <3>2. RecordedIsHeard'
            BY <2>1, <2>5, <2>8 DEF RecordedIsHeard
        <3> QED BY <3>1, <3>2 DEF DecisionIsShared
    <2> QED BY <2>6, <2>7, <2>9 DEF ExecInv
<1>7. CASE UNCHANGED execVars
    BY <1>7 DEF execVars, ExecInv, ExecTypeOK, DecisionIsShared, OneDecision, RecordedIsHeard, HeardFirst
<1> QED BY <1>2, <1>3, <1>4, <1>5, <1>6, <1>7 DEF ExecNext

\* For any number of people who answer a request at the same time, one decision is recorded and no
\* other is broadcast, and with a callback the agent heard it before.
THEOREM DecisionShared == ExecSpec => []DecisionIsShared
<1>1. ExecInv => DecisionIsShared
    BY DEF ExecInv
<1> QED BY <1>1, ExecInitInv, ExecStep, PTL DEF ExecSpec

\* The approval, its answers and the people who give them keep their types.
THEOREM ExecTypes == ExecSpec => []ExecTypeOK
<1>1. ExecInv => ExecTypeOK
    BY DEF ExecInv
<1> QED BY <1>1, ExecInitInv, ExecStep, PTL DEF ExecSpec

-----------------------------------------------------------------------------
(* The types of Hub *)

LEMMA HubTypeInit == HubInit => HubTypeOK
<1> SUFFICES ASSUME HubInit PROVE HubTypeOK
    OBVIOUS
<1>1. /\ sends \in [Browser -> Seq(1 .. MaxMessages)] /\ written \in [Browser -> Seq(1 .. MaxMessages)]
      /\ \A c \in Browser : Len(sends[c]) <= BufferSize
    BY HubAssumption DEF HubInit
<1>2. messages \in Seq(BOOLEAN) /\ Len(messages) <= MaxMessages
    BY HubAssumption DEF HubInit
<1> QED BY <1>1, <1>2 DEF HubInit, HubTypeOK, Waiting

\* What keeps a channel from being closed twice or sent to when it is closed: the goroutine goes
\* through clients of the map only, and none of them is shut.
ShutInv ==
    /\ panics = {}
    /\ clients \cap shut = {} /\ loop.todo \subseteq clients
    /\ loop.todo # {} => messages # <<>>
    /\ \A c \in Browser : reader[c] = "new" =>
            c \notin clients \cup shut /\ sends[c] = <<>> /\ written[c] = <<>>

HubSafe == HubTypeOK /\ ShutInv

LEMMA HubSafeInit == HubInit => HubSafe
BY HubTypeInit DEF HubInit, HubSafe, ShutInv, Waiting

LEMMA DeliverSafe ==
    ASSUME HubSafe, NEW c \in Browser, Deliver(c)
    PROVE  HubSafe'
<1> DEFINE n == Len(messages)
<1>1. c \in clients /\ c \notin shut /\ messages # <<>>
    BY DEF HubSafe, ShutInv, Deliver
<1>2. n \in 1 .. MaxMessages
    <2>1. messages \in Seq(BOOLEAN) /\ Len(messages) <= MaxMessages
        BY DEF HubSafe, HubTypeOK
    <2>2. n \in Nat \ {0}
        BY <1>1, <2>1, EmptySeq
    <2> QED BY <2>1, <2>2, HubAssumption
<1>3. loop' = [loop EXCEPT !.todo = @ \ {c}] /\ UNCHANGED <<messages, level, reader, writer, dead, written>>
    BY DEF Deliver, pumpVars
<1>4. /\ loop'.todo = loop.todo \ {c} /\ loop' \in [at : {"select", "deliver"}, todo : SUBSET Browser]
    BY <1>3 DEF HubSafe, HubTypeOK
<1>5. \/ UNCHANGED <<clients, sends, shut, panics>>
      \/ HasPlace(c) /\ SendTo(c, n)
      \/ Overflow(c) /\ UNCHANGED sends
    BY <1>1 DEF Deliver
<1>6. CASE UNCHANGED <<clients, sends, shut, panics>>
    BY <1>3, <1>4, <1>6 DEF HubSafe, HubTypeOK, ShutInv
<1>7. CASE HasPlace(c) /\ SendTo(c, n)
    <2>1. sends' = [sends EXCEPT ![c] = Append(@, n)] /\ UNCHANGED <<clients, shut, panics>>
        BY <1>1, <1>7 DEF SendTo
    <2>2. sends[c] \in Seq(1 .. MaxMessages) /\ Len(sends[c]) < BufferSize
        BY <1>7 DEF HubSafe, HubTypeOK, HasPlace
    <2>3. Append(sends[c], n) \in Seq(1 .. MaxMessages) /\ Len(Append(sends[c], n)) <= BufferSize
        BY <1>2, <2>2, HubAssumption
    <2>4. sends' \in [Browser -> Seq(1 .. MaxMessages)] /\ \A d \in Browser : Len(sends'[d]) <= BufferSize
        BY <2>1, <2>3 DEF HubSafe, HubTypeOK
    <2>5. \A d \in Browser : reader[d] = "new" => d # c /\ sends'[d] = sends[d]
        BY <1>1, <2>1 DEF HubSafe, HubTypeOK, ShutInv
    <2> QED BY <1>3, <1>4, <2>1, <2>4, <2>5 DEF HubSafe, HubTypeOK, ShutInv
<1>8. CASE Overflow(c) /\ UNCHANGED sends
    <2>1. clients' = clients \ {c} /\ shut' = shut \cup {c} /\ panics' = panics
        BY <1>1, <1>8 DEF Overflow, CloseSend
    <2> QED BY <1>1, <1>3, <1>4, <1>8, <2>1 DEF HubSafe, HubTypeOK, ShutInv
<1> QED BY <1>5, <1>6, <1>7, <1>8

LEMMA HubStepSafe ==
    ASSUME HubSafe, HubStep \/ \E topic \in BOOLEAN : Broadcast(topic)
    PROVE  HubSafe'
<1>1. CASE Delivered
    BY <1>1 DEF Delivered, Waiting, pumpVars, HubSafe, HubTypeOK, ShutInv
<1>2. ASSUME NEW c \in Browser, Register(c) PROVE HubSafe'
    BY <1>2 DEF Register, HubSafe, HubTypeOK, ShutInv
<1>3. ASSUME NEW c \in Browser, Unregister(c) PROVE HubSafe'
    <2>1. loop.todo = {} /\ reader[c] = "leaving"
        BY <1>3 DEF Unregister, Selects, Waiting
    <2>2. \/ clients' = clients \ {c} /\ shut' = shut \cup {c} /\ panics' = panics
          \/ UNCHANGED <<clients, shut, panics>>
        BY <1>3 DEF Unregister, Known, CloseSend, HubSafe, ShutInv
    <2>3. /\ reader' = [reader EXCEPT ![c] = "gone"] /\ dead' = dead \cup {c}
          /\ UNCHANGED <<sends, level, writer, written, loop, messages>>
        BY <1>3 DEF Unregister
    <2>4. HubTypeOK'
        BY <2>2, <2>3 DEF HubSafe, HubTypeOK
    <2>5. ShutInv'
        BY <2>1, <2>2, <2>3 DEF HubSafe, HubTypeOK, ShutInv
    <2> QED BY <2>4, <2>5 DEF HubSafe
<1>4. ASSUME NEW topic \in BOOLEAN, Broadcast(topic) PROVE HubSafe'
    <2>1. messages' \in Seq(BOOLEAN) /\ Len(messages') <= MaxMessages /\ messages' # <<>>
        <3>1. messages \in Seq(BOOLEAN) /\ Len(messages) < MaxMessages /\ messages' = Append(messages, topic)
            BY <1>4 DEF Broadcast, HubSafe, HubTypeOK
        <3>2. /\ messages' \in Seq(BOOLEAN) /\ messages' # <<>>
              /\ Len(messages') = Len(messages) + 1 /\ Len(messages) \in Nat
            BY <3>1, AppendProperties, LenProperties
        <3> QED BY <3>1, <3>2, HubAssumption
    <2>2. loop' = [at |-> "deliver", todo |-> clients] /\ UNCHANGED <<clients, sends, shut, panics, pumpVars>>
        BY <1>4 DEF Broadcast
    <2> QED BY <2>1, <2>2 DEF pumpVars, HubSafe, HubTypeOK, ShutInv
<1> QED BY <1>1, <1>2, <1>3, <1>4, DeliverSafe DEF HubStep

LEMMA PumpSafe ==
    ASSUME HubSafe, NEW c \in Browser, Subscribe(c) \/ Disconnect(c) \/ PumpStep(c)
    PROVE  HubSafe'
<1>1. CASE WriteMessage(c)
    <2>1. /\ written' = [written EXCEPT ![c] = Append(@, Head(sends[c]))]
          /\ sends' = [sends EXCEPT ![c] = Tail(@)] /\ sends[c] # <<>>
          /\ UNCHANGED <<level, reader, writer, dead, clients, shut, loop, messages, panics>>
        BY <1>1 DEF WriteMessage, mapVars
    <2>2. sends[c] \in Seq(1 .. MaxMessages) /\ written[c] \in Seq(1 .. MaxMessages) /\ Len(sends[c]) <= BufferSize
        BY DEF HubSafe, HubTypeOK
    <2>3. /\ Tail(sends[c]) \in Seq(1 .. MaxMessages) /\ Len(Tail(sends[c])) <= BufferSize
          /\ Append(written[c], Head(sends[c])) \in Seq(1 .. MaxMessages)
        <3>1. /\ Head(sends[c]) \in 1 .. MaxMessages /\ Tail(sends[c]) \in Seq(1 .. MaxMessages)
              /\ Len(Tail(sends[c])) = Len(sends[c]) - 1
            BY <2>1, <2>2, HeadTailProperties
        <3>2. Append(written[c], Head(sends[c])) \in Seq(1 .. MaxMessages)
            BY <2>2, <3>1, AppendProperties
        <3>3. Len(sends[c]) \in Nat
            BY <2>2, LenProperties
        <3> QED BY <2>2, <3>1, <3>2, <3>3, HubAssumption
    <2>4. /\ sends' \in [Browser -> Seq(1 .. MaxMessages)] /\ written' \in [Browser -> Seq(1 .. MaxMessages)]
          /\ \A d \in Browser : Len(sends'[d]) <= BufferSize
        BY <2>1, <2>3 DEF HubSafe, HubTypeOK
    <2>5. \A d \in Browser : reader[d] = "new" => sends'[d] = sends[d] /\ written'[d] = written[d]
        BY <2>1 DEF HubSafe, HubTypeOK, ShutInv
    <2> QED BY <2>1, <2>4, <2>5 DEF HubSafe, HubTypeOK, ShutInv
<1>2. CASE Subscribe(c)
    BY <1>2 DEF Subscribe, mapVars, HubSafe, HubTypeOK, ShutInv
<1>3. CASE Disconnect(c)
    BY <1>3 DEF Disconnect, mapVars, HubSafe, HubTypeOK, ShutInv
<1>4. CASE ReadFails(c)
    BY <1>4 DEF ReadFails, mapVars, HubSafe, HubTypeOK, ShutInv
<1>5. CASE WriterEnds(c)
    BY <1>5 DEF WriterEnds, mapVars, HubSafe, HubTypeOK, ShutInv
<1> QED BY <1>1, <1>2, <1>3, <1>4, <1>5 DEF PumpStep

LEMMA HubSafeStep == HubSafe /\ [HubNext]_hubVars => HubSafe'
<1>1. HubSafe /\ UNCHANGED hubVars => HubSafe'
    BY DEF hubVars, HubSafe, HubTypeOK, ShutInv
<1> QED BY <1>1, HubStepSafe, PumpSafe DEF HubNext

\* The goroutine of the hub never panics, for any number of browsers, buffers of any size and
\* however a browser's end, the hub's drop of it and a broadcast interleave.
THEOREM HubNeverPanics == HubSpec => []NeverPanics
<1>1. HubSafe => NeverPanics
    BY DEF HubSafe, ShutInv, NeverPanics
<1> QED BY <1>1, HubSafeInit, HubSafeStep, PTL DEF HubSpec

\* The buffers of the browsers keep their types and their size: a browser that does not read does not
\* make the server hold messages for it.
THEOREM HubTypes == HubSpec => []HubTypeOK
<1>1. HubSafe => HubTypeOK
    BY DEF HubSafe
<1> QED BY <1>1, HubSafeInit, HubSafeStep, PTL DEF HubSpec

-----------------------------------------------------------------------------
(* No gaps *)

\* What client c was sent, in its order.
Got(c) == written[c] \o sends[c]

\* The messages that client c has been offered: all, or all but the one that is going round.
Offered(c) == IF c \in loop.todo THEN Len(messages) - 1 ELSE Len(messages)

\* Client c got only messages that there are, in their order, and between two of them there is none
\* for the whole workspace.
Gapless(c) ==
    /\ \A i \in 1 .. Len(Got(c)) : Got(c)[i] <= Len(messages)
    /\ \A i \in 2 .. Len(Got(c)) :
        Got(c)[i - 1] < Got(c)[i] /\ \A n \in (Got(c)[i - 1] + 1) .. (Got(c)[i] - 1) : messages[n]

\* A client of the map that got something was meant by none of the messages it was offered since.
UpToDate(c) ==
    c \in clients /\ Len(Got(c)) > 0 =>
        /\ level[c] # "none" /\ Got(c)[Len(Got(c))] <= Offered(c)
        /\ \A n \in (Got(c)[Len(Got(c))] + 1) .. Offered(c) : messages[n]

GapInv == \A c \in Browser : Gapless(c) /\ UpToDate(c)

LEMMA GotType ==
    ASSUME HubTypeOK, NEW c \in Browser
    PROVE  /\ Got(c) \in Seq(1 .. MaxMessages) /\ Len(Got(c)) \in Nat
           /\ \A i \in 1 .. Len(Got(c)) : Got(c)[i] \in Nat
           /\ Len(messages) \in Nat
<1>1. written[c] \in Seq(1 .. MaxMessages) /\ sends[c] \in Seq(1 .. MaxMessages) /\ messages \in Seq(BOOLEAN)
    BY DEF HubTypeOK
<1>2. Got(c) \in Seq(1 .. MaxMessages)
    BY <1>1, ConcatProperties DEF Got
<1>3. Len(Got(c)) \in Nat /\ \A i \in 1 .. Len(Got(c)) : Got(c)[i] \in 1 .. MaxMessages
    BY <1>2, LenProperties
<1>4. Len(messages) \in Nat
    BY <1>1, LenProperties
<1> QED BY <1>2, <1>3, <1>4, HubAssumption

LEMMA GapInit == HubInit => GapInv
<1> SUFFICES ASSUME HubInit, NEW c \in Browser PROVE Gapless(c) /\ UpToDate(c)
    BY DEF GapInv
<1>1. Got(c) = <<>>
    BY ConcatEmptySeq, EmptySeq DEF HubInit, Got
<1>2. Len(Got(c)) = 0
    BY <1>1
<1> HIDE DEF Got
<1> QED BY <1>2 DEF Gapless, UpToDate

LEMMA Regroup ==
    ASSUME NEW S, NEW s \in Seq(S), NEW t \in Seq(S), NEW u \in Seq(S)
    PROVE  (s \o t) \o u = s \o (t \o u)
BY ConcatAssociative

LEMMA AppendLast ==
    ASSUME NEW S, NEW s \in Seq(S), NEW t \in Seq(S), NEW e \in S
    PROVE  s \o Append(t, e) = Append(s \o t, e)
<1>1. <<e>> \in Seq(S)
    OBVIOUS
<1>2. s \o t \in Seq(S)
    BY ConcatProperties
<1>3. Append(t, e) = t \o <<e>> /\ Append(s \o t, e) = (s \o t) \o <<e>>
    BY <1>2, AppendIsConcat
<1>4. (s \o t) \o <<e>> = s \o (t \o <<e>>)
    BY <1>1, Regroup
<1> QED BY <1>3, <1>4

\* The head of one sequence may as well be the end of the one before it.
LEMMA MoveHead ==
    ASSUME NEW S, NEW s \in Seq(S), NEW t \in Seq(S), t # <<>>
    PROVE  Append(s, Head(t)) \o Tail(t) = s \o t
<1> DEFINE h == Head(t)
           r == Tail(t)
<1>1. h \in S /\ r \in Seq(S) /\ Len(r) = Len(t) - 1 /\ \A i \in 1 .. Len(r) : r[i] = t[i + 1]
    BY HeadTailProperties
<1>2. <<h>> \in Seq(S) /\ Len(<<h>>) = 1 /\ <<h>>[1] = h
    BY <1>1
<1>3. /\ <<h>> \o r \in Seq(S) /\ Len(<<h>> \o r) = 1 + Len(r)
      /\ \A i \in 1 .. 1 + Len(r) : (<<h>> \o r)[i] = IF i <= 1 THEN <<h>>[i] ELSE r[i - 1]
    BY <1>1, <1>2, ConcatProperties
<1>4. Len(t) \in Nat /\ t \in [1 .. Len(t) -> S]
    BY LenProperties
<1>5. Len(r) \in Nat /\ h = t[1]
    BY <1>1, LenProperties
<1> HIDE DEF h, r
<1>6. \A i \in 1 .. Len(t) : (<<h>> \o r)[i] = t[i]
    <2> SUFFICES ASSUME NEW i \in 1 .. Len(t) PROVE (<<h>> \o r)[i] = t[i]
        OBVIOUS
    <2>1. i \in 1 .. 1 + Len(r)
        BY <1>1, <1>4, <1>5
    <2>2. CASE i = 1
        BY <1>2, <1>3, <1>5, <2>1, <2>2
    <2>3. CASE i # 1
        <3>1. i - 1 \in 1 .. Len(r) /\ (i - 1) + 1 = i /\ ~(i <= 1)
            BY <1>5, <2>1, <2>3
        <3>2. r[i - 1] = t[i]
            BY <1>1, <3>1
        <3> QED BY <1>3, <2>1, <3>1, <3>2
    <2> QED BY <2>2, <2>3
<1>7. <<h>> \o r \in [1 .. Len(t) -> S]
    <2>1. <<h>> \o r \in [1 .. Len(<<h>> \o r) -> S]
        BY <1>3, LenProperties
    <2>2. Len(<<h>> \o r) = Len(t)
        BY <1>1, <1>3, <1>4, <1>5
    <2> QED BY <2>1, <2>2
<1>8. t = <<h>> \o r
    <2> DEFINE u == <<h>> \o r
    <2>1. u \in [1 .. Len(t) -> S] /\ \A i \in 1 .. Len(t) : u[i] = t[i]
        BY <1>6, <1>7
    <2> HIDE DEF u
    <2>2. t = u
        BY <1>4, <2>1
    <2> QED BY <2>2 DEF u
<1>9. Append(s, h) = s \o <<h>>
    BY <1>1, AppendIsConcat
<1>10. (s \o <<h>>) \o r = s \o (<<h>> \o r)
    BY <1>1, <1>2, Regroup
<1> QED BY <1>8, <1>9, <1>10 DEF h, r

\* The pump that writes moves a message from the channel to the connection.
LEMMA GotMove ==
    ASSUME HubTypeOK, NEW c \in Browser, WriteMessage(c), NEW d \in Browser
    PROVE  Got(d)' = Got(d)
<1>1. CASE d = c
    <2>1. written[c] \in Seq(1 .. MaxMessages) /\ sends[c] \in Seq(1 .. MaxMessages) /\ sends[c] # <<>>
        BY DEF HubTypeOK, WriteMessage
    <2>2. written'[c] = Append(written[c], Head(sends[c])) /\ sends'[c] = Tail(sends[c])
        BY DEF HubTypeOK, WriteMessage
    <2>3. Append(written[c], Head(sends[c])) \o Tail(sends[c]) = written[c] \o sends[c]
        BY <2>1, MoveHead
    <2> QED BY <1>1, <2>2, <2>3 DEF Got
<1>2. CASE d # c
    BY <1>2 DEF HubTypeOK, WriteMessage, Got
<1> QED BY <1>1, <1>2

\* A message that is sent comes last.
LEMMA GotSend ==
    ASSUME HubTypeOK, NEW c \in Browser, NEW n \in 1 .. MaxMessages,
           sends' = [sends EXCEPT ![c] = Append(@, n)], UNCHANGED written
    PROVE  Got(c)' = Append(Got(c), n) /\ \A d \in Browser \ {c} : Got(d)' = Got(d)
<1> DEFINE S == 1 .. MaxMessages
<1>1. written[c] \in Seq(S) /\ sends[c] \in Seq(S) /\ n \in S /\ sends'[c] = Append(sends[c], n)
    BY DEF HubTypeOK
<1>2. written[c] \o Append(sends[c], n) = Append(written[c] \o sends[c], n)
    <2> DEFINE w == written[c]
               u == sends[c]
    <2>1. w \in Seq(S) /\ u \in Seq(S) /\ n \in S
        BY <1>1
    <2> HIDE DEF S, w, u
    <2>2. w \o Append(u, n) = Append(w \o u, n)
        BY <2>1, AppendLast
    <2> QED BY <2>2 DEF w, u
<1>3. Got(c)' = Append(Got(c), n)
    BY <1>1, <1>2 DEF Got
<1> QED BY <1>3 DEF HubTypeOK, Got

\* A step that leaves what the clients got, and offers none of them a message.
LEMMA GapKeeps ==
    ASSUME HubTypeOK, GapInv, \A d \in Browser : Got(d)' = Got(d), UNCHANGED messages,
           \A d \in Browser : d \in clients' => d \in clients \/ Len(Got(d)) = 0,
           \A d \in Browser : level'[d] = "none" => level[d] = "none",
           \A d \in Browser : d \in clients' => (d \in loop'.todo <=> d \in loop.todo)
    PROVE  GapInv'
<1> SUFFICES ASSUME NEW d \in Browser PROVE Gapless(d)' /\ UpToDate(d)'
    BY DEF GapInv
<1>1. Gapless(d) /\ UpToDate(d) /\ Got(d)' = Got(d)
    BY DEF GapInv
<1> HIDE DEF Got
<1>2. Gapless(d)'
    BY <1>1 DEF Gapless
<1>3. d \in clients' => Offered(d)' = Offered(d)
    BY DEF Offered
<1>4. UpToDate(d)'
    BY <1>1, <1>3 DEF UpToDate
<1> QED BY <1>2, <1>4

LEMMA BroadcastGap ==
    ASSUME HubSafe, GapInv, NEW topic \in BOOLEAN, Broadcast(topic)
    PROVE  GapInv'
<1> SUFFICES ASSUME NEW d \in Browser PROVE Gapless(d)' /\ UpToDate(d)'
    BY DEF GapInv
<1>1. HubTypeOK /\ Gapless(d) /\ UpToDate(d)
    BY DEF GapInv, HubSafe
<1>2. /\ loop.todo = {} /\ loop'.todo = clients /\ messages' = Append(messages, topic)
      /\ Got(d)' = Got(d) /\ UNCHANGED <<clients, level>>
    BY DEF Broadcast, Selects, Waiting, Got, pumpVars
<1>3. Len(messages) \in Nat /\ Len(messages') = Len(messages) + 1
      /\ \A n \in 1 .. Len(messages) : messages'[n] = messages[n]
    <2>1. messages \in Seq(BOOLEAN)
        BY <1>1 DEF HubTypeOK
    <2> QED BY <1>2, <2>1, AppendProperties, LenProperties
<1>4. Len(Got(d)) \in Nat /\ \A i \in 1 .. Len(Got(d)) : Got(d)[i] \in Nat
    BY <1>1, GotType
<1> HIDE DEF Got
<1>5. Gapless(d)'
    <2>1. \A i \in 1 .. Len(Got(d)) : Got(d)[i] <= Len(messages')
        BY <1>1, <1>3, <1>4 DEF Gapless
    <2>2. ASSUME NEW i \in 2 .. Len(Got(d)), NEW n \in (Got(d)[i - 1] + 1) .. (Got(d)[i] - 1)
          PROVE  messages'[n]
        <3>1. Got(d)[i] <= Len(messages) /\ Got(d)[i - 1] \in Nat /\ Got(d)[i] \in Nat /\ messages[n]
            BY <1>1, <1>4, <2>2 DEF Gapless
        <3>2. n \in 1 .. Len(messages)
            BY <1>3, <2>2, <3>1
        <3> QED BY <1>3, <3>1, <3>2
    <2>3. \A i \in 2 .. Len(Got(d)) : Got(d)[i - 1] < Got(d)[i]
        BY <1>1 DEF Gapless
    <2> QED BY <1>2, <2>1, <2>2, <2>3 DEF Gapless
<1>6. UpToDate(d)'
    <2> SUFFICES ASSUME d \in clients, Len(Got(d)) > 0
                 PROVE  /\ level[d] # "none" /\ Got(d)[Len(Got(d))] <= Offered(d)'
                        /\ \A n \in (Got(d)[Len(Got(d))] + 1) .. Offered(d)' : messages'[n]
        BY <1>2 DEF UpToDate
    <2>1. Offered(d)' = Len(messages) /\ Offered(d) = Len(messages)
        BY <1>2, <1>3 DEF Offered
    <2>2. /\ level[d] # "none" /\ Got(d)[Len(Got(d))] <= Len(messages)
          /\ \A n \in (Got(d)[Len(Got(d))] + 1) .. Len(messages) : messages[n]
        BY <1>1, <2>1 DEF UpToDate
    <2>3. Got(d)[Len(Got(d))] \in Nat
        BY <1>4
    <2>4. \A n \in (Got(d)[Len(Got(d))] + 1) .. Len(messages) : n \in 1 .. Len(messages)
        BY <1>3, <2>3
    <2> QED BY <1>3, <2>1, <2>2, <2>4
<1> QED BY <1>5, <1>6

LEMMA DeliverGap ==
    ASSUME HubSafe, GapInv, NEW c \in Browser, Deliver(c)
    PROVE  GapInv'
<1> DEFINE n == Len(messages)
<1>1. HubTypeOK /\ c \in clients /\ c \notin shut /\ messages # <<>> /\ c \in loop.todo
    BY DEF HubSafe, ShutInv, Deliver
<1>2. n \in 1 .. MaxMessages /\ n \in Nat
    <2>1. messages \in Seq(BOOLEAN) /\ Len(messages) <= MaxMessages
        BY <1>1 DEF HubTypeOK
    <2>2. n \in Nat \ {0}
        BY <1>1, <2>1, EmptySeq
    <2> QED BY <2>1, <2>2, HubAssumption
<1>3. loop'.todo = loop.todo \ {c} /\ UNCHANGED <<messages, level, written>>
    BY <1>1 DEF Deliver, pumpVars, HubTypeOK
<1>4. \/ ~IsFor(n, c) /\ UNCHANGED <<clients, sends>>
      \/ IsFor(n, c) /\ sends' = [sends EXCEPT ![c] = Append(@, n)] /\ UNCHANGED clients
      \/ clients' = clients \ {c} /\ UNCHANGED sends
    BY <1>1 DEF Deliver, SendTo, Overflow
<1>5. \A d \in Browser \ {c} : Got(d)' = Got(d) /\ (d \in clients' => d \in clients)
    BY <1>3, <1>4 DEF Got, HubSafe, HubTypeOK
<1>6. ASSUME NEW d \in Browser \ {c} PROVE Gapless(d)' /\ UpToDate(d)'
    <2>1. Gapless(d) /\ UpToDate(d) /\ Got(d)' = Got(d) /\ (d \in clients' => d \in clients)
        BY <1>5 DEF GapInv
    <2>2. Offered(d)' = Offered(d)
        BY <1>3 DEF Offered
    <2> HIDE DEF Got
    <2> QED BY <1>3, <2>1, <2>2 DEF Gapless, UpToDate
<1>7. Gapless(c) /\ UpToDate(c) /\ Offered(c)' = n /\ Offered(c) = n - 1
    BY <1>1, <1>3 DEF GapInv, Offered
<1>8. /\ Len(Got(c)) \in Nat /\ Got(c) \in Seq(1 .. MaxMessages)
      /\ \A i \in 1 .. Len(Got(c)) : Got(c)[i] \in Nat
    BY <1>1, GotType
<1>9. ASSUME ~IsFor(n, c), UNCHANGED <<clients, sends>> PROVE Gapless(c)' /\ UpToDate(c)'
    <2>1. Got(c)' = Got(c)
        BY <1>3, <1>9 DEF Got
    <2>2. level[c] # "none" => messages[n]
        <3>1. level[c] \in {"none", "workspace", "topic"}
            BY <1>1 DEF HubTypeOK
        <3> QED BY <1>9, <3>1 DEF IsFor
    <2> HIDE DEF Got, n
    <2>3. Gapless(c)'
        BY <1>3, <1>7, <2>1 DEF Gapless
    <2>4. UpToDate(c)'
        <3> SUFFICES ASSUME Len(Got(c)) > 0, c \in clients
                     PROVE  /\ level[c] # "none" /\ Got(c)[Len(Got(c))] <= n
                            /\ \A m \in (Got(c)[Len(Got(c))] + 1) .. n : messages[m]
            BY <1>3, <1>7, <1>9, <2>1 DEF UpToDate
        <3>1. /\ level[c] # "none" /\ Got(c)[Len(Got(c))] <= n - 1
              /\ \A m \in (Got(c)[Len(Got(c))] + 1) .. (n - 1) : messages[m]
            BY <1>7 DEF UpToDate
        <3>2. Got(c)[Len(Got(c))] \in Nat
            BY <1>8
        <3>3. \A m \in (Got(c)[Len(Got(c))] + 1) .. n : m = n \/ m \in (Got(c)[Len(Got(c))] + 1) .. (n - 1)
            BY <1>2, <3>2
        <3> QED BY <1>2, <2>2, <3>1, <3>2, <3>3
    <2> QED BY <2>3, <2>4
<1>10. ASSUME IsFor(n, c), sends' = [sends EXCEPT ![c] = Append(@, n)], UNCHANGED clients
       PROVE  Gapless(c)' /\ UpToDate(c)'
    <2> DEFINE l == Len(Got(c))
    <2>1. Got(c)' = Append(Got(c), n)
        BY <1>1, <1>2, <1>3, <1>10, GotSend
    <2>2. /\ Len(Got(c)') = l + 1 /\ Got(c)'[l + 1] = n /\ \A i \in 1 .. l : Got(c)'[i] = Got(c)[i]
        BY <1>2, <1>8, <2>1, AppendProperties
    <2> HIDE DEF Got, n
    <2>3. level[c] # "none"
        BY <1>10 DEF IsFor
    <2>4. Gapless(c)'
        <3>1. \A i \in 1 .. l + 1 : Got(c)'[i] <= Len(messages)
            BY <1>2, <1>7, <1>8, <2>2 DEF Gapless, n
        <3>2. ASSUME NEW i \in 2 .. l + 1
              PROVE  /\ Got(c)'[i - 1] < Got(c)'[i]
                     /\ \A m \in (Got(c)'[i - 1] + 1) .. (Got(c)'[i] - 1) : messages[m]
            <4>1. CASE i <= l
                <5>1. i \in 2 .. l /\ i - 1 \in 1 .. l /\ i \in 1 .. l
                    BY <1>8, <3>2, <4>1
                <5> QED BY <1>7, <2>2, <5>1 DEF Gapless
            <4>2. CASE i = l + 1
                <5>1. l > 0 /\ l \in 1 .. l /\ Got(c)'[i - 1] = Got(c)[l] /\ Got(c)'[i] = n
                    BY <1>8, <2>2, <3>2, <4>2
                <5>2. Got(c)[l] <= n - 1 /\ \A m \in (Got(c)[l] + 1) .. (n - 1) : messages[m]
                    BY <1>1, <1>7, <5>1 DEF UpToDate
                <5> QED BY <1>2, <1>8, <5>1, <5>2
            <4> QED BY <1>8, <3>2, <4>1, <4>2
        <3> QED BY <1>3, <2>2, <3>1, <3>2 DEF Gapless
    <2>5. UpToDate(c)'
        <3>1. Len(Got(c)') = l + 1 /\ Got(c)'[Len(Got(c)')] = n
            BY <2>2
        <3>2. \A m \in (n + 1) .. n : messages[m]
            BY <1>2
        <3> QED BY <1>2, <1>3, <1>7, <2>3, <3>1, <3>2 DEF UpToDate
    <2> QED BY <2>4, <2>5
<1>11. ASSUME clients' = clients \ {c}, UNCHANGED sends PROVE Gapless(c)' /\ UpToDate(c)'
    <2>1. Got(c)' = Got(c) /\ c \notin clients'
        BY <1>3, <1>11 DEF Got
    <2> HIDE DEF Got
    <2> QED BY <1>3, <1>7, <2>1 DEF Gapless, UpToDate
<1> QED BY <1>4, <1>6, <1>9, <1>10, <1>11 DEF GapInv

LEMMA OtherGaps ==
    ASSUME HubSafe, GapInv, NEW c \in Browser,
           Register(c) \/ Unregister(c) \/ Subscribe(c) \/ Disconnect(c) \/ PumpStep(c) \/ Delivered
    PROVE  GapInv'
<1>1. HubTypeOK
    BY DEF HubSafe
<1>2. CASE WriteMessage(c)
    <2>1. \A d \in Browser : Got(d)' = Got(d)
        BY <1>1, <1>2, GotMove
    <2> QED BY <1>1, <1>2, <2>1, GapKeeps DEF WriteMessage, mapVars
<1>3. CASE Delivered
    <2>1. (\A d \in Browser : Got(d)' = Got(d)) /\ loop.todo = loop'.todo /\ UNCHANGED <<messages, clients, level>>
        BY <1>3 DEF Delivered, Waiting, Got, pumpVars
    <2> QED BY <1>1, <2>1, GapKeeps
<1>4. CASE Register(c)
    <2>1. sends[c] = <<>> /\ written[c] = <<>>
        BY <1>4 DEF HubSafe, ShutInv, Register
    <2>2. Got(c) = <<>>
        BY <2>1, ConcatEmptySeq, EmptySeq DEF Got
    <2>3. Len(Got(c)) = 0
        BY <2>2
    <2>4. (\A d \in Browser : Got(d)' = Got(d)) /\ clients' = clients \cup {c} /\ UNCHANGED <<loop, messages, level>>
        BY <1>4 DEF Register, Got
    <2> QED BY <1>1, <2>3, <2>4, GapKeeps
<1>5. CASE Unregister(c)
    <2>1. (\A d \in Browser : Got(d)' = Got(d)) /\ clients' \subseteq clients /\ UNCHANGED <<loop, messages, level>>
        BY <1>5 DEF Unregister, Got
    <2> QED BY <1>1, <2>1, GapKeeps
<1>6. CASE Subscribe(c)
    <2>1. (\A d \in Browser : Got(d)' = Got(d)) /\ UNCHANGED <<loop, messages, clients>>
        BY <1>6 DEF Subscribe, Got, mapVars
    <2>2. \A d \in Browser : level'[d] = "none" => level[d] = "none"
        BY <1>1, <1>6 DEF Subscribe, HubTypeOK
    <2> QED BY <1>1, <2>1, <2>2, GapKeeps
<1>7. CASE Disconnect(c) \/ ReadFails(c) \/ WriterEnds(c)
    <2>1. (\A d \in Browser : Got(d)' = Got(d)) /\ UNCHANGED <<loop, messages, clients, level>>
        BY <1>7 DEF Disconnect, ReadFails, WriterEnds, Got, mapVars
    <2> QED BY <1>1, <2>1, GapKeeps
<1> QED BY <1>2, <1>3, <1>4, <1>5, <1>6, <1>7 DEF PumpStep

LEMMA GapStep == HubSafe /\ GapInv /\ [HubNext]_hubVars => GapInv'
<1> SUFFICES ASSUME HubSafe, GapInv, [HubNext]_hubVars PROVE GapInv'
    OBVIOUS
<1>1. CASE UNCHANGED hubVars
    <2>1. (\A d \in Browser : Got(d)' = Got(d)) /\ UNCHANGED <<loop, messages, clients, level>>
        BY <1>1 DEF hubVars, Got
    <2> QED BY <2>1, GapKeeps DEF HubSafe
<1>2. CASE Delivered
    <2>1. (\A d \in Browser : Got(d)' = Got(d)) /\ loop.todo = loop'.todo /\ UNCHANGED <<messages, clients, level>>
        BY <1>2 DEF Delivered, Waiting, Got, pumpVars
    <2> QED BY <2>1, GapKeeps DEF HubSafe
<1> QED BY <1>1, <1>2, BroadcastGap, DeliverGap, OtherGaps DEF HubNext, HubStep

\* For any number of browsers and buffers of any size: the hub outlives every client, and what a
\* client that it still serves was sent has no gaps, however its pumps and the hub interleave.
THEOREM HubSound == HubSpec => []HubIsSound
<1>1. HubSafe /\ GapInv => HubIsSound
    BY DEF HubSafe, ShutInv, GapInv, Gapless, Got, HubIsSound, NeverPanics, NoGaps
<1> QED BY <1>1, HubSafeInit, HubSafeStep, GapInit, GapStep, PTL DEF HubSpec

-----------------------------------------------------------------------------
(* The whole *)

Turns ==
    /\ [IssueNext]_issueVars /\ [PipeNext]_pipeVars /\ [MigNext]_migVars /\ [IngNext]_ingVars
    /\ [HubNext]_hubVars /\ [ExecNext]_execVars /\ [RepoNext]_repoVars /\ [SyncNext]_syncVars
    /\ [ConvNext]_convVars /\ [DedupNext]_dedupVars /\ [InjNext]_injVars

\* The parts take turns: a step of one leaves the variables of the others alone.
LEMMA OneAtATime == [Next]_vars => Turns
<1> SUFFICES ASSUME [Next]_vars PROVE Turns
  OBVIOUS
<1>1. CASE OfIssue /\ IssueNext
  BY <1>1 DEF OfIssue, Turns
<1>2. CASE OfPipeline /\ PipeNext
  BY <1>2 DEF OfPipeline, Turns
<1>3. CASE OfMigration /\ MigNext
  BY <1>3 DEF OfMigration, Turns
<1>4. CASE OfIngestion /\ IngNext
  BY <1>4 DEF OfIngestion, Turns
<1>5. CASE OfHub /\ HubNext
  BY <1>5 DEF OfHub, Turns
<1>6. CASE OfExec /\ ExecNext
  BY <1>6 DEF OfExec, Turns
<1>7. CASE OfRepo /\ RepoNext
  BY <1>7 DEF OfRepo, Turns
<1>8. CASE OfSync /\ SyncNext
  BY <1>8 DEF OfSync, Turns
<1>9. CASE OfConversations /\ ConvNext
  BY <1>9 DEF OfConversations, Turns
<1>10. CASE OfDedup /\ DedupNext
  BY <1>10 DEF OfDedup, Turns
<1>11. CASE OfInjection /\ InjNext
  BY <1>11 DEF OfInjection, Turns
<1>12. CASE UNCHANGED vars
  BY <1>12 DEF vars, Turns
<1> QED
  BY <1>1, <1>2, <1>3, <1>4, <1>5, <1>6, <1>7, <1>8, <1>9, <1>10, <1>11, <1>12 DEF Next

\* A behaviour of the whole is one of every part.
LEMMA WholeHasParts ==
    Spec => /\ IssueSpec /\ PipeSpec /\ MigSpec /\ IngSpec /\ HubSpec /\ ExecSpec
            /\ RepoSpec /\ SyncSpec /\ ConvSpec /\ DedupSpec /\ InjSpec
<1>1. Init => /\ IssueInit /\ PipeInit /\ MigInit /\ IngInit /\ HubInit /\ ExecInit
              /\ RepoInit /\ SyncInit /\ ConvInit /\ DedupInit /\ InjInit
  BY DEF Init
<1>2. [Next]_vars => Turns
  BY OneAtATime
<1> QED
  BY <1>1, <1>2, PTL DEF Spec, Turns, IssueSpec, PipeSpec, MigSpec, IngSpec, HubSpec, ExecSpec,
     RepoSpec, SyncSpec, ConvSpec, DedupSpec, InjSpec

\* Every variable of the server's parts keeps its type, whichever part runs.
THEOREM BackendTypes == Spec => []TypesOK
<1>1. TypesOK <=> /\ IssueTypeOK /\ PipeTypeOK /\ MigTypeOK /\ IngTypeOK /\ HubTypeOK /\ ExecTypeOK
                  /\ RepoTypeOK /\ SyncTypeOK /\ ConvTypeOK /\ DedupTypeOK /\ InjTypeOK
  BY DEF TypesOK
<1> QED
  BY <1>1, WholeHasParts, IssueTypes, PipeTypes, MigrationTypes, IngestionTypes, HubTypes, ExecTypes,
     RepoTypesKept, SyncTypesKept, ConversationTypes, DedupTypes, InjectionTypes, PTL

\* What is proved of the parts holds where they are checked together: issues and
\* pipelines, the import of history and the ingestion, the hub and approvals,
\* publishing and the GitHub queue, and the workers on memory are all sound.
THEOREM BackendIsSound ==
    Spec => /\ [](IssueIsSound /\ PipelineIsOnRecord /\ HistoryIsSound /\ NothingPassedOver)
            /\ [](HubIsSound /\ DecisionIsShared /\ PublishIsSound /\ QueueIsSound)
            /\ [](ConversationsAreSound /\ NoFactIsLost /\ InjectionsAreSound)
            /\ AdvanceStopsAtBlocker
BY WholeHasParts, IssueSound, PipelineOnRecord, HistorySound, NothingIsPassedOver, HubSound, DecisionShared,
   PublishSound, QueueSound, ConversationsSound, FactsAreKept, InjectionsSound, AdvanceStops, PTL

=============================================================================
