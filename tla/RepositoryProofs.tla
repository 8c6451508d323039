--------------------------- MODULE RepositoryProofs ----------------------------
(***************************************************************************)
(* Proofs about RepoPublish and GitHubSync: for any number of calls and    *)
(* any commits nothing is lost that nobody gave up, and linked issues are  *)
(* closed with a head that is published; for any number of servers,        *)
(* consumers and jobs the queue keeps one consumer per job and answers as  *)
(* a duplicate only what it has taken in or failed on.                     *)
(***************************************************************************)
EXTENDS RepoPublish, GitHubSync, TLAPS

-----------------------------------------------------------------------------
(* RepoPublish *)

PublishPC == {"fetch", "head", "ahead", "push", "settle", "announce"}

ResolvePC == {"git", "switch", "reset", "decide"}

\* A call has what it needs of the decisions that people took: the one it carries out, or the one
\* that made the forced push it may make.
DecisionKnown(q) ==
    /\ q.pc \in ResolvePC => q.keep \in chosen
    /\ q.pc \in {"switch", "reset"} => q.keep = "keep_github"
    /\ q.pc \in PublishPC /\ q.required => "keep_ottercamp" \in chosen

\* The head that a call of PublishProject read is in the clone until it pushes, and then on GitHub
\* unless the commits could not be counted.
HeadKnown(q) ==
    /\ q.pc \in {"ahead", "push"} => q.head \subseteq local
    /\ q.pc \in {"settle", "announce"} => q.head \in miscounted \/ q.head \subseteq ever

RepoInv ==
    /\ RepoTypeOK /\ PublishIsSound
    /\ binding.force => "keep_ottercamp" \in chosen
    /\ remote \subseteq ever /\ origin \subseteq ever
    /\ \A c \in RepoClient : DecisionKnown(caller[c])
    /\ ~raced => \A c \in RepoClient : HeadKnown(caller[c])

LEMMA RepoInitInv == RepoInit => RepoInv
<1> SUFFICES ASSUME RepoInit PROVE RepoInv
    OBVIOUS
<1>1. RepoTypeOK
    <2>1. {remote, origin, local, ever, lost, dropped, discarded} \subseteq Branch
          /\ announced \subseteq Branch /\ miscounted \subseteq Branch
        BY DEF RepoInit, Branch
    <2>2. binding \in [conflict : {"none", "needs_decision", "resolved"}, target : Target, force : BOOLEAN]
        BY DEF RepoInit, Target
    <2>3. caller \in [RepoClient -> Caller]
        BY DEF RepoInit, Caller
    <2>4. chosen \subseteq KeepWhose /\ raced \in BOOLEAN /\ repoCalls \in 0 .. MaxRepoCalls
        <3>1. 0 \in 0 .. MaxRepoCalls /\ {} \subseteq KeepWhose
            BY RepoAssumption
        <3> QED BY <3>1 DEF RepoInit
    <2> QED BY <2>1, <2>2, <2>3, <2>4 DEF RepoTypeOK
<1>2. PublishIsSound
    BY DEF RepoInit, PublishIsSound, LossIsChosen, AnnouncedIsPublished
<1>3. binding.force = FALSE /\ \A c \in RepoClient : caller[c].pc = "idle"
    BY DEF RepoInit, Off
<1> QED BY <1>1, <1>2, <1>3 DEF RepoInit, RepoInv, DecisionKnown, HeadKnown, PublishPC, ResolvePC

LEMMA CallerAfter ==
    ASSUME RepoTypeOK, NEW c \in RepoClient, NEW s, To(c, s), NEW d \in RepoClient
    PROVE  caller'[d] = IF d = c THEN s ELSE caller[d]
BY DEF RepoTypeOK, To

\* What a call carries at each of its places.
LEMMA CallerFields ==
    ASSUME RepoTypeOK, NEW c \in RepoClient, NEW q, q = caller[c]
    PROVE  /\ q.pc = "conflict" => q.target \in Branch
           /\ q.pc \in ResolvePC => q = [pc |-> q.pc, keep |-> q.keep, target |-> q.target]
                                            /\ q.keep \in KeepWhose /\ q.target \in Target
           /\ q.pc \in {"fetch", "head"} =>
                /\ q = [pc |-> q.pc, required |-> q.required, confirmed |-> q.confirmed]
                /\ q.required \in BOOLEAN /\ q.confirmed \in BOOLEAN
           /\ q.pc \in {"ahead", "push", "settle", "announce"} =>
                /\ q = [pc |-> q.pc, required |-> q.required, confirmed |-> q.confirmed, head |-> q.head]
                /\ q.required \in BOOLEAN /\ q.confirmed \in BOOLEAN /\ q.head \in Branch
<1>1. q \in Caller
    BY DEF RepoTypeOK
<1> QED BY <1>1 DEF Caller, Off, ResolvePC

\* The types of a step: the call c goes on as s.
LEMMA RepoTypes ==
    ASSUME RepoTypeOK, NEW c \in RepoClient, NEW s \in Caller, To(c, s),
           repoCalls' = repoCalls \/ Call(c),
           {remote', origin', local', ever', lost', dropped', discarded'} \subseteq Branch,
           binding' \in [conflict : {"none", "needs_decision", "resolved"}, target : Target, force : BOOLEAN],
           chosen' \subseteq KeepWhose, announced' \subseteq Branch, miscounted' \subseteq Branch,
           raced' \in BOOLEAN
    PROVE  RepoTypeOK'
<1>1. caller' \in [RepoClient -> Caller]
    BY DEF RepoTypeOK, To
<1>2. repoCalls' \in 0 .. MaxRepoCalls
    BY RepoAssumption DEF RepoTypeOK, Call
<1> QED BY <1>1, <1>2 DEF RepoTypeOK, Caller, Branch, Target, KeepWhose

\* What the calls other than c keep, and what c must have as s.
LEMMA RepoGoes ==
    ASSUME RepoInv, RepoTypeOK', NEW c \in RepoClient, NEW s, To(c, s),
           LossIsChosen', AnnouncedIsPublished', binding'.force => "keep_ottercamp" \in chosen',
           remote' \subseteq ever', origin' \subseteq ever', ever \subseteq ever', chosen \subseteq chosen',
           miscounted \subseteq miscounted',
           raced => raced', ~raced' => local \subseteq local' \/ ~HeadRead,
           s.pc \in ResolvePC => s.keep \in chosen',
           s.pc \in {"switch", "reset"} => s.keep = "keep_github",
           s.pc \in PublishPC => (s.required => "keep_ottercamp" \in chosen'),
           ~raced' => (s.pc \in {"ahead", "push"} => s.head \subseteq local'),
           ~raced' => (s.pc \in {"settle", "announce"} => s.head \in miscounted' \/ s.head \subseteq ever')
    PROVE  RepoInv'
<1>1. \A d \in RepoClient : caller'[d] = IF d = c THEN s ELSE caller[d]
    BY CallerAfter DEF RepoInv
<1>2. ASSUME NEW d \in RepoClient PROVE DecisionKnown(caller[d])'
    <2>1. CASE d = c
        BY <1>1, <2>1 DEF DecisionKnown, PublishPC, ResolvePC
    <2>2. CASE d # c
        BY <1>1, <2>2 DEF DecisionKnown, PublishPC, ResolvePC, RepoInv
    <2> QED BY <2>1, <2>2
<1>3. ASSUME NEW d \in RepoClient, ~raced' PROVE HeadKnown(caller[d])'
    <2>1. CASE d = c
        BY <1>1, <1>3, <2>1 DEF HeadKnown
    <2>2. CASE d # c
        <3>1. HeadKnown(caller[d]) /\ caller'[d] = caller[d]
            BY <1>1, <1>3, <2>2 DEF RepoInv
        <3>2. caller[d].pc \in {"ahead", "push"} => local \subseteq local'
            BY <1>3 DEF HeadRead
        <3> QED BY <3>1, <3>2 DEF HeadKnown
    <2> QED BY <2>1, <2>2
<1> QED BY <1>2, <1>3 DEF RepoInv, PublishIsSound

\* A call that touches neither git nor what is recorded of losses and announcements, and may
\* fail to count commits.
LEMMA RepoCounts ==
    ASSUME RepoInv, NEW c \in RepoClient, NEW s \in Caller, To(c, s),
           repoCalls' = repoCalls \/ Call(c),
           UNCHANGED <<gitVars, lost, dropped, discarded, raced, announced>>,
           miscounted \subseteq miscounted', miscounted' \subseteq Branch,
           binding' \in [conflict : {"none", "needs_decision", "resolved"}, target : Target, force : BOOLEAN],
           binding'.force => "keep_ottercamp" \in chosen',
           chosen \subseteq chosen', chosen' \subseteq KeepWhose,
           s.pc \in ResolvePC => s.keep \in chosen',
           s.pc \in {"switch", "reset"} => s.keep = "keep_github",
           s.pc \in PublishPC => (s.required => "keep_ottercamp" \in chosen'),
           ~raced => (s.pc \in {"ahead", "push"} => s.head \subseteq local),
           ~raced => (s.pc \in {"settle", "announce"} => s.head \in miscounted' \/ s.head \subseteq ever)
    PROVE  RepoInv'
<1>1. UNCHANGED <<remote, origin, local, ever, lost, dropped, discarded, raced, announced>>
    BY DEF gitVars
<1>2. RepoTypeOK'
    BY <1>1, RepoTypes DEF RepoInv, RepoTypeOK
<1>3. LossIsChosen' /\ AnnouncedIsPublished'
    BY <1>1 DEF RepoInv, PublishIsSound, LossIsChosen, AnnouncedIsPublished
<1>4. remote' \subseteq ever' /\ origin' \subseteq ever'
    BY <1>1 DEF RepoInv
<1> QED BY <1>1, <1>2, <1>3, <1>4, RepoGoes

\* A call that fails at no count either.
LEMMA RepoQuiet ==
    ASSUME RepoInv, NEW c \in RepoClient, NEW s \in Caller, To(c, s),
           repoCalls' = repoCalls \/ Call(c),
           UNCHANGED <<gitVars, lossVars, announced>>,
           binding' \in [conflict : {"none", "needs_decision", "resolved"}, target : Target, force : BOOLEAN],
           binding'.force => "keep_ottercamp" \in chosen',
           chosen \subseteq chosen', chosen' \subseteq KeepWhose,
           s.pc \in ResolvePC => s.keep \in chosen',
           s.pc \in {"switch", "reset"} => s.keep = "keep_github",
           s.pc \in PublishPC => (s.required => "keep_ottercamp" \in chosen'),
           ~raced => (s.pc \in {"ahead", "push"} => s.head \subseteq local),
           ~raced => (s.pc \in {"settle", "announce"} => s.head \in miscounted \/ s.head \subseteq ever)
    PROVE  RepoInv'
<1>1. UNCHANGED <<gitVars, lost, dropped, discarded, raced, announced, miscounted>>
    BY DEF lossVars
<1>2. miscounted \subseteq miscounted' /\ miscounted' \subseteq Branch
    BY <1>1 DEF RepoInv, RepoTypeOK
<1> QED BY <1>1, <1>2, RepoCounts

LEMMA IdleCaller == Off \in Caller /\ Off.pc = "idle"
BY DEF Off, Caller

LEMMA RepoEnds ==
    ASSUME RepoInv, NEW c \in RepoClient, Return(c), UNCHANGED repoCalls,
           UNCHANGED <<gitVars, lossVars, announced, chosen>>,
           binding' \in [conflict : {"none", "needs_decision", "resolved"}, target : Target, force : BOOLEAN],
           binding'.force => "keep_ottercamp" \in chosen
    PROVE  RepoInv'
<1>1. To(c, Off) /\ Off \in Caller /\ Off.pc \notin ResolvePC \cup PublishPC
    BY IdleCaller DEF Return, PublishPC, ResolvePC
<1>2. chosen' \subseteq KeepWhose
    BY DEF RepoInv, RepoTypeOK
<1> HIDE DEF Off
<1> QED BY <1>1, <1>2, RepoQuiet DEF PublishPC, ResolvePC

\* The row of the binding, as the statements that touch parts of it leave it.
LEMMA BindingType ==
    ASSUME RepoTypeOK, NEW con \in {"none", "needs_decision", "resolved"}, NEW t \in Target, NEW f \in BOOLEAN
    PROVE  LET B == [conflict : {"none", "needs_decision", "resolved"}, target : Target, force : BOOLEAN]
           IN  /\ [binding EXCEPT !.conflict = con, !.target = t] \in B
               /\ [binding EXCEPT !.conflict = con, !.target = t].force = binding.force
               /\ [binding EXCEPT !.conflict = con, !.force = f] \in B
               /\ [binding EXCEPT !.conflict = con, !.force = f].force = f
               /\ [binding EXCEPT !.force = f] \in B /\ [binding EXCEPT !.force = f].force = f
               /\ binding \in B
BY DEF RepoTypeOK

\* What a reset of the clone's branch, or a checkout that may be one, leaves.
LEMMA ResetLeaves ==
    ASSUME RepoTypeOK, NEW b \in Branch, ResetTo(b) \/ UNCHANGED <<local, dropped, raced>>
    PROVE  /\ local' \in Branch /\ raced' \in BOOLEAN
           /\ dropped' = dropped \cup (local \ local') /\ dropped' \in Branch
           /\ (raced => raced') /\ (~raced' => local \subseteq local' \/ ~HeadRead)
<1>1. CASE ResetTo(b)
    <2>1. local' = b /\ dropped' = dropped \cup (local \ b) /\ raced' = (raced \/ HeadRead)
        BY <1>1 DEF ResetTo
    <2>2. raced' \in BOOLEAN /\ (raced => raced') /\ (~raced' => ~HeadRead)
        BY <2>1
    <2> QED BY <2>1, <2>2 DEF RepoTypeOK, Branch
<1>2. CASE UNCHANGED <<local, dropped, raced>>
    BY <1>2 DEF RepoTypeOK
<1> QED BY <1>1, <1>2

LEMMA CheckoutLeaves ==
    ASSUME RepoTypeOK, Checkout
    PROVE  /\ local' \in Branch /\ raced' \in BOOLEAN
           /\ dropped' = dropped \cup (local \ local') /\ dropped' \in Branch
           /\ (raced => raced') /\ (~raced' => local \subseteq local' \/ ~HeadRead)
<1>1. origin \in Branch /\ (ResetTo(origin) \/ UNCHANGED <<local, dropped, raced>>)
    BY DEF Checkout, RepoTypeOK
<1> QED BY <1>1, ResetLeaves

LEMMA CloningStep ==
    ASSUME RepoInv, NEW c \in RepoClient, UpdateSettings(c) \/ Cloning(c) \/ RepoAborts(c)
    PROVE  RepoInv'
<1>1. RepoTypeOK /\ binding \in [conflict : {"none", "needs_decision", "resolved"}, target : Target, force : BOOLEAN]
      /\ {} \in Target /\ chosen \subseteq KeepWhose
    BY DEF RepoInv, RepoTypeOK, Target
<1>2. CASE UpdateSettings(c)
    <2>1. binding' = [binding EXCEPT !.conflict = "none", !.target = {}]
          /\ UNCHANGED <<gitVars, lossVars, caller, chosen, announced>> /\ Call(c)
        BY <1>2 DEF UpdateSettings
    <2>2. binding'.force = binding.force
          /\ binding' \in [conflict : {"none", "needs_decision", "resolved"}, target : Target, force : BOOLEAN]
        BY <1>1, <2>1, BindingType
    <2>3. To(c, caller[c]) /\ caller[c] = Off
        BY <1>1, <2>1 DEF To, Call, RepoTypeOK
    <2>4. Off \in Caller /\ Off.pc = "idle"
        BY IdleCaller
    <2> QED BY <1>1, <2>1, <2>2, <2>3, <2>4, RepoQuiet DEF RepoInv, PublishPC, ResolvePC
<1>3. CASE CloneFetch(c)
    <2> DEFINE s == [pc |-> "checkout"]
    <2>1. origin' = remote /\ UNCHANGED <<remote, local, ever, lossVars, binding, chosen, announced>>
          /\ To(c, s) /\ Call(c)
        BY <1>3 DEF CloneFetch
    <2>2. s \in Caller /\ s.pc \notin ResolvePC \cup PublishPC
        BY DEF Caller, PublishPC, ResolvePC
    <2> HIDE DEF s
    <2>3. RepoTypeOK'
        BY <1>1, <2>1, <2>2, RepoTypes DEF RepoTypeOK, lossVars
    <2>4. LossIsChosen' /\ AnnouncedIsPublished'
        BY <2>1 DEF RepoInv, PublishIsSound, LossIsChosen, AnnouncedIsPublished, lossVars
    <2> QED BY <2>1, <2>2, <2>3, <2>4, RepoGoes DEF RepoInv, lossVars, PublishPC, ResolvePC
<1>7. CASE CloneCheckout(c)
    <2> DEFINE s == [pc |-> "merge"]
    <2>1. /\ Checkout /\ discarded' = discarded \cup (local \ local') /\ To(c, s)
          /\ UNCHANGED <<remote, origin, ever, lost, miscounted, binding, chosen, announced, repoCalls>>
        BY <1>7 DEF CloneCheckout, In
    <2>2. s \in Caller /\ s.pc \notin ResolvePC \cup PublishPC
        BY DEF Caller, PublishPC, ResolvePC
    <2> HIDE DEF s
    <2>3. /\ local' \in Branch /\ raced' \in BOOLEAN
          /\ dropped' = dropped \cup (local \ local') /\ dropped' \in Branch
          /\ (raced => raced') /\ (~raced' => local \subseteq local' \/ ~HeadRead)
        BY <1>1, <2>1, CheckoutLeaves
    <2>4. discarded' \in Branch
        BY <1>1, <2>1 DEF RepoTypeOK, Branch
    <2>5. RepoTypeOK'
        BY <1>1, <2>1, <2>2, <2>3, <2>4, RepoTypes DEF RepoTypeOK
    <2>6. LossIsChosen'
        BY <2>1, <2>3 DEF RepoInv, PublishIsSound, LossIsChosen
    <2>7. AnnouncedIsPublished'
        BY <2>1, <2>3 DEF RepoInv, PublishIsSound, AnnouncedIsPublished
    <2> QED BY <2>1, <2>2, <2>3, <2>5, <2>6, <2>7, RepoGoes DEF RepoInv, PublishPC, ResolvePC
<1>4. CASE CloneMerge(c)
    <2>1. PICK s \in Caller : To(c, s) /\ s.pc \notin ResolvePC \cup PublishPC
        <3>1. [pc |-> "clear"] \in Caller
            BY DEF Caller
        <3>2. [pc |-> "conflict", target |-> origin] \in Caller
            BY <1>1 DEF Caller, RepoTypeOK
        <3>3. To(c, [pc |-> "clear"]) \/ To(c, [pc |-> "conflict", target |-> origin])
            BY <1>4 DEF CloneMerge
        <3> QED BY <3>1, <3>2, <3>3 DEF PublishPC, ResolvePC
    <2>2. /\ local' = local \/ local' = local \cup origin
          /\ UNCHANGED <<remote, origin, ever, lossVars, binding, chosen, announced, repoCalls>>
        BY <1>4 DEF CloneMerge, In
    <2>3. local' \in Branch /\ local \subseteq local'
        BY <1>1, <2>2 DEF RepoTypeOK, Branch
    <2>4. RepoTypeOK'
        BY <1>1, <2>1, <2>2, <2>3, RepoTypes DEF RepoTypeOK, lossVars
    <2>5. LossIsChosen' /\ AnnouncedIsPublished'
        BY <2>2 DEF RepoInv, PublishIsSound, LossIsChosen, AnnouncedIsPublished, lossVars
    <2> QED BY <2>1, <2>2, <2>3, <2>4, <2>5, RepoGoes DEF RepoInv, lossVars, PublishPC, ResolvePC
<1>5. CASE CloneRecords(c)
    <2>1. caller[c].pc = "conflict" => caller[c].target \in Branch
        BY <1>1, CallerFields
    <2>2. PICK t \in Target, con \in {"none", "needs_decision"} :
            binding' = [binding EXCEPT !.conflict = con, !.target = t]
        BY <1>1, <1>5, <2>1 DEF CloneRecords, Target
    <2>3. binding'.force = binding.force
          /\ binding' \in [conflict : {"none", "needs_decision", "resolved"}, target : Target, force : BOOLEAN]
        <3>1. [binding EXCEPT !.conflict = con, !.target = t].force = binding.force
              /\ [binding EXCEPT !.conflict = con, !.target = t]
                    \in [conflict : {"none", "needs_decision", "resolved"}, target : Target, force : BOOLEAN]
            BY <1>1, BindingType
        <3> QED BY <2>2, <3>1, Zenon
    <2>4. Return(c) /\ UNCHANGED <<gitVars, lossVars, chosen, announced, repoCalls>>
        BY <1>5 DEF CloneRecords
    <2> QED BY <1>1, <2>3, <2>4, RepoEnds DEF RepoInv
<1>6. CASE RepoAborts(c)
    BY <1>1, <1>6, RepoEnds DEF RepoAborts, RepoInv
<1> QED BY <1>2, <1>3, <1>4, <1>5, <1>6, <1>7 DEF Cloning

\* A call that resolves a conflict keeps its decision from step to step.
LEMMA ResolveMoves ==
    ASSUME RepoTypeOK, NEW c \in RepoClient, caller[c].pc \in ResolvePC, NEW p \in ResolvePC
    PROVE  LET s == [caller[c] EXCEPT !.pc = p]
           IN  s \in Caller /\ s.pc = p /\ s.keep = caller[c].keep
<1> DEFINE q == caller[c]
           s == [pc |-> p, keep |-> q.keep, target |-> q.target]
<1>1. q = [pc |-> q.pc, keep |-> q.keep, target |-> q.target] /\ q.keep \in KeepWhose /\ q.target \in Target
    BY CallerFields
<1>2. \A o, k, t, n : [[pc |-> o, keep |-> k, target |-> t] EXCEPT !.pc = n]
                        = [pc |-> n, keep |-> k, target |-> t]
    OBVIOUS
<1>3. [q EXCEPT !.pc = p] = s
    BY <1>1, <1>2
<1>4. s \in Caller /\ s.pc = p /\ s.keep = q.keep
    BY <1>1 DEF Caller, ResolvePC
<1> QED BY <1>3, <1>4

LEMMA ResolvingStep ==
    ASSUME RepoInv, NEW c \in RepoClient, Resolving(c)
    PROVE  RepoInv'
<1>1. RepoTypeOK /\ binding \in [conflict : {"none", "needs_decision", "resolved"}, target : Target, force : BOOLEAN]
      /\ chosen \subseteq KeepWhose
    BY DEF RepoInv, RepoTypeOK
<1>2. ASSUME NEW keep \in KeepWhose, ResolveRead(c, keep) PROVE RepoInv'
    <2> DEFINE s == [pc |-> "git", keep |-> keep, target |-> binding.target]
    <2>1. s \in Caller /\ s.pc = "git" /\ s.keep = keep
        BY <1>1 DEF Caller
    <2>2. chosen' = chosen \cup {keep} /\ To(c, s) /\ Call(c) /\ UNCHANGED <<gitVars, lossVars, binding, announced>>
        BY <1>2 DEF ResolveRead
    <2> HIDE DEF s
    <2> QED BY <1>1, <2>1, <2>2, RepoQuiet DEF RepoInv, PublishPC, ResolvePC
<1>3. CASE ResolveFetch(c)
    <2>1. PICK p \in {"switch", "decide"} :
            /\ p = "switch" => caller[c].keep = "keep_github"
            /\ origin' \in {remote, origin} /\ To(c, [caller[c] EXCEPT !.pc = p])
        BY <1>3 DEF ResolveFetch, Resets
    <2>2. caller[c].pc = "git"
          /\ UNCHANGED <<remote, local, ever, lossVars, binding, chosen, announced, repoCalls>>
        BY <1>3 DEF ResolveFetch, In
    <2> DEFINE s == [caller[c] EXCEPT !.pc = p]
    <2>3. s \in Caller /\ s.pc = p /\ s.keep = caller[c].keep /\ s.keep \in chosen
        BY <1>1, <2>2, ResolveMoves DEF RepoInv, DecisionKnown, ResolvePC
    <2> HIDE DEF s
    <2>4. UNCHANGED <<lost, dropped, discarded, miscounted, raced>>
        BY <2>2 DEF lossVars
    <2>5. To(c, s)
        BY <2>1 DEF s
    <2>6. RepoTypeOK'
        <3>1. origin' \in Branch
            BY <1>1, <2>1 DEF RepoTypeOK
        <3> QED BY <1>1, <2>2, <2>3, <2>4, <2>5, <3>1, RepoTypes DEF RepoTypeOK
    <2>7. LossIsChosen' /\ AnnouncedIsPublished'
        BY <2>2, <2>4 DEF RepoInv, PublishIsSound, LossIsChosen, AnnouncedIsPublished
    <2> QED BY <2>1, <2>2, <2>3, <2>4, <2>5, <2>6, <2>7, RepoGoes DEF RepoInv, PublishPC
<1>5. CASE ResolveCheckout(c) \/ ResolveReset(c)
    <2>1. PICK p \in {"reset", "decide"} : To(c, [caller[c] EXCEPT !.pc = p])
        BY <1>5 DEF ResolveCheckout, ResolveReset
    <2>2. /\ caller[c].pc \in {"switch", "reset"}
          /\ UNCHANGED <<remote, origin, ever, lost, discarded, miscounted, binding, chosen, announced,
                         repoCalls>>
        BY <1>5 DEF ResolveCheckout, ResolveReset, In
    <2> DEFINE s == [caller[c] EXCEPT !.pc = p]
    <2>3. s \in Caller /\ s.pc = p /\ s.keep = "keep_github" /\ s.keep \in chosen
        BY <1>1, <2>2, ResolveMoves DEF RepoInv, DecisionKnown, ResolvePC
    <2>4. To(c, s)
        BY <2>1
    <2> HIDE DEF s
    <2>5. /\ local' \in Branch /\ raced' \in BOOLEAN
          /\ dropped' = dropped \cup (local \ local') /\ dropped' \in Branch
          /\ (raced => raced') /\ (~raced' => local \subseteq local' \/ ~HeadRead)
        <3>1. CASE ResolveCheckout(c)
            BY <1>1, <3>1, CheckoutLeaves DEF ResolveCheckout
        <3>2. CASE ResolveReset(c)
            <4>1. caller[c].pc = "reset"
                BY <3>2 DEF ResolveReset, In
            <4>2. UNION caller[c].target \in Branch /\ origin \in Branch
                BY <1>1, <4>1, CallerFields DEF Target, Branch, ResolvePC, RepoTypeOK
            <4>3. ResetTo(UNION caller[c].target) \/ ResetTo(origin)
                BY <3>2 DEF ResolveReset
            <4> QED BY <1>1, <4>2, <4>3, ResetLeaves
        <3> QED BY <1>5, <3>1, <3>2
    <2>6. RepoTypeOK'
        BY <1>1, <2>2, <2>3, <2>4, <2>5, RepoTypes DEF RepoTypeOK
    <2>7. LossIsChosen'
        BY <2>2, <2>3 DEF RepoInv, PublishIsSound, LossIsChosen
    <2>8. AnnouncedIsPublished'
        BY <2>2, <2>5 DEF RepoInv, PublishIsSound, AnnouncedIsPublished
    <2> QED BY <2>2, <2>3, <2>4, <2>5, <2>6, <2>7, <2>8, RepoGoes DEF RepoInv, PublishPC
<1>4. CASE ResolveWrite(c)
    <2>1. caller[c].keep \in chosen
        BY <1>4 DEF ResolveWrite, In, RepoInv, DecisionKnown, ResolvePC
    <2> DEFINE f == caller[c].keep = "keep_ottercamp"
    <2>2. binding' = [binding EXCEPT !.conflict = "resolved", !.force = f] /\ f \in BOOLEAN
          /\ (f => "keep_ottercamp" \in chosen)
        BY <1>4, <2>1 DEF ResolveWrite, Decided
    <2> HIDE DEF f
    <2>3. (binding'.force => "keep_ottercamp" \in chosen)
          /\ binding' \in [conflict : {"none", "needs_decision", "resolved"}, target : Target, force : BOOLEAN]
        BY <1>1, <2>2, BindingType DEF Target
    <2> QED BY <1>4, <2>3, RepoEnds DEF ResolveWrite, In
<1> QED BY <1>2, <1>3, <1>4, <1>5 DEF Resolving

\* A call that reads the preflight on to the push keeps what it read.
LEMMA PublishMoves ==
    ASSUME RepoTypeOK, NEW c \in RepoClient, caller[c].pc \in {"ahead", "push", "settle", "announce"},
           NEW p \in {"push", "settle", "announce"}
    PROVE  LET s == [caller[c] EXCEPT !.pc = p]
           IN  s \in Caller /\ s.pc = p /\ s.required = caller[c].required /\ s.head = caller[c].head
<1> DEFINE q == caller[c]
           s == [pc |-> p, required |-> q.required, confirmed |-> q.confirmed, head |-> q.head]
<1>1. /\ q = [pc |-> q.pc, required |-> q.required, confirmed |-> q.confirmed, head |-> q.head]
      /\ q.required \in BOOLEAN /\ q.confirmed \in BOOLEAN /\ q.head \in Branch
    BY CallerFields
<1>2. \A o, r, f, h, n : [[pc |-> o, required |-> r, confirmed |-> f, head |-> h] EXCEPT !.pc = n]
                            = [pc |-> n, required |-> r, confirmed |-> f, head |-> h]
    OBVIOUS
<1>3. [q EXCEPT !.pc = p] = s
    BY <1>1, <1>2
<1>4. s \in Caller /\ s.pc = p /\ s.required = q.required /\ s.head = q.head
    BY <1>1 DEF Caller
<1> QED BY <1>3, <1>4

LEMMA PreflightStep ==
    ASSUME RepoInv, NEW c \in RepoClient,
           (\E confirmed \in BOOLEAN : PublishRead(c, confirmed))
                \/ PublishFetch(c) \/ PublishHead(c) \/ PublishAhead(c)
    PROVE  RepoInv'
<1>1. RepoTypeOK /\ binding \in [conflict : {"none", "needs_decision", "resolved"}, target : Target, force : BOOLEAN]
      /\ chosen \subseteq KeepWhose
    BY DEF RepoInv, RepoTypeOK
<1>2. ASSUME NEW confirmed \in BOOLEAN, PublishRead(c, confirmed) PROVE RepoInv'
    <2> DEFINE s == [pc |-> "fetch", required |-> binding.force, confirmed |-> confirmed]
    <2>1. s \in Caller /\ s.pc = "fetch" /\ s.required = binding.force
        BY <1>1 DEF Caller
    <2>2. To(c, s) /\ Call(c) /\ UNCHANGED <<gitVars, lossVars, binding, chosen, announced>>
        BY <1>2 DEF PublishRead
    <2> HIDE DEF s
    <2> QED BY <1>1, <2>1, <2>2, RepoQuiet DEF RepoInv, ResolvePC
<1>3. CASE PublishFetch(c)
    <2> DEFINE q == caller[c]
               s == [pc |-> "head", required |-> q.required, confirmed |-> q.confirmed]
    <2>1. q.pc = "fetch" /\ q = [pc |-> q.pc, required |-> q.required, confirmed |-> q.confirmed]
          /\ q.required \in BOOLEAN /\ q.confirmed \in BOOLEAN
        BY <1>1, <1>3, CallerFields DEF PublishFetch, In
    <2>2. \A o, r, f, n : [[pc |-> o, required |-> r, confirmed |-> f] EXCEPT !.pc = n]
                            = [pc |-> n, required |-> r, confirmed |-> f]
        OBVIOUS
    <2>3. [q EXCEPT !.pc = "head"] = s
        BY <2>1, <2>2
    <2>4. /\ origin' = remote /\ To(c, s)
          /\ UNCHANGED <<remote, local, ever, lost, dropped, discarded, miscounted, raced, binding, chosen,
                         announced, repoCalls>>
        BY <1>3, <2>3 DEF PublishFetch, In, lossVars
    <2>5. s \in Caller /\ s.pc = "head" /\ s.required = q.required
        BY <2>1 DEF Caller
    <2>6. s.required => "keep_ottercamp" \in chosen
        BY <2>1, <2>5 DEF RepoInv, DecisionKnown, PublishPC
    <2> HIDE DEF s
    <2>7. RepoTypeOK'
        BY <1>1, <2>4, <2>5, RepoTypes DEF RepoTypeOK
    <2>8. LossIsChosen' /\ AnnouncedIsPublished'
        BY <2>4 DEF RepoInv, PublishIsSound, LossIsChosen, AnnouncedIsPublished
    <2> QED BY <2>4, <2>5, <2>6, <2>7, <2>8, RepoGoes DEF RepoInv, ResolvePC
<1>4. CASE PublishHead(c)
    <2>1. UNCHANGED <<gitVars, lossVars, binding, chosen, announced, repoCalls>>
        BY <1>4 DEF PublishHead, In
    <2>2. CASE Return(c)
        BY <1>1, <2>1, <2>2, RepoEnds DEF RepoInv
    <2>3. CASE ~Return(c)
        <3> DEFINE q == caller[c]
                   s == [pc |-> "ahead", required |-> q.required, confirmed |-> q.confirmed, head |-> local]
        <3>1. To(c, s)
            BY <1>4, <2>3 DEF PublishHead
        <3>2. q.pc = "head" /\ q.required \in BOOLEAN /\ q.confirmed \in BOOLEAN
            BY <1>1, <1>4, CallerFields DEF PublishHead, In
        <3>3. s \in Caller /\ s.pc = "ahead" /\ s.required = q.required /\ s.head = local
            BY <1>1, <3>2 DEF Caller, RepoTypeOK
        <3>4. s.required => "keep_ottercamp" \in chosen
            BY <3>2, <3>3 DEF RepoInv, DecisionKnown, PublishPC
        <3> HIDE DEF s
        <3> QED BY <1>1, <2>1, <3>1, <3>3, <3>4, RepoQuiet DEF RepoInv, ResolvePC
    <2> QED BY <2>2, <2>3
<1>5. CASE PublishAhead(c)
    <2>1. UNCHANGED <<gitVars, lost, dropped, discarded, raced, binding, chosen, announced, repoCalls>>
          /\ caller[c].pc = "ahead"
        BY <1>5 DEF PublishAhead, In
    <2>2. CASE Return(c) /\ UNCHANGED miscounted
        <3>1. UNCHANGED lossVars
            BY <2>1, <2>2 DEF lossVars
        <3> QED BY <1>1, <2>1, <2>2, <3>1, RepoEnds DEF RepoInv
    <2>3. CASE ~(Return(c) /\ UNCHANGED miscounted)
        <3> DEFINE h == caller[c].head
        <3>1. PICK count \in CommitCounts :
                /\ To(c, [caller[c] EXCEPT !.pc = AfterAhead(count)])
                /\ miscounted' = miscounted \cup {d \in {h} : count = {} /\ ~(local \subseteq origin)}
            BY <1>5, <2>3 DEF PublishAhead
        <3> DEFINE p == AfterAhead(count)
                   s == [caller[c] EXCEPT !.pc = p]
        <3>2. To(c, s)
            BY <3>1
        <3>3. p = (IF count = {} THEN "announce" ELSE "push")
            BY DEF AfterAhead
        <3> HIDE DEF p
        <3>4. p \in {"push", "settle", "announce"}
            BY <3>3
        <3>5. s \in Caller /\ s.pc = p /\ s.required = caller[c].required /\ s.head = h
            BY <1>1, <2>1, <3>4, PublishMoves
        <3>6. s.required => "keep_ottercamp" \in chosen
            BY <2>1, <3>5 DEF RepoInv, DecisionKnown, PublishPC
        <3>7. ~raced => h \subseteq local
            BY <2>1 DEF RepoInv, HeadKnown
        <3>8. s.pc = "announce" => h \in miscounted' \/ local \subseteq ever
            <4>1. CASE local \subseteq origin
                BY <4>1 DEF RepoInv
            <4>2. CASE ~(local \subseteq origin)
                BY <3>1, <3>3, <3>5, <4>2
            <4> QED BY <4>1, <4>2
        <3> HIDE DEF s
        <3>9. s.pc \notin ResolvePC \cup {"settle", "ahead"}
            BY <3>3, <3>5 DEF ResolvePC
        <3>10. ~raced => (s.pc \in {"ahead", "push"} => s.head \subseteq local)
            BY <3>5, <3>7
        <3>11. ~raced => (s.pc \in {"settle", "announce"} => s.head \in miscounted' \/ s.head \subseteq ever)
            BY <3>5, <3>7, <3>8, <3>9
        <3>12. miscounted \subseteq miscounted' /\ miscounted' \subseteq Branch
            <4>1. h \in Branch
                BY <1>1, <2>1, CallerFields
            <4> QED BY <1>1, <3>1, <4>1 DEF RepoTypeOK
        <3> QED BY <1>1, <2>1, <3>2, <3>5, <3>6, <3>9, <3>10, <3>11, <3>12, RepoCounts
                DEF RepoInv, ResolvePC
    <2> QED BY <2>2, <2>3
<1> QED BY <1>2, <1>3, <1>4, <1>5

LEMMA PushStep ==
    ASSUME RepoInv, NEW c \in RepoClient, PublishPush(c)
    PROVE  RepoInv'
<1>1. RepoTypeOK /\ binding \in [conflict : {"none", "needs_decision", "resolved"}, target : Target, force : BOOLEAN]
      /\ chosen \subseteq KeepWhose
    BY DEF RepoInv, RepoTypeOK
<1>2. caller[c].pc = "push" 
      /\ UNCHANGED <<local, dropped, discarded, miscounted, raced, binding, chosen, announced, repoCalls>>
    BY DEF PublishPush, In
<1>3. caller[c].required => "keep_ottercamp" \in chosen
    BY <1>2 DEF RepoInv, DecisionKnown, PublishPC
<1>4. CASE ~(remote \subseteq local \/ Forces(c))
    <2>1. Return(c) /\ UNCHANGED <<remote, origin, ever, lost>>
        BY <1>4 DEF PublishPush
    <2>2. UNCHANGED <<gitVars, lossVars>>
        BY <1>2, <2>1 DEF gitVars, lossVars
    <2> QED BY <1>1, <1>2, <2>1, <2>2, RepoEnds DEF RepoInv
<1>5. CASE remote \subseteq local \/ Forces(c)
    <2> DEFINE p == IF caller[c].required THEN "settle" ELSE "announce"
               s == [caller[c] EXCEPT !.pc = p]
    <2>1. /\ remote' = local /\ origin' = local /\ ever' = ever \cup local
          /\ lost' = lost \cup (remote \ local) /\ To(c, s)
        BY <1>5 DEF PublishPush
    <2>2. p \in {"settle", "announce"}
        OBVIOUS
    <2> HIDE DEF p
    <2>3. s \in Caller /\ s.pc = p /\ s.required = caller[c].required /\ s.head = caller[c].head
        <3>1. caller[c].pc \in {"ahead", "push", "settle", "announce"}
              /\ p \in {"push", "settle", "announce"}
            BY <1>2, <2>2
        <3> QED BY <1>1, <3>1, PublishMoves, Zenon
    <2>4. ~raced => s.head \subseteq local
        BY <1>2, <2>3 DEF RepoInv, HeadKnown
    <2> HIDE DEF s
    <2>5. {remote', origin', local', ever', lost', dropped', discarded'} \subseteq Branch
        BY <1>1, <1>2, <2>1 DEF RepoTypeOK, Branch
    <2>6. RepoTypeOK'
        BY <1>1, <1>2, <2>1, <2>3, <2>5, RepoTypes DEF RepoTypeOK
    <2>7. LossIsChosen'
        <3>1. CASE remote \subseteq local
            BY <1>2, <2>1, <3>1 DEF RepoInv, PublishIsSound, LossIsChosen
        <3>2. CASE Forces(c)
            BY <1>2, <1>3, <3>2 DEF Forces, RepoInv, PublishIsSound, LossIsChosen
        <3> QED BY <1>5, <3>1, <3>2
    <2>8. AnnouncedIsPublished'
        BY <1>2, <2>1 DEF RepoInv, PublishIsSound, AnnouncedIsPublished
    <2>9. s.pc \notin ResolvePC \cup {"ahead", "push"} /\ (s.required => "keep_ottercamp" \in chosen)
        BY <1>3, <2>2, <2>3 DEF ResolvePC
    <2>10. ~raced => s.head \subseteq ever'
        BY <2>1, <2>4
    <2> QED BY <1>2, <2>1, <2>6, <2>7, <2>8, <2>9, <2>10, RepoGoes DEF RepoInv, ResolvePC
<1> QED BY <1>4, <1>5

LEMMA SettlingStep ==
    ASSUME RepoInv, NEW c \in RepoClient, PublishSettle(c) \/ PublishAnnounce(c)
    PROVE  RepoInv'
<1>1. RepoTypeOK /\ binding \in [conflict : {"none", "needs_decision", "resolved"}, target : Target, force : BOOLEAN]
      /\ chosen \subseteq KeepWhose
    BY DEF RepoInv, RepoTypeOK
<1>2. CASE PublishSettle(c)
    <2> DEFINE s == [caller[c] EXCEPT !.pc = "announce"]
    <2>1. caller[c].pc = "settle" /\ binding' = [binding EXCEPT !.force = FALSE] /\ To(c, s)
          /\ UNCHANGED <<gitVars, lossVars, chosen, announced, repoCalls>>
        BY <1>2 DEF PublishSettle, In
    <2>2. s \in Caller /\ s.pc = "announce" /\ s.required = caller[c].required /\ s.head = caller[c].head
        BY <1>1, <2>1, PublishMoves
    <2>3. (s.required => "keep_ottercamp" \in chosen) /\ (~raced => s.head \in miscounted \/ s.head \subseteq ever)
        BY <2>1, <2>2 DEF RepoInv, DecisionKnown, HeadKnown, PublishPC
    <2>4. binding' \in [conflict : {"none", "needs_decision", "resolved"}, target : Target, force : BOOLEAN]
          /\ binding'.force = FALSE
        BY <1>1, <2>1
    <2> HIDE DEF s
    <2> QED BY <1>1, <2>1, <2>2, <2>3, <2>4, RepoQuiet DEF ResolvePC
<1>3. CASE PublishAnnounce(c)
    <2> DEFINE h == caller[c].head
    <2>1. caller[c].pc = "announce" /\ announced' = announced \cup {h} /\ To(c, Off)
          /\ UNCHANGED <<remote, origin, local, ever, lost, dropped, discarded, miscounted, raced, binding,
                         chosen, repoCalls>>
        BY <1>3 DEF PublishAnnounce, In, Return, gitVars, lossVars
    <2>2. h \in Branch /\ (~raced => h \in miscounted \/ h \subseteq ever)
        BY <1>1, <2>1, CallerFields DEF RepoInv, HeadKnown
    <2> HIDE DEF h
    <2>3. RepoTypeOK'
        BY <1>1, <2>1, <2>2, IdleCaller, RepoTypes DEF RepoTypeOK
    <2>4. LossIsChosen'
        BY <2>1 DEF RepoInv, PublishIsSound, LossIsChosen
    <2>5. AnnouncedIsPublished'
        BY <2>1, <2>2 DEF RepoInv, PublishIsSound, AnnouncedIsPublished
    <2>6. Off.pc \notin ResolvePC \cup PublishPC
        BY DEF Off, PublishPC, ResolvePC
    <2> HIDE DEF Off
    <2> QED BY <2>1, <2>3, <2>4, <2>5, <2>6, RepoGoes DEF RepoInv, PublishPC, ResolvePC
<1> QED BY <1>2, <1>3

LEMMA CommitStep ==
    ASSUME RepoInv, (\E g \in GitHubCommit : CommitOnGitHub(g)) \/ (\E o \in LocalCommit : CommitHere(o))
    PROVE  RepoInv'
<1> DEFINE Grows(x) ==
        /\ \/ remote' = remote \cup {x} /\ ever' = ever \cup {x} /\ local' = local
           \/ remote' = remote /\ ever' = ever /\ local' = local \cup {x}
        /\ UNCHANGED <<origin, lost, dropped, discarded, miscounted, raced, binding, caller, chosen, announced,
                       repoCalls>>
<1>1. PICK x \in GitHubCommit \cup LocalCommit : Grows(x)
    <2>1. ASSUME NEW g \in GitHubCommit, CommitOnGitHub(g) PROVE Grows(g)
        BY <2>1 DEF CommitOnGitHub, callVars, lossVars
    <2>2. ASSUME NEW o \in LocalCommit, CommitHere(o) PROVE Grows(o)
        BY <2>2 DEF CommitHere, callVars, lossVars
    <2> QED BY <2>1, <2>2
<1>2. RepoTypeOK'
    <2>1. {remote', origin', local', ever', lost', dropped', discarded'} \subseteq Branch
        BY <1>1 DEF RepoInv, RepoTypeOK, Branch
    <2> QED BY <1>1, <2>1 DEF RepoInv, RepoTypeOK, Caller, Branch, Target, KeepWhose
<1>3. remote' \subseteq ever' /\ origin' \subseteq ever' /\ ever \subseteq ever' /\ local \subseteq local'
    BY <1>1 DEF RepoInv
<1>4. LossIsChosen' /\ AnnouncedIsPublished'
    BY <1>1, <1>3 DEF RepoInv, PublishIsSound, LossIsChosen, AnnouncedIsPublished
<1>5. ASSUME NEW d \in RepoClient PROVE DecisionKnown(caller[d])' /\ (~raced' => HeadKnown(caller[d])')
    <2>1. DecisionKnown(caller[d])'
        BY <1>1 DEF RepoInv, DecisionKnown
    <2>2. ASSUME ~raced' PROVE HeadKnown(caller[d])'
        BY <1>1, <1>3, <2>2 DEF RepoInv, HeadKnown
    <2> QED BY <2>1, <2>2
<1> QED BY <1>1, <1>2, <1>3, <1>4, <1>5 DEF RepoInv, PublishIsSound

LEMMA RepoStep == RepoInv /\ [RepoNext]_repoVars => RepoInv'
<1> SUFFICES ASSUME RepoInv, [RepoNext]_repoVars PROVE RepoInv'
    OBVIOUS
<1>1. CASE UNCHANGED repoVars
    BY <1>1 DEF repoVars, RepoInv, RepoTypeOK, PublishIsSound, LossIsChosen, AnnouncedIsPublished,
        DecisionKnown, HeadKnown
<1>2. CASE RepoNext
    BY <1>2, CommitStep, CloningStep, ResolvingStep, PreflightStep, PushStep, SettlingStep
       DEF RepoNext, Publishing
<1> QED BY <1>1, <1>2

\* The variables of the repository, its row and the calls keep their types.
THEOREM RepoTypesKept == RepoSpec => []RepoTypeOK
<1>1. RepoInv => RepoTypeOK
    BY DEF RepoInv
<1> QED BY <1>1, RepoInitInv, RepoStep, PTL DEF RepoSpec

\* Commits leave GitHub, or the clone, only when somebody resolved a conflict that way or the
\* second checkout of the clone manager discarded them, and the linked issues are closed with a
\* head that was on GitHub unless the commits could not be counted or the clone was reset under
\* the publish, for any number of calls and commits: EnsureLocalClone, ResolveProjectConflict,
\* UpdateSettings and PublishProject overlapping.
THEOREM PublishSound == RepoSpec => []PublishIsSound
<1>1. RepoInv => PublishIsSound
    BY DEF RepoInv
<1> QED BY <1>1, RepoInitInv, RepoStep, PTL DEF RepoSpec

-----------------------------------------------------------------------------
(* GitHubSync *)

Due(j) == jobs[j].status \in {"queued", "retrying"}

\* A job that is due, or not there yet, has attempts left.
DueHasAttempts ==
    \A j \in Job : jobs[j].status \in {"none", "queued", "retrying"} => jobs[j].attempts < MaxAttempts

\* A pickup under way holds the lock of a job that is due, and nobody else does.
PickingLocks ==
    \A k \in Consumer : consumer[k].pc = "picking" =>
        /\ jobs[consumer[k].job].status \in {"queued", "retrying"}
        /\ \A l \in Consumer : consumer[l].pc = "picking" /\ consumer[k].job = consumer[l].job => k = l

\* A consumer at work has its job in progress, unless the job was replayed under it.
WorkInProgress ==
    \A k \in Consumer : consumer[k].pc = "working" /\ consumer[k].job \notin doubled
                            => jobs[consumer[k].job].status = "in_progress"

\* OneConsumer, by the places of the consumers.
Alone ==
    \A k, l \in Consumer :
        consumer[k].pc # "idle" /\ consumer[l].pc # "idle" /\ consumer[k].job = consumer[l].job
            => k = l \/ consumer[k].job \in doubled

\* The delivery is taken in, or failed, or somebody is at it.
Handled(d) ==
    \/ d \in Unbound /\ jobs[d].status # "none"
    \/ d \in botched
    \/ \E h \in Hook : hook[h] # NoHook /\ hook[h].d = d

\* The memory of a server is marked before the delivery is processed.
IntakeInv == (\A s \in WebServer : \A d \in seen[s] : Handled(d)) /\ \A d \in repeated : Handled(d)

ConsumerInv == DueHasAttempts /\ PickingLocks /\ WorkInProgress /\ Alone

SyncInv == SyncTypeOK /\ ConsumerInv /\ IntakeInv /\ DeadLetterIsCurrent

Row == [status : JobStatus, attempts : 0 .. MaxAttempts]

SomeConsumer == {NoJob} \cup [pc : {"picking", "working"}, job : Job]

LEMMA ConsumerShape ==
    ASSUME NEW r \in SomeConsumer
    PROVE  /\ r.pc \in {"idle", "picking", "working"} /\ (r = NoJob <=> r.pc = "idle")
           /\ r.pc # "idle" => /\ r.job \in Job /\ [r EXCEPT !.pc = "working"] \in SomeConsumer
                               /\ [r EXCEPT !.pc = "working"].pc = "working"
                               /\ [r EXCEPT !.pc = "working"].job = r.job
BY DEF SomeConsumer, NoJob

LEMMA SyncImplies == SyncInv => QueueIsSound
<1> SUFFICES ASSUME SyncInv PROVE QueueIsSound
    OBVIOUS
<1>1. DuplicateIsTakenIn
    BY DEF SyncInv, IntakeInv, Handled, DuplicateIsTakenIn
<1>2. OneConsumer
    <2>1. \A k \in Consumer : consumer[k] # NoJob => consumer[k].pc # "idle"
        BY ConsumerShape DEF SyncInv, SyncTypeOK, SomeConsumer
    <2> QED BY <2>1 DEF SyncInv, ConsumerInv, Alone, OneConsumer
<1> QED BY <1>1, <1>2 DEF SyncInv, QueueIsSound

LEMMA SyncInitInv == SyncInit => SyncInv
<1> SUFFICES ASSUME SyncInit PROVE SyncInv
    OBVIOUS
<1>1. 0 \in 0 .. MaxAttempts /\ 0 \in 0 .. MaxArrivals /\ 0 \in 0 .. MaxReplays /\ 0 < MaxAttempts
    BY SyncAssumption
<1>2. SyncTypeOK
    <2>1. jobs \in [Job -> [status : JobStatus, attempts : 0 .. MaxAttempts]] /\ letters \in [Job -> 0 .. MaxAttempts]
        BY <1>1 DEF SyncInit, JobStatus
    <2>2. seen \in [WebServer -> SUBSET Delivery] /\ {botched, repeated} \subseteq SUBSET Delivery
        BY DEF SyncInit
    <2>3. /\ hook \in [Hook -> {NoHook} \cup [pc : {"event"}, d : Delivery]]
          /\ consumer \in [Consumer -> {NoJob} \cup [pc : {"picking", "working"}, job : Job]]
          /\ doubled \subseteq Job
        BY DEF SyncInit
    <2>4. arrivals \in 0 .. MaxArrivals /\ replays \in 0 .. MaxReplays
        BY <1>1 DEF SyncInit
    <2> QED BY <2>1, <2>2, <2>3, <2>4 DEF SyncTypeOK
<1>3. \A j \in Job : jobs[j].status = "none" /\ jobs[j].attempts = 0
    BY DEF SyncInit
<1>4. \A k \in Consumer : consumer[k].pc = "idle"
    BY DEF SyncInit, NoJob
<1>5. ConsumerInv
    BY <1>1, <1>3, <1>4 DEF ConsumerInv, DueHasAttempts, PickingLocks, WorkInProgress, Alone
<1>6. IntakeInv
    BY DEF SyncInit, IntakeInv
<1>7. DeadLetterIsCurrent
    BY <1>3 DEF DeadLetterIsCurrent
<1> QED BY <1>2, <1>5, <1>6, <1>7 DEF SyncInv

\* The intake keeps its part when nothing happens to deliveries and calls, and no job goes.
LEMMA IntakeKept ==
    ASSUME IntakeInv, UNCHANGED <<seen, repeated, hook, botched>>,
           \A j \in Job : jobs[j].status # "none" => jobs'[j].status # "none"
    PROVE  IntakeInv'
<1>1. ASSUME NEW d, Handled(d) PROVE Handled(d)'
    BY <1>1 DEF Handled, Job
<1> QED BY <1>1 DEF IntakeInv

\* What Enqueue does to the rows.
LEMMA Enqueues ==
    ASSUME SyncTypeOK, NEW j \in Job, Enqueue(j)
    PROVE  /\ jobs' \in [Job -> Row] /\ jobs'[j].status # "none"
           /\ \A i \in Job : \/ jobs'[i] = jobs[i]
                             \/ /\ jobs[i].status = "none" /\ jobs'[i].status = "queued"
                                /\ jobs'[i].attempts = jobs[i].attempts
<1>1. jobs \in [Job -> Row]
    BY DEF SyncTypeOK, Row
<1>2. CASE Unknown(j)
    <2>1. jobs' = [jobs EXCEPT ![j].status = "queued"] /\ jobs[j].status = "none"
        BY <1>2 DEF Enqueue, Unknown
    <2> QED BY <1>1, <2>1 DEF Row, JobStatus
<1>3. CASE ~Unknown(j)
    BY <1>1, <1>3 DEF Enqueue, Unknown
<1> QED BY <1>2, <1>3

\* The queue keeps its part when jobs are only added to it.
LEMMA QueueKept ==
    ASSUME SyncTypeOK, ConsumerInv, DeadLetterIsCurrent, UNCHANGED <<consumer, doubled, letters>>,
           \A i \in Job : \/ jobs'[i] = jobs[i]
                          \/ /\ jobs[i].status = "none" /\ jobs'[i].status = "queued"
                             /\ jobs'[i].attempts = jobs[i].attempts
    PROVE  ConsumerInv' /\ DeadLetterIsCurrent'
<1>1. \A k \in Consumer : consumer[k].pc # "idle" => consumer[k].job \in Job
    BY ConsumerShape DEF SyncTypeOK, SomeConsumer
<1>2. DueHasAttempts'
    BY DEF ConsumerInv, DueHasAttempts
<1>3. PickingLocks'
    BY <1>1 DEF ConsumerInv, PickingLocks, Due
<1>4. WorkInProgress'
    BY <1>1 DEF ConsumerInv, WorkInProgress
<1>5. Alone'
    BY DEF ConsumerInv, Alone
<1>6. DeadLetterIsCurrent'
    BY DEF DeadLetterIsCurrent
<1> QED BY <1>2, <1>3, <1>4, <1>5, <1>6 DEF ConsumerInv

LEMMA WebhookStep ==
    ASSUME SyncInv, Webhook
    PROVE  SyncInv'
<1>0. SyncTypeOK /\ ConsumerInv /\ IntakeInv /\ DeadLetterIsCurrent
    BY DEF SyncInv
<1>1. ASSUME NEW h \in Hook, NEW s \in WebServer, NEW d \in Delivery, Receive(h, s, d) PROVE SyncInv'
    <2>1. UNCHANGED <<jobs, botched, letters, consumer, doubled, replays>> /\ hook[h] = NoHook
          /\ arrivals' \in 0 .. MaxArrivals
        BY <1>0, <1>1, SyncAssumption DEF Receive, queueVars, Arrival, SyncTypeOK
    <2>2. ConsumerInv' /\ DeadLetterIsCurrent'
        BY <1>0, <2>1, QueueKept
    <2>3. CASE d \in seen[s]
        <3>1. repeated' = repeated \cup {d} /\ UNCHANGED <<seen, hook>>
            BY <1>1, <2>3 DEF Receive
        <3>2. SyncTypeOK'
            BY <1>0, <2>1, <3>1 DEF SyncTypeOK, Job
        <3>3. \A e : Handled(e) => Handled(e)'
            BY <2>1, <3>1 DEF Handled
        <3>4. IntakeInv'
            BY <1>0, <2>3, <3>1, <3>3 DEF IntakeInv
        <3> QED BY <2>2, <3>2, <3>4 DEF SyncInv
    <2>4. CASE d \notin seen[s]
        <3>1. /\ seen' = [seen EXCEPT ![s] = @ \cup {d}] /\ UNCHANGED repeated
              /\ hook' = [hook EXCEPT ![h] = [pc |-> "event", d |-> d]]
            BY <1>1, <2>4 DEF Receive
        <3>2. hook' \in [Hook -> {NoHook} \cup [pc : {"event"}, d : Delivery]]
              /\ seen' \in [WebServer -> SUBSET Delivery]
            BY <1>0, <3>1 DEF SyncTypeOK
        <3>3. SyncTypeOK'
            BY <1>0, <2>1, <3>1, <3>2 DEF SyncTypeOK, Job
        <3>4. hook'[h] # NoHook /\ hook'[h].d = d /\ \A g \in Hook : g # h => hook'[g] = hook[g]
            BY <1>0, <3>1 DEF SyncTypeOK, NoHook
        <3>5. \A e : Handled(e) => Handled(e)'
            BY <2>1, <3>4 DEF Handled
        <3>6. Handled(d)'
            BY <3>4 DEF Handled
        <3>7. \A t \in WebServer : \A e \in seen'[t] : e \in seen[t] \/ e = d
            BY <1>0, <3>1 DEF SyncTypeOK
        <3>8. IntakeInv'
            BY <1>0, <3>1, <3>5, <3>6, <3>7 DEF IntakeInv
        <3> QED BY <2>2, <3>3, <3>8 DEF SyncInv
    <2> QED BY <2>3, <2>4
<1>2. ASSUME NEW h \in Hook, EnqueueEvent(h) \/ HookFails(h) PROVE SyncInv'
    <2> DEFINE d == hook[h].d
    <2>1. /\ hook[h] # NoHook /\ hook' = [hook EXCEPT ![h] = NoHook]
          /\ UNCHANGED <<letters, consumer, doubled, replays, seen, repeated, arrivals>>
        BY <1>2 DEF EnqueueEvent, HookFails, HookEnds, queueVars, NoHook
    <2>2. d \in Delivery
        BY <1>0, <2>1 DEF SyncTypeOK
    <2>3. \/ botched' = botched \cup {d} /\ jobs' = jobs
          \/ d \in Unbound /\ Enqueue(d) /\ botched' = botched
        BY <1>2 DEF EnqueueEvent, HookFails, Refuses
    <2> HIDE DEF d
    <2>4. /\ jobs' \in [Job -> Row]
          /\ \A i \in Job : \/ jobs'[i] = jobs[i]
                            \/ /\ jobs[i].status = "none" /\ jobs'[i].status = "queued"
                               /\ jobs'[i].attempts = jobs[i].attempts
          /\ \/ d \in botched'
             \/ d \in Unbound /\ jobs'[d].status # "none"
        <3>1. jobs \in [Job -> Row]
            BY <1>0 DEF SyncTypeOK, Row
        <3>2. CASE botched' = botched \cup {d} /\ jobs' = jobs
            <4>1. d \in botched'
                BY <3>2
            <4> QED BY <3>1, <3>2, <4>1
        <3>3. CASE d \in Unbound /\ Enqueue(d) /\ botched' = botched
            <4>1. d \in Job
                BY <3>3 DEF Job
            <4> QED BY <1>0, <3>3, <4>1, Enqueues
        <3> QED BY <2>3, <3>2, <3>3
    <2>5. ConsumerInv' /\ DeadLetterIsCurrent'
        BY <1>0, <2>1, <2>4, QueueKept
    <2>6. SyncTypeOK'
        <3>1. hook' \in [Hook -> {NoHook} \cup [pc : {"event"}, d : Delivery]]
            BY <1>0, <2>1 DEF SyncTypeOK
        <3>2. {botched', repeated'} \subseteq SUBSET Delivery
            BY <1>0, <2>1, <2>2, <2>3 DEF SyncTypeOK
        <3> QED BY <1>0, <2>1, <2>4, <3>1, <3>2 DEF SyncTypeOK, Row
    <2>7. \A g \in Hook : g = h \/ hook'[g] = hook[g]
        BY <1>0, <2>1 DEF SyncTypeOK
    <2>8. ASSUME NEW e, Handled(e) PROVE Handled(e)'
        <3>1. CASE e = d
            BY <2>4, <3>1 DEF Handled
        <3>2. CASE e # d
            <4>1. e \in Unbound /\ jobs[e].status # "none" => jobs'[e].status # "none"
                BY <2>4 DEF Job
            <4>2. botched \subseteq botched'
                BY <2>3
            <4>3. (\E g \in Hook : hook[g] # NoHook /\ hook[g].d = e)
                    => \E g \in Hook : hook'[g] # NoHook /\ hook'[g].d = e
                BY <2>7, <3>2 DEF d
            <4> QED BY <2>8, <4>1, <4>2, <4>3 DEF Handled
        <3> QED BY <3>1, <3>2
    <2>9. IntakeInv'
        BY <1>0, <2>1, <2>8 DEF IntakeInv
    <2> QED BY <2>5, <2>6, <2>9 DEF SyncInv
<1>3. ASSUME NEW s \in WebServer, NEW d \in Delivery, Expire(s, d) PROVE SyncInv'
    <2>1. UNCHANGED <<jobs, hook, botched, repeated, arrivals, letters, consumer, doubled, replays>>
          /\ seen' = [seen EXCEPT ![s] = @ \ {d}]
        BY <1>3 DEF Expire, queueVars
    <2>2. ConsumerInv' /\ DeadLetterIsCurrent'
        BY <1>0, <2>1, QueueKept
    <2>3. seen' \in [WebServer -> SUBSET Delivery] /\ \A t \in WebServer : seen'[t] \subseteq seen[t]
        BY <1>0, <2>1 DEF SyncTypeOK
    <2>4. SyncTypeOK'
        BY <1>0, <2>1, <2>3 DEF SyncTypeOK, Job
    <2>5. \A e : Handled(e) => Handled(e)'
        BY <2>1 DEF Handled
    <2>6. IntakeInv'
        BY <1>0, <2>1, <2>3, <2>5 DEF IntakeInv
    <2> QED BY <2>2, <2>4, <2>6 DEF SyncInv
<1> QED BY <1>1, <1>2, <1>3 DEF Webhook

LEMMA ProducingStep ==
    ASSUME SyncInv, Producing
    PROVE  SyncInv'
<1>0. SyncTypeOK /\ ConsumerInv /\ IntakeInv /\ DeadLetterIsCurrent
    BY DEF SyncInv
<1>1. PICK j \in Job : /\ Enqueue(j) /\ (Arrival \/ UNCHANGED arrivals)
                       /\ UNCHANGED <<letters, consumer, doubled, replays, seen, hook, botched, repeated>>
    BY DEF Producing, PollDrift, PushSync, queueVars, Job
<1>2. /\ jobs' \in [Job -> Row]
      /\ \A i \in Job : \/ jobs'[i] = jobs[i]
                        \/ /\ jobs[i].status = "none" /\ jobs'[i].status = "queued"
                           /\ jobs'[i].attempts = jobs[i].attempts
    BY <1>0, <1>1, Enqueues
<1>3. ConsumerInv' /\ DeadLetterIsCurrent'
    BY <1>0, <1>1, <1>2, QueueKept
<1>4. IntakeInv'
    BY <1>0, <1>1, <1>2, IntakeKept
<1>5. arrivals' \in 0 .. MaxArrivals
    BY <1>0, <1>1, SyncAssumption DEF SyncTypeOK, Arrival
<1>6. SyncTypeOK'
    BY <1>0, <1>1, <1>2, <1>5 DEF SyncTypeOK, Row
<1> QED BY <1>3, <1>4, <1>6 DEF SyncInv

\* A consumer k goes on as r and leaves its job j as the row w: what k needs of the row, and what
\* those do that have the same job.
RowAgrees(r, j, w) ==
    r.pc # "idle" => /\ r.job = j
                     /\ r.pc = "picking" => w.status \in {"queued", "retrying"}
                     /\ r.pc = "working" => w.status = "in_progress"

OthersAgree(k, r, j, w) ==
    \A l \in Consumer \ {k} : consumer[l].pc # "idle" /\ consumer[l].job = j =>
        /\ consumer[l].pc = "picking" => w.status \in {"queued", "retrying"} /\ r.pc # "picking"
        /\ consumer[l].pc = "working" /\ j \notin doubled => w.status = "in_progress"
        /\ r.pc # "idle" => j \in doubled

LEMMA ConsumerGoes ==
    ASSUME SyncInv, NEW k \in Consumer, NEW r \in SomeConsumer, consumer' = [consumer EXCEPT ![k] = r],
           NEW j \in Job, NEW w \in Row, jobs' = [jobs EXCEPT ![j] = w], w.status # "none",
           UNCHANGED <<doubled, seen, hook, botched, repeated, arrivals, replays>>,
           letters' \in [Job -> 0 .. MaxAttempts], DeadLetterIsCurrent',
           w.status \in {"queued", "retrying"} => w.attempts < MaxAttempts,
           RowAgrees(r, j, w), OthersAgree(k, r, j, w)
    PROVE  SyncInv'
<1>0. SyncTypeOK /\ ConsumerInv /\ IntakeInv
    BY DEF SyncInv
<1>1. /\ \A l \in Consumer : consumer'[l] = IF l = k THEN r ELSE consumer[l]
      /\ \A i \in Job : jobs'[i] = IF i = j THEN w ELSE jobs[i]
    BY <1>0 DEF SyncTypeOK
<1>2. \A l \in Consumer : consumer[l].pc # "idle" => consumer[l].job \in Job
    BY <1>0, ConsumerShape DEF SyncTypeOK, SomeConsumer
<1>3. SyncTypeOK'
    <2>1. consumer' \in [Consumer -> SomeConsumer] /\ jobs' \in [Job -> Row]
        BY <1>0 DEF SyncTypeOK, SomeConsumer, Row
    <2> QED BY <1>0, <2>1 DEF SyncTypeOK, SomeConsumer, Row
<1>4. IntakeInv'
    BY <1>0, <1>1, IntakeKept
<1>5. DueHasAttempts'
    BY <1>0, <1>1 DEF ConsumerInv, DueHasAttempts
<1>6. PickingLocks'
    <2> SUFFICES ASSUME NEW l \in Consumer, consumer'[l].pc = "picking"
                 PROVE  /\ jobs'[consumer'[l].job].status \in {"queued", "retrying"}
                        /\ \A m \in Consumer : consumer'[m].pc = "picking" /\ consumer'[l].job = consumer'[m].job
                                                    => l = m
        BY DEF PickingLocks
    <2>1. jobs'[consumer'[l].job].status \in {"queued", "retrying"}
        <3>1. CASE l = k
            BY <1>1, <3>1 DEF RowAgrees
        <3>2. CASE l # k
            BY <1>0, <1>1, <1>2, <3>2 DEF ConsumerInv, PickingLocks, OthersAgree
        <3> QED BY <3>1, <3>2
    <2>2. ASSUME NEW m \in Consumer, consumer'[m].pc = "picking", consumer'[l].job = consumer'[m].job, l # m
          PROVE  FALSE
        BY <1>0, <1>1, <2>2 DEF ConsumerInv, PickingLocks, RowAgrees, OthersAgree
    <2> QED BY <2>1, <2>2
<1>7. WorkInProgress'
    BY <1>0, <1>1, <1>2 DEF ConsumerInv, WorkInProgress, RowAgrees, OthersAgree
<1>8. Alone'
    BY <1>0, <1>1 DEF ConsumerInv, Alone, RowAgrees, OthersAgree
<1> QED BY <1>3, <1>4, <1>5, <1>6, <1>7, <1>8 DEF SyncInv, ConsumerInv

LEMMA ConsumingStep ==
    ASSUME SyncInv, NEW k \in Consumer, Consuming(k)
    PROVE  SyncInv'
<1>0. SyncTypeOK /\ ConsumerInv /\ DeadLetterIsCurrent /\ jobs \in [Job -> Row]
    BY DEF SyncInv, SyncTypeOK, Row
<1>1. UNCHANGED <<doubled, seen, hook, botched, repeated, arrivals, replays>>
    BY DEF Consuming, PickupLocks, PickupCommits, MarkCompleted, RecordFailure, ConsumerDies, hookVars
<1>2. \A l \in Consumer : consumer[l] \in SomeConsumer
    BY <1>0 DEF SyncTypeOK, SomeConsumer
<1>3. NoJob \in SomeConsumer /\ NoJob.pc = "idle"
    BY DEF SomeConsumer, NoJob
<1>4. CASE PickupLocks(k)
    <2>1. PICK j \in Job : /\ Due(j) /\ ~Locked(j)
                           /\ consumer' = [consumer EXCEPT ![k] = [pc |-> "picking", job |-> j]]
        BY <1>4 DEF PickupLocks, Due
    <2> DEFINE r == [pc |-> "picking", job |-> j]
               w == jobs[j]
    <2>2. r \in SomeConsumer /\ r.pc = "picking" /\ r.job = j
        BY DEF SomeConsumer
    <2>3. w \in Row /\ jobs' = [jobs EXCEPT ![j] = w] /\ UNCHANGED <<jobs, letters>>
        BY <1>0, <1>4 DEF PickupLocks
    <2>4. w.status \in {"queued", "retrying"} /\ w.attempts < MaxAttempts
        BY <1>0, <2>1 DEF Due, ConsumerInv, DueHasAttempts
    <2>5. ASSUME NEW l \in Consumer \ {k}, consumer[l].pc # "idle", consumer[l].job = j
          PROVE  consumer[l].pc = "working" /\ j \in doubled
        <3>1. consumer[l].pc = "working"
            BY <1>2, <2>1, <2>5, ConsumerShape DEF Locked
        <3> QED BY <1>0, <2>4, <2>5, <3>1 DEF ConsumerInv, WorkInProgress
    <2>6. DeadLetterIsCurrent' /\ letters' \in [Job -> 0 .. MaxAttempts]
        BY <1>0, <2>3 DEF DeadLetterIsCurrent, SyncTypeOK
    <2>7. consumer' = [consumer EXCEPT ![k] = r]
        BY <2>1
    <2> HIDE DEF r, w
    <2>8. RowAgrees(r, j, w) /\ OthersAgree(k, r, j, w)
        BY <2>2, <2>4, <2>5 DEF RowAgrees, OthersAgree
    <2> QED BY <1>1, <2>2, <2>3, <2>4, <2>6, <2>7, <2>8, ConsumerGoes
<1>5. CASE PickupCommits(k)
    <2> DEFINE j == consumer[k].job
               r == [consumer[k] EXCEPT !.pc = "working"]
               w == [status |-> "in_progress", attempts |-> jobs[j].attempts + 1]
    <2>1. /\ consumer[k].pc = "picking" /\ consumer' = [consumer EXCEPT ![k] = r]
          /\ jobs' = [jobs EXCEPT ![j] = w] /\ UNCHANGED letters
        BY <1>5 DEF PickupCommits
    <2>2. j \in Job /\ r \in SomeConsumer /\ r.pc = "working" /\ r.job = j
        BY <1>2, <2>1, ConsumerShape
    <2>3. jobs[j].status \in {"queued", "retrying"} /\ jobs[j].attempts < MaxAttempts /\ jobs[j].attempts \in Nat
        BY <1>0, <2>1, <2>2 DEF ConsumerInv, PickingLocks, Due, DueHasAttempts, Row
    <2>4. w \in Row /\ w.status = "in_progress"
        BY <2>3, SyncAssumption DEF Row, JobStatus
    <2>5. ASSUME NEW l \in Consumer \ {k}, consumer[l].pc # "idle", consumer[l].job = j
          PROVE  consumer[l].pc # "picking" /\ j \in doubled
        BY <1>0, <2>1, <2>5 DEF ConsumerInv, PickingLocks, Alone
    <2> HIDE DEF j, r, w
    <2>6. DeadLetterIsCurrent' /\ letters' \in [Job -> 0 .. MaxAttempts]
        BY <1>0, <2>1, <2>2, <2>4 DEF DeadLetterIsCurrent, SyncTypeOK
    <2>7. RowAgrees(r, j, w) /\ OthersAgree(k, r, j, w)
        BY <2>2, <2>4, <2>5 DEF RowAgrees, OthersAgree
    <2> QED BY <1>1, <2>1, <2>2, <2>4, <2>6, <2>7, ConsumerGoes
<1>6. CASE MarkCompleted(k) \/ RecordFailure(k)
    <2> DEFINE j == consumer[k].job
    <2>1. consumer[k].pc = "working" /\ ~Locked(j) /\ consumer' = [consumer EXCEPT ![k] = NoJob]
        BY <1>6 DEF MarkCompleted, RecordFailure, Works
    <2>2. j \in Job
        BY <1>2, <2>1, ConsumerShape
    <2>3. PICK s \in {"completed", "retrying", "dead_letter"} :
            /\ jobs' = [jobs EXCEPT ![j].status = s]
            /\ s = "retrying" => jobs[j].attempts < MaxAttempts
            /\ letters' = IF s = "dead_letter" THEN [letters EXCEPT ![j] = jobs[j].attempts] ELSE letters
        <3>1. jobs[j].attempts \in 0 .. MaxAttempts
            BY <1>0, <2>2 DEF Row
        <3> QED BY <1>6, <3>1, SyncAssumption DEF MarkCompleted, RecordFailure, Exhausted, Letter
    <2> DEFINE w == [jobs[j] EXCEPT !.status = s]
    <2>4. w \in Row /\ w.status = s /\ w.attempts = jobs[j].attempts /\ jobs' = [jobs EXCEPT ![j] = w]
        BY <1>0, <2>2, <2>3 DEF Row, JobStatus
    <2>5. ASSUME NEW l \in Consumer \ {k}, consumer[l].pc # "idle", consumer[l].job = j
          PROVE  consumer[l].pc # "picking" /\ j \in doubled
        BY <1>0, <2>1, <2>5 DEF ConsumerInv, Alone, Locked
    <2> HIDE DEF j, w
    <2>6. DeadLetterIsCurrent' /\ letters' \in [Job -> 0 .. MaxAttempts]
        <3>1. jobs[j].attempts \in 0 .. MaxAttempts
            BY <1>0, <2>2 DEF Row
        <3>2. letters' \in [Job -> 0 .. MaxAttempts]
            BY <1>0, <2>2, <2>3, <3>1 DEF SyncTypeOK
        <3>3. DeadLetterIsCurrent'
            BY <1>0, <2>2, <2>3, <2>4 DEF DeadLetterIsCurrent, SyncTypeOK
        <3> QED BY <3>2, <3>3
    <2>7. RowAgrees(NoJob, j, w) /\ OthersAgree(k, NoJob, j, w)
        BY <1>3, <2>5 DEF RowAgrees, OthersAgree
    <2> QED BY <1>1, <1>3, <2>1, <2>2, <2>3, <2>4, <2>6, <2>7, ConsumerGoes
<1>7. CASE ConsumerDies(k)
    <2> DEFINE j == consumer[k].job
               w == jobs[j]
    <2>1. consumer[k] # NoJob /\ consumer' = [consumer EXCEPT ![k] = NoJob] /\ UNCHANGED <<jobs, letters>>
        BY <1>7 DEF ConsumerDies
    <2>2. consumer[k].pc # "idle" /\ j \in Job
        BY <1>2, <2>1, ConsumerShape
    <2>3. w \in Row /\ jobs' = [jobs EXCEPT ![j] = w]
        BY <1>0, <2>1, <2>2
    <2> HIDE DEF w
    <2>4. DeadLetterIsCurrent' /\ letters' \in [Job -> 0 .. MaxAttempts]
        BY <1>0, <2>1 DEF DeadLetterIsCurrent, SyncTypeOK
    <2>5. SyncTypeOK'
        <3>1. consumer' \in [Consumer -> SomeConsumer]
            BY <1>2, <1>3, <1>0, <2>1 DEF SyncTypeOK
        <3> QED BY <1>0, <1>1, <2>1, <3>1 DEF SyncTypeOK, SomeConsumer
    <2>6. IntakeInv'
        BY <1>1, <2>1, IntakeKept DEF SyncInv
    <2>7. \A l \in Consumer : consumer'[l] = IF l = k THEN NoJob ELSE consumer[l]
        BY <1>0, <2>1 DEF SyncTypeOK
    <2>8. ConsumerInv'
        BY <1>0, <1>1, <1>3, <2>1, <2>7 DEF ConsumerInv, DueHasAttempts, PickingLocks, Due, WorkInProgress, Alone
    <2> QED BY <2>4, <2>5, <2>6, <2>8 DEF SyncInv
<1> QED BY <1>4, <1>5, <1>6, <1>7 DEF Consuming

LEMMA ReplayStep ==
    ASSUME SyncInv, NEW j \in Job, Replay(j)
    PROVE  SyncInv'
<1>0. SyncTypeOK /\ ConsumerInv /\ IntakeInv /\ DeadLetterIsCurrent
    BY DEF SyncInv
<1> DEFINE w == [status |-> "queued", attempts |-> 0]
<1>1. /\ ~Locked(j) /\ jobs' = [jobs EXCEPT ![j] = w]
      /\ UNCHANGED <<letters, consumer, seen, hook, botched, repeated, arrivals>>
      /\ doubled' = doubled \/ doubled' = doubled \cup {j}
      /\ (\E l \in Consumer : consumer[l].pc = "working" /\ consumer[l].job = j) => j \in doubled'
    BY DEF Replay, hookVars
<1>2. w \in Row /\ w.status = "queued" /\ w.attempts < MaxAttempts
    BY SyncAssumption DEF Row, JobStatus
<1> HIDE DEF w
<1>3. \A i \in Job : jobs'[i] = IF i = j THEN w ELSE jobs[i]
    BY <1>0, <1>1 DEF SyncTypeOK
<1>4. \A l \in Consumer : consumer[l].pc # "idle" => consumer[l].job \in Job
    BY <1>0, ConsumerShape DEF SyncTypeOK, SomeConsumer
<1>5. replays' \in 0 .. MaxReplays
    BY <1>0, SyncAssumption DEF Replay, SyncTypeOK
<1>6. SyncTypeOK'
    <2>1. jobs' \in [Job -> Row]
        BY <1>0, <1>1, <1>2 DEF SyncTypeOK, Row
    <2> QED BY <1>0, <1>1, <1>5, <2>1 DEF SyncTypeOK, Row
<1>7. IntakeInv'
    BY <1>0, <1>1, <1>2, <1>3, IntakeKept
<1>8. DeadLetterIsCurrent'
    BY <1>0, <1>1, <1>2, <1>3 DEF DeadLetterIsCurrent
<1>9. DueHasAttempts' /\ PickingLocks'
    BY <1>0, <1>1, <1>2, <1>3, <1>4 DEF ConsumerInv, DueHasAttempts, PickingLocks, Due, Locked
<1>10. WorkInProgress'
    BY <1>0, <1>1, <1>3, <1>4 DEF ConsumerInv, WorkInProgress
<1>11. Alone'
    BY <1>0, <1>1 DEF ConsumerInv, Alone
<1> QED BY <1>6, <1>7, <1>8, <1>9, <1>10, <1>11 DEF SyncInv, ConsumerInv

LEMMA SyncStep == SyncInv /\ [SyncNext]_syncVars => SyncInv'
<1> SUFFICES ASSUME SyncInv, [SyncNext]_syncVars PROVE SyncInv'
    OBVIOUS
<1>1. CASE UNCHANGED syncVars
    <2>1. SyncTypeOK' /\ ConsumerInv' /\ IntakeInv' /\ DeadLetterIsCurrent'
        BY <1>1 DEF syncVars, SyncInv, SyncTypeOK, ConsumerInv, IntakeInv, DeadLetterIsCurrent, DueHasAttempts,
            PickingLocks, Due, WorkInProgress, Alone, Handled, Job
    <2> QED BY <2>1 DEF SyncInv
<1>2. CASE SyncNext
    BY <1>2, WebhookStep, ProducingStep, ConsumingStep, ReplayStep DEF SyncNext
<1> QED BY <1>1, <1>2

\* The rows, the memories of the servers and the calls keep their types, and no job is attempted
\* more often than max_attempts, through pickups, failures, crashes and replays.
THEOREM SyncTypesKept == SyncSpec => []SyncTypeOK
<1>1. SyncInv => SyncTypeOK
    BY DEF SyncInv
<1> QED BY <1>1, SyncInitInv, SyncStep, PTL DEF SyncSpec

\* For any number of servers, deliveries, consumers and jobs: a delivery answered as a duplicate
\* was taken in, is being taken in, or failed; no two consumers have one job unless it was replayed
\* under one; the dead letter of a job tells of the attempts that made it one.
THEOREM QueueSound == SyncSpec => []QueueIsSound
<1> QED BY SyncImplies, SyncInitInv, SyncStep, PTL DEF SyncSpec
=============================================================================
