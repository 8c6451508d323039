------------------------------- MODULE RepoPublish ----------------------------
(***************************************************************************)
(* The repository of a project on GitHub and its clone here: the clone     *)
(* manager that follows GitHub and finds conflicts, the endpoint that      *)
(* resolves a conflict, the settings, and the endpoint that publishes.     *)
(* Every git command and every statement of a handler is a step of its     *)
(* own; commits are made on both sides all the time.                       *)
(*                                                                         *)
(* A branch is the set of the commits that its head reaches, so that one   *)
(* is an ancestor of another exactly when its set is a subset.             *)
(***************************************************************************)
EXTENDS Naturals, FiniteSets

CONSTANTS
    RepoClient,     \* calls that can be under way at once
    GitHubCommit,   \* commits that others push to GitHub
    LocalCommit,    \* commits that agents make in the clone
    MaxRepoCalls    \* calls in a behaviour

ASSUME RepoAssumption == GitHubCommit \cap LocalCommit = {} /\ MaxRepoCalls \in Nat

Branch == SUBSET (GitHubCommit \cup LocalCommit)

\* The remote_sha of conflict_details, if there is one.
Target == {{}} \cup {{b} : b \in Branch}

VARIABLES
    remote,     \* the branch on GitHub
    origin,     \* the clone's idea of it
    local,      \* the branch in the clone
    binding,    \* the row: the state of the conflict, its remote_sha, force_push_required
    caller,     \* the local state of each call
    ever,       \* commits that were on GitHub at some time
    lost,       \* commits that a push took off GitHub
    dropped,    \* commits that a reset took out of the clone
    discarded,  \* those of them that the clone manager took out, which nobody decided
    chosen,     \* the decisions that people took on conflicts
    announced,  \* the heads that linked issues were closed with
    miscounted, \* heads ahead of GitHub's branch that the count of the commits failed for
    raced,      \* the clone was reset under a publish that had read its head
    repoCalls

repoVars == <<remote, origin, local, binding, caller, ever, lost, dropped, discarded, chosen,
              announced, miscounted, raced, repoCalls>>

Off == [pc |-> "idle"]

KeepWhose == {"keep_github", "keep_ottercamp"}

Caller ==
    {Off}
    \cup [pc : {"checkout", "merge", "clear"}] \cup [pc : {"conflict"}, target : Branch]
    \cup [pc : {"git", "switch", "reset", "decide"}, keep : KeepWhose, target : Target]
    \cup [pc : {"fetch", "head"}, required : BOOLEAN, confirmed : BOOLEAN]
    \cup [pc : {"ahead", "push", "settle", "announce"}, required : BOOLEAN, confirmed : BOOLEAN,
          head : Branch]

RepoInit ==
    /\ remote = {} /\ origin = {} /\ local = {}
    /\ binding = [conflict |-> "none", target |-> {}, force |-> FALSE]
    /\ caller = [c \in RepoClient |-> Off]
    /\ ever = {} /\ lost = {} /\ dropped = {} /\ discarded = {} /\ chosen = {}
    /\ announced = {} /\ miscounted = {} /\ raced = FALSE /\ repoCalls = 0

-----------------------------------------------------------------------------
(* Mutants *)

\* A confirmation is enough for a forced push.
ForcesConfirmed(c) == caller[c].confirmed

\* The linked issues are closed before the push.
AfterAheadAnnounce(count) == "announce"

-----------------------------------------------------------------------------
(* Commits *)

callVars == <<binding, caller, chosen, announced, repoCalls>>
lossVars == <<lost, dropped, discarded, miscounted, raced>>
gitVars == <<remote, origin, local, ever>>

CommitOnGitHub(g) ==
    /\ g \notin ever
    /\ remote' = remote \cup {g} /\ ever' = ever \cup {g}
    /\ UNCHANGED <<origin, local, callVars, lossVars>>

CommitHere(o) ==
    /\ o \notin local \cup ever \cup dropped
    /\ local' = local \cup {o}
    /\ UNCHANGED <<remote, origin, ever, callVars, lossVars>>

-----------------------------------------------------------------------------
(* Calls *)

Call(c) == caller[c] = Off /\ repoCalls < MaxRepoCalls /\ repoCalls' = repoCalls + 1

In(c, pc) == caller[c].pc = pc /\ UNCHANGED repoCalls

To(c, s) == caller' = [caller EXCEPT ![c] = s]

Return(c) == To(c, Off)

\* A git command or a statement fails, or the server stops.
RepoAborts(c) ==
    /\ caller[c] # Off /\ Return(c)
    /\ UNCHANGED <<gitVars, lossVars, binding, chosen, announced, repoCalls>>

\* UpdateSettings reads the row and writes it back, with no conflict whatever it was, and
\* leaves the requirement of a forced push alone.
UpdateSettings(c) ==
    /\ Call(c)
    /\ binding' = [binding EXCEPT !.conflict = "none", !.target = {}]
    /\ UNCHANGED <<gitVars, lossVars, caller, chosen, announced>>

-----------------------------------------------------------------------------
(* Branches of the clone *)

\* A call of Publish has read the head of the clone.
HeadRead == \E d \in RepoClient : caller[d].pc \in {"ahead", "push"}

\* The clone's branch is set to b, whatever it was.
ResetTo(b) ==
    /\ local' = b
    /\ dropped' = dropped \cup (local \ b)
    /\ raced' = (raced \/ HeadRead)

\* git checkout, and checkout -B when it fails: with GitHub's branch known, that takes the
\* clone's branch to it.
Checkout ==
    \/ UNCHANGED <<local, dropped, raced>>
    \/ origin # {} /\ ResetTo(origin)

-----------------------------------------------------------------------------
(* The clone manager: EnsureLocalClone *)

CloneFetch(c) ==
    /\ Call(c)
    /\ origin' = remote
    /\ To(c, [pc |-> "checkout"])
    /\ UNCHANGED <<remote, local, ever, lossVars, binding, chosen, announced>>

CloneCheckout(c) ==
    /\ In(c, "checkout")
    /\ Checkout
    /\ discarded' = discarded \cup (local \ local')
    /\ To(c, [pc |-> "merge"])
    /\ UNCHANGED <<remote, origin, ever, lost, miscounted, binding, chosen, announced>>

\* The branches have parted.
Diverged == ~(local \subseteq origin) /\ ~(origin \subseteq local)

\* merge --ff-only
CloneMerge(c) ==
    /\ In(c, "merge")
    /\ origin # {}
    /\ \/ Diverged /\ To(c, [pc |-> "conflict", target |-> origin]) /\ UNCHANGED local
       \/ ~Diverged /\ local' = local \cup origin /\ To(c, [pc |-> "clear"])
    /\ UNCHANGED <<remote, origin, ever, lossVars, binding, chosen, announced>>

\* SetConflictState
CloneRecords(c) ==
    /\ caller[c].pc \in {"conflict", "clear"} /\ UNCHANGED repoCalls
    /\ binding' = IF caller[c].pc = "conflict"
                  THEN [binding EXCEPT !.conflict = "needs_decision", !.target = {caller[c].target}]
                  ELSE [binding EXCEPT !.conflict = "none", !.target = {}]
    /\ Return(c)
    /\ UNCHANGED <<gitVars, lossVars, chosen, announced>>

-----------------------------------------------------------------------------
(* ResolveProjectConflict *)

ResolveRead(c, keep) ==
    /\ Call(c)
    /\ binding.conflict = "needs_decision"
    /\ chosen' = chosen \cup {keep}
    /\ To(c, [pc |-> "git", keep |-> keep, target |-> binding.target])
    /\ UNCHANGED <<gitVars, lossVars, binding, announced>>

\* The decision takes GitHub's side.
Resets(c) == caller[c].keep = "keep_github"

ResolveFetch(c) ==
    /\ In(c, "git")
    /\ \/ Resets(c) /\ origin' = remote /\ To(c, [caller[c] EXCEPT !.pc = "switch"])
       \/ ~Resets(c) /\ UNCHANGED origin /\ To(c, [caller[c] EXCEPT !.pc = "decide"])
    /\ UNCHANGED <<remote, local, ever, lossVars, binding, chosen, announced>>

ResolveCheckout(c) ==
    /\ In(c, "switch")
    /\ Checkout
    /\ To(c, [caller[c] EXCEPT !.pc = "reset"])
    /\ UNCHANGED <<remote, origin, ever, lost, discarded, miscounted, binding, chosen, announced>>

\* For GitHub's side the clone is reset to the remote head of the time of the conflict, also
\* when either branch has gone on since.
ResolveReset(c) ==
    /\ In(c, "reset")
    /\ LET t == caller[c].target
       IN  \/ t # {} /\ ResetTo(UNION t)
           \/ t = {} /\ origin # {} /\ ResetTo(origin)
    /\ To(c, [caller[c] EXCEPT !.pc = "decide"])
    /\ UNCHANGED <<remote, origin, ever, lost, discarded, miscounted, binding, chosen, announced>>

\* The state of a conflict after a decision.
Decided(keep) == "resolved"

\* SetConflictResolution
ResolveWrite(c) ==
    /\ In(c, "decide")
    /\ binding' = [binding EXCEPT !.conflict = Decided(caller[c].keep),
                                  !.force = caller[c].keep = "keep_ottercamp"]
    /\ Return(c)
    /\ UNCHANGED <<gitVars, lossVars, chosen, announced>>

-----------------------------------------------------------------------------
(* PublishProject *)

PublishRead(c, confirmed) ==
    /\ Call(c)
    /\ binding.conflict # "needs_decision"
    /\ To(c, [pc |-> "fetch", required |-> binding.force, confirmed |-> confirmed])
    /\ UNCHANGED <<gitVars, lossVars, binding, chosen, announced>>

PublishFetch(c) ==
    /\ In(c, "fetch")
    /\ origin' = remote
    /\ To(c, [caller[c] EXCEPT !.pc = "head"])
    /\ UNCHANGED <<remote, local, ever, lossVars, binding, chosen, announced>>

\* The push is forced.
Forces(c) == caller[c].required /\ caller[c].confirmed

\* GitHub's branch must be an ancestor of the head, unless the push is forced or GitHub's
\* branch cannot be read: then it is taken for a branch that does not exist yet.
PublishHead(c) ==
    /\ In(c, "head")
    /\ \E unread \in BOOLEAN :
        \/ /\ unread \/ origin \subseteq local \/ Forces(c)
           /\ To(c, [pc |-> "ahead", required |-> caller[c].required,
                     confirmed |-> caller[c].confirmed, head |-> local])
        \/ ~(unread \/ origin \subseteq local \/ Forces(c)) /\ Return(c)
    /\ UNCHANGED <<gitVars, lossVars, binding, chosen, announced>>

\* The commits that are counted: those GitHub's branch has not, all when that count fails, and
\* none when the second fails too.
CommitCounts == {local \ origin, local, {}}

\* With commits to push comes the push, without any the linked issues.
AfterAhead(count) == IF count = {} THEN "announce" ELSE "push"

\* The rest of the preflight: the count of the commits, the push as a dry run, and the
\* confirmation of a forced push.
PublishAhead(c) ==
    /\ In(c, "ahead")
    /\ LET goes == /\ remote \subseteq local \/ Forces(c)
                   /\ caller[c].required => caller[c].confirmed
       IN  \/ /\ goes
              /\ \E count \in CommitCounts :
                  /\ To(c, [caller[c] EXCEPT !.pc = AfterAhead(count)])
                  /\ miscounted' = miscounted \cup {h \in {caller[c].head} :
                                                      count = {} /\ ~(local \subseteq origin)}
           \/ Return(c) /\ UNCHANGED miscounted
    /\ UNCHANGED <<gitVars, lost, dropped, discarded, raced, binding, chosen, announced>>

\* The push takes the head of this moment; GitHub refuses what it cannot fast-forward.
PublishPush(c) ==
    /\ In(c, "push")
    /\ \/ /\ remote \subseteq local \/ Forces(c)
          /\ remote' = local /\ origin' = local /\ ever' = ever \cup local
          /\ lost' = lost \cup (remote \ local)
          /\ To(c, [caller[c] EXCEPT !.pc = IF caller[c].required THEN "settle" ELSE "announce"])
       \/ /\ ~(remote \subseteq local \/ Forces(c))
          /\ Return(c) /\ UNCHANGED <<remote, origin, ever, lost>>
    /\ UNCHANGED <<local, dropped, discarded, miscounted, raced, binding, chosen, announced>>

\* SetForcePushRequired
PublishSettle(c) ==
    /\ In(c, "settle")
    /\ binding' = [binding EXCEPT !.force = FALSE]
    /\ To(c, [caller[c] EXCEPT !.pc = "announce"])
    /\ UNCHANGED <<gitVars, lossVars, chosen, announced>>

\* resolveLinkedGitHubIssuesAfterPublish closes them with the head of the preflight.
PublishAnnounce(c) ==
    /\ In(c, "announce")
    /\ announced' = announced \cup {caller[c].head}
    /\ Return(c)
    /\ UNCHANGED <<gitVars, lossVars, binding, chosen>>

-----------------------------------------------------------------------------

Cloning(c) == CloneFetch(c) \/ CloneCheckout(c) \/ CloneMerge(c) \/ CloneRecords(c)

Resolving(c) ==
    \/ \E keep \in KeepWhose : ResolveRead(c, keep)
    \/ ResolveFetch(c) \/ ResolveCheckout(c) \/ ResolveReset(c) \/ ResolveWrite(c)

Publishing(c) ==
    \/ \E confirmed \in BOOLEAN : PublishRead(c, confirmed)
    \/ PublishFetch(c) \/ PublishHead(c) \/ PublishAhead(c) \/ PublishPush(c)
    \/ PublishSettle(c) \/ PublishAnnounce(c)

RepoNext ==
    \/ \E g \in GitHubCommit : CommitOnGitHub(g)
    \/ \E o \in LocalCommit : CommitHere(o)
    \/ \E c \in RepoClient :
        UpdateSettings(c) \/ Cloning(c) \/ Resolving(c) \/ Publishing(c) \/ RepoAborts(c)

RepoSpec == RepoInit /\ [][RepoNext]_repoVars

-----------------------------------------------------------------------------
(* Properties *)

RepoTypeOK ==
    /\ {remote, origin, local, ever, lost, dropped, discarded} \subseteq Branch
    /\ binding \in [conflict : {"none", "needs_decision", "resolved"},
                    target : Target, force : BOOLEAN]
    /\ caller \in [RepoClient -> Caller]
    /\ chosen \subseteq KeepWhose /\ announced \subseteq Branch /\ miscounted \subseteq Branch
    /\ raced \in BOOLEAN /\ repoCalls \in 0 .. MaxRepoCalls

\* Work is lost only after a person decided so: commits leave GitHub only when somebody has
\* resolved a conflict in favour of the clone, and leave the clone only when somebody has
\* resolved one in favour of GitHub, however the calls overlap, settings erase a conflict, or
\* calls break off.  (Which commits are lost is another matter: those of the moment of the
\* push or reset, not those of the moment of the decision.)  It does not hold of what the clone
\* manager discards: when its checkout fails, its second one takes the clone's branch to
\* GitHub's, and commits that only the clone has are gone although nobody decided so.
LossIsChosen ==
    /\ lost # {} => "keep_ottercamp" \in chosen
    /\ dropped \subseteq discarded \/ "keep_github" \in chosen

\* The head that linked issues are closed with was on GitHub by then: the push takes the head
\* of its own moment, which may be later.  It does not hold when a decision for GitHub or the
\* clone manager resets the clone between the preflight and the push, nor when the preflight
\* cannot count the commits: it takes them for none, and the issues are closed with a head
\* that nobody pushed.
AnnouncedIsPublished == ~raced => \A h \in announced \ miscounted : h \subseteq ever

\* What a person who resolves, publishes and closes issues can rely on, with the clone manager
\* and other people at work.
PublishIsSound == LossIsChosen /\ AnnouncedIsPublished
=============================================================================
