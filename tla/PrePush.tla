-------------------------------- MODULE PrePush --------------------------------
(***************************************************************************)
(* tools/hooks/pre-push: what keeps unverified commits, force-pushes and   *)
(* deletions off master.  The hook runs on each developer's machine and    *)
(* goes through the refs of one push; what it decides on, the advertised   *)
(* position of master and the state of the last CI run of a commit, may    *)
(* change while it runs, since other developers push and CI runs start and *)
(* end.  git applies a push once the hook has let all of it through, and   *)
(* the remote takes each update only from the position it advertised.      *)
(*                                                                         *)
(* Every push is forced (git itself refuses nothing) and none is made with *)
(* --no-verify, which skips the hook.                                      *)
(***************************************************************************)
EXTENDS Naturals, Sequences, FiniteSets

CONSTANTS
  Pusher,    \* the developers who have installed the hook
  Commit,
  Ancestor,  \* <<a, b>>: a is b or an ancestor of b
  Root,      \* the commit master was at when the hook was introduced
  ZERO,      \* no commit: the position of a ref that is not there
  Pushes,    \* what may be pushed at once: sequences of [ref, local]
  MaxRuns    \* CI runs of one commit at most (bounds the model)

Ref == {"refs/heads/master", "refs/heads/topic"}
PROTECTED == "refs/heads/master"

PushLine == [ref : Ref, local : Commit \cup {ZERO}]

ASSUME CommitAssumption == Root \in Commit /\ ZERO \notin Commit
ASSUME AncestorAssumption == \A c \in Commit : <<c, c>> \in Ancestor
ASSUME PushesAssumption ==
  \A push \in Pushes :
    /\ push \in Seq(PushLine)
    /\ \A i, j \in 1..Len(push) : push[i].ref = push[j].ref => i = j
ASSUME MaxRunsAssumption == MaxRuns \in Nat

VARIABLES
  remote,   \* remote[r]: where the remote's ref is
  ci,       \* ci[c]: status/conclusion of the last CI run of c
  nRuns,    \* nRuns[c]: how many there have been
  green,    \* the commits a CI run of which has succeeded (history)
  hook,     \* hook[p]: where p's push is
  lines,    \* lines[p]: the refs p pushes, as the hook reads them from stdin
  nLine     \* nLine[p]: the line the hook is at

pushVars == <<remote, ci, nRuns, green, hook, lines, nLine>>

CIState == {"none/none", "in_progress/none", "completed/success", "completed/failure"}
HookState == {"idle", "read", "verify", "send", "refused"}

PushInit ==
  /\ remote = [r \in Ref |-> IF r = PROTECTED THEN Root ELSE ZERO]
  /\ ci = [c \in Commit |-> "none/none"] /\ nRuns = [c \in Commit |-> 0] /\ green = {}
  /\ hook = [p \in Pusher |-> "idle"] /\ lines = [p \in Pusher |-> <<>>]
  /\ nLine = [p \in Pusher |-> 1]
-------------------------------------------------------------------------------
Line(p) == lines[p][nLine[p]]
Step(p, state) == hook' = [hook EXCEPT ![p] = state] /\ UNCHANGED <<remote, ci, nRuns, green, lines>>
NextLine(p) == nLine' = [nLine EXCEPT ![p] = @ + 1]

\* git asks the remote where its refs are and starts the hook.
StartPush(p) ==
  /\ hook[p] \in {"idle", "refused"}
  /\ \E push \in Pushes :
       lines' = [lines EXCEPT ![p] =
                   [i \in DOMAIN push |-> [ref |-> push[i].ref, local |-> push[i].local,
                                           remote |-> remote[push[i].ref]]]]
  /\ hook' = [hook EXCEPT ![p] = "read"] /\ nLine' = [nLine EXCEPT ![p] = 1]
  /\ UNCHANGED <<remote, ci, nRuns, green>>

SkipLine(p) ==
  /\ hook[p] = "read" /\ nLine[p] <= Len(lines[p])
  /\ Line(p).ref # PROTECTED
  /\ Step(p, "read") /\ NextLine(p)

\* Mutant: every ref is protected.
AtAnyRef(p) == hook[p] = "read" /\ nLine[p] <= Len(lines[p])

\* A line of master, and what it would do to it.
AtMaster(p) == hook[p] = "read" /\ nLine[p] <= Len(lines[p]) /\ Line(p).ref = PROTECTED
Deletes(l) == l.local = ZERO
Rewrites(l) == l.remote # ZERO /\ <<l.remote, l.local>> \notin Ancestor

RefuseDeletion(p) ==
  /\ AtMaster(p) /\ Deletes(Line(p))
  /\ Step(p, "refused") /\ UNCHANGED nLine

\* merge-base fails for a rewrite, and for any position that has not been fetched.
RefuseRewrite(p) ==
  /\ AtMaster(p) /\ ~Deletes(Line(p))
  /\ Line(p).remote # ZERO
  /\ Step(p, "refused") /\ UNCHANGED nLine

\* Mutant: a force-push is let through.
IgnoresAncestry(p) ==
  /\ AtMaster(p) /\ ~Deletes(Line(p))
  /\ Step(p, "verify") /\ UNCHANGED nLine

PassAncestry(p) ==
  /\ AtMaster(p) /\ ~Deletes(Line(p)) /\ ~Rewrites(Line(p))
  /\ Step(p, "verify") /\ UNCHANGED nLine

\* gh is not there or cannot say.
RefuseUnknown(p) ==
  /\ hook[p] = "verify"
  /\ Step(p, "refused") /\ UNCHANGED nLine

RefuseUnverified(p) ==
  /\ hook[p] = "verify"
  /\ ci[Line(p).local] # "completed/success"
  /\ Step(p, "refused") /\ UNCHANGED nLine

\* Mutant: a run that has completed is taken for one that has succeeded.
AllowCompleted(p) ==
  /\ hook[p] = "verify"
  /\ ci[Line(p).local] \in {"completed/success", "completed/failure"}
  /\ Step(p, "read") /\ NextLine(p)

AllowGreen(p) ==
  /\ hook[p] = "verify"
  /\ ci[Line(p).local] = "completed/success"
  /\ Step(p, "read") /\ NextLine(p)

\* exit 0, only after the last line.
Exit0(p) ==
  /\ hook[p] = "read" /\ nLine[p] > Len(lines[p])
  /\ Step(p, "send") /\ UNCHANGED nLine

\* The remote takes a line only from the position it advertised; each update starts
\* a CI run of the commit.
Taken(p) == {i \in 1..Len(lines[p]) : lines[p][i].remote = remote[lines[p][i].ref]
                                       /\ lines[p][i].local # lines[p][i].remote}
Updated(p) == {lines[p][i].local : i \in Taken(p)} \ {ZERO}

Push(p) ==
  /\ hook[p] = "send"
  /\ \A c \in Updated(p) : nRuns[c] < MaxRuns
  /\ remote' = [r \in Ref |->
       IF \E i \in Taken(p) : lines[p][i].ref = r
       THEN lines[p][CHOOSE i \in Taken(p) : lines[p][i].ref = r].local ELSE remote[r]]
  /\ ci' = [c \in Commit |-> IF c \in Updated(p) THEN "in_progress/none" ELSE ci[c]]
  /\ nRuns' = [c \in Commit |-> IF c \in Updated(p) THEN nRuns[c] + 1 ELSE nRuns[c]]
  /\ hook' = [hook EXCEPT ![p] = "idle"]
  /\ lines' = [lines EXCEPT ![p] = <<>>] /\ nLine' = [nLine EXCEPT ![p] = 1]
  /\ UNCHANGED green
-------------------------------------------------------------------------------
(* CI, on the remote. *)

RunEnds(c) ==
  /\ ci[c] = "in_progress/none"
  /\ \/ ci' = [ci EXCEPT ![c] = "completed/success"] /\ green' = green \cup {c}
     \/ ci' = [ci EXCEPT ![c] = "completed/failure"] /\ UNCHANGED green
  /\ UNCHANGED <<remote, nRuns, hook, lines, nLine>>

\* A run by hand, of what a ref is at.
Dispatch(c) ==
  /\ \E r \in Ref : remote[r] = c
  /\ nRuns[c] < MaxRuns
  /\ ci' = [ci EXCEPT ![c] = "in_progress/none"]
  /\ nRuns' = [nRuns EXCEPT ![c] = @ + 1]
  /\ UNCHANGED <<remote, green, hook, lines, nLine>>
-------------------------------------------------------------------------------
HookStep(p) ==
  SkipLine(p) \/ RefuseDeletion(p) \/ RefuseRewrite(p) \/ PassAncestry(p)
    \/ RefuseUnknown(p) \/ RefuseUnverified(p) \/ AllowGreen(p) \/ Exit0(p)

PushNext ==
  \/ \E p \in Pusher : StartPush(p) \/ HookStep(p) \/ Push(p)
  \/ \E c \in Commit : RunEnds(c) \/ Dispatch(c)

PushSpec == PushInit /\ [][PushNext]_pushVars
-------------------------------------------------------------------------------
(* Properties. *)

RefLine == [ref : Ref, local : Commit \cup {ZERO}, remote : Commit \cup {ZERO}]

\* Every variable keeps to its values.
PushTypeOK ==
  /\ remote \in [Ref -> Commit \cup {ZERO}]
  /\ ci \in [Commit -> CIState] /\ nRuns \in [Commit -> 0..MaxRuns] /\ green \subseteq Commit
  /\ hook \in [Pusher -> HookState]
  /\ lines \in [Pusher -> Seq(RefLine)]
  /\ nLine \in [Pusher -> Nat \ {0}]

\* "No commit whose exact SHA has not already gone green in CI": master only ever
\* moves to such a commit, and is never deleted, although the run the hook has seen
\* may have been superseded when the push is applied.
MasterIsVerified == remote[PROTECTED] \in green \cup {Root}

\* "History on master is not rewritten": master only moves forward, although the
\* hook compares with the position that was advertised before it started.
MovesForward(from, to) == <<from, to>> \in Ancestor
HistoryIsKept == [][MovesForward(remote[PROTECTED], remote'[PROTECTED])]_pushVars

\* "Other branches push freely": only a push that has a line for master is refused.
TopicPushesFreely ==
  \A p \in Pusher : hook[p] = "refused" =>
    \E i \in 1..Len(lines[p]) : lines[p][i].ref = PROTECTED
-------------------------------------------------------------------------------
(* What makes the safety properties inductive. *)

\* The lines of a push that the hook has let through.
Passed(p) ==
  IF hook[p] \in {"read", "verify", "send"} THEN 1..(nLine[p] - 1) ELSE {}

Allowed(l) == l.local \in green /\ (l.remote # ZERO => <<l.remote, l.local>> \in Ancestor)

HookInv ==
  \A p \in Pusher :
    /\ \A i \in Passed(p) \cap DOMAIN lines[p] :
         lines[p][i].ref = PROTECTED => Allowed(lines[p][i])
    /\ hook[p] = "verify" =>
         nLine[p] <= Len(lines[p]) /\ Line(p).ref = PROTECTED /\ ~Deletes(Line(p)) /\ ~Rewrites(Line(p))
    /\ hook[p] = "send" => nLine[p] > Len(lines[p])

SuccessesAreGreen == \A c \in Commit : ci[c] = "completed/success" => c \in green

PushIInv == PushTypeOK /\ MasterIsVerified /\ HookInv /\ SuccessesAreGreen
===============================================================================
