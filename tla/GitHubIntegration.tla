-------------------------- MODULE GitHubIntegration --------------------------
(***************************************************************************)
(* A GitHub repository from its URL to a pull request: a call validates    *)
(* the URL, asks for the metadata, and clones into the one directory that  *)
(* owner and name determine, where the pipeline may ingest it; whoever got *)
(* the clone makes branches and commits in it, and pushes and opens pull   *)
(* requests when told that somebody has agreed.  Users call beside each    *)
(* other; every command has a deadline at which it is killed wherever it   *)
(* is; and what was sent to GitHub may still be carried out afterwards.  A *)
(* call that raises leaves nothing else than what its steps have done.     *)
(***************************************************************************)
EXTENDS Naturals, Sequences, SequencesExt

CONSTANTS
  User,         \* whoever uses the service
  Url,          \* the URLs they give
  ValidName,    \* names of owners and repositories that match the pattern
  Repository,   \* the repository that GitHub has: its owner and its name
  Private,      \* whether it is private
  Token,        \* whether GITHUB_TOKEN is set
  Branch,       \* names of branches
  Default,      \* the default one
  NoClone,      \* there is nothing at the destination
  MaxCommits,   \* bound: commits, of users and of others
  MaxCalls      \* bound: calls of the service

\* A part of a URL's path: whether it ends in ".git", and what is before that.
Segment == [name : STRING, git : BOOLEAN]
Slash == [name |-> "", git |-> FALSE]

ASSUME UrlAssumption ==
  Url \subseteq [clean : BOOLEAN, params : BOOLEAN, scheme : STRING, host : STRING,
                 path : Seq(Segment)]
ASSUME NameAssumption == Repository \in Seq(ValidName) /\ Len(Repository) = 2
ASSUME AccessAssumption == Token \in BOOLEAN /\ Private \in BOOLEAN
ASSUME BranchAssumption == Default \in Branch
ASSUME BoundsAssumption == MaxCommits \in Nat \ {0} /\ MaxCalls \in Nat

Commit == 1 .. MaxCommits

\* The directory: whether the clone is whole, the branch that is checked out, the
\* commits of each, and changes that are not committed.
CloneType ==
  [whole : BOOLEAN, current : Branch, heads : [Branch -> Seq(Commit)],
   changed : BOOLEAN, staged : BOOLEAN]

ASSUME NoCloneAssumption == NoClone \notin CloneType

VARIABLES
  heads,        \* GitHub's branches: the commits of each, empty if not there
  pulls,        \* GitHub's pull requests
  requests,     \* what is on its way to GitHub
  granted,      \* the pushes and pull requests that somebody has agreed to
  clone,        \* the directory at the destination
  pc,           \* where each user's call is
  ingests,      \* whether it is for the pipeline
  has,          \* what each user has: no clone, a clone, one on a branch of his own
  commits,      \* the last commit
  ours,         \* the commits of users
  calls         \* calls so far

vars == <<heads, pulls, requests, granted, clone, pc, ingests, has, commits, ours, calls>>
github == <<heads, pulls, requests, granted>>
history == <<commits, ours>>

PushOf(b) == [kind |-> "push", branch |-> b, history |-> clone.heads[b]]
PullOf(head, base) == [kind |-> "pull", head |-> head, base |-> base]
-----------------------------------------------------------------------------
(* The URL. *)

\* str.strip("/")
Strip(path) ==
  LET full == {i \in DOMAIN path : path[i] # Slash}
  IN  IF full = {} THEN <<>>
      ELSE SubSeq(path, CHOOSE i \in full : \A j \in full : i <= j,
                        CHOOSE i \in full : \A j \in full : j <= i)

\* The owner and the name that a URL stands for, empty if it is refused.  Only
\* the suffix of the last part is taken off; an owner may have one of his own.
parse_github_url(url) ==
  LET parts == Strip(url.path)
      owner == parts[1].name \o (IF parts[1].git THEN ".git" ELSE "")
  IN  IF /\ url.clean /\ ~ url.params
         /\ url.scheme = "https" /\ url.host = "github.com"
         /\ Len(parts) = 2
         /\ owner \in ValidName /\ parts[2].name \in ValidName
      THEN <<owner, parts[2].name>>
      ELSE <<>>
-----------------------------------------------------------------------------
(* Git: a command does its work and ends well; or ends with an error and has *)
(* done nothing; or is killed, with its work done, half done or not begun.   *)
(* A lock that it leaves behind is one of the reasons for later errors.      *)

WholeClone ==
  [whole |-> TRUE, current |-> Default,
   heads |-> [b \in Branch |-> IF b = Default THEN heads[b] ELSE <<>>],
   changed |-> FALSE, staged |-> FALSE]

PartialClone == [WholeClone EXCEPT !.whole = FALSE]

\* How a command may end, and the clone after it.
Ends(possible, half, done) ==
  {<<"failed", clone>>, <<"killed", clone>>}
    \cup (IF possible THEN {<<"ended", done>>, <<"killed", half>>, <<"killed", done>>} ELSE {})

\* Mutant: the exit code of git is not looked at.
RaisesWhenKilled(end) == end = "killed"

\* _run_git
_run_git_raises(end) == end # "ended"

\* Mutant: git branch in the place of git checkout -b.
BranchedOnly(b) == [clone EXCEPT !.heads[b] = clone.heads[clone.current]]

Branched(b) ==
  [clone EXCEPT !.heads[b] = clone.heads[clone.current], !.current = b]

\* The branch is there and is not checked out yet.
HalfBranched(b) == [Branched(b) EXCEPT !.current = clone.current]

Staged == [clone EXCEPT !.staged = @ \/ clone.changed, !.changed = FALSE]

Committed ==
  [clone EXCEPT !.heads[clone.current] = Append(@, commits + 1), !.staged = FALSE]
-----------------------------------------------------------------------------
Goto(u, next) == pc' = [pc EXCEPT ![u] = next]

Begin(u, next) ==
  /\ pc[u] = "idle"
  /\ calls < MaxCalls
  /\ calls' = calls + 1
  /\ Goto(u, next)

\* clone_repository, alone or as the beginning of ingest_github_repository.  A
\* name that GitHub does not have ends the call as one that is refused.
ValidateUrl(u, url, ingesting) ==
  /\ has[u] = "nothing"
  /\ Begin(u, IF parse_github_url(url) = Repository THEN "metadata" ELSE "idle")
  /\ ingests' = [ingests EXCEPT ![u] = ingesting]
  /\ UNCHANGED <<github, clone, has, history>>

\* A private repository is not found without a token; any request may fail.
GetRepository(u) ==
  /\ pc[u] = "metadata"
  /\ \E next \in {"idle"} \cup (IF Private => Token THEN {"clone"} ELSE {}) : Goto(u, next)
  /\ UNCHANGED <<github, clone, ingests, has, history, calls>>

\* Mutant: what a killed git clone has left is taken up again.
ResumeClone(u) ==
  /\ pc[u] = "clone"
  /\ IF clone = NoClone \/ ~ clone.whole
     THEN Goto(u, "cloning") /\ clone' = PartialClone
     ELSE Goto(u, "idle") /\ UNCHANGED clone
  /\ UNCHANGED <<github, ingests, has, history, calls>>

\* git clone refuses a directory that has something in it.
StartClone(u) ==
  /\ pc[u] = "clone"
  /\ IF clone = NoClone
     THEN Goto(u, "cloning") /\ clone' = PartialClone
     ELSE Goto(u, "idle") /\ UNCHANGED clone
  /\ UNCHANGED <<github, ingests, has, history, calls>>

\* Ended with an error, it removes what it has written; killed, it cannot.
FinishClone(u) ==
  /\ pc[u] = "cloning"
  /\ \E end \in {<<"ended", WholeClone>>, <<"failed", NoClone>>,
                 <<"killed", PartialClone>>, <<"killed", WholeClone>>} :
       /\ clone' = end[2]
       /\ IF _run_git_raises(end[1])
          THEN Goto(u, "idle") /\ UNCHANGED has
          ELSE IF ingests[u]
          THEN Goto(u, "ingest") /\ UNCHANGED has
          ELSE Goto(u, "idle") /\ has' = [has EXCEPT ![u] = "clone"]
  /\ UNCHANGED <<github, ingests, history, calls>>

\* Ingestion and parsing, the index, and the graph if there is a database for
\* it.  The clone is returned with the result, so a step that raises loses it.
Ingest(u) ==
  /\ pc[u] = "ingest"
  /\ \E next \in {"index", "idle"} : Goto(u, next)
  /\ UNCHANGED <<github, clone, ingests, has, history, calls>>

IndexAndGraph(u) ==
  /\ pc[u] \in {"index", "graph"}
  /\ \/ pc[u] = "index" /\ Goto(u, "graph") /\ UNCHANGED has
     \/ Goto(u, "idle") /\ has' = [has EXCEPT ![u] = "clone"]
     \/ Goto(u, "idle") /\ UNCHANGED has
  /\ UNCHANGED <<github, clone, ingests, history, calls>>
-----------------------------------------------------------------------------
\* git checkout -b
CreateBranch(u, b) ==
  /\ has[u] # "nothing"
  /\ Begin(u, "idle")
  /\ \E end \in Ends(clone.heads[b] = <<>>, HalfBranched(b), Branched(b)) :
       /\ clone' = end[2]
       /\ has' = IF _run_git_raises(end[1]) THEN has ELSE [has EXCEPT ![u] = "branch"]
  /\ UNCHANGED <<github, ingests, history>>

\* commit_all, which users call on a branch that they have created: git add,
\* git commit, git rev-parse.
AddAll(u) ==
  /\ has[u] = "branch"
  /\ \E end \in Ends(TRUE, Staged, Staged) :
       /\ clone' = end[2]
       /\ Begin(u, IF _run_git_raises(end[1]) THEN "idle" ELSE "commit")
  /\ UNCHANGED <<github, ingests, has, history>>

CommitStaged(u) ==
  /\ pc[u] = "commit"
  /\ commits < MaxCommits
  /\ \E end \in Ends(clone.staged, clone, Committed) :
       /\ clone' = end[2]
       /\ IF clone'.heads = clone.heads
          THEN UNCHANGED history
          ELSE commits' = commits + 1 /\ ours' = ours \cup {commits + 1}
       /\ Goto(u, IF _run_git_raises(end[1]) THEN "idle" ELSE "rev-parse")
  /\ UNCHANGED <<github, ingests, has, calls>>

RevParse(u) ==
  /\ pc[u] = "rev-parse"
  /\ Goto(u, "idle")
  /\ UNCHANGED <<github, clone, ingests, has, history, calls>>

\* Mutant: whoever has the token may write.
TokenSuffices(agreed) == Token

MaySend(agreed) == agreed /\ Token

\* A push or a pull request that, if anything, goes on its way to GitHub.
Send(u, p, possible, agreed) ==
  /\ granted' = IF agreed THEN granted \cup {p} ELSE granted
  /\ IF MaySend(agreed) /\ possible
     THEN Begin(u, "send") /\ requests' = requests \cup {p}
     ELSE Begin(u, "idle") /\ UNCHANGED requests
  /\ UNCHANGED <<heads, pulls, clone, ingests, has, history>>

PushBranch(u, b, authorized) ==
  has[u] # "nothing" /\ Send(u, PushOf(b), clone.heads[b] # <<>>, authorized)

\* The base is the default branch unless the user names another one.
CreatePullRequest(u, head, base, approved) ==
  has[u] # "nothing" /\ Send(u, PullOf(head, base), TRUE, approved)

\* GitHub has answered, or the deadline has passed with the request on its way.
EndSend(u) ==
  /\ pc[u] = "send"
  /\ Goto(u, "idle")
  /\ UNCHANGED <<github, clone, ingests, has, history, calls>>
-----------------------------------------------------------------------------
(* GitHub, and other people. *)

\* Mutant: git push --force
Overwrites(old, new) == old # new

\* A push without --force only adds.
FastForward(old, new) == IsStrictPrefix(old, new)

ReceivePush(p) ==
  /\ p.kind = "push"
  /\ heads' = IF FastForward(heads[p.branch], p.history)
              THEN [heads EXCEPT ![p.branch] = p.history] ELSE heads
  /\ UNCHANGED pulls

\* Both branches are there, one has something for the other, and nobody has
\* asked before.
ReceivePull(p) ==
  /\ p.kind = "pull"
  /\ pulls' = IF /\ heads[p.base] # <<>>
                 /\ ~ IsPrefix(heads[p.head], heads[p.base])
              THEN pulls \cup {p} ELSE pulls
  /\ UNCHANGED heads

Receive(p) ==
  /\ ReceivePush(p) \/ ReceivePull(p)
  /\ requests' = requests \ {p}
  /\ UNCHANGED <<granted, clone, pc, ingests, has, history, calls>>

Lose(p) ==
  /\ requests' = requests \ {p}
  /\ UNCHANGED <<heads, pulls, granted, clone, pc, ingests, has, history, calls>>

\* Other people push to branches of GitHub, without force.
OthersPush(b) ==
  /\ commits < MaxCommits
  /\ commits' = commits + 1
  /\ heads' = [heads EXCEPT ![b] = Append(@, commits + 1)]
  /\ UNCHANGED <<pulls, requests, granted, clone, pc, ingests, has, ours, calls>>

\* Somebody changes files of the clone.
Edit ==
  /\ clone # NoClone /\ clone.whole /\ ~ clone.changed
  /\ clone' = [clone EXCEPT !.changed = TRUE]
  /\ UNCHANGED <<github, pc, ingests, has, history, calls>>

\* A user is done with his clone.  A directory nobody works in may be removed.
LetGo(u) ==
  /\ has[u] # "nothing" /\ pc[u] = "idle"
  /\ has' = [has EXCEPT ![u] = "nothing"]
  /\ UNCHANGED <<github, clone, pc, ingests, history, calls>>

WorksIn(u) == has[u] # "nothing" \/ pc[u] \in {"cloning", "ingest", "index", "graph"}

RemoveDirectory ==
  /\ clone # NoClone
  /\ \A u \in User : ~ WorksIn(u)
  /\ clone' = NoClone
  /\ UNCHANGED <<github, pc, ingests, has, history, calls>>
-----------------------------------------------------------------------------
Init ==
  /\ heads = [b \in Branch |-> IF b = Default THEN <<1>> ELSE <<>>]
  /\ pulls = {}
  /\ requests = {}
  /\ granted = {}
  /\ clone = NoClone
  /\ pc = [u \in User |-> "idle"]
  /\ ingests = [u \in User |-> FALSE]
  /\ has = [u \in User |-> "nothing"]
  /\ commits = 1
  /\ ours = {}
  /\ calls = 0

UserStep(u) ==
  \/ \E url \in Url, i \in BOOLEAN : ValidateUrl(u, url, i)
  \/ GetRepository(u) \/ StartClone(u) \/ FinishClone(u)
  \/ Ingest(u) \/ IndexAndGraph(u)
  \/ \E b \in Branch : CreateBranch(u, b)
  \/ AddAll(u) \/ CommitStaged(u) \/ RevParse(u)
  \/ \E b \in Branch, agreed \in BOOLEAN : PushBranch(u, b, agreed)
  \/ \E head, base \in Branch, agreed \in BOOLEAN : CreatePullRequest(u, head, base, agreed)
  \/ EndSend(u) \/ LetGo(u)

Next ==
  \/ \E u \in User : UserStep(u)
  \/ \E p \in requests : Receive(p) \/ Lose(p)
  \/ \E b \in Branch : OthersPush(b)
  \/ Edit
  \/ RemoveDirectory

Spec == Init /\ [][Next]_vars
-----------------------------------------------------------------------------
(* Properties. *)

Requests ==
  [kind : {"push"}, branch : Branch, history : Seq(Commit)]
    \cup [kind : {"pull"}, head : Branch, base : Branch]

\* The types of the variables.
TypeOK ==
  /\ heads \in [Branch -> Seq(Commit)]
  /\ pulls \cup requests \subseteq granted
  /\ \A p \in granted : p \in Requests
  /\ clone = NoClone \/ clone \in CloneType
  /\ pc \in [User -> {"idle", "metadata", "clone", "cloning", "ingest", "index", "graph",
                      "commit", "rev-parse", "send"}]
  /\ ingests \in [User -> BOOLEAN]
  /\ has \in [User -> {"nothing", "clone", "branch"}]
  /\ commits \in Nat /\ ours \subseteq 1 .. commits
  /\ calls \in 0 .. MaxCalls

\* Owner and name determine the directory ("the same repository always resolves
\* to the same destination", test_github_integration.py:48), so two calls meet
\* in it: at most one user at a time ingests or has a ClonedRepository, and it
\* is a whole clone, however clones are killed, fail or are tried again.
ClonesAreExclusive ==
  \A u \in User : WorksIn(u) =>
    /\ clone # NoClone
    /\ pc[u] # "cloning" => clone.whole
    /\ \A v \in User : WorksIn(v) => u = v

\* "create branch -> commit -> push" (service.py:6): whoever goes on only after
\* create_branch has returned commits nothing on the default branch, of the
\* clone or of GitHub, whatever commands were killed or left half done before.
DefaultIsLeftAlone ==
  \A i \in ours :
    /\ i \notin Range(heads[Default])
    /\ clone # NoClone => i \notin Range(clone.heads[Default])

\* "[push ONLY if explicitly authorized] -> [open a pull request ONLY after human
\* approval]" (service.py:6-7): GitHub's branches only grow, and by what somebody
\* has agreed to before, also when it arrives after the call has raised, or
\* after a later one.
Published == INSTANCE Publication

ImplementsPublication == Published!Spec
=============================================================================
