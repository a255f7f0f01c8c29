--------------------------- MODULE Pipeline_proofs ---------------------------
(***************************************************************************)
(* Proofs about the two ends of ingest_github_repository: about            *)
(* GitHubIntegration, for any users, URLs and branches and any number of   *)
(* commits and calls, and about Parsing, for any listings, contents and    *)
(* bounds.  The modules share no variable; this one extends both.          *)
(***************************************************************************)
EXTENDS GitHubIntegration, Parsing, FiniteSetTheorems, SequenceTheorems, TLAPS

(* GitHubIntegration. *)

Phase ==
  {"idle", "metadata", "clone", "cloning", "ingest", "index", "graph", "commit",
   "rev-parse", "send"}

\* Until it returns, clone_repository gives nothing to its caller.
BeforeReturn == {"metadata", "clone", "cloning", "ingest", "index", "graph"}

Order(u) ==
  /\ pc[u] \in BeforeReturn => has[u] = "nothing"
  /\ pc[u] = "commit" => has[u] = "branch"

\* Commits that exist, and that are not of the users.
Within(s, n) == \A k \in DOMAIN s : s[k] \in 1 .. n
Free(s, of) == \A k \in DOMAIN s : s[k] \notin of

\* A user who has created a branch never works on the default one.
OnBranch == \A u \in User : has[u] = "branch" => clone.current # Default

DefaultIsThere ==
  heads[Default] # <<>> /\ (clone # NoClone => clone.heads[Default] # <<>>)

CommitsExist ==
  /\ \A b \in Branch : Within(heads[b], commits)
  /\ clone # NoClone => \A b \in Branch : Within(clone.heads[b], commits)
  /\ \A p \in requests : p.kind = "push" => Within(p.history, commits)

DefaultIsOthers ==
  /\ Free(heads[Default], ours)
  /\ clone # NoClone => Free(clone.heads[Default], ours)
  /\ \A p \in requests : p.kind = "push" /\ p.branch = Default => Free(p.history, ours)

Access == (\A u \in User : Order(u)) /\ ClonesAreExclusive

Content == OnBranch /\ DefaultIsThere /\ CommitsExist /\ DefaultIsOthers

IInv == TypeOK /\ Access /\ Content

\* Whoever works in the clone finds it there.
LEMMA CloneIsThere ==
  ASSUME IInv, NEW u \in User, has[u] # "nothing"
  PROVE  clone # NoClone /\ clone \in CloneType
BY DEF IInv, TypeOK, Access, ClonesAreExclusive, WorksIn
-----------------------------------------------------------------------------
(* What Git makes of the clone. *)

\* A command that has not raised has done its work.
LEMMA GitEnds ==
  ASSUME NEW possible \in BOOLEAN, NEW half, NEW done, NEW end \in Ends(possible, half, done)
  PROVE  /\ end[2] = clone \/ (possible /\ end[2] \in {half, done})
         /\ ~ _run_git_raises(end[1]) => possible /\ end[2] = done
BY DEF Ends, _run_git_raises

LEMMA WholeType ==
  ASSUME TypeOK
  PROVE  /\ WholeClone \in CloneType /\ PartialClone \in CloneType
         /\ WholeClone # NoClone /\ PartialClone # NoClone
         /\ WholeClone.whole /\ ~ PartialClone.whole
         /\ WholeClone.heads[Default] = heads[Default]
         /\ PartialClone.heads[Default] = heads[Default]
         /\ \A b \in Branch : WholeClone.heads[b] \in {heads[b], <<>>}
         /\ \A b \in Branch : PartialClone.heads[b] \in {heads[b], <<>>}
<1>1. [b \in Branch |-> IF b = Default THEN heads[b] ELSE <<>>] \in [Branch -> Seq(Commit)]
  BY EmptySeq DEF TypeOK
<1>2. WholeClone \in CloneType
  BY <1>1, BranchAssumption DEF WholeClone, CloneType
<1>3. PartialClone \in CloneType
  BY <1>2 DEF PartialClone, CloneType
<1>4. WholeClone.heads = PartialClone.heads /\ WholeClone.whole /\ ~ PartialClone.whole
  BY DEF WholeClone, PartialClone
<1>5. \A b \in Branch : WholeClone.heads[b] = IF b = Default THEN heads[b] ELSE <<>>
  BY DEF WholeClone
<1> QED
  BY <1>2, <1>3, <1>4, <1>5, NoCloneAssumption, BranchAssumption

LEMMA BranchedType ==
  ASSUME clone \in CloneType, NEW b \in Branch
  PROVE  /\ Branched(b) \in CloneType /\ HalfBranched(b) \in CloneType
         /\ Branched(b).whole = clone.whole /\ HalfBranched(b).whole = clone.whole
         /\ Branched(b).current = b /\ HalfBranched(b).current = clone.current
         /\ Branched(b).heads = [clone.heads EXCEPT ![b] = clone.heads[clone.current]]
         /\ HalfBranched(b).heads = [clone.heads EXCEPT ![b] = clone.heads[clone.current]]
<1>1. clone.current \in Branch /\ clone.heads \in [Branch -> Seq(Commit)]
  BY DEF CloneType
<1>2. [clone.heads EXCEPT ![b] = clone.heads[clone.current]] \in [Branch -> Seq(Commit)]
  BY <1>1
<1>3. /\ Branched(b) \in CloneType
      /\ Branched(b).whole = clone.whole
      /\ Branched(b).current = b
      /\ Branched(b).heads = [clone.heads EXCEPT ![b] = clone.heads[clone.current]]
  BY <1>1, <1>2 DEF Branched, CloneType
<1>4. /\ HalfBranched(b) \in CloneType
      /\ HalfBranched(b).whole = Branched(b).whole
      /\ HalfBranched(b).current = clone.current
      /\ HalfBranched(b).heads = Branched(b).heads
  BY <1>1, <1>3 DEF HalfBranched, CloneType
<1> QED
  BY <1>3, <1>4

LEMMA StagedType ==
  ASSUME clone \in CloneType
  PROVE  /\ Staged \in CloneType
         /\ Staged.whole = clone.whole /\ Staged.current = clone.current
         /\ Staged.heads = clone.heads
<1>1. (clone.staged \/ clone.changed) \in BOOLEAN
  OBVIOUS
<1> QED
  BY <1>1 DEF Staged, CloneType

LEMMA CommittedType ==
  ASSUME clone \in CloneType, commits \in Nat, commits < MaxCommits
  PROVE  /\ Committed \in CloneType
         /\ Committed.whole = clone.whole /\ Committed.current = clone.current
         /\ Committed.heads = [clone.heads EXCEPT ![clone.current] =
                                  Append(clone.heads[clone.current], commits + 1)]
<1>1. clone.current \in Branch /\ clone.heads \in [Branch -> Seq(Commit)]
  BY DEF CloneType
<1>2. commits + 1 \in Commit
  BY BoundsAssumption DEF Commit
<1>3. Append(clone.heads[clone.current], commits + 1) \in Seq(Commit)
  BY <1>1, <1>2, AppendProperties
<1>4. [clone.heads EXCEPT ![clone.current] = Append(clone.heads[clone.current], commits + 1)]
        \in [Branch -> Seq(Commit)]
  BY <1>1, <1>3
<1> QED
  BY <1>1, <1>4 DEF Committed, CloneType
-----------------------------------------------------------------------------
(* Histories. *)

LEMMA WithinMore ==
  ASSUME NEW s, NEW n \in Nat, NEW m \in Nat, n <= m, Within(s, n)
  PROVE  Within(s, m)
BY DEF Within

LEMMA WithinAppend ==
  ASSUME NEW s \in Seq(Commit), NEW n \in Nat, n + 1 \in Commit, Within(s, n)
  PROVE  Within(Append(s, n + 1), n + 1)
<1>1. /\ Append(s, n + 1) \in Seq(Commit)
      /\ Len(s) \in Nat /\ DOMAIN s = 1 .. Len(s)
      /\ Len(Append(s, n + 1)) = Len(s) + 1
      /\ DOMAIN Append(s, n + 1) = 1 .. Len(s) + 1
      /\ \A k \in 1 .. Len(s) : Append(s, n + 1)[k] = s[k]
      /\ Append(s, n + 1)[Len(s) + 1] = n + 1
  BY AppendProperties, LenProperties
<1> QED
  BY <1>1 DEF Within

LEMMA FreeAppend ==
  ASSUME NEW s \in Seq(Commit), NEW n \in Nat, n + 1 \in Commit, NEW of \in SUBSET (1 .. n),
         Free(s, of)
  PROVE  Free(Append(s, n + 1), of)
<1>1. /\ Append(s, n + 1) \in Seq(Commit)
      /\ Len(s) \in Nat /\ DOMAIN s = 1 .. Len(s)
      /\ Len(Append(s, n + 1)) = Len(s) + 1
      /\ DOMAIN Append(s, n + 1) = 1 .. Len(s) + 1
      /\ \A k \in 1 .. Len(s) : Append(s, n + 1)[k] = s[k]
      /\ Append(s, n + 1)[Len(s) + 1] = n + 1
  BY AppendProperties, LenProperties
<1>2. n + 1 \notin of
  OBVIOUS
<1> QED
  BY <1>1, <1>2 DEF Free

\* A new commit is none of those that a history already has.
LEMMA FreeOfNew ==
  ASSUME NEW s, NEW n \in Nat, Within(s, n), NEW of, Free(s, of)
  PROVE  Free(s, of \cup {n + 1})
BY DEF Within, Free

LEMMA EmptyHistory ==
  ASSUME NEW n, NEW of
  PROVE  Within(<<>>, n) /\ Free(<<>>, of)
BY DEF Within, Free
-----------------------------------------------------------------------------
(* Types. *)

LEMMA TypesNext ==
  ASSUME heads' \in [Branch -> Seq(Commit)],
         pulls' \cup requests' \subseteq granted',
         \A p \in granted' : p \in Requests,
         clone' = NoClone \/ clone' \in CloneType,
         pc' \in [User -> Phase],
         ingests' \in [User -> BOOLEAN],
         has' \in [User -> {"nothing", "clone", "branch"}],
         commits' \in Nat, ours' \subseteq 1 .. commits',
         calls' \in 0 .. MaxCalls
  PROVE  TypeOK'
BY DEF TypeOK, Phase

\* A call's step moves one user, and may give or take him his clone.
Moves(u) ==
  /\ \E after \in Phase : pc' = [pc EXCEPT ![u] = after]
  /\ \E h \in {"nothing", "clone", "branch"} : has' = [has EXCEPT ![u] = h]
  /\ \E i \in BOOLEAN : ingests' = [ingests EXCEPT ![u] = i]
  /\ calls' \in {calls, calls + 1} /\ calls' \in 0 .. MaxCalls

LEMMA BeginCounts ==
  ASSUME TypeOK, NEW u \in User, NEW after, Begin(u, after)
  PROVE  /\ pc[u] = "idle" /\ pc' = [pc EXCEPT ![u] = after]
         /\ calls' \in {calls, calls + 1} /\ calls' \in 0 .. MaxCalls
<1>1. calls \in 0 .. MaxCalls /\ calls < MaxCalls /\ calls' = calls + 1
  BY DEF TypeOK, Begin
<1>2. calls' \in 0 .. MaxCalls
  BY <1>1, BoundsAssumption
<1> QED
  BY <1>1, <1>2 DEF Begin, Goto

LEMMA HasSame ==
  ASSUME TypeOK, NEW u \in User
  PROVE  /\ has' = has => \E h \in {"nothing", "clone", "branch"} : has' = [has EXCEPT ![u] = h]
         /\ ingests' = ingests => \E i \in BOOLEAN : ingests' = [ingests EXCEPT ![u] = i]
         /\ pc' = pc => \E after \in Phase : pc' = [pc EXCEPT ![u] = after]
         /\ calls' = calls => calls' \in {calls, calls + 1} /\ calls' \in 0 .. MaxCalls
<1>1. has = [has EXCEPT ![u] = has[u]] /\ has[u] \in {"nothing", "clone", "branch"}
  BY DEF TypeOK
<1>2. ingests = [ingests EXCEPT ![u] = ingests[u]] /\ ingests[u] \in BOOLEAN
  BY DEF TypeOK
<1>3. pc = [pc EXCEPT ![u] = pc[u]] /\ pc[u] \in Phase
  BY DEF TypeOK, Phase
<1>4. calls \in 0 .. MaxCalls
  BY DEF TypeOK
<1> QED
  BY <1>1, <1>2, <1>3, <1>4

LEMMA TypesMove ==
  ASSUME TypeOK, NEW u \in User, Moves(u)
  PROVE  /\ pc' \in [User -> Phase]
         /\ ingests' \in [User -> BOOLEAN]
         /\ has' \in [User -> {"nothing", "clone", "branch"}]
         /\ calls' \in 0 .. MaxCalls
         /\ \A v \in User \ {u} : pc'[v] = pc[v] /\ has'[v] = has[v]
BY DEF TypeOK, Moves, Phase
-----------------------------------------------------------------------------
(* What a step must show for the invariant. *)

\* Who works where, when one user moves and the clone changes.
LEMMA AccessNext ==
  ASSUME IInv, NEW u \in User,
         \A v \in User \ {u} : pc'[v] = pc[v] /\ has'[v] = has[v],
         Order(u)',
         WorksIn(u)' =>
           /\ clone' # NoClone /\ (pc'[u] # "cloning" => clone'.whole)
           /\ \A v \in User \ {u} : ~ WorksIn(v),
         \A v \in User \ {u} : WorksIn(v) =>
           clone' # NoClone /\ (clone.whole => clone'.whole)
  PROVE  Access'
<1>1. \A v \in User \ {u} : (WorksIn(v)' <=> WorksIn(v)) /\ (Order(v)' <=> Order(v))
  BY DEF WorksIn, Order
<1>2. \A v \in User : Order(v)'
  BY <1>1 DEF IInv, Access
<1>3. ASSUME NEW v \in User, WorksIn(v)'
      PROVE  /\ clone' # NoClone
             /\ pc'[v] # "cloning" => clone'.whole
             /\ \A w \in User : WorksIn(w)' => v = w
  <2>1. CASE v = u
    BY <1>1, <1>3, <2>1
  <2>2. CASE v # u
    BY <1>1, <1>3, <2>2 DEF IInv, Access, ClonesAreExclusive
  <2> QED
    BY <2>1, <2>2
<1>4. ClonesAreExclusive'
  BY <1>3 DEF ClonesAreExclusive
<1> QED
  BY <1>2, <1>4 DEF Access

\* Nothing is said of commits where none are made, sent or copied.
LEMMA ContentSame ==
  ASSUME IInv, UNCHANGED <<heads, clone, history>>, requests' \subseteq requests,
         \A v \in User : has'[v] = "branch" => has[v] = "branch"
  PROVE  Content'
BY DEF IInv, Content, OnBranch, DefaultIsThere, CommitsExist, DefaultIsOthers, history

\* A call of one user that leaves the clone and GitHub as they are.
LEMMA QuietStep ==
  ASSUME IInv, NEW u \in User, Moves(u), UNCHANGED <<github, clone, history>>,
         Order(u)',
         WorksIn(u)' => WorksIn(u) /\ (pc[u] = "cloning" => pc'[u] = "cloning"),
         has'[u] = "branch" => has[u] = "branch"
  PROVE  IInv'
<1>1. TypeOK'
  <2>1. /\ pc' \in [User -> Phase] /\ ingests' \in [User -> BOOLEAN]
        /\ has' \in [User -> {"nothing", "clone", "branch"}] /\ calls' \in 0 .. MaxCalls
    BY TypesMove DEF IInv
  <2> QED
    BY <2>1, TypesNext DEF github, history, IInv, TypeOK
<1>2. \A v \in User \ {u} : pc'[v] = pc[v] /\ has'[v] = has[v]
  BY TypesMove DEF IInv
<1>3. Access'
  <2>1. WorksIn(u) => clone # NoClone /\ (pc[u] # "cloning" => clone.whole)
                      /\ \A v \in User \ {u} : ~ WorksIn(v)
    BY DEF IInv, Access, ClonesAreExclusive
  <2>2. \A v \in User \ {u} : WorksIn(v) => clone # NoClone
    BY DEF IInv, Access, ClonesAreExclusive
  <2> QED
    BY <1>2, <2>1, <2>2, AccessNext
<1>4. Content'
  <2>1. \A v \in User : has'[v] = "branch" => has[v] = "branch"
    BY <1>2
  <2> QED
    BY <2>1, ContentSame DEF github, history
<1> QED
  BY <1>1, <1>3, <1>4 DEF IInv

\* The clone is made anew or goes, where nobody has a branch.
LEMMA ContentAnew ==
  ASSUME IInv, clone' \in {NoClone, WholeClone, PartialClone},
         UNCHANGED <<heads, requests, history>>,
         \A v \in User : has'[v] # "branch"
  PROVE  Content'
<1>1. OnBranch'
  BY DEF OnBranch
<1>2. clone' # NoClone =>
        /\ clone'.heads[Default] = heads[Default]
        /\ \A b \in Branch : clone'.heads[b] \in {heads[b], <<>>}
  BY WholeType DEF IInv
<1>3. DefaultIsThere'
  BY <1>2 DEF DefaultIsThere, IInv, Content
<1>4. CommitsExist'
  BY <1>2, EmptyHistory DEF CommitsExist, IInv, Content, history
<1>5. DefaultIsOthers'
  BY <1>2 DEF DefaultIsOthers, IInv, Content, history
<1> QED
  BY <1>1, <1>3, <1>4, <1>5 DEF Content
-----------------------------------------------------------------------------
(* One lemma per step. *)

LEMMA InvValidateUrl ==
  ASSUME IInv, NEW u \in User, NEW url \in Url, NEW i \in BOOLEAN, ValidateUrl(u, url, i)
  PROVE  IInv'
<1> DEFINE after == IF parse_github_url(url) = Repository THEN "metadata" ELSE "idle"
<1>1. /\ has[u] = "nothing" /\ Begin(u, after) /\ ingests' = [ingests EXCEPT ![u] = i]
      /\ UNCHANGED <<github, clone, has, history>>
  BY DEF ValidateUrl
<1>2. after \in {"metadata", "idle"}
  OBVIOUS
<1> HIDE DEF after
<1>3. /\ pc[u] = "idle" /\ pc' = [pc EXCEPT ![u] = after]
      /\ calls' \in {calls, calls + 1} /\ calls' \in 0 .. MaxCalls
  BY <1>1, BeginCounts DEF IInv
<1>4. Moves(u)
  BY <1>1, <1>2, <1>3, HasSame DEF Moves, Phase, IInv
<1>5. pc'[u] = after /\ has'[u] = "nothing"
  BY <1>1, <1>3 DEF IInv, TypeOK
<1> QED
  BY <1>1, <1>2, <1>4, <1>5, QuietStep DEF Order, WorksIn

\* A step of a call that only goes on.
LEMMA InvGoto ==
  ASSUME IInv, NEW u \in User, NEW after \in Phase, Goto(u, after),
         UNCHANGED <<github, clone, ingests, has, history, calls>>,
         after \in BeforeReturn => has[u] = "nothing",
         after # "commit",
         pc[u] # "cloning",
         after \in {"cloning", "ingest", "index", "graph"} => WorksIn(u)
  PROVE  IInv'
<1>1. pc'[u] = after /\ has'[u] = has[u]
  BY DEF Goto, IInv, TypeOK
<1>2. Moves(u)
  BY HasSame DEF Moves, Goto, IInv
<1> QED
  BY <1>1, <1>2, QuietStep DEF Order, WorksIn

LEMMA InvGetRepository ==
  ASSUME IInv, NEW u \in User, GetRepository(u)
  PROVE  IInv'
<1>1. PICK after \in {"idle", "clone"} : Goto(u, after)
  BY DEF GetRepository
<1>2. has[u] = "nothing" /\ pc[u] = "metadata"
  BY DEF GetRepository, IInv, Access, Order, BeforeReturn
<1> QED
  BY <1>1, <1>2, InvGoto DEF GetRepository, Phase

LEMMA InvStartClone ==
  ASSUME IInv, NEW u \in User, StartClone(u)
  PROVE  IInv'
<1>1. has[u] = "nothing" /\ pc[u] = "clone"
  BY DEF StartClone, IInv, Access, Order, BeforeReturn
<1>2. CASE clone # NoClone
  BY <1>1, <1>2, InvGoto DEF StartClone, Phase
<1>3. CASE clone = NoClone
  <2>1. Goto(u, "cloning") /\ clone' = PartialClone
    BY <1>3 DEF StartClone
  <2>2. Moves(u)
    BY <2>1, HasSame DEF StartClone, Moves, Goto, Phase, IInv
  <2>3. PartialClone \in CloneType /\ PartialClone # NoClone
    BY WholeType DEF IInv
  <2>4. TypeOK'
    BY <2>1, <2>2, <2>3, TypesMove, TypesNext DEF StartClone, github, history, IInv, TypeOK
  <2>5. \A v \in User : ~ WorksIn(v)
    BY <1>3 DEF IInv, Access, ClonesAreExclusive
  <2>6. pc'[u] = "cloning" /\ has'[u] = "nothing" /\ has' = has
    BY <1>1, <2>1 DEF StartClone, Goto, IInv, TypeOK
  <2>7. Access'
    BY <2>1, <2>2, <2>3, <2>5, <2>6, TypesMove, AccessNext DEF IInv, Order
  <2>8. \A v \in User : has'[v] # "branch"
    BY <2>5, <2>6 DEF WorksIn
  <2>9. Content'
    BY <2>1, <2>8, ContentAnew DEF StartClone, github
  <2> QED
    BY <2>4, <2>7, <2>9 DEF IInv
<1> QED
  BY <1>2, <1>3

LEMMA InvFinishClone ==
  ASSUME IInv, NEW u \in User, FinishClone(u)
  PROVE  IInv'
<1>1. PICK end \in {<<"ended", WholeClone>>, <<"failed", NoClone>>,
                    <<"killed", PartialClone>>, <<"killed", WholeClone>>} :
        /\ clone' = end[2]
        /\ IF _run_git_raises(end[1])
           THEN Goto(u, "idle") /\ UNCHANGED has
           ELSE IF ingests[u]
           THEN Goto(u, "ingest") /\ UNCHANGED has
           ELSE Goto(u, "idle") /\ has' = [has EXCEPT ![u] = "clone"]
  BY DEF FinishClone
<1>2. /\ pc[u] = "cloning" /\ has[u] = "nothing"
      /\ UNCHANGED <<heads, pulls, requests, granted, ingests, history, calls>>
  BY DEF FinishClone, github, IInv, Access, Order, BeforeReturn
<1>3. clone' \in {NoClone, WholeClone, PartialClone}
  BY <1>1
<1>4. ~ _run_git_raises(end[1]) => clone' = WholeClone
  BY <1>1 DEF _run_git_raises
<1>5. Moves(u)
  BY <1>1, <1>2, HasSame DEF Moves, Goto, Phase, IInv
<1>6. /\ pc'[u] \in {"idle", "ingest"} /\ has'[u] \in {"nothing", "clone"}
      /\ pc'[u] = "ingest" \/ has'[u] = "clone" => clone' = WholeClone
      /\ pc'[u] = "ingest" => has'[u] = "nothing"
  BY <1>1, <1>2, <1>4 DEF Goto, IInv, TypeOK
<1>7. TypeOK'
  <2>1. clone' = NoClone \/ clone' \in CloneType
    BY <1>3, WholeType DEF IInv
  <2> QED
    BY <1>2, <1>5, <2>1, TypesMove, TypesNext DEF history, IInv, TypeOK
<1>8. \A v \in User \ {u} : ~ WorksIn(v)
  BY <1>2 DEF IInv, Access, ClonesAreExclusive, WorksIn
<1>9. Access'
  <2>1. WorksIn(u)' => clone' # NoClone /\ clone'.whole
    BY <1>6, WholeType DEF WorksIn, IInv
  <2>2. Order(u)'
    BY <1>6 DEF Order, BeforeReturn
  <2> QED
    BY <1>5, <1>8, <2>1, <2>2, TypesMove, AccessNext DEF IInv
<1>10. \A v \in User : has'[v] # "branch"
  BY <1>5, <1>6, <1>8, TypesMove DEF WorksIn, IInv
<1>11. Content'
  BY <1>2, <1>3, <1>10, ContentAnew
<1> QED
  BY <1>7, <1>9, <1>11 DEF IInv

LEMMA InvIngest ==
  ASSUME IInv, NEW u \in User, Ingest(u)
  PROVE  IInv'
<1>1. PICK after \in {"index", "idle"} : Goto(u, after)
  BY DEF Ingest
<1>2. has[u] = "nothing" /\ pc[u] = "ingest" /\ WorksIn(u)
  BY DEF Ingest, IInv, Access, Order, BeforeReturn, WorksIn
<1> QED
  BY <1>1, <1>2, InvGoto DEF Ingest, Phase

LEMMA InvIndexAndGraph ==
  ASSUME IInv, NEW u \in User, IndexAndGraph(u)
  PROVE  IInv'
<1>1. has[u] = "nothing" /\ pc[u] \in {"index", "graph"} /\ WorksIn(u)
  BY DEF IndexAndGraph, IInv, Access, Order, BeforeReturn, WorksIn
<1>2. CASE Goto(u, "graph") /\ UNCHANGED has
  BY <1>1, <1>2, InvGoto DEF IndexAndGraph, Phase
<1>3. CASE Goto(u, "idle") /\ UNCHANGED has
  BY <1>1, <1>3, InvGoto DEF IndexAndGraph, Phase, BeforeReturn
<1>4. CASE Goto(u, "idle") /\ has' = [has EXCEPT ![u] = "clone"]
  <2>1. Moves(u)
    BY <1>4, HasSame DEF IndexAndGraph, Moves, Goto, Phase, IInv
  <2>2. pc'[u] = "idle" /\ has'[u] = "clone"
    BY <1>4 DEF Goto, IInv, TypeOK
  <2> QED
    BY <1>1, <2>1, <2>2, QuietStep DEF IndexAndGraph, Order, BeforeReturn
<1> QED
  BY <1>2, <1>3, <1>4 DEF IndexAndGraph

LEMMA InvRevParse ==
  ASSUME IInv, NEW u \in User, RevParse(u)
  PROVE  IInv'
BY InvGoto DEF RevParse, Phase, BeforeReturn

LEMMA InvEndSend ==
  ASSUME IInv, NEW u \in User, EndSend(u)
  PROVE  IInv'
BY InvGoto DEF EndSend, Phase, BeforeReturn

LEMMA InvLetGo ==
  ASSUME IInv, NEW u \in User, LetGo(u)
  PROVE  IInv'
<1>1. /\ pc[u] = "idle" /\ pc' = pc /\ has' = [has EXCEPT ![u] = "nothing"]
      /\ UNCHANGED <<github, clone, ingests, history, calls>> /\ has[u] # "nothing"
  BY DEF LetGo
<1>2. Moves(u)
  BY <1>1, HasSame DEF Moves, IInv
<1>3. has'[u] = "nothing" /\ pc'[u] = "idle"
  BY <1>1 DEF IInv, TypeOK
<1> QED
  BY <1>1, <1>2, <1>3, QuietStep DEF Order, WorksIn, BeforeReturn

\* A command that its user runs in the clone he has: what it must leave alone.
LEMMA WorkStep ==
  ASSUME IInv, NEW u \in User, has[u] # "nothing", Moves(u),
         pc'[u] \in {"idle", "commit", "rev-parse"}, has'[u] # "nothing",
         pc'[u] = "commit" => has'[u] = "branch",
         UNCHANGED github,
         clone' \in CloneType, clone'.whole = clone.whole,
         has'[u] = "branch" => clone'.current # Default,
         clone'.heads[Default] = clone.heads[Default],
         \/ UNCHANGED history
         \/ commits' = commits + 1 /\ ours' = ours \cup {commits + 1},
         \A b \in Branch : Within(clone'.heads[b], commits')
  PROVE  IInv'
<1>1. clone \in CloneType /\ clone # NoClone /\ clone' # NoClone
  BY CloneIsThere, NoCloneAssumption
<1>2. \A v \in User \ {u} : ~ WorksIn(v) /\ pc'[v] = pc[v] /\ has'[v] = has[v]
  BY TypesMove DEF IInv, Access, ClonesAreExclusive, WorksIn
<1>3. commits \in Nat /\ commits' \in Nat /\ commits <= commits' /\ ours' \subseteq 1 .. commits'
  <2>1. commits \in Nat /\ ours \subseteq 1 .. commits
    BY DEF IInv, TypeOK
  <2>2. CASE UNCHANGED history
    BY <2>1, <2>2 DEF history
  <2>3. CASE commits' = commits + 1 /\ ours' = ours \cup {commits + 1}
    BY <2>1, <2>3
  <2> QED
    BY <2>2, <2>3
<1>4. TypeOK'
  <2>1. /\ pc' \in [User -> Phase] /\ ingests' \in [User -> BOOLEAN]
        /\ has' \in [User -> {"nothing", "clone", "branch"}] /\ calls' \in 0 .. MaxCalls
    BY TypesMove DEF IInv
  <2> QED
    BY <1>3, <2>1, TypesNext DEF github, IInv, TypeOK
<1>5. Access'
  <2>1. clone.whole
    BY <1>1 DEF IInv, Access, ClonesAreExclusive, WorksIn, Order, BeforeReturn
  <2>2. Order(u)'
    BY DEF Order, BeforeReturn
  <2> QED
    BY <1>1, <1>2, <2>1, <2>2, AccessNext
<1>6. OnBranch'
  BY <1>2 DEF OnBranch, WorksIn
<1>7. DefaultIsThere'
  BY <1>1 DEF DefaultIsThere, IInv, Content, github
<1>8. CommitsExist'
  BY <1>3, WithinMore DEF CommitsExist, IInv, Content, github
<1>9. DefaultIsOthers'
  <2>1. CASE UNCHANGED history
    BY <1>1, <2>1 DEF DefaultIsOthers, IInv, Content, github, history
  <2>2. CASE ours' = ours \cup {commits + 1}
    <3>1. Within(heads[Default], commits) /\ Within(clone.heads[Default], commits)
      BY <1>1, BranchAssumption DEF IInv, Content, CommitsExist
    <3> QED
      BY <1>1, <1>3, <2>2, <3>1, FreeOfNew DEF DefaultIsOthers, CommitsExist, IInv, Content, github
  <2> QED
    BY <2>1, <2>2
<1> QED
  BY <1>4, <1>5, <1>6, <1>7, <1>8, <1>9 DEF IInv, Content

LEMMA InvCreateBranch ==
  ASSUME IInv, NEW u \in User, NEW b \in Branch, CreateBranch(u, b)
  PROVE  IInv'
<1>1. clone \in CloneType /\ clone # NoClone /\ has[u] # "nothing"
  BY CloneIsThere DEF CreateBranch
<1>2. PICK end \in Ends(clone.heads[b] = <<>>, HalfBranched(b), Branched(b)) :
        /\ clone' = end[2]
        /\ has' = IF _run_git_raises(end[1]) THEN has ELSE [has EXCEPT ![u] = "branch"]
  BY DEF CreateBranch
<1>3. /\ clone' = clone \/ (clone.heads[b] = <<>> /\ clone' \in {HalfBranched(b), Branched(b)})
      /\ ~ _run_git_raises(end[1]) => clone.heads[b] = <<>> /\ clone' = Branched(b)
  <2>1. /\ end[2] = clone
             \/ (clone.heads[b] = <<>> /\ end[2] \in {HalfBranched(b), Branched(b)})
        /\ ~ _run_git_raises(end[1]) => clone.heads[b] = <<>> /\ end[2] = Branched(b)
    BY DEF Ends, _run_git_raises
  <2> QED
    BY <1>2, <2>1
<1>4. clone.heads[b] = <<>> => b # Default
  BY <1>1 DEF IInv, Content, DefaultIsThere
<1>5. /\ clone.current \in Branch /\ clone.heads \in [Branch -> Seq(Commit)]
      /\ \A x \in Branch : Within(clone.heads[x], commits)
  BY <1>1 DEF CloneType, IInv, Content, CommitsExist
<1>6. /\ clone' \in CloneType /\ clone'.whole = clone.whole
      /\ clone'.heads \in {clone.heads, [clone.heads EXCEPT ![b] = clone.heads[clone.current]]}
      /\ clone'.heads[Default] = clone.heads[Default]
  <2>1. CASE clone' = clone
    BY <1>1, <2>1
  <2>2. CASE clone.heads[b] = <<>> /\ clone' \in {HalfBranched(b), Branched(b)}
    <3>1. /\ clone' \in CloneType /\ clone'.whole = clone.whole
          /\ clone'.heads = [clone.heads EXCEPT ![b] = clone.heads[clone.current]]
      BY <1>1, <2>2, BranchedType
    <3> QED
      BY <1>4, <1>5, <2>2, <3>1, BranchAssumption
  <2> QED
    BY <1>3, <2>1, <2>2
<1>7. \A x \in Branch : Within(clone'.heads[x], commits)
  BY <1>5, <1>6
<1>8. /\ pc[u] = "idle" /\ pc' = [pc EXCEPT ![u] = "idle"]
      /\ calls' \in {calls, calls + 1} /\ calls' \in 0 .. MaxCalls
  BY BeginCounts DEF CreateBranch, IInv
<1>9. Moves(u)
  BY <1>2, <1>8, HasSame DEF CreateBranch, Moves, Phase, IInv
<1>10. pc'[u] = "idle" /\ has'[u] # "nothing"
  BY <1>1, <1>2, <1>8 DEF IInv, TypeOK
<1>11. has'[u] = "branch" => clone'.current # Default
  <2>1. CASE _run_git_raises(end[1])
    <3>1. has'[u] = "branch" => clone.current # Default
      BY <1>2, <2>1 DEF IInv, Content, OnBranch
    <3> QED
      BY <1>1, <1>3, <1>4, <3>1, BranchedType
  <2>2. CASE ~ _run_git_raises(end[1])
    BY <1>1, <1>3, <1>4, <2>2, BranchedType
  <2> QED
    BY <2>1, <2>2
<1> QED
  BY <1>1, <1>6, <1>7, <1>9, <1>10, <1>11, WorkStep DEF CreateBranch, history

LEMMA InvAddAll ==
  ASSUME IInv, NEW u \in User, AddAll(u)
  PROVE  IInv'
<1>1. clone \in CloneType /\ clone # NoClone /\ has[u] = "branch"
  BY CloneIsThere DEF AddAll
<1>2. PICK end \in Ends(TRUE, Staged, Staged) :
        clone' = end[2] /\ Begin(u, IF _run_git_raises(end[1]) THEN "idle" ELSE "commit")
  BY DEF AddAll
<1>3. clone' \in {clone, Staged}
  BY <1>2, GitEnds
<1>4. /\ clone' \in CloneType /\ clone'.whole = clone.whole /\ clone'.current = clone.current
      /\ clone'.heads = clone.heads
  BY <1>1, <1>3, StagedType
<1>5. PICK after \in {"idle", "commit"} : Begin(u, after)
  BY <1>2
<1>6. /\ pc' = [pc EXCEPT ![u] = after]
      /\ calls' \in {calls, calls + 1} /\ calls' \in 0 .. MaxCalls
  BY <1>5, BeginCounts DEF IInv
<1>7. Moves(u)
  BY <1>6, HasSame DEF AddAll, Moves, Phase, IInv
<1>8. pc'[u] = after /\ has'[u] = "branch"
  BY <1>1, <1>6 DEF AddAll, IInv, TypeOK
<1>9. \A b \in Branch : Within(clone.heads[b], commits)
  BY <1>1 DEF IInv, Content, CommitsExist
<1>10. clone.current # Default
  BY <1>1 DEF IInv, Content, OnBranch
<1> QED
  BY <1>1, <1>4, <1>7, <1>8, <1>9, <1>10, WorkStep DEF AddAll, history

LEMMA InvCommitStaged ==
  ASSUME IInv, NEW u \in User, CommitStaged(u)
  PROVE  IInv'
<1>1. pc[u] = "commit" /\ has[u] = "branch" /\ commits < MaxCommits /\ commits \in Nat
  BY DEF CommitStaged, IInv, TypeOK, Access, Order
<1>2. clone \in CloneType /\ clone # NoClone
  BY <1>1, CloneIsThere
<1>3. PICK end \in Ends(clone.staged, clone, Committed) :
        /\ clone' = end[2]
        /\ IF clone'.heads = clone.heads
           THEN UNCHANGED history
           ELSE commits' = commits + 1 /\ ours' = ours \cup {commits + 1}
        /\ Goto(u, IF _run_git_raises(end[1]) THEN "idle" ELSE "rev-parse")
  BY DEF CommitStaged
<1>4. clone' \in {clone, Committed}
  <2>1. clone.staged \in BOOLEAN
    BY <1>2 DEF CloneType
  <2> QED
    BY <1>3, <2>1, GitEnds
<1>5. clone.current # Default
  BY <1>1 DEF IInv, Content, OnBranch
<1>6. /\ clone.current \in Branch /\ clone.heads \in [Branch -> Seq(Commit)]
      /\ \A b \in Branch : Within(clone.heads[b], commits)
  BY <1>2 DEF CloneType, IInv, Content, CommitsExist
<1>7. /\ clone' \in CloneType /\ clone'.whole = clone.whole /\ clone'.current = clone.current
      /\ \/ clone'.heads = clone.heads
         \/ clone'.heads = [clone.heads EXCEPT ![clone.current] =
                               Append(clone.heads[clone.current], commits + 1)]
  BY <1>1, <1>2, <1>4, CommittedType
<1>8. clone'.heads[Default] = clone.heads[Default]
  BY <1>5, <1>6, <1>7, BranchAssumption
<1>9. \A b \in Branch : Within(clone'.heads[b], commits')
  <2>1. CASE clone'.heads = clone.heads
    BY <1>3, <1>6, <2>1 DEF history
  <2>2. CASE clone'.heads # clone.heads
    <3>1. commits + 1 \in Commit
      BY <1>1, BoundsAssumption DEF Commit
    <3>2. Within(Append(clone.heads[clone.current], commits + 1), commits + 1)
      BY <1>1, <1>6, <3>1, WithinAppend
    <3>3. \A b \in Branch : Within(clone.heads[b], commits + 1)
      BY <1>1, <1>6, WithinMore
    <3>4. commits' = commits + 1
      BY <1>3, <2>2
    <3> QED
      BY <1>6, <1>7, <2>2, <3>2, <3>3, <3>4
  <2> QED
    BY <2>1, <2>2
<1>10. PICK after \in {"idle", "rev-parse"} : Goto(u, after)
  BY <1>3
<1>11. Moves(u)
  BY <1>10, HasSame DEF CommitStaged, Moves, Goto, Phase, IInv
<1>12. pc'[u] = after /\ has'[u] = "branch"
  BY <1>1, <1>10 DEF CommitStaged, Goto, IInv, TypeOK
<1>13. \/ UNCHANGED history
       \/ commits' = commits + 1 /\ ours' = ours \cup {commits + 1}
  BY <1>3
<1> QED
  BY <1>1, <1>5, <1>7, <1>8, <1>9, <1>11, <1>12, <1>13, WorkStep DEF CommitStaged

\* A push or a pull request that is sent is one that somebody has agreed to.
LEMMA InvSend ==
  ASSUME IInv, NEW u \in User, has[u] # "nothing",
         NEW p \in Requests, NEW possible \in BOOLEAN, NEW agreed \in BOOLEAN,
         Send(u, p, possible, agreed),
         p.kind = "push" =>
           Within(p.history, commits) /\ (p.branch = Default => Free(p.history, ours))
  PROVE  IInv'
<1>1. /\ granted' = (IF agreed THEN granted \cup {p} ELSE granted)
      /\ UNCHANGED <<heads, pulls, clone, ingests, has, history>>
  BY DEF Send
<1>2. PICK after \in {"idle", "send"} : Begin(u, after)
  BY DEF Send
<1>3. requests' = requests \/ (agreed /\ requests' = requests \cup {p})
  BY DEF Send, MaySend
<1>4. /\ pc[u] = "idle" /\ pc' = [pc EXCEPT ![u] = after]
      /\ calls' \in {calls, calls + 1} /\ calls' \in 0 .. MaxCalls
  BY <1>2, BeginCounts DEF IInv
<1>5. Moves(u)
  BY <1>1, <1>4, HasSame DEF Moves, Phase, IInv
<1>6. pc'[u] = after /\ has'[u] = has[u]
  BY <1>1, <1>4 DEF IInv, TypeOK
<1>7. TypeOK'
  <2>1. pulls' \cup requests' \subseteq granted' /\ \A q \in granted' : q \in Requests
    BY <1>1, <1>3 DEF IInv, TypeOK
  <2>2. /\ pc' \in [User -> Phase] /\ ingests' \in [User -> BOOLEAN]
        /\ has' \in [User -> {"nothing", "clone", "branch"}] /\ calls' \in 0 .. MaxCalls
    BY <1>5, TypesMove DEF IInv
  <2> QED
    BY <1>1, <2>1, <2>2, TypesNext DEF history, IInv, TypeOK
<1>8. Access'
  <2>1. /\ clone # NoClone /\ clone.whole
        /\ \A v \in User \ {u} : ~ WorksIn(v)
    BY <1>4 DEF IInv, Access, ClonesAreExclusive, WorksIn
  <2>2. Order(u)'
    BY <1>6 DEF Order, BeforeReturn
  <2> QED
    BY <1>1, <1>5, <2>1, <2>2, TypesMove, AccessNext DEF IInv
<1>9. OnBranch' /\ DefaultIsThere'
  BY <1>1 DEF IInv, Content, OnBranch, DefaultIsThere
<1>10. CommitsExist' /\ DefaultIsOthers'
  BY <1>1, <1>3 DEF IInv, Content, CommitsExist, DefaultIsOthers, history
<1> QED
  BY <1>7, <1>8, <1>9, <1>10 DEF IInv, Content

LEMMA PushTypes ==
  ASSUME clone \in CloneType, NEW b \in Branch
  PROVE  PushOf(b) \in Requests
<1>1. clone.heads[b] \in Seq(Commit)
  BY DEF CloneType
<1> QED
  BY <1>1 DEF PushOf, Requests

LEMMA InvPushBranch ==
  ASSUME IInv, NEW u \in User, NEW b \in Branch, NEW agreed \in BOOLEAN,
         PushBranch(u, b, agreed)
  PROVE  IInv'
<1>1. has[u] # "nothing" /\ clone \in CloneType /\ clone # NoClone
  BY CloneIsThere DEF PushBranch
<1>2. PushOf(b) \in Requests
  BY <1>1, PushTypes
<1>3. /\ PushOf(b).history = clone.heads[b] /\ PushOf(b).branch = b
      /\ Within(clone.heads[b], commits)
      /\ b = Default => Free(clone.heads[b], ours)
  BY <1>1 DEF PushOf, IInv, Content, CommitsExist, DefaultIsOthers
<1>4. PICK possible \in BOOLEAN : Send(u, PushOf(b), possible, agreed)
  <2>1. Send(u, PushOf(b), clone.heads[b] # <<>>, agreed)
    BY DEF PushBranch
  <2>2. CASE clone.heads[b] # <<>>
    <3>1. Send(u, PushOf(b), TRUE, agreed)
      BY <2>1, <2>2 DEF Send
    <3> QED
      BY <3>1
  <2>3. CASE clone.heads[b] = <<>>
    <3>1. Send(u, PushOf(b), FALSE, agreed)
      BY <2>1, <2>3 DEF Send
    <3> QED
      BY <3>1
  <2> QED
    BY <2>2, <2>3
<1> QED
  BY <1>1, <1>2, <1>3, <1>4, InvSend

LEMMA InvCreatePullRequest ==
  ASSUME IInv, NEW u \in User, NEW head \in Branch, NEW base \in Branch,
         NEW agreed \in BOOLEAN, CreatePullRequest(u, head, base, agreed)
  PROVE  IInv'
<1>1. PullOf(head, base) \in Requests /\ PullOf(head, base).kind # "push"
  BY DEF PullOf, Requests
<1>2. has[u] # "nothing" /\ Send(u, PullOf(head, base), TRUE, agreed)
  BY DEF CreatePullRequest
<1> QED
  BY <1>1, <1>2, InvSend
-----------------------------------------------------------------------------
(* GitHub, other people, and the directory. *)

LEMMA AccessSame ==
  ASSUME IInv, UNCHANGED <<pc, has>>,
         (\E u \in User : WorksIn(u)) => clone' # NoClone /\ (clone.whole => clone'.whole)
  PROVE  Access'
<1>1. \A u \in User : (WorksIn(u)' <=> WorksIn(u)) /\ (Order(u)' <=> Order(u))
  BY DEF WorksIn, Order
<1>2. ClonesAreExclusive'
  BY <1>1 DEF IInv, Access, ClonesAreExclusive
<1> QED
  BY <1>1, <1>2 DEF IInv, Access

LEMMA RequestTypes ==
  ASSUME TypeOK, NEW p \in requests
  PROVE  /\ p \in granted /\ p \in Requests
         /\ p.kind = "push" => p.branch \in Branch /\ p.history \in Seq(Commit)
         /\ p.kind = "pull" => p.head \in Branch /\ p.base \in Branch
<1>1. p \in granted /\ p \in Requests
  BY DEF TypeOK
<1> QED
  BY <1>1 DEF Requests

\* A branch that is fast-forwarded is not empty afterwards.
LEMMA FastForwardAdds ==
  ASSUME NEW old \in Seq(Commit), NEW new \in Seq(Commit), FastForward(old, new)
  PROVE  new # <<>>
<1>1. Len(old) <= Len(new) /\ old # new /\ Len(old) \in Nat
  BY LenProperties DEF FastForward, IsStrictPrefix, IsPrefix
<1>2. ASSUME new = <<>>
      PROVE  FALSE
  <2>1. Len(old) = 0
    BY <1>1, <1>2, EmptySeq
  <2> QED
    BY <1>1, <1>2, <2>1, EmptySeq
<1> QED
  BY <1>2

LEMMA InvReceive ==
  ASSUME IInv, NEW p \in requests, Receive(p)
  PROVE  IInv'
<1>1. /\ requests' = requests \ {p}
      /\ UNCHANGED <<granted, clone, pc, ingests, has, history, calls>>
      /\ ReceivePush(p) \/ ReceivePull(p)
  BY DEF Receive
<1>2. p \in granted /\ (p.kind = "push" => p.branch \in Branch /\ p.history \in Seq(Commit))
  BY RequestTypes DEF IInv
<1>3. Access'
  BY <1>1, AccessSame DEF IInv, Access, ClonesAreExclusive
<1>4. CASE heads' = heads /\ (pulls' = pulls \/ pulls' = pulls \cup {p})
  <2>1. TypeOK'
    BY <1>1, <1>2, <1>4 DEF IInv, TypeOK, history
  <2>2. Content'
    BY <1>1, <1>4, ContentSame
  <2> QED
    BY <1>3, <2>1, <2>2 DEF IInv
<1>5. CASE /\ p.kind = "push" /\ FastForward(heads[p.branch], p.history) /\ pulls' = pulls
           /\ heads' = [heads EXCEPT ![p.branch] = p.history]
  <2>1. TypeOK'
    BY <1>1, <1>2, <1>5 DEF IInv, TypeOK, history
  <2>2. p.history # <<>>
    BY <1>2, <1>5, FastForwardAdds DEF IInv, TypeOK
  <2>3. /\ Within(p.history, commits)
        /\ p.branch = Default => Free(p.history, ours)
    BY <1>5 DEF IInv, Content, CommitsExist, DefaultIsOthers
  <2>4. \A b \in Branch : heads'[b] = IF b = p.branch THEN p.history ELSE heads[b]
    BY <1>2, <1>5 DEF IInv, TypeOK
  <2>5. OnBranch'
    BY <1>1 DEF IInv, Content, OnBranch
  <2>6. DefaultIsThere'
    BY <1>1, <2>2, <2>4, BranchAssumption DEF IInv, Content, DefaultIsThere
  <2>7. CommitsExist'
    BY <1>1, <2>3, <2>4 DEF IInv, Content, CommitsExist, history
  <2>8. DefaultIsOthers'
    BY <1>1, <2>3, <2>4, BranchAssumption DEF IInv, Content, DefaultIsOthers, history
  <2> QED
    BY <1>3, <2>1, <2>5, <2>6, <2>7, <2>8 DEF IInv, Content
<1> QED
  BY <1>1, <1>4, <1>5 DEF ReceivePush, ReceivePull

LEMMA InvLose ==
  ASSUME IInv, NEW p \in requests, Lose(p)
  PROVE  IInv'
<1>1. /\ requests' = requests \ {p}
      /\ UNCHANGED <<heads, pulls, granted, clone, pc, ingests, has, history, calls>>
  BY DEF Lose
<1>2. Access'
  BY <1>1, AccessSame DEF IInv, Access, ClonesAreExclusive
<1>3. TypeOK'
  BY <1>1 DEF IInv, TypeOK, history
<1>4. Content'
  BY <1>1, ContentSame
<1> QED
  BY <1>2, <1>3, <1>4 DEF IInv

LEMMA InvOthersPush ==
  ASSUME IInv, NEW b \in Branch, OthersPush(b)
  PROVE  IInv'
<1>1. /\ commits < MaxCommits /\ commits' = commits + 1
      /\ heads' = [heads EXCEPT ![b] = Append(heads[b], commits + 1)]
      /\ UNCHANGED <<pulls, requests, granted, clone, pc, ingests, has, ours, calls>>
  BY DEF OthersPush
<1>2. /\ commits \in Nat /\ ours \subseteq 1 .. commits /\ heads \in [Branch -> Seq(Commit)]
      /\ commits + 1 \in Commit
  BY <1>1, BoundsAssumption DEF IInv, TypeOK, Commit
<1>3. Append(heads[b], commits + 1) \in Seq(Commit) /\ Append(heads[b], commits + 1) # <<>>
  BY <1>2, AppendProperties
<1>4. TypeOK'
  <2>1. heads' \in [Branch -> Seq(Commit)]
    BY <1>1, <1>2, <1>3
  <2>2. commits' \in Nat /\ ours' \subseteq 1 .. commits'
    BY <1>1, <1>2
  <2> QED
    BY <1>1, <2>1, <2>2, TypesNext DEF IInv, TypeOK, Phase
<1>5. Access'
  BY <1>1, AccessSame DEF IInv, Access, ClonesAreExclusive
<1>6. \A x \in Branch : heads'[x] = IF x = b THEN Append(heads[b], commits + 1) ELSE heads[x]
  BY <1>1, <1>2
<1>7. OnBranch' /\ DefaultIsThere'
  BY <1>1, <1>3, <1>6, BranchAssumption DEF IInv, Content, OnBranch, DefaultIsThere
<1>8. CommitsExist'
  <2>1. Within(Append(heads[b], commits + 1), commits + 1)
    BY <1>2, WithinAppend DEF IInv, Content, CommitsExist
  <2>2. \A x \in Branch : Within(heads'[x], commits + 1)
    BY <1>2, <1>6, <2>1, WithinMore DEF IInv, Content, CommitsExist
  <2>3. clone # NoClone => \A x \in Branch : Within(clone.heads[x], commits + 1)
    BY <1>2, WithinMore DEF IInv, Content, CommitsExist
  <2>4. \A p \in requests : p.kind = "push" => Within(p.history, commits + 1)
    BY <1>2, WithinMore DEF IInv, Content, CommitsExist
  <2> QED
    BY <1>1, <2>2, <2>3, <2>4 DEF CommitsExist
<1>9. DefaultIsOthers'
  <2>1. Free(heads'[Default], ours)
    BY <1>2, <1>6, FreeAppend, BranchAssumption DEF IInv, Content, DefaultIsOthers
  <2> QED
    BY <1>1, <2>1 DEF IInv, Content, DefaultIsOthers
<1> QED
  BY <1>4, <1>5, <1>7, <1>8, <1>9 DEF IInv, Content

LEMMA InvEdit ==
  ASSUME IInv, Edit
  PROVE  IInv'
<1>1. /\ clone # NoClone /\ clone \in CloneType /\ clone' = [clone EXCEPT !.changed = TRUE]
      /\ UNCHANGED <<github, pc, ingests, has, history, calls>>
  BY DEF Edit, IInv, TypeOK
<1>2. /\ clone' \in CloneType /\ clone' # NoClone /\ clone'.whole = clone.whole
      /\ clone'.current = clone.current /\ clone'.heads = clone.heads
  BY <1>1, NoCloneAssumption DEF CloneType
<1>3. TypeOK'
  BY <1>1, <1>2 DEF IInv, TypeOK, github, history
<1>4. Access'
  BY <1>1, <1>2, AccessSame
<1>5. OnBranch' /\ DefaultIsThere' /\ CommitsExist' /\ DefaultIsOthers'
  BY <1>1, <1>2
     DEF IInv, Content, OnBranch, DefaultIsThere, CommitsExist, DefaultIsOthers, github, history
<1> QED
  BY <1>3, <1>4, <1>5 DEF IInv, Content

LEMMA InvRemoveDirectory ==
  ASSUME IInv, RemoveDirectory
  PROVE  IInv'
<1>1. /\ clone' = NoClone /\ \A u \in User : ~ WorksIn(u)
      /\ UNCHANGED <<github, pc, ingests, has, history, calls>>
  BY DEF RemoveDirectory
<1>2. TypeOK'
  BY <1>1 DEF IInv, TypeOK, github, history
<1>3. Access'
  BY <1>1, AccessSame
<1>4. \A u \in User : has'[u] # "branch"
  BY <1>1 DEF WorksIn
<1>5. Content'
  BY <1>1, <1>4, ContentAnew DEF github
<1> QED
  BY <1>2, <1>3, <1>5 DEF IInv
-----------------------------------------------------------------------------
LEMMA InvInit == Init => IInv
<1> SUFFICES ASSUME Init PROVE IInv
  OBVIOUS
<1>1. 1 \in Commit
  BY BoundsAssumption DEF Commit
<1>2. <<1>> \in Seq(Commit) /\ <<>> \in Seq(Commit) /\ <<1>> # <<>> /\ Len(<<1>>) = 1
      /\ DOMAIN <<1>> = {1} /\ <<1>>[1] = 1
  BY <1>1, EmptySeq
<1>3. heads \in [Branch -> Seq(Commit)] /\ heads[Default] = <<1>>
  BY <1>2, BranchAssumption DEF Init
<1>4. TypeOK
  BY <1>3, BoundsAssumption DEF Init, TypeOK
<1>5. Access
  BY DEF Init, Access, Order, ClonesAreExclusive, WorksIn, BeforeReturn
<1>6. OnBranch /\ DefaultIsThere
  BY <1>2, <1>3 DEF Init, OnBranch, DefaultIsThere
<1>7. \A b \in Branch : heads[b] \in {<<1>>, <<>>}
  BY DEF Init
<1>8. CommitsExist /\ DefaultIsOthers
  BY <1>2, <1>7, EmptyHistory, BranchAssumption
     DEF Init, CommitsExist, DefaultIsOthers, Within, Free
<1> QED
  BY <1>4, <1>5, <1>6, <1>8 DEF IInv, Content

LEMMA InvNext == IInv /\ [Next]_vars => IInv'
<1> SUFFICES ASSUME IInv, [Next]_vars PROVE IInv'
  OBVIOUS
<1>1. CASE UNCHANGED vars
  <2>1. TypeOK'
    BY <1>1, TypesNext DEF vars, github, history, IInv, TypeOK, Phase
  <2>2. Access'
    BY <1>1, AccessSame DEF vars, IInv, Access, ClonesAreExclusive
  <2>3. Content'
    BY <1>1, ContentSame DEF vars, history
  <2> QED
    BY <2>1, <2>2, <2>3 DEF IInv
<1>2. ASSUME NEW u \in User, UserStep(u)
      PROVE  IInv'
  BY <1>2, InvValidateUrl, InvGetRepository, InvStartClone, InvFinishClone, InvIngest,
     InvIndexAndGraph, InvCreateBranch, InvAddAll, InvCommitStaged, InvRevParse,
     InvPushBranch, InvCreatePullRequest, InvEndSend, InvLetGo DEF UserStep
<1>3. CASE Next
  BY <1>2, <1>3, InvReceive, InvLose, InvOthersPush, InvEdit, InvRemoveDirectory DEF Next
<1> QED
  BY <1>1, <1>3

LEMMA Invariance == Spec => []IInv
BY InvInit, InvNext, PTL DEF Spec
-----------------------------------------------------------------------------
\* Every variable keeps its type; in particular nothing is on its way to GitHub,
\* or there as a pull request, that nobody has agreed to.
THEOREM TypeCorrect == Spec => []TypeOK
<1>1. IInv => TypeOK
  BY DEF IInv
<1> QED
  BY <1>1, Invariance, PTL

\* One user at a time has or ingests the clone, and it is whole, however clones
\* fail, are killed, removed or tried again.
THEOREM ExclusiveClones == Spec => []ClonesAreExclusive
<1>1. IInv => ClonesAreExclusive
  BY DEF IInv, Access
<1> QED
  BY <1>1, Invariance, PTL

\* No commit of a user who has called create_branch first gets onto the default
\* branch, here or on GitHub ("create branch -> commit -> push", service.py:6).
THEOREM DefaultLeftAlone == Spec => []DefaultIsLeftAlone
<1>1. IInv => DefaultIsLeftAlone
  BY DEF IInv, Content, DefaultIsOthers, DefaultIsLeftAlone, Free, Range
<1> QED
  BY <1>1, Invariance, PTL
-----------------------------------------------------------------------------
(* The integration implements Publication. *)

LEMMA GrantsAreRequests == Published!Grants = Requests
BY DEF Published!Grants, Requests

\* A step that GitHub does not see, and on which at most somebody agrees.
LEMMA QuietRefines ==
  ASSUME IInv', UNCHANGED <<heads, pulls>>, granted \subseteq granted'
  PROVE  [Published!Next]_Published!vars
<1>1. \A p \in granted' : p \in Published!Grants
  BY GrantsAreRequests DEF IInv, TypeOK
<1>2. Published!Grant
  BY <1>1 DEF Published!Grant
<1> QED
  BY <1>2 DEF Published!Next

LEMMA UserRefines ==
  ASSUME IInv, IInv', NEW u \in User, UserStep(u)
  PROVE  [Published!Next]_Published!vars
<1>1. ASSUME NEW p, NEW possible, NEW agreed, Send(u, p, possible, agreed)
      PROVE  UNCHANGED <<heads, pulls>> /\ granted \subseteq granted'
  BY <1>1 DEF Send
<1>2. ASSUME NEW b \in Branch, NEW agreed \in BOOLEAN, PushBranch(u, b, agreed)
      PROVE  UNCHANGED <<heads, pulls>> /\ granted \subseteq granted'
  BY <1>1, <1>2 DEF PushBranch
<1>3. ASSUME NEW head \in Branch, NEW base \in Branch, NEW agreed \in BOOLEAN,
             CreatePullRequest(u, head, base, agreed)
      PROVE  UNCHANGED <<heads, pulls>> /\ granted \subseteq granted'
  BY <1>1, <1>3 DEF CreatePullRequest
<1>4. ASSUME NEW url \in Url, NEW i \in BOOLEAN, ValidateUrl(u, url, i)
      PROVE  UNCHANGED github
  BY <1>4 DEF ValidateUrl
<1>5. ASSUME NEW b \in Branch, CreateBranch(u, b)
      PROVE  UNCHANGED github
  BY <1>5 DEF CreateBranch
<1>6. ASSUME \/ GetRepository(u) \/ StartClone(u) \/ FinishClone(u)
             \/ Ingest(u) \/ IndexAndGraph(u)
      PROVE  UNCHANGED github
  BY <1>6 DEF GetRepository, StartClone, FinishClone, Ingest, IndexAndGraph
<1>7. ASSUME AddAll(u) \/ CommitStaged(u) \/ RevParse(u) \/ EndSend(u) \/ LetGo(u)
      PROVE  UNCHANGED github
  BY <1>7 DEF AddAll, CommitStaged, RevParse, EndSend, LetGo
<1>8. UNCHANGED <<heads, pulls>> /\ granted \subseteq granted'
  BY <1>2, <1>3, <1>4, <1>5, <1>6, <1>7 DEF UserStep, github
<1> QED
  BY <1>8, QuietRefines

LEMMA ReceiveRefines ==
  ASSUME IInv, NEW p \in requests, Receive(p)
  PROVE  [Published!Next]_Published!vars
<1>1. UNCHANGED granted /\ (ReceivePush(p) \/ ReceivePull(p))
  BY DEF Receive
<1>2. /\ p \in granted
      /\ p.kind = "push" => p.branch \in Branch /\ p.history \in Seq(Commit)
  BY RequestTypes DEF IInv
<1>3. CASE UNCHANGED <<heads, pulls>>
  BY <1>1, <1>3 DEF Published!vars
<1>4. CASE ReceivePush(p) /\ heads' # heads
  <2>1. /\ p.kind = "push" /\ UNCHANGED pulls
        /\ FastForward(heads[p.branch], p.history)
        /\ heads' = [heads EXCEPT ![p.branch] = p.history]
    BY <1>4 DEF ReceivePush
  <2>2. Published!IsStrictPrefix(heads[p.branch], p.history)
    BY <2>1 DEF FastForward, IsStrictPrefix, IsPrefix,
                Published!IsStrictPrefix, Published!IsPrefix
  <2>3. Published!Grow(p.branch, p.history)
    BY <1>1, <2>1, <2>2 DEF Published!Grow
  <2>4. Published!Publish(p.branch)
    BY <1>2, <2>1, <2>3 DEF Published!Publish
  <2> QED
    BY <1>2, <2>1, <2>4 DEF Published!Next
<1>5. CASE ReceivePull(p) /\ pulls' # pulls
  <2>1. p.kind = "pull" /\ UNCHANGED heads /\ pulls' = pulls \cup {p}
    BY <1>5 DEF ReceivePull
  <2>2. p \in granted \ pulls
    BY <1>2, <1>5, <2>1
  <2>3. Published!OpenPull
    BY <1>1, <2>1, <2>2 DEF Published!OpenPull
  <2> QED
    BY <2>3 DEF Published!Next
<1>6. ReceivePush(p) => UNCHANGED pulls
  BY DEF ReceivePush
<1>7. ReceivePull(p) => UNCHANGED heads
  BY DEF ReceivePull
<1> QED
  BY <1>1, <1>3, <1>4, <1>5, <1>6, <1>7

\* What others push grows the branch.
LEMMA AppendGrows ==
  ASSUME NEW s \in Seq(Commit), NEW x \in Commit
  PROVE  Published!IsStrictPrefix(s, Append(s, x))
<1> DEFINE t == Append(s, x)
<1>1. /\ t \in Seq(Commit) /\ Len(s) \in Nat
      /\ DOMAIN s = 1 .. Len(s)
      /\ Len(t) = Len(s) + 1
      /\ \A k \in 1 .. Len(s) : t[k] = s[k]
  BY AppendProperties, LenProperties
<1> HIDE DEF t
<1>2. \A k \in 1 .. Len(s) : s[k] \in Commit /\ t[k] \in Commit
  BY <1>1, ElementOfSeq
<1>3. /\ SubSeq(s, 1, Len(s)) \in Seq(Commit)
      /\ Len(SubSeq(s, 1, Len(s))) = IF 1 <= Len(s) THEN Len(s) - 1 + 1 ELSE 0
      /\ \A k \in 1 .. Len(s) - 1 + 1 : SubSeq(s, 1, Len(s))[k] = s[1 + k - 1]
  BY <1>1, <1>2, SubSeqProperties
<1>4. /\ SubSeq(t, 1, Len(s)) \in Seq(Commit)
      /\ Len(SubSeq(t, 1, Len(s))) = IF 1 <= Len(s) THEN Len(s) - 1 + 1 ELSE 0
      /\ \A k \in 1 .. Len(s) - 1 + 1 : SubSeq(t, 1, Len(s))[k] = t[1 + k - 1]
  BY <1>1, <1>2, SubSeqProperties
<1>5. Len(SubSeq(s, 1, Len(s))) = Len(s) /\ Len(SubSeq(t, 1, Len(s))) = Len(s)
  BY <1>1, <1>3, <1>4
<1>6. \A k \in 1 .. Len(s) : SubSeq(s, 1, Len(s))[k] = SubSeq(t, 1, Len(s))[k]
  BY <1>1, <1>3, <1>4
<1>7. SubSeq(s, 1, Len(s)) = SubSeq(t, 1, Len(s))
  BY <1>3, <1>4, <1>5, <1>6, SeqEqual
<1>8. Len(s) <= Len(t) /\ s # t
  BY <1>1
<1> QED
  BY <1>7, <1>8 DEF t, Published!IsStrictPrefix, Published!IsPrefix

LEMMA OthersRefine ==
  ASSUME IInv, NEW b \in Branch, OthersPush(b)
  PROVE  [Published!Next]_Published!vars
<1>1. /\ commits < MaxCommits /\ UNCHANGED <<pulls, granted>>
      /\ heads' = [heads EXCEPT ![b] = Append(heads[b], commits + 1)]
  BY DEF OthersPush
<1>2. commits + 1 \in Commit /\ heads[b] \in Seq(Commit)
  BY <1>1, BoundsAssumption DEF IInv, TypeOK, Commit
<1>3. Published!IsStrictPrefix(heads[b], Append(heads[b], commits + 1))
  BY <1>2, AppendGrows
<1>4. Published!Grow(b, Append(heads[b], commits + 1))
  BY <1>1, <1>3 DEF Published!Grow
<1>5. Published!Others(b)
  BY <1>2, <1>4 DEF Published!Others
<1> QED
  BY <1>5 DEF Published!Next

LEMMA NextRefines == IInv /\ IInv' /\ [Next]_vars => [Published!Next]_Published!vars
<1> SUFFICES ASSUME IInv, IInv', [Next]_vars PROVE [Published!Next]_Published!vars
  OBVIOUS
<1>1. CASE UNCHANGED vars
  BY <1>1 DEF vars, Published!vars
<1>2. ASSUME NEW p \in requests, Lose(p)
      PROVE  [Published!Next]_Published!vars
  BY <1>2 DEF Lose, Published!vars
<1>3. CASE Edit \/ RemoveDirectory
  BY <1>3 DEF Edit, RemoveDirectory, github, Published!vars
<1>4. CASE Next
  BY <1>2, <1>3, <1>4, UserRefines, ReceiveRefines, OthersRefine DEF Next
<1> QED
  BY <1>1, <1>4

\* The integration implements Publication: GitHub's branches only grow, by what
\* somebody has agreed to before, and nothing is published twice or taken back
\* ("push ONLY if explicitly authorized", service.py:6-7).
THEOREM PublicationImplemented == Spec => ImplementsPublication
<1>1. Init => Published!Init
  <2> SUFFICES ASSUME Init PROVE Published!Init
    OBVIOUS
  <2>1. IInv
    BY InvInit
  <2> QED
    BY <2>1 DEF Init, Published!Init, IInv, TypeOK
<1> QED
  BY <1>1, NextRefines, Invariance, PTL DEF Spec, ImplementsPublication, Published!Spec
-----------------------------------------------------------------------------
(* Parsing. *)

\* A set of natural numbers has a least element.
LEMMA LeastElement ==
  ASSUME NEW T, T \subseteq Nat, T # {}
  PROVE  \E m \in T : \A k \in T : m <= k
<1>1. PICK m \in T : \A k \in T : ~ (<<k, m>> \in OpToRel(<, Nat))
  BY NatLessThanWellFounded, WFMin
<1>2. ASSUME NEW k \in T PROVE m <= k
  <2>1. k \in Nat /\ m \in Nat /\ <<k, m>> \notin OpToRel(<, Nat)
    BY <1>1
  <2> QED
    BY <2>1 DEF OpToRel
<1> QED
  BY <1>2

\* Induction up to N, about the set T of the numbers for which something holds.
LEMMA Induction ==
  ASSUME NEW N \in Nat, NEW T, 0 \in T, \A n \in 0 .. N - 1 : n \in T => n + 1 \in T
  PROVE  \A n \in 0 .. N : n \in T
<1> DEFINE U == {k \in 0 .. N : k \notin T}
<1> SUFFICES ASSUME U # {} PROVE FALSE
  OBVIOUS
<1>1. PICK m \in U : \A k \in U : m <= k
  <2>1. U \subseteq Nat
    OBVIOUS
  <2> HIDE DEF U
  <2> QED
    BY <2>1, LeastElement
<1>2. m # 0 /\ m - 1 \in 0 .. N - 1 /\ m - 1 \in T
  BY <1>1
<1>3. (m - 1) + 1 \in T
  BY <1>2
<1> QED
  BY <1>1, <1>2, <1>3

\* A function on 1 .. n is a sequence.
LEMMA FunctionIsSequence ==
  ASSUME NEW n \in Nat, NEW A, NEW f \in [1 .. n -> A]
  PROVE  f \in Seq(A) /\ Len(f) = n /\ DOMAIN f = 1 .. n
OBVIOUS

(* InOrder. *)

\* s lists the set S of numbers, in ascending order.
Ascends(s, S) ==
  /\ s \in Seq(Nat)
  /\ \A i, j \in 1 .. Len(s) : i < j => s[i] < s[j]
  /\ \A n : n \in S <=> \E i \in 1 .. Len(s) : s[i] = n

\* What InOrder counts, up to each number.
Counts(f, N, S) ==
  f = [n \in 0 .. N |->
        IF n = 0 THEN <<>> ELSE IF n \in S THEN Append(f[n - 1], n) ELSE f[n - 1]]

\* The empty sequence lists the empty set, and a sequence grows by a larger number.
LEMMA AscendsEmpty == Ascends(<<>>, {})
BY EmptySeq DEF Ascends

LEMMA AscendsGrows ==
  ASSUME NEW s, NEW S, Ascends(s, S), NEW n \in Nat, \A m \in S : m < n
  PROVE  Ascends(Append(s, n), S \cup {n})
<1>1. s \in Seq(Nat) /\ Len(s) \in Nat
  BY LenProperties DEF Ascends
<1> DEFINE t == Append(s, n)
<1>2. /\ t \in Seq(Nat) /\ Len(t) = Len(s) + 1 /\ t[Len(s) + 1] = n
      /\ \A i \in 1 .. Len(s) : t[i] = s[i]
  BY <1>1, AppendProperties
<1>3. \A i \in 1 .. Len(s) : s[i] \in S /\ s[i] \in Nat
  BY <1>1, ElementOfSeq DEF Ascends
<1> HIDE DEF t
<1>4. ASSUME NEW i \in 1 .. Len(t), NEW j \in 1 .. Len(t), i < j
      PROVE  t[i] < t[j]
  <2>1. i \in 1 .. Len(s)
    BY <1>1, <1>2, <1>4
  <2>2. CASE j \in 1 .. Len(s)
    BY <1>2, <1>4, <2>1, <2>2 DEF Ascends
  <2>3. CASE j = Len(s) + 1
    BY <1>2, <1>3, <2>1, <2>3
  <2> QED
    BY <1>1, <1>2, <2>2, <2>3
<1>5. ASSUME NEW m
      PROVE  m \in S \cup {n} <=> \E i \in 1 .. Len(t) : t[i] = m
  <2>1. ASSUME m \in S PROVE \E i \in 1 .. Len(t) : t[i] = m
    <3>1. PICK i \in 1 .. Len(s) : s[i] = m
      BY <2>1 DEF Ascends
    <3>2. i \in 1 .. Len(t) /\ t[i] = m
      BY <1>1, <1>2, <3>1
    <3> QED
      BY <3>2
  <2>2. ASSUME m = n PROVE \E i \in 1 .. Len(t) : t[i] = m
    <3>1. Len(s) + 1 \in 1 .. Len(t)
      BY <1>1, <1>2
    <3> QED
      BY <1>2, <2>2, <3>1
  <2>3. ASSUME NEW i \in 1 .. Len(t) PROVE t[i] \in S \cup {n}
    <3>1. i \in 1 .. Len(s) \/ i = Len(s) + 1
      BY <1>1, <1>2
    <3> QED
      BY <1>2, <1>3, <3>1
  <2> QED
    BY <2>1, <2>2, <2>3
<1> QED
  BY <1>2, <1>4, <1>5 DEF Ascends, t

\* Only one sequence lists a set.
LEMMA AscendsIsUnique ==
  ASSUME NEW S, NEW s, NEW t, Ascends(s, S), Ascends(t, S)
  PROVE  s = t
<1>1. /\ s \in Seq(Nat) /\ Len(s) \in Nat /\ t \in Seq(Nat) /\ Len(t) \in Nat
      /\ \A i \in 1 .. Len(s) : s[i] \in Nat
      /\ \A i \in 1 .. Len(t) : t[i] \in Nat
  BY LenProperties, ElementOfSeq DEF Ascends
<1>2. \A i \in 1 .. Len(s) : \E j \in 1 .. Len(t) : t[j] = s[i]
  BY DEF Ascends
<1>3. \A i \in 1 .. Len(t) : \E j \in 1 .. Len(s) : s[j] = t[i]
  BY DEF Ascends
<1>4. \A i, j \in 1 .. Len(s) : i < j => s[i] < s[j]
  BY DEF Ascends
<1>5. \A i, j \in 1 .. Len(t) : i < j => t[i] < t[j]
  BY DEF Ascends
<1> DEFINE D == {i \in Nat : i \in 1 .. Len(s) /\ i \in 1 .. Len(t) /\ s[i] # t[i]}
<1>6. D = {}
  <2> SUFFICES ASSUME D # {} PROVE FALSE
    OBVIOUS
  <2>1. PICK k \in D : \A i \in D : k <= i
    <3>1. D \subseteq Nat
      OBVIOUS
    <3> HIDE DEF D
    <3> QED
      BY <3>1, LeastElement
  <2>2. \A i \in 1 .. k - 1 : s[i] = t[i]
    BY <2>1
  <2>3. s[k] \in Nat /\ t[k] \in Nat /\ s[k] # t[k] /\ k \in 1 .. Len(s) /\ k \in 1 .. Len(t)
    BY <1>1, <2>1
  <2> HIDE DEF D
  <2>4. CASE s[k] < t[k]
    <3>1. PICK j \in 1 .. Len(t) : t[j] = s[k]
      BY <1>2, <2>3
    <3>2. CASE j < k
      <4>1. j \in 1 .. k - 1 /\ j \in 1 .. Len(s)
        BY <1>1, <2>3, <3>2
      <4>2. s[j] < s[k] /\ s[j] = t[j]
        BY <1>4, <2>2, <2>3, <3>2, <4>1
      <4> QED
        BY <2>3, <3>1, <4>2
    <3>3. CASE j > k
      <4>1. t[k] < t[j]
        BY <1>5, <2>3, <3>3
      <4> QED
        BY <2>3, <2>4, <3>1, <4>1
    <3> QED
      BY <2>3, <3>1, <3>2, <3>3
  <2>5. CASE t[k] < s[k]
    <3>1. PICK j \in 1 .. Len(s) : s[j] = t[k]
      BY <1>3, <2>3
    <3>2. CASE j < k
      <4>1. j \in 1 .. k - 1 /\ j \in 1 .. Len(t)
        BY <1>1, <2>3, <3>2
      <4>2. t[j] < t[k] /\ s[j] = t[j]
        BY <1>5, <2>2, <2>3, <3>2, <4>1
      <4> QED
        BY <2>3, <3>1, <4>2
    <3>3. CASE j > k
      <4>1. s[k] < s[j]
        BY <1>4, <2>3, <3>3
      <4> QED
        BY <2>3, <2>5, <3>1, <4>1
    <3> QED
      BY <2>3, <3>1, <3>2, <3>3
  <2> QED
    BY <2>3, <2>4, <2>5
<1>7. \A i \in Nat : i \in 1 .. Len(s) /\ i \in 1 .. Len(t) => s[i] = t[i]
  BY <1>6
<1> HIDE DEF D
<1>8. Len(s) = Len(t)
  <2>1. CASE Len(s) < Len(t)
    <3> DEFINE k == Len(s) + 1
    <3>1. k \in 1 .. Len(t)
      BY <1>1, <2>1
    <3>2. PICK j \in 1 .. Len(s) : s[j] = t[k]
      BY <1>3, <3>1
    <3>3. t[j] < t[k] /\ t[j] = s[j] /\ t[k] \in Nat
      BY <1>1, <1>5, <1>7, <3>1
    <3> QED
      BY <3>2, <3>3
  <2>2. CASE Len(t) < Len(s)
    <3> DEFINE k == Len(t) + 1
    <3>1. k \in 1 .. Len(s)
      BY <1>1, <2>2
    <3>2. PICK j \in 1 .. Len(t) : t[j] = s[k]
      BY <1>2, <3>1
    <3>3. s[j] < s[k] /\ t[j] = s[j] /\ s[k] \in Nat
      BY <1>1, <1>4, <1>7, <3>1
    <3> QED
      BY <3>2, <3>3
  <2> QED
    BY <1>1, <2>1, <2>2
<1> QED
  BY <1>1, <1>7, <1>8, SeqEqual

\* The recursive function that InOrder defines exists.
LEMMA CountsExists ==
  ASSUME NEW N \in Nat, NEW S
  PROVE  \E f : Counts(f, N, S)
<1> DEFINE T == {m \in 0 .. N : \E f : Counts(f, m, S)}
<1>1. 0 \in T
  <2> DEFINE f == [n \in 0 .. 0 |-> <<>>]
  <2>1. Counts(f, 0, S)
    BY DEF Counts
  <2> HIDE DEF f
  <2> QED
    BY <2>1
<1>2. ASSUME NEW m \in 0 .. N - 1, m \in T
      PROVE  m + 1 \in T
  <2>1. PICK f : Counts(f, m, S)
    BY <1>2
  <2>2. \A n \in 0 .. m :
          f[n] = IF n = 0 THEN <<>> ELSE IF n \in S THEN Append(f[n - 1], n) ELSE f[n - 1]
    BY <2>1 DEF Counts
  <2> DEFINE last == IF m + 1 \in S THEN Append(f[m], m + 1) ELSE f[m]
             g == [n \in 0 .. m + 1 |-> IF n <= m THEN f[n] ELSE last]
  <2>3. ASSUME NEW n \in 0 .. m + 1
        PROVE  g[n] = IF n = 0 THEN <<>> ELSE IF n \in S THEN Append(g[n - 1], n) ELSE g[n - 1]
    <3>1. CASE n <= m
      <4>1. n \in 0 .. m /\ (n # 0 => n - 1 \in 0 .. m + 1 /\ n - 1 <= m)
        BY <3>1
      <4>2. g[n] = f[n] /\ (n # 0 => g[n - 1] = f[n - 1])
        BY <3>1, <4>1
      <4> HIDE DEF g
      <4> QED
        BY <2>2, <4>1, <4>2
    <3>2. CASE n = m + 1
      <4>1. g[n] = last /\ g[n - 1] = f[m] /\ n # 0
        BY <3>2
      <4> HIDE DEF g
      <4> QED
        BY <3>2, <4>1
    <3> QED
      BY <3>1, <3>2
  <2>4. Counts(g, m + 1, S)
    <3>1. \A n \in 0 .. m + 1 :
            g[n] = IF n = 0 THEN <<>> ELSE IF n \in S THEN Append(g[n - 1], n) ELSE g[n - 1]
      BY <2>3
    <3>2. g = [n \in 0 .. m + 1 |-> g[n]]
      OBVIOUS
    <3> HIDE DEF g
    <3> QED
      BY <3>1, <3>2 DEF Counts
  <2>5. m + 1 \in 0 .. N
    OBVIOUS
  <2> HIDE DEF g
  <2> QED
    BY <2>4, <2>5
<1>3. N \in T
  <2> HIDE DEF T
  <2>1. \A n \in 0 .. N : n \in T
    BY <1>1, <1>2, Induction
  <2> QED
    BY <2>1
<1> QED
  BY <1>3

\* InOrder lists the numbers of a set up to N, each once, in ascending order.
LEMMA InOrderAscends ==
  ASSUME NEW N \in Nat, NEW S
  PROVE  Ascends(InOrder(N, S), S \cap (1 .. N))
<1>1. PICK f : Counts(f, N, S) /\ InOrder(N, S) = f[N]
  <2> DEFINE f == CHOOSE f : Counts(f, N, S)
  <2>1. Counts(f, N, S)
    BY CountsExists
  <2>2. InOrder(N, S) = f[N]
    BY DEF InOrder, Counts
  <2> HIDE DEF f
  <2> QED
    BY <2>1, <2>2
<1>2. \A n \in 0 .. N :
        f[n] = IF n = 0 THEN <<>> ELSE IF n \in S THEN Append(f[n - 1], n) ELSE f[n - 1]
  BY <1>1 DEF Counts
<1> DEFINE T == {m \in 0 .. N : Ascends(f[m], S \cap (1 .. m))}
<1>3. 0 \in T
  <2>1. f[0] = <<>> /\ S \cap (1 .. 0) = {} /\ 0 \in 0 .. N
    BY <1>2
  <2> QED
    BY <2>1, AscendsEmpty
<1>4. ASSUME NEW m \in 0 .. N - 1, m \in T
      PROVE  m + 1 \in T
  <2>1. m + 1 \in 0 .. N /\ m + 1 # 0 /\ (m + 1) - 1 = m /\ m + 1 \in Nat
    OBVIOUS
  <2>2. f[m + 1] = IF m + 1 \in S THEN Append(f[m], m + 1) ELSE f[m]
    BY <1>2, <2>1
  <2>3. Ascends(f[m], S \cap (1 .. m))
    BY <1>4
  <2>4. CASE m + 1 \in S
    <3>1. S \cap (1 .. m + 1) = (S \cap (1 .. m)) \cup {m + 1}
      BY <2>4
    <3>2. \A k \in S \cap (1 .. m) : k < m + 1
      OBVIOUS
    <3>3. Ascends(Append(f[m], m + 1), (S \cap (1 .. m)) \cup {m + 1})
      BY <2>1, <2>3, <3>2, AscendsGrows
    <3> QED
      BY <2>1, <2>2, <2>4, <3>1, <3>3
  <2>5. CASE m + 1 \notin S
    <3>1. S \cap (1 .. m + 1) = S \cap (1 .. m)
      BY <2>5
    <3> QED
      BY <2>1, <2>2, <2>3, <2>5, <3>1
  <2> QED
    BY <2>4, <2>5
<1>5. N \in T
  <2> HIDE DEF T
  <2>1. \A n \in 0 .. N : n \in T
    BY <1>3, <1>4, Induction
  <2> QED
    BY <2>1
<1> QED
  BY <1>1, <1>5

\* Two lists of numbers up to N, one of which has one more, larger than the others.
Before(S, m) == \A n \in S : n \in 1 .. m - 1

LEMMA InOrderGrows ==
  ASSUME NEW N \in Nat, NEW S, NEW m \in 1 .. N, Before(S, m)
  PROVE  InOrder(N, S \cup {m}) = Append(InOrder(N, S), m)
<1>0. \A n \in S : n \in 1 .. m - 1
  BY DEF Before
<1>1. S \cap (1 .. N) = S /\ (S \cup {m}) \cap (1 .. N) = S \cup {m} /\ m \in Nat
  BY <1>0
<1>2. Ascends(InOrder(N, S), S) /\ Ascends(InOrder(N, S \cup {m}), S \cup {m})
  <2>1. Ascends(InOrder(N, S), S \cap (1 .. N))
    BY InOrderAscends
  <2>2. Ascends(InOrder(N, S \cup {m}), (S \cup {m}) \cap (1 .. N))
    BY InOrderAscends
  <2> QED
    BY <1>1, <2>1, <2>2
<1>3. Ascends(Append(InOrder(N, S), m), S \cup {m})
  BY <1>0, <1>1, <1>2, AscendsGrows
<1> QED
  BY <1>2, <1>3, AscendsIsUnique

LEMMA InOrderEmpty ==
  ASSUME NEW N \in Nat, NEW S, S \cap (1 .. N) = {}
  PROVE  InOrder(N, S) = <<>>
BY InOrderAscends, AscendsEmpty, AscendsIsUnique

(* Trees. *)

\* What IsTree says of a node and what is above it.
LEMMA EnclosingNodes ==
  ASSUME NEW t, IsTree(t)
  PROVE  /\ Len(t) \in Nat /\ DOMAIN t = 1 .. Len(t)
         /\ \A n \in 1 .. Len(t) :
              /\ t[n] \in Node
              /\ t[n].parent \in 0 .. n - 1
              /\ Enclosing(t)[n] = IF t[n].parent = 0 THEN {}
                                   ELSE {t[n].parent} \cup Enclosing(t)[t[n].parent]
              /\ \A m \in Enclosing(t)[n] : m \in 1 .. n - 1
<1> DEFINE N == Len(t)
<1>1. N \in Nat /\ DOMAIN t = 1 .. N /\ \A n \in 1 .. N : t[n] \in Node
  BY LenProperties, ElementOfSeq DEF IsTree
<1>2. \A n \in 1 .. N : t[n].parent \in 0 .. n - 1
  <2> SUFFICES ASSUME NEW n \in 1 .. N PROVE t[n].parent \in 0 .. n - 1
    OBVIOUS
  <2>1. t[n].parent \in Nat
    BY <1>1 DEF Node
  <2>2. t[n].parent < n
    BY <1>1 DEF IsTree
  <2> QED
    BY <1>1, <2>1, <2>2
<1> HIDE DEF N
<1> DEFINE Solves(f, m) ==
             f = [n \in 1 .. m |-> IF t[n].parent = 0 THEN {} ELSE {t[n].parent} \cup f[t[n].parent]]
           T == {m \in 0 .. N : \E f : Solves(f, m)}
<1>3. 0 \in T
  <2> DEFINE f == [n \in 1 .. 0 |-> {}]
  <2>1. Solves(f, 0)
    OBVIOUS
  <2>2. 0 \in 0 .. N
    BY <1>1
  <2> HIDE DEF f, Solves
  <2> QED
    BY <2>1, <2>2
<1>4. ASSUME NEW m \in 0 .. N - 1, m \in T
      PROVE  m + 1 \in T
  <2>1. PICK f : Solves(f, m)
    BY <1>4
  <2>2. \A n \in 1 .. m :
          f[n] = IF t[n].parent = 0 THEN {} ELSE {t[n].parent} \cup f[t[n].parent]
    BY <2>1
  <2> DEFINE p == t[m + 1].parent
             g == [n \in 1 .. m + 1 |->
                     IF n <= m THEN f[n] ELSE IF p = 0 THEN {} ELSE {p} \cup f[p]]
  <2>3. ASSUME NEW n \in 1 .. m + 1
        PROVE  g[n] = IF t[n].parent = 0 THEN {} ELSE {t[n].parent} \cup g[t[n].parent]
    <3>1. n \in 1 .. N /\ t[n].parent \in 0 .. n - 1
      BY <1>1, <1>2
    <3>2. t[n].parent # 0 => t[n].parent \in 1 .. m /\ t[n].parent <= m
      BY <3>1
    <3>3. t[n].parent # 0 => g[t[n].parent] = f[t[n].parent]
      BY <3>2
    <3>4. CASE n <= m
      <4>1. n \in 1 .. m /\ g[n] = f[n]
        BY <3>4
      <4> HIDE DEF g
      <4> QED
        BY <2>2, <3>3, <4>1
    <3>5. CASE n = m + 1
      <4>1. g[n] = IF p = 0 THEN {} ELSE {p} \cup f[p]
        BY <3>5
      <4> HIDE DEF g
      <4> QED
        BY <3>3, <3>5, <4>1
    <3> QED
      BY <3>4, <3>5
  <2>4. Solves(g, m + 1)
    <3>1. g = [n \in 1 .. m + 1 |-> g[n]]
      OBVIOUS
    <3> HIDE DEF g
    <3> QED
      BY <2>3, <3>1
  <2>5. m + 1 \in 0 .. N
    BY <1>1
  <2> HIDE DEF g, Solves
  <2> QED
    BY <2>4, <2>5
<1>5. \E f : Solves(f, N)
  <2>1. N \in 0 .. N
    BY <1>1
  <2> HIDE DEF Solves, T
  <2>2. \A n \in 0 .. N : n \in T
    BY <1>1, <1>3, <1>4, Induction
  <2> QED
    BY <2>1, <2>2 DEF T
<1>6. Solves(Enclosing(t), N)
  <2> DEFINE f == CHOOSE f : Solves(f, N)
  <2>1. Solves(f, N)
    BY <1>5
  <2>2. Enclosing(t) = f
    BY <1>1 DEF Enclosing
  <2> HIDE DEF f, Solves
  <2> QED
    BY <2>1, <2>2
<1>7. \A n \in 1 .. N :
        Enclosing(t)[n] = IF t[n].parent = 0 THEN {}
                          ELSE {t[n].parent} \cup Enclosing(t)[t[n].parent]
  BY <1>6
<1> DEFINE U == {m \in 0 .. N : \A n \in 1 .. m : \A k \in Enclosing(t)[n] : k \in 1 .. n - 1}
<1>8. 0 \in U
  BY <1>1
<1>9. ASSUME NEW m \in 0 .. N - 1, m \in U
      PROVE  m + 1 \in U
  <2> DEFINE p == t[m + 1].parent
  <2>1. m + 1 \in 1 .. N /\ m + 1 \in 0 .. N /\ p \in 0 .. m
    BY <1>1, <1>2
  <2>2. Enclosing(t)[m + 1] = IF p = 0 THEN {} ELSE {p} \cup Enclosing(t)[p]
    BY <1>7, <2>1
  <2>3. \A n \in 1 .. m : \A k \in Enclosing(t)[n] : k \in 1 .. n - 1
    BY <1>9
  <2> HIDE DEF p
  <2>4. \A k \in Enclosing(t)[m + 1] : k \in 1 .. (m + 1) - 1
    <3>1. CASE p = 0
      BY <2>2, <3>1
    <3>2. CASE p # 0
      <4>1. p \in 1 .. m /\ \A k \in Enclosing(t)[p] : k \in 1 .. p - 1
        BY <2>1, <2>3, <3>2
      <4> QED
        BY <2>2, <3>2, <4>1
    <3> QED
      BY <3>1, <3>2
  <2>5. \A n \in 1 .. m + 1 : n \in 1 .. m \/ n = m + 1
    OBVIOUS
  <2> QED
    BY <2>1, <2>3, <2>4, <2>5
<1>10. N \in U
  <2>1. N \in 0 .. N
    BY <1>1
  <2> HIDE DEF U
  <2>2. \A n \in 0 .. N : n \in U
    BY <1>1, <1>8, <1>9, Induction
  <2> QED
    BY <2>1, <2>2
<1> QED
  BY <1>1, <1>2, <1>7, <1>10 DEF N

\* A set of numbers up to n has a greatest one.
LEMMA GreatestElement ==
  ASSUME NEW n \in Nat, NEW S, \A m \in S : m \in 1 .. n, S # {}
  PROVE  /\ \E m \in S : \A k \in S : k <= m
         /\ \A m \in S : (\A k \in S : k <= m) =>
              m = CHOOSE l \in S : \A k \in S : k <= l
<1> DEFINE T == {n - m : m \in S}
<1>1. T \subseteq Nat /\ T # {}
  OBVIOUS
<1>2. PICK d \in T : \A e \in T : d <= e
  <2> HIDE DEF T
  <2> QED
    BY <1>1, LeastElement
<1>3. PICK g \in S : d = n - g
  BY <1>2
<1>4. ASSUME NEW k \in S PROVE k <= g
  <2>1. n - k \in T
    OBVIOUS
  <2>2. n - g <= n - k /\ g \in 1 .. n /\ k \in 1 .. n
    BY <1>2, <1>3, <2>1
  <2> QED
    BY <2>2
<1>5. ASSUME NEW m \in S, \A k \in S : k <= m
      PROVE  m = CHOOSE l \in S : \A k \in S : k <= l
  <2> DEFINE c == CHOOSE l \in S : \A k \in S : k <= l
  <2>1. c \in S /\ \A k \in S : k <= c
    BY <1>5
  <2> HIDE DEF c
  <2>2. c <= m /\ m <= c /\ c \in Nat /\ m \in Nat
    BY <1>5, <2>1
  <2>3. m = c
    BY <2>2
  <2> QED
    BY <2>3 DEF c
<1> QED
  BY <1>4, <1>5

(* Lists of entities. *)

\* s has an entity for each node in S, once: for node n it is e[n].
Lists(s, S, e, A) ==
  /\ s \in Seq(A)
  /\ \A i \in 1 .. Len(s) : s[i].at \in S /\ s[i] = e[s[i].at]
  /\ \A i, j \in 1 .. Len(s) : s[i].at = s[j].at => i = j
  /\ \A n \in S : \E i \in 1 .. Len(s) : s[i].at = n

\* The nodes of the entities of s.
At(s) == [i \in DOMAIN s |-> s[i].at]

\* One entity per node of a set.
LEMMA ListsEach ==
  ASSUME NEW N \in Nat, NEW S, \A n \in S : n \in 1 .. N,
         NEW e, NEW A, \A n \in S : e[n] \in A /\ e[n].at = n,
         NEW s, s = [i \in DOMAIN InOrder(N, S) |-> e[InOrder(N, S)[i]]]
  PROVE  Lists(s, S, e, A) /\ At(s) = InOrder(N, S)
<1> DEFINE o == InOrder(N, S)
<1>1. Ascends(o, S)
  <2>1. S \cap (1 .. N) = S
    OBVIOUS
  <2> QED
    BY <2>1, InOrderAscends
<1>2. o \in Seq(Nat) /\ Len(o) \in Nat /\ DOMAIN o = 1 .. Len(o)
  BY <1>1, LenProperties DEF Ascends
<1>3. s = [i \in 1 .. Len(o) |-> e[o[i]]]
  BY <1>2
<1>4. \A n : n \in S <=> \E i \in 1 .. Len(o) : o[i] = n
  BY <1>1 DEF Ascends
<1>5. \A i \in 1 .. Len(o) : o[i] \in S /\ o[i] \in Nat
  <2>1. \A i \in 1 .. Len(o) : o[i] \in Nat
    BY <1>2, ElementOfSeq
  <2> QED
    BY <1>4, <2>1
<1>6. \A i, j \in 1 .. Len(o) : i < j => o[i] < o[j]
  BY <1>1 DEF Ascends
<1> HIDE DEF o
<1>7. \A i \in 1 .. Len(o) : s[i] = e[o[i]] /\ s[i] \in A /\ s[i].at = o[i]
  BY <1>3, <1>5
<1>8. s \in Seq(A) /\ Len(s) = Len(o) /\ DOMAIN s = 1 .. Len(o)
  <2>1. s \in [1 .. Len(o) -> A]
    BY <1>3, <1>7
  <2> QED
    BY <1>2, <2>1, FunctionIsSequence
<1>9. ASSUME NEW i \in 1 .. Len(o), NEW j \in 1 .. Len(o), o[i] = o[j]
      PROVE  i = j
  BY <1>2, <1>5, <1>6, <1>9
<1>10. Lists(s, S, e, A)
  <2>1. \A i \in 1 .. Len(s) : s[i].at \in S /\ s[i] = e[s[i].at]
    BY <1>5, <1>7, <1>8
  <2>2. \A i, j \in 1 .. Len(s) : s[i].at = s[j].at => i = j
    BY <1>7, <1>8, <1>9
  <2>3. \A n \in S : \E i \in 1 .. Len(s) : s[i].at = n
    <3> SUFFICES ASSUME NEW n \in S PROVE \E i \in 1 .. Len(s) : s[i].at = n
      OBVIOUS
    <3>1. PICK i \in 1 .. Len(o) : o[i] = n
      BY <1>4
    <3> QED
      BY <1>7, <1>8, <3>1
  <2> QED
    BY <1>8, <2>1, <2>2, <2>3 DEF Lists
<1>11. At(s) = o
  <2>1. [i \in 1 .. Len(o) |-> s[i].at] = [i \in 1 .. Len(o) |-> o[i]]
    BY <1>7
  <2>2. o = [i \in 1 .. Len(o) |-> o[i]]
    BY <1>2
  <2> QED
    BY <1>8, <2>1, <2>2 DEF At
<1> QED
  BY <1>10, <1>11 DEF o

LEMMA ListsEmpty ==
  ASSUME NEW e, NEW A
  PROVE  Lists(<<>>, {}, e, A)
BY EmptySeq DEF Lists

\* Entities of two sets of nodes without a common one.
LEMMA ListsConcatenation ==
  ASSUME NEW e, NEW A, NEW s, NEW S, NEW t, NEW T, Lists(s, S, e, A), Lists(t, T, e, A),
         S \cap T = {}
  PROVE  Lists(s \o t, S \cup T, e, A)
<1>1. s \in Seq(A) /\ t \in Seq(A) /\ Len(s) \in Nat /\ Len(t) \in Nat
  BY LenProperties DEF Lists
<1> DEFINE u == s \o t
<1>2. /\ u \in Seq(A) /\ Len(u) = Len(s) + Len(t)
      /\ \A i \in 1 .. Len(s) + Len(t) : u[i] = IF i <= Len(s) THEN s[i] ELSE t[i - Len(s)]
  BY <1>1, ConcatProperties
<1> HIDE DEF u
<1>3. ASSUME NEW i \in 1 .. Len(s)
      PROVE  i \in 1 .. Len(u) /\ u[i] = s[i] /\ u[i].at \in S /\ u[i] = e[u[i].at]
  BY <1>1, <1>2 DEF Lists
<1>4. ASSUME NEW i \in 1 .. Len(t)
      PROVE  /\ Len(s) + i \in 1 .. Len(u) /\ u[Len(s) + i] = t[i]
             /\ u[Len(s) + i].at \in T /\ u[Len(s) + i] = e[u[Len(s) + i].at]
  <2>1. Len(s) + i \in 1 .. Len(s) + Len(t) /\ ~ (Len(s) + i <= Len(s)) /\ (Len(s) + i) - Len(s) = i
    BY <1>1
  <2>2. u[Len(s) + i] = t[i]
    BY <1>2, <2>1
  <2>3. t[i].at \in T /\ t[i] = e[t[i].at]
    BY DEF Lists
  <2> QED
    BY <1>2, <2>1, <2>2, <2>3
<1>5. ASSUME NEW i \in 1 .. Len(u)
      PROVE  i \in 1 .. Len(s) \/ \E k \in 1 .. Len(t) : i = Len(s) + k
  <2>1. CASE ~ (i <= Len(s))
    <3>1. i - Len(s) \in 1 .. Len(t) /\ i = Len(s) + (i - Len(s))
      BY <1>1, <1>2, <2>1
    <3> QED
      BY <3>1
  <2> QED
    BY <1>1, <2>1
<1>6. ASSUME NEW i \in 1 .. Len(u)
      PROVE  u[i].at \in S \cup T /\ u[i] = e[u[i].at]
  <2>1. CASE i \in 1 .. Len(s)
    BY <1>3, <2>1
  <2>2. ASSUME NEW k \in 1 .. Len(t), i = Len(s) + k
        PROVE  u[i].at \in S \cup T /\ u[i] = e[u[i].at]
    <3>1. u[Len(s) + k].at \in T /\ u[Len(s) + k] = e[u[Len(s) + k].at]
      BY <1>4
    <3> QED
      BY <2>2, <3>1
  <2> QED
    BY <1>5, <2>1, <2>2
<1>7. ASSUME NEW i \in 1 .. Len(u), NEW j \in 1 .. Len(u), u[i].at = u[j].at
      PROVE  i = j
  <2>1. CASE i \in 1 .. Len(s) /\ j \in 1 .. Len(s)
    BY <1>3, <1>7, <2>1 DEF Lists
  <2>2. ASSUME NEW k \in 1 .. Len(t), NEW l \in 1 .. Len(t), i = Len(s) + k, j = Len(s) + l
        PROVE  i = j
    <3>1. t[k].at = t[l].at
      BY <1>4, <1>7, <2>2
    <3>2. k = l
      BY <3>1 DEF Lists
    <3> QED
      BY <2>2, <3>2
  <2>3. ASSUME NEW m \in 1 .. Len(s), NEW k \in 1 .. Len(t)
        PROVE  u[m].at # u[Len(s) + k].at
    BY <1>3, <1>4
  <2>4. i \in 1 .. Len(s) \/ \E k \in 1 .. Len(t) : i = Len(s) + k
    BY <1>5
  <2>5. j \in 1 .. Len(s) \/ \E k \in 1 .. Len(t) : j = Len(s) + k
    BY <1>5
  <2>6. CASE i \in 1 .. Len(s)
    <3>1. \A k \in 1 .. Len(t) : j # Len(s) + k
      BY <1>7, <2>3, <2>6
    <3> QED
      BY <2>1, <2>5, <2>6, <3>1
  <2>7. ASSUME NEW k \in 1 .. Len(t), i = Len(s) + k
        PROVE  i = j
    <3>1. j \notin 1 .. Len(s)
      BY <1>7, <2>3, <2>7
    <3> QED
      BY <2>2, <2>5, <2>7, <3>1
  <2> QED
    BY <2>4, <2>6, <2>7
<1>8. ASSUME NEW n \in S \cup T
      PROVE  \E i \in 1 .. Len(u) : u[i].at = n
  <2>1. CASE n \in S
    <3>1. PICK i \in 1 .. Len(s) : s[i].at = n
      BY <2>1 DEF Lists
    <3> QED
      BY <1>3, <3>1
  <2>2. CASE n \in T
    <3>1. PICK i \in 1 .. Len(t) : t[i].at = n
      BY <2>2 DEF Lists
    <3> QED
      BY <1>4, <3>1
  <2> QED
    BY <2>1, <2>2
<1>9. Lists(u, S \cup T, e, A)
  BY <1>2, <1>6, <1>7, <1>8 DEF Lists
<1> QED
  BY <1>9 DEF u

\* What FlattenSeq computes: f[i] is the first i members of s, put together.
Flattened(s, k, f) ==
  /\ FlattenSeq(s) = f[k]
  /\ \A i \in 1 .. k : f[i] = IF i = 1 THEN s[i] ELSE f[i - 1] \o s[i]

LEMMA Flattening ==
  ASSUME NEW k \in Nat \ {0}, NEW s, Len(s) = k
  PROVE  \E f : Flattened(s, k, f)
<1> DEFINE Solves(f, m) == f = [i \in 1 .. m |-> IF i = 1 THEN s[i] ELSE f[i - 1] \o s[i]]
           T == {m \in 0 .. k : \E f : Solves(f, m)}
<1>1. 0 \in T
  <2> DEFINE f == [i \in 1 .. 0 |-> 0]
  <2>1. Solves(f, 0) /\ 0 \in 0 .. k
    OBVIOUS
  <2> HIDE DEF f, Solves
  <2> QED
    BY <2>1
<1>2. ASSUME NEW m \in 0 .. k - 1, m \in T
      PROVE  m + 1 \in T
  <2>1. PICK f : Solves(f, m)
    BY <1>2
  <2>2. \A i \in 1 .. m : f[i] = IF i = 1 THEN s[i] ELSE f[i - 1] \o s[i]
    BY <2>1
  <2> DEFINE last == IF m = 0 THEN s[1] ELSE f[m] \o s[m + 1]
             g == [i \in 1 .. m + 1 |-> IF i <= m THEN f[i] ELSE last]
  <2>3. ASSUME NEW i \in 1 .. m + 1
        PROVE  g[i] = IF i = 1 THEN s[i] ELSE g[i - 1] \o s[i]
    <3>1. i # 1 => i - 1 \in 1 .. m + 1 /\ i - 1 <= m
      OBVIOUS
    <3>2. i # 1 => g[i - 1] = f[i - 1]
      BY <3>1
    <3>3. CASE i <= m
      <4>1. i \in 1 .. m /\ g[i] = f[i]
        BY <3>3
      <4> HIDE DEF g
      <4> QED
        BY <2>2, <3>2, <4>1
    <3>4. CASE i = m + 1
      <4>1. g[i] = last
        BY <3>4
      <4>2. (m = 0 <=> i = 1) /\ i - 1 = m
        BY <3>4
      <4> HIDE DEF g
      <4> QED
        BY <3>2, <3>4, <4>1, <4>2
    <3> QED
      BY <3>3, <3>4
  <2>4. Solves(g, m + 1)
    <3>1. g = [i \in 1 .. m + 1 |-> g[i]]
      OBVIOUS
    <3> HIDE DEF g
    <3> QED
      BY <2>3, <3>1
  <2>5. m + 1 \in 0 .. k
    OBVIOUS
  <2> HIDE DEF g, Solves
  <2> QED
    BY <2>4, <2>5
<1>3. \E f : Solves(f, k)
  <2> HIDE DEF Solves, T
  <2>1. \A n \in 0 .. k : n \in T
    BY <1>1, <1>2, Induction, SMTT(30)
  <2> QED
    BY <2>1 DEF T
<1> DEFINE c == CHOOSE f : Solves(f, k)
<1>4. Solves(c, k)
  BY <1>3
<1>5. FlattenSeq(s) = c[k]
  BY DEF FlattenSeq
<1> HIDE DEF c
<1>6. \A i \in 1 .. k : c[i] = IF i = 1 THEN s[i] ELSE c[i - 1] \o s[i]
  BY <1>4
<1>7. Flattened(s, k, c)
  BY <1>5, <1>6 DEF Flattened
<1> QED
  BY <1>7

\* Lists for disjoint sets of nodes, put together.
LEMMA ListsFlattened ==
  ASSUME NEW k \in Nat, NEW s, NEW P, NEW e, NEW A,
         s \in Seq(Seq(A)), Len(s) = k,
         \A i \in 1 .. k : Lists(s[i], P[i], e, A),
         \A i, j \in 1 .. k : i # j => P[i] \cap P[j] = {}
  PROVE  Lists(FlattenSeq(s), UNION {P[i] : i \in 1 .. k}, e, A)
<1> DEFINE U(m) == UNION {P[i] : i \in 1 .. m}
<1>1. CASE k = 0
  <2>1. FlattenSeq(s) = <<>>
    <3>1. FlattenSeq(s) = s
      BY <1>1 DEF FlattenSeq
    <3> QED
      BY <1>1, <3>1, EmptySeq
  <2>2. UNION {P[i] : i \in 1 .. k} = {}
    BY <1>1
  <2>3. Lists(<<>>, {}, e, A)
    BY ListsEmpty
  <2> QED
    BY <2>1, <2>2, <2>3
<1>2. CASE k # 0
  <2>k. k \in Nat \ {0}
    BY <1>2
  <2>f. \E f : Flattened(s, k, f)
    BY <2>k, Flattening
  <2> PICK f : Flattened(s, k, f)
    BY <2>f
  <2>1. /\ FlattenSeq(s) = f[k]
        /\ \A i \in 1 .. k : f[i] = IF i = 1 THEN s[i] ELSE f[i - 1] \o s[i]
    BY DEF Flattened
  <2> DEFINE T == {m \in 0 .. k : m # 0 => Lists(f[m], U(m), e, A)}
  <2>2. 0 \in T
    OBVIOUS
  <2>3. ASSUME NEW m \in 0 .. k - 1, m \in T
        PROVE  m + 1 \in T
    <3>1. m + 1 \in 1 .. k /\ m + 1 \in 0 .. k
      OBVIOUS
    <3>2. U(m + 1) = U(m) \cup P[m + 1]
      <4>1. \A i : i \in 1 .. m + 1 <=> i \in 1 .. m \/ i = m + 1
        OBVIOUS
      <4> QED
        BY <4>1
    <3>3. Lists(s[m + 1], P[m + 1], e, A)
      BY <3>1
    <3>4. CASE m = 0
      <4>1. f[m + 1] = s[m + 1]
        BY <2>1, <3>1, <3>4
      <4>2. U(m) = {}
        BY <3>4
      <4>3. U(m + 1) = P[m + 1]
        BY <3>2, <4>2
      <4> HIDE DEF U
      <4> QED
        BY <3>1, <3>3, <4>1, <4>3
    <3>5. CASE m # 0
      <4>1. Lists(f[m], U(m), e, A)
        BY <2>3, <3>5
      <4>2. f[m + 1] = f[m] \o s[m + 1]
        <5>1. m + 1 # 1 /\ (m + 1) - 1 = m
          BY <3>5
        <5>2. f[m + 1] = IF m + 1 = 1 THEN s[m + 1] ELSE f[(m + 1) - 1] \o s[m + 1]
          BY <2>1, <3>1
        <5> QED
          BY <5>1, <5>2
      <4>3. U(m) \cap P[m + 1] = {}
        <5>1. \A i \in 1 .. m : i \in 1 .. k /\ i # m + 1
          OBVIOUS
        <5> QED
          BY <3>1, <5>1
      <4> HIDE DEF U
      <4>4. Lists(f[m] \o s[m + 1], U(m) \cup P[m + 1], e, A)
        BY <3>3, <4>1, <4>3, ListsConcatenation
      <4> QED
        BY <3>1, <3>2, <4>2, <4>4
    <3> QED
      BY <3>4, <3>5
  <2>4. \A n \in 0 .. k : n \in T
    <3> HIDE DEF T
    <3> QED
      BY <2>2, <2>3, Induction
  <2>5. k \in 0 .. k
    OBVIOUS
  <2>6. Lists(f[k], U(k), e, A)
    BY <1>2, <2>4, <2>5
  <2> QED
    BY <2>1, <2>6
<1> QED
  BY <1>1, <1>2

(* Extraction. *)

\* The types of what is recorded.
ClassSet == [name : STRING, at : Nat, base_classes : Seq(STRING)]
ClassNames == STRING \cup {None}
ImportSet == [module : Seq(STRING), at : Nat]

\* The nodes of a tree.
LEMMA TreeNodes ==
  ASSUME NEW t, IsTree(t)
  PROVE  Len(t) \in Nat /\ DOMAIN t = 1 .. Len(t) /\ \A n \in 1 .. Len(t) : t[n] \in Node
BY EnclosingNodes

\* Nodes lists the nodes of a set, each once, in pre-order.
LEMMA NodesOfTree ==
  ASSUME NEW t, IsTree(t), NEW S, \A n \in S : n \in 1 .. Len(t)
  PROVE  /\ Ascends(Nodes(t, S), S)
         /\ Len(Nodes(t, S)) \in Nat
         /\ DOMAIN Nodes(t, S) = 1 .. Len(Nodes(t, S))
         /\ \A i \in 1 .. Len(Nodes(t, S)) : Nodes(t, S)[i] \in S
         /\ \A n \in S : \E i \in 1 .. Len(Nodes(t, S)) : Nodes(t, S)[i] = n
         /\ \A i, j \in 1 .. Len(Nodes(t, S)) : Nodes(t, S)[i] = Nodes(t, S)[j] => i = j
<1> DEFINE o == Nodes(t, S)
<1>1. Len(t) \in Nat /\ S \cap (1 .. Len(t)) = S
  BY EnclosingNodes
<1>2. Ascends(o, S)
  BY <1>1, InOrderAscends DEF Nodes
<1> HIDE DEF o
<1>3. Len(o) \in Nat /\ DOMAIN o = 1 .. Len(o) /\ \A i \in 1 .. Len(o) : o[i] \in Nat
  BY <1>2, LenProperties, ElementOfSeq DEF Ascends
<1>4. \A i \in 1 .. Len(o) : o[i] \in S
  BY <1>2 DEF Ascends
<1>5. \A n \in S : \E i \in 1 .. Len(o) : o[i] = n
  BY <1>2 DEF Ascends
<1>6. ASSUME NEW i \in 1 .. Len(o), NEW j \in 1 .. Len(o), o[i] = o[j]
      PROVE  i = j
  <2>1. \A k, l \in 1 .. Len(o) : k < l => o[k] < o[l]
    BY <1>2 DEF Ascends
  <2> QED
    BY <1>3, <1>6, <2>1
<1> QED
  BY <1>2, <1>3, <1>4, <1>5, <1>6 DEF o

LEMMA NodeFields ==
  ASSUME NEW node \in Node
  PROVE  /\ node.type \in STRING /\ node.name \in STRING /\ node.scope \in STRING
         /\ node.names \in Seq(STRING) /\ node.declarator \in Seq(STRING)
BY DEF Node

LEMMA NamesAtFirstTyped ==
  ASSUME NEW t, IsTree(t), NEW S, \A n \in S : n \in 1 .. Len(t)
  PROVE  NamesAtFirst(t, Nodes(t, S)) \in Seq(STRING)
<1> DEFINE o == Nodes(t, S)
<1>1. CASE o = <<>>
  BY <1>1, EmptySeq DEF NamesAtFirst
<1>2. CASE o # <<>>
  <2>1. o \in Seq(Nat) /\ \A i \in 1 .. Len(o) : o[i] \in S
    BY NodesOfTree DEF Ascends
  <2>2. Len(o) \in Nat \ {0}
    BY <1>2, <2>1, EmptySeq
  <2>3. o[1] \in 1 .. Len(t)
    BY <2>1, <2>2
  <2>4. t[o[1]] \in Node
    BY <2>3, EnclosingNodes
  <2>5. NamesAtFirst(t, o) = t[o[1]].names
    BY <1>2 DEF NamesAtFirst
  <2> HIDE DEF o
  <2> QED
    BY <2>4, <2>5, NodeFields DEF o
<1> QED
  BY <1>1, <1>2

\* Imports have their type, whatever the nodes are.
LEMMA ImportsTyped ==
  ASSUME NEW t, IsTree(t), NEW type
  PROVE  ImportsOf(t, type) \in Seq(ImportSet)
<1> DEFINE S == {m \in DOMAIN t : t[m].type \in {type} /\ (0 = 0 \/ 0 \in Enclosing(t)[m])}
           o == Nodes(t, S)
           s == [i \in DOMAIN o |-> [module |-> t[o[i]].names, at |-> o[i]]]
<1>1. ImportsOf(t, type) = s
  BY DEF ImportsOf, all_descendants_of_type, Each, ImportEntity
<1>2. Len(t) \in Nat /\ DOMAIN t = 1 .. Len(t) /\ \A n \in 1 .. Len(t) : t[n] \in Node
  BY TreeNodes
<1>3. \A n \in S : n \in 1 .. Len(t)
  BY <1>2
<1> HIDE DEF S
<1>4. Len(o) \in Nat /\ DOMAIN o = 1 .. Len(o) /\ \A i \in 1 .. Len(o) : o[i] \in S
  BY <1>3, NodesOfTree
<1> HIDE DEF o
<1>5. ASSUME NEW i \in 1 .. Len(o)
      PROVE  [module |-> t[o[i]].names, at |-> o[i]] \in ImportSet
  <2>1. o[i] \in 1 .. Len(t)
    BY <1>3, <1>4
  <2>2. o[i] \in Nat /\ t[o[i]] \in Node
    BY <1>2, <2>1
  <2>3. t[o[i]].names \in Seq(STRING)
    BY <2>2, NodeFields
  <2> QED
    BY <2>2, <2>3 DEF ImportSet
<1>6. s \in [1 .. Len(o) -> ImportSet]
  BY <1>4, <1>5
<1> HIDE DEF s
<1> QED
  BY <1>1, <1>4, <1>6, FunctionIsSequence

\* Classes, at the nodes in S, with the bases given by base.
LEMMA ClassesListed ==
  ASSUME NEW t, IsTree(t), NEW S, \A n \in S : n \in 1 .. Len(t),
         NEW base, \A n \in S : base[n] \in Seq(STRING),
         NEW s, s = [i \in DOMAIN Nodes(t, S) |->
                      ClassEntity(t, Nodes(t, S)[i], base[Nodes(t, S)[i]])]
  PROVE  s \in Seq(ClassSet) /\ At(s) = Nodes(t, S)
<1> DEFINE o == Nodes(t, S)
           e == [n \in S |-> ClassEntity(t, n, base[n])]
<1>1. Len(t) \in Nat /\ \A i \in DOMAIN o : o[i] \in S
  BY TreeNodes, NodesOfTree
<1>2. ASSUME NEW n \in S
      PROVE  e[n] \in ClassSet /\ e[n].at = n
  <2>1. n \in 1 .. Len(t) /\ n \in Nat
    BY <1>1
  <2>2. t[n] \in Node
    BY <2>1, EnclosingNodes
  <2>3. t[n].name \in STRING
    BY <2>2, NodeFields
  <2> QED
    BY <2>1, <2>3 DEF ClassEntity, ClassSet
<1>3. s = [i \in DOMAIN o |-> e[o[i]]]
  BY <1>1
<1>4. o = InOrder(Len(t), S)
  BY DEF Nodes
<1> HIDE DEF e, o
<1>5. Lists(s, S, e, ClassSet) /\ At(s) = InOrder(Len(t), S)
  <2> DEFINE N == Len(t)
  <2>1. N \in Nat /\ (\A n \in S : n \in 1 .. N) /\ \A n \in S : e[n] \in ClassSet /\ e[n].at = n
    BY <1>1, <1>2
  <2>2. s = [i \in DOMAIN InOrder(N, S) |-> e[InOrder(N, S)[i]]]
    BY <1>3, <1>4
  <2> HIDE DEF N
  <2>3. Lists(s, S, e, ClassSet) /\ At(s) = InOrder(N, S)
    BY <2>1, <2>2, ListsEach
  <2> QED
    BY <2>3 DEF N
<1> QED
  BY <1>4, <1>5 DEF Lists, o

\* Functions that belong to no class.
LEMMA FunctionsListed ==
  ASSUME NEW t, IsTree(t), NEW type, NEW e,
         \A n \in DOMAIN t : t[n].type = type => e[n] = FunctionEntity(t[n].name, n, None, FALSE)
  PROVE  Lists(FunctionsOf(t, type), {n \in DOMAIN t : t[n].type = type}, e, FunctionSymbol)
<1> DEFINE S == {n \in DOMAIN t : t[n].type = type}
           o == Nodes(t, S)
           s == [i \in DOMAIN o |-> FunctionEntity(t[o[i]].name, o[i], None, FALSE)]
<1>1. FunctionsOf(t, type) = s
  <2>1. S = {m \in DOMAIN t : t[m].type \in {type} /\ (0 = 0 \/ 0 \in Enclosing(t)[m])}
    OBVIOUS
  <2> QED
    BY <2>1 DEF FunctionsOf, all_descendants_of_type, Each
<1>2. Len(t) \in Nat /\ DOMAIN t = 1 .. Len(t) /\ \A n \in 1 .. Len(t) : t[n] \in Node
  BY TreeNodes
<1>3. \A n \in S : n \in 1 .. Len(t)
  BY <1>2
<1>4. ASSUME NEW n \in S
      PROVE  e[n] \in FunctionSymbol /\ e[n].at = n
  <2>1. t[n].name \in STRING /\ n \in Nat
    BY <1>2, NodeFields
  <2>2. e[n] = [name |-> t[n].name, at |-> n, parent_class |-> None, is_method |-> FALSE]
    BY DEF FunctionEntity
  <2> QED
    BY <2>1, <2>2 DEF FunctionSymbol
<1>5. \A i \in DOMAIN o : o[i] \in S
  BY <1>3, NodesOfTree
<1>6. s = [i \in DOMAIN o |-> e[o[i]]]
  BY <1>5
<1> HIDE DEF S, s
<1>7. Lists(s, S, e, FunctionSymbol)
  BY <1>2, <1>3, <1>4, <1>6, ListsEach DEF Nodes
<1> QED
  BY <1>1, <1>7 DEF S

\* The members of the class at node c.
MemberNodes(t, c, types) == {n \in DOMAIN t : t[n].type \in types /\ t[n].parent = c}

\* A function that is a method if it has a class.
LEMMA EntityTyped ==
  ASSUME NEW name \in STRING, NEW n \in Nat, NEW parent \in ClassNames
  PROVE  [name |-> name, at |-> n, parent_class |-> parent, is_method |-> (parent # None)]
           \in FunctionSymbol
<1>1. CASE parent = None
  <2>1. [name |-> name, at |-> n, parent_class |-> parent, is_method |-> (parent # None)]
        = [name |-> name, at |-> n, parent_class |-> parent, is_method |-> FALSE]
    BY <1>1
  <2> QED
    BY <1>1, <2>1 DEF FunctionSymbol, ClassNames
<1>2. CASE parent # None
  <2>1. [name |-> name, at |-> n, parent_class |-> parent, is_method |-> (parent # None)]
        = [name |-> name, at |-> n, parent_class |-> parent, is_method |-> TRUE]
    BY <1>2
  <2> QED
    BY <2>1 DEF FunctionSymbol, ClassNames
<1> QED
  BY <1>1, <1>2

\* What MethodsOf takes out of one class.
MembersOf(t, c, types) ==
  Each(direct_children_of_type(t, c, types), LAMBDA f :
    FunctionEntity(t[f].name, f, t[c].name, TRUE))

LEMMA MembersListed ==
  ASSUME NEW t, IsTree(t), NEW c \in 1 .. Len(t), NEW types, NEW e,
         \A n \in DOMAIN t : t[n].type \in types /\ t[n].parent = c =>
           e[n] = FunctionEntity(t[n].name, n, t[c].name, TRUE)
  PROVE  Lists(MembersOf(t, c, types), MemberNodes(t, c, types), e, FunctionSymbol)
<1> DEFINE S == {n \in DOMAIN t : t[n].type \in types /\ t[n].parent = c}
           o == InOrder(Len(t), S)
           s == [i \in DOMAIN o |-> FunctionEntity(t[o[i]].name, o[i], t[c].name, TRUE)]
<1>1. MembersOf(t, c, types) = s
  BY DEF MembersOf, direct_children_of_type, Each, Nodes
<1>2. Len(t) \in Nat /\ DOMAIN t = 1 .. Len(t) /\ \A n \in 1 .. Len(t) : t[n] \in Node
  BY TreeNodes
<1>3. \A n \in S : n \in 1 .. Len(t)
  BY <1>2
<1>4. t[c].name \in ClassNames
  BY <1>2, NodeFields DEF ClassNames
<1>5. ASSUME NEW n \in S
      PROVE  e[n] = FunctionEntity(t[n].name, n, t[c].name, TRUE)
  OBVIOUS
<1> HIDE DEF S
<1>6. ASSUME NEW n \in S
      PROVE  e[n] \in FunctionSymbol /\ e[n].at = n
  <2>1. n \in 1 .. Len(t)
    BY <1>3
  <2>2. n \in Nat /\ t[n] \in Node
    BY <1>2, <2>1
  <2>4. t[n].name \in STRING
    BY <2>2, NodeFields
  <2>3. e[n] = [name |-> t[n].name, at |-> n, parent_class |-> t[c].name, is_method |-> TRUE]
    BY <1>5 DEF FunctionEntity
  <2> QED
    BY <1>4, <2>2, <2>3, <2>4 DEF FunctionSymbol, ClassNames
<1>7. \A i \in DOMAIN o : o[i] \in S
  <2>1. o = Nodes(t, S)
    BY DEF Nodes
  <2> HIDE DEF o
  <2> QED
    BY <1>3, <2>1, NodesOfTree
<1> HIDE DEF o
<1>8. s = [i \in DOMAIN o |-> e[o[i]]]
  BY <1>5, <1>7
<1> HIDE DEF s
<1>9. Lists(s, S, e, FunctionSymbol)
  BY <1>2, <1>3, <1>6, <1>8, ListsEach DEF o
<1> QED
  BY <1>1, <1>9 DEF S, MemberNodes

\* The members of the classes at the nodes in C.
LEMMA MethodsListed ==
  ASSUME NEW t, IsTree(t), NEW C, \A n \in C : n \in 1 .. Len(t),
         NEW types, NEW e,
         \A n \in DOMAIN t : t[n].type \in types /\ t[n].parent \in C =>
           e[n] = FunctionEntity(t[n].name, n, t[t[n].parent].name, TRUE)
  PROVE  Lists(MethodsOf(t, Nodes(t, C), types),
               {n \in DOMAIN t : t[n].type \in types /\ t[n].parent \in C}, e, FunctionSymbol)
<1> DEFINE o == Nodes(t, C)
           s == [i \in DOMAIN o |-> MembersOf(t, o[i], types)]
           P == [i \in DOMAIN o |-> MemberNodes(t, o[i], types)]
           All == {n \in DOMAIN t : t[n].type \in types /\ t[n].parent \in C}
<1>1. MethodsOf(t, o, types) = FlattenSeq(s)
  BY DEF MethodsOf, Each, MembersOf
<1>2. \A n \in C : n \in 1 .. Len(t)
  OBVIOUS
<1>3. /\ Len(o) \in Nat /\ DOMAIN o = 1 .. Len(o)
      /\ \A i \in 1 .. Len(o) : o[i] \in C
      /\ \A n \in C : \E i \in 1 .. Len(o) : o[i] = n
      /\ \A i, j \in 1 .. Len(o) : o[i] = o[j] => i = j
  <2> HIDE DEF s, P, All
  <2> QED
    BY <1>2, NodesOfTree
<1> HIDE DEF o
<1>4. ASSUME NEW c \in C
      PROVE  Lists(MembersOf(t, c, types), MemberNodes(t, c, types), e, FunctionSymbol)
  <2>1. \A n \in DOMAIN t : t[n].type \in types /\ t[n].parent = c =>
          e[n] = FunctionEntity(t[n].name, n, t[c].name, TRUE)
    OBVIOUS
  <2>2. c \in 1 .. Len(t)
    OBVIOUS
  <2> QED
    BY <2>1, <2>2, MembersListed
<1>5. /\ \A n, c : n \in MemberNodes(t, c, types) <=> n \in DOMAIN t /\ t[n].type \in types /\ t[n].parent = c
      /\ \A n : n \in All <=> n \in DOMAIN t /\ t[n].type \in types /\ t[n].parent \in C
  BY DEF MemberNodes
<1>6. /\ \A i \in 1 .. Len(o) : s[i] = MembersOf(t, o[i], types) /\ P[i] = MemberNodes(t, o[i], types)
      /\ DOMAIN s = 1 .. Len(o) /\ s = [i \in DOMAIN s |-> s[i]]
  BY <1>3
<1> HIDE DEF s, P, All
<1>7. \A i \in 1 .. Len(o) : Lists(s[i], P[i], e, FunctionSymbol)
  BY <1>3, <1>4, <1>6
<1>8. s \in Seq(Seq(FunctionSymbol)) /\ Len(s) = Len(o)
  <2>1. \A i \in 1 .. Len(o) : s[i] \in Seq(FunctionSymbol)
    BY <1>7 DEF Lists
  <2>2. s \in [1 .. Len(o) -> Seq(FunctionSymbol)]
    BY <1>6, <2>1
  <2> QED
    BY <1>3, <2>2, FunctionIsSequence
<1>9. ASSUME NEW i \in 1 .. Len(o), NEW j \in 1 .. Len(o), i # j
      PROVE  P[i] \cap P[j] = {}
  <2>1. o[i] # o[j] /\ P[i] = MemberNodes(t, o[i], types) /\ P[j] = MemberNodes(t, o[j], types)
    BY <1>3, <1>6, <1>9
  <2>2. ASSUME NEW n, n \in P[i], n \in P[j] PROVE FALSE
    BY <1>5, <2>1, <2>2
  <2> QED
    BY <2>2
<1>10. UNION {P[i] : i \in 1 .. Len(o)} = All
  <2>1. ASSUME NEW i \in 1 .. Len(o), NEW n \in P[i]
        PROVE  n \in All
    <3>1. n \in MemberNodes(t, o[i], types) /\ o[i] \in C
      BY <1>3, <1>6
    <3> QED
      BY <1>5, <3>1
  <2>2. ASSUME NEW n \in All
        PROVE  \E i \in 1 .. Len(o) : n \in P[i]
    <3>1. PICK i \in 1 .. Len(o) : o[i] = t[n].parent
      BY <1>3, <1>5
    <3>2. n \in MemberNodes(t, o[i], types)
      BY <1>5, <3>1
    <3>3. n \in P[i]
      BY <1>6, <3>2
    <3> QED
      BY <3>3
  <2> QED
    BY <2>1, <2>2
<1>11. Lists(FlattenSeq(s), UNION {P[i] : i \in 1 .. Len(o)}, e, FunctionSymbol)
  <2> DEFINE k == Len(o)
             A == FunctionSymbol
  <2>1. /\ k \in Nat /\ s \in Seq(Seq(A)) /\ Len(s) = k
        /\ \A i \in 1 .. k : Lists(s[i], P[i], e, A)
        /\ \A i, j \in 1 .. k : i # j => P[i] \cap P[j] = {}
    BY <1>3, <1>7, <1>8, <1>9
  <2> HIDE DEF k, A
  <2>2. Lists(FlattenSeq(s), UNION {P[i] : i \in 1 .. k}, e, A)
    BY <2>1, ListsFlattened
  <2> QED
    BY <2>2 DEF k, A
<1> QED
  BY <1>1, <1>10, <1>11 DEF o, All

\* A class is the innermost one around its members.
IsMember(language, t, n) ==
  /\ t[n].scope = "" /\ t[n].type # "function_declaration" /\ language \notin {"C", "C++"}
  /\ t[n].parent # 0 /\ t[t[n].parent].type \in ClassTypes(language)

\* A function belongs to the class that it is a member of.
LEMMA OwnerOfMember ==
  ASSUME NEW language, NEW t, IsTree(t), NEW n \in 1 .. Len(t), IsMember(language, t, n)
  PROVE  Owner(language, t, n) = t[t[n].parent].name
<1> DEFINE p == t[n].parent
           around == {m \in Enclosing(t)[n] : t[m].type \in ClassTypes(language)}
<1>1. p \in 0 .. n - 1 /\ Len(t) \in Nat
  BY EnclosingNodes
<1>2. Enclosing(t)[n] = {p} \cup Enclosing(t)[p]
  <2>1. p # 0
    BY DEF IsMember
  <2> QED
    BY <2>1, EnclosingNodes
<1>3. p \in 1 .. Len(t) /\ p \in Nat
  <2>1. p # 0
    BY DEF IsMember
  <2>2. n \in 1 .. Len(t)
    OBVIOUS
  <2> HIDE DEF p, around
  <2> QED
    BY <1>1, <2>1, <2>2
<1>4. \A m \in Enclosing(t)[p] : m \in 1 .. p - 1
  BY <1>3, EnclosingNodes
<1>5. p \in around /\ \A m \in around : m \in Enclosing(t)[p] \/ m = p
  BY <1>2 DEF IsMember
<1> HIDE DEF p, around
<1>6. ASSUME NEW m \in around
      PROVE  m \in 1 .. p /\ m <= p
  <2>1. m \in 1 .. p - 1 \/ m = p
    BY <1>4, <1>5
  <2> QED
    BY <1>3, <2>1
<1>7. p = CHOOSE m \in around : \A o \in around : o <= m
  BY <1>3, <1>5, <1>6, GreatestElement
<1>8. around # {}
  BY <1>5
<1> QED
  BY <1>7, <1>8 DEF Owner, IsMember, IsAnonymous, p, around

\* What describes a tree: its classes in order, and each function once, with its owner.
LEMMA Described ==
  ASSUME NEW language, NEW t, NEW symbols, NEW e, NEW A,
         At(symbols.classes) = Nodes(t, {n \in DOMAIN t : DeclaresClass(language, t, n)}),
         Lists(symbols.functions, {n \in DOMAIN t : DeclaresFunction(language, t, n)}, e, A),
         \A n \in DOMAIN t : DeclaresFunction(language, t, n) =>
           e[n].parent_class = Owner(language, t, n)
  PROVE  Describes(symbols, language, t)
<1> DEFINE s == symbols.functions
           S == {n \in DOMAIN t : DeclaresFunction(language, t, n)}
<1>1. DOMAIN s = 1 .. Len(s)
  BY LenProperties DEF Lists
<1>2. Range(s) = {s[i] : i \in 1 .. Len(s)}
  BY <1>1 DEF Range
<1>3. /\ \A i \in 1 .. Len(s) : s[i].at \in S /\ s[i] = e[s[i].at]
      /\ \A n \in S : \E i \in 1 .. Len(s) : s[i].at = n
      /\ \A i, j \in 1 .. Len(s) : s[i].at = s[j].at => i = j
  BY DEF Lists
<1>4. {f.at : f \in Range(s)} = S
  <2> HIDE DEF S
  <2> QED
    BY <1>2, <1>3
<1>5. \A f \in Range(s) : f.parent_class = Owner(language, t, f.at)
  <2> SUFFICES ASSUME NEW i \in 1 .. Len(s)
               PROVE  s[i].parent_class = Owner(language, t, s[i].at)
    BY <1>2
  <2>1. s[i].at \in DOMAIN t /\ DeclaresFunction(language, t, s[i].at)
    BY <1>3
  <2> QED
    BY <1>3, <2>1
<1> QED
  BY <1>1, <1>3, <1>4, <1>5 DEF Describes, Each, At

LEMMA RemoveFirstTyped ==
  ASSUME NEW A, NEW s \in Seq(A), NEW x
  PROVE  RemoveFirst(s, x) \in Seq(A)
<1>1. CASE ~ \E i \in 1 .. Len(s) : s[i] = x
  BY <1>1 DEF RemoveFirst
<1>2. CASE \E i \in 1 .. Len(s) : s[i] = x
  <2> DEFINE I == {i \in 1 .. Len(s) : s[i] = x}
             k == CHOOSE i \in I : \A j \in I : i <= j
  <2>1. Len(s) \in Nat /\ \A i \in 1 .. Len(s) : s[i] \in A
    BY LenProperties, ElementOfSeq
  <2>2. I \subseteq Nat /\ I # {} /\ \A i \in I : i \in 1 .. Len(s)
    BY <1>2
  <2>3. k \in I
    <3>1. \E i \in I : \A j \in I : i <= j
      <4> HIDE DEF I
      <4> QED
        BY <2>2, LeastElement
    <3> HIDE DEF I
    <3> QED
      BY <3>1
  <2>4. RemoveFirst(s, x) = SubSeq(s, 1, k - 1) \o SubSeq(s, k + 1, Len(s))
    BY <1>2, <2>2 DEF RemoveFirst, RemoveAt, SelectInSeq, Min
  <2>5. k \in 1 .. Len(s)
    BY <2>2, <2>3
  <2> HIDE DEF k
  <2>6. SubSeq(s, 1, k - 1) \in Seq(A)
    BY <2>1, <2>5, SubSeqProperties
  <2>7. SubSeq(s, k + 1, Len(s)) \in Seq(A)
    BY <2>1, <2>5, SubSeqProperties
  <2> QED
    BY <2>4, <2>6, <2>7, ConcatProperties
<1> QED
  BY <1>1, <1>2

\* What holds a node is in the tree.
LEMMA ParentsOfTree ==
  ASSUME NEW t, IsTree(t)
  PROVE  0 \notin DOMAIN t /\ \A n \in DOMAIN t : t[n].parent # 0 => t[n].parent \in DOMAIN t
<1>1. Len(t) \in Nat /\ DOMAIN t = 1 .. Len(t)
  BY TreeNodes
<1>2. \A n \in 1 .. Len(t) : t[n].parent \in 0 .. n - 1
  BY EnclosingNodes
<1> QED
  BY <1>1, <1>2

LEMMA SymbolsTyped ==
  ASSUME NEW classes \in Seq(ClassSet), NEW functions \in Seq(FunctionSymbol),
         NEW imports \in Seq(ImportSet)
  PROVE  [classes |-> classes, functions |-> functions, imports |-> imports] \in Symbols
BY DEF Symbols, ClassSet, ImportSet

\* What is read of a function, for all languages but C and C++.
LEMMA ScopeFacts ==
  ASSUME NEW language, NEW t, IsTreeOf(language, t), language \notin {"C", "C++"},
         NEW n \in DOMAIN t, t[n].type \in FunctionTypes(language), t[n].scope # ""
  PROVE  t[n].type = "method_declaration" /\ language = "Go"
BY DEF IsTreeOf, IsRead

\* What an extractor should return.
DescribedAndTyped(symbols, language, t) == symbols \in Symbols /\ Describes(symbols, language, t)

\* The extractors, one after the other: what each finds is what its grammar declares.
LEMMA ScriptDescribed ==
  ASSUME NEW language \in {"JavaScript", "JSX", "TypeScript", "TSX"}, NEW t, IsTreeOf(language, t)
  PROVE  DescribedAndTyped(Extract(language, t), language, t)
<1> DEFINE C == {n \in DOMAIN t : DeclaresClass(language, t, n)}
           D == {n \in DOMAIN t : DeclaresFunction(language, t, n)}
           M == {n \in DOMAIN t : t[n].type \in {"method_definition"} /\ t[n].parent \in C}
           F == {n \in DOMAIN t : t[n].type = "function_declaration"}
           e == [n \in DOMAIN t |->
                   IF t[n].type = "method_definition"
                   THEN FunctionEntity(t[n].name, n, t[t[n].parent].name, TRUE)
                   ELSE FunctionEntity(t[n].name, n, None, FALSE)]
           base == [n \in C |-> NamesAtFirst(t, all_descendants_of_type(t, n, {"class_heritage"}))]
           classes == [i \in DOMAIN Nodes(t, C) |->
                        ClassEntity(t, Nodes(t, C)[i], base[Nodes(t, C)[i]])]
           functions == MethodsOf(t, Nodes(t, C), {"method_definition"})
                          \o FunctionsOf(t, "function_declaration")
           imports == ImportsOf(t, "import_statement")
<1>1. /\ language \notin {"C", "C++"} /\ language # "Go" /\ language # "Java" /\ language # "Python"
      /\ ClassTypes(language) = {"class_declaration"}
      /\ FunctionTypes(language) = {"function_declaration", "method_definition"}
  BY DEF ClassTypes, FunctionTypes
<1>2. IsTree(t)
  BY DEF IsTreeOf
<1>3. \A n \in DOMAIN t :
        DeclaresClass(language, t, n) <=> t[n].type = "class_declaration"
  BY <1>1 DEF DeclaresClass, IsAnonymous
<1>4. \A n \in DOMAIN t :
        t[n].type \in {"function_declaration", "method_definition"} => t[n].scope = ""
  BY <1>1, ScopeFacts
<1>5. \A n \in C : n \in 1 .. Len(t) /\ t[n].type = "class_declaration"
  BY <1>2, <1>3, TreeNodes
<1>6. all_descendants_of_type(t, 0, {"class_declaration"}) = Nodes(t, C)
  <2>1. {m \in DOMAIN t : t[m].type \in {"class_declaration"} /\ (0 = 0 \/ 0 \in Enclosing(t)[m])} = C
    BY <1>3
  <2> HIDE DEF C
  <2> QED
    BY <2>1 DEF all_descendants_of_type
<1>7. \A n \in DOMAIN t : t[n].parent \in C <=> t[n].parent # 0 /\ DeclaresClass(language, t, t[n].parent)
  BY <1>2, ParentsOfTree
<1>8. D = M \cup F /\ M \cap F = {}
  <2>1. \A n \in DOMAIN t : n \in D <=> n \in M \/ n \in F
    BY <1>1, <1>7 DEF DeclaresFunction
  <2>2. \A n \in M : n \notin F
    OBVIOUS
  <2> QED
    BY <2>1, <2>2
<1>9. Extract(language, t) = [classes |-> classes, functions |-> functions, imports |-> imports]
  <2>1. Extract(language, t) = _extract_js_family(t)
    BY DEF Extract
  <2>2. Each(Nodes(t, C), LAMBDA c :
          ClassEntity(t, c, NamesAtFirst(t, all_descendants_of_type(t, c, {"class_heritage"})))) = classes
    <3>1. \A i \in DOMAIN Nodes(t, C) : Nodes(t, C)[i] \in C
      BY <1>2, <1>5, NodesOfTree
    <3> HIDE DEF C
    <3> QED
      BY <3>1 DEF Each
  <2> HIDE DEF C, classes
  <2> QED
    BY <1>6, <2>1, <2>2 DEF _extract_js_family
<1> HIDE DEF C
<1>10. classes \in Seq(ClassSet) /\ At(classes) = Nodes(t, C)
  <2>1. \A n \in C : base[n] \in Seq(STRING)
    <3> SUFFICES ASSUME NEW n \in C
                 PROVE  NamesAtFirst(t, all_descendants_of_type(t, n, {"class_heritage"})) \in Seq(STRING)
      OBVIOUS
    <3> QED
      BY <1>2, TreeNodes, NamesAtFirstTyped DEF all_descendants_of_type
  <2> HIDE DEF base
  <2> QED
    BY <1>2, <1>5, <2>1, ClassesListed
<1>11. Lists(functions, D, e, FunctionSymbol)
  <2>1. Lists(MethodsOf(t, Nodes(t, C), {"method_definition"}), M, e, FunctionSymbol)
    <3>1. \A n \in DOMAIN t : t[n].type \in {"method_definition"} /\ t[n].parent \in C =>
            e[n] = FunctionEntity(t[n].name, n, t[t[n].parent].name, TRUE)
      OBVIOUS
    <3> HIDE DEF e
    <3> QED
      BY <1>2, <1>5, <3>1, MethodsListed
  <2>2. Lists(FunctionsOf(t, "function_declaration"), F, e, FunctionSymbol)
    <3>1. \A n \in DOMAIN t : t[n].type = "function_declaration" =>
            e[n] = FunctionEntity(t[n].name, n, None, FALSE)
      OBVIOUS
    <3> HIDE DEF e
    <3> QED
      BY <1>2, <3>1, FunctionsListed
  <2> HIDE DEF e, D, M, F
  <2> QED
    BY <1>8, <2>1, <2>2, ListsConcatenation
<1>12. \A n \in D : e[n].parent_class = Owner(language, t, n)
  <2>1. ASSUME NEW n \in M PROVE e[n].parent_class = Owner(language, t, n)
    <3>1. e[n].parent_class = t[t[n].parent].name
      BY DEF FunctionEntity
    <3>2. IsMember(language, t, n)
      BY <1>1, <1>4, <1>5, <1>7 DEF IsMember
    <3>3. n \in 1 .. Len(t)
      BY <1>2, TreeNodes
    <3> QED
      BY <1>2, <3>1, <3>2, <3>3, OwnerOfMember
  <2>2. ASSUME NEW n \in F PROVE e[n].parent_class = Owner(language, t, n)
    BY <1>4 DEF FunctionEntity, Owner
  <2> HIDE DEF e, D, M, F
  <2> QED
    BY <1>8, <2>1, <2>2
<1>13. imports \in Seq(ImportSet)
  BY <1>2, ImportsTyped
<1> HIDE DEF classes, functions, imports, e
<1>14. Extract(language, t) \in Symbols
  BY <1>9, <1>10, <1>11, <1>13, SymbolsTyped DEF Lists
<1>15. Describes(Extract(language, t), language, t)
  BY <1>9, <1>10, <1>11, <1>12, Described DEF C
<1> QED
  BY <1>14, <1>15 DEF DescribedAndTyped

LEMMA JavaDescribed ==
  ASSUME NEW t, IsTreeOf("Java", t)
  PROVE  DescribedAndTyped(Extract("Java", t), "Java", t)
<1> DEFINE ClassT == {"class_declaration", "interface_declaration"}
           MethodT == {"method_declaration", "constructor_declaration"}
           C == {n \in DOMAIN t : DeclaresClass("Java", t, n)}
           D == {n \in DOMAIN t : DeclaresFunction("Java", t, n)}
           M == {n \in DOMAIN t : t[n].type \in MethodT /\ t[n].parent \in C}
           I == {m \in DOMAIN t : t[m].type \in {"import_declaration"}
                                    /\ (0 = 0 \/ 0 \in Enclosing(t)[m])}
           e == [n \in DOMAIN t |-> FunctionEntity(t[n].name, n, t[t[n].parent].name, TRUE)]
           Field(c, type) == NamesAtFirst(t, direct_children_of_type(t, c, {type}))
           base == [n \in C |-> Field(n, "superclass") \o Field(n, "super_interfaces")]
           classes == [i \in DOMAIN Nodes(t, C) |->
                        ClassEntity(t, Nodes(t, C)[i], base[Nodes(t, C)[i]])]
           functions == MethodsOf(t, Nodes(t, C), MethodT)
           imports == [i \in DOMAIN Nodes(t, I) |->
                        ImportEntity(Nodes(t, I)[i], RemoveFirst(t[Nodes(t, I)[i]].names, "static"))]
<1>1. ClassTypes("Java") = ClassT /\ FunctionTypes("Java") = MethodT
  BY DEF ClassTypes, FunctionTypes
<1>2. IsTree(t)
  BY DEF IsTreeOf
<1>3. \A n \in DOMAIN t : DeclaresClass("Java", t, n) <=> t[n].type \in ClassT
  BY <1>1 DEF DeclaresClass, IsAnonymous
<1>4. \A n \in DOMAIN t : t[n].type \in MethodT => t[n].scope = ""
  BY <1>1, ScopeFacts
<1>5. \A n \in C : n \in 1 .. Len(t) /\ t[n].type \in ClassT
  BY <1>2, <1>3, TreeNodes
<1>6. all_descendants_of_type(t, 0, ClassT) = Nodes(t, C)
  <2>1. {m \in DOMAIN t : t[m].type \in ClassT /\ (0 = 0 \/ 0 \in Enclosing(t)[m])} = C
    BY <1>3
  <2> HIDE DEF C, ClassT
  <2> QED
    BY <2>1 DEF all_descendants_of_type
<1>7. \A n \in DOMAIN t : t[n].parent \in C <=> t[n].parent # 0 /\ DeclaresClass("Java", t, t[n].parent)
  BY <1>2, ParentsOfTree
<1>8. D = M
  BY <1>1, <1>7 DEF DeclaresFunction
<1>9. Extract("Java", t) = [classes |-> classes, functions |-> functions, imports |-> imports]
  <2>1. Extract("Java", t) = _extract_java(t)
    BY DEF Extract
  <2>2. Each(Nodes(t, C), LAMBDA c :
          ClassEntity(t, c, Field(c, "superclass") \o Field(c, "super_interfaces"))) = classes
    <3>1. \A i \in DOMAIN Nodes(t, C) : Nodes(t, C)[i] \in C
      BY <1>2, <1>5, NodesOfTree
    <3> HIDE DEF C, Field
    <3> QED
      BY <3>1 DEF Each
  <2>3. Each(all_descendants_of_type(t, 0, {"import_declaration"}), LAMBDA n :
          ImportEntity(n, RemoveFirst(t[n].names, "static"))) = imports
    BY DEF Each, all_descendants_of_type
  <2> HIDE DEF C, classes, imports
  <2> QED
    BY <1>6, <2>1, <2>2, <2>3 DEF _extract_java
<1> HIDE DEF C, M, MethodT, ClassT
<1>10. classes \in Seq(ClassSet) /\ At(classes) = Nodes(t, C)
  <2>1. ASSUME NEW n, NEW type
        PROVE  Field(n, type) \in Seq(STRING)
    BY <1>2, TreeNodes, NamesAtFirstTyped DEF direct_children_of_type
  <2> HIDE DEF Field
  <2>2. \A n \in C : base[n] \in Seq(STRING)
    BY <2>1, ConcatProperties
  <2> HIDE DEF base
  <2> QED
    BY <1>2, <1>5, <2>2, ClassesListed
<1>11. Lists(functions, M, e, FunctionSymbol)
  <2>1. \A n \in DOMAIN t : t[n].type \in MethodT /\ t[n].parent \in C =>
          e[n] = FunctionEntity(t[n].name, n, t[t[n].parent].name, TRUE)
    OBVIOUS
  <2> HIDE DEF e
  <2> QED
    BY <1>2, <1>5, <2>1, MethodsListed DEF M
<1>12. \A n \in D : e[n].parent_class = Owner("Java", t, n)
  <2> SUFFICES ASSUME NEW n \in M PROVE e[n].parent_class = Owner("Java", t, n)
    BY <1>8
  <2>1. n \in DOMAIN t /\ t[n].type \in MethodT /\ t[n].parent \in C
    BY DEF M
  <2>2. e[n].parent_class = t[t[n].parent].name
    BY <2>1 DEF FunctionEntity
  <2>3. IsMember("Java", t, n)
    BY <1>1, <1>4, <1>5, <1>7, <2>1 DEF IsMember, MethodT
  <2>4. n \in 1 .. Len(t)
    BY <1>2, <2>1, TreeNodes
  <2> QED
    BY <1>2, <2>2, <2>3, <2>4, OwnerOfMember
<1>13. imports \in Seq(ImportSet)
  <2> DEFINE o == Nodes(t, I)
  <2>1. \A n \in I : n \in 1 .. Len(t)
    BY <1>2, TreeNodes
  <2> HIDE DEF I
  <2>2. Len(o) \in Nat /\ DOMAIN o = 1 .. Len(o) /\ \A i \in 1 .. Len(o) : o[i] \in I
    BY <1>2, <2>1, NodesOfTree
  <2> HIDE DEF o
  <2>3. ASSUME NEW i \in 1 .. Len(o)
        PROVE  ImportEntity(o[i], RemoveFirst(t[o[i]].names, "static")) \in ImportSet
    <3>1. o[i] \in 1 .. Len(t)
      BY <2>1, <2>2
    <3>2. o[i] \in Nat /\ t[o[i]] \in Node
      BY <1>2, <3>1, TreeNodes
    <3>3. RemoveFirst(t[o[i]].names, "static") \in Seq(STRING)
      BY <3>2, NodeFields, RemoveFirstTyped
    <3> QED
      BY <3>2, <3>3 DEF ImportEntity, ImportSet
  <2>4. imports = [i \in 1 .. Len(o) |-> ImportEntity(o[i], RemoveFirst(t[o[i]].names, "static"))]
    BY <2>2 DEF o
  <2>5. imports \in [1 .. Len(o) -> ImportSet]
    BY <2>3, <2>4
  <2> HIDE DEF imports
  <2> QED
    BY <2>2, <2>5, FunctionIsSequence
<1> HIDE DEF classes, functions, imports, e
<1>14. Extract("Java", t) \in Symbols
  BY <1>9, <1>10, <1>11, <1>13, SymbolsTyped DEF Lists
<1>15. Describes(Extract("Java", t), "Java", t)
  BY <1>8, <1>9, <1>10, <1>11, <1>12, Described DEF C
<1> QED
  BY <1>14, <1>15 DEF DescribedAndTyped

LEMMA GoDescribed ==
  ASSUME NEW t, IsTreeOf("Go", t)
  PROVE  DescribedAndTyped(Extract("Go", t), "Go", t)
<1> DEFINE C == {n \in DOMAIN t : DeclaresClass("Go", t, n)}
           D == {n \in DOMAIN t : DeclaresFunction("Go", t, n)}
           F == {n \in DOMAIN t : t[n].type = "function_declaration"}
           M == {n \in DOMAIN t : t[n].type = "method_declaration"}
           e == [n \in DOMAIN t |->
                   IF t[n].type = "method_declaration"
                   THEN FunctionEntity(t[n].name, n, GoReceiver(t[n]), TRUE)
                   ELSE FunctionEntity(t[n].name, n, None, FALSE)]
           base == [n \in C |-> <<>>]
           classes == [i \in DOMAIN Nodes(t, C) |->
                        ClassEntity(t, Nodes(t, C)[i], base[Nodes(t, C)[i]])]
           methods == [i \in DOMAIN Nodes(t, M) |-> e[Nodes(t, M)[i]]]
           functions == FunctionsOf(t, "function_declaration") \o methods
           imports == ImportsOf(t, "import_spec")
<1>1. ClassTypes("Go") = {} /\ FunctionTypes("Go") = {"function_declaration", "method_declaration"}
  BY DEF ClassTypes, FunctionTypes
<1>2. IsTree(t)
  BY DEF IsTreeOf
<1>3. \A n \in DOMAIN t : t[n].type = "function_declaration" => t[n].scope = ""
  BY <1>1, ScopeFacts
<1>4. Len(t) \in Nat /\ DOMAIN t = 1 .. Len(t) /\ \A n \in 1 .. Len(t) : t[n] \in Node
  BY <1>2, TreeNodes
<1>5. \A n \in C : n \in 1 .. Len(t)
  BY <1>4
<1>6. Nodes(t, {n \in DOMAIN t :
                 /\ t[n].type = "type_spec"
                 /\ direct_children_of_type(t, n, {"struct_type", "interface_type"}) # <<>>})
        = Nodes(t, C)
  <2>1. ASSUME NEW n \in DOMAIN t
        PROVE  direct_children_of_type(t, n, {"struct_type", "interface_type"}) # <<>>
                 <=> \E m \in DOMAIN t : t[m].parent = n /\ t[m].type \in {"struct_type", "interface_type"}
    <3> DEFINE K == {m \in DOMAIN t : t[m].type \in {"struct_type", "interface_type"} /\ t[m].parent = n}
    <3>1. direct_children_of_type(t, n, {"struct_type", "interface_type"}) = Nodes(t, K)
      BY DEF direct_children_of_type
    <3>2. \A m \in K : m \in 1 .. Len(t)
      BY <1>4
    <3>3. (\E m \in DOMAIN t : t[m].parent = n /\ t[m].type \in {"struct_type", "interface_type"}) <=> K # {}
      OBVIOUS
    <3> HIDE DEF K
    <3>4. Ascends(Nodes(t, K), K)
      BY <1>2, <3>2, NodesOfTree
    <3>5. Nodes(t, K) = <<>> <=> K = {}
      <4>1. ASSUME Nodes(t, K) = <<>> PROVE K = {}
        BY <3>4, <4>1, EmptySeq DEF Ascends
      <4>2. ASSUME K = {} PROVE Nodes(t, K) = <<>>
        BY <3>4, <4>2, AscendsEmpty, AscendsIsUnique
      <4> QED
        BY <4>1, <4>2
    <3> QED
      BY <3>1, <3>3, <3>5
  <2>2. {n \in DOMAIN t :
                 /\ t[n].type = "type_spec"
                 /\ direct_children_of_type(t, n, {"struct_type", "interface_type"}) # <<>>} = C
    BY <1>1, <2>1 DEF DeclaresClass
  <2> HIDE DEF C
  <2> QED
    BY <2>2
<1>7. D = F \cup M /\ F \cap M = {}
  <2>1. \A n \in DOMAIN t : n \in D <=> n \in M \/ n \in F
    BY <1>1 DEF DeclaresFunction
  <2>2. \A n \in M : n \notin F
    OBVIOUS
  <2> QED
    BY <2>1, <2>2
<1>8. \A n \in M : n \in 1 .. Len(t)
  BY <1>4
<1>9. Extract("Go", t) = [classes |-> classes, functions |-> functions, imports |-> imports]
  <2>1. Extract("Go", t) = _extract_go(t)
    BY DEF Extract
  <2>2. Each(Nodes(t, C), LAMBDA n : ClassEntity(t, n, <<>>)) = classes
    <3>1. \A i \in DOMAIN Nodes(t, C) : Nodes(t, C)[i] \in C
      BY <1>2, <1>5, NodesOfTree
    <3> HIDE DEF C
    <3> QED
      BY <3>1 DEF Each
  <2>3. Each(all_descendants_of_type(t, 0, {"method_declaration"}), LAMBDA f :
          FunctionEntity(t[f].name, f, GoReceiver(t[f]), TRUE)) = methods
    <3>1. all_descendants_of_type(t, 0, {"method_declaration"}) = Nodes(t, M)
      <4>1. {m \in DOMAIN t : t[m].type \in {"method_declaration"} /\ (0 = 0 \/ 0 \in Enclosing(t)[m])} = M
        OBVIOUS
      <4> HIDE DEF M
      <4> QED
        BY <4>1 DEF all_descendants_of_type
    <3>2. \A n \in M : e[n] = FunctionEntity(t[n].name, n, GoReceiver(t[n]), TRUE)
      OBVIOUS
    <3>3. \A i \in DOMAIN Nodes(t, M) : Nodes(t, M)[i] \in M
      BY <1>2, <1>8, NodesOfTree
    <3> HIDE DEF M, e
    <3> QED
      BY <3>1, <3>2, <3>3 DEF Each
  <2> HIDE DEF C, classes, methods
  <2> QED
    BY <1>6, <2>1, <2>2, <2>3 DEF _extract_go
<1> HIDE DEF C
<1>10. classes \in Seq(ClassSet) /\ At(classes) = Nodes(t, C)
  <2>1. \A n \in C : base[n] \in Seq(STRING)
    BY EmptySeq
  <2> HIDE DEF base
  <2> QED
    BY <1>2, <1>5, <2>1, ClassesListed
<1>11. Lists(functions, D, e, FunctionSymbol)
  <2>1. Lists(FunctionsOf(t, "function_declaration"), F, e, FunctionSymbol)
    <3>1. \A n \in DOMAIN t : t[n].type = "function_declaration" =>
            e[n] = FunctionEntity(t[n].name, n, None, FALSE)
      OBVIOUS
    <3> HIDE DEF e
    <3> QED
      BY <1>2, <3>1, FunctionsListed
  <2>2. ASSUME NEW n \in M
        PROVE  e[n] \in FunctionSymbol /\ e[n].at = n
    <3>1. e[n] = [name |-> t[n].name, at |-> n, parent_class |-> GoReceiver(t[n]), is_method |-> TRUE]
      BY DEF FunctionEntity
    <3>2. n \in Nat /\ t[n] \in Node
      BY <1>4, <1>8
    <3>3. t[n].name \in STRING /\ GoReceiver(t[n]) \in ClassNames
      BY <3>2, NodeFields DEF GoReceiver, ClassNames
    <3> HIDE DEF e, M
    <3> QED
      BY <3>1, <3>2, <3>3 DEF FunctionSymbol, ClassNames
  <2> HIDE DEF M, e
  <2>3. Lists(methods, M, e, FunctionSymbol)
    BY <1>4, <1>8, <2>2, ListsEach DEF Nodes
  <2> HIDE DEF methods, F, D
  <2> QED
    BY <1>7, <2>1, <2>3, ListsConcatenation
<1>12. \A n \in D : e[n].parent_class = Owner("Go", t, n)
  <2>1. ASSUME NEW n \in M PROVE e[n].parent_class = Owner("Go", t, n)
    BY <1>1 DEF FunctionEntity, Owner, GoReceiver
  <2>2. ASSUME NEW n \in F PROVE e[n].parent_class = Owner("Go", t, n)
    BY <1>3 DEF FunctionEntity, Owner
  <2> HIDE DEF e, D, M, F
  <2> QED
    BY <1>7, <2>1, <2>2
<1>13. imports \in Seq(ImportSet)
  BY <1>2, ImportsTyped
<1> HIDE DEF classes, functions, imports, e
<1>14. Extract("Go", t) \in Symbols
  BY <1>9, <1>10, <1>11, <1>13, SymbolsTyped DEF Lists
<1>15. Describes(Extract("Go", t), "Go", t)
  BY <1>9, <1>10, <1>11, <1>12, Described DEF C
<1> QED
  BY <1>14, <1>15 DEF DescribedAndTyped

\* What Owner gives is a name, or none.
LEMMA OwnerTyped ==
  ASSUME NEW language, NEW t, IsTree(t), NEW n \in 1 .. Len(t)
  PROVE  Owner(language, t, n) \in ClassNames
<1> DEFINE around == {m \in Enclosing(t)[n] : t[m].type \in ClassTypes(language)}
           inner == CHOOSE m \in around : \A o \in around : o <= m
<1>1. \A m \in around : m \in 1 .. n
  <2>1. \A m \in Enclosing(t)[n] : m \in 1 .. n - 1
    BY EnclosingNodes
  <2>2. n \in Nat
    BY TreeNodes
  <2> QED
    BY <2>1, <2>2
<1>2. n \in Nat /\ n \in 1 .. Len(t)
  BY TreeNodes
<1>3. ASSUME around # {} PROVE t[inner].name \in STRING
  <2>1. inner \in around
    <3>1. \E m \in around : \A k \in around : k <= m
      <4> HIDE DEF around
      <4> QED
        BY <1>1, <1>2, <1>3, GreatestElement
    <3> HIDE DEF around
    <3> QED
      BY <3>1
  <2>2. inner \in 1 .. n
    BY <1>1, <2>1
  <2> HIDE DEF inner
  <2>3. inner \in 1 .. Len(t)
    BY <1>2, <2>2, TreeNodes
  <2> QED
    BY <2>3, TreeNodes, NodeFields
<1>4. t[n].scope \in STRING
  BY TreeNodes, NodeFields
<1>5. Owner(language, t, n) =
        IF t[n].scope # "" THEN t[n].scope
        ELSE IF \/ t[n].type = "function_declaration"
                \/ around = {} \/ IsAnonymous(language, t[inner]) THEN None
        ELSE t[inner].name
  BY DEF Owner
<1> HIDE DEF inner, around
<1> QED
  BY <1>3, <1>4, <1>5 DEF ClassNames

\* The name of the innermost class around node n.
Innermost(language, t, n) ==
  LET around == {m \in Enclosing(t)[n] : t[m].type \in ClassTypes(language)}
      inner == CHOOSE m \in around : \A o \in around : o <= m
  IN  IF around = {} \/ IsAnonymous(language, t[inner]) THEN None ELSE t[inner].name

\* Without a name of its own for it, a function belongs to the innermost class around it.
LEMMA OwnerIsInnermost ==
  ASSUME NEW language, NEW t, NEW n, t[n].scope = "", t[n].type # "function_declaration"
  PROVE  Owner(language, t, n) = Innermost(language, t, n)
<1> DEFINE around == {m \in Enclosing(t)[n] : t[m].type \in ClassTypes(language)}
           inner == CHOOSE m \in around : \A o \in around : o <= m
<1>1. Owner(language, t, n) =
        IF t[n].scope # "" THEN t[n].scope
        ELSE IF \/ t[n].type = "function_declaration"
                \/ around = {} \/ IsAnonymous(language, t[inner]) THEN None
        ELSE t[inner].name
  BY DEF Owner
<1>2. Innermost(language, t, n) =
        IF around = {} \/ IsAnonymous(language, t[inner]) THEN None ELSE t[inner].name
  BY DEF Innermost
<1>3. t[n].scope = "" /\ t[n].type # "function_declaration"
  OBVIOUS
<1> HIDE DEF around, inner
<1>4. CASE around = {} \/ IsAnonymous(language, t[inner])
  BY <1>1, <1>2, <1>3, <1>4
<1>5. CASE ~ (around = {} \/ IsAnonymous(language, t[inner]))
  BY <1>1, <1>2, <1>3, <1>5
<1> QED
  BY <1>4, <1>5

LEMMA CDescribed ==
  ASSUME NEW language \in {"C", "C++"}, NEW t, IsTreeOf(language, t)
  PROVE  DescribedAndTyped(Extract(language, t), language, t)
<1> DEFINE C == {n \in DOMAIN t : DeclaresClass(language, t, n)}
           D == {n \in DOMAIN t : DeclaresFunction(language, t, n)}
           Parent(f) ==
             LET scope == _function_name_and_parent(t[f])[2]
             IN  IF scope # None THEN scope ELSE EnclosingClass(t, f)
           e == [n \in DOMAIN t |-> FunctionEntity(t[n].name, n, Parent(n), Parent(n) # None)]
           base == [n \in C |-> NamesAtFirst(t, all_descendants_of_type(t, n, {"base_class_clause"}))]
           classes == [i \in DOMAIN Nodes(t, C) |->
                        ClassEntity(t, Nodes(t, C)[i], base[Nodes(t, C)[i]])]
           functions == [i \in DOMAIN Nodes(t, D) |-> e[Nodes(t, D)[i]]]
           imports == ImportsOf(t, "preproc_include")
<1>1. /\ ClassTypes(language) = CppClass /\ FunctionTypes(language) = {"function_definition"}
      /\ language # "Go" /\ language # "Java"
      /\ language = "C" \/ language = "C++"
      /\ "C" # "C++"
  BY DEF ClassTypes, FunctionTypes
<1>2. IsTree(t)
  BY DEF IsTreeOf
<1>3. \A n \in DOMAIN t : t[n].type = "function_definition" =>
        /\ Nameless(t[n]) => t[n].name = ""
        /\ t[n].scope # "" => Qualified(t[n])
  <2> SUFFICES ASSUME NEW n \in DOMAIN t, t[n].type = "function_definition"
               PROVE  /\ Nameless(t[n]) => t[n].name = ""
                      /\ t[n].scope # "" => Qualified(t[n])
    OBVIOUS
  <2>1. IsRead(language, t[n])
    BY <1>1 DEF IsTreeOf
  <2> QED
    BY <1>1, <2>1 DEF IsRead
<1>4. Len(t) \in Nat /\ DOMAIN t = 1 .. Len(t) /\ \A n \in 1 .. Len(t) : t[n] \in Node
  BY <1>2, TreeNodes
<1>5. (\A n \in C : n \in 1 .. Len(t)) /\ (\A n \in D : n \in 1 .. Len(t))
  BY <1>4
<1>6. (IF language = "C" THEN <<>>
       ELSE Nodes(t, {c \in DOMAIN t : t[c].type \in CppClass /\ t[c].named})) = Nodes(t, C)
  <2>1. CASE language = "C"
    <3>1. C = {}
      BY <2>1 DEF DeclaresClass
    <3>2. Nodes(t, {}) = <<>>
      BY <1>4, InOrderEmpty DEF Nodes
    <3> QED
      BY <2>1, <3>1, <3>2
  <2>2. CASE language = "C++"
    <3>1. {c \in DOMAIN t : t[c].type \in CppClass /\ t[c].named} = C
      BY <1>1, <2>2 DEF DeclaresClass, IsAnonymous
    <3> QED
      BY <1>1, <2>2, <3>1
  <2> QED
    BY <1>1, <2>1, <2>2
<1>7. {f \in DOMAIN t : /\ t[f].type = "function_definition"
                        /\ _function_name_and_parent(t[f])[1] # ""} = D
  <2>1. ASSUME NEW n \in DOMAIN t
        PROVE  n \in D <=> /\ t[n].type = "function_definition"
                           /\ _function_name_and_parent(t[n])[1] # ""
    BY <1>1, <1>3 DEF DeclaresFunction, _function_name_and_parent
  <2> QED
    BY <2>1
<1>8. Extract(language, t) = _extract_c_like(t, language # "C")
  <2>1. CASE language = "C"
    BY <2>1 DEF Extract
  <2>2. CASE language = "C++"
    BY <2>2 DEF Extract
  <2> QED
    BY <1>1, <2>1, <2>2
<1>9. Extract(language, t) = [classes |-> classes, functions |-> functions, imports |-> imports]
  <2>1. Each(Nodes(t, C), LAMBDA c :
          ClassEntity(t, c, NamesAtFirst(t, all_descendants_of_type(t, c, {"base_class_clause"})))) = classes
    <3>1. \A i \in DOMAIN Nodes(t, C) : Nodes(t, C)[i] \in C
      BY <1>2, <1>5, NodesOfTree
    <3> HIDE DEF C
    <3> QED
      BY <3>1 DEF Each
  <2>2. Each(Nodes(t, D), LAMBDA f : FunctionEntity(t[f].name, f, Parent(f), Parent(f) # None)) = functions
    <3>1. \A i \in DOMAIN Nodes(t, D) : Nodes(t, D)[i] \in D
      BY <1>2, <1>5, NodesOfTree
    <3>2. \A i \in DOMAIN Nodes(t, D) : Nodes(t, D)[i] \in DOMAIN t
      BY <3>1
    <3> HIDE DEF D, Parent
    <3> QED
      BY <3>2 DEF Each
  <2>3. (IF ~ (language # "C") THEN <<>>
         ELSE Nodes(t, {c \in DOMAIN t : t[c].type \in CppClass /\ t[c].named})) = Nodes(t, C)
    BY <1>6
  <2> HIDE DEF C, D, classes, functions
  <2> QED
    BY <1>7, <1>8, <2>1, <2>2, <2>3 DEF _extract_c_like
<1>10. ASSUME NEW n \in D
       PROVE  Parent(n) = Owner(language, t, n)
  <2>1. /\ t[n].type = "function_definition" /\ ~ Nameless(t[n])
        /\ t[n].scope # "" => Qualified(t[n])
    BY <1>1, <1>3 DEF DeclaresFunction
  <2>2. t[n].scope # None
    BY <1>4, NodeFields, NamesAssumption
  <2>3. _function_name_and_parent(t[n])[2] = IF t[n].scope # "" THEN t[n].scope ELSE None
    BY <2>1 DEF _function_name_and_parent
  <2>4. CASE t[n].scope # ""
    BY <2>2, <2>3, <2>4 DEF Owner
  <2>5. CASE t[n].scope = ""
    <3>1. Parent(n) = EnclosingClass(t, n)
      BY <2>3, <2>5
    <3> HIDE DEF Parent
    <3>2. EnclosingClass(t, n) = Owner(language, t, n)
      <4>1. EnclosingClass(t, n) = Innermost(language, t, n)
        BY <1>1 DEF EnclosingClass, Innermost, IsAnonymous
      <4>2. Owner(language, t, n) = Innermost(language, t, n)
        <5>1. t[n].type # "function_declaration"
          BY <2>1
        <5> QED
          BY <2>5, <5>1, OwnerIsInnermost
      <4> QED
        BY <4>1, <4>2
    <3> QED
      BY <3>1, <3>2
  <2> QED
    BY <2>4, <2>5
<1> HIDE DEF C, Parent
<1>11. classes \in Seq(ClassSet) /\ At(classes) = Nodes(t, C)
  <2>1. \A n \in C : base[n] \in Seq(STRING)
    <3> SUFFICES ASSUME NEW n \in C
                 PROVE  NamesAtFirst(t, all_descendants_of_type(t, n, {"base_class_clause"})) \in Seq(STRING)
      OBVIOUS
    <3> QED
      BY <1>2, TreeNodes, NamesAtFirstTyped DEF all_descendants_of_type
  <2> HIDE DEF base
  <2> QED
    BY <1>2, <1>5, <2>1, ClassesListed
<1>12. ASSUME NEW n \in D
       PROVE  e[n] \in FunctionSymbol /\ e[n].at = n /\ e[n].parent_class = Owner(language, t, n)
  <2>1. n \in 1 .. Len(t) /\ n \in Nat
    BY <1>4, <1>5
  <2>2. e[n] = [name |-> t[n].name, at |-> n, parent_class |-> Parent(n), is_method |-> (Parent(n) # None)]
    BY DEF FunctionEntity
  <2>3. Parent(n) \in ClassNames /\ t[n].name \in STRING
    BY <1>2, <1>4, <1>10, <2>1, OwnerTyped, NodeFields
  <2> HIDE DEF e, D
  <2>4. e[n] \in FunctionSymbol
    BY <2>1, <2>2, <2>3, EntityTyped
  <2>5. e[n].at = n /\ e[n].parent_class = Parent(n)
    BY <2>2
  <2> QED
    BY <1>10, <2>4, <2>5
<1>13. Lists(functions, D, e, FunctionSymbol)
  <2> HIDE DEF e, D
  <2> QED
    BY <1>4, <1>5, <1>12, ListsEach DEF Nodes
<1>14. imports \in Seq(ImportSet)
  BY <1>2, ImportsTyped
<1> HIDE DEF classes, functions, imports, e
<1>15. Extract(language, t) \in Symbols
  BY <1>9, <1>11, <1>13, <1>14, SymbolsTyped DEF Lists
<1>16. Describes(Extract(language, t), language, t)
  <2>1. \A n \in DOMAIN t : DeclaresFunction(language, t, n) =>
          e[n].parent_class = Owner(language, t, n)
    BY <1>12
  <2>2. Lists(functions, {n \in DOMAIN t : DeclaresFunction(language, t, n)}, e, FunctionSymbol)
    BY <1>13
  <2> QED
    BY <1>9, <1>11, <2>1, <2>2, Described DEF C
<1> QED
  BY <1>15, <1>16 DEF DescribedAndTyped

LEMMA ExtractDescribes ==
  ASSUME NEW language \in EXTRACTORS, NEW t, IsTreeOf(language, t)
  PROVE  Extract(language, t) \in Symbols /\ Describes(Extract(language, t), language, t)
BY ScriptDescribed, JavaDescribed, GoDescribed, CDescribed DEF EXTRACTORS, DescribedAndTyped

\* The nodes that the visitor is in are the last one and those around it; the
\* next node is a child of one of them.
OnPath(t, o, m) ==
  /\ Len(o) >= 1 /\ o[1] = 0
  /\ \A i \in 2 .. Len(o) :
       /\ o[i] \in 1 .. m - 1
       /\ t[o[i]].parent = o[i - 1]
       /\ Enclosing(t)[o[i]] = {o[j] : j \in 2 .. i - 1}
  /\ m <= Len(t) => \E i \in 1 .. Len(o) : o[i] = t[m].parent

\* The classes that the visitor is in, and the names of some classes.
ClassesIn(t, o) == {n \in {o[i] : i \in 2 .. Len(o)} : t[n].type = "ClassDef"}

NamesOf(t, S) == [i \in DOMAIN Nodes(t, S) |-> t[Nodes(t, S)[i]].name]

\* What should be recorded of each function of a Python file.
PythonFunction(t) ==
  [n \in DOMAIN t |->
     FunctionEntity(t[n].name, n, Owner("Python", t, n), Owner("Python", t, n) # None)]

\* The classes and functions before a node.
ClassesBefore(t, m) == {n \in 1 .. m - 1 : DeclaresClass("Python", t, n)}

FunctionsBefore(t, m) == {n \in 1 .. m - 1 : DeclaresFunction("Python", t, n)}

\* Of the nodes before the next one, what they declare has been recorded.
Recorded(t, m, classes, functions) ==
  /\ At(classes) = Nodes(t, ClassesBefore(t, m))
  /\ Lists(functions, FunctionsBefore(t, m), PythonFunction(t), FunctionSymbol)

\* The state of a visit.
Visiting(t, o, m, stack, symbols) ==
  /\ OnPath(t, o, m)
  /\ stack = NamesOf(t, ClassesIn(t, o))
  /\ Recorded(t, m, symbols.classes, symbols.functions)

\* The path of a visit: as it starts, as a node is entered and as one is left.
LEMMA OnPathStarts ==
  ASSUME NEW t, IsTree(t)
  PROVE  OnPath(t, <<0>>, 1)
<1>1. Len(<<0>>) = 1 /\ <<0>>[1] = 0
  OBVIOUS
<1>2. 1 <= Len(t) => t[1].parent = 0
  <2> SUFFICES ASSUME 1 <= Len(t) PROVE t[1].parent = 0
    OBVIOUS
  <2>1. 1 \in 1 .. Len(t)
    BY TreeNodes
  <2>2. t[1].parent \in 0 .. 1 - 1
    BY <2>1, EnclosingNodes
  <2> QED
    BY <2>2
<1>3. \A i \in 2 .. 1 : FALSE
  OBVIOUS
<1>4. 1 \in 1 .. 1
  OBVIOUS
<1> DEFINE o == <<0>>
<1>5. /\ Len(o) = 1 /\ o[1] = 0 /\ (\A i \in 2 .. Len(o) : FALSE)
      /\ 1 <= Len(t) => \E i \in 1 .. Len(o) : o[i] = t[1].parent
  BY <1>1, <1>2, <1>3, <1>4
<1> HIDE DEF o
<1>6. OnPath(t, o, 1)
  BY <1>5 DEF OnPath
<1> QED
  BY <1>6 DEF o

\* The nodes around a child of the last node.
LEMMA AroundNext ==
  ASSUME NEW t, IsTree(t), NEW o \in Seq(0 .. Len(t)), NEW m \in 1 .. Len(t),
         OnPath(t, o, m), t[m].parent = Last(o)
  PROVE  Enclosing(t)[m] = {o[j] : j \in 2 .. Len(o)}
<1> DEFINE L == Len(o)
<1>1. L \in Nat /\ L >= 1 /\ o[1] = 0 /\ t[m].parent = o[L]
  BY LenProperties DEF OnPath, Last
<1>2. Enclosing(t)[m] = IF t[m].parent = 0 THEN {} ELSE {t[m].parent} \cup Enclosing(t)[t[m].parent]
  BY EnclosingNodes
<1>3. \A i \in 2 .. L : o[i] \in 1 .. m - 1 /\ Enclosing(t)[o[i]] = {o[j] : j \in 2 .. i - 1}
  BY DEF OnPath
<1> HIDE DEF L
<1>4. CASE L = 1
  <2>1. {o[j] : j \in 2 .. L} = {} /\ t[m].parent = 0
    BY <1>1, <1>4
  <2> QED
    BY <1>2, <2>1 DEF L
<1>5. CASE L > 1
  <2>1. L \in 2 .. L
    BY <1>1, <1>5
  <2>2. o[L] \in 1 .. m - 1 /\ Enclosing(t)[o[L]] = {o[j] : j \in 2 .. L - 1}
    BY <1>3, <2>1
  <2>3. o[L] # 0
    BY <2>2
  <2>4. Enclosing(t)[m] = {o[L]} \cup {o[j] : j \in 2 .. L - 1}
    BY <1>1, <1>2, <2>2, <2>3
  <2>5. \A j : j \in 2 .. L <=> j \in 2 .. L - 1 \/ j = L
    BY <1>1, <1>5
  <2>6. {o[j] : j \in 2 .. L} = {o[L]} \cup {o[j] : j \in 2 .. L - 1}
    BY <2>5
  <2> QED
    BY <2>4, <2>6 DEF L
<1> QED
  BY <1>1, <1>4, <1>5

LEMMA OnPathDescends ==
  ASSUME NEW t, IsTree(t), NEW o \in Seq(0 .. Len(t)), NEW m \in 1 .. Len(t),
         OnPath(t, o, m), t[m].parent = Last(o)
  PROVE  Append(o, m) \in Seq(0 .. Len(t)) /\ OnPath(t, Append(o, m), m + 1)
<1> DEFINE L == Len(o)
           p == Append(o, m)
<1>1. Len(t) \in Nat /\ L \in Nat /\ L >= 1 /\ o[1] = 0 /\ t[m].parent = o[L]
  BY TreeNodes, LenProperties DEF OnPath, Last
<1>2. p \in Seq(0 .. Len(t)) /\ Len(p) = L + 1 /\ p[L + 1] = m /\ \A i \in 1 .. L : p[i] = o[i]
  BY <1>1, AppendProperties
<1>3. \A i \in 2 .. L : /\ o[i] \in 1 .. m - 1 /\ t[o[i]].parent = o[i - 1]
                        /\ Enclosing(t)[o[i]] = {o[j] : j \in 2 .. i - 1}
  BY DEF OnPath
<1>4. Enclosing(t)[m] = {o[j] : j \in 2 .. L}
  BY AroundNext
<1> HIDE DEF L, p
<1>5. ASSUME NEW i \in 2 .. L + 1
      PROVE  {p[j] : j \in 2 .. i - 1} = {o[j] : j \in 2 .. i - 1}
  <2>1. \A j \in 2 .. i - 1 : j \in 1 .. L
    BY <1>1
  <2>2. \A j \in 2 .. i - 1 : p[j] = o[j]
    BY <1>2, <2>1
  <2> QED
    BY <2>2
<1>6. ASSUME NEW i \in 2 .. L + 1
      PROVE  /\ p[i] \in 1 .. m /\ t[p[i]].parent = p[i - 1]
             /\ Enclosing(t)[p[i]] = {p[j] : j \in 2 .. i - 1}
  <2>1. CASE i = L + 1
    <3>0. i - 1 = L /\ L \in 1 .. L
      BY <1>1, <2>1
    <3>1. p[i] = m /\ p[i - 1] = o[L] /\ i - 1 = L
      BY <1>2, <2>1, <3>0
    <3>2. p[i] \in 1 .. m /\ t[p[i]].parent = p[i - 1]
      BY <1>1, <3>1
    <3>3. Enclosing(t)[p[i]] = {p[j] : j \in 2 .. i - 1}
      BY <1>4, <1>5, <3>1
    <3> QED
      BY <3>2, <3>3
  <2>2. CASE i # L + 1
    <3>0. i \in 2 .. L /\ i \in 1 .. L /\ i - 1 \in 1 .. L
      BY <1>1, <2>2
    <3>1. i \in 2 .. L /\ p[i] = o[i] /\ p[i - 1] = o[i - 1]
      BY <1>2, <3>0
    <3>2. p[i] \in 1 .. m
      BY <1>3, <3>1
    <3> QED
      BY <1>3, <1>5, <3>1, <3>2
  <2> QED
    BY <2>1, <2>2
<1>7. m + 1 <= Len(t) => \E i \in 1 .. L + 1 : p[i] = t[m + 1].parent
  <2> SUFFICES ASSUME m + 1 <= Len(t) PROVE \E i \in 1 .. L + 1 : p[i] = t[m + 1].parent
    OBVIOUS
  <2>1. m + 1 \in 1 .. Len(t) /\ m + 1 > 1 /\ (m + 1) - 1 = m
    BY <1>1
  <2>2. t[m + 1].parent \in {0, m} \cup Enclosing(t)[m]
    BY <2>1, TreeNodes DEF IsTree
  <2>3. CASE t[m + 1].parent = 0
    <3>1. 1 \in 1 .. L + 1 /\ p[1] = 0
      BY <1>1, <1>2
    <3> QED
      BY <2>3, <3>1
  <2>4. CASE t[m + 1].parent = m
    <3>1. L + 1 \in 1 .. L + 1
      BY <1>1
    <3> QED
      BY <1>2, <2>4, <3>1
  <2>5. CASE t[m + 1].parent \in Enclosing(t)[m]
    <3>1. PICK j \in 2 .. L : t[m + 1].parent = o[j]
      BY <1>4, <2>5
    <3>2. j \in 1 .. L + 1 /\ p[j] = o[j]
      BY <1>1, <1>2
    <3> QED
      BY <3>1, <3>2
  <2> QED
    BY <2>2, <2>3, <2>4, <2>5
<1>8. (m + 1) - 1 = m /\ p[1] = 0 /\ L + 1 >= 1
  BY <1>1, <1>2
<1>9. OnPath(t, p, m + 1)
  BY <1>2, <1>6, <1>7, <1>8 DEF OnPath
<1> QED
  BY <1>2, <1>9 DEF p

\* A sequence without its last element.
LEMMA FrontProperties ==
  ASSUME NEW A, NEW s \in Seq(A), Len(s) >= 1
  PROVE  /\ Front(s) \in Seq(A) /\ Len(Front(s)) = Len(s) - 1
         /\ \A i \in 1 .. Len(s) - 1 : Front(s)[i] = s[i]
<1>1. Len(s) \in Nat /\ \A i \in 1 .. Len(s) - 1 : s[i] \in A
  BY LenProperties, ElementOfSeq
<1> DEFINE n == Len(s) - 1
<1>2. n \in Nat /\ \A i \in 1 .. n : s[i] \in A
  BY <1>1
<1> HIDE DEF n
<1>3. /\ SubSeq(s, 1, n) \in Seq(A)
      /\ Len(SubSeq(s, 1, n)) = IF 1 <= n THEN n - 1 + 1 ELSE 0
      /\ \A i \in 1 .. n - 1 + 1 : SubSeq(s, 1, n)[i] = s[1 + i - 1]
  BY <1>2, SubSeqProperties
<1>4. Len(SubSeq(s, 1, n)) = n /\ \A i \in 1 .. n : SubSeq(s, 1, n)[i] = s[i]
  BY <1>2, <1>3
<1> QED
  BY <1>3, <1>4 DEF Front, n

LEMMA OnPathLeaves ==
  ASSUME NEW t, IsTree(t), NEW o \in Seq(0 .. Len(t)), NEW m \in 1 .. Len(t) + 1,
         OnPath(t, o, m), m <= Len(t) => t[m].parent # Last(o), Len(o) > 1
  PROVE  Front(o) \in Seq(0 .. Len(t)) /\ OnPath(t, Front(o), m)
<1> DEFINE L == Len(o)
           p == Front(o)
<1>1. Len(t) \in Nat /\ L \in Nat /\ L > 1 /\ o[1] = 0
  BY TreeNodes, LenProperties DEF OnPath
<1>2. p \in Seq(0 .. Len(t)) /\ Len(p) = L - 1 /\ \A i \in 1 .. L - 1 : p[i] = o[i]
  BY <1>1, FrontProperties
<1>3. \A i \in 2 .. L : /\ o[i] \in 1 .. m - 1 /\ t[o[i]].parent = o[i - 1]
                        /\ Enclosing(t)[o[i]] = {o[j] : j \in 2 .. i - 1}
  BY DEF OnPath
<1>4. m <= Len(t) => (\E i \in 1 .. L : o[i] = t[m].parent) /\ t[m].parent # o[L]
  BY DEF OnPath, Last
<1> HIDE DEF L, p
<1>5. ASSUME NEW i \in 2 .. L - 1
      PROVE  /\ p[i] \in 1 .. m - 1 /\ t[p[i]].parent = p[i - 1]
             /\ Enclosing(t)[p[i]] = {p[j] : j \in 2 .. i - 1}
  <2>1. i \in 2 .. L /\ p[i] = o[i] /\ p[i - 1] = o[i - 1]
    BY <1>1, <1>2
  <2>2. \A j \in 2 .. i - 1 : p[j] = o[j]
    BY <1>1, <1>2
  <2>3. {p[j] : j \in 2 .. i - 1} = {o[j] : j \in 2 .. i - 1}
    BY <2>2
  <2> QED
    BY <1>3, <2>1, <2>3
<1>6. m <= Len(t) => \E i \in 1 .. L - 1 : p[i] = t[m].parent
  <2> SUFFICES ASSUME m <= Len(t) PROVE \E i \in 1 .. L - 1 : p[i] = t[m].parent
    OBVIOUS
  <2>1. PICK i \in 1 .. L : o[i] = t[m].parent
    BY <1>4
  <2>2. i # L
    BY <1>4, <2>1
  <2>3. i \in 1 .. L - 1
    BY <1>1, <2>2
  <2> QED
    BY <1>2, <2>1, <2>3
<1>7. L - 1 >= 1 /\ p[1] = 0
  BY <1>1, <1>2
<1>8. OnPath(t, p, m)
  BY <1>2, <1>5, <1>6, <1>7 DEF OnPath
<1> QED
  BY <1>2, <1>8 DEF p

\* Without a child of the module left, no node is left.
LEMMA OnPathEnds ==
  ASSUME NEW t, IsTree(t), NEW o, Len(o) = 1, NEW m \in 1 .. Len(t) + 1, OnPath(t, o, m),
         m <= Len(t) => t[m].parent # Last(o)
  PROVE  m = Len(t) + 1
<1>1. Len(t) \in Nat
  BY TreeNodes
<1>2. m <= Len(t) => FALSE
  BY DEF OnPath, Last
<1> QED
  BY <1>1, <1>2

\* The classes that the visitor is in, when it leaves a node and when it enters one.
LEMMA ClassesLeft ==
  ASSUME NEW t, IsTree(t), NEW o \in Seq(0 .. Len(t)), NEW m \in 1 .. Len(t) + 1,
         OnPath(t, o, m), Len(o) > 1
  PROVE  /\ Last(o) \in 1 .. Len(t)
         /\ \A n \in ClassesIn(t, Front(o)) : n \in 1 .. Last(o) - 1
         /\ ClassesIn(t, o) = IF t[Last(o)].type = "ClassDef"
                              THEN ClassesIn(t, Front(o)) \cup {Last(o)}
                              ELSE ClassesIn(t, Front(o))
<1> DEFINE L == Len(o)
           p == Front(o)
           I == {o[i] : i \in 2 .. L}
           J == {p[i] : i \in 2 .. Len(p)}
<1>1. Len(t) \in Nat /\ L \in Nat /\ L > 1
  BY TreeNodes, LenProperties
<1>2. Len(p) = L - 1 /\ \A i \in 1 .. L - 1 : p[i] = o[i]
  BY <1>1, FrontProperties
<1>3. o[L] \in 1 .. m - 1 /\ Enclosing(t)[o[L]] = {o[j] : j \in 2 .. L - 1}
  <2>1. L \in 2 .. L
    BY <1>1
  <2> QED
    BY <2>1 DEF OnPath
<1>4. o[L] \in 1 .. Len(t)
  <2> HIDE DEF L
  <2> QED
    BY <1>1, <1>3
<1>5. \A j \in 2 .. L - 1 : o[j] \in 1 .. o[L] - 1
  <2>1. \A k \in Enclosing(t)[o[L]] : k \in 1 .. o[L] - 1
    BY <1>4, EnclosingNodes
  <2> QED
    BY <1>3, <2>1
<1>6. /\ \A j \in 2 .. L - 1 : j \in 1 .. L - 1
      /\ \A j : j \in 2 .. L <=> j \in 2 .. L - 1 \/ j = L
  <2> HIDE DEF L
  <2> QED
    BY <1>1
<1> HIDE DEF L, p
<1>7. J = {o[j] : j \in 2 .. L - 1}
  BY <1>2, <1>6
<1>8. I = J \cup {o[L]}
  BY <1>6, <1>7
<1>9. \A n \in J : n \in 1 .. o[L] - 1
  BY <1>5, <1>7
<1>10. /\ Last(o) = o[L]
       /\ \A q : ClassesIn(t, q) = {n \in {q[i] : i \in 2 .. Len(q)} : t[n].type = "ClassDef"}
  BY DEF Last, ClassesIn, L
<1>11. /\ ClassesIn(t, o) = {n \in I : t[n].type = "ClassDef"}
       /\ ClassesIn(t, p) = {n \in J : t[n].type = "ClassDef"}
  BY <1>10 DEF L
<1> HIDE DEF I, J
<1>12. \A n \in ClassesIn(t, p) : n \in 1 .. o[L] - 1
  BY <1>9, <1>11
<1>13. ClassesIn(t, o) = IF t[o[L]].type = "ClassDef" THEN ClassesIn(t, p) \cup {o[L]} ELSE ClassesIn(t, p)
  BY <1>8, <1>11
<1> QED
  BY <1>4, <1>10, <1>12, <1>13 DEF p

LEMMA ClassesEntered ==
  ASSUME NEW t, IsTree(t), NEW o \in Seq(0 .. Len(t)), NEW m \in 1 .. Len(t), OnPath(t, o, m)
  PROVE  /\ \A n \in ClassesIn(t, o) : n \in 1 .. m - 1
         /\ ClassesIn(t, Append(o, m)) = IF t[m].type = "ClassDef" THEN ClassesIn(t, o) \cup {m}
                                         ELSE ClassesIn(t, o)
<1> DEFINE L == Len(o)
           p == Append(o, m)
           I == {o[i] : i \in 2 .. L}
           J == {p[i] : i \in 2 .. Len(p)}
<1>1. Len(t) \in Nat /\ L \in Nat /\ L >= 1 /\ m \in 0 .. Len(t)
  BY TreeNodes, LenProperties DEF OnPath
<1>2. Len(p) = L + 1 /\ p[L + 1] = m /\ \A i \in 1 .. L : p[i] = o[i]
  BY <1>1, AppendProperties
<1>3. \A i \in 2 .. L : o[i] \in 1 .. m - 1
  BY DEF OnPath
<1>4. /\ \A j \in 2 .. L : j \in 1 .. L
      /\ \A j : j \in 2 .. L + 1 <=> j \in 2 .. L \/ j = L + 1
  <2> HIDE DEF L
  <2> QED
    BY <1>1
<1>5. /\ ClassesIn(t, o) = {n \in I : t[n].type = "ClassDef"}
      /\ ClassesIn(t, p) = {n \in J : t[n].type = "ClassDef"}
  BY DEF ClassesIn
<1> HIDE DEF L, p
<1>6. J = I \cup {m}
  BY <1>2, <1>4
<1>7. \A n \in I : n \in 1 .. m - 1
  BY <1>3
<1> HIDE DEF I, J
<1>8. \A n \in ClassesIn(t, o) : n \in 1 .. m - 1
  BY <1>5, <1>7
<1>9. ClassesIn(t, p) = IF t[m].type = "ClassDef" THEN ClassesIn(t, o) \cup {m} ELSE ClassesIn(t, o)
  BY <1>5, <1>6
<1> QED
  BY <1>8, <1>9 DEF p

\* The stack of names grows and shrinks with the set of classes.
LEMMA NamesGrow ==
  ASSUME NEW t, IsTree(t), NEW m \in 1 .. Len(t), NEW S, Before(S, m)
  PROVE  /\ NamesOf(t, S \cup {m}) = Append(NamesOf(t, S), t[m].name)
         /\ NamesOf(t, S \cup {m}) # <<>>
         /\ Last(NamesOf(t, S \cup {m})) = t[m].name
         /\ Front(NamesOf(t, S \cup {m})) = NamesOf(t, S)
<1> DEFINE o == Nodes(t, S)
           p == Nodes(t, S \cup {m})
           a == NamesOf(t, S)
           b == NamesOf(t, S \cup {m})
<1>1. /\ Len(t) \in Nat /\ DOMAIN t = 1 .. Len(t) /\ m \in Nat /\ t[m] \in Node
      /\ \A n \in S : n \in 1 .. Len(t)
  BY TreeNodes DEF Before
<1>2. p = Append(o, m)
  <2>1. InOrder(Len(t), S \cup {m}) = Append(InOrder(Len(t), S), m)
    BY <1>1, InOrderGrows
  <2> QED
    BY <2>1 DEF Nodes
<1>3. /\ o \in Seq(Nat) /\ Len(o) \in Nat /\ DOMAIN o = 1 .. Len(o)
      /\ \A i \in 1 .. Len(o) : o[i] \in 1 .. Len(t)
  BY <1>1, NodesOfTree DEF Ascends
<1> HIDE DEF o, p
<1>4. /\ p \in Seq(Nat) /\ Len(p) = Len(o) + 1 /\ p[Len(o) + 1] = m
      /\ \A i \in 1 .. Len(o) : p[i] = o[i]
  BY <1>1, <1>2, <1>3, AppendProperties
<1>5. DOMAIN p = 1 .. Len(o) + 1
  BY <1>4, LenProperties
<1>6. a = [i \in 1 .. Len(o) |-> t[o[i]].name] /\ b = [i \in 1 .. Len(o) + 1 |-> t[p[i]].name]
  BY <1>3, <1>5 DEF NamesOf, o, p
<1> HIDE DEF a, b
<1>7. a \in Seq(STRING) /\ Len(a) = Len(o)
  <2>1. \A i \in 1 .. Len(o) : t[o[i]].name \in STRING
    BY <1>3, TreeNodes, NodeFields
  <2>2. a \in [1 .. Len(o) -> STRING]
    BY <1>6, <2>1
  <2> QED
    BY <1>3, <2>2, FunctionIsSequence
<1>8. b \in Seq(STRING) /\ Len(b) = Len(o) + 1 /\ b[Len(o) + 1] = t[m].name
      /\ \A i \in 1 .. Len(o) : b[i] = a[i]
  <2>1. t[m].name \in STRING
    BY <1>1, NodeFields
  <2>2. \A i \in 1 .. Len(o) : i \in 1 .. Len(o) + 1 /\ b[i] = a[i] /\ a[i] \in STRING
    <3>1. \A i \in 1 .. Len(o) : i \in 1 .. Len(o) + 1
      BY <1>3
    <3>2. \A i \in 1 .. Len(o) : a[i] \in STRING
      BY <1>7, ElementOfSeq
    <3> QED
      BY <1>4, <1>6, <3>1, <3>2
  <2>3. b[Len(o) + 1] = t[m].name
    <3>1. Len(o) + 1 \in 1 .. Len(o) + 1
      BY <1>3
    <3> QED
      BY <1>4, <1>6, <3>1
  <2>4. \A i \in 1 .. Len(o) + 1 : b[i] \in STRING
    <3>1. \A i \in 1 .. Len(o) + 1 : i \in 1 .. Len(o) \/ i = Len(o) + 1
      BY <1>3
    <3> QED
      BY <2>1, <2>2, <2>3, <3>1
  <2>5. b \in [1 .. Len(o) + 1 -> STRING]
    BY <1>6, <2>4
  <2>6. Len(o) + 1 \in Nat
    BY <1>3
  <2>7. b \in Seq(STRING) /\ Len(b) = Len(o) + 1
    BY <2>5, <2>6, FunctionIsSequence
  <2> QED
    BY <2>2, <2>3, <2>7
<1>9. b = Append(a, t[m].name)
  <2> DEFINE c == Append(a, t[m].name)
  <2>1. t[m].name \in STRING
    BY <1>1, NodeFields
  <2>2. /\ c \in Seq(STRING) /\ Len(c) = Len(o) + 1 /\ c[Len(o) + 1] = t[m].name
        /\ \A i \in 1 .. Len(o) : c[i] = a[i]
    BY <1>7, <2>1, AppendProperties
  <2> HIDE DEF c
  <2>3. \A i \in 1 .. Len(o) + 1 : b[i] = c[i]
    <3>1. \A i \in 1 .. Len(o) + 1 : i \in 1 .. Len(o) \/ i = Len(o) + 1
      BY <1>3
    <3> QED
      BY <1>8, <2>2, <3>1
  <2>4. b = c
    BY <1>8, <2>2, <2>3, SeqEqual
  <2> QED
    BY <2>4 DEF c
<1>10. b # <<>> /\ Last(b) = t[m].name
  BY <1>3, <1>8, EmptySeq DEF Last
<1>11. Front(b) = a
  <2>1. Len(b) >= 1 /\ Len(b) - 1 = Len(o)
    BY <1>3, <1>8
  <2>2. /\ Front(b) \in Seq(STRING) /\ Len(Front(b)) = Len(o)
        /\ \A i \in 1 .. Len(o) : Front(b)[i] = b[i]
    BY <1>8, <2>1, FrontProperties
  <2>3. \A i \in 1 .. Len(o) : Front(b)[i] = a[i]
    BY <1>8, <2>2
  <2> QED
    BY <1>7, <2>2, <2>3, SeqEqual
<1> QED
  BY <1>9, <1>10, <1>11 DEF a, b

LEMMA NamesEmpty ==
  ASSUME NEW t, IsTree(t)
  PROVE  NamesOf(t, {}) = <<>>
<1>1. Nodes(t, {}) = <<>>
  BY TreeNodes, InOrderEmpty DEF Nodes
<1> QED
  BY <1>1 DEF NamesOf

\* A Python function belongs to the innermost class around it.
LEMMA PythonFacts ==
  ASSUME NEW t, IsTreeOf("Python", t), NEW n \in 1 .. Len(t),
         t[n].type \in FunctionTypes("Python")
  PROVE  Owner("Python", t, n) = Innermost("Python", t, n)
<1>1. n \in DOMAIN t
  BY TreeNodes DEF IsTreeOf
<1>2. "Python" \notin {"C", "C++"} /\ "Python" # "Go"
  OBVIOUS
<1>3. t[n].scope = ""
  BY <1>1, <1>2 DEF IsTreeOf, IsRead
<1>4. t[n].type # "function_declaration"
  BY DEF FunctionTypes
<1> QED
  BY <1>3, <1>4, OwnerIsInnermost

\* The class that is innermost around a node.
LEMMA InnermostName ==
  ASSUME NEW t, NEW n, NEW S, S = {m \in Enclosing(t)[n] : t[m].type \in ClassTypes("Python")},
         S \subseteq Nat
  PROVE  /\ S = {} => Innermost("Python", t, n) = None
         /\ \A k \in S : (\A o \in S : o <= k) => Innermost("Python", t, n) = t[k].name
<1> DEFINE inner == CHOOSE k \in S : \A o \in S : o <= k
<1>1. Innermost("Python", t, n) = IF S = {} THEN None ELSE t[inner].name
  <2> DEFINE around == {m \in Enclosing(t)[n] : t[m].type \in ClassTypes("Python")}
             last == CHOOSE k \in around : \A o \in around : o <= k
  <2>1. Innermost("Python", t, n) = IF around = {} THEN None ELSE t[last].name
    BY DEF Innermost, IsAnonymous
  <2>2. around = S
    OBVIOUS
  <2> HIDE DEF around
  <2>3. last = inner
    BY <2>2
  <2> HIDE DEF last, inner
  <2> QED
    BY <2>1, <2>2, <2>3
<1>2. ASSUME NEW k \in S, \A o \in S : o <= k
      PROVE  inner = k
  <2>1. inner \in S /\ \A o \in S : o <= inner
    BY <1>2
  <2> HIDE DEF inner
  <2>2. inner <= k /\ k <= inner /\ inner \in Nat /\ k \in Nat
    BY <1>2, <2>1
  <2> QED
    BY <2>2
<1> HIDE DEF inner
<1> QED
  BY <1>1, <1>2

\* The last name of a set of classes is that of the innermost.
LEMMA InnermostIsLast ==
  ASSUME NEW t, IsTree(t), NEW n, NEW S,
         S = {m \in Enclosing(t)[n] : t[m].type \in ClassTypes("Python")},
         \A m \in S : m \in 1 .. Len(t)
  PROVE  Innermost("Python", t, n) = IF NamesOf(t, S) = <<>> THEN None ELSE Last(NamesOf(t, S))
<1>1. Len(t) \in Nat
  BY TreeNodes
<1>2. S \subseteq Nat
  BY <1>1
<1>3. CASE S = {}
  BY <1>2, <1>3, InnermostName, NamesEmpty
<1>4. CASE S # {}
  <2>1. PICK inner \in S : \A l \in S : l <= inner
    BY <1>1, <1>4, GreatestElement
  <2> DEFINE R == S \ {inner}
  <2>2. \A m \in R : m \in 1 .. inner - 1
    BY <1>1, <2>1
  <2>3. R \cup {inner} = S
    OBVIOUS
  <2>4. inner \in 1 .. Len(t)
    OBVIOUS
  <2> HIDE DEF R
  <2>b. Before(R, inner)
    BY <2>2 DEF Before
  <2>5. NamesOf(t, R \cup {inner}) # <<>> /\ Last(NamesOf(t, R \cup {inner})) = t[inner].name
    BY <2>4, <2>b, NamesGrow
  <2>6. NamesOf(t, S) # <<>> /\ Last(NamesOf(t, S)) = t[inner].name
    BY <2>3, <2>5
  <2>7. Innermost("Python", t, n) = t[inner].name
    BY <1>2, <2>1, InnermostName
  <2> QED
    BY <2>6, <2>7
<1> QED
  BY <1>3, <1>4

\* The last name on the stack is that of the class around a function.
LEMMA OwnerOnStack ==
  ASSUME NEW t, IsTreeOf("Python", t), NEW o \in Seq(0 .. Len(t)), NEW m \in 1 .. Len(t),
         OnPath(t, o, m), t[m].parent = Last(o), t[m].type \in FunctionTypes("Python")
  PROVE  LET stack == NamesOf(t, ClassesIn(t, o))
         IN  Owner("Python", t, m) = IF stack = <<>> THEN None ELSE Last(stack)
<1> DEFINE S == ClassesIn(t, o)
<1>1. IsTree(t) /\ Len(t) \in Nat
  BY TreeNodes DEF IsTreeOf
<1>2. S = {k \in Enclosing(t)[m] : t[k].type \in ClassTypes("Python")}
  <2>1. Enclosing(t)[m] = {o[j] : j \in 2 .. Len(o)}
    BY <1>1, AroundNext
  <2>2. ClassTypes("Python") = {"ClassDef"}
    BY DEF ClassTypes
  <2> QED
    BY <2>1, <2>2 DEF ClassesIn
<1>3. \A n \in S : n \in 1 .. m - 1
  BY <1>1, ClassesEntered
<1>4. Owner("Python", t, m) = Innermost("Python", t, m)
  BY PythonFacts
<1> HIDE DEF S
<1>5. \A n \in S : n \in 1 .. Len(t)
  BY <1>1, <1>3
<1>6. Innermost("Python", t, m) = IF NamesOf(t, S) = <<>> THEN None ELSE Last(NamesOf(t, S))
  BY <1>1, <1>2, <1>5, InnermostIsLast
<1> QED
  BY <1>4, <1>6 DEF S

\* What the ast of a Python file declares.
LEMMA PythonDeclares ==
  ASSUME NEW t, IsTreeOf("Python", t), NEW n \in 1 .. Len(t)
  PROVE  /\ DeclaresClass("Python", t, n) <=> t[n].type = "ClassDef"
         /\ DeclaresFunction("Python", t, n) <=> t[n].type \in FunctionTypes("Python")
<1>1. /\ ClassTypes("Python") = {"ClassDef"}
      /\ FunctionTypes("Python") = {"FunctionDef", "AsyncFunctionDef"}
  BY DEF ClassTypes, FunctionTypes
<1>2. DeclaresClass("Python", t, n) <=> t[n].type = "ClassDef"
  BY <1>1 DEF DeclaresClass, IsAnonymous
<1>3. DeclaresFunction("Python", t, n) <=> t[n].type \in FunctionTypes("Python")
  BY <1>1 DEF DeclaresFunction
<1> QED
  BY <1>2, <1>3

\* What the nodes before the next one declare, when that one is passed.
LEMMA BeforeGrows ==
  ASSUME NEW t, IsTreeOf("Python", t), NEW m \in 1 .. Len(t)
  PROVE  /\ ClassesBefore(t, m + 1) =
              IF t[m].type = "ClassDef" THEN ClassesBefore(t, m) \cup {m} ELSE ClassesBefore(t, m)
         /\ FunctionsBefore(t, m + 1) =
              IF t[m].type \in FunctionTypes("Python") THEN FunctionsBefore(t, m) \cup {m}
              ELSE FunctionsBefore(t, m)
         /\ \A n \in ClassesBefore(t, m) : n \in 1 .. m - 1
         /\ \A n \in FunctionsBefore(t, m) : n \in 1 .. m - 1
<1>1. Len(t) \in Nat
  BY TreeNodes DEF IsTreeOf
<1>2. /\ DeclaresClass("Python", t, m) <=> t[m].type = "ClassDef"
      /\ DeclaresFunction("Python", t, m) <=> t[m].type \in FunctionTypes("Python")
  BY PythonDeclares
<1>3. \A n : n \in 1 .. (m + 1) - 1 <=> n \in 1 .. m - 1 \/ n = m
  BY <1>1
<1>4. \A n : n \in ClassesBefore(t, m + 1) <=>
               n \in ClassesBefore(t, m) \/ (n = m /\ t[m].type = "ClassDef")
  BY <1>2, <1>3 DEF ClassesBefore
<1>5. \A n : n \in FunctionsBefore(t, m + 1) <=>
               n \in FunctionsBefore(t, m) \/ (n = m /\ t[m].type \in FunctionTypes("Python"))
  BY <1>2, <1>3 DEF FunctionsBefore
<1>6. /\ \A n \in ClassesBefore(t, m) : n \in 1 .. m - 1
      /\ \A n \in FunctionsBefore(t, m) : n \in 1 .. m - 1
  BY DEF ClassesBefore, FunctionsBefore
<1>7. ClassesBefore(t, m + 1) =
        IF t[m].type = "ClassDef" THEN ClassesBefore(t, m) \cup {m} ELSE ClassesBefore(t, m)
  BY <1>4
<1>8. FunctionsBefore(t, m + 1) =
        IF t[m].type \in FunctionTypes("Python") THEN FunctionsBefore(t, m) \cup {m}
        ELSE FunctionsBefore(t, m)
  BY <1>5
<1> QED
  BY <1>6, <1>7, <1>8

\* A class more, and a function more.
LEMMA AtGrows ==
  ASSUME NEW t, IsTree(t), NEW m \in 1 .. Len(t), NEW S, \A n \in S : n \in 1 .. m - 1,
         NEW s \in Seq(ClassSet), At(s) = Nodes(t, S), NEW c \in ClassSet, c.at = m
  PROVE  Append(s, c) \in Seq(ClassSet) /\ At(Append(s, c)) = Nodes(t, S \cup {m})
<1> DEFINE r == Append(s, c)
           L == Len(s)
<1>1. Len(t) \in Nat /\ L \in Nat /\ m \in Nat
  BY TreeNodes, LenProperties
<1>2. r \in Seq(ClassSet) /\ Len(r) = L + 1 /\ r[L + 1] = c /\ \A i \in 1 .. L : r[i] = s[i]
  BY <1>1, AppendProperties
<1>3. Nodes(t, S \cup {m}) = Append(Nodes(t, S), m)
  <2>1. Before(S, m)
    BY DEF Before
  <2>2. InOrder(Len(t), S \cup {m}) = Append(InOrder(Len(t), S), m)
    BY <1>1, <2>1, InOrderGrows
  <2> QED
    BY <2>2 DEF Nodes
<1>4. DOMAIN s = 1 .. L /\ \A i \in 1 .. L : s[i] \in ClassSet
  BY LenProperties, ElementOfSeq
<1> HIDE DEF r, L
<1>5. DOMAIN r = 1 .. L + 1
  BY <1>2, LenProperties
<1>6. \A i \in 1 .. L : s[i].at \in Nat
  BY <1>4 DEF ClassSet
<1>7. At(s) = [i \in 1 .. L |-> s[i].at] /\ At(r) = [i \in 1 .. L + 1 |-> r[i].at]
  BY <1>4, <1>5 DEF At
<1> DEFINE a == At(s)
           b == At(r)
           d == Append(a, m)
<1>8. a \in [1 .. L -> Nat]
  BY <1>6, <1>7
<1>9. a \in Seq(Nat) /\ Len(a) = L /\ \A i \in 1 .. L : a[i] = s[i].at
  BY <1>1, <1>7, <1>8, FunctionIsSequence
<1> HIDE DEF a
<1>10. d \in Seq(Nat) /\ Len(d) = L + 1 /\ d[L + 1] = m /\ \A i \in 1 .. L : d[i] = a[i]
  BY <1>1, <1>9, AppendProperties
<1>11. \A i \in 1 .. L : i \in 1 .. L + 1
  BY <1>1
<1>12. L + 1 \in 1 .. L + 1 /\ L + 1 \in Nat /\ \A i \in 1 .. L + 1 : i \in 1 .. L \/ i = L + 1
  BY <1>1
<1>13. b[L + 1] = m /\ \A i \in 1 .. L : b[i] = a[i]
  <2>1. \A i \in 1 .. L + 1 : b[i] = r[i].at
    BY <1>7
  <2>2. b[L + 1] = m
    <3>1. b[L + 1] = r[L + 1].at
      BY <1>12, <2>1
    <3> QED
      BY <1>2, <3>1
  <2>3. \A i \in 1 .. L : b[i] = a[i]
    <3> SUFFICES ASSUME NEW i \in 1 .. L PROVE b[i] = a[i]
      OBVIOUS
    <3>1. b[i] = r[i].at /\ r[i] = s[i] /\ a[i] = s[i].at
      BY <1>2, <1>9, <1>11, <2>1
    <3> QED
      BY <3>1
  <2> QED
    BY <2>2, <2>3
<1>14. \A i \in 1 .. L + 1 : b[i] = d[i] /\ b[i] \in Nat
  BY <1>1, <1>6, <1>9, <1>10, <1>12, <1>13
<1>15. b = [i \in 1 .. L + 1 |-> b[i]]
  BY <1>7
<1> HIDE DEF b, d
<1>16. b \in [1 .. L + 1 -> Nat]
  BY <1>14, <1>15
<1>17. b \in Seq(Nat) /\ Len(b) = L + 1
  BY <1>12, <1>16, FunctionIsSequence
<1>18. b = d
  BY <1>10, <1>14, <1>17, SeqEqual
<1> QED
  BY <1>2, <1>3, <1>18 DEF a, b, d, r

LEMMA ListsGrows ==
  ASSUME NEW e, NEW A, NEW s, NEW S, Lists(s, S, e, A), NEW m, m \notin S, e[m] \in A, e[m].at = m
  PROVE  Lists(Append(s, e[m]), S \cup {m}, e, A)
<1> DEFINE f == e[m]
           r == Append(s, f)
           L == Len(s)
<1>1. s \in Seq(A) /\ L \in Nat
  BY LenProperties DEF Lists
<1>2. r \in Seq(A) /\ Len(r) = L + 1 /\ r[L + 1] = f /\ \A i \in 1 .. L : r[i] = s[i]
  BY <1>1, AppendProperties
<1>3. /\ \A i \in 1 .. L : s[i].at \in S /\ s[i] = e[s[i].at]
      /\ \A i, j \in 1 .. L : s[i].at = s[j].at => i = j
      /\ \A n \in S : \E i \in 1 .. L : s[i].at = n
  BY DEF Lists
<1>4. f.at = m /\ e[f.at] = f
  OBVIOUS
<1> HIDE DEF r, L, f
<1>5. /\ L + 1 \in 1 .. L + 1
      /\ \A i \in 1 .. L : i \in 1 .. L + 1
      /\ \A i \in 1 .. L + 1 : i \in 1 .. L \/ i = L + 1
  BY <1>1
<1>6. \A i \in 1 .. L + 1 : r[i].at \in S \cup {m} /\ r[i] = e[r[i].at]
  BY <1>2, <1>3, <1>4, <1>5
<1>7. \A i, j \in 1 .. L + 1 : r[i].at = r[j].at => i = j
  BY <1>2, <1>3, <1>4, <1>5
<1>8. \A n \in S \cup {m} : \E i \in 1 .. L + 1 : r[i].at = n
  BY <1>2, <1>3, <1>4, <1>5
<1>9. Lists(r, S \cup {m}, e, A)
  BY <1>2, <1>6, <1>7, <1>8 DEF Lists
<1> QED
  BY <1>9 DEF r, f

\* The entity of a function is of its node, and of its owner.
LEMMA PythonFunctionTyped ==
  ASSUME NEW t, IsTree(t), NEW n \in 1 .. Len(t)
  PROVE  PythonFunction(t)[n] \in FunctionSymbol /\ PythonFunction(t)[n].at = n
         /\ PythonFunction(t)[n].parent_class = Owner("Python", t, n)
<1>1. n \in DOMAIN t /\ n \in Nat /\ t[n] \in Node
  BY TreeNodes
<1>2. t[n].name \in STRING /\ Owner("Python", t, n) \in ClassNames
  BY <1>1, NodeFields, OwnerTyped
<1>3. PythonFunction(t)[n] = [name |-> t[n].name, at |-> n, parent_class |-> Owner("Python", t, n),
                              is_method |-> Owner("Python", t, n) # None]
  BY <1>1 DEF PythonFunction, FunctionEntity
<1>4. PythonFunction(t)[n] \in FunctionSymbol
  BY <1>1, <1>2, <1>3, EntityTyped
<1> QED
  BY <1>3, <1>4

\* The record of a visit: as it starts, and after a class, a function or another node.
LEMMA RecordedStarts ==
  ASSUME NEW t, IsTree(t)
  PROVE  Recorded(t, 1, <<>>, <<>>)
<1>1. 1 .. 1 - 1 = {}
  OBVIOUS
<1>2. ClassesBefore(t, 1) = {} /\ FunctionsBefore(t, 1) = {}
  BY <1>1 DEF ClassesBefore, FunctionsBefore
<1>3. Nodes(t, {}) = <<>>
  BY TreeNodes, InOrderEmpty DEF Nodes
<1>4. At(<<>>) = <<>>
  BY DEF At
<1> QED
  BY <1>2, <1>3, <1>4, ListsEmpty DEF Recorded

LEMMA RecordedClass ==
  ASSUME NEW t, IsTreeOf("Python", t), NEW m \in 1 .. Len(t), t[m].type = "ClassDef",
         NEW classes \in Seq(ClassSet), NEW functions, Recorded(t, m, classes, functions),
         NEW c \in ClassSet, c.at = m
  PROVE  Append(classes, c) \in Seq(ClassSet) /\ Recorded(t, m + 1, Append(classes, c), functions)
<1>1. IsTree(t)
  BY DEF IsTreeOf
<1>2. t[m].type \notin FunctionTypes("Python")
  BY DEF FunctionTypes
<1>3. /\ ClassesBefore(t, m + 1) = ClassesBefore(t, m) \cup {m}
      /\ FunctionsBefore(t, m + 1) = FunctionsBefore(t, m)
      /\ \A n \in ClassesBefore(t, m) : n \in 1 .. m - 1
  BY <1>2, BeforeGrows
<1>4. At(classes) = Nodes(t, ClassesBefore(t, m))
  BY DEF Recorded
<1>5. /\ Append(classes, c) \in Seq(ClassSet)
      /\ At(Append(classes, c)) = Nodes(t, ClassesBefore(t, m) \cup {m})
  BY <1>1, <1>3, <1>4, AtGrows
<1> QED
  BY <1>3, <1>5 DEF Recorded

LEMMA RecordedFunction ==
  ASSUME NEW t, IsTreeOf("Python", t), NEW m \in 1 .. Len(t), t[m].type \in FunctionTypes("Python"),
         NEW classes, NEW functions, Recorded(t, m, classes, functions)
  PROVE  Recorded(t, m + 1, classes, Append(functions, PythonFunction(t)[m]))
<1>1. IsTree(t) /\ Len(t) \in Nat
  BY TreeNodes DEF IsTreeOf
<1>2. t[m].type # "ClassDef"
  BY DEF FunctionTypes
<1>3. /\ ClassesBefore(t, m + 1) = ClassesBefore(t, m)
      /\ FunctionsBefore(t, m + 1) = FunctionsBefore(t, m) \cup {m}
      /\ \A n \in FunctionsBefore(t, m) : n \in 1 .. m - 1
  BY <1>2, BeforeGrows
<1>4. m \notin FunctionsBefore(t, m)
  BY <1>1, <1>3
<1>5. PythonFunction(t)[m] \in FunctionSymbol /\ PythonFunction(t)[m].at = m
  BY <1>1, PythonFunctionTyped
<1>6. Lists(functions, FunctionsBefore(t, m), PythonFunction(t), FunctionSymbol)
  BY DEF Recorded
<1>7. Lists(Append(functions, PythonFunction(t)[m]), FunctionsBefore(t, m) \cup {m}, PythonFunction(t), FunctionSymbol)
  BY <1>4, <1>5, <1>6, ListsGrows
<1> QED
  BY <1>3, <1>7 DEF Recorded

LEMMA RecordedOther ==
  ASSUME NEW t, IsTreeOf("Python", t), NEW m \in 1 .. Len(t),
         t[m].type # "ClassDef", t[m].type \notin FunctionTypes("Python"),
         NEW classes, NEW functions, Recorded(t, m, classes, functions)
  PROVE  Recorded(t, m + 1, classes, functions)
BY BeforeGrows DEF Recorded

\* When there is no next node, what the file declares has been recorded.
LEMMA RecordedEnds ==
  ASSUME NEW t, IsTreeOf("Python", t), NEW symbols,
         Recorded(t, Len(t) + 1, symbols.classes, symbols.functions)
  PROVE  Describes(symbols, "Python", t)
<1>1. IsTree(t) /\ Len(t) \in Nat /\ DOMAIN t = 1 .. Len(t)
  BY TreeNodes DEF IsTreeOf
<1>2. 1 .. (Len(t) + 1) - 1 = DOMAIN t
  BY <1>1
<1> DEFINE C == {n \in DOMAIN t : DeclaresClass("Python", t, n)}
           F == {n \in DOMAIN t : DeclaresFunction("Python", t, n)}
<1>3. ClassesBefore(t, Len(t) + 1) = C /\ FunctionsBefore(t, Len(t) + 1) = F
  BY <1>2 DEF ClassesBefore, FunctionsBefore
<1>4. /\ At(symbols.classes) = Nodes(t, C)
      /\ Lists(symbols.functions, F, PythonFunction(t), FunctionSymbol)
  <2> HIDE DEF C, F
  <2> QED
    BY <1>3 DEF Recorded
<1>5. \A n \in DOMAIN t : DeclaresFunction("Python", t, n) =>
        PythonFunction(t)[n].parent_class = Owner("Python", t, n)
  BY <1>1, PythonFunctionTyped
<1> QED
  BY <1>4, <1>5, Described

(* The files. *)

\* A listing: its files are all different.
IsListing(l) ==
  l \in Seq(ListedFile) /\ \A i, j \in DOMAIN l : l[i].path = l[j].path => i = j

IsSource(f) == f.category = "source"

\* Paths of the files at the positions in S, and of the parsed ones.
PathsAt(l, S) == [i \in DOMAIN InOrder(Len(l), S) |-> l[InOrder(Len(l), S)[i]].path]

ParsedPaths(s) == [i \in DOMAIN s |-> s[i].path]

\* Positions of the source files, the parsed and the unreadable ones, before m.
SourcesBefore(l, m) == {i \in DOMAIN l : i < m /\ IsSource(l[i])}

SupportedBefore(l, m) == {i \in DOMAIN l : i < m /\ IsParsed(l[i])}

UnreadableBefore(l, m, e) == {i \in DOMAIN l : i < m /\ IsSource(l[i]) /\ l[i].path \in Range(e)}

\* FilesAreAccountedFor, of the paths that are recorded.
Filed(l, m, p, s, e) ==
  /\ p = PathsAt(l, SupportedBefore(l, m) \ UnreadableBefore(l, m, e))
  /\ s = PathsAt(l, SourcesBefore(l, m) \ SupportedBefore(l, m))
  /\ e = PathsAt(l, UnreadableBefore(l, m, e))

\* What cannot be read has been gone; what is wrong has been so.
Unreadable == \A p \in Range(errors) : Gone \in seen[p]

Failed ==
  \A p \in Range(parsed) : p.failed =>
    \E c \in seen[p.path] \ {Gone} :
      ~ c.correct \/ ~ c.decodes \/ Depth(c.tree) > MaxDepth

\* FilesAreAccountedFor, in terms of the definitions above.
LEMMA AccountedFor ==
  FilesAreAccountedFor <=>
    Filed(listing, position, ParsedPaths(parsed), skipped, errors) /\ Unreadable /\ Failed
<1> DEFINE done == {i \in DOMAIN listing : i < position /\ listing[i].category = "source"}
           supported == {i \in done : listing[i].language \in SUPPORTED_LANGUAGES}
           unreadable == {i \in done : listing[i].path \in Range(errors)}
<1>1. done = SourcesBefore(listing, position)
  BY DEF SourcesBefore, IsSource
<1>2. supported = SupportedBefore(listing, position)
  BY DEF SupportedBefore, IsParsed
<1>3. unreadable = UnreadableBefore(listing, position, errors)
  BY DEF UnreadableBefore, IsSource
<1>4. FilesAreAccountedFor <=>
        /\ ParsedPaths(parsed) = PathsAt(listing, supported \ unreadable)
        /\ skipped = PathsAt(listing, done \ supported)
        /\ errors = PathsAt(listing, unreadable)
        /\ Unreadable /\ Failed
  BY DEF FilesAreAccountedFor, Each, ParsedPaths, PathsAt, Unreadable, Failed
<1> HIDE DEF done, supported, unreadable
<1> QED
  BY <1>1, <1>2, <1>3, <1>4 DEF Filed

LEMMA ListingFiles ==
  ASSUME NEW l, IsListing(l)
  PROVE  /\ Len(l) \in Nat /\ DOMAIN l = 1 .. Len(l)
         /\ \A i \in 1 .. Len(l) : l[i] \in ListedFile /\ l[i].path \in Path
         /\ \A i, j \in 1 .. Len(l) : l[i].path = l[j].path => i = j
<1>1. l \in Seq(ListedFile) /\ \A i, j \in DOMAIN l : l[i].path = l[j].path => i = j
  BY DEF IsListing
<1>2. Len(l) \in Nat /\ DOMAIN l = 1 .. Len(l) /\ \A i \in 1 .. Len(l) : l[i] \in ListedFile
  BY <1>1, LenProperties, ElementOfSeq
<1>3. \A f \in ListedFile : f.path \in Path
  BY DEF ListedFile
<1> QED
  BY <1>1, <1>2, <1>3

\* The paths at some positions: those of the positions, in order; one more for a larger one.
LEMMA PathsListed ==
  ASSUME NEW l, IsListing(l), NEW S, \A n \in S : n \in 1 .. Len(l)
  PROVE  /\ PathsAt(l, S) \in Seq(Path) /\ Len(PathsAt(l, S)) = Len(InOrder(Len(l), S))
         /\ \A i \in 1 .. Len(PathsAt(l, S)) : PathsAt(l, S)[i] = l[InOrder(Len(l), S)[i]].path
         /\ Range(PathsAt(l, S)) = {l[i].path : i \in S}
<1> DEFINE o == InOrder(Len(l), S)
           p == PathsAt(l, S)
<1>1. Len(l) \in Nat /\ S \cap (1 .. Len(l)) = S /\ \A i \in 1 .. Len(l) : l[i].path \in Path
  BY ListingFiles
<1>2. Ascends(o, S)
  BY <1>1, InOrderAscends
<1>3. p = [i \in DOMAIN o |-> l[o[i]].path]
  BY DEF PathsAt
<1> HIDE DEF o, p
<1>4. o \in Seq(Nat) /\ Len(o) \in Nat /\ DOMAIN o = 1 .. Len(o)
  BY <1>2, LenProperties DEF Ascends
<1>5. \A i \in 1 .. Len(o) : o[i] \in S
  BY <1>2 DEF Ascends
<1>6. \A n \in S : \E i \in 1 .. Len(o) : o[i] = n
  BY <1>2 DEF Ascends
<1>7. p = [i \in 1 .. Len(o) |-> l[o[i]].path]
  BY <1>3, <1>4
<1>8. p \in [1 .. Len(o) -> Path]
  BY <1>1, <1>5, <1>7
<1>9. p \in Seq(Path) /\ Len(p) = Len(o) /\ DOMAIN p = 1 .. Len(o)
  BY <1>4, <1>8, FunctionIsSequence
<1>10. \A i \in 1 .. Len(o) : p[i] = l[o[i]].path
  BY <1>7
<1>11. Range(p) = {p[i] : i \in 1 .. Len(o)}
  BY <1>9 DEF Range
<1>12. Range(p) = {l[i].path : i \in S}
  BY <1>5, <1>6, <1>10, <1>11
<1> QED
  BY <1>9, <1>10, <1>12 DEF o, p

LEMMA PathsGrow ==
  ASSUME NEW l, IsListing(l), NEW m \in 1 .. Len(l), NEW S, \A n \in S : n \in 1 .. m - 1
  PROVE  PathsAt(l, S \cup {m}) = Append(PathsAt(l, S), l[m].path)
<1> DEFINE o == InOrder(Len(l), S)
           q == InOrder(Len(l), S \cup {m})
           a == PathsAt(l, S)
           b == PathsAt(l, S \cup {m})
           c == Append(a, l[m].path)
<1>1. Len(l) \in Nat /\ m \in Nat /\ l[m].path \in Path /\ \A n \in S : n \in 1 .. Len(l)
  BY ListingFiles
<1>2. \A n \in S \cup {m} : n \in 1 .. Len(l)
  BY <1>1
<1>3. q = Append(o, m)
  <2>1. Before(S, m)
    BY DEF Before
  <2> QED
    BY <1>1, <2>1, InOrderGrows
<1>4. o \in Seq(Nat) /\ Len(o) \in Nat
  BY <1>1, InOrderAscends, LenProperties DEF Ascends
<1>5. a \in Seq(Path) /\ Len(a) = Len(o) /\ \A i \in 1 .. Len(o) : a[i] = l[o[i]].path
  BY <1>1, PathsListed
<1>6. b \in Seq(Path) /\ Len(b) = Len(q) /\ \A i \in 1 .. Len(q) : b[i] = l[q[i]].path
  <2> DEFINE T == S \cup {m}
  <2>1. \A n \in T : n \in 1 .. Len(l)
    BY <1>2
  <2> HIDE DEF T
  <2>2. /\ PathsAt(l, T) \in Seq(Path) /\ Len(PathsAt(l, T)) = Len(InOrder(Len(l), T))
        /\ \A i \in 1 .. Len(PathsAt(l, T)) : PathsAt(l, T)[i] = l[InOrder(Len(l), T)[i]].path
    BY <2>1, PathsListed
  <2> QED
    BY <2>2 DEF T
<1> HIDE DEF o, q, a, b
<1>7. Len(q) = Len(o) + 1 /\ q[Len(o) + 1] = m /\ \A i \in 1 .. Len(o) : q[i] = o[i]
  BY <1>1, <1>3, <1>4, AppendProperties
<1>8. c \in Seq(Path) /\ Len(c) = Len(o) + 1 /\ c[Len(o) + 1] = l[m].path
      /\ \A i \in 1 .. Len(o) : c[i] = a[i]
  BY <1>1, <1>5, AppendProperties
<1>9. /\ Len(o) + 1 \in 1 .. Len(o) + 1
      /\ \A i \in 1 .. Len(o) : i \in 1 .. Len(o) + 1
      /\ \A i \in 1 .. Len(o) + 1 : i \in 1 .. Len(o) \/ i = Len(o) + 1
  BY <1>4
<1> HIDE DEF c
<1>10. \A i \in 1 .. Len(o) + 1 : b[i] = c[i]
  <2>1. \A i \in 1 .. Len(o) : b[i] = c[i]
    BY <1>5, <1>6, <1>7, <1>8, <1>9
  <2>2. b[Len(o) + 1] = c[Len(o) + 1]
    BY <1>6, <1>7, <1>8, <1>9
  <2> QED
    BY <1>9, <2>1, <2>2
<1>11. b = c
  BY <1>6, <1>7, <1>8, <1>10, SeqEqual
<1> QED
  BY <1>11 DEF a, b, c

LEMMA PathsEmpty ==
  ASSUME NEW l, IsListing(l)
  PROVE  PathsAt(l, {}) = <<>>
<1>1. InOrder(Len(l), {}) = <<>>
  BY ListingFiles, InOrderEmpty
<1> QED
  BY <1>1 DEF PathsAt

\* The sets of positions, when a file is passed.
LEMMA SourcesGrow ==
  ASSUME NEW l, IsListing(l), NEW m \in 1 .. Len(l)
  PROVE  /\ SourcesBefore(l, m + 1) = IF IsSource(l[m]) THEN SourcesBefore(l, m) \cup {m}
                                      ELSE SourcesBefore(l, m)
         /\ SupportedBefore(l, m + 1) = IF IsParsed(l[m]) THEN SupportedBefore(l, m) \cup {m}
                                        ELSE SupportedBefore(l, m)
         /\ \A e : UnreadableBefore(l, m + 1, e) =
                     IF IsSource(l[m]) /\ l[m].path \in Range(e) THEN UnreadableBefore(l, m, e) \cup {m}
                     ELSE UnreadableBefore(l, m, e)
<1>1. Len(l) \in Nat /\ DOMAIN l = 1 .. Len(l)
  BY ListingFiles
<1>2. \A n \in DOMAIN l : n < m + 1 <=> n < m \/ n = m
  BY <1>1
<1>3. m \in DOMAIN l /\ ~ (m < m)
  BY <1>1
<1>4. \A n : n \in SourcesBefore(l, m + 1) <=> n \in SourcesBefore(l, m) \/ (n = m /\ IsSource(l[m]))
  BY <1>2, <1>3 DEF SourcesBefore
<1>5. \A n : n \in SupportedBefore(l, m + 1) <=> n \in SupportedBefore(l, m) \/ (n = m /\ IsParsed(l[m]))
  BY <1>2, <1>3 DEF SupportedBefore
<1>6. ASSUME NEW e, NEW n
      PROVE  n \in UnreadableBefore(l, m + 1, e) <=>
               n \in UnreadableBefore(l, m, e) \/ (n = m /\ IsSource(l[m]) /\ l[m].path \in Range(e))
  BY <1>2, <1>3 DEF UnreadableBefore
<1>7. SourcesBefore(l, m + 1) = IF IsSource(l[m]) THEN SourcesBefore(l, m) \cup {m} ELSE SourcesBefore(l, m)
  BY <1>4
<1>8. SupportedBefore(l, m + 1) = IF IsParsed(l[m]) THEN SupportedBefore(l, m) \cup {m} ELSE SupportedBefore(l, m)
  BY <1>5
<1>9. ASSUME NEW e
      PROVE  UnreadableBefore(l, m + 1, e) =
               IF IsSource(l[m]) /\ l[m].path \in Range(e) THEN UnreadableBefore(l, m, e) \cup {m}
               ELSE UnreadableBefore(l, m, e)
  <2> DEFINE given == IsSource(l[m]) /\ l[m].path \in Range(e)
  <2>1. \A n : n \in UnreadableBefore(l, m + 1, e) <=> n \in UnreadableBefore(l, m, e) \/ (n = m /\ given)
    BY <1>6
  <2> HIDE DEF given
  <2>2. CASE given
    <3>1. UnreadableBefore(l, m + 1, e) = UnreadableBefore(l, m, e) \cup {m}
      BY <2>1, <2>2
    <3> QED
      BY <2>2, <3>1 DEF given
  <2>3. CASE ~ given
    <3>1. UnreadableBefore(l, m + 1, e) = UnreadableBefore(l, m, e)
      BY <2>1, <2>3
    <3> QED
      BY <2>3, <3>1 DEF given
  <2> QED
    BY <2>2, <2>3
<1> QED
  BY <1>7, <1>8, <1>9

LEMMA SourcesBelow ==
  ASSUME NEW l, IsListing(l), NEW m \in 1 .. Len(l), NEW e
  PROVE  /\ \A n \in SourcesBefore(l, m) : n \in 1 .. m - 1 /\ n \in 1 .. Len(l)
         /\ \A n \in SupportedBefore(l, m) : n \in 1 .. m - 1 /\ n \in 1 .. Len(l)
         /\ \A n \in UnreadableBefore(l, m, e) : n \in 1 .. m - 1 /\ n \in 1 .. Len(l)
<1>1. Len(l) \in Nat /\ DOMAIN l = 1 .. Len(l)
  BY ListingFiles
<1>2. \A n \in DOMAIN l : n < m => n \in 1 .. m - 1
  BY <1>1
<1>3. /\ \A n \in SourcesBefore(l, m) : n \in DOMAIN l /\ n < m
      /\ \A n \in SupportedBefore(l, m) : n \in DOMAIN l /\ n < m
      /\ \A n \in UnreadableBefore(l, m, e) : n \in DOMAIN l /\ n < m
  BY DEF SourcesBefore, SupportedBefore, UnreadableBefore
<1> QED
  BY <1>1, <1>2, <1>3

\* A file that has not been looked at is not among the unreadable ones.
LEMMA NotYetUnreadable ==
  ASSUME NEW l, IsListing(l), NEW m \in 1 .. Len(l), NEW e, e = PathsAt(l, UnreadableBefore(l, m, e))
  PROVE  e \in Seq(Path) /\ l[m].path \notin Range(e)
<1> DEFINE U == UnreadableBefore(l, m, e)
<1>1. \A n \in U : n \in 1 .. m - 1 /\ n \in 1 .. Len(l)
  BY SourcesBelow
<1>2. e = PathsAt(l, U)
  OBVIOUS
<1> HIDE DEF U
<1>3. PathsAt(l, U) \in Seq(Path) /\ Range(PathsAt(l, U)) = {l[i].path : i \in U}
  BY <1>1, PathsListed
<1>4. ASSUME NEW n \in U PROVE l[n].path # l[m].path
  <2>1. n # m
    BY <1>1, ListingFiles
  <2> QED
    BY <1>1, <2>1, ListingFiles
<1> QED
  BY <1>2, <1>3, <1>4

\* What is in a sequence with one element more.
LEMMA RangeGrows ==
  ASSUME NEW A, NEW s \in Seq(A), NEW x \in A
  PROVE  Range(Append(s, x)) = Range(s) \cup {x}
<1> DEFINE r == Append(s, x)
           L == Len(s)
<1>1. r \in Seq(A) /\ Len(r) = L + 1 /\ r[L + 1] = x /\ \A i \in 1 .. L : r[i] = s[i]
  BY AppendProperties
<1>2. L \in Nat /\ DOMAIN s = 1 .. L
  BY LenProperties
<1> HIDE DEF r, L
<1>3. DOMAIN r = 1 .. L + 1
  BY <1>1, LenProperties
<1>4. \A i : i \in 1 .. L + 1 <=> i \in 1 .. L \/ i = L + 1
  BY <1>2
<1>5. Range(r) = {r[i] : i \in 1 .. L + 1} /\ Range(s) = {s[i] : i \in 1 .. L}
  BY <1>2, <1>3 DEF Range
<1>6. Range(r) = Range(s) \cup {x}
  BY <1>1, <1>4, <1>5
<1> QED
  BY <1>6 DEF r

\* The filing of a file, as the call starts.
LEMMA FiledStarts ==
  ASSUME NEW l, IsListing(l)
  PROVE  Filed(l, 1, <<>>, <<>>, <<>>)
<1>1. \A n \in DOMAIN l : ~ (n < 1)
  BY ListingFiles
<1>2. SourcesBefore(l, 1) = {} /\ SupportedBefore(l, 1) = {} /\ UnreadableBefore(l, 1, <<>>) = {}
  BY <1>1 DEF SourcesBefore, SupportedBefore, UnreadableBefore
<1> QED
  BY <1>2, PathsEmpty DEF Filed

\* A file that is no source, one in a language that is not supported, one that
\* cannot be read, and one that is parsed.
LEMMA FiledOther ==
  ASSUME NEW l, IsListing(l), NEW m \in 1 .. Len(l), NEW p, NEW s, NEW e, Filed(l, m, p, s, e),
         ~ IsSource(l[m])
  PROVE  Filed(l, m + 1, p, s, e)
<1>1. ~ IsParsed(l[m])
  BY DEF IsParsed, IsSource
<1> QED
  BY <1>1, SourcesGrow DEF Filed

LEMMA FiledSkipped ==
  ASSUME NEW l, IsListing(l), NEW m \in 1 .. Len(l), NEW p, NEW s, NEW e, Filed(l, m, p, s, e),
         IsSource(l[m]), ~ IsParsed(l[m])
  PROVE  Filed(l, m + 1, p, Append(s, l[m].path), e)
<1>1. l[m].path \notin Range(e)
  BY NotYetUnreadable DEF Filed
<1>2. /\ SourcesBefore(l, m + 1) = SourcesBefore(l, m) \cup {m}
      /\ SupportedBefore(l, m + 1) = SupportedBefore(l, m)
      /\ UnreadableBefore(l, m + 1, e) = UnreadableBefore(l, m, e)
  BY <1>1, SourcesGrow
<1> DEFINE S == SourcesBefore(l, m) \ SupportedBefore(l, m)
<1>3. /\ \A n \in S : n \in 1 .. m - 1
      /\ \A n \in SupportedBefore(l, m) : n \in 1 .. m - 1
  BY SourcesBelow
<1>4. m \notin SupportedBefore(l, m)
  BY <1>3, ListingFiles
<1>5. SourcesBefore(l, m + 1) \ SupportedBefore(l, m + 1) = S \cup {m}
  BY <1>2, <1>4
<1>6. s = PathsAt(l, S)
  BY DEF Filed
<1> HIDE DEF S
<1>7. Append(s, l[m].path) = PathsAt(l, S \cup {m})
  BY <1>3, <1>6, PathsGrow
<1> QED
  BY <1>2, <1>5, <1>7 DEF Filed

LEMMA FiledParsed ==
  ASSUME NEW l, IsListing(l), NEW m \in 1 .. Len(l), NEW p, NEW s, NEW e, Filed(l, m, p, s, e),
         IsParsed(l[m])
  PROVE  Filed(l, m + 1, Append(p, l[m].path), s, e)
<1>1. l[m].path \notin Range(e) /\ IsSource(l[m])
  BY NotYetUnreadable DEF Filed, IsParsed, IsSource
<1>2. /\ SourcesBefore(l, m + 1) = SourcesBefore(l, m) \cup {m}
      /\ SupportedBefore(l, m + 1) = SupportedBefore(l, m) \cup {m}
      /\ UnreadableBefore(l, m + 1, e) = UnreadableBefore(l, m, e)
  BY <1>1, SourcesGrow
<1> DEFINE S == SupportedBefore(l, m) \ UnreadableBefore(l, m, e)
<1>3. /\ \A n \in S : n \in 1 .. m - 1
      /\ \A n \in SourcesBefore(l, m) : n \in 1 .. m - 1
      /\ \A n \in UnreadableBefore(l, m, e) : n \in 1 .. m - 1
  BY SourcesBelow
<1>4. m \notin UnreadableBefore(l, m, e) /\ m \notin SourcesBefore(l, m)
  BY <1>3, ListingFiles
<1>5. /\ SupportedBefore(l, m + 1) \ UnreadableBefore(l, m + 1, e) = S \cup {m}
      /\ SourcesBefore(l, m + 1) \ SupportedBefore(l, m + 1) = SourcesBefore(l, m) \ SupportedBefore(l, m)
  BY <1>2, <1>4
<1>6. p = PathsAt(l, S)
  BY DEF Filed
<1> HIDE DEF S
<1>7. Append(p, l[m].path) = PathsAt(l, S \cup {m})
  BY <1>3, <1>6, PathsGrow
<1> QED
  BY <1>2, <1>5, <1>7 DEF Filed

LEMMA FiledUnreadable ==
  ASSUME NEW l, IsListing(l), NEW m \in 1 .. Len(l), NEW p, NEW s, NEW e, Filed(l, m, p, s, e),
         IsParsed(l[m])
  PROVE  Filed(l, m + 1, p, s, Append(e, l[m].path))
<1> DEFINE U == UnreadableBefore(l, m, e)
           r == Append(e, l[m].path)
<1>1. e \in Seq(Path) /\ l[m].path \notin Range(e) /\ IsSource(l[m])
  BY NotYetUnreadable DEF Filed, IsParsed, IsSource
<1>2. Range(r) = Range(e) \cup {l[m].path}
  <2>1. l[m].path \in Path
    BY ListingFiles
  <2> QED
    BY <1>1, <2>1, RangeGrows
<1>3. UnreadableBefore(l, m, r) = U
  <2>1. \A n \in DOMAIN l : n < m => l[n].path # l[m].path
    <3>1. \A n \in 1 .. Len(l) : n < m => n # m
      BY ListingFiles
    <3> QED
      BY <3>1, ListingFiles
  <2> QED
    BY <1>2, <2>1 DEF UnreadableBefore
<1>4. /\ SourcesBefore(l, m + 1) = SourcesBefore(l, m) \cup {m}
      /\ SupportedBefore(l, m + 1) = SupportedBefore(l, m) \cup {m}
      /\ UnreadableBefore(l, m + 1, r) = U \cup {m}
  <2>1. l[m].path \in Range(r)
    BY <1>2
  <2> HIDE DEF U, r
  <2> QED
    BY <1>1, <1>3, <2>1, SourcesGrow
<1>5. /\ \A n \in U : n \in 1 .. m - 1
      /\ \A n \in SourcesBefore(l, m) : n \in 1 .. m - 1
      /\ \A n \in SupportedBefore(l, m) : n \in 1 .. m - 1
  BY SourcesBelow
<1>6. e = PathsAt(l, U)
  BY DEF Filed
<1>7. /\ p = PathsAt(l, SupportedBefore(l, m) \ U)
      /\ s = PathsAt(l, SourcesBefore(l, m) \ SupportedBefore(l, m))
  BY DEF Filed
<1> HIDE DEF U, r
<1>8. m \notin SupportedBefore(l, m) /\ m \notin SourcesBefore(l, m)
  BY <1>5, ListingFiles
<1>9. /\ SupportedBefore(l, m + 1) \ UnreadableBefore(l, m + 1, r) = SupportedBefore(l, m) \ U
      /\ SourcesBefore(l, m + 1) \ SupportedBefore(l, m + 1) = SourcesBefore(l, m) \ SupportedBefore(l, m)
  BY <1>4, <1>8
<1>10. r = PathsAt(l, U \cup {m})
  BY <1>5, <1>6, PathsGrow DEF r
<1>11. Filed(l, m + 1, p, s, r)
  BY <1>4, <1>7, <1>9, <1>10 DEF Filed
<1> QED
  BY <1>11 DEF r

(* The steps of a visit. *)

\* The state of a visit, with its types.
VisitState(t, o, m, stack, symbols) ==
  /\ o \in Seq(0 .. Len(t)) /\ m \in 1 .. Len(t) + 1 /\ stack \in Seq(STRING) /\ symbols \in Symbols
  /\ Visiting(t, o, m, stack, symbols)

\* The next node is a child of the last one that the visitor is in.
IsChild(t, o, m) == m <= Len(t) /\ t[m].parent = Last(o)

\* What is recorded, and what is recorded when one part of it changes.
LEMMA SymbolsFields ==
  ASSUME NEW f \in Symbols
  PROVE  /\ f.classes \in Seq(ClassSet) /\ f.functions \in Seq(FunctionSymbol)
         /\ f.imports \in Seq(ImportSet)
BY DEF Symbols, ClassSet, ImportSet

LEMMA SymbolsChanged ==
  ASSUME NEW f \in Symbols
  PROVE  /\ \A c \in Seq(ClassSet) :
              /\ [f EXCEPT !.classes = c] \in Symbols
              /\ [f EXCEPT !.classes = c].classes = c
              /\ [f EXCEPT !.classes = c].functions = f.functions
         /\ \A c \in Seq(FunctionSymbol) :
              /\ [f EXCEPT !.functions = c] \in Symbols
              /\ [f EXCEPT !.functions = c].functions = c
              /\ [f EXCEPT !.functions = c].classes = f.classes
         /\ \A c \in Seq(ImportSet) :
              /\ [f EXCEPT !.imports = c] \in Symbols
              /\ [f EXCEPT !.imports = c].classes = f.classes
              /\ [f EXCEPT !.imports = c].functions = f.functions
<1>1. Symbols = [classes : Seq(ClassSet), functions : Seq(FunctionSymbol), imports : Seq(ImportSet)]
  BY DEF Symbols, ClassSet, ImportSet
<1> QED
  BY <1>1

LEMMA NothingTyped == Nothing \in Symbols /\ Nothing.classes = <<>> /\ Nothing.functions = <<>>
<1>1. <<>> \in Seq(ClassSet) /\ <<>> \in Seq(FunctionSymbol) /\ <<>> \in Seq(ImportSet)
  BY EmptySeq
<1> QED
  BY <1>1, SymbolsTyped DEF Nothing

\* A visit starts.
LEMMA VisitStarts ==
  ASSUME NEW t, IsTreeOf("Python", t)
  PROVE  VisitState(t, <<0>>, 1, <<>>, Nothing)
<1>1. IsTree(t) /\ Len(t) \in Nat
  BY TreeNodes DEF IsTreeOf
<1>2. OnPath(t, <<0>>, 1) /\ Recorded(t, 1, <<>>, <<>>) /\ NamesOf(t, {}) = <<>>
  BY <1>1, OnPathStarts, RecordedStarts, NamesEmpty
<1>3. ClassesIn(t, <<0>>) = {}
  <2>1. Len(<<0>>) = 1 /\ 2 .. 1 = {}
    OBVIOUS
  <2> QED
    BY <2>1 DEF ClassesIn
<1>4. <<0>> \in Seq(0 .. Len(t)) /\ 1 \in 1 .. Len(t) + 1 /\ <<>> \in Seq(STRING)
  BY <1>1
<1>5. Visiting(t, <<0>>, 1, <<>>, Nothing)
  BY <1>2, <1>3, NothingTyped DEF Visiting
<1> QED
  BY <1>4, <1>5, NothingTyped DEF VisitState

\* The stack when a node is entered.
LEMMA StackGrows ==
  ASSUME NEW t, IsTree(t), NEW o \in Seq(0 .. Len(t)), NEW m \in 1 .. Len(t), OnPath(t, o, m)
  PROVE  NamesOf(t, ClassesIn(t, Append(o, m))) =
           IF t[m].type = "ClassDef" THEN Append(NamesOf(t, ClassesIn(t, o)), t[m].name)
           ELSE NamesOf(t, ClassesIn(t, o))
<1> DEFINE S == ClassesIn(t, o)
<1>1. \A n \in S : n \in 1 .. m - 1
  BY ClassesEntered
<1>2. ClassesIn(t, Append(o, m)) = IF t[m].type = "ClassDef" THEN S \cup {m} ELSE S
  BY ClassesEntered
<1> HIDE DEF S
<1>3. NamesOf(t, S \cup {m}) = Append(NamesOf(t, S), t[m].name)
  <2>1. Before(S, m)
    BY <1>1 DEF Before
  <2> QED
    BY <2>1, NamesGrow, SMTT(20)
<1>4. NamesOf(t, ClassesIn(t, Append(o, m))) =
        IF t[m].type = "ClassDef" THEN Append(NamesOf(t, S), t[m].name) ELSE NamesOf(t, S)
  BY <1>2, <1>3
<1> QED
  BY <1>4 DEF S

\* A node is entered: what its class and its function are is recorded.
LEMMA VisitEnters ==
  ASSUME NEW t, IsTreeOf("Python", t), NEW o, NEW m, NEW stack, NEW symbols,
         VisitState(t, o, m, stack, symbols), IsChild(t, o, m),
         NEW after \in Seq(STRING),
         after = IF t[m].type = "ClassDef" THEN Append(stack, t[m].name) ELSE stack,
         NEW recorded \in Symbols, Recorded(t, m + 1, recorded.classes, recorded.functions)
  PROVE  VisitState(t, Append(o, m), m + 1, after, recorded)
<1>1. IsTree(t) /\ Len(t) \in Nat
  BY TreeNodes DEF IsTreeOf
<1>2. /\ o \in Seq(0 .. Len(t)) /\ m \in 1 .. Len(t) /\ OnPath(t, o, m) /\ t[m].parent = Last(o)
      /\ stack = NamesOf(t, ClassesIn(t, o))
  BY <1>1 DEF VisitState, Visiting, IsChild
<1>3. Append(o, m) \in Seq(0 .. Len(t)) /\ OnPath(t, Append(o, m), m + 1)
  BY <1>1, <1>2, OnPathDescends
<1>4. after = NamesOf(t, ClassesIn(t, Append(o, m)))
  BY <1>1, <1>2, StackGrows
<1>5. m + 1 \in 1 .. Len(t) + 1
  BY <1>1, <1>2
<1> QED
  BY <1>3, <1>4, <1>5 DEF VisitState, Visiting

\* What holds when a node is entered.
LEMMA VisitFacts ==
  ASSUME NEW t, IsTreeOf("Python", t), NEW o, NEW m, NEW stack, NEW symbols,
         VisitState(t, o, m, stack, symbols), IsChild(t, o, m)
  PROVE  /\ IsTree(t) /\ o \in Seq(0 .. Len(t)) /\ m \in 1 .. Len(t) /\ m \in Nat
         /\ t[m].name \in STRING /\ t[m].scope \in STRING /\ t[m].names \in Seq(STRING)
         /\ OnPath(t, o, m) /\ t[m].parent = Last(o)
         /\ stack = NamesOf(t, ClassesIn(t, o)) /\ stack \in Seq(STRING)
         /\ symbols \in Symbols /\ symbols.classes \in Seq(ClassSet)
         /\ symbols.functions \in Seq(FunctionSymbol) /\ symbols.imports \in Seq(ImportSet)
         /\ Recorded(t, m, symbols.classes, symbols.functions)
<1>1. IsTree(t) /\ Len(t) \in Nat
  BY TreeNodes DEF IsTreeOf
<1>2. /\ o \in Seq(0 .. Len(t)) /\ m \in 1 .. Len(t) /\ m \in Nat
      /\ OnPath(t, o, m) /\ t[m].parent = Last(o)
      /\ stack = NamesOf(t, ClassesIn(t, o)) /\ stack \in Seq(STRING) /\ symbols \in Symbols
      /\ Recorded(t, m, symbols.classes, symbols.functions)
  BY <1>1 DEF VisitState, Visiting, IsChild
<1>3. t[m] \in Node
  BY <1>1, <1>2, TreeNodes
<1> QED
  BY <1>1, <1>2, <1>3, NodeFields, SymbolsFields

\* A class and a function, whose owner the stack tells.
LEMMA VisitClass ==
  ASSUME NEW t, IsTreeOf("Python", t), NEW o, NEW m, NEW stack, NEW symbols,
         VisitState(t, o, m, stack, symbols), IsChild(t, o, m), t[m].type = "ClassDef"
  PROVE  VisitState(t, Append(o, m), m + 1, Append(stack, t[m].name),
           [symbols EXCEPT !.classes = Append(symbols.classes, ClassEntity(t, m, t[m].names))])
<1> DEFINE c == ClassEntity(t, m, t[m].names)
           after == Append(stack, t[m].name)
           recorded == [symbols EXCEPT !.classes = Append(symbols.classes, c)]
<1>1. /\ m \in 1 .. Len(t) /\ m \in Nat /\ t[m].name \in STRING /\ t[m].names \in Seq(STRING)
      /\ stack \in Seq(STRING) /\ symbols \in Symbols /\ symbols.classes \in Seq(ClassSet)
      /\ Recorded(t, m, symbols.classes, symbols.functions)
  BY VisitFacts
<1>2. c \in ClassSet /\ c.at = m
  BY <1>1 DEF ClassEntity, ClassSet
<1> HIDE DEF c
<1>3. /\ Append(symbols.classes, c) \in Seq(ClassSet)
      /\ Recorded(t, m + 1, Append(symbols.classes, c), symbols.functions)
  BY <1>1, <1>2, RecordedClass
<1>4. /\ recorded \in Symbols /\ recorded.classes = Append(symbols.classes, c)
      /\ recorded.functions = symbols.functions
  BY <1>1, <1>3, SymbolsChanged
<1>5. /\ after \in Seq(STRING)
      /\ after = IF t[m].type = "ClassDef" THEN Append(stack, t[m].name) ELSE stack
  BY <1>1, AppendProperties
<1> HIDE DEF after, recorded
<1>6. VisitState(t, Append(o, m), m + 1, after, recorded)
  BY <1>3, <1>4, <1>5, VisitEnters
<1> QED
  BY <1>6 DEF after, recorded, c

LEMMA VisitFunction ==
  ASSUME NEW t, IsTreeOf("Python", t), NEW o, NEW m, NEW stack, NEW symbols,
         VisitState(t, o, m, stack, symbols), IsChild(t, o, m),
         t[m].type \in {"FunctionDef", "AsyncFunctionDef"},
         NEW parent, parent = IF stack = <<>> THEN None ELSE Last(stack)
  PROVE  VisitState(t, Append(o, m), m + 1, stack,
           [symbols EXCEPT !.functions =
              Append(symbols.functions, FunctionEntity(t[m].name, m, parent, parent # None))])
<1> DEFINE f == FunctionEntity(t[m].name, m, parent, parent # None)
           recorded == [symbols EXCEPT !.functions = Append(symbols.functions, f)]
<1>1. /\ IsTree(t) /\ m \in 1 .. Len(t) /\ o \in Seq(0 .. Len(t)) /\ OnPath(t, o, m)
      /\ t[m].parent = Last(o)
      /\ stack = NamesOf(t, ClassesIn(t, o)) /\ stack \in Seq(STRING)
      /\ symbols \in Symbols /\ symbols.functions \in Seq(FunctionSymbol)
      /\ Recorded(t, m, symbols.classes, symbols.functions)
  BY VisitFacts
<1>2. t[m].type \in FunctionTypes("Python")
  BY DEF FunctionTypes
<1>3. parent = Owner("Python", t, m)
  BY <1>1, <1>2, OwnerOnStack
<1>4. f = PythonFunction(t)[m] /\ f \in FunctionSymbol
  <2>1. m \in DOMAIN t
    BY <1>1, TreeNodes
  <2>2. PythonFunction(t)[m] \in FunctionSymbol
    BY <1>1, PythonFunctionTyped
  <2>3. f = PythonFunction(t)[m]
    BY <1>3, <2>1 DEF PythonFunction
  <2> QED
    BY <2>2, <2>3
<1> HIDE DEF f
<1>5. Recorded(t, m + 1, symbols.classes, Append(symbols.functions, PythonFunction(t)[m]))
  BY <1>1, <1>2, RecordedFunction
<1>6. Append(symbols.functions, f) \in Seq(FunctionSymbol)
  BY <1>1, <1>4, AppendProperties
<1>7. /\ recorded \in Symbols /\ recorded.functions = Append(symbols.functions, f)
      /\ recorded.classes = symbols.classes
  BY <1>1, <1>6, SymbolsChanged
<1> HIDE DEF recorded
<1>8. stack = IF t[m].type = "ClassDef" THEN Append(stack, t[m].name) ELSE stack
  OBVIOUS
<1>9. VisitState(t, Append(o, m), m + 1, stack, recorded)
  BY <1>1, <1>4, <1>5, <1>7, <1>8, VisitEnters
<1> QED
  BY <1>9 DEF recorded, f

\* Any other node, with or without imports.
LEMMA VisitOther ==
  ASSUME NEW t, IsTreeOf("Python", t), NEW o, NEW m, NEW stack, NEW symbols,
         VisitState(t, o, m, stack, symbols), IsChild(t, o, m),
         t[m].type \notin {"ClassDef", "FunctionDef", "AsyncFunctionDef"},
         NEW recorded \in Symbols,
         recorded.classes = symbols.classes, recorded.functions = symbols.functions
  PROVE  VisitState(t, Append(o, m), m + 1, stack, recorded)
<1>1. /\ m \in 1 .. Len(t) /\ stack \in Seq(STRING)
      /\ Recorded(t, m, symbols.classes, symbols.functions)
  BY VisitFacts
<1>2. t[m].type # "ClassDef" /\ t[m].type \notin FunctionTypes("Python")
  BY DEF FunctionTypes
<1>3. Recorded(t, m + 1, recorded.classes, recorded.functions)
  BY <1>1, <1>2, RecordedOther
<1>4. stack = IF t[m].type = "ClassDef" THEN Append(stack, t[m].name) ELSE stack
  BY <1>2
<1> QED
  BY <1>1, <1>3, <1>4, VisitEnters

\* One import per alias.
LEMMA ImportsGrow ==
  ASSUME NEW imports \in Seq(ImportSet), NEW m \in Nat, NEW module \in Seq(STRING), NEW names \in Seq(STRING)
  PROVE  imports \o [i \in DOMAIN names |-> ImportEntity(m, Append(module, names[i]))] \in Seq(ImportSet)
<1> DEFINE s == [i \in DOMAIN names |-> ImportEntity(m, Append(module, names[i]))]
<1>1. /\ Len(names) \in Nat /\ DOMAIN names = 1 .. Len(names)
      /\ \A i \in 1 .. Len(names) : names[i] \in STRING
  BY LenProperties, ElementOfSeq
<1>2. \A i \in 1 .. Len(names) : Append(module, names[i]) \in Seq(STRING)
  BY <1>1, AppendProperties
<1>3. \A i \in 1 .. Len(names) : ImportEntity(m, Append(module, names[i])) \in ImportSet
  BY <1>2 DEF ImportEntity, ImportSet
<1>4. s \in [1 .. Len(names) -> ImportSet]
  BY <1>1, <1>3
<1> HIDE DEF s
<1>5. s \in Seq(ImportSet)
  BY <1>1, <1>4, FunctionIsSequence
<1>6. imports \o s \in Seq(ImportSet)
  BY <1>5, ConcatProperties
<1> QED
  BY <1>6 DEF s

\* A node is left, and the visit ends.
LEMMA VisitLeaves ==
  ASSUME NEW t, IsTreeOf("Python", t), NEW o, NEW m, NEW stack, NEW symbols,
         VisitState(t, o, m, stack, symbols), ~ IsChild(t, o, m), Len(o) > 1
  PROVE  /\ Last(o) \in 1 .. Len(t)
         /\ VisitState(t, Front(o), m, IF t[Last(o)].type = "ClassDef" THEN Front(stack) ELSE stack, symbols)
<1> DEFINE S == ClassesIn(t, Front(o))
           after == IF t[Last(o)].type = "ClassDef" THEN Front(stack) ELSE stack
<1>1. IsTree(t) /\ Len(t) \in Nat
  BY TreeNodes DEF IsTreeOf
<1>2. /\ o \in Seq(0 .. Len(t)) /\ m \in 1 .. Len(t) + 1 /\ OnPath(t, o, m)
      /\ m <= Len(t) => t[m].parent # Last(o)
      /\ stack = NamesOf(t, ClassesIn(t, o)) /\ stack \in Seq(STRING)
  BY DEF VisitState, Visiting, IsChild
<1>3. Front(o) \in Seq(0 .. Len(t)) /\ OnPath(t, Front(o), m)
  BY <1>1, <1>2, OnPathLeaves
<1>4. /\ Last(o) \in 1 .. Len(t)
      /\ \A n \in S : n \in 1 .. Last(o) - 1
      /\ ClassesIn(t, o) = IF t[Last(o)].type = "ClassDef" THEN S \cup {Last(o)} ELSE S
  BY <1>1, <1>2, ClassesLeft
<1> HIDE DEF S
<1>5. NamesOf(t, S \cup {Last(o)}) # <<>> /\ Front(NamesOf(t, S \cup {Last(o)})) = NamesOf(t, S)
  <2>1. Before(S, Last(o))
    BY <1>4 DEF Before
  <2> QED
    BY <1>1, <1>4, <2>1, NamesGrow
<1>6. after = NamesOf(t, S)
  BY <1>2, <1>4, <1>5
<1>7. after \in Seq(STRING)
  <2>1. CASE t[Last(o)].type = "ClassDef"
    <3>1. stack # <<>>
      BY <1>2, <1>4, <1>5, <2>1
    <3>2. Len(stack) \in Nat /\ Len(stack) >= 1
      BY <1>2, <3>1, EmptySeq, LenProperties
    <3>3. Front(stack) \in Seq(STRING)
      BY <1>2, <3>2, FrontProperties
    <3> QED
      BY <2>1, <3>3
  <2>2. CASE t[Last(o)].type # "ClassDef"
    BY <1>2, <2>2
  <2> QED
    BY <2>1, <2>2
<1> HIDE DEF after
<1>8. VisitState(t, Front(o), m, after, symbols)
  BY <1>2, <1>3, <1>6, <1>7 DEF VisitState, Visiting, S
<1> QED
  BY <1>4, <1>8 DEF after

LEMMA VisitEnds ==
  ASSUME NEW t, IsTreeOf("Python", t), NEW o, NEW m, NEW stack, NEW symbols,
         VisitState(t, o, m, stack, symbols), ~ IsChild(t, o, m), Len(o) = 1
  PROVE  Describes(symbols, "Python", t)
<1>1. IsTree(t)
  BY DEF IsTreeOf
<1>2. /\ m \in 1 .. Len(t) + 1 /\ OnPath(t, o, m)
      /\ m <= Len(t) => t[m].parent # Last(o)
      /\ Recorded(t, m, symbols.classes, symbols.functions)
  BY DEF VisitState, Visiting, IsChild
<1>3. m = Len(t) + 1
  BY <1>1, <1>2, OnPathEnds
<1> QED
  BY <1>2, <1>3, RecordedEnds

(* The results. *)

\* The entries of the result, and the language in which a path is listed.
ParsedSet == [path : Path, symbols : Symbols, failed : BOOLEAN]

LanguageIn(l, x) == l[CHOOSE i \in DOMAIN l : l[i].path = x].language

\* What is recorded of a file, and that it is recorded as wrong, is justified by
\* what its path has held, s.
Declared(l, s, p) ==
  \/ p.failed /\ p.symbols = Nothing
  \/ \E c \in s[p.path] \ {Gone} :
       Describes(p.symbols, LanguageIn(l, p.path), c.tree) /\ (p.failed => ~ c.correct)

Failing(s, p) ==
  p.failed => \E c \in s[p.path] \ {Gone} : ~ c.correct \/ ~ c.decodes \/ Depth(c.tree) > MaxDepth

\* The results at position m: r is parsed, k is skipped, e are the errors.
Results(l, s, m, r, k, e) ==
  /\ r \in Seq(ParsedSet) /\ k \in Seq(Path) /\ e \in Seq(Path)
  /\ \A i \in 1 .. Len(r) : Declared(l, s, r[i]) /\ Failing(s, r[i])
  /\ \A i \in 1 .. Len(e) : Gone \in s[e[i]]
  /\ Filed(l, m, ParsedPaths(r), k, e)

LEMMA ParsedFields ==
  ASSUME NEW r \in Seq(ParsedSet), NEW i \in 1 .. Len(r)
  PROVE  r[i].path \in Path
<1>1. r[i] \in ParsedSet
  BY ElementOfSeq
<1>2. \A p \in ParsedSet : p.path \in Path
  BY DEF ParsedSet
<1> QED
  BY <1>1, <1>2

\* The results, as the call starts.
LEMMA ResultsStart ==
  ASSUME NEW l, IsListing(l), NEW s
  PROVE  Results(l, s, 1, <<>>, <<>>, <<>>)
<1>1. ParsedPaths(<<>>) = <<>> /\ Len(<<>>) = 0
  BY DEF ParsedPaths
<1>2. <<>> \in Seq(ParsedSet) /\ <<>> \in Seq(Path)
  BY EmptySeq
<1> DEFINE none == <<>>
<1>3. Filed(l, 1, ParsedPaths(none), none, none)
  BY <1>1, FiledStarts
<1>4. \A i \in 1 .. Len(none) : FALSE
  BY <1>1
<1> HIDE DEF none
<1>5. Results(l, s, 1, none, none, none)
  BY <1>2, <1>3, <1>4 DEF Results, none
<1> QED
  BY <1>5 DEF none

\* More may have been held.
LEMMA ResultsKept ==
  ASSUME NEW l, NEW s, NEW m, NEW r, NEW k, NEW e, Results(l, s, m, r, k, e),
         NEW held, \A p \in Path : s[p] \subseteq held[p]
  PROVE  Results(l, held, m, r, k, e)
<1>1. /\ r \in Seq(ParsedSet) /\ k \in Seq(Path) /\ e \in Seq(Path)
      /\ \A i \in 1 .. Len(r) : Declared(l, s, r[i]) /\ Failing(s, r[i])
      /\ \A i \in 1 .. Len(e) : Gone \in s[e[i]]
      /\ Filed(l, m, ParsedPaths(r), k, e)
  BY DEF Results
<1>2. \A i \in 1 .. Len(r) : r[i].path \in Path
  BY <1>1, ParsedFields
<1>3. \A i \in 1 .. Len(e) : e[i] \in Path
  BY <1>1, ElementOfSeq
<1>4. ASSUME NEW i \in 1 .. Len(r) PROVE Declared(l, held, r[i])
  BY <1>1, <1>2 DEF Declared
<1>5. ASSUME NEW i \in 1 .. Len(r) PROVE Failing(held, r[i])
  BY <1>1, <1>2 DEF Failing
<1>6. \A i \in 1 .. Len(e) : Gone \in held[e[i]]
  BY <1>1, <1>3
<1> QED
  BY <1>1, <1>4, <1>5, <1>6 DEF Results

\* The results after a file that is passed over, one that is gone, one that is parsed.
LEMMA ResultsPass ==
  ASSUME NEW l, IsListing(l), NEW s, NEW m \in 1 .. Len(l), NEW r, NEW k, NEW e,
         Results(l, s, m, r, k, e)
  PROVE  /\ ~ IsSource(l[m]) => Results(l, s, m + 1, r, k, e)
         /\ IsSource(l[m]) /\ ~ IsParsed(l[m]) => Results(l, s, m + 1, r, Append(k, l[m].path), e)
<1>1. /\ r \in Seq(ParsedSet) /\ k \in Seq(Path) /\ e \in Seq(Path)
      /\ \A i \in 1 .. Len(r) : Declared(l, s, r[i]) /\ Failing(s, r[i])
      /\ \A i \in 1 .. Len(e) : Gone \in s[e[i]]
      /\ Filed(l, m, ParsedPaths(r), k, e)
  BY DEF Results
<1>2. ASSUME ~ IsSource(l[m]) PROVE Results(l, s, m + 1, r, k, e)
  BY <1>1, <1>2, FiledOther DEF Results
<1>3. ASSUME IsSource(l[m]), ~ IsParsed(l[m]) PROVE Results(l, s, m + 1, r, Append(k, l[m].path), e)
  <2>1. Append(k, l[m].path) \in Seq(Path)
    BY <1>1, ListingFiles, AppendProperties
  <2>2. Filed(l, m + 1, ParsedPaths(r), Append(k, l[m].path), e)
    BY <1>1, <1>3, FiledSkipped
  <2> QED
    BY <1>1, <2>1, <2>2 DEF Results
<1> QED
  BY <1>2, <1>3

LEMMA ResultsUnreadable ==
  ASSUME NEW l, IsListing(l), NEW s, NEW m \in 1 .. Len(l), NEW r, NEW k, NEW e,
         Results(l, s, m, r, k, e), IsParsed(l[m]), Gone \in s[l[m].path]
  PROVE  Results(l, s, m + 1, r, k, Append(e, l[m].path))
<1> DEFINE x == l[m].path
           f == Append(e, x)
<1>1. /\ r \in Seq(ParsedSet) /\ k \in Seq(Path) /\ e \in Seq(Path)
      /\ \A i \in 1 .. Len(r) : Declared(l, s, r[i]) /\ Failing(s, r[i])
      /\ \A i \in 1 .. Len(e) : Gone \in s[e[i]]
      /\ Filed(l, m, ParsedPaths(r), k, e)
  BY DEF Results
<1>2. x \in Path /\ Gone \in s[x]
  BY ListingFiles
<1>3. Filed(l, m + 1, ParsedPaths(r), k, f)
  BY <1>1, FiledUnreadable
<1> HIDE DEF x
<1>4. /\ f \in Seq(Path) /\ Len(f) = Len(e) + 1 /\ f[Len(e) + 1] = x
      /\ \A i \in 1 .. Len(e) : f[i] = e[i]
  BY <1>1, <1>2, AppendProperties
<1>5. \A i \in 1 .. Len(e) + 1 : i \in 1 .. Len(e) \/ i = Len(e) + 1
  BY <1>1, LenProperties
<1> HIDE DEF f
<1>6. \A i \in 1 .. Len(f) : Gone \in s[f[i]]
  BY <1>1, <1>2, <1>4, <1>5
<1>7. Results(l, s, m + 1, r, k, f)
  BY <1>1, <1>3, <1>4, <1>6 DEF Results
<1> QED
  BY <1>7 DEF f, x

LEMMA ResultsParsed ==
  ASSUME NEW l, IsListing(l), NEW s, NEW m \in 1 .. Len(l), NEW r, NEW k, NEW e,
         Results(l, s, m, r, k, e), IsParsed(l[m]),
         NEW p \in ParsedSet, p.path = l[m].path, Declared(l, s, p), Failing(s, p)
  PROVE  Results(l, s, m + 1, Append(r, p), k, e)
<1> DEFINE q == Append(r, p)
           a == ParsedPaths(r)
           b == ParsedPaths(q)
           c == Append(a, p.path)
<1>1. /\ r \in Seq(ParsedSet) /\ k \in Seq(Path) /\ e \in Seq(Path)
      /\ \A i \in 1 .. Len(r) : Declared(l, s, r[i]) /\ Failing(s, r[i])
      /\ \A i \in 1 .. Len(e) : Gone \in s[e[i]]
      /\ Filed(l, m, a, k, e)
  BY DEF Results
<1>2. Len(r) \in Nat /\ DOMAIN r = 1 .. Len(r) /\ \A i \in 1 .. Len(r) : r[i].path \in Path
  BY <1>1, LenProperties, ParsedFields
<1>3. /\ q \in Seq(ParsedSet) /\ Len(q) = Len(r) + 1 /\ q[Len(r) + 1] = p
      /\ \A i \in 1 .. Len(r) : q[i] = r[i]
  BY <1>1, AppendProperties
<1>4. /\ Len(r) + 1 \in 1 .. Len(r) + 1 /\ Len(r) + 1 \in Nat
      /\ \A i \in 1 .. Len(r) : i \in 1 .. Len(r) + 1
      /\ \A i \in 1 .. Len(r) + 1 : i \in 1 .. Len(r) \/ i = Len(r) + 1
  BY <1>2
<1> HIDE DEF q
<1>5. \A i \in 1 .. Len(q) : Declared(l, s, q[i]) /\ Failing(s, q[i])
  BY <1>1, <1>3, <1>4
<1>6. p.path \in Path
  BY DEF ParsedSet
<1>7. a = [i \in 1 .. Len(r) |-> r[i].path] /\ b = [i \in 1 .. Len(r) + 1 |-> q[i].path]
  <2>1. DOMAIN q = 1 .. Len(r) + 1
    BY <1>3, LenProperties
  <2> QED
    BY <1>2, <2>1 DEF ParsedPaths
<1> HIDE DEF a, b
<1>8. a \in [1 .. Len(r) -> Path]
  BY <1>2, <1>7
<1>9. a \in Seq(Path) /\ Len(a) = Len(r) /\ \A i \in 1 .. Len(r) : a[i] = r[i].path
  BY <1>2, <1>7, <1>8, FunctionIsSequence
<1>10. /\ c \in Seq(Path) /\ Len(c) = Len(r) + 1 /\ c[Len(r) + 1] = p.path
       /\ \A i \in 1 .. Len(r) : c[i] = a[i]
  BY <1>6, <1>9, AppendProperties
<1>11. \A i \in 1 .. Len(r) + 1 : b[i] = q[i].path
  BY <1>7
<1> HIDE DEF c
<1>12. ASSUME NEW i \in 1 .. Len(r) + 1 PROVE b[i] = c[i] /\ b[i] \in Path
  <2>1. b[i] = q[i].path
    BY <1>11
  <2>2. CASE i \in 1 .. Len(r)
    <3>1. q[i] = r[i] /\ a[i] = r[i].path /\ c[i] = a[i] /\ r[i].path \in Path
      BY <1>2, <1>3, <1>9, <1>10, <2>2
    <3> QED
      BY <2>1, <3>1
  <2>3. CASE i = Len(r) + 1
    <3>1. q[i] = p /\ c[i] = p.path
      BY <1>3, <1>10, <2>3
    <3> QED
      BY <1>6, <2>1, <3>1
  <2> QED
    BY <1>4, <2>2, <2>3
<1>13. b \in [1 .. Len(r) + 1 -> Path]
  BY <1>7, <1>12
<1>14. b \in Seq(Path) /\ Len(b) = Len(r) + 1
  BY <1>4, <1>13, FunctionIsSequence
<1>15. b = c
  BY <1>10, <1>12, <1>14, SeqEqual
<1>16. Filed(l, m + 1, b, k, e)
  <2>1. Filed(l, m + 1, Append(a, l[m].path), k, e)
    BY <1>1, FiledParsed
  <2>2. b = Append(a, l[m].path)
    BY <1>15 DEF c
  <2> QED
    BY <2>1, <2>2
<1>17. Results(l, s, m + 1, q, k, e)
  BY <1>1, <1>3, <1>5, <1>16 DEF Results, b
<1> QED
  BY <1>17 DEF q

\* A path is listed once.
LEMMA LanguageOfFile ==
  ASSUME NEW l, IsListing(l), NEW m \in 1 .. Len(l)
  PROVE  LanguageIn(l, l[m].path) = l[m].language
<1> DEFINE n == CHOOSE i \in DOMAIN l : l[i].path = l[m].path
<1>1. DOMAIN l = 1 .. Len(l) /\ \A i, j \in 1 .. Len(l) : l[i].path = l[j].path => i = j
  BY ListingFiles
<1>2. n \in DOMAIN l /\ l[n].path = l[m].path
  <2>1. \E i \in DOMAIN l : l[i].path = l[m].path
    BY <1>1
  <2> QED
    BY <2>1
<1> HIDE DEF n
<1>3. n = m
  BY <1>1, <1>2
<1> QED
  BY <1>3 DEF LanguageIn, n

\* The entry of a file of which nothing is known, and of one that is described.
LEMMA NothingResult ==
  ASSUME NEW l, IsListing(l), NEW s, NEW m \in 1 .. Len(l),
         NEW c \in s[l[m].path] \ {Gone}, ~ c.correct \/ ~ c.decodes \/ Depth(c.tree) > MaxDepth,
         NEW p, p = [path |-> l[m].path, symbols |-> Nothing, failed |-> TRUE]
  PROVE  p \in ParsedSet /\ p.path = l[m].path /\ Declared(l, s, p) /\ Failing(s, p)
<1>1. p.path = l[m].path /\ p.symbols = Nothing /\ p.failed = TRUE
  OBVIOUS
<1>2. p \in ParsedSet
  BY ListingFiles, NothingTyped DEF ParsedSet
<1>3. Declared(l, s, p)
  BY <1>1 DEF Declared
<1>4. c \in s[p.path] \ {Gone}
  BY <1>1
<1>5. Failing(s, p)
  BY <1>4 DEF Failing
<1> QED
  BY <1>1, <1>2, <1>3, <1>5

LEMMA DescribedResult ==
  ASSUME NEW l, IsListing(l), NEW s, NEW m \in 1 .. Len(l), NEW c \in s[l[m].path] \ {Gone},
         NEW symbols \in Symbols, Describes(symbols, l[m].language, c.tree),
         NEW failed \in BOOLEAN, failed => ~ c.correct,
         NEW p, p = [path |-> l[m].path, symbols |-> symbols, failed |-> failed]
  PROVE  p \in ParsedSet /\ p.path = l[m].path /\ Declared(l, s, p) /\ Failing(s, p)
<1>1. p.path = l[m].path /\ p.symbols = symbols /\ p.failed = failed
  OBVIOUS
<1>2. p \in ParsedSet
  BY ListingFiles DEF ParsedSet
<1>3. LanguageIn(l, p.path) = l[m].language
  BY <1>1, LanguageOfFile
<1>4. /\ c \in s[p.path] \ {Gone} /\ Describes(p.symbols, LanguageIn(l, p.path), c.tree)
      /\ (p.failed => ~ c.correct)
  BY <1>1, <1>3
<1>5. Declared(l, s, p)
  BY <1>4 DEF Declared
<1>6. Failing(s, p)
  BY <1>4 DEF Failing
<1> QED
  BY <1>1, <1>2, <1>5, <1>6

(* The invariant. *)

\* What the paths hold.
Inputs ==
  /\ listing \in Listings
  /\ DOMAIN source = Path /\ DOMAIN seen = Path
  /\ \A p \in Path : source[p] \in seen[p] /\ seen[p] \subseteq MayHold(p)

\* Where the call is, and what the visitor holds.
Places ==
  /\ stage \in {"files", "python", "returned", "raised"}
  /\ position \in 1 .. Len(listing) + 1

Visitor ==
  /\ tree \in Seq(Node) /\ open \in Seq(0 .. Len(tree)) /\ next \in 1 .. Len(tree) + 1
  /\ class_stack \in Seq(STRING)
  /\ found \in Symbols

\* The tree that is visited is one that the file at work has had.
PythonAt(l, s, m, t) ==
  /\ m \in 1 .. Len(l) /\ IsParsed(l[m]) /\ l[m].language = "Python"
  /\ \E c \in s[l[m].path] \ {Gone} : c.tree = t

\* During a visit, what has been recorded is what the nodes so far declare.
Walk ==
  stage = "python" =>
    /\ PythonAt(listing, seen, position, tree)
    /\ Visiting(tree, open, next, class_stack, found)

ParsingInv ==
  /\ Inputs /\ Places /\ Visitor /\ Walk
  /\ Results(listing, seen, position, parsed, skipped, errors)

\* What is held is a content of the file's language.
LEMMA HeldContents ==
  ASSUME Inputs
  PROVE  /\ IsListing(listing)
         /\ \A m \in 1 .. Len(listing) :
              /\ listing[m].path \in Path
              /\ source[listing[m].path] \in seen[listing[m].path]
              /\ IsParsed(listing[m]) => \A c \in seen[listing[m].path] \ {Gone} :
                   c \in ContentType /\ IsTreeOf(listing[m].language, c.tree)
<1>1. IsListing(listing)
  BY ListingsAssumption DEF Inputs, IsListing
<1> SUFFICES ASSUME NEW m \in 1 .. Len(listing)
             PROVE  /\ listing[m].path \in Path
                    /\ source[listing[m].path] \in seen[listing[m].path]
                    /\ IsParsed(listing[m]) => \A c \in seen[listing[m].path] \ {Gone} :
                         c \in ContentType /\ IsTreeOf(listing[m].language, c.tree)
  BY <1>1
<1> DEFINE x == listing[m].path
<1>2. x \in Path /\ m \in DOMAIN listing /\ listing \in Listings
  BY <1>1, ListingFiles DEF Inputs
<1>3. IsParsed(listing[m]) => \A c \in Contents[x] : IsTreeOf(listing[m].language, c.tree)
  BY <1>2, TreesAssumption
<1> HIDE DEF x
<1>4. source[x] \in seen[x] /\ seen[x] \subseteq Contents[x] \cup {Gone}
  BY <1>2 DEF Inputs, MayHold
<1>5. \A c \in seen[x] \ {Gone} : c \in Contents[x] /\ c \in ContentType
  BY <1>2, <1>4, ContentsAssumption
<1> QED
  BY <1>2, <1>3, <1>4, <1>5 DEF x

\* The file at work.
LEMMA AtWork ==
  ASSUME ParsingInv, AtFile
  PROVE  /\ IsListing(listing) /\ position \in 1 .. Len(listing)
         /\ position + 1 \in 1 .. Len(listing) + 1
         /\ source[Current.path] \in seen[Current.path]
         /\ IsParsed(Current) => \A c \in seen[Current.path] \ {Gone} :
              c \in ContentType /\ IsTreeOf(Current.language, c.tree)
         /\ Results(listing, seen, position, parsed, skipped, errors)
<1>1. /\ IsListing(listing)
      /\ \A m \in 1 .. Len(listing) :
           /\ listing[m].path \in Path
           /\ source[listing[m].path] \in seen[listing[m].path]
           /\ IsParsed(listing[m]) => \A c \in seen[listing[m].path] \ {Gone} :
                c \in ContentType /\ IsTreeOf(listing[m].language, c.tree)
  BY HeldContents DEF ParsingInv
<1>2. Len(listing) \in Nat
  BY <1>1, ListingFiles
<1>3. position \in 1 .. Len(listing) /\ position + 1 \in 1 .. Len(listing) + 1
  BY <1>2 DEF ParsingInv, Places, AtFile
<1>4. /\ source[listing[position].path] \in seen[listing[position].path]
      /\ IsParsed(listing[position]) => \A c \in seen[listing[position].path] \ {Gone} :
           c \in ContentType /\ IsTreeOf(listing[position].language, c.tree)
  BY <1>1, <1>3
<1>5. Results(listing, seen, position, parsed, skipped, errors)
  BY DEF ParsingInv
<1> QED
  BY <1>1, <1>3, <1>4, <1>5 DEF Current

\* A file is done with.
LEMMA InvAdvance ==
  ASSUME ParsingInv, position + 1 \in 1 .. Len(listing) + 1, Advance, stage' = "files",
         UNCHANGED <<outside, visitor>>,
         Results(listing, seen, position + 1, parsed', skipped', errors')
  PROVE  ParsingInv'
<1>1. Inputs'
  BY DEF ParsingInv, Inputs, outside
<1>2. Places'
  BY DEF Places, Advance, outside
<1>3. Visitor'
  BY DEF ParsingInv, Visitor, visitor
<1>4. Walk'
  BY DEF Walk
<1>5. Results(listing', seen', position', parsed', skipped', errors')
  BY DEF Advance, outside
<1> QED
  BY <1>1, <1>2, <1>3, <1>4, <1>5 DEF ParsingInv

\* One lemma for each action.
LEMMA InvSkipFile ==
  ASSUME ParsingInv, SkipFile
  PROVE  ParsingInv'
<1>1. /\ IsListing(listing) /\ position \in 1 .. Len(listing)
      /\ position + 1 \in 1 .. Len(listing) + 1
      /\ Results(listing, seen, position, parsed, skipped, errors)
  BY AtWork DEF SkipFile
<1>2. /\ ~ IsSource(listing[position]) => Results(listing, seen, position + 1, parsed, skipped, errors)
      /\ IsSource(listing[position]) /\ ~ IsParsed(listing[position]) =>
           Results(listing, seen, position + 1, parsed, Append(skipped, listing[position].path), errors)
  BY <1>1, ResultsPass
<1>3. /\ IsSource(listing[position]) => ~ IsParsed(listing[position])
      /\ skipped' = IF IsSource(listing[position]) THEN Append(skipped, listing[position].path) ELSE skipped
      /\ Advance /\ stage' = "files" /\ parsed' = parsed /\ errors' = errors
      /\ UNCHANGED <<outside, visitor>>
  BY DEF SkipFile, AtFile, Current, IsSource, IsParsed
<1>4. Results(listing, seen, position + 1, parsed', skipped', errors')
  BY <1>2, <1>3
<1> QED
  BY <1>1, <1>3, <1>4, InvAdvance

LEMMA InvReadFails ==
  ASSUME ParsingInv, ReadFails
  PROVE  ParsingInv'
<1>1. /\ IsListing(listing) /\ position \in 1 .. Len(listing)
      /\ position + 1 \in 1 .. Len(listing) + 1
      /\ source[Current.path] \in seen[Current.path]
      /\ Results(listing, seen, position, parsed, skipped, errors)
  BY AtWork DEF ReadFails
<1>2. /\ IsParsed(listing[position]) /\ Gone \in seen[listing[position].path]
      /\ errors' = Append(errors, listing[position].path)
      /\ Advance /\ stage' = "files" /\ parsed' = parsed /\ skipped' = skipped
      /\ UNCHANGED <<outside, visitor>>
  BY <1>1 DEF ReadFails, AtFile, Current, ReportUnreadable
<1>3. Results(listing, seen, position + 1, parsed, skipped, Append(errors, listing[position].path))
  BY <1>1, <1>2, ResultsUnreadable
<1>4. Results(listing, seen, position + 1, parsed', skipped', errors')
  BY <1>2, <1>3
<1> QED
  BY <1>1, <1>2, <1>4, InvAdvance

LEMMA Inv_parse_with_treesitter ==
  ASSUME ParsingInv, parse_with_treesitter
  PROVE  ParsingInv'
<1> DEFINE l == listing[position]
           c == source[l.path]
           nothing == [path |-> l.path, symbols |-> Nothing, failed |-> TRUE]
           failed == ~ c.correct
           symbols == Extract(l.language, c.tree)
           extracted == [path |-> l.path, symbols |-> symbols, failed |-> failed]
           p == IF Depth(c.tree) > MaxDepth THEN nothing ELSE extracted
<1>1. /\ IsListing(listing) /\ position \in 1 .. Len(listing)
      /\ position + 1 \in 1 .. Len(listing) + 1
      /\ c \in seen[l.path]
      /\ IsParsed(l) => \A d \in seen[l.path] \ {Gone} :
           d \in ContentType /\ IsTreeOf(l.language, d.tree)
      /\ Results(listing, seen, position, parsed, skipped, errors)
  BY AtWork DEF parse_with_treesitter, Current
<1>2. /\ IsParsed(l) /\ l.language # "Python" /\ c # Gone
      /\ parsed' = Append(parsed, p)
      /\ Advance /\ stage' = "files" /\ skipped' = skipped /\ errors' = errors
      /\ UNCHANGED <<outside, visitor>>
  BY DEF parse_with_treesitter, AtFile, Current, ParsedFile
<1>3. l.language \in EXTRACTORS
  BY <1>2 DEF IsParsed, SUPPORTED_LANGUAGES
<1>4. c \in seen[l.path] \ {Gone} /\ c \in ContentType /\ IsTreeOf(l.language, c.tree)
  BY <1>1, <1>2
<1> HIDE DEF c
<1>5. failed \in BOOLEAN /\ (failed => ~ c.correct)
  OBVIOUS
<1>6. symbols \in Symbols /\ Describes(symbols, l.language, c.tree)
  BY <1>3, <1>4, ExtractDescribes
<1> HIDE DEF failed, symbols
<1>7. p \in ParsedSet /\ p.path = l.path /\ Declared(listing, seen, p) /\ Failing(seen, p)
  <2>1. CASE Depth(c.tree) > MaxDepth
    <3> HIDE DEF nothing, extracted
    <3>1. p = nothing
      BY <2>1
    <3>2. /\ nothing \in ParsedSet /\ nothing.path = l.path /\ Declared(listing, seen, nothing)
          /\ Failing(seen, nothing)
      BY <1>1, <1>4, <2>1, NothingResult DEF nothing
    <3> QED
      BY <3>1, <3>2
  <2>2. CASE ~ (Depth(c.tree) > MaxDepth)
    <3> HIDE DEF nothing, extracted
    <3>1. p = extracted
      BY <2>2
    <3>2. /\ extracted \in ParsedSet /\ extracted.path = l.path
          /\ Declared(listing, seen, extracted) /\ Failing(seen, extracted)
      BY <1>1, <1>4, <1>5, <1>6, DescribedResult DEF extracted
    <3> QED
      BY <3>1, <3>2
  <2> QED
    BY <2>1, <2>2
<1> HIDE DEF p
<1>8. Results(listing, seen, position + 1, Append(parsed, p), skipped, errors)
  BY <1>1, <1>2, <1>7, ResultsParsed
<1>9. Results(listing, seen, position + 1, parsed', skipped', errors')
  BY <1>2, <1>8
<1> QED
  BY <1>1, <1>2, <1>9, InvAdvance

LEMMA InvPythonFails ==
  ASSUME ParsingInv, PythonFails
  PROVE  ParsingInv'
<1> DEFINE l == listing[position]
           c == source[l.path]
           p == [path |-> l.path, symbols |-> Nothing, failed |-> TRUE]
<1>1. /\ IsListing(listing) /\ position \in 1 .. Len(listing)
      /\ position + 1 \in 1 .. Len(listing) + 1
      /\ c \in seen[l.path]
      /\ Results(listing, seen, position, parsed, skipped, errors)
  BY AtWork DEF PythonFails, Current
<1>2. /\ IsParsed(l) /\ c # Gone /\ (~ c.correct \/ ~ c.decodes)
      /\ parsed' = Append(parsed, p)
      /\ Advance /\ stage' = "files" /\ skipped' = skipped /\ errors' = errors
      /\ UNCHANGED <<outside, visitor>>
  BY DEF PythonFails, AtFile, Current, ParsedFile
<1>3. c \in seen[l.path] \ {Gone}
  BY <1>1, <1>2
<1> HIDE DEF c, p
<1>4. p \in ParsedSet /\ p.path = l.path /\ Declared(listing, seen, p) /\ Failing(seen, p)
  BY <1>1, <1>2, <1>3, NothingResult DEF p
<1>5. Results(listing, seen, position + 1, Append(parsed, p), skipped, errors)
  BY <1>1, <1>2, <1>4, ResultsParsed
<1>6. Results(listing, seen, position + 1, parsed', skipped', errors')
  BY <1>2, <1>5
<1> QED
  BY <1>1, <1>2, <1>6, InvAdvance

\* The steps of a visit leave all but the visitor.
LEMMA InvVisit ==
  ASSUME ParsingInv, UNCHANGED <<outside, position, parsed, skipped, errors>>,
         stage' \in {"files", "python", "returned", "raised"}, Visitor', Walk'
  PROVE  ParsingInv'
<1>1. Inputs'
  BY DEF ParsingInv, Inputs, outside
<1>2. Places'
  BY DEF ParsingInv, Places, outside
<1>3. Results(listing', seen', position', parsed', skipped', errors')
  BY DEF ParsingInv, outside
<1> QED
  BY <1>1, <1>2, <1>3 DEF ParsingInv

LEMMA InvStartVisit ==
  ASSUME ParsingInv, StartVisit
  PROVE  ParsingInv'
<1> DEFINE l == listing[position]
           c == source[l.path]
<1>1. /\ IsListing(listing) /\ position \in 1 .. Len(listing)
      /\ c \in seen[l.path]
      /\ IsParsed(l) => \A d \in seen[l.path] \ {Gone} :
           d \in ContentType /\ IsTreeOf(l.language, d.tree)
  BY AtWork DEF StartVisit, Current
<1>2. /\ IsParsed(l) /\ l.language = "Python" /\ c # Gone /\ stage' = "python"
      /\ tree' = c.tree /\ open' = <<0>> /\ next' = 1 /\ class_stack' = <<>> /\ found' = Nothing
      /\ UNCHANGED <<outside, position, parsed, skipped, errors>>
  BY DEF StartVisit, Current
<1>3. c \in seen[l.path] \ {Gone} /\ c \in ContentType /\ IsTreeOf("Python", c.tree)
  BY <1>1, <1>2
<1> HIDE DEF c
<1>4. PythonAt(listing, seen, position, c.tree)
  BY <1>1, <1>2, <1>3 DEF PythonAt
<1>5. VisitState(c.tree, <<0>>, 1, <<>>, Nothing)
  BY <1>3, VisitStarts
<1>6. c.tree \in Seq(Node)
  BY <1>3 DEF ContentType
<1>7. VisitState(tree', open', next', class_stack', found')
  BY <1>2, <1>5
<1>8. Visitor'
  BY <1>2, <1>6, <1>7 DEF VisitState, Visitor
<1>9. PythonAt(listing', seen', position', tree')
  BY <1>2, <1>4 DEF outside
<1>10. Walk'
  BY <1>7, <1>9 DEF VisitState, Walk
<1> QED
  BY <1>2, <1>8, <1>10, InvVisit

\* During a visit.
LEMMA AtVisit ==
  ASSUME ParsingInv, stage = "python"
  PROVE  /\ PythonAt(listing, seen, position, tree) /\ IsTreeOf("Python", tree)
         /\ VisitState(tree, open, next, class_stack, found)
         /\ HasChild <=> IsChild(tree, open, next)
<1>1. PythonAt(listing, seen, position, tree) /\ Visiting(tree, open, next, class_stack, found)
  BY DEF ParsingInv, Walk
<1>2. PICK c \in seen[listing[position].path] \ {Gone} : c.tree = tree
  BY <1>1 DEF PythonAt
<1>3. IsTreeOf(listing[position].language, c.tree)
  BY <1>1, <1>2, HeldContents DEF ParsingInv, PythonAt
<1>4. IsTreeOf("Python", tree)
  BY <1>1, <1>2, <1>3 DEF PythonAt
<1>5. VisitState(tree, open, next, class_stack, found)
  BY <1>1 DEF ParsingInv, Visitor, VisitState
<1> QED
  BY <1>1, <1>4, <1>5 DEF HasChild, IsChild

\* The visitor moves.
LEMMA InvMove ==
  ASSUME ParsingInv, stage = "python", UNCHANGED <<outside, stage, position, tree, parsed, skipped, errors>>,
         VisitState(tree, open', next', class_stack', found')
  PROVE  ParsingInv'
<1>1. PythonAt(listing, seen, position, tree) /\ tree \in Seq(Node)
  BY DEF ParsingInv, Walk, Visitor
<1>2. /\ VisitState(tree', open', next', class_stack', found')
      /\ PythonAt(listing', seen', position', tree')
  BY <1>1 DEF outside
<1>3. Visitor'
  BY <1>1, <1>2 DEF VisitState, Visitor
<1>4. Walk'
  BY <1>2 DEF VisitState, Walk
<1> QED
  BY <1>3, <1>4, InvVisit

\* One lemma for each step of the visitor.
LEMMA Inv_visit_ClassDef ==
  ASSUME ParsingInv, visit_ClassDef
  PROVE  ParsingInv'
<1>1. /\ IsTreeOf("Python", tree) /\ VisitState(tree, open, next, class_stack, found)
      /\ IsChild(tree, open, next)
  BY AtVisit DEF visit_ClassDef
<1>2. tree[next].type = "ClassDef"
  BY DEF visit_ClassDef, IsClass
<1>3. VisitState(tree, Append(open, next), next + 1, Append(class_stack, tree[next].name),
        [found EXCEPT !.classes = Append(found.classes, ClassEntity(tree, next, tree[next].names))])
  BY <1>1, <1>2, VisitClass
<1>4. VisitState(tree, open', next', class_stack', found')
  BY <1>3 DEF visit_ClassDef, Descend
<1> QED
  BY <1>4, InvMove DEF visit_ClassDef

LEMMA Inv_visit_function ==
  ASSUME ParsingInv, _visit_function
  PROVE  ParsingInv'
<1> DEFINE parent == IF class_stack = <<>> THEN None ELSE Last(class_stack)
<1>1. /\ IsTreeOf("Python", tree) /\ VisitState(tree, open, next, class_stack, found)
      /\ IsChild(tree, open, next)
  BY AtVisit DEF _visit_function
<1>2. tree[next].type \in {"FunctionDef", "AsyncFunctionDef"}
  BY DEF _visit_function
<1>3. VisitState(tree, Append(open, next), next + 1, class_stack,
        [found EXCEPT !.functions =
           Append(found.functions, FunctionEntity(tree[next].name, next, parent, parent # None))])
  BY <1>1, <1>2, VisitFunction
<1>4. VisitState(tree, open', next', class_stack', found')
  BY <1>3 DEF _visit_function, Descend
<1> QED
  BY <1>4, InvMove DEF _visit_function

LEMMA SingletonTyped ==
  ASSUME NEW A, NEW x \in A
  PROVE  <<x>> \in Seq(A)
OBVIOUS

LEMMA Inv_visit_Import ==
  ASSUME ParsingInv, visit_Import
  PROVE  ParsingInv'
<1> DEFINE module == IF tree[next].scope = "" THEN <<>> ELSE <<tree[next].scope>>
           names == tree[next].names
           imports == found.imports \o [i \in DOMAIN names |-> ImportEntity(next, Append(module, names[i]))]
           recorded == [found EXCEPT !.imports = imports]
<1>1. /\ IsTreeOf("Python", tree) /\ VisitState(tree, open, next, class_stack, found)
      /\ IsChild(tree, open, next)
  BY AtVisit DEF visit_Import
<1>2. tree[next].type \notin {"ClassDef", "FunctionDef", "AsyncFunctionDef"}
  BY DEF visit_Import
<1>3. /\ next \in Nat /\ tree[next].scope \in STRING /\ names \in Seq(STRING)
      /\ found \in Symbols /\ found.imports \in Seq(ImportSet)
  BY <1>1, VisitFacts
<1>4. module \in Seq(STRING)
  <2>1. \A x \in STRING : <<x>> \in Seq(STRING)
    BY SingletonTyped
  <2>2. <<>> \in Seq(STRING)
    BY EmptySeq
  <2> QED
    BY <1>3, <2>1, <2>2
<1> HIDE DEF module
<1>5. imports \in Seq(ImportSet)
  BY <1>3, <1>4, ImportsGrow
<1>6. found' = recorded
  BY DEF visit_Import, Each, module
<1> HIDE DEF names, imports
<1>7. /\ recorded \in Symbols /\ recorded.classes = found.classes
      /\ recorded.functions = found.functions
  BY <1>3, <1>5, SymbolsChanged
<1> HIDE DEF recorded
<1>8. VisitState(tree, Append(open, next), next + 1, class_stack, recorded)
  BY <1>1, <1>2, <1>7, VisitOther
<1>9. VisitState(tree, open', next', class_stack', found')
  BY <1>6, <1>8 DEF visit_Import, Descend
<1> QED
  BY <1>9, InvMove DEF visit_Import

LEMMA Inv_generic_visit ==
  ASSUME ParsingInv, generic_visit
  PROVE  ParsingInv'
<1>1. /\ IsTreeOf("Python", tree) /\ VisitState(tree, open, next, class_stack, found)
      /\ IsChild(tree, open, next)
  BY AtVisit DEF generic_visit
<1>2. tree[next].type \notin {"ClassDef", "FunctionDef", "AsyncFunctionDef"} /\ found \in Symbols
  BY DEF generic_visit, ParsingInv, Visitor
<1>3. VisitState(tree, Append(open, next), next + 1, class_stack, found)
  BY <1>1, <1>2, VisitOther
<1>4. VisitState(tree, open', next', class_stack', found')
  BY <1>3 DEF generic_visit, Descend
<1> QED
  BY <1>4, InvMove DEF generic_visit

LEMMA InvLeave ==
  ASSUME ParsingInv, Leave
  PROVE  ParsingInv'
<1>1. /\ IsTreeOf("Python", tree) /\ VisitState(tree, open, next, class_stack, found)
      /\ ~ IsChild(tree, open, next) /\ Len(open) > 1
  BY AtVisit DEF Leave
<1>2. /\ Last(open) \in 1 .. Len(tree)
      /\ VisitState(tree, Front(open), next,
           IF tree[Last(open)].type = "ClassDef" THEN Front(class_stack) ELSE class_stack, found)
  BY <1>1, VisitLeaves
<1>3. Last(open) # 0
  BY <1>2
<1>4. VisitState(tree, open', next', class_stack', found')
  BY <1>2, <1>3 DEF Leave, IsClass, PopClass
<1> QED
  BY <1>4, InvMove DEF Leave

LEMMA InvFinishVisit ==
  ASSUME ParsingInv, FinishVisit
  PROVE  ParsingInv'
<1> DEFINE l == listing[position]
           p == [path |-> l.path, symbols |-> found, failed |-> FALSE]
<1>1. /\ PythonAt(listing, seen, position, tree) /\ IsTreeOf("Python", tree)
      /\ VisitState(tree, open, next, class_stack, found) /\ ~ IsChild(tree, open, next)
      /\ open = <<0>>
  BY AtVisit DEF FinishVisit
<1>2. Describes(found, "Python", tree)
  <2>1. Len(open) = 1
    BY <1>1
  <2> QED
    BY <1>1, <2>1, VisitEnds
<1>3. PICK c \in seen[l.path] \ {Gone} : c.tree = tree
  BY <1>1 DEF PythonAt
<1>4. /\ IsListing(listing) /\ position \in 1 .. Len(listing) /\ IsParsed(l)
      /\ l.language = "Python"
      /\ Results(listing, seen, position, parsed, skipped, errors) /\ found \in Symbols
  BY <1>1, HeldContents DEF ParsingInv, PythonAt, Visitor
<1>5. position + 1 \in 1 .. Len(listing) + 1
  BY <1>4, ListingFiles
<1>6. /\ parsed' = Append(parsed, p)
      /\ Advance /\ stage' = "files" /\ skipped' = skipped /\ errors' = errors
      /\ UNCHANGED <<outside, visitor>>
  BY DEF FinishVisit, Current, ParsedFile
<1>7. Describes(found, l.language, c.tree) /\ FALSE \in BOOLEAN /\ (FALSE => ~ c.correct)
  BY <1>2, <1>3, <1>4
<1> HIDE DEF p
<1>8. p \in ParsedSet /\ p.path = l.path /\ Declared(listing, seen, p) /\ Failing(seen, p)
  BY <1>4, <1>7, DescribedResult DEF p
<1>9. Results(listing, seen, position + 1, Append(parsed, p), skipped, errors)
  BY <1>4, <1>8, ResultsParsed
<1>10. Results(listing, seen, position + 1, parsed', skipped', errors')
  BY <1>6, <1>9
<1> QED
  BY <1>5, <1>6, <1>10, InvAdvance

\* What ends the call leaves the results as they are.
LEMMA InvEnd ==
  ASSUME ParsingInv, stage' \in {"returned", "raised"},
         UNCHANGED <<outside, position, visitor, parsed, skipped, errors>>
  PROVE  ParsingInv'
<1>1. Visitor'
  BY DEF ParsingInv, Visitor, visitor
<1>2. Walk'
  BY DEF Walk
<1> QED
  BY <1>1, <1>2, InvVisit

\* Somebody changes a file: what has been held stays held.
LEMMA InvChangeFile ==
  ASSUME ParsingInv, NEW p \in ListedPaths(listing), ChangeFile(p)
  PROVE  ParsingInv'
<1>1. PICK v \in MayHold(p) : /\ source' = [source EXCEPT ![p] = v]
                              /\ seen' = [seen EXCEPT ![p] = seen[p] \cup {v}]
  BY DEF ChangeFile
<1>2. UNCHANGED <<listing, stage, position, visitor, parsed, skipped, errors>>
  BY DEF ChangeFile
<1>3. /\ listing \in Listings /\ DOMAIN source = Path /\ DOMAIN seen = Path
      /\ \A q \in Path : source[q] \in seen[q] /\ seen[q] \subseteq MayHold(q)
  BY DEF ParsingInv, Inputs
<1>4. \A q \in Path : seen[q] \subseteq seen'[q]
  BY <1>1, <1>3
<1>5. Inputs'
  <2>1. DOMAIN source' = Path /\ DOMAIN seen' = Path /\ listing' \in Listings
    BY <1>1, <1>2, <1>3
  <2>2. ASSUME NEW q \in Path PROVE source'[q] \in seen'[q] /\ seen'[q] \subseteq MayHold(q)
    <3>1. CASE q = p
      BY <1>1, <1>3, <3>1
    <3>2. CASE q # p
      <4>1. source'[q] = source[q] /\ seen'[q] = seen[q]
        BY <1>1, <1>3, <3>2
      <4> QED
        BY <1>3, <4>1
    <3> QED
      BY <3>1, <3>2
  <2> QED
    BY <2>1, <2>2 DEF Inputs, MayHold
<1>6. Places' /\ Visitor'
  BY <1>2 DEF ParsingInv, Places, Visitor, visitor
<1>7. Results(listing', seen', position', parsed', skipped', errors')
  <2>1. Results(listing, seen, position, parsed, skipped, errors)
    BY DEF ParsingInv
  <2>2. Results(listing, seen', position, parsed, skipped, errors)
    BY <1>4, <2>1, ResultsKept
  <2> QED
    BY <1>2, <2>2
<1>8. Walk'
  <2> SUFFICES ASSUME stage = "python"
               PROVE  /\ PythonAt(listing, seen', position, tree)
                      /\ Visiting(tree, open, next, class_stack, found)
    BY <1>2 DEF Walk, visitor
  <2>1. PythonAt(listing, seen, position, tree) /\ Visiting(tree, open, next, class_stack, found)
    BY DEF ParsingInv, Walk
  <2>2. listing[position].path \in Path
    BY <2>1, HeldContents DEF ParsingInv, PythonAt
  <2>3. PythonAt(listing, seen', position, tree)
    BY <1>4, <2>1, <2>2 DEF PythonAt
  <2> QED
    BY <2>1, <2>3
<1> QED
  BY <1>5, <1>6, <1>7, <1>8 DEF ParsingInv

LEMMA InvParsingInit == ParsingInit => ParsingInv
<1> SUFFICES ASSUME ParsingInit PROVE ParsingInv
  OBVIOUS
<1>1. /\ listing \in Listings /\ stage = "files" /\ position = 1
      /\ tree = <<>> /\ open = <<0>> /\ next = 1 /\ class_stack = <<>> /\ found = Nothing
      /\ parsed = <<>> /\ skipped = <<>> /\ errors = <<>>
      /\ seen = [p \in Path |-> {source[p]}]
  BY DEF ParsingInit
<1>2. IsListing(listing) /\ Len(listing) \in Nat
  <2>1. IsListing(listing)
    BY <1>1, ListingsAssumption DEF IsListing
  <2> QED
    BY <2>1, ListingFiles
<1>3. DOMAIN source = Path /\ \A p \in Path : source[p] \in MayHold(p)
  <2>1. PICK held \in [ListedPaths(listing) -> UNION {MayHold(p) : p \in Path}] :
          /\ \A p \in DOMAIN held : held[p] \in MayHold(p)
          /\ source = [p \in Path |-> IF p \in DOMAIN held THEN held[p] ELSE Gone]
    BY DEF ParsingInit
  <2>2. \A p \in Path : Gone \in MayHold(p)
    BY DEF MayHold
  <2> QED
    BY <2>1, <2>2
<1>4. Inputs
  BY <1>1, <1>3 DEF Inputs
<1>5. Places /\ Walk
  BY <1>1, <1>2 DEF Places, Walk
<1>6. Visitor
  <2>1. <<>> \in Seq(Node) /\ <<>> \in Seq(STRING) /\ Len(<<>>) = 0
    BY EmptySeq
  <2>2. <<0>> \in Seq(0 .. 0) /\ 1 \in 1 .. 0 + 1
    OBVIOUS
  <2> QED
    BY <1>1, <2>1, <2>2, NothingTyped DEF Visitor
<1>7. Results(listing, seen, position, parsed, skipped, errors)
  BY <1>1, <1>2, ResultsStart
<1> QED
  BY <1>4, <1>5, <1>6, <1>7 DEF ParsingInv

LEMMA InvParsingNext == ParsingInv /\ [ParsingNext]_parsing_vars => ParsingInv'
<1> SUFFICES ASSUME ParsingInv, [ParsingNext]_parsing_vars PROVE ParsingInv'
  OBVIOUS
<1>1. CASE SkipFile
  BY <1>1, InvSkipFile
<1>2. CASE ReadFails
  BY <1>2, InvReadFails
<1>3. CASE parse_with_treesitter
  BY <1>3, Inv_parse_with_treesitter
<1>4. CASE PythonFails
  BY <1>4, InvPythonFails
<1>5. CASE StartVisit
  BY <1>5, InvStartVisit
<1>6. CASE visit_ClassDef
  BY <1>6, Inv_visit_ClassDef
<1>7. CASE _visit_function
  BY <1>7, Inv_visit_function
<1>8. CASE visit_Import
  BY <1>8, Inv_visit_Import
<1>9. CASE generic_visit
  BY <1>9, Inv_generic_visit
<1>10. CASE Leave
  BY <1>10, InvLeave
<1>11. CASE FinishVisit
  BY <1>11, InvFinishVisit
<1>12. CASE RunOutOfStack
  BY <1>12, InvEnd DEF RunOutOfStack
<1>13. CASE Return
  BY <1>13, InvEnd DEF Return
<1>14. CASE \E p \in ListedPaths(listing) : ChangeFile(p)
  BY <1>14, InvChangeFile
<1>15. CASE UNCHANGED parsing_vars
  <2>1. UNCHANGED <<outside, stage, position, visitor, parsed, skipped, errors>>
    BY <1>15 DEF parsing_vars, outside, visitor
  <2>2. stage' \in {"files", "python", "returned", "raised"}
    BY <2>1 DEF ParsingInv, Places
  <2>3. Visitor' /\ Walk'
    BY <2>1 DEF ParsingInv, Visitor, Walk, outside, visitor
  <2> QED
    BY <2>1, <2>2, <2>3, InvVisit
<1> QED
  BY <1>1, <1>2, <1>3, <1>4, <1>5, <1>6, <1>7, <1>8, <1>9, <1>10, <1>11, <1>12, <1>13, <1>14, <1>15
     DEF ParsingNext

LEMMA ParsingInvariance == ParsingSpec => []ParsingInv
<1>1. ParsingInit => ParsingInv
  BY InvParsingInit
<1>2. ParsingInv /\ [ParsingNext]_parsing_vars => ParsingInv'
  BY InvParsingNext
<1> QED
  BY <1>1, <1>2, PTL DEF ParsingSpec

\* ParsingService and its visitor keep to the types of their data: no function
\* gets a class with an empty name, and no node outside the tree is looked at.
THEOREM ParsingTypeCorrect == ParsingSpec => []ParsingTypeOK
<1>1. ParsingInv => ParsingTypeOK
  <2> SUFFICES ASSUME ParsingInv PROVE ParsingTypeOK
    OBVIOUS
  <2>1. /\ listing \in Listings
        /\ \A p \in Path : source[p] \in MayHold(p) /\ seen[p] \subseteq MayHold(p)
    BY DEF ParsingInv, Inputs
  <2>2. /\ parsed \in Seq([path : Path, symbols : Symbols, failed : BOOLEAN])
        /\ skipped \in Seq(Path) /\ errors \in Seq(Path)
    BY DEF ParsingInv, Results, ParsedSet
  <2> QED
    BY <2>1, <2>2 DEF ParsingInv, Places, Visitor, ParsingTypeOK
<1>2. ParsingSpec => []ParsingInv
  BY ParsingInvariance
<1> QED
  BY <1>1, <1>2, PTL

\* What is recorded of a file is what one content that it had during the call
\* declares, whatever the files are, whatever language they are in and however
\* they are changed.
THEOREM DeclaredSymbolsRecorded == ParsingSpec => []SymbolsAreThoseDeclared
<1>1. ParsingInv => SymbolsAreThoseDeclared
  <2> SUFFICES ASSUME ParsingInv PROVE SymbolsAreThoseDeclared
    OBVIOUS
  <2>1. /\ parsed \in Seq(ParsedSet)
        /\ \A i \in 1 .. Len(parsed) : Declared(listing, seen, parsed[i])
    BY DEF ParsingInv, Results
  <2>2. DOMAIN parsed = 1 .. Len(parsed)
    BY <2>1, LenProperties
  <2>3. \A x : LanguageIn(listing, x) = LanguageOf(x)
    BY DEF LanguageIn, LanguageOf
  <2> QED
    BY <2>1, <2>2, <2>3 DEF Declared, SymbolsAreThoseDeclared
<1>2. ParsingSpec => []ParsingInv
  BY ParsingInvariance
<1> QED
  BY <1>1, <1>2, PTL

\* Every source file that has been looked at is in just one of the three lists,
\* once and in order, as unreadable or wrong only if it was.
THEOREM FilesAccountedFor == ParsingSpec => []FilesAreAccountedFor
<1>1. ParsingInv => FilesAreAccountedFor
  <2> SUFFICES ASSUME ParsingInv PROVE FilesAreAccountedFor
    OBVIOUS
  <2>1. /\ parsed \in Seq(ParsedSet) /\ errors \in Seq(Path)
        /\ \A i \in 1 .. Len(parsed) : Failing(seen, parsed[i])
        /\ \A i \in 1 .. Len(errors) : Gone \in seen[errors[i]]
        /\ Filed(listing, position, ParsedPaths(parsed), skipped, errors)
    BY DEF ParsingInv, Results
  <2>2. DOMAIN parsed = 1 .. Len(parsed) /\ DOMAIN errors = 1 .. Len(errors)
    BY <2>1, LenProperties
  <2>3. Unreadable
    BY <2>1, <2>2 DEF Unreadable, Range
  <2>4. Failed
    BY <2>1, <2>2 DEF Failed, Failing, Range
  <2> QED
    BY <2>1, <2>3, <2>4, AccountedFor
<1>2. ParsingSpec => []ParsingInv
  BY ParsingInvariance
<1> QED
  BY <1>1, <1>2, PTL
=============================================================================
