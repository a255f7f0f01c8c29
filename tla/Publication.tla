----------------------------- MODULE Publication -----------------------------
(***************************************************************************)
(* What GitHub may see of a client that asks before it writes: a branch    *)
(* grows by commits that were granted, at any time after they were; a pull *)
(* request is opened at most once, for a granted pair of branches; nothing *)
(* that is published is ever taken back.                                   *)
(***************************************************************************)
EXTENDS Sequences, SequencesExt

CONSTANTS
  Branch,      \* names of branches
  Commit       \* commits, of this client and of others

VARIABLES
  heads,       \* the history of each branch, empty for one that is not there
  pulls,       \* the pull requests
  granted      \* what somebody has authorized or approved so far

vars == <<heads, pulls, granted>>

PushOf(b, history) == [kind |-> "push", branch |-> b, history |-> history]
PullOf(head, base) == [kind |-> "pull", head |-> head, base |-> base]

Init ==
  /\ heads \in [Branch -> Seq(Commit)]
  /\ pulls = {}
  /\ granted = {}

Grants ==
  [kind : {"push"}, branch : Branch, history : Seq(Commit)]
    \cup [kind : {"pull"}, head : Branch, base : Branch]

\* Somebody upstream has decided.
Grant ==
  /\ granted \subseteq granted'
  /\ \A p \in granted' : p \in Grants
  /\ UNCHANGED <<heads, pulls>>

Grow(b, history) ==
  /\ IsStrictPrefix(heads[b], history)
  /\ heads' = [heads EXCEPT ![b] = history]
  /\ UNCHANGED <<pulls, granted>>

Publish(b) == \E p \in granted : p.kind = "push" /\ p.branch = b /\ Grow(b, p.history)

OpenPull ==
  /\ \E p \in granted \ pulls : p.kind = "pull" /\ pulls' = pulls \cup {p}
  /\ UNCHANGED <<heads, granted>>

\* Other people push one commit.
Others(b) == \E x \in Commit : Grow(b, Append(heads[b], x))

Next ==
  \/ Grant
  \/ \E b \in Branch : Publish(b) \/ Others(b)
  \/ OpenPull

Spec == Init /\ [][Next]_vars
=============================================================================
