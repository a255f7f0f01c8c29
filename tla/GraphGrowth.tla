---------------------------- MODULE GraphGrowth ----------------------------
(***************************************************************************)
(* What building a knowledge graph promises, however many builders write   *)
(* to it and wherever one of them stops: a builder works on one snapshot   *)
(* of the repository, adds only what that snapshot allows, takes nothing   *)
(* away, and returns only when all that the snapshot calls for is there.   *)
(* The builder of graph/builder.py (GraphBuilder) is shown to implement    *)
(* this specification.                                                     *)
(***************************************************************************)
CONSTANTS
  Builder,           \* whoever builds the graph of this repository
  NoJob,             \* no build under way
  Snapshot,          \* what a builder may have read of the repository
  ExpectedNodes(_),  \* the nodes a snapshot calls for
  ExpectedEdges(_),  \* the relationships it calls for
  AllowedEdges(_)    \* the relationships it allows

VARIABLES
  nodes,      \* the nodes of the graph
  edges,      \* its relationships
  job,        \* the snapshot each builder writes
  phase       \* what each builder does, or how its last build came out

vars == <<nodes, edges, job, phase>>

Init ==
  /\ nodes = {}
  /\ edges = {}
  /\ job = [b \in Builder |-> NoJob]
  /\ phase = [b \in Builder |-> "idle"]

Enter(b, p) == phase' = [phase EXCEPT ![b] = p]

\* A builder looks at the repository, which touches nothing.
Read(b) ==
  /\ phase[b] \notin {"parse", "build"}
  /\ Enter(b, "parse")
  /\ UNCHANGED <<nodes, edges, job>>

\* It has seen a snapshot and starts to write it.
Begin(b) ==
  /\ phase[b] # "build"
  /\ job'[b] \in Snapshot
  /\ job' = [job EXCEPT ![b] = job'[b]]
  /\ Enter(b, "build")
  /\ UNCHANGED <<nodes, edges>>

\* No edge is drawn to a node that is not there.
Grow(b) ==
  /\ phase[b] = "build"
  /\ nodes \subseteq nodes' /\ nodes' \subseteq nodes \cup ExpectedNodes(job[b])
  /\ edges \subseteq edges' /\ edges' \subseteq edges \cup AllowedEdges(job[b])
  /\ \A e \in edges' : e.from \in nodes' /\ e.to \in nodes'
  /\ UNCHANGED <<job, phase>>

Finish(b) ==
  /\ phase[b] = "build"
  /\ ExpectedNodes(job[b]) \subseteq nodes
  /\ ExpectedEdges(job[b]) \subseteq edges
  /\ job' = [job EXCEPT ![b] = NoJob]
  /\ Enter(b, "built")
  /\ UNCHANGED <<nodes, edges>>

\* A statement fails or the process dies; what was written stays.
Abandon(b) ==
  /\ phase[b] \in {"parse", "build"}
  /\ job' = [job EXCEPT ![b] = NoJob]
  /\ Enter(b, "failed")
  /\ UNCHANGED <<nodes, edges>>

Next ==
  \E b \in Builder : Read(b) \/ Begin(b) \/ Grow(b) \/ Finish(b) \/ Abandon(b)

Spec == Init /\ [][Next]_vars
=============================================================================
