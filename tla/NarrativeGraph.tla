--------------------------- MODULE NarrativeGraph ---------------------------
(***************************************************************************)
(* The decision record as a value: the graph crates/graph/src/lib.rs       *)
(* builds, one node per session (its anchor) and one per command, each     *)
(* command linked to its session by a "ran" edge.  Nodes are kept in the   *)
(* order they were first inserted, which is what pruning calls their age.  *)
(*                                                                         *)
(* A node's attributes are reduced to its event (the hook_event_hash) and  *)
(* to whose decision it holds; categories, OWASP ids and "next" edges are  *)
(* left out.  A graph's serialised size is that of its nodes.              *)
(***************************************************************************)
EXTENDS Naturals, Sequences, FiniteSets

CONSTANTS
    MaxNodes,      \* MAX_NODES
    MaxBytes,      \* MAX_BYTES
    SessionBytes,  \* the size of a session node
    CommandBytes,  \* the size of a command node
    Share,         \* the byte budget drops one Share-th of the nodes: 10
    NoEvent,       \* the event of a hook that was sent no event id
    Nobody         \* what the anchor of a session holds the decision of

ASSUME GraphAssumption ==
    /\ {MaxNodes, MaxBytes, SessionBytes, CommandBytes, Share} \subseteq Nat
    /\ Share > 0

EmptyGraph == [nodes |-> <<>>, ran |-> {}]

Anchor(s) == [kind |-> "session", session |-> s, seq |-> 0,
              event |-> NoEvent, by |-> Nobody]

Command(s, n, e, by) == [kind |-> "command", session |-> s, seq |-> n,
                         event |-> e, by |-> by]

IsSession(node) == node.kind = "session"

NodesOf(g) == {g.nodes[i] : i \in DOMAIN g.nodes}

Commands(g) == {node \in NodesOf(g) : ~IsSession(node)}

CommandsOf(g, s) == {node \in Commands(g) : node.session = s}

\* A node's id: session:<s>, or cmd:<s>:<seq>.
Id(node) == <<node.kind, node.session, node.seq>>

Ids(nodes) == {Id(nodes[i]) : i \in DOMAIN nodes}

\* Whose decisions a graph holds.
Decisions(g) == {node.by : node \in Commands(g)}

----------------------------------------------------------------------------
(* Faulty variants, each of the operator it is named after.                *)

\* The next index is how many commands the session has.
NextSeqCounts(g, s) == Cardinality(CommandsOf(g, s))

\* A redelivered event is not looked for.
RecordedUnasked(g, e) == FALSE

\* The oldest nodes go, the anchors of sessions among them.
DropOldestAnchors(g, count) ==
    LET dropped == Ids(SubSeq(g.nodes, 1, count))
    IN [nodes |-> SubSeq(g.nodes, count + 1, Len(g.nodes)),
        ran |-> {e \in g.ran : e[1] \notin dropped /\ e[2] \notin dropped}]

----------------------------------------------------------------------------
\* A node with an existing id is changed where it stands, a new one appended.
Upsert(nodes, node) ==
    IF Id(node) \in Ids(nodes)
      THEN [i \in DOMAIN nodes |->
               IF Id(nodes[i]) = Id(node) THEN node ELSE nodes[i]]
      ELSE Append(nodes, node)

\* next_seq: one past the highest index the session has.
NextSeq(g, s) ==
    CHOOSE n \in {0} \cup {node.seq + 1 : node \in CommandsOf(g, s)} :
        \A node \in CommandsOf(g, s) : node.seq < n

\* ingest_record_with_origin's test: this event has its command already.
Recorded(g, e) == e # NoEvent /\ \E node \in Commands(g) : node.event = e

\* ingest_verdict_with_origin, at the session's next index.
Ingest(g, s, e, by) ==
    LET command == Command(s, NextSeq(g, s), e, by)
    IN [nodes |-> Upsert(Upsert(g.nodes, Anchor(s)), command),
        ran |-> g.ran \cup {<<Id(Anchor(s)), Id(command)>>}]

\* The anchors among some nodes, in their order.
AnchorsOf(nodes) ==
    LET kept[i \in 0 .. Len(nodes)] ==
            IF i = 0 THEN <<>>
            ELSE IF IsSession(nodes[i]) THEN Append(kept[i - 1], nodes[i])
            ELSE kept[i - 1]
    IN kept[Len(nodes)]

\* drop_oldest: the count oldest nodes go, but for the anchors among them,
\* which stay at the front; so do the edges of the nodes that went.
DropOldest(g, count) ==
    LET oldest == SubSeq(g.nodes, 1, count)
        dropped == {id \in Ids(oldest) : id[1] # "session"}
    IN [nodes |-> AnchorsOf(oldest) \o SubSeq(g.nodes, count + 1, Len(g.nodes)),
        ran |-> {e \in g.ran : e[1] \notin dropped /\ e[2] \notin dropped}]

\* prune's first part: the cap on the number of nodes.
WithinNodeCap(g) ==
    IF Len(g.nodes) > MaxNodes
      THEN DropOldest(g, Len(g.nodes) - MaxNodes)
      ELSE g

Bytes(g) ==
    Len(AnchorsOf(g.nodes)) * SessionBytes
      + (Len(g.nodes) - Len(AnchorsOf(g.nodes))) * CommandBytes

\* prune's second part is a loop: its condition, and one pass of it.
OverByteBudget(g) == Len(g.nodes) > 1 /\ Bytes(g) > MaxBytes

DropShare(g) ==
    DropOldest(g, IF Len(g.nodes) < Share THEN 1 ELSE Len(g.nodes) \div Share)

\* Every command of a graph is reached from the anchor of its session, and
\* every edge joins two nodes of the graph.
Linked(g) ==
    /\ \A node \in Commands(g) :
           /\ Anchor(node.session) \in NodesOf(g)
           /\ <<Id(Anchor(node.session)), Id(node)>> \in g.ran
    /\ \A e \in g.ran : {e[1], e[2]} \subseteq Ids(g.nodes)

\* No two commands are of one event.
EventsOnce(g) ==
    \A a, b \in Commands(g) : a.event = b.event /\ a.event # NoEvent => a = b

IsNode(node) ==
    \/ node = Anchor(node.session)
    \/ /\ node.seq \in Nat
       /\ node = Command(node.session, node.seq, node.event, node.by)

\* A graph as ingestion and pruning build it.
WellFormed(g) ==
    /\ g.nodes \in Seq(NodesOf(g))
    /\ \A node \in NodesOf(g) : IsNode(node)
    /\ \A i, j \in DOMAIN g.nodes :
           ~IsSession(g.nodes[i]) /\ Id(g.nodes[i]) = Id(g.nodes[j]) => i = j
    /\ Linked(g)
    /\ EventsOnce(g)
=============================================================================
