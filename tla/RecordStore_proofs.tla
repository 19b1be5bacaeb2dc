------------------------- MODULE RecordStore_proofs -------------------------
(***************************************************************************)
(* Theorems about RecordStore, for any hooks, sessions and events, any     *)
(* budgets of the graph and any well-formed graph there before: what       *)
(* ingestion and pruning keep of a graph, what the graph lock keeps out,   *)
(* what a replacement may undo, and that nothing recorded or corrupt goes. *)
(***************************************************************************)
EXTENDS RecordStore, SequenceTheorems, WellFoundedInduction, TLAPS

-----------------------------------------------------------------------------
(* The record as a value: what ingestion and pruning keep of a graph.      *)

\* Every non-empty set of naturals has a least element.
LEMMA NatMin ==
    ASSUME NEW T \in SUBSET Nat, T # {}
    PROVE  \E m \in T : \A n \in T : m <= n
<1>1. \E m \in T : \A n \in T : ~(<<n, m>> \in OpToRel(<, Nat))
  BY NatLessThanWellFounded, WFMin, Zenon
<1>2. \A m, n \in Nat : n < m => <<n, m>> \in OpToRel(<, Nat)
  BY Zenon DEF OpToRel
<1>3. PICK m \in T : \A n \in T : ~(<<n, m>> \in OpToRel(<, Nat))
  BY <1>1
<1>4. \A n \in T : ~(n < m)
  BY <1>2, <1>3
<1> QED
  BY <1>4

\* The function AnchorsOf reads exists: its value is determined node by node.
LEMMA AnchorsDefined ==
    ASSUME NEW S, NEW s \in Seq(S)
    PROVE  \E f : f = [i \in 0 .. Len(s) |->
                         IF i = 0 THEN <<>>
                         ELSE IF IsSession(s[i]) THEN Append(f[i - 1], s[i])
                         ELSE f[i - 1]]
<1> DEFINE N == Len(s)
           Value(f, i) == IF i = 0 THEN <<>>
                          ELSE IF IsSession(s[i]) THEN Append(f[i - 1], s[i])
                          ELSE f[i - 1]
           Upto(m) == \E f : f = [i \in 0 .. m |-> Value(f, i)]
           T == {m \in 0 .. N : ~Upto(m)}
<1>1. N \in Nat /\ T \in SUBSET Nat
  OBVIOUS
<1>2. Upto(0)
  <2>1. [i \in 0 .. 0 |-> <<>>] = [i \in 0 .. 0 |-> Value([j \in 0 .. 0 |-> <<>>], i)]
    OBVIOUS
  <2> QED
    BY <2>1
<1>3. ASSUME NEW m \in 1 .. N, Upto(m - 1) PROVE Upto(m)
  <2>1. PICK f : f = [i \in 0 .. m - 1 |-> Value(f, i)]
    BY <1>3
  <2> DEFINE g == [i \in 0 .. m |-> IF i = m THEN Value(f, m) ELSE f[i]]
  <2>2. \A i \in 0 .. m : g[i] = Value(g, i)
    <3> TAKE i \in 0 .. m
    <3>1. i # 0 => i - 1 \in 0 .. m /\ i - 1 # m /\ g[i - 1] = f[i - 1]
      BY <1>1
    <3>2. CASE i = m
      BY <3>1, <3>2
    <3>3. CASE i # m
      <4>1. i \in 0 .. m - 1 /\ g[i] = f[i]
        BY <1>1, <3>3
      <4>2. f[i] = Value(f, i)
        BY <2>1, <4>1
      <4> QED
        BY <3>1, <4>1, <4>2
    <3> QED
      BY <3>2, <3>3
  <2> HIDE DEF Value
  <2>3. g = [i \in 0 .. m |-> Value(g, i)]
    BY <2>2
  <2> QED
    BY <2>3
<1>4. T = {}
  <2> SUFFICES ASSUME T # {} PROVE FALSE
    OBVIOUS
  <2> HIDE DEF Upto
  <2>1. PICK m \in T : \A n \in T : m <= n
    <3> HIDE DEF T
    <3> QED
      BY <1>1, NatMin
  <2>2. m \in 0 .. N /\ ~Upto(m)
    OBVIOUS
  <2>3. m \in 1 .. N
    BY <1>1, <1>2, <2>2
  <2>4. Upto(m - 1)
    <3>1. m - 1 \in 0 .. N /\ ~(m <= m - 1)
      BY <1>1, <2>3
    <3>2. m - 1 \notin T
      <4> HIDE DEF T
      <4> QED
        BY <2>1, <3>1
    <3> QED
      BY <3>1, <3>2
  <2> QED
    BY <1>3, <2>2, <2>3, <2>4
<1>5. Upto(N)
  <2> HIDE DEF Upto
  <2>1. N \in 0 .. N
    BY <1>1
  <2> QED
    BY <1>4, <2>1
<1> QED
  BY <1>5

\* AnchorsOf keeps the anchors, and nothing else.
LEMMA AnchorsKept ==
    ASSUME NEW S, NEW s \in Seq(S)
    PROVE  /\ AnchorsOf(s) \in Seq(S)
           /\ \A k \in 1 .. Len(AnchorsOf(s)) :
                 \E i \in 1 .. Len(s) : AnchorsOf(s)[k] = s[i] /\ IsSession(s[i])
           /\ \A i \in 1 .. Len(s) :
                 IsSession(s[i]) => \E k \in 1 .. Len(AnchorsOf(s)) : AnchorsOf(s)[k] = s[i]
<1> DEFINE N == Len(s)
           k == CHOOSE f : f = [i \in 0 .. Len(s) |->
                                  IF i = 0 THEN <<>>
                                  ELSE IF IsSession(s[i]) THEN Append(f[i - 1], s[i])
                                  ELSE f[i - 1]]
           Good(m) == /\ k[m] \in Seq(S)
                      /\ \A j \in 1 .. Len(k[m]) :
                            \E i \in 1 .. m : k[m][j] = s[i] /\ IsSession(s[i])
                      /\ \A i \in 1 .. m :
                            IsSession(s[i]) => \E j \in 1 .. Len(k[m]) : k[m][j] = s[i]
           T == {m \in 0 .. N : ~Good(m)}
<1>1. AnchorsOf(s) = k[N]
  BY DEF AnchorsOf
<1>2. k = [i \in 0 .. N |-> IF i = 0 THEN <<>>
                            ELSE IF IsSession(s[i]) THEN Append(k[i - 1], s[i])
                            ELSE k[i - 1]]
  BY AnchorsDefined
<1>3. N \in Nat /\ \A i \in 1 .. N : s[i] \in S
  OBVIOUS
<1> HIDE DEF k, N
<1>4. k[0] = <<>> /\ \A m \in 1 .. N : k[m] = IF IsSession(s[m]) THEN Append(k[m - 1], s[m])
                                               ELSE k[m - 1]
  <2> DEFINE e(i) == IF i = 0 THEN <<>>
                     ELSE IF IsSession(s[i]) THEN Append(k[i - 1], s[i])
                     ELSE k[i - 1]
  <2>1. k = [i \in 0 .. N |-> e(i)]
    BY <1>2
  <2> HIDE DEF e
  <2>2. \A i \in 0 .. N : k[i] = e(i)
    BY <2>1
  <2>3. 0 \in 0 .. N /\ \A m \in 1 .. N : m \in 0 .. N /\ m # 0
    BY <1>3
  <2> QED
    BY <2>2, <2>3 DEF e
<1>5. Good(0)
  BY <1>4
<1>6. ASSUME NEW m \in 1 .. N, Good(m - 1) PROVE Good(m)
  <2> DEFINE b == k[m - 1]
  <2>1. /\ b \in Seq(S) /\ Len(b) \in Nat /\ m \in Nat /\ m - 1 \in Nat /\ s[m] \in S
        /\ \A j \in 1 .. Len(b) : \E i \in 1 .. m - 1 : b[j] = s[i] /\ IsSession(s[i])
        /\ \A i \in 1 .. m - 1 : IsSession(s[i]) => \E j \in 1 .. Len(b) : b[j] = s[i]
    <3>1. Good(m - 1)
      BY <1>6
    <3> QED
      BY <1>3, <3>1
  <2> HIDE DEF b
  <2>2. \A i \in 1 .. m : i \in 1 .. m - 1 \/ i = m
    BY <2>1
  <2>3. CASE IsSession(s[m])
    <3> DEFINE c == Append(b, s[m])
    <3>1. /\ k[m] = c /\ c \in Seq(S) /\ Len(c) = Len(b) + 1
          /\ \A j \in 1 .. Len(b) : c[j] = b[j]
          /\ c[Len(b) + 1] = s[m]
      <4>1. k[m] = c
        BY <1>4, <2>3 DEF b
      <4> QED
        BY <2>1, <4>1, AppendProperties
    <3> HIDE DEF c
    <3>2. ASSUME NEW j \in 1 .. Len(c)
          PROVE  \E i \in 1 .. m : c[j] = s[i] /\ IsSession(s[i])
      <4>1. CASE j = Len(b) + 1
        BY <2>1, <2>3, <3>1, <4>1
      <4>2. CASE j # Len(b) + 1
        <5>1. j \in 1 .. Len(b) /\ c[j] = b[j]
          BY <2>1, <3>1, <4>2
        <5>2. PICK i \in 1 .. m - 1 : b[j] = s[i] /\ IsSession(s[i])
          BY <2>1, <5>1
        <5> QED
          BY <2>1, <5>1, <5>2
      <4> QED
        BY <4>1, <4>2
    <3>3. ASSUME NEW i \in 1 .. m, IsSession(s[i])
          PROVE  \E j \in 1 .. Len(c) : c[j] = s[i]
      <4>1. CASE i = m
        BY <2>1, <3>1, <4>1
      <4>2. CASE i # m
        <5>1. PICK j \in 1 .. Len(b) : b[j] = s[i]
          BY <2>1, <2>2, <3>3, <4>2
        <5>2. j \in 1 .. Len(c) /\ c[j] = b[j]
          BY <2>1, <3>1
        <5> QED
          BY <5>1, <5>2
      <4> QED
        BY <4>1, <4>2
    <3> QED
      BY <3>1, <3>2, <3>3
  <2>4. CASE ~IsSession(s[m])
    <3>1. k[m] = b
      BY <1>4, <2>4 DEF b
    <3>2. ASSUME NEW j \in 1 .. Len(b)
          PROVE  \E i \in 1 .. m : b[j] = s[i] /\ IsSession(s[i])
      <4>1. PICK i \in 1 .. m - 1 : b[j] = s[i] /\ IsSession(s[i])
        BY <2>1
      <4> QED
        BY <2>1, <4>1
    <3>3. ASSUME NEW i \in 1 .. m, IsSession(s[i])
          PROVE  \E j \in 1 .. Len(b) : b[j] = s[i]
      BY <2>1, <2>2, <2>4, <3>3
    <3> QED
      BY <2>1, <3>1, <3>2, <3>3
  <2> QED
    BY <2>3, <2>4
<1>7. T = {}
  <2> SUFFICES ASSUME T # {} PROVE FALSE
    OBVIOUS
  <2> HIDE DEF Good
  <2>1. PICK m \in T : \A n \in T : m <= n
    <3>1. T \in SUBSET Nat
      BY <1>3
    <3> HIDE DEF T
    <3> QED
      BY <3>1, NatMin
  <2>2. m \in 0 .. N /\ ~Good(m)
    OBVIOUS
  <2>3. m \in 1 .. N
    BY <1>3, <1>5, <2>2
  <2>4. Good(m - 1)
    <3>1. m - 1 \in 0 .. N /\ ~(m <= m - 1)
      BY <1>3, <2>3
    <3>2. m - 1 \notin T
      <4> HIDE DEF T
      <4> QED
        BY <2>1, <3>1
    <3> QED
      BY <3>1, <3>2
  <2> QED
    BY <1>6, <2>2, <2>3, <2>4
<1>8. Good(N)
  <2> HIDE DEF Good
  <2> QED
    BY <1>3, <1>7
<1> QED
  BY <1>1, <1>8 DEF N

\* A sequence of nodes is one of its own nodes.
LEMMA NodesAre ==
    ASSUME NEW S, NEW g, g.nodes \in Seq(S)
    PROVE  /\ DOMAIN g.nodes = 1 .. Len(g.nodes) /\ Len(g.nodes) \in Nat
           /\ NodesOf(g) = {g.nodes[i] : i \in 1 .. Len(g.nodes)}
           /\ NodesOf(g) \subseteq S
           /\ g.nodes \in Seq(NodesOf(g))
           /\ Ids(g.nodes) = {Id(node) : node \in NodesOf(g)}
<1>1. DOMAIN g.nodes = 1 .. Len(g.nodes) /\ Len(g.nodes) \in Nat
  OBVIOUS
<1>2. \A i \in 1 .. Len(g.nodes) : g.nodes[i] \in NodesOf(g)
  BY <1>1 DEF NodesOf
<1>3. g.nodes \in Seq(NodesOf(g))
  BY <1>1, <1>2
<1> QED
  BY <1>1, <1>3 DEF NodesOf, Ids

LEMMA IdsDiffer ==
    /\ \A s : /\ IsNode(Anchor(s)) /\ IsSession(Anchor(s))
              /\ Id(Anchor(s)) = <<"session", s, 0>>
              /\ Anchor(s).session = s
    /\ \A s, e, by : \A n \in Nat :
              /\ IsNode(Command(s, n, e, by)) /\ ~IsSession(Command(s, n, e, by))
              /\ Id(Command(s, n, e, by)) = <<"command", s, n>>
              /\ Command(s, n, e, by).session = s /\ Command(s, n, e, by).event = e
              /\ Command(s, n, e, by).by = by /\ Command(s, n, e, by).seq = n
    /\ \A node : IsNode(node) =>
          IF IsSession(node) THEN node = Anchor(node.session)
          ELSE /\ node.seq \in Nat
               /\ node = Command(node.session, node.seq, node.event, node.by)
               /\ Id(node) = <<"command", node.session, node.seq>>
    /\ \A node : Id(node)[1] = "session" <=> IsSession(node)
BY DEF IsNode, Anchor, Command, IsSession, Id

\* The next index of a session is above all it has, however they were pruned.
LEMMA NextSeqIsAbove ==
    ASSUME NEW g, WellFormed(g), NEW s
    PROVE  /\ NextSeq(g, s) \in Nat
           /\ \A node \in CommandsOf(g, s) : node.seq < NextSeq(g, s)
<1> DEFINE C == CommandsOf(g, s)
           N == Len(g.nodes)
           Above(n, m) == \A i \in 1 .. m : g.nodes[i] \in C => g.nodes[i].seq < n
           T == {m \in 0 .. N : ~\E n \in Nat : Above(n, m)}
           B == {n \in Nat : \A node \in C : node.seq < n}
<1>1. /\ N \in Nat /\ NodesOf(g) = {g.nodes[i] : i \in 1 .. N}
      /\ C \subseteq NodesOf(g)
  BY NodesAre DEF WellFormed, CommandsOf, Commands
<1>2. \A node \in C : node.seq \in Nat
  BY IdsDiffer DEF WellFormed, CommandsOf, Commands
<1> HIDE DEF C, N
<1>3. T = {}
  <2> SUFFICES ASSUME T # {} PROVE FALSE
    OBVIOUS
  <2>1. T \in SUBSET Nat
    BY <1>1
  <2>2. PICK m \in T : \A k \in T : m <= k
    <3> HIDE DEF T
    <3> QED
      BY <2>1, NatMin
  <2>3. m \in 0 .. N /\ ~\E n \in Nat : Above(n, m)
    OBVIOUS
  <2>4. m # 0
    <3>1. Above(0, 0)
      OBVIOUS
    <3> QED
      BY <2>3, <3>1
  <2>5. m - 1 \in 0 .. N /\ m - 1 \notin T /\ m \in 1 .. N
    <3>1. m - 1 \in 0 .. N /\ ~(m <= m - 1) /\ m \in 1 .. N
      BY <1>1, <2>3, <2>4
    <3> HIDE DEF T
    <3> QED
      BY <2>2, <3>1
  <2>6. PICK n \in Nat : Above(n, m - 1)
    BY <2>5
  <2>7. CASE g.nodes[m] \notin C
    <3>1. Above(n, m)
      <4> SUFFICES ASSUME NEW i \in 1 .. m, g.nodes[i] \in C PROVE g.nodes[i].seq < n
        OBVIOUS
      <4>1. i \in 1 .. m - 1
        <5>1. i # m
          BY <2>7
        <5>2. m \in Nat
          BY <1>1, <2>5
        <5> QED
          BY <5>1, <5>2
      <4> QED
        BY <2>6, <4>1
    <3> QED
      BY <2>3, <3>1
  <2>8. CASE g.nodes[m] \in C
    <3> DEFINE q == g.nodes[m].seq
    <3>1. q \in Nat
      BY <1>2, <2>8
    <3>2. PICK r \in Nat : r >= n /\ r > q
      <4>1. n + q + 1 \in Nat /\ n + q + 1 >= n /\ n + q + 1 > q
        <5> HIDE DEF Above, q
        <5>1. n \in Nat
          BY <2>6
        <5> QED
          BY <3>1, <5>1
      <4> QED
        BY <4>1
    <3>3. Above(r, m)
      <4> SUFFICES ASSUME NEW i \in 1 .. m, g.nodes[i] \in C PROVE g.nodes[i].seq < r
        OBVIOUS
      <4>1. CASE i = m
        BY <3>2, <4>1
      <4>2. CASE i # m
        <5>1. i \in 1 .. m - 1 /\ g.nodes[i].seq \in Nat
          BY <1>1, <1>2, <2>5, <4>2
        <5> QED
          BY <2>6, <3>2, <5>1
      <4> QED
        BY <4>1, <4>2
    <3> QED
      BY <2>3, <3>3
  <2> QED
    BY <2>7, <2>8
<1>4. B # {}
  <2>1. N \in 0 .. N
    BY <1>1
  <2>2. PICK n \in Nat : Above(n, N)
    BY <1>3, <2>1
  <2>3. n \in B
    BY <1>1, <2>2
  <2> QED
    BY <2>3
<1>5. PICK n \in B : \A k \in B : n <= k
  <2>1. B \in SUBSET Nat
    OBVIOUS
  <2> HIDE DEF B
  <2> QED
    BY <1>4, <2>1, NatMin
<1>6. n \in {0} \cup {node.seq + 1 : node \in C}
  <2> SUFFICES ASSUME n # 0 PROVE n \in {node.seq + 1 : node \in C}
    OBVIOUS
  <2>1. n - 1 \in Nat /\ n - 1 \notin B
    BY <1>5
  <2>2. PICK node \in C : ~(node.seq < n - 1)
    BY <2>1
  <2>3. node.seq \in Nat /\ node.seq < n
    BY <1>2, <1>5
  <2>4. n = node.seq + 1
    BY <1>5, <2>2, <2>3
  <2> QED
    BY <2>4
<1>7. \A node \in C : node.seq < n
  BY <1>5
<1>8. /\ NextSeq(g, s) \in {0} \cup {node.seq + 1 : node \in C}
      /\ \A node \in C : node.seq < NextSeq(g, s)
  BY <1>6, <1>7 DEF NextSeq, C
<1> QED
  BY <1>2, <1>8 DEF C

\* A node whose id is new, or that is there as it is, changes nothing else.
LEMMA UpsertAdds ==
    ASSUME NEW S, NEW nodes \in Seq(S), NEW node \in S,
           \A i \in 1 .. Len(nodes) : Id(nodes[i]) = Id(node) => nodes[i] = node
    PROVE  \/ /\ Upsert(nodes, node) = nodes
              /\ \E i \in 1 .. Len(nodes) : nodes[i] = node
           \/ /\ Upsert(nodes, node) = Append(nodes, node)
              /\ \A i \in 1 .. Len(nodes) : Id(nodes[i]) # Id(node)
<1>1. nodes = [i \in 1 .. Len(nodes) |-> nodes[i]] /\ DOMAIN nodes = 1 .. Len(nodes)
  OBVIOUS
<1>2. CASE Id(node) \in Ids(nodes)
  <2>1. Upsert(nodes, node) = [i \in 1 .. Len(nodes) |->
                                 IF Id(nodes[i]) = Id(node) THEN node ELSE nodes[i]]
    BY <1>1, <1>2 DEF Upsert
  <2>2. [i \in 1 .. Len(nodes) |-> IF Id(nodes[i]) = Id(node) THEN node ELSE nodes[i]]
          = [i \in 1 .. Len(nodes) |-> nodes[i]]
    OBVIOUS
  <2>3. \E i \in 1 .. Len(nodes) : nodes[i] = node
    BY <1>1, <1>2 DEF Ids
  <2> QED
    BY <1>1, <2>1, <2>2, <2>3
<1>3. CASE Id(node) \notin Ids(nodes)
  BY <1>1, <1>3 DEF Ids, Upsert
<1> QED
  BY <1>2, <1>3

\* What a decision adds: the anchor of its session, at the end if it is new,
\* and one command after it.
LEMMA IngestAdds ==
    ASSUME NEW g, WellFormed(g), NEW s, NEW e, NEW by
    PROVE  LET new == Command(s, NextSeq(g, s), e, by)
               h == Ingest(g, s, e, by)
           IN  /\ h.nodes \in Seq(NodesOf(h))
               /\ NodesOf(h) = NodesOf(g) \cup {Anchor(s), new}
               /\ \A i, j \in DOMAIN h.nodes :
                     ~IsSession(h.nodes[i]) /\ Id(h.nodes[i]) = Id(h.nodes[j]) => i = j
               /\ h.ran = g.ran \cup {<<Id(Anchor(s)), Id(new)>>}
<1> DEFINE n == NextSeq(g, s)
           new == Command(s, n, e, by)
           h == Ingest(g, s, e, by)
           S == NodesOf(g) \cup {Anchor(s), new}
           a == g.nodes
           b == Upsert(a, Anchor(s))
           c == Upsert(b, new)
           Once(q) == \A i, j \in 1 .. Len(q) :
                         ~IsSession(q[i]) /\ Id(q[i]) = Id(q[j]) => i = j
           Holds(q) == {q[i] : i \in 1 .. Len(q)}
<1>1. n \in Nat /\ \A node \in CommandsOf(g, s) : node.seq < n
  BY NextSeqIsAbove
<1>2. /\ a \in Seq(S) /\ Len(a) \in Nat /\ Holds(a) = NodesOf(g) /\ Once(a)
      /\ \A i \in 1 .. Len(a) : a[i] \in NodesOf(g) /\ IsNode(a[i])
  <2>1. /\ a \in Seq(NodesOf(g)) /\ DOMAIN a = 1 .. Len(a) /\ Len(a) \in Nat
        /\ NodesOf(g) = Holds(a)
    BY NodesAre DEF WellFormed
  <2>2. a \in Seq(S)
    BY <2>1
  <2>3. Once(a)
    BY <2>1 DEF WellFormed
  <2>4. \A i \in 1 .. Len(a) : a[i] \in NodesOf(g) /\ IsNode(a[i])
    BY <2>1 DEF WellFormed
  <2> QED
    BY <2>1, <2>2, <2>3, <2>4
<1>3. /\ h.nodes = c /\ h.ran = g.ran \cup {<<Id(Anchor(s)), Id(new)>>}
  BY DEF Ingest
<1> HIDE DEF n, h
<1>4. /\ b = a /\ Anchor(s) \in NodesOf(g)
      \/ /\ b = Append(a, Anchor(s))
         /\ \A i \in 1 .. Len(a) : Id(a[i]) # Id(Anchor(s))
  <2>1. \A i \in 1 .. Len(a) : Id(a[i]) = Id(Anchor(s)) => a[i] = Anchor(s)
    <3> SUFFICES ASSUME NEW i \in 1 .. Len(a), Id(a[i]) = Id(Anchor(s))
                 PROVE  a[i] = Anchor(s)
      OBVIOUS
    <3>1. IsNode(a[i])
      BY <1>2
    <3>2. IsSession(a[i])
      BY IdsDiffer
    <3>3. a[i] = Anchor(a[i].session)
      BY <3>1, <3>2, IdsDiffer
    <3>4. Id(a[i]) = <<"session", a[i].session, 0>> /\ Id(a[i]) = <<"session", s, 0>>
      BY <3>3, IdsDiffer
    <3> QED
      BY <3>3, <3>4
  <2>2. Anchor(s) \in S
    OBVIOUS
  <2> QED
    BY <1>2, <2>1, <2>2, UpsertAdds
<1> HIDE DEF b
<1>5. /\ b \in Seq(S) /\ Len(b) \in Nat /\ Holds(b) = NodesOf(g) \cup {Anchor(s)}
      /\ Once(b)
      /\ \A i \in 1 .. Len(b) : b[i] = Anchor(s) \/ b[i] \in NodesOf(g)
  <2>1. CASE b = a /\ Anchor(s) \in NodesOf(g)
    BY <1>2, <2>1
  <2>2. CASE b = Append(a, Anchor(s)) /\ \A i \in 1 .. Len(a) : Id(a[i]) # Id(Anchor(s))
    <3>1. /\ b \in Seq(S) /\ Len(b) = Len(a) + 1 /\ b[Len(a) + 1] = Anchor(s)
          /\ \A i \in 1 .. Len(a) : b[i] = a[i]
      BY <1>2, <2>2, AppendProperties
    <3>2. \A i \in 1 .. Len(b) : i = Len(a) + 1 \/ i \in 1 .. Len(a)
      BY <1>2, <3>1
    <3>3. Holds(b) = NodesOf(g) \cup {Anchor(s)}
      <4>1. \A x \in Holds(b) : x = Anchor(s) \/ x \in Holds(a)
        BY <3>1, <3>2
      <4>2. \A i \in 1 .. Len(a) : i \in 1 .. Len(b)
        BY <1>2, <3>1
      <4>3. Anchor(s) \in Holds(b) /\ \A x \in Holds(a) : x \in Holds(b)
        BY <1>2, <3>1, <4>2
      <4> QED
        BY <1>2, <4>1, <4>3
    <3>4. Once(b)
      <4> SUFFICES ASSUME NEW i \in 1 .. Len(b), NEW j \in 1 .. Len(b),
                          ~IsSession(b[i]), Id(b[i]) = Id(b[j])
                   PROVE  i = j
        OBVIOUS
      <4>1. i \in 1 .. Len(a)
        BY <3>1, <3>2, IdsDiffer
      <4>2. j # Len(a) + 1
        BY <2>2, <3>1, <4>1
      <4> QED
        BY <1>2, <3>1, <3>2, <4>1, <4>2
    <3> QED
      BY <1>2, <3>1, <3>2, <3>3, <3>4
  <2> QED
    BY <1>4, <2>1, <2>2
<1>6. \A i \in 1 .. Len(b) : Id(b[i]) # Id(new)
  <2> SUFFICES ASSUME NEW i \in 1 .. Len(b), Id(b[i]) = Id(new) PROVE FALSE
    OBVIOUS
  <2>1. ~IsSession(b[i]) /\ Id(new) = <<"command", s, n>>
    BY <1>1, IdsDiffer
  <2>2. b[i] \in NodesOf(g) /\ IsNode(b[i])
    BY <1>5, <2>1, IdsDiffer DEF WellFormed
  <2>3. Id(b[i]) = <<"command", b[i].session, b[i].seq>>
    BY <2>1, <2>2, IdsDiffer
  <2>4. b[i].session = s /\ b[i].seq = n
    BY <2>1, <2>3
  <2>5. b[i] \in CommandsOf(g, s)
    BY <2>1, <2>2, <2>4 DEF CommandsOf, Commands
  <2> QED
    BY <1>1, <2>4, <2>5
<1>7. c = Append(b, new)
  <2>1. new \in S
    OBVIOUS
  <2> QED
    BY <1>5, <1>6, <2>1, UpsertAdds
<1> HIDE DEF c
<1>8. /\ c \in Seq(S) /\ Len(c) = Len(b) + 1 /\ c[Len(b) + 1] = new
      /\ \A i \in 1 .. Len(b) : c[i] = b[i]
  BY <1>5, <1>7, AppendProperties
<1>9. \A i \in 1 .. Len(c) : i = Len(b) + 1 \/ i \in 1 .. Len(b)
  BY <1>5, <1>8
<1>10. Holds(c) = NodesOf(g) \cup {Anchor(s), new}
  <2>1. \A x \in Holds(c) : x = new \/ x \in Holds(b)
    BY <1>8, <1>9
  <2>2. \A i \in 1 .. Len(b) : i \in 1 .. Len(c)
    BY <1>5, <1>8
  <2>3. new \in Holds(c) /\ \A x \in Holds(b) : x \in Holds(c)
    BY <1>5, <1>8, <2>2
  <2> QED
    BY <1>5, <2>1, <2>3
<1>11. Once(c)
  <2> SUFFICES ASSUME NEW i \in 1 .. Len(c), NEW j \in 1 .. Len(c),
                      ~IsSession(c[i]), Id(c[i]) = Id(c[j])
               PROVE  i = j
    OBVIOUS
  <2>1. CASE i \in 1 .. Len(b) /\ j \in 1 .. Len(b)
    BY <1>5, <1>8, <2>1
  <2>2. CASE i = Len(b) + 1 /\ j \in 1 .. Len(b)
    BY <1>6, <1>8, <2>2
  <2>3. CASE j = Len(b) + 1 /\ i \in 1 .. Len(b)
    BY <1>6, <1>8, <2>3
  <2> QED
    BY <1>9, <2>1, <2>2, <2>3
<1>12. /\ h.nodes \in Seq(NodesOf(h)) /\ DOMAIN h.nodes = 1 .. Len(h.nodes)
       /\ NodesOf(h) = Holds(c)
  BY <1>3, <1>8, NodesAre
<1> QED
  BY <1>3, <1>10, <1>11, <1>12 DEF n, h

LEMMA IngestKeeps ==
    ASSUME NEW g, WellFormed(g), NEW s, NEW e, NEW by, ~Recorded(g, e)
    PROVE  WellFormed(Ingest(g, s, e, by))
<1> DEFINE n == NextSeq(g, s)
           new == Command(s, n, e, by)
           h == Ingest(g, s, e, by)
<1>1. /\ h.nodes \in Seq(NodesOf(h))
      /\ NodesOf(h) = NodesOf(g) \cup {Anchor(s), new}
      /\ \A i, j \in DOMAIN h.nodes :
            ~IsSession(h.nodes[i]) /\ Id(h.nodes[i]) = Id(h.nodes[j]) => i = j
      /\ h.ran = g.ran \cup {<<Id(Anchor(s)), Id(new)>>}
  BY IngestAdds
<1>2. n \in Nat
  BY NextSeqIsAbove
<1>3. /\ Linked(g) /\ EventsOnce(g) /\ \A node \in NodesOf(g) : IsNode(node)
      /\ Ids(g.nodes) = {Id(node) : node \in NodesOf(g)}
      /\ Ids(h.nodes) = {Id(node) : node \in NodesOf(h)}
  BY <1>1, NodesAre DEF WellFormed
<1> HIDE DEF n, h
<1>4. /\ ~IsSession(new) /\ new.event = e /\ new.session = s
      /\ IsSession(Anchor(s)) /\ IsNode(new) /\ IsNode(Anchor(s))
  BY <1>2, IdsDiffer
<1>5. Commands(h) = Commands(g) \cup {new}
  BY <1>1, <1>4 DEF Commands
<1> HIDE DEF new
<1>6. Linked(h)
  <2>1. ASSUME NEW node \in Commands(h)
        PROVE  /\ Anchor(node.session) \in NodesOf(h)
               /\ <<Id(Anchor(node.session)), Id(node)>> \in h.ran
    <3>1. CASE node = new
      BY <1>1, <1>4, <3>1
    <3>2. CASE node \in Commands(g)
      BY <1>1, <1>3, <3>2 DEF Linked
    <3> QED
      BY <1>5, <3>1, <3>2
  <2>2. ASSUME NEW edge \in h.ran
        PROVE  {edge[1], edge[2]} \subseteq Ids(h.nodes)
    <3>1. CASE edge = <<Id(Anchor(s)), Id(new)>>
      BY <1>1, <1>3, <3>1
    <3>2. CASE edge \in g.ran
      <4>1. {edge[1], edge[2]} \subseteq Ids(g.nodes)
        BY <1>3, <3>2 DEF Linked
      <4> QED
        BY <1>1, <1>3, <4>1
    <3> QED
      BY <1>1, <3>1, <3>2
  <2> QED
    BY <2>1, <2>2 DEF Linked
<1>7. EventsOnce(h)
  <2> SUFFICES ASSUME NEW a \in Commands(h), NEW b \in Commands(h),
                      a.event = b.event, a.event # NoEvent
               PROVE  a = b
    BY DEF EventsOnce
  <2>1. \A node \in Commands(g) : e # NoEvent => node.event # e
    BY DEF Recorded
  <2> QED
    BY <1>3, <1>4, <1>5, <2>1 DEF EventsOnce
<1>8. \A node \in NodesOf(h) : IsNode(node)
  BY <1>1, <1>3, <1>4
<1> QED
  BY <1>1, <1>6, <1>7, <1>8 DEF WellFormed, h

\* What drop_oldest leaves: the anchors among the oldest, then the rest as it
\* stood.
LEMMA DropLeaves ==
    ASSUME NEW S, NEW nodes \in Seq(S), NEW count \in 0 .. Len(nodes)
    PROVE  LET front == AnchorsOf(SubSeq(nodes, 1, count))
               left == front \o SubSeq(nodes, count + 1, Len(nodes))
           IN  /\ left \in Seq(S)
               /\ Len(front) \in Nat
               /\ Len(left) = Len(front) + Len(nodes) - count
               /\ \A k \in 1 .. Len(front) :
                     \E i \in 1 .. count : left[k] = nodes[i] /\ IsSession(nodes[i])
               /\ \A k \in Len(front) + 1 .. Len(left) :
                     /\ k - Len(front) + count \in count + 1 .. Len(nodes)
                     /\ left[k] = nodes[k - Len(front) + count]
               /\ \A i \in 1 .. count :
                     IsSession(nodes[i]) => \E k \in 1 .. Len(front) : left[k] = nodes[i]
<1> DEFINE oldest == SubSeq(nodes, 1, count)
           front == AnchorsOf(oldest)
           rest == SubSeq(nodes, count + 1, Len(nodes))
           left == front \o rest
<1>1. Len(nodes) \in Nat /\ count \in Nat /\ count <= Len(nodes)
  OBVIOUS
<1>2. /\ oldest \in Seq(S) /\ Len(oldest) = count
      /\ \A i \in 1 .. count : oldest[i] = nodes[i]
  <2>1. \A i \in 1 .. count : nodes[i] \in S
    BY <1>1
  <2>2. /\ oldest \in Seq(S) /\ Len(oldest) = IF 1 <= count THEN count - 1 + 1 ELSE 0
        /\ \A i \in 1 .. count - 1 + 1 : oldest[i] = nodes[1 + i - 1]
    BY <1>1, <2>1, SubSeqProperties
  <2> HIDE DEF oldest
  <2> QED
    BY <1>1, <2>2
<1>3. /\ rest \in Seq(S) /\ Len(rest) = Len(nodes) - count
      /\ \A i \in 1 .. Len(nodes) - count : rest[i] = nodes[count + i]
  <2>1. \A i \in count + 1 .. Len(nodes) : nodes[i] \in S
    BY <1>1
  <2>2. /\ rest \in Seq(S)
        /\ Len(rest) = IF count + 1 <= Len(nodes) THEN Len(nodes) - (count + 1) + 1 ELSE 0
        /\ \A i \in 1 .. Len(nodes) - (count + 1) + 1 : rest[i] = nodes[count + 1 + i - 1]
    BY <1>1, <2>1, SubSeqProperties
  <2> HIDE DEF rest
  <2> QED
    BY <1>1, <2>2
<1> HIDE DEF oldest, rest
<1>4. /\ front \in Seq(S) /\ Len(front) \in Nat
      /\ \A k \in 1 .. Len(front) :
            \E i \in 1 .. count : front[k] = oldest[i] /\ IsSession(oldest[i])
      /\ \A i \in 1 .. count :
            IsSession(oldest[i]) => \E k \in 1 .. Len(front) : front[k] = oldest[i]
  <2>1. /\ front \in Seq(S)
        /\ \A k \in 1 .. Len(front) :
              \E i \in 1 .. Len(oldest) : front[k] = oldest[i] /\ IsSession(oldest[i])
        /\ \A i \in 1 .. Len(oldest) :
              IsSession(oldest[i]) => \E k \in 1 .. Len(front) : front[k] = oldest[i]
    BY <1>2, AnchorsKept
  <2> HIDE DEF front
  <2>2. Len(front) \in Nat
    BY <2>1
  <2> QED
    BY <1>2, <2>1, <2>2
<1> HIDE DEF front
<1>5. /\ left \in Seq(S) /\ Len(left) = Len(front) + Len(rest)
      /\ \A k \in 1 .. Len(front) + Len(rest) :
            left[k] = IF k <= Len(front) THEN front[k] ELSE rest[k - Len(front)]
  BY <1>3, <1>4, ConcatProperties
<1> HIDE DEF left
<1>6. /\ Len(left) = Len(front) + Len(nodes) - count
      /\ \A k \in 1 .. Len(front) : left[k] = front[k]
      /\ \A k \in Len(front) + 1 .. Len(left) :
            /\ k - Len(front) \in 1 .. Len(nodes) - count
            /\ left[k] = rest[k - Len(front)]
  <2>1. Len(left) = Len(front) + Len(nodes) - count
    BY <1>1, <1>3, <1>4, <1>5
  <2>2. ASSUME NEW k \in 1 .. Len(front) PROVE left[k] = front[k]
    <3>1. k \in 1 .. Len(front) + Len(rest) /\ k <= Len(front)
      BY <1>1, <1>3, <1>4
    <3> QED
      BY <1>5, <3>1
  <2>3. ASSUME NEW k \in Len(front) + 1 .. Len(left)
        PROVE  /\ k - Len(front) \in 1 .. Len(nodes) - count
               /\ left[k] = rest[k - Len(front)]
    <3>1. k \in 1 .. Len(front) + Len(rest) /\ ~(k <= Len(front)) /\ k \in Int
      BY <1>1, <1>3, <1>4, <1>5
    <3>2. left[k] = rest[k - Len(front)]
      BY <1>5, <3>1
    <3>3. k - Len(front) \in 1 .. Len(nodes) - count
      BY <1>1, <1>3, <1>4, <3>1
    <3> QED
      BY <3>2, <3>3
  <2> QED
    BY <2>1, <2>2, <2>3
<1>7. \A k \in Len(front) + 1 .. Len(left) :
         /\ k - Len(front) + count \in count + 1 .. Len(nodes)
         /\ left[k] = nodes[k - Len(front) + count]
  <2> TAKE k \in Len(front) + 1 .. Len(left)
  <2>1. /\ k - Len(front) \in 1 .. Len(nodes) - count
        /\ left[k] = rest[k - Len(front)]
    BY <1>6
  <2>2. rest[k - Len(front)] = nodes[count + (k - Len(front))]
    BY <1>3, <2>1
  <2>3. k \in Int /\ Len(front) \in Int
    BY <1>4
  <2>4. count + (k - Len(front)) = k - Len(front) + count
    BY <1>1, <2>3
  <2> QED
    BY <1>1, <2>1, <2>2, <2>3, <2>4
<1>8. \A k \in 1 .. Len(front) :
         \E i \in 1 .. count : left[k] = nodes[i] /\ IsSession(nodes[i])
  <2> TAKE k \in 1 .. Len(front)
  <2>1. PICK i \in 1 .. count : front[k] = oldest[i] /\ IsSession(oldest[i])
    BY <1>4
  <2> QED
    BY <1>2, <1>6, <2>1
<1>9. \A i \in 1 .. count :
         IsSession(nodes[i]) => \E k \in 1 .. Len(front) : left[k] = nodes[i]
  <2> TAKE i \in 1 .. count
  <2> SUFFICES ASSUME IsSession(nodes[i])
               PROVE  \E k \in 1 .. Len(front) : left[k] = nodes[i]
    OBVIOUS
  <2>1. PICK k \in 1 .. Len(front) : front[k] = oldest[i]
    BY <1>2, <1>4
  <2> QED
    BY <1>2, <1>6, <2>1
<1> QED
  BY <1>4, <1>5, <1>6, <1>7, <1>8, <1>9 DEF left, front, rest, oldest

LEMMA DropKeeps ==
    ASSUME NEW g, WellFormed(g), NEW count \in 0 .. Len(g.nodes)
    PROVE  WellFormed(DropOldest(g, count))
<1> DEFINE N == g.nodes
           oldest == SubSeq(N, 1, count)
           front == AnchorsOf(oldest)
           left == front \o SubSeq(N, count + 1, Len(N))
           dropped == {id \in Ids(oldest) : id[1] # "session"}
           h == DropOldest(g, count)
           F == Len(front)
<1>1. /\ N \in Seq(NodesOf(g)) /\ Len(N) \in Nat /\ DOMAIN N = 1 .. Len(N)
      /\ \A i \in 1 .. Len(N) : N[i] \in NodesOf(g) /\ IsNode(N[i])
      /\ NodesOf(g) = {N[i] : i \in 1 .. Len(N)}
      /\ Ids(N) = {Id(node) : node \in NodesOf(g)}
      /\ count \in Nat /\ count <= Len(N)
  <2>1. /\ N \in Seq(NodesOf(g)) /\ Len(N) \in Nat /\ DOMAIN N = 1 .. Len(N)
        /\ NodesOf(g) = {N[i] : i \in 1 .. Len(N)}
        /\ Ids(N) = {Id(node) : node \in NodesOf(g)}
    BY NodesAre DEF WellFormed
  <2>2. \A i \in 1 .. Len(N) : N[i] \in NodesOf(g) /\ IsNode(N[i])
    BY <2>1 DEF WellFormed
  <2> QED
    BY <2>1, <2>2
<1>2. /\ \A i, j \in 1 .. Len(N) : ~IsSession(N[i]) /\ Id(N[i]) = Id(N[j]) => i = j
      /\ Linked(g) /\ EventsOnce(g)
  BY <1>1 DEF WellFormed
<1>3. /\ left \in Seq(NodesOf(g)) /\ F \in Nat
      /\ Len(left) = F + Len(N) - count
      /\ \A k \in 1 .. F : \E i \in 1 .. count : left[k] = N[i] /\ IsSession(N[i])
      /\ \A k \in F + 1 .. Len(left) :
            /\ k - F + count \in count + 1 .. Len(N)
            /\ left[k] = N[k - F + count]
      /\ \A i \in 1 .. count : IsSession(N[i]) => \E k \in 1 .. F : left[k] = N[i]
  <2>1. N \in Seq(NodesOf(g)) /\ count \in 0 .. Len(N)
    BY <1>1
  <2> HIDE DEF N
  <2> QED
    BY <2>1, DropLeaves
<1>4. /\ h.nodes = left
      /\ h.ran = {e \in g.ran : e[1] \notin dropped /\ e[2] \notin dropped}
  BY DEF DropOldest
<1>5. Ids(oldest) = {Id(N[i]) : i \in 1 .. count}
  <2>1. count \in Nat /\ \A i \in 1 .. count : N[i] \in NodesOf(g)
    BY <1>1
  <2>2. /\ oldest \in Seq(NodesOf(g))
        /\ Len(oldest) = IF 1 <= count THEN count - 1 + 1 ELSE 0
        /\ \A i \in 1 .. count - 1 + 1 : oldest[i] = N[1 + i - 1]
    BY <1>1, <2>1, SubSeqProperties
  <2> HIDE DEF oldest, N
  <2>3. DOMAIN oldest = 1 .. count /\ \A i \in 1 .. count : oldest[i] = N[i]
    BY <2>1, <2>2
  <2> QED
    BY <2>3 DEF Ids
<1> HIDE DEF N, oldest, front, left, h
<1>6. /\ h.nodes \in Seq(NodesOf(h)) /\ DOMAIN h.nodes = 1 .. Len(left)
      /\ NodesOf(h) = {left[k] : k \in 1 .. Len(left)}
      /\ NodesOf(h) \subseteq NodesOf(g)
      /\ Ids(h.nodes) = {Id(node) : node \in NodesOf(h)}
  <2>1. h.nodes \in Seq(NodesOf(g)) /\ h.nodes = left
    BY <1>3, <1>4
  <2>2. /\ DOMAIN h.nodes = 1 .. Len(h.nodes)
        /\ NodesOf(h) = {h.nodes[i] : i \in 1 .. Len(h.nodes)}
        /\ NodesOf(h) \subseteq NodesOf(g)
        /\ h.nodes \in Seq(NodesOf(h))
        /\ Ids(h.nodes) = {Id(node) : node \in NodesOf(h)}
    BY <2>1, NodesAre
  <2> QED
    BY <2>1, <2>2
<1>7. \A k \in 1 .. Len(left) : ~IsSession(left[k]) =>
         /\ k \in F + 1 .. Len(left)
         /\ k - F + count \in count + 1 .. Len(N) /\ k - F + count \in 1 .. Len(N)
         /\ left[k] = N[k - F + count]
  <2> TAKE k \in 1 .. Len(left)
  <2> SUFFICES ASSUME ~IsSession(left[k])
               PROVE  /\ k \in F + 1 .. Len(left)
                      /\ k - F + count \in count + 1 .. Len(N)
                      /\ k - F + count \in 1 .. Len(N)
                      /\ left[k] = N[k - F + count]
    OBVIOUS
  <2>1. k \notin 1 .. F
    BY <1>3
  <2>2. k \in F + 1 .. Len(left)
    BY <1>1, <1>3, <2>1
  <2>3. /\ k - F + count \in count + 1 .. Len(N)
        /\ left[k] = N[k - F + count]
    BY <1>3, <2>2
  <2>4. \A i \in count + 1 .. Len(N) : i \in 1 .. Len(N)
    BY <1>1
  <2> QED
    BY <2>2, <2>3, <2>4
\* A node that is an anchor, or is not among the oldest, stays.
<1>8. \A i \in 1 .. Len(N) : IsSession(N[i]) \/ i > count => N[i] \in NodesOf(h)
  <2> TAKE i \in 1 .. Len(N)
  <2> SUFFICES ASSUME IsSession(N[i]) \/ i > count PROVE N[i] \in NodesOf(h)
    OBVIOUS
  <2>1. CASE i > count
    <3> DEFINE k == i - count + F
    <3>1. k \in F + 1 .. Len(left) /\ k \in 1 .. Len(left) /\ k - F + count = i
      <4>1. /\ count \in Nat /\ Len(N) \in Nat /\ F \in Nat /\ i \in Nat
            /\ count < i /\ i <= Len(N) /\ Len(left) = F + Len(N) - count
        BY <1>1, <1>3, <2>1
      <4> HIDE DEF F
      <4> QED
        BY <4>1
    <3>2. left[k] = N[k - F + count]
      BY <1>3, <3>1
    <3> HIDE DEF k
    <3> QED
      BY <1>6, <3>1, <3>2
  <2>2. CASE i <= count
    <3>1. i \in 1 .. count /\ IsSession(N[i])
      BY <1>1, <2>2
    <3>2. PICK k \in 1 .. F : left[k] = N[i]
      BY <1>3, <3>1
    <3>3. k \in 1 .. Len(left)
      BY <1>1, <1>3
    <3> QED
      BY <1>6, <3>2, <3>3
  <2> QED
    BY <1>1, <2>1, <2>2
<1>9. \A k, j \in 1 .. Len(left) : ~IsSession(left[k]) /\ Id(left[k]) = Id(left[j]) => k = j
  <2> TAKE k, j \in 1 .. Len(left)
  <2> SUFFICES ASSUME ~IsSession(left[k]), Id(left[k]) = Id(left[j]) PROVE k = j
    OBVIOUS
  <2>1. ~IsSession(left[j])
    BY IdsDiffer
  <2>2. /\ left[k] = N[k - F + count] /\ k - F + count \in 1 .. Len(N)
        /\ left[j] = N[j - F + count] /\ j - F + count \in 1 .. Len(N)
    BY <1>7, <2>1
  <2>3. k - F + count = j - F + count
    BY <1>2, <2>2
  <2> QED
    BY <1>1, <1>3, <2>3
<1>10. Commands(h) \subseteq Commands(g)
  BY <1>6 DEF Commands
<1>11. EventsOnce(h)
  BY <1>2, <1>10 DEF EventsOnce
<1>12. Linked(h)
  <2>1. ASSUME NEW node \in Commands(h)
        PROVE  /\ Anchor(node.session) \in NodesOf(h)
               /\ <<Id(Anchor(node.session)), Id(node)>> \in h.ran
    <3> DEFINE a == Anchor(node.session)
    <3>1. node \in Commands(g) /\ ~IsSession(node) /\ node \in NodesOf(h)
      BY <1>10, <2>1 DEF Commands
    <3>2. /\ a \in NodesOf(g) /\ <<Id(a), Id(node)>> \in g.ran
          /\ IsSession(a)
      BY <1>2, <3>1, IdsDiffer DEF Linked
    <3>3. a \in NodesOf(h)
      BY <1>1, <1>8, <3>2
    <3>4. Id(a) \notin dropped
      BY <3>2, IdsDiffer
    <3>5. Id(node) \notin dropped
      <4>1. PICK k \in 1 .. Len(left) : node = left[k]
        BY <1>6, <3>1
      <4> DEFINE j == k - F + count
      <4>2. node = N[j] /\ j \in count + 1 .. Len(N) /\ j \in 1 .. Len(N)
        BY <1>7, <3>1, <4>1
      <4> HIDE DEF j
      <4>3. \A i \in 1 .. count : i \in 1 .. Len(N) /\ i # j
        <5>1. count \in Nat /\ Len(N) \in Nat /\ count <= Len(N)
          BY <1>1
        <5>2. j \in Int /\ j > count
          BY <4>2, <5>1
        <5> QED
          BY <5>1, <5>2
      <4>4. \A i \in 1 .. count : Id(N[i]) # Id(node)
        BY <1>2, <3>1, <4>2, <4>3
      <4> QED
        BY <1>5, <4>4
    <3> HIDE DEF a, dropped
    <3>6. <<Id(a), Id(node)>> \in h.ran
      BY <1>4, <3>2, <3>4, <3>5
    <3> QED
      BY <3>3, <3>6 DEF a
  <2>2. ASSUME NEW e \in h.ran
        PROVE  {e[1], e[2]} \subseteq Ids(h.nodes)
    <3>1. {e[1], e[2]} \subseteq Ids(N) /\ e[1] \notin dropped /\ e[2] \notin dropped
      BY <1>2, <1>4 DEF Linked, N
    <3>2. ASSUME NEW id \in Ids(N), id \notin dropped
          PROVE  id \in Ids(h.nodes)
      <4>1. PICK i \in 1 .. Len(N) : id = Id(N[i])
        BY <1>1
      <4>2. IsSession(N[i]) \/ i > count
        <5>1. CASE i \in 1 .. count
          <6>1. Id(N[i]) \in Ids(oldest)
            BY <1>5, <5>1
          <6> QED
            BY <3>2, <4>1, <6>1, IdsDiffer
        <5>2. CASE i \notin 1 .. count
          BY <1>1, <5>2
        <5> QED
          BY <5>1, <5>2
      <4> QED
        BY <1>6, <1>8, <4>1, <4>2
    <3> QED
      BY <3>1, <3>2
  <2> QED
    BY <2>1, <2>2 DEF Linked
<1>13. /\ \A node \in NodesOf(h) : IsNode(node)
       /\ \A i, j \in DOMAIN h.nodes :
             ~IsSession(h.nodes[i]) /\ Id(h.nodes[i]) = Id(h.nodes[j]) => i = j
  BY <1>4, <1>6, <1>9 DEF WellFormed
<1> QED
  BY <1>6, <1>11, <1>12, <1>13 DEF WellFormed, h

LEMMA PruneKeeps ==
    ASSUME NEW g, WellFormed(g)
    PROVE  /\ WellFormed(WithinNodeCap(g))
           /\ OverByteBudget(g) => WellFormed(DropShare(g))
<1>1. Len(g.nodes) \in Nat /\ MaxNodes \in Nat /\ Share \in Nat /\ Share > 0
  BY GraphAssumption, NodesAre DEF WellFormed
<1>2. Len(g.nodes) > MaxNodes => Len(g.nodes) - MaxNodes \in 0 .. Len(g.nodes)
  BY <1>1
<1>3. WellFormed(WithinNodeCap(g))
  BY <1>2, DropKeeps DEF WithinNodeCap
<1>4. Len(g.nodes) \div Share \in 0 .. Len(g.nodes)
  <2>1. \A a, b \in Nat : b > 0 => a \div b \in 0 .. a
    OBVIOUS
  <2> QED
    BY <1>1, <2>1
<1>5. ASSUME OverByteBudget(g) PROVE WellFormed(DropShare(g))
  <2> DEFINE count == IF Len(g.nodes) < Share THEN 1 ELSE Len(g.nodes) \div Share
  <2>1. Len(g.nodes) > 1
    BY <1>5 DEF OverByteBudget
  <2>2. count \in 0 .. Len(g.nodes)
    <3>1. 1 \in 0 .. Len(g.nodes)
      BY <1>1, <2>1
    <3> QED
      BY <1>4, <3>1
  <2> HIDE DEF count
  <2>3. WellFormed(DropOldest(g, count))
    BY <2>2, DropKeeps
  <2> QED
    BY <2>3 DEF DropShare, count
<1> QED
  BY <1>3, <1>5

-----------------------------------------------------------------------------
(* Types and locks. *)

\* Two hooks never hold one lock file.
Exclusive == \A g, h \in holding : fd[g] = fd[h] => g = h

\* The kinds of the files.
Kinds == {f.kind : f \in {file, first} \cup aside \cup wiped}
             \subseteq {"none", "corrupt", "graph"}

\* Who holds what, and the rest of the types.
Held ==
    /\ lockName \in LockFiles
    /\ pc \in [Hooks -> Steps \cup Ended]
    /\ fd \in [Hooks -> LockFiles \cup {NoLock}]
    /\ holding = {h \in Hooks : pc[h] \in Locked}
    /\ \A h \in holding : fd[h] \in LockFiles
    /\ outsider \subseteq LockFiles \cup {"update lock"}
    /\ updating \in Hooks \cup {Nobody}
    /\ {h \in Hooks : pc[h] \in {"compare", "rename"}} = {updating} \ {Nobody}
    /\ late \subseteq {h \in Hooks : At(h, "rename")}
    /\ excused \subseteq Hooks
    /\ Exclusive

\* A hook opens a lock before it waits for one.
Opened == \A h \in Hooks : pc[h] = "lock" => fd[h] \in LockFiles

LEMMA HeldInit == Init => Kinds /\ Held /\ Opened
<1> SUFFICES ASSUME Init PROVE Kinds /\ Held /\ Opened
  OBVIOUS
<1>1. file.kind \in {"none", "corrupt", "graph"}
  BY DEF Init, NoFile, Garbage, GraphFile
<1>2. Kinds
  BY <1>1 DEF Init, Kinds
<1>3. Held /\ Opened
  BY DEF Init, Held, Opened, Exclusive, Steps, Ended, Locked, At
<1> QED
  BY <1>2, <1>3

LEMMA KindsStep ==
    ASSUME Kinds, [Next]_vars
    PROVE  Kinds'
<1>1. ASSUME NEW h \in Hooks, MoveAside(h)
      PROVE  Kinds'
  BY <1>1 DEF Kinds, MoveAside, NoFile
<1>2. ASSUME NEW h \in Hooks, Rename(h)
      PROVE  Kinds'
  <2>1. /\ file' = GraphFile(mine[h])
        /\ UNCHANGED <<first, aside, wiped>>
    BY <1>2 DEF Rename
  <2>2. GraphFile(mine[h]).kind = "graph"
    BY DEF GraphFile
  <2> QED
    BY <2>1, <2>2 DEF Kinds
<1>3. CASE Clear
  BY <1>3 DEF Kinds, Clear, NoFile
<1>4. CASE UNCHANGED <<file, first, aside, wiped>>
  BY <1>4 DEF Kinds
<1>5. ASSUME NEW h \in Hooks, Record(h) \/ IoError(h) \/ Kill(h),
             ~MoveAside(h), ~Rename(h)
      PROVE  UNCHANGED <<file, first, aside, wiped>>
  BY <1>5 DEF Record, IoError, Kill, Ends, MovesOn, history,
     OpenLock, TakeLock, LockReplaced, LockBusy, Load, NothingToMove,
     AddDecision, Prune, TakeUpdateLock, UpdateLockBusy, Compare
<1>6. KeepLock \/ LeaveLock \/ UNCHANGED vars => UNCHANGED <<file, first, aside, wiped>>
  BY DEF KeepLock, LeaveLock, history, vars
<1> QED
  BY <1>1, <1>2, <1>3, <1>4, <1>5, <1>6 DEF Next, Record

LEMMA ReturnKeepsHeld ==
    ASSUME Held, Opened, NEW h \in Hooks, NEW how \in Ended, Return(h, how),
           UNCHANGED <<lockName, outsider>>,
           excused' \subseteq Hooks
    PROVE  Held' /\ Opened'
<1>1. /\ pc' = [pc EXCEPT ![h] = how]
      /\ holding' = holding \ {h}
      /\ updating' = IF updating = h THEN Nobody ELSE updating
      /\ fd' = [fd EXCEPT ![h] = NoLock]
      /\ late' = late \ {h}
  BY DEF Return, Goto
<1>2. how \notin Locked /\ how # "lock" /\ how \notin {"compare", "rename"}
  BY DEF Ended, Locked
<1>3. holding' = {g \in Hooks : pc'[g] \in Locked}
  BY <1>1, <1>2 DEF Held
<1>4. {g \in Hooks : pc'[g] \in {"compare", "rename"}} = {updating'} \ {Nobody}
  BY <1>1, <1>2, StoreAssumption DEF Held
<1>5. late' \subseteq {g \in Hooks : At(g, "rename")'}
  BY <1>1 DEF Held, At
<1>6. Exclusive' /\ \A g \in holding' : fd'[g] \in LockFiles
  <2>1. \A g \in holding' : g \in holding /\ fd'[g] = fd[g]
    BY <1>1 DEF Held
  <2> QED
    BY <2>1 DEF Held, Exclusive
<1>7. Opened'
  BY <1>1, <1>2 DEF Opened, Held
<1> QED
  BY <1>1, <1>3, <1>4, <1>5, <1>6, <1>7 DEF Held

\* A step that moves between the steps before the lock is held, or between
\* those after it, and takes no update lock.
LEMMA MoveKeepsHeld ==
    ASSUME Held, Opened, NEW h \in Hooks, NEW step \in Steps, Goto(h, step),
           pc[h] \in Locked <=> step \in Locked,
           pc[h] \notin {"compare", "rename"}, step \notin {"lock", "compare", "rename"},
           UNCHANGED <<lockName, fd, holding, updating, outsider>>,
           late' \subseteq {g \in Hooks : At(g, "rename")},
           excused' \subseteq Hooks
    PROVE  Held' /\ Opened'
<1>1. pc' = [pc EXCEPT ![h] = step]
  BY DEF Goto
<1>2. holding' = {g \in Hooks : pc'[g] \in Locked}
  BY <1>1 DEF Held
<1>3. {g \in Hooks : pc'[g] \in {"compare", "rename"}} = {updating'} \ {Nobody}
  BY <1>1 DEF Held
<1>4. late' \subseteq {g \in Hooks : At(g, "rename")'}
  BY <1>1 DEF Held, At
<1>5. Exclusive' /\ Opened'
  BY <1>1 DEF Held, Exclusive, Opened
<1> QED
  BY <1>1, <1>2, <1>3, <1>4, <1>5 DEF Held

LEMMA HeldStep ==
    ASSUME Held, Opened, [Next]_vars
    PROVE  Held' /\ Opened'
<1> USE DEF Steps, Locked, Ended
<1>1. ASSUME NEW h \in Hooks, OpenLock(h)
      PROVE  Held' /\ Opened'
  <2>1. /\ pc[h] = "open" /\ pc' = [pc EXCEPT ![h] = "lock"]
        /\ fd' = [fd EXCEPT ![h] = lockName'] /\ lockName' \in LockFiles
        /\ UNCHANGED <<holding, updating, outsider, late, excused>>
    BY <1>1 DEF OpenLock, Held, LockFiles, At, Goto, history
  <2>2. h \notin holding
    BY <2>1 DEF Held
  <2>3. holding' = {g \in Hooks : pc'[g] \in Locked}
    BY <2>1 DEF Held
  <2>4. {g \in Hooks : pc'[g] \in {"compare", "rename"}} = {updating'} \ {Nobody}
    BY <2>1 DEF Held
  <2>5. late' \subseteq {g \in Hooks : At(g, "rename")'}
    BY <2>1 DEF Held, At
  <2>6. Exclusive' /\ \A g \in holding' : fd'[g] \in LockFiles
    <3>1. \A g \in holding' : g \in holding /\ fd'[g] = fd[g]
      BY <2>1, <2>2 DEF Held
    <3> QED
      BY <3>1 DEF Held, Exclusive
  <2>7. Opened'
    BY <2>1 DEF Held, Opened
  <2> QED
    BY <2>1, <2>3, <2>4, <2>5, <2>6, <2>7 DEF Held
<1>2. ASSUME NEW h \in Hooks, TakeLock(h)
      PROVE  Held' /\ Opened'
  <2>1. /\ pc[h] = "lock" /\ pc' = [pc EXCEPT ![h] = "load"]
        /\ holding' = holding \cup {h} /\ Free(fd[h])
        /\ UNCHANGED <<lockName, fd, updating, outsider, late, excused>>
    BY <1>2 DEF TakeLock, At, Goto, history
  <2>2. \A g \in holding : fd[g] # fd[h]
    BY <2>1 DEF Free
  <2>3. holding' = {g \in Hooks : pc'[g] \in Locked}
    BY <2>1 DEF Held
  <2>4. {g \in Hooks : pc'[g] \in {"compare", "rename"}} = {updating'} \ {Nobody}
    BY <2>1 DEF Held
  <2>5. late' \subseteq {g \in Hooks : At(g, "rename")'}
    BY <2>1 DEF Held, At
  <2>6. Exclusive'
    <3>1. \A a, b \in holding \cup {h} : fd[a] = fd[b] => a = b
      BY <2>2 DEF Held, Exclusive
    <3> QED
      BY <2>1, <3>1 DEF Exclusive
  <2>7. Opened' /\ \A g \in holding' : fd'[g] \in LockFiles
    BY <2>1 DEF Held, Opened
  <2> QED
    BY <2>1, <2>3, <2>4, <2>5, <2>6, <2>7 DEF Held
<1>3. ASSUME NEW h \in Hooks, LockReplaced(h), ~Ends(h, "lost")
      PROVE  Held' /\ Opened'
  <2>1. /\ pc[h] = "lock" /\ pc' = [pc EXCEPT ![h] = "lock"]
        /\ fd' = [fd EXCEPT ![h] = lockName]
        /\ UNCHANGED <<lockName, holding, updating, outsider, late, excused>>
    BY <1>3 DEF LockReplaced, MovesOn, At, Goto, history
  <2>2. h \notin holding /\ pc' = pc
    BY <2>1 DEF Held
  <2>3. Exclusive' /\ \A g \in holding' : fd'[g] \in LockFiles
    <3>1. \A g \in holding' : g \in holding /\ fd'[g] = fd[g]
      BY <2>1, <2>2 DEF Held
    <3> QED
      BY <3>1 DEF Held, Exclusive
  <2>4. Opened'
    BY <2>1, <2>2 DEF Held, Opened
  <2> QED
    BY <2>1, <2>2, <2>3, <2>4 DEF Held, At
<1>4. ASSUME NEW h \in Hooks, NEW how \in Ended, Ends(h, how)
      PROVE  Held' /\ Opened'
  BY <1>4, ReturnKeepsHeld DEF Ends, Held
<1>5. ASSUME NEW h \in Hooks, Load(h) \/ AddDecision(h) \/ Prune(h),
             \A how \in Ended : ~Ends(h, how)
      PROVE  Held' /\ Opened'
  <2>1. \E step \in {"ingest", "aside", "prune", "update"} :
            /\ Goto(h, step)
            /\ pc[h] \in {"load", "ingest", "prune"}
            /\ UNCHANGED <<lockName, fd, holding, updating, outsider, late, excused>>
    BY <1>5 DEF Load, AddDecision, Prune, MovesOn, At, history
  <2> QED
    BY <2>1, MoveKeepsHeld DEF Held
<1>6. ASSUME NEW h \in Hooks, MoveAside(h)
      PROVE  Held' /\ Opened'
  <2>1. /\ Goto(h, "ingest") /\ pc[h] = "aside"
        /\ UNCHANGED <<lockName, fd, holding, updating, outsider>>
        /\ late' = late \cup {g \in Hooks : At(g, "rename")}
        /\ excused' = excused \cup Strangers(h)
    BY <1>6 DEF MoveAside, At, locks
  <2>2. Strangers(h) \subseteq Hooks
    BY DEF Strangers, Readers
  <2> QED
    BY <2>1, <2>2, MoveKeepsHeld DEF Held
<1>7. ASSUME NEW h \in Hooks, TakeUpdateLock(h)
      PROVE  Held' /\ Opened'
  <2>1. /\ pc[h] = "update" /\ pc' = [pc EXCEPT ![h] = "compare"]
        /\ updating = Nobody /\ updating' = h
        /\ UNCHANGED <<lockName, fd, holding, outsider, late, excused>>
    BY <1>7 DEF TakeUpdateLock, UpdateFree, MovesOn, At, Goto, history
  <2>2. holding' = {g \in Hooks : pc'[g] \in Locked}
    BY <2>1 DEF Held
  <2>3. {g \in Hooks : pc'[g] \in {"compare", "rename"}} = {updating'} \ {Nobody}
    BY <2>1, StoreAssumption DEF Held
  <2>4. late' \subseteq {g \in Hooks : At(g, "rename")'}
    BY <2>1 DEF Held, At
  <2>5. Exclusive' /\ Opened'
    BY <2>1 DEF Held, Exclusive, Opened
  <2> QED
    BY <2>1, <2>2, <2>3, <2>4, <2>5 DEF Held
<1>8. ASSUME NEW h \in Hooks, Compare(h), ~Ends(h, "failed")
      PROVE  Held' /\ Opened'
  <2>1. /\ pc[h] = "compare" /\ pc' = [pc EXCEPT ![h] = "rename"]
        /\ UNCHANGED <<lockName, fd, holding, updating, outsider, late, excused>>
    BY <1>8 DEF Compare, MovesOn, At, Goto, history
  <2>2. holding' = {g \in Hooks : pc'[g] \in Locked}
    BY <2>1 DEF Held
  <2>3. {g \in Hooks : pc'[g] \in {"compare", "rename"}} = {updating'} \ {Nobody}
    BY <2>1 DEF Held
  <2>4. late' \subseteq {g \in Hooks : At(g, "rename")'}
    BY <2>1 DEF Held, At
  <2>5. Exclusive' /\ Opened'
    BY <2>1 DEF Held, Exclusive, Opened
  <2> QED
    BY <2>1, <2>2, <2>3, <2>4, <2>5 DEF Held
<1>9. ASSUME NEW h \in Hooks, Rename(h)
      PROVE  Held' /\ Opened'
  <2>1. Return(h, "recorded") /\ UNCHANGED <<lockName, outsider>>
    BY <1>9 DEF Rename
  <2>2. excused' \subseteq Hooks
    BY <1>9 DEF Rename, Strangers, Readers, Held
  <2> QED
    BY <2>1, <2>2, ReturnKeepsHeld
<1>10. ASSUME NEW h \in Hooks, IoError(h), \A how \in Ended : ~Ends(h, how)
       PROVE  Held' /\ Opened'
  <2>1. Return(h, "failed") /\ UNCHANGED <<lockName, outsider>>
        /\ excused' = excused \cup {h}
    BY <1>10 DEF IoError
  <2> QED
    BY <2>1, ReturnKeepsHeld DEF Held
<1>11. CASE Clear
  <2>1. /\ UNCHANGED <<lockName, fd, holding, updating, outsider, pc>>
        /\ late' = late \cup {h \in Hooks : At(h, "rename")}
        /\ excused' = excused \cup Readers
    BY <1>11 DEF Clear, locks
  <2> QED
    BY <2>1 DEF Held, Opened, Exclusive, At, Readers
<1>12. CASE KeepLock \/ LeaveLock
  <2>1. /\ UNCHANGED <<lockName, fd, holding, updating, pc, late, excused>>
        /\ outsider' \subseteq LockFiles \cup {"update lock"}
    BY <1>12 DEF KeepLock, LeaveLock, history, Held
  <2> QED
    BY <2>1 DEF Held, Opened, Exclusive, At
<1>13. CASE UNCHANGED vars
  BY <1>13 DEF Held, Opened, Exclusive, At, vars, locks, history
<1>14. ASSUME NEW h \in Hooks, Record(h) \/ IoError(h) \/ Kill(h)
       PROVE  Held' /\ Opened'
  <2>1. CASE \E how \in Ended : Ends(h, how)
    BY <1>4, <2>1
  <2>2. CASE ~\E how \in Ended : Ends(h, how)
    <3>1. /\ ~Ends(h, "lost") /\ ~Ends(h, "failed") /\ ~Ends(h, "duplicate")
      BY <2>2
    <3>2. ~LockBusy(h) /\ ~NothingToMove(h) /\ ~UpdateLockBusy(h) /\ ~Kill(h)
      BY <3>1 DEF LockBusy, NothingToMove, UpdateLockBusy, Kill
    <3> QED
      BY <1>1, <1>2, <1>3, <1>5, <1>6, <1>7, <1>8, <1>9, <1>10, <1>14, <2>2, <3>1, <3>2
         DEF Record
  <2> QED
    BY <2>1, <2>2
<1> QED
  BY <1>11, <1>12, <1>13, <1>14 DEF Next

-----------------------------------------------------------------------------
(* What the locks protect. *)

\* A hook past its reading expects what it finds, unless somebody its lock
\* does not keep out was there; one about to replace the file compared it a
\* step ago; and what replaces the file is never made from a corrupt one.
Reading ==
    /\ read = [h \in Hooks |-> read[h]]
    /\ \A h \in Hooks \ Readers : read[h] = NoFile
    /\ \A h \in Hooks : read[h].kind # "corrupt"
    /\ \A h \in Readers : file = read[h] \/ h \in excused
    /\ \A h \in Hooks : At(h, "rename") => file = read[h] \/ h \in late
    /\ \A h \in Hooks : At(h, "rename") => file # Garbage
    /\ NoRecordFailsForAnother
    /\ CorruptIsPreserved

IInv == Kinds /\ Held /\ Opened /\ Reading

LEMMA IInvInit == Init => IInv
<1> SUFFICES ASSUME Init PROVE IInv
  OBVIOUS
<1>2. Kinds /\ Held /\ Opened
  BY HeldInit
<1>3. pc = [h \in Hooks |-> "open"] /\ read = [h \in Hooks |-> NoFile] /\ first = file
  BY DEF Init
<1>4. Reading
  BY <1>3 DEF Reading, Readers, Locked, At, NoRecordFailsForAnother,
              CorruptIsPreserved, NoFile
<1> QED
  BY <1>2, <1>4 DEF IInv

\* The hooks past their reading hold their lock: two with one lock are one.
LEMMA ReadersAreStrangers ==
    ASSUME Held, NEW h \in holding, NEW g \in Readers, g # h
    PROVE  g \in Strangers(h)
BY DEF Held, Exclusive, Readers, Strangers

\* A hook's record ends, the file as it was.
LEMMA EndKeepsReading ==
    ASSUME Held, Reading, NEW h \in Hooks, NEW how \in Ended, Return(h, how),
           UNCHANGED <<file, aside, first, wiped>>,
           excused \subseteq excused',
           how = "failed" => h \in excused'
    PROVE  Reading'
<1>1. /\ pc' = [pc EXCEPT ![h] = how] /\ read' = [read EXCEPT ![h] = NoFile]
      /\ late' = late \ {h}
  BY DEF Return, Goto
<1>2. how \notin Locked /\ how # "rename"
  BY DEF Ended, Locked
<1>3. Readers' = Readers \ {h}
  BY <1>1, <1>2 DEF Readers, Held
<1>4. /\ \A g \in Hooks : g # h => pc'[g] = pc[g] /\ read'[g] = read[g]
      /\ pc'[h] = how /\ read'[h] = NoFile
  BY <1>1 DEF Held, Reading
<1>5. /\ \A g \in Hooks \ Readers' : read'[g] = NoFile
      /\ \A g \in Hooks : read'[g].kind # "corrupt"
      /\ read' = [g \in Hooks |-> read'[g]]
  BY <1>1, <1>3, <1>4 DEF Reading, NoFile
<1>6. \A g \in Readers' : file' = read'[g] \/ g \in excused'
  BY <1>3, <1>4 DEF Reading, Readers
<1>7. \A g \in Hooks : At(g, "rename")' =>
          (file' = read'[g] \/ g \in late') /\ file' # Garbage
  BY <1>1, <1>2, <1>4 DEF Reading, At
<1>8. NoRecordFailsForAnother'
  BY <1>4 DEF Reading, NoRecordFailsForAnother
<1> QED
  BY <1>5, <1>6, <1>7, <1>8 DEF Reading, CorruptIsPreserved, Garbage

\* A hook moves on, and neither the file nor what it expects of it changes.
LEMMA MoveKeepsReading ==
    ASSUME Held, Reading, NEW h \in Hooks, NEW step \in Steps, Goto(h, step),
           UNCHANGED <<file, read, aside, first, wiped, late, excused>>,
           h \in Readers <=> step \in Locked \ {"load", "aside"},
           step = "rename" => file = read[h]
    PROVE  Reading'
<1>1. /\ pc' = [pc EXCEPT ![h] = step]
      /\ step # "failed"
  BY DEF Goto, Steps
<1>2. \A g \in Hooks : pc'[g] = IF g = h THEN step ELSE pc[g]
  BY <1>1 DEF Held
<1>3. Readers' = Readers
  BY <1>2 DEF Readers
<1>4. \A g \in Hooks : At(g, "rename")' =>
          (file' = read'[g] \/ g \in late') /\ file' # Garbage
  BY <1>2 DEF Reading, At, Garbage
<1>5. NoRecordFailsForAnother'
  BY <1>1, <1>2 DEF Reading, NoRecordFailsForAnother
<1> QED
  BY <1>3, <1>4, <1>5 DEF Reading, CorruptIsPreserved, Garbage

LEMMA ReadingStep ==
    ASSUME Held, Reading, [Next]_vars
    PROVE  Reading'
<1>1. ASSUME NEW h \in Hooks, NEW how \in {"lost", "duplicate"}, Ends(h, how)
      PROVE  Reading'
  BY <1>1, EndKeepsReading DEF Ends, Ended
<1>2. ASSUME NEW h \in Hooks,
             OpenLock(h) \/ TakeLock(h) \/ (LockReplaced(h) /\ ~Ends(h, "lost"))
      PROVE  Reading'
  <2>1. \E step \in {"lock", "load"} :
            /\ Goto(h, step)
            /\ pc[h] \in {"open", "lock"}
            /\ UNCHANGED <<file, read, aside, first, wiped, late, excused>>
    BY <1>2 DEF OpenLock, TakeLock, LockReplaced, MovesOn, At, history
  <2>2. h \notin Readers
    BY <2>1 DEF Readers, Locked
  <2> QED
    BY <2>1, <2>2, MoveKeepsReading DEF Steps, Locked
<1>3. ASSUME NEW h \in Hooks, Load(h)
      PROVE  Reading'
  <2>0. pc[h] = "load" /\ h \notin Readers
    BY <1>3 DEF Load, At, Readers
  <2>1. CASE /\ MovesOn(h, "aside") /\ UNCHANGED <<fd, updating, read, mine>>
    <3>1. /\ Goto(h, "aside")
          /\ UNCHANGED <<file, read, aside, first, wiped, late, excused>>
      BY <2>1 DEF MovesOn, history
    <3> QED
      BY <2>0, <3>1, MoveKeepsReading DEF Steps
  <2>2. CASE /\ file.kind # "corrupt" /\ read' = [read EXCEPT ![h] = file]
             /\ MovesOn(h, "ingest")
    <3>1. /\ pc' = [pc EXCEPT ![h] = "ingest"]
          /\ UNCHANGED <<file, aside, first, wiped, late, excused>>
      BY <2>2 DEF MovesOn, history, Goto
    <3>2. /\ \A g \in Hooks : g # h => pc'[g] = pc[g] /\ read'[g] = read[g]
          /\ pc'[h] = "ingest" /\ read'[h] = file
          /\ read' = [g \in Hooks |-> read'[g]]
      BY <2>2, <3>1 DEF Held, Reading
    <3>3. Readers' = Readers \cup {h}
      BY <3>2 DEF Readers, Locked
    <3>4. \A g \in Hooks : At(g, "rename")' =>
              (file' = read'[g] \/ g \in late') /\ file' # Garbage
      BY <3>1, <3>2 DEF Reading, At, Garbage
    <3>5. NoRecordFailsForAnother'
      BY <3>1, <3>2 DEF Reading, NoRecordFailsForAnother
    <3>6. /\ \A g \in Hooks \ Readers' : read'[g] = NoFile
          /\ \A g \in Hooks : read'[g].kind # "corrupt"
          /\ \A g \in Readers' : file' = read'[g] \/ g \in excused'
      BY <2>2, <3>1, <3>2, <3>3 DEF Reading
    <3> QED
      BY <3>1, <3>2, <3>4, <3>5, <3>6 DEF Reading, CorruptIsPreserved, Garbage
  <2> QED
    BY <1>3, <2>1, <2>2 DEF Load
<1>4. ASSUME NEW h \in Hooks, MoveAside(h)
      PROVE  Reading'
  <2>1. /\ pc[h] = "aside" /\ pc' = [pc EXCEPT ![h] = "ingest"]
        /\ aside' = aside \cup {file} /\ file' = NoFile
        /\ late' = late \cup {g \in Hooks : At(g, "rename")}
        /\ excused' = excused \cup Strangers(h)
        /\ UNCHANGED <<read, first, wiped>>
    BY <1>4 DEF MoveAside, At, Goto
  <2>2. /\ \A g \in Hooks : g # h => pc'[g] = pc[g]
        /\ pc'[h] = "ingest"
    BY <2>1 DEF Held
  <2>3. h \notin Readers /\ Readers' = Readers \cup {h}
    BY <2>1, <2>2 DEF Readers, Locked
  <2>4. h \in holding
    BY <2>1 DEF Held, Locked
  <2>5. \A g \in Readers' : file' = read'[g] \/ g \in excused'
    <3>1. read[h] = NoFile
      BY <2>3 DEF Reading
    <3>2. \A g \in Readers : g \in Strangers(h)
      BY <2>3, <2>4, ReadersAreStrangers
    <3> QED
      BY <2>1, <2>3, <3>1, <3>2
  <2>6. \A g \in Hooks : At(g, "rename")' =>
            (file' = read'[g] \/ g \in late') /\ file' # Garbage
    <3>1. NoFile # Garbage
      BY DEF NoFile, Garbage
    <3> QED
      BY <2>1, <2>2, <3>1 DEF At
  <2>7. NoRecordFailsForAnother' /\ CorruptIsPreserved'
    BY <2>1, <2>2 DEF Reading, NoRecordFailsForAnother, CorruptIsPreserved, Garbage
  <2>8. \A g \in Hooks \ Readers' : read'[g] = NoFile
    BY <2>1, <2>3 DEF Reading
  <2> QED
    BY <2>1, <2>5, <2>6, <2>7, <2>8 DEF Reading
<1>5. ASSUME NEW h \in Hooks, AddDecision(h) \/ Prune(h) \/ TakeUpdateLock(h),
             ~Ends(h, "duplicate")
      PROVE  Reading'
  <2>1. \E step \in {"prune", "update", "compare"} :
            /\ Goto(h, step)
            /\ pc[h] \in {"ingest", "prune", "update"}
            /\ UNCHANGED <<file, read, aside, first, wiped, late, excused>>
    BY <1>5 DEF AddDecision, Prune, TakeUpdateLock, MovesOn, At, history
  <2>2. h \in Readers
    BY <2>1 DEF Readers, Locked
  <2> QED
    BY <2>1, <2>2, MoveKeepsReading DEF Steps, Locked
<1>6. ASSUME NEW h \in Hooks, Compare(h)
      PROVE  Reading'
  <2>1. pc[h] = "compare" /\ h \in Readers
    BY <1>6 DEF Compare, At, Readers, Locked
  <2>2. CASE file = read[h] /\ MovesOn(h, "rename") /\ UNCHANGED read
    <3>1. /\ Goto(h, "rename")
          /\ UNCHANGED <<file, read, aside, first, wiped, late, excused>>
      BY <2>2 DEF MovesOn, history
    <3> QED
      BY <2>1, <2>2, <3>1, MoveKeepsReading DEF Steps, Locked
  <2>3. CASE file # read[h] /\ Ends(h, "failed")
    <3>1. h \in excused
      BY <2>1, <2>3 DEF Reading
    <3> QED
      BY <2>3, <3>1, EndKeepsReading DEF Ends, Ended
  <2> QED
    BY <1>6, <2>2, <2>3 DEF Compare
<1>7. ASSUME NEW h \in Hooks, Rename(h)
      PROVE  Reading'
  <2>1. /\ pc[h] = "rename" /\ pc' = [pc EXCEPT ![h] = "recorded"]
        /\ file' = GraphFile(mine[h])
        /\ read' = [read EXCEPT ![h] = NoFile]
        /\ late' = late \ {h}
        /\ excused' = excused \cup Strangers(h)
        /\ UNCHANGED <<aside, first, wiped>>
    BY <1>7 DEF Rename, Return, At, Goto
  <2>2. /\ \A g \in Hooks : g # h => pc'[g] = pc[g] /\ read'[g] = read[g]
        /\ pc'[h] = "recorded" /\ read'[h] = NoFile
        /\ read' = [g \in Hooks |-> read'[g]]
    BY <2>1 DEF Held, Reading
  <2>3. Readers' = Readers \ {h}
    BY <2>2 DEF Readers, Locked
  <2>4. h \in holding
    BY <2>1 DEF Held, Locked
  <2>5. \A g \in Readers' : g \in excused'
    BY <2>1, <2>3, <2>4, ReadersAreStrangers
  <2>6. \A g \in Hooks : ~At(g, "rename")'
    <3>1. \A g \in Hooks : g # h => pc[g] # "rename"
      <4> DEFINE replacing == {g \in Hooks : pc[g] \in {"compare", "rename"}}
      <4>1. h \in replacing /\ replacing = {updating} \ {Nobody}
        BY <2>1 DEF Held
      <4>2. \A g \in replacing : g = h
        BY <4>1
      <4> QED
        BY <4>2
    <3> QED
      BY <2>2, <3>1 DEF At
  <2>7. NoRecordFailsForAnother'
    BY <2>1, <2>2 DEF Reading, NoRecordFailsForAnother
  <2>8. CorruptIsPreserved'
    <3>1. file # Garbage
      BY <2>1 DEF Reading, At
    <3> QED
      BY <2>1, <3>1 DEF Reading, CorruptIsPreserved, Garbage
  <2>9. /\ \A g \in Hooks \ Readers' : read'[g] = NoFile
        /\ \A g \in Hooks : read'[g].kind # "corrupt"
    BY <2>2, <2>3 DEF Reading, NoFile
  <2> QED
    BY <2>2, <2>5, <2>6, <2>7, <2>8, <2>9 DEF Reading
<1>8. ASSUME NEW h \in Hooks, IoError(h)
      PROVE  Reading'
  <2>1. CASE Ends(h, "lost")
    BY <1>1, <2>1
  <2>2. CASE /\ Return(h, "failed") /\ excused' = excused \cup {h}
             /\ UNCHANGED <<file, aside, lockName, outsider, first, wiped, pruned>>
    BY <2>2, EndKeepsReading DEF Ended
  <2> QED
    BY <1>8, <2>1, <2>2 DEF IoError
<1>9. CASE Clear
  <2>1. /\ wiped' = wiped \cup {file} /\ file' = NoFile
        /\ late' = late \cup {h \in Hooks : At(h, "rename")}
        /\ excused' = excused \cup Readers
        /\ UNCHANGED <<aside, pc, read, first>>
    BY <1>9 DEF Clear
  <2>2. Readers' = Readers
    BY <2>1 DEF Readers
  <2>3. NoFile # Garbage
    BY DEF NoFile, Garbage
  <2>4. NoRecordFailsForAnother' /\ CorruptIsPreserved'
    BY <2>1 DEF Reading, NoRecordFailsForAnother, CorruptIsPreserved, Garbage
  <2> QED
    BY <2>1, <2>2, <2>3, <2>4 DEF Reading, At
<1>10. CASE KeepLock \/ LeaveLock \/ UNCHANGED vars
  <2>1. UNCHANGED <<file, aside, pc, read, first, wiped, late, excused>>
    BY <1>10 DEF KeepLock, LeaveLock, vars, history
  <2> QED
    BY <2>1 DEF Reading, Readers, At, NoRecordFailsForAnother, CorruptIsPreserved, Garbage
<1>11. ASSUME NEW h \in Hooks, Record(h) \/ Kill(h)
       PROVE  Reading'
  <2>1. CASE Ends(h, "lost") \/ Ends(h, "duplicate")
    BY <1>1, <2>1
  <2>2. CASE ~Ends(h, "lost") /\ ~Ends(h, "duplicate")
    <3>1. ~LockBusy(h) /\ ~NothingToMove(h) /\ ~UpdateLockBusy(h) /\ ~Kill(h)
      BY <2>2 DEF LockBusy, NothingToMove, UpdateLockBusy, Kill
    <3> QED
      BY <1>2, <1>3, <1>4, <1>5, <1>6, <1>7, <1>11, <2>2, <3>1 DEF Record
  <2> QED
    BY <2>1, <2>2
<1> QED
  BY <1>8, <1>9, <1>10, <1>11 DEF Next

LEMMA IInvStep == IInv /\ [Next]_vars => IInv'
BY KindsStep, HeldStep, ReadingStep DEF IInv

LEMMA Invariance == Spec => []IInv
<1> QED
  BY IInvInit, IInvStep, PTL DEF Spec

-----------------------------------------------------------------------------
(* What the hooks store. *)

LEMMA EmptyIsWellFormed ==
    /\ WellFormed(EmptyGraph) /\ NodesOf(EmptyGraph) = {} /\ Decisions(EmptyGraph) = {}
    /\ NoFile.graph = EmptyGraph /\ Garbage.graph = EmptyGraph
<1>1. NodesOf(EmptyGraph) = {} /\ Commands(EmptyGraph) = {} /\ EmptyGraph.nodes = <<>>
      /\ EmptyGraph.ran = {}
  BY DEF EmptyGraph, NodesOf, Commands
<1>2. <<>> \in Seq({}) /\ DOMAIN <<>> = {}
  OBVIOUS
<1> QED
  BY <1>1, <1>2 DEF WellFormed, Linked, EventsOnce, Decisions, NoFile, Garbage

\* What a decision adds to those a graph holds.
LEMMA DecisionAdded ==
    ASSUME NEW g, WellFormed(g), NEW s, NEW e, NEW by
    PROVE  Decisions(Ingest(g, s, e, by)) = Decisions(g) \cup {by}
<1> DEFINE new == Command(s, NextSeq(g, s), e, by)
           h == Ingest(g, s, e, by)
<1>1. NodesOf(h) = NodesOf(g) \cup {Anchor(s), new}
  BY IngestAdds
<1>2. ~IsSession(new) /\ new.by = by /\ IsSession(Anchor(s))
  BY NextSeqIsAbove, IdsDiffer
<1> HIDE DEF new, h
<1>3. Commands(h) = Commands(g) \cup {new}
  BY <1>1, <1>2 DEF Commands
<1>4. Decisions(h) = Decisions(g) \cup {by}
  BY <1>2, <1>3 DEF Decisions
<1> QED
  BY <1>4 DEF h

\* A hook's own graph, once it extended what it read.
Changed == {"prune", "update", "compare", "rename"}

\* Every graph is well formed; a hook adds its decision to what it read; and
\* the file a hook replaces is the one it read, or was taken away.
Stored ==
    /\ mine = [h \in Hooks |-> mine[h]]
    /\ WellFormed(file.graph)
    /\ \A h \in Hooks : WellFormed(read[h].graph) /\ WellFormed(mine[h])
    /\ \A h \in Hooks : pc[h] \notin Changed => mine[h] = read[h].graph
    /\ \A h \in Hooks : At(h, "rename") => file = read[h] \/ file = NoFile
    /\ RecordedStays

\* A step of one hook that leaves the file alone, and records nothing.
LEMMA LocalKeepsStored ==
    ASSUME Held, Reading, Stored, NEW h \in Hooks, NEW to, NEW r, NEW m,
           pc' = [pc EXCEPT ![h] = to], to # "recorded",
           read' = [read EXCEPT ![h] = r], WellFormed(r.graph),
           mine' = [mine EXCEPT ![h] = m], WellFormed(m),
           to \notin Changed => m = r.graph,
           to = "rename" => file = r,
           UNCHANGED <<file, aside, first, wiped, pruned>>
    PROVE  Stored'
<1>1. /\ \A g \in Hooks : g # h => pc'[g] = pc[g] /\ read'[g] = read[g] /\ mine'[g] = mine[g]
      /\ pc'[h] = to /\ read'[h] = r /\ mine'[h] = m
      /\ mine' = [g \in Hooks |-> mine'[g]]
  BY DEF Held, Reading, Stored
<1>2. /\ \A g \in Hooks : WellFormed(read'[g].graph) /\ WellFormed(mine'[g])
      /\ \A g \in Hooks : pc'[g] \notin Changed => mine'[g] = read'[g].graph
      /\ \A g \in Hooks : At(g, "rename")' => file' = read'[g] \/ file' = NoFile
  BY <1>1 DEF Stored, At
<1>3. {g \in Hooks : pc'[g] = "recorded"} \subseteq {g \in Hooks : pc[g] = "recorded"}
  BY <1>1
<1>4. RecordedStays'
  BY <1>3 DEF Stored, RecordedStays, DecisionsIn
<1> QED
  BY <1>1, <1>2, <1>4 DEF Stored

LEMMA EndKeepsStored ==
    ASSUME Held, Reading, Stored, NEW h \in Hooks, NEW how \in Ended, how # "recorded",
           Return(h, how), UNCHANGED <<file, aside, first, wiped, pruned>>
    PROVE  Stored'
<1>1. /\ pc' = [pc EXCEPT ![h] = how] /\ read' = [read EXCEPT ![h] = NoFile]
      /\ mine' = [mine EXCEPT ![h] = EmptyGraph]
  BY DEF Return, Goto
<1>2. how # "rename" /\ how \notin Changed
  BY DEF Ended, Changed
<1> QED
  BY <1>1, <1>2, EmptyIsWellFormed, LocalKeepsStored

LEMMA StoredInit == Init => Stored
<1> SUFFICES ASSUME Init PROVE Stored
  OBVIOUS
<1>1. WellFormed(file.graph)
  BY EmptyIsWellFormed, OldGraphAssumption DEF Init, GraphFile
<1>2. /\ pc = [h \in Hooks |-> "open"] /\ read = [h \in Hooks |-> NoFile]
      /\ mine = [h \in Hooks |-> EmptyGraph] /\ first = file
  BY DEF Init
<1>3. RecordedStays
  BY <1>2 DEF RecordedStays
<1> QED
  BY <1>1, <1>2, <1>3, EmptyIsWellFormed DEF Stored, At

\* The file is taken away, moved aside or cleared: what it held is where it
\* went.
LEMMA TakenAwayKeepsStored ==
    ASSUME Held, Reading, Stored, file' = NoFile,
           {file} \cup aside \cup wiped \subseteq aside' \cup wiped',
           UNCHANGED <<read, mine, first, pruned>>,
           \A h \in Hooks : /\ pc'[h] = pc[h] \/ (pc[h] = "aside" /\ pc'[h] = "ingest")
    PROVE  Stored'
<1>1. WellFormed(file'.graph)
  BY EmptyIsWellFormed
<1>2. {h \in Hooks : pc'[h] = "recorded"} = {h \in Hooks : pc[h] = "recorded"}
  OBVIOUS
<1>3. RecordedStays'
  BY <1>2 DEF Stored, RecordedStays, DecisionsIn
<1>4. \A h \in Hooks : pc'[h] \notin Changed => mine[h] = read[h].graph
  BY DEF Stored, Changed
<1>5. /\ mine' = [h \in Hooks |-> mine'[h]]
      /\ \A h \in Hooks : WellFormed(read'[h].graph) /\ WellFormed(mine'[h])
  BY DEF Stored
<1> QED
  BY <1>1, <1>3, <1>4, <1>5 DEF Stored

\* A replacement: what the file held is in what replaces it, or was pruned.
LEMMA RenameKeepsStored ==
    ASSUME Held, Reading, Stored, NEW h \in Hooks, Rename(h)
    PROVE  Stored'
<1>1. /\ pc[h] = "rename" /\ pc' = [pc EXCEPT ![h] = "recorded"]
      /\ file' = GraphFile(mine[h])
      /\ read' = [read EXCEPT ![h] = NoFile] /\ mine' = [mine EXCEPT ![h] = EmptyGraph]
      /\ pruned' = pruned \cup (Decisions(Extended(h)) \ Decisions(mine[h]))
      /\ UNCHANGED <<aside, first, wiped>>
  BY DEF Rename, Return, Goto, At
<1>2. /\ \A g \in Hooks : g # h => pc'[g] = pc[g] /\ read'[g] = read[g] /\ mine'[g] = mine[g]
      /\ pc'[h] = "recorded" /\ read'[h] = NoFile /\ mine'[h] = EmptyGraph
      /\ mine' = [g \in Hooks |-> mine'[g]]
  BY <1>1 DEF Held, Reading, Stored
<1>3. \A g \in Hooks : g # h => pc[g] # "rename"
  <2> DEFINE replacing == {g \in Hooks : pc[g] \in {"compare", "rename"}}
  <2>1. h \in replacing /\ replacing = {updating} \ {Nobody}
    BY <1>1 DEF Held
  <2>2. \A g \in replacing : g = h
    BY <2>1
  <2> QED
    BY <2>2
<1>4. \A g \in Hooks : ~At(g, "rename")'
  BY <1>2, <1>3 DEF At
<1>5. file'.graph = mine[h] /\ DecisionsIn(file') = Decisions(mine[h])
  BY <1>1 DEF GraphFile, DecisionsIn
<1>6. /\ WellFormed(file'.graph)
      /\ \A g \in Hooks : WellFormed(read'[g].graph) /\ WellFormed(mine'[g])
      /\ \A g \in Hooks : pc'[g] \notin Changed => mine'[g] = read'[g].graph
  <2>1. WellFormed(file'.graph)
    BY <1>5 DEF Stored
  <2>2. ASSUME NEW g \in Hooks
        PROVE  /\ WellFormed(read'[g].graph) /\ WellFormed(mine'[g])
               /\ pc'[g] \notin Changed => mine'[g] = read'[g].graph
    <3>1. CASE g = h
      BY <1>2, <3>1, EmptyIsWellFormed
    <3>2. CASE g # h
      BY <1>2, <3>2 DEF Stored
    <3> QED
      BY <3>1, <3>2
  <2> QED
    BY <2>1, <2>2
<1>7. Decisions(Extended(h)) = Decisions(read[h].graph) \cup {h}
  BY DecisionAdded DEF Extended, Stored
<1>8. DecisionsIn(file) \subseteq Decisions(read[h].graph)
  <2>1. file = read[h] \/ file = NoFile
    BY <1>1 DEF Stored, At
  <2> QED
    BY <2>1, EmptyIsWellFormed DEF DecisionsIn
<1>9. DecisionsIn(file) \cup {h} \subseteq pruned' \cup DecisionsIn(file')
  BY <1>1, <1>5, <1>7, <1>8
<1>10. RecordedStays'
  <2>1. {g \in Hooks : pc'[g] = "recorded"} = {g \in Hooks : pc[g] = "recorded"} \cup {h}
    BY <1>2
  <2>2. DecisionsIn(first') = DecisionsIn(first)
    BY <1>1 DEF DecisionsIn
  <2>3. UNION {DecisionsIn(f) : f \in {file} \cup aside \cup wiped}
          \subseteq pruned' \cup UNION {DecisionsIn(f) : f \in {file'} \cup aside' \cup wiped'}
    BY <1>1, <1>9
  <2>4. {g \in Hooks : pc[g] = "recorded"} \cup DecisionsIn(first)
          \subseteq pruned \cup UNION {DecisionsIn(f) : f \in {file} \cup aside \cup wiped}
    BY DEF Stored, RecordedStays
  <2>5. /\ pruned \subseteq pruned'
        /\ h \in pruned' \cup UNION {DecisionsIn(f) : f \in {file'} \cup aside' \cup wiped'}
    BY <1>1, <1>9
  <2>6. {g \in Hooks : pc'[g] = "recorded"} \cup DecisionsIn(first')
          \subseteq pruned' \cup UNION {DecisionsIn(f) : f \in {file'} \cup aside' \cup wiped'}
    BY <2>1, <2>2, <2>3, <2>4, <2>5
  <2> QED
    BY <2>6 DEF RecordedStays, DecisionsIn
<1> QED
  BY <1>2, <1>4, <1>6, <1>10 DEF Stored

LEMMA StoredStep ==
    ASSUME Held, Reading, Stored, [Next]_vars
    PROVE  Stored'
<1>1. /\ pc = [h \in Hooks |-> pc[h]] /\ read = [h \in Hooks |-> read[h]]
      /\ mine = [h \in Hooks |-> mine[h]]
      /\ WellFormed(file.graph)
      /\ \A h \in Hooks : /\ WellFormed(read[h].graph) /\ WellFormed(mine[h])
                          /\ pc[h] \notin Changed => mine[h] = read[h].graph
                          /\ read = [read EXCEPT ![h] = read[h]]
                          /\ mine = [mine EXCEPT ![h] = mine[h]]
  BY DEF Held, Reading, Stored
<1>2. ASSUME NEW h \in Hooks, NEW how \in Ended \ {"recorded"}, Ends(h, how)
      PROVE  Stored'
  BY <1>2, EndKeepsStored DEF Ends
<1>3. ASSUME NEW h \in Hooks,
             OpenLock(h) \/ TakeLock(h) \/ (LockReplaced(h) /\ ~Ends(h, "lost"))
      PROVE  Stored'
  <2>1. \E to \in {"lock", "load"} :
            /\ pc' = [pc EXCEPT ![h] = to] /\ pc[h] \in {"open", "lock"}
            /\ UNCHANGED <<file, read, mine, aside, first, wiped, pruned>>
    BY <1>3 DEF OpenLock, TakeLock, LockReplaced, MovesOn, Goto, At, history
  <2> QED
    BY <1>1, <2>1, LocalKeepsStored DEF Changed
<1>4. ASSUME NEW h \in Hooks, Load(h)
      PROVE  Stored'
  <2>1. CASE /\ MovesOn(h, "aside") /\ UNCHANGED <<fd, updating, read, mine>>
    <3>1. /\ pc' = [pc EXCEPT ![h] = "aside"] /\ pc[h] = "load"
          /\ UNCHANGED <<file, read, mine, aside, first, wiped, pruned>>
      BY <1>4, <2>1 DEF Load, At, MovesOn, Goto, history
    <3> QED
      BY <1>1, <3>1, LocalKeepsStored DEF Changed
  <2>2. CASE /\ file.kind # "corrupt" /\ read' = [read EXCEPT ![h] = file]
             /\ mine' = [mine EXCEPT ![h] = file.graph]
             /\ MovesOn(h, "ingest")
    <3>1. /\ pc' = [pc EXCEPT ![h] = "ingest"]
          /\ UNCHANGED <<file, aside, first, wiped, pruned>>
      BY <2>2 DEF MovesOn, Goto, history
    <3> QED
      BY <1>1, <2>2, <3>1, LocalKeepsStored DEF Changed
  <2> QED
    BY <1>4, <2>1, <2>2 DEF Load
<1>5. ASSUME NEW h \in Hooks, MoveAside(h)
      PROVE  Stored'
  <2>1. /\ pc[h] = "aside" /\ pc' = [pc EXCEPT ![h] = "ingest"]
        /\ aside' = aside \cup {file} /\ file' = NoFile
        /\ UNCHANGED <<read, mine, first, wiped, pruned>>
    BY <1>5 DEF MoveAside, At, Goto
  <2>2. \A g \in Hooks : pc'[g] = pc[g] \/ (pc[g] = "aside" /\ pc'[g] = "ingest")
    BY <1>1, <2>1
  <2> QED
    BY <2>1, <2>2, TakenAwayKeepsStored
<1>6. ASSUME NEW h \in Hooks, AddDecision(h), ~Ends(h, "duplicate")
      PROVE  Stored'
  <2>1. /\ pc[h] = "ingest" /\ pc' = [pc EXCEPT ![h] = "prune"]
        /\ ~Recorded(mine[h], Event[h])
        /\ mine' = [mine EXCEPT ![h] = WithinNodeCap(Extended(h))]
        /\ UNCHANGED <<file, read, aside, first, wiped, pruned>>
    BY <1>6 DEF AddDecision, MovesOn, Goto, At, history
  <2>2. mine[h] = read[h].graph
    BY <1>1, <2>1 DEF Changed
  <2>3. WellFormed(Extended(h))
    BY <1>1, <2>1, <2>2, IngestKeeps DEF Extended
  <2>4. WellFormed(WithinNodeCap(Extended(h)))
    BY <2>3, PruneKeeps
  <2> QED
    BY <1>1, <2>1, <2>4, LocalKeepsStored DEF Changed
<1>7. ASSUME NEW h \in Hooks, Prune(h)
      PROVE  Stored'
  <2>1. CASE OverByteBudget(mine[h])
    <3>1. /\ pc' = [pc EXCEPT ![h] = "prune"]
          /\ mine' = [mine EXCEPT ![h] = DropShare(mine[h])]
          /\ UNCHANGED <<file, read, aside, first, wiped, pruned>>
      BY <1>1, <1>7, <2>1 DEF Prune, MovesOn, Goto, history
    <3>2. WellFormed(DropShare(mine[h]))
      BY <1>1, <2>1, PruneKeeps
    <3> QED
      BY <1>1, <3>1, <3>2, LocalKeepsStored DEF Changed
  <2>2. CASE ~OverByteBudget(mine[h])
    <3>1. /\ pc' = [pc EXCEPT ![h] = "update"]
          /\ UNCHANGED <<file, read, mine, aside, first, wiped, pruned>>
      BY <1>7, <2>2 DEF Prune, MovesOn, Goto, history
    <3> QED
      BY <1>1, <3>1, LocalKeepsStored DEF Changed
  <2> QED
    BY <2>1, <2>2
<1>8. ASSUME NEW h \in Hooks, TakeUpdateLock(h) \/ (Compare(h) /\ ~Ends(h, "failed"))
      PROVE  Stored'
  <2>1. UNCHANGED <<file, read, mine, aside, first, wiped, pruned>>
    BY <1>8 DEF TakeUpdateLock, Compare, MovesOn, history
  <2>2. PICK to \in {"compare", "rename"} :
            pc' = [pc EXCEPT ![h] = to] /\ (to = "rename" => file = read[h])
    BY <1>8 DEF TakeUpdateLock, Compare, MovesOn, Goto
  <2>3. to # "recorded" /\ to \in Changed
    BY DEF Changed
  <2> QED
    BY <1>1, <2>1, <2>2, <2>3, LocalKeepsStored
<1>9. ASSUME NEW h \in Hooks, IoError(h) \/ Kill(h)
      PROVE  Stored'
  <2>1. CASE Ends(h, "lost")
    BY <1>2, <2>1 DEF Ended
  <2>2. CASE /\ Return(h, "failed")
             /\ UNCHANGED <<file, aside, lockName, outsider, first, wiped, pruned>>
    BY <2>2, EndKeepsStored DEF Ended
  <2> QED
    BY <1>9, <2>1, <2>2 DEF IoError, Kill
<1>10. CASE Clear
  <2>1. /\ wiped' = wiped \cup {file} /\ file' = NoFile
        /\ UNCHANGED <<aside, pc, read, mine, first, pruned>>
    BY <1>10 DEF Clear
  <2> QED
    BY <2>1, TakenAwayKeepsStored
<1>11. CASE KeepLock \/ LeaveLock \/ UNCHANGED vars
  <2>1. UNCHANGED <<file, aside, pc, read, mine, first, wiped, pruned>>
    BY <1>11 DEF KeepLock, LeaveLock, vars, history
  <2> QED
    BY <2>1 DEF Stored, At, RecordedStays, DecisionsIn
<1>12. ASSUME NEW h \in Hooks, Record(h)
       PROVE  Stored'
  <2>1. CASE Ends(h, "lost") \/ Ends(h, "duplicate") \/ Ends(h, "failed")
    BY <1>2, <2>1 DEF Ended
  <2>2. CASE ~(Ends(h, "lost") \/ Ends(h, "duplicate") \/ Ends(h, "failed"))
    <3>1. ~LockBusy(h) /\ ~NothingToMove(h) /\ ~UpdateLockBusy(h)
      BY <2>2 DEF LockBusy, NothingToMove, UpdateLockBusy
    <3> QED
      BY <1>3, <1>4, <1>5, <1>6, <1>7, <1>8, <1>12, <2>2, <3>1, RenameKeepsStored
      DEF Record
  <2> QED
    BY <2>1, <2>2
<1> QED
  BY <1>9, <1>10, <1>11, <1>12 DEF Next

LEMMA StoredAlways == Spec => []Stored
<1>1. IInv => Held /\ Reading
  BY DEF IInv
<1> QED
  BY <1>1, StoredInit, StoredStep, Invariance, PTL DEF Spec

-----------------------------------------------------------------------------
(* The theorems. *)

\* The state is of its type: a hook holds a lock it opened from the load to its
\* end (GraphLock), and the update lock through the comparison and the
\* replacement only, killed or not.
THEOREM TypeCorrect == Spec => []TypeOK
<1>1. IInv => TypeOK
  BY DEF IInv, Kinds, Held, TypeOK
<1> QED
  BY <1>1, Invariance, PTL

\* The bytes of a corrupt graph file are moved aside or cleared by the person,
\* and never overwritten by a record (record_at).
THEOREM CorruptStays == Spec => []CorruptIsPreserved
<1>1. IInv => CorruptIsPreserved
  BY DEF IInv, Reading
<1> QED
  BY <1>1, Invariance, PTL

\* Hooks that hold the same lock file never cost each other a record: a
\* replacement is refused only for what the graph lock does not keep out.
THEOREM TheLockSuffices == Spec => []NoRecordFailsForAnother
<1>1. IInv => NoRecordFailsForAnother
  BY DEF IInv, Reading
<1> QED
  BY <1>1, Invariance, PTL

\* A replacement undoes a change of the file only if it was made in the step
\* between the last comparison and the replacement.
THEOREM LateChangesOnly == Spec => OnlyLateChangesAreUndone
<1>1. IInv /\ [Next]_vars =>
          [\A h \in Hooks : At(h, "rename") /\ pc'[h] = "recorded"
                                => file = read[h] \/ h \in late]_vars
  BY DEF IInv, Reading
<1> QED
  BY <1>1, Invariance, PTL DEF Spec, OnlyLateChangesAreUndone

\* An event delivered to two hooks at once, or again later, has one command in
\* the record (ingest_record_with_origin, under the lock and the comparison),
\* whatever was pruned meanwhile.
THEOREM EventsAreRecordedOnce == Spec => []EachEventOnce
<1>1. Stored => EachEventOnce
  BY DEF Stored, WellFormed, EachEventOnce
<1> QED
  BY <1>1, StoredAlways, PTL

\* No hook overwrites what another recorded, or an earlier run: a decision is
\* in the file, moved aside, cleared, or pruned within the caps.
THEOREM RecordsStay == Spec => []RecordedStays
<1>1. Stored => RecordedStays
  BY DEF Stored
<1> QED
  BY <1>1, StoredAlways, PTL

\* drop_oldest leaves no command without its session and no edge without its
\* ends, for every node cap, byte budget and share.
THEOREM CommandsStayLinked == Spec => []EveryCommandIsLinked
<1>1. Stored => EveryCommandIsLinked
  BY DEF Stored, WellFormed, EveryCommandIsLinked
<1> QED
  BY <1>1, StoredAlways, PTL
=============================================================================
