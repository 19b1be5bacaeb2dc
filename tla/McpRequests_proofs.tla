------------------------- MODULE McpRequests_proofs -------------------------
(***************************************************************************)
(* Theorems about McpRequests, for any ids, any size of the map and any    *)
(* number of messages: the map is bounded and holds nothing but requests   *)
(* the server has yet to answer, answers are read as what was asked, and   *)
(* every message of the client has one fate.                               *)
(***************************************************************************)
EXTENDS McpRequests, FiniteSetTheorems, WellFoundedInduction, TLAPS

-----------------------------------------------------------------------------
(* The map. *)

MapOK(map) ==
    /\ map \in [entries : SUBSET Entries, next : Nat]
    /\ \A e \in map.entries : e.order <= map.next
    /\ \A e, f \in map.entries : e.id = f.id \/ e.order = f.order => e = f
    /\ IsFiniteSet(map.entries)
    /\ Cardinality(map.entries) <= MaxPending

\* No insertion of id pushes another entry out.
HasRoom(map, id) ==
    id \in Keys(map.entries) \/ Cardinality(map.entries) < MaxPending

LEMMA OldestIsEntry ==
    ASSUME NEW S \in SUBSET Entries, S # {}
    PROVE  Oldest(S) \in S
<1> DEFINE Less == OpToRel(<, Nat)
           P == {e.order : e \in S}
<1>1. IsWellFoundedOn(Less, Nat)
  BY NatLessThanWellFounded
<1>2. \A m, n \in Nat : m < n => <<m, n>> \in Less
  BY DEF OpToRel
<1> HIDE DEF Less
<1>3. P \subseteq Nat /\ P # {}
  BY DEF Entries
<1>4. PICK m \in P : \A n \in P : <<n, m>> \notin Less
  <2> HIDE DEF P
  <2> QED
    BY <1>1, <1>3, WFMin
<1>5. PICK e \in S : e.order = m
  OBVIOUS
<1>6. \A f \in S : e.order <= f.order
  <2> SUFFICES ASSUME NEW f \in S PROVE m <= f.order
    BY <1>5
  <2>1. f.order \in P /\ f.order \in Nat /\ m \in Nat
    BY <1>3
  <2>2. ~(f.order < m)
    BY <1>2, <1>4, <2>1
  <2> QED
    BY <2>1, <2>2
<1> QED
  BY <1>6 DEF Oldest

\* Removing the entry of an id.
LEMMA RemovedIsMap ==
    ASSUME NEW map, MapOK(map), NEW id
    PROVE  LET less == [map EXCEPT !.entries = {e \in map.entries : e.id # id}]
           IN  /\ MapOK(less)
               /\ less.entries = {e \in map.entries : e.id # id}
               /\ Keys(less.entries) = Keys(map.entries) \ {id}
<1> DEFINE rest == {e \in map.entries : e.id # id}
           less == [map EXCEPT !.entries = rest]
<1>1. rest \in SUBSET Entries
  BY DEF MapOK
<1>2. /\ less \in [entries : SUBSET Entries, next : Nat]
      /\ less.entries = rest /\ less.next = map.next
  <2> HIDE DEF rest
  <2> QED
    BY <1>1 DEF MapOK
<1>3. IsFiniteSet(rest) /\ Cardinality(rest) <= Cardinality(map.entries)
  BY FS_Subset DEF MapOK
<1>4. Cardinality(rest) \in Nat /\ Cardinality(map.entries) \in Nat
  BY <1>3, FS_CardinalityType DEF MapOK
<1>5. Cardinality(rest) <= MaxPending
  BY <1>3, <1>4, RequestsAssumption DEF MapOK
<1>6. MapOK(less)
  BY <1>2, <1>3, <1>5 DEF MapOK
<1>7. Keys(rest) = Keys(map.entries) \ {id}
  BY DEF Keys
<1> QED
  BY <1>2, <1>6, <1>7

\* A set without one of the elements of a map is smaller than the bound.
LEMMA SmallerByOne ==
    ASSUME NEW S, IsFiniteSet(S), Cardinality(S) <= MaxPending, NEW x \in S,
           NEW T, T \subseteq S \ {x}
    PROVE  Cardinality(T) + 1 <= MaxPending
<1>1. /\ IsFiniteSet(S \ {x}) /\ Cardinality(S \ {x}) = Cardinality(S) - 1
      /\ Cardinality(S) \in Nat
  BY FS_RemoveElement, FS_CardinalityType
<1>2. IsFiniteSet(T) /\ Cardinality(T) <= Cardinality(S \ {x})
  BY <1>1, FS_Subset
<1>3. Cardinality(T) \in Nat
  BY <1>2, FS_CardinalityType
<1> QED
  BY <1>1, <1>2, <1>3, RequestsAssumption

\* What an insertion makes of a map: it keeps the bound and, with room, every
\* other entry.
Inserts(more, map, id, method, tool) ==
    /\ MapOK(more)
    /\ id \in Keys(more.entries)
    /\ Keys(more.entries) \subseteq Keys(map.entries) \cup {id}
    /\ \A e \in more.entries : e.id = id => e.method = method /\ e.tool = tool
    /\ HasRoom(map, id) =>
           {e \in more.entries : e.id # id} = {e \in map.entries : e.id # id}

LEMMA InsertedIsMap ==
    ASSUME NEW map, MapOK(map), NEW id \in Ids, NEW method \in {"call", "list"},
           NEW tool \in {"listing", "other", "none"}
    PROVE  Inserts(Inserted(map, id, method, tool), map, id, method, tool)
<1> DEFINE full == /\ id \notin Keys(map.entries)
                   /\ Cardinality(map.entries) >= MaxPending
           left == IF full THEN map.entries \ {Oldest(map.entries)} ELSE map.entries
           rest == {e \in left : e.id # id}
           new == [id |-> id, order |-> map.next + 1, method |-> method, tool |-> tool]
           more == Inserted(map, id, method, tool)
<1>1. more = [entries |-> rest \cup {new}, next |-> map.next + 1]
  BY DEF Inserted
<1>2. more.entries = rest \cup {new} /\ more.next = map.next + 1
  BY <1>1
<1>3. new \in Entries /\ new.id = id /\ new.order = map.next + 1
  BY DEF MapOK, Entries
<1>4. rest \subseteq map.entries /\ \A e \in rest : e.id # id
  OBVIOUS
<1>5. \A e \in more.entries : e.order <= more.next
  <2>1. \A e \in map.entries : e.order \in Nat /\ e.order <= map.next /\ map.next \in Nat
    BY DEF MapOK, Entries
  <2>2. \A e \in rest : e.order <= map.next + 1
    BY <1>4, <2>1
  <2>3. map.next \in Nat /\ new.order <= map.next + 1
    BY <1>3 DEF MapOK
  <2> HIDE DEF rest, new, more
  <2> QED
    BY <1>2, <2>2, <2>3
<1>6. ASSUME NEW e \in more.entries, NEW f \in more.entries,
             e.id = f.id \/ e.order = f.order
      PROVE  e = f
  <2>1. \A g \in rest : g.id # new.id /\ g.order # new.order
    <3>1. \A g \in rest : g.order \in Nat /\ g.order <= map.next /\ map.next \in Nat
      BY <1>4 DEF MapOK, Entries
    <3> QED
      BY <1>3, <1>4, <3>1
  <2>2. \A g, h \in rest : g.id = h.id \/ g.order = h.order => g = h
    BY <1>4 DEF MapOK
  <2> QED
    BY <1>2, <1>6, <2>1, <2>2
<1>7. /\ IsFiniteSet(rest) /\ Cardinality(rest) \in Nat
      /\ IsFiniteSet(map.entries) /\ Cardinality(map.entries) \in Nat
  BY <1>4, FS_Subset, FS_CardinalityType DEF MapOK
<1>8. Cardinality(rest) + 1 <= MaxPending
  <2>1. CASE id \in Keys(map.entries)
    <3>1. PICK old \in map.entries : old.id = id
      BY <2>1 DEF Keys
    <3>2. rest \subseteq map.entries \ {old}
      BY <1>4, <3>1
    <3> QED
      BY <1>7, <3>1, <3>2, SmallerByOne DEF MapOK
  <2>2. CASE full
    <3>1. map.entries # {}
      BY <1>7, <2>2, FS_EmptySet, RequestsAssumption
    <3>2. Oldest(map.entries) \in map.entries
      BY <3>1, OldestIsEntry DEF MapOK
    <3>3. rest \subseteq map.entries \ {Oldest(map.entries)}
      BY <2>2
    <3> QED
      BY <1>7, <3>2, <3>3, SmallerByOne DEF MapOK
  <2>3. CASE Cardinality(map.entries) < MaxPending
    <3>1. Cardinality(rest) <= Cardinality(map.entries)
      BY <1>4, <1>7, FS_Subset
    <3> QED
      BY <1>7, <2>3, <3>1, RequestsAssumption
  <2> QED
    BY <1>7, <2>1, <2>2, <2>3, RequestsAssumption
<1>9. IsFiniteSet(more.entries) /\ Cardinality(more.entries) <= MaxPending
  <2>1. new \notin rest
    BY <1>3
  <2>2. /\ IsFiniteSet(rest \cup {new})
        /\ Cardinality(rest \cup {new}) = Cardinality(rest) + 1
    <3> HIDE DEF rest, new
    <3> QED
      BY <1>7, <2>1, FS_AddElement
  <2> HIDE DEF rest, new, more
  <2> QED
    BY <1>2, <1>8, <2>2
<1>10. MapOK(more)
  <2>1. more.entries \subseteq Entries /\ more.next \in Nat
    BY <1>2, <1>3, <1>4 DEF MapOK
  <2> QED
    BY <1>1, <1>2, <1>5, <1>6, <1>9, <2>1 DEF MapOK
<1>11. /\ id \in Keys(more.entries)
       /\ Keys(more.entries) \subseteq Keys(map.entries) \cup {id}
  BY <1>2, <1>3, <1>4 DEF Keys
<1>12. \A e \in more.entries : e.id = id => e.method = method /\ e.tool = tool
  BY <1>2, <1>4
<1>13. ASSUME HasRoom(map, id)
       PROVE  {e \in more.entries : e.id # id} = {e \in map.entries : e.id # id}
  <2>1. ~full
    BY <1>7, <1>13, RequestsAssumption DEF HasRoom
  <2> QED
    BY <1>2, <1>3, <2>1
<1> QED
  BY <1>10, <1>11, <1>12, <1>13 DEF Inserts

\* A message of an id, recorded, and then forgotten as a refused one is.
LEMMA RecordedIsMap ==
    ASSUME NEW map, MapOK(map), NEW m \in Messages, m.id # NoId
    PROVE  LET more == Recorded(map, m)
           IN  /\ MapOK(more)
               /\ m.id \in Keys(more.entries)
               /\ Keys(more.entries) \subseteq Keys(map.entries) \cup {m.id}
               /\ HasRoom(map, m.id) =>
                      {e \in more.entries : e.id # m.id}
                          = {e \in map.entries : e.id # m.id}
               /\ m.id \notin Keys(map.entries) =>
                      \A e \in more.entries :
                          e.id = m.id => e.method = m.method /\ e.tool = m.tool
<1> DEFINE tool == IF m.id \in Keys(map.entries) THEN "none" ELSE m.tool
<1>1. /\ m.id \in Ids /\ m.method \in {"call", "list"}
      /\ tool \in {"listing", "other", "none"}
  BY DEF Messages
<1>2. Recorded(map, m) = Inserted(map, m.id, m.method, tool)
  BY DEF Recorded
<1>3. m.id \notin Keys(map.entries) => tool = m.tool
  OBVIOUS
<1> HIDE DEF tool
<1> DEFINE more == Inserted(map, m.id, m.method, tool)
<1>4. Inserts(more, map, m.id, m.method, tool)
  BY <1>1, InsertedIsMap
<1> HIDE DEF more
<1> QED
  BY <1>2, <1>3, <1>4 DEF more, Inserts

LEMMA ForgottenIsMap ==
    ASSUME NEW map, MapOK(map), NEW m \in Messages, m.id # NoId
    PROVE  LET less == Forgotten(Recorded(map, m), m.id, Named(map.entries, m.id))
           IN  /\ MapOK(less)
               /\ Keys(less.entries) \subseteq Keys(map.entries)
               /\ HasRoom(map, m.id) =>
                      {e \in less.entries : e.id # m.id}
                          = {e \in map.entries : e.id # m.id}
               /\ \A e \in map.entries : e.id = m.id =>
                      \E f \in less.entries :
                          f.id = e.id /\ f.method = e.method /\ f.tool = e.tool
<1> DEFINE more == Recorded(map, m)
           before == Named(map.entries, m.id)
           less == Forgotten(more, m.id, before)
<1>1. /\ MapOK(more)
      /\ m.id \in Keys(more.entries)
      /\ Keys(more.entries) \subseteq Keys(map.entries) \cup {m.id}
      /\ HasRoom(map, m.id) =>
             {e \in more.entries : e.id # m.id} = {e \in map.entries : e.id # m.id}
  BY RecordedIsMap
<1> HIDE DEF more
<1>2. CASE before = {}
  <2>1. less = [more EXCEPT !.entries = {e \in more.entries : e.id # m.id}]
    BY <1>2 DEF Forgotten
  <2>2. /\ MapOK(less)
        /\ less.entries = {e \in more.entries : e.id # m.id}
        /\ Keys(less.entries) = Keys(more.entries) \ {m.id}
    BY <1>1, <2>1, RemovedIsMap
  <2>3. \A e \in map.entries : e.id # m.id
    BY <1>2 DEF Named
  <2> HIDE DEF less, before
  <2> QED
    BY <1>1, <2>2, <2>3 DEF more, before, less
<1>3. CASE before # {}
  <2>1. PICK b \in before : b = CHOOSE e \in before : TRUE
    BY <1>3
  <2>2. /\ b \in map.entries /\ b.id = m.id
        /\ b.method \in {"call", "list"} /\ b.tool \in {"listing", "other", "none"}
        /\ m.id \in Ids
    BY DEF Named, MapOK, Entries, Messages
  <2>3. less = Inserted(more, m.id, b.method, b.tool)
    BY <1>3, <2>1 DEF Forgotten
  <2>4. Inserts(less, more, m.id, b.method, b.tool)
    BY <1>1, <2>2, <2>3, InsertedIsMap
  <2>5. m.id \in Keys(map.entries)
    BY <2>2 DEF Keys
  <2>6. \A e \in map.entries : e.id = m.id => e = b
    BY <2>2 DEF MapOK
  <2>7. PICK f \in less.entries : f.id = m.id
    BY <2>4 DEF Keys, Inserts
  <2> HIDE DEF less, before
  <2>8. \A e \in map.entries : e.id = m.id =>
            f.id = e.id /\ f.method = e.method /\ f.tool = e.tool
    BY <2>4, <2>6, <2>7 DEF Inserts
  <2> QED
    BY <1>1, <2>4, <2>5, <2>8 DEF more, before, less, Inserts, HasRoom
<1> QED
  BY <1>2, <1>3

-----------------------------------------------------------------------------
(* Judging a line. *)

Asked(k, m) == [n |-> k, id |-> m.id, method |-> m.method, tool |-> m.tool]

Names(S, r) == \E e \in S : e.id = r.id /\ e.method = r.method /\ e.tool = r.tool

\* What a judgement knows of the requests that wait, R: the map has none but
\* theirs and, while they all fit, one for each whose id is its own.
Follows(j, R) ==
    /\ MapOK(j.map)
    /\ R \subseteq Requests
    /\ j.ids = {r.id : r \in R}
    /\ IsFiniteSet(j.ids)
    /\ Keys(j.map.entries) \subseteq j.ids
    /\ j.reused \subseteq Ids
    /\ j.crowded \in BOOLEAN
    /\ \A r, q \in R : r.id = q.id => r = q \/ r.id \in j.reused
    /\ ~j.crowded =>
           /\ Cardinality(j.ids) <= MaxPending
           /\ \A r \in R : r.id \notin j.reused => Names(j.map.entries, r)

\* While what waits fits the map, a message whose id is in use, or that fits
\* beside the others, pushes no entry out.
LEMMA RoomWhileUncrowded ==
    ASSUME NEW j, NEW R, Follows(j, R), NEW id,
           id \in j.ids => Cardinality(j.ids) <= MaxPending,
           id \notin j.ids => Cardinality(j.ids) < MaxPending
    PROVE  HasRoom(j.map, id)
<1> DEFINE E == j.map.entries
           others == j.ids \ {id}
           f == [e \in E |-> e.id]
<1> SUFFICES ASSUME id \notin Keys(E) PROVE Cardinality(E) < MaxPending
  BY DEF HasRoom
<1>1. f \in Injection(E, others)
  <2>1. \A e \in E : e.id \in others
    BY DEF Keys, Follows
  <2>2. \A e, g \in E : e.id = g.id => e = g
    BY DEF Follows, MapOK
  <2> QED
    BY <2>1, <2>2 DEF Injection, IsInjective
<1>2. /\ IsFiniteSet(others)
      /\ Cardinality(others) = IF id \in j.ids THEN Cardinality(j.ids) - 1
                               ELSE Cardinality(j.ids)
  BY FS_RemoveElement DEF Follows
<1>3. IsFiniteSet(E) /\ Cardinality(E) <= Cardinality(others)
  BY <1>1, <1>2, FS_Injection
<1>4. Cardinality(E) \in Nat /\ Cardinality(j.ids) \in Nat
  BY <1>3, FS_CardinalityType DEF Follows
<1> QED
  BY <1>2, <1>3, <1>4, RequestsAssumption

LEMMA JudgedFollows ==
    ASSUME NEW j, NEW R, Follows(j, R), NEW m \in Messages, NEW n, NEW k \in Nat
    PROVE  Follows(Judged(j, m, n),
                   IF Refuses(m) \/ m.id = NoId THEN R ELSE R \cup {Asked(k, m)})
<1> DEFINE after == Judged(j, m, n)
<1>0. NoId \notin j.ids
  BY RequestsAssumption DEF Follows, Requests
<1>1. CASE m.id = NoId
  <2>1. ~Refuses(m)
    BY <1>1 DEF Refuses
  <2>2. /\ after.map = j.map /\ after.ids = j.ids
        /\ after.reused = j.reused /\ after.crowded = j.crowded
    BY <1>0, <1>1, <2>1 DEF Judged, Follows
  <2> HIDE DEF after
  <2>3. Follows(after, R)
    BY <2>2 DEF Follows
  <2> QED
    BY <1>1, <2>3 DEF after
<1>2. CASE m.id # NoId
  <2> DEFINE more == Recorded(j.map, m)
             less == Forgotten(more, m.id, Named(j.map.entries, m.id))
             others == {e \in j.map.entries : e.id # m.id}
  <2>1. MapOK(j.map)
    BY DEF Follows
  <2>2. Cardinality(j.ids) \in Nat
    BY FS_CardinalityType DEF Follows
  <2>3. after.crowded \in BOOLEAN /\ (~after.crowded => ~j.crowded)
    BY DEF Judged, Follows
  <2>4. ~after.crowded =>
            /\ HasRoom(j.map, m.id)
            /\ Cardinality(j.ids) <= MaxPending
            /\ m.id \notin j.ids => Cardinality(j.ids) < MaxPending
    <3> SUFFICES ASSUME ~after.crowded
                 PROVE  /\ HasRoom(j.map, m.id)
                        /\ Cardinality(j.ids) <= MaxPending
                        /\ m.id \notin j.ids => Cardinality(j.ids) < MaxPending
      OBVIOUS
    <3>1. /\ Cardinality(j.ids) <= MaxPending
          /\ m.id \notin j.ids => ~(Cardinality(j.ids) >= MaxPending)
      BY <1>2, <2>3 DEF Judged, Follows
    <3>2. m.id \notin j.ids => Cardinality(j.ids) < MaxPending
      BY <2>2, <3>1, RequestsAssumption
    <3>3. HasRoom(j.map, m.id)
      BY <3>1, <3>2, RoomWhileUncrowded
    <3> QED
      BY <3>1, <3>2, <3>3
  <2>5. CASE Refuses(m)
    <3>1. /\ after.map = less /\ after.ids = j.ids /\ after.reused = j.reused
      BY <1>2, <2>5 DEF Judged
    <3>2. /\ MapOK(less)
          /\ Keys(less.entries) \subseteq Keys(j.map.entries)
          /\ HasRoom(j.map, m.id) => {e \in less.entries : e.id # m.id} = others
          /\ \A e \in j.map.entries : e.id = m.id =>
                 \E f \in less.entries :
                     f.id = e.id /\ f.method = e.method /\ f.tool = e.tool
      BY <1>2, <2>1, ForgottenIsMap
    <3> HIDE DEF less, after
    <3>3. ASSUME HasRoom(j.map, m.id), NEW r, Names(j.map.entries, r)
          PROVE  Names(less.entries, r)
      <4>1. PICK e \in j.map.entries :
                e.id = r.id /\ e.method = r.method /\ e.tool = r.tool
        BY <3>3 DEF Names
      <4>2. CASE e.id = m.id
        BY <3>2, <4>1, <4>2 DEF Names
      <4>3. CASE e.id # m.id
        BY <3>2, <3>3, <4>1, <4>3 DEF Names
      <4> QED
        BY <4>2, <4>3
    <3>4. Follows(after, R)
      BY <2>3, <2>4, <3>1, <3>2, <3>3 DEF Follows
    <3> QED
      BY <2>5, <3>4 DEF after
  <2>6. CASE ~Refuses(m)
    <3> DEFINE r0 == Asked(k, m)
               S == R \cup {r0}
    <3>1. /\ after.map = more /\ after.ids = j.ids \cup {m.id}
          /\ after.reused = IF m.id \in j.ids THEN j.reused \cup {m.id} ELSE j.reused
      BY <1>0, <1>2, <2>6 DEF Judged
    <3>2. /\ MapOK(more)
          /\ m.id \in Keys(more.entries)
          /\ Keys(more.entries) \subseteq Keys(j.map.entries) \cup {m.id}
          /\ HasRoom(j.map, m.id) => {e \in more.entries : e.id # m.id} = others
          /\ m.id \notin Keys(j.map.entries) =>
                 \A e \in more.entries :
                     e.id = m.id => e.method = m.method /\ e.tool = m.tool
      BY <1>2, <2>1, RecordedIsMap
    <3>3. /\ r0 \in Requests /\ r0.id = m.id /\ r0.method = m.method /\ r0.tool = m.tool
          /\ m.id \in Ids
      BY <1>2 DEF Asked, Requests, Messages
    <3> HIDE DEF more, after, r0
    <3>4. \A r \in R : r.id = m.id => m.id \in after.reused
      BY <3>1 DEF Follows
    <3>5. \A r, q \in S : r.id = q.id => r = q \/ r.id \in after.reused
      BY <3>1, <3>3, <3>4 DEF Follows
    <3>6. ASSUME HasRoom(j.map, m.id), ~j.crowded,
                 NEW r \in S, r.id \notin after.reused
          PROVE  Names(more.entries, r)
      <4>1. CASE r.id = m.id
        <5>1. r = r0
          BY <3>4, <3>6, <4>1
        <5>2. m.id \notin Keys(j.map.entries)
          BY <3>1, <3>6, <4>1 DEF Follows
        <5> QED
          BY <3>2, <3>3, <5>1, <5>2 DEF Names, Keys
      <4>2. CASE r.id # m.id
        <5>1. r \in R /\ r.id \notin j.reused
          BY <3>1, <3>3, <3>6, <4>2
        <5>2. PICK e \in j.map.entries :
                  e.id = r.id /\ e.method = r.method /\ e.tool = r.tool
          BY <3>6, <5>1 DEF Follows, Names
        <5>3. e \in others
          BY <4>2, <5>2
        <5> QED
          BY <3>2, <3>6, <5>2, <5>3 DEF Names
      <4> QED
        BY <4>1, <4>2
    <3>7. after.ids = {r.id : r \in S}
      BY <3>1, <3>3 DEF Follows
    <3>8. /\ IsFiniteSet(after.ids)
          /\ ~after.crowded => Cardinality(after.ids) <= MaxPending
      <4>1. /\ IsFiniteSet(after.ids)
            /\ Cardinality(after.ids) = IF m.id \in j.ids THEN Cardinality(j.ids)
                                        ELSE Cardinality(j.ids) + 1
        <5> DEFINE ids == j.ids
        <5>1. IsFiniteSet(ids)
          BY DEF Follows
        <5> HIDE DEF ids
        <5>2. /\ IsFiniteSet(ids \cup {m.id})
              /\ Cardinality(ids \cup {m.id}) = IF m.id \in ids THEN Cardinality(ids)
                                                ELSE Cardinality(ids) + 1
          BY <5>1, FS_AddElement
        <5> QED
          BY <3>1, <5>2 DEF ids
      <4> QED
        BY <2>2, <2>4, <4>1, RequestsAssumption
    <3>9. Follows(after, S)
      <4>1. /\ MapOK(after.map) /\ S \subseteq Requests
            /\ Keys(after.map.entries) \subseteq after.ids
            /\ after.reused \subseteq Ids
        BY <3>1, <3>2, <3>3 DEF Follows
      <4>2. ~after.crowded =>
                \A r \in S : r.id \notin after.reused => Names(after.map.entries, r)
        BY <2>3, <2>4, <3>1, <3>6
      <4> QED
        BY <2>3, <3>5, <3>7, <3>8, <4>1, <4>2 DEF Follows
    <3> QED
      BY <1>2, <2>6, <3>9 DEF after, r0
  <2> QED
    BY <2>5, <2>6
<1> QED
  BY <1>1, <1>2

\* What a line's judgement keeps and denies, and when it ends the session.
LEMMA LineIsJudged ==
    ASSUME NEW line \in Lines
    PROVE  LET j == JudgedLine(line)
               turned == {k \in DOMAIN line : Refuses(line[k])}
           IN  /\ \/ DOMAIN line = {1} /\ Cardinality(DOMAIN line) = 1
                  \/ DOMAIN line = {1, 2} /\ Cardinality(DOMAIN line) = 2
               /\ \A k \in DOMAIN line : line[k] \in Messages
               /\ j.denied = turned
               /\ j.kept = DOMAIN line \ turned
               /\ j.kill \in BOOLEAN
<1>1. /\ Unjudged.denied = {} /\ Unjudged.kept = {} /\ Unjudged.kill = FALSE
  BY DEF Unjudged
<1>2. ASSUME NEW j, NEW m, NEW n
      PROVE  LET after == Judged(j, m, n)
             IN  /\ after.denied = IF Refuses(m) THEN j.denied \cup {n} ELSE j.denied
                 /\ after.kept = IF Refuses(m) THEN j.kept ELSE j.kept \cup {n}
  BY DEF Judged
<1>5. ASSUME NEW j, NEW m, NEW n
      PROVE  Judged(j, m, n).kill \in BOOLEAN
  BY DEF Judged
<1> DEFINE first == Judged(Unjudged, line[1], 1)
<1>3. CASE DOMAIN line = {1}
  <2>1. JudgedLine(line) = first
    BY <1>3 DEF JudgedLine
  <2>2. Cardinality({1}) = 1
    BY FS_Singleton
  <2>3. line[1] \in Messages
    BY <1>3 DEF Lines
  <2>4. first.kill \in BOOLEAN
    BY <1>5
  <2>5. /\ first.denied = IF Refuses(line[1]) THEN {1} ELSE {}
        /\ first.kept = IF Refuses(line[1]) THEN {} ELSE {1}
    BY <1>1, <1>2
  <2> HIDE DEF first
  <2> QED
    BY <1>3, <2>1, <2>2, <2>3, <2>4, <2>5
<1>4. CASE DOMAIN line = {1, 2}
  <2> DEFINE second == Judged(first, line[2], 2)
  <2>1. JudgedLine(line) = second
    BY <1>4 DEF JudgedLine
  <2>2. Cardinality({1, 2}) = 2
    <3>1. {1, 2} = {1} \cup {2} /\ 2 \notin {1}
      OBVIOUS
    <3>2. IsFiniteSet({1}) /\ Cardinality({1}) = 1
      BY FS_Singleton
    <3>3. Cardinality({1} \cup {2}) = 1 + 1
      BY <3>1, <3>2, FS_AddElement
    <3> QED
      BY <3>1, <3>3
  <2>3. line[1] \in Messages /\ line[2] \in Messages
    BY <1>4 DEF Lines
  <2>4. second.kill \in BOOLEAN
    BY <1>5
  <2>5. /\ first.denied = IF Refuses(line[1]) THEN {1} ELSE {}
        /\ first.kept = IF Refuses(line[1]) THEN {} ELSE {1}
    BY <1>1, <1>2
  <2> HIDE DEF first
  <2>6. /\ second.denied = IF Refuses(line[2]) THEN first.denied \cup {2} ELSE first.denied
        /\ second.kept = IF Refuses(line[2]) THEN first.kept ELSE first.kept \cup {2}
    BY <1>2
  <2> HIDE DEF second
  <2> QED
    BY <1>4, <2>1, <2>2, <2>3, <2>4, <2>5, <2>6
<1> QED
  BY <1>3, <1>4 DEF Lines

\* The requests that wait once a line was forwarded.
WaitAfter(line) ==
    waiting \cup {Asked(sent + i, line[i]) :
                     i \in {k \in DOMAIN line : ~Refuses(line[k]) /\ line[k].id # NoId}}

LEMMA LineFollows ==
    ASSUME NEW line \in Lines, sent \in Nat, Follows(Unjudged, waiting)
    PROVE  Follows(JudgedLine(line), WaitAfter(line))
<1> DEFINE first == Judged(Unjudged, line[1], 1)
           Passes(k) == ~Refuses(line[k]) /\ line[k].id # NoId
           R1 == IF Passes(1) THEN waiting \cup {Asked(sent + 1, line[1])} ELSE waiting
           R2 == IF Passes(2) THEN R1 \cup {Asked(sent + 2, line[2])} ELSE R1
<1>1. line[1] \in Messages /\ 1 \in DOMAIN line
  BY DEF Lines
<1>2. Follows(first, R1)
  BY <1>1, JudgedFollows
<1>3. CASE DOMAIN line = {1}
  <2>1. JudgedLine(line) = first
    BY <1>3 DEF JudgedLine
  <2>2. WaitAfter(line) = R1
    BY <1>3 DEF WaitAfter
  <2> HIDE DEF first, R1
  <2> QED
    BY <1>2, <2>1, <2>2
<1>4. CASE DOMAIN line = {1, 2}
  <2>1. line[2] \in Messages
    BY <1>4 DEF Lines
  <2>2. JudgedLine(line) = Judged(first, line[2], 2)
    BY <1>4 DEF JudgedLine
  <2>3. WaitAfter(line) = R2
    BY <1>4 DEF WaitAfter
  <2> HIDE DEF first, R1
  <2>4. Follows(Judged(first, line[2], 2), R2)
    BY <1>2, <2>1, JudgedFollows
  <2> HIDE DEF R2
  <2> QED
    BY <2>2, <2>3, <2>4
<1> QED
  BY <1>3, <1>4 DEF Lines

-----------------------------------------------------------------------------
(* The inductive invariant. *)

Map == [entries |-> pending, next |-> next]

IInv ==
    /\ TypeOK
    /\ MapOK(Map)
    /\ open => Follows(Unjudged, waiting)
    /\ OneFate

LEMMA IInvInit == Init => IInv
<1> SUFFICES ASSUME Init PROVE IInv
  OBVIOUS
<1>1. IsFiniteSet({}) /\ Cardinality({}) = 0
  BY FS_EmptySet
<1>2. MapOK(Map)
  BY <1>1, RequestsAssumption DEF Init, Map, MapOK
<1>3. Follows(Unjudged, waiting)
  <2>1. /\ Unjudged.map = Map /\ Unjudged.ids = {} /\ Unjudged.reused = {}
        /\ Unjudged.crowded = FALSE /\ {r.id : r \in waiting} = {}
    BY DEF Init, Unjudged, Map
  <2>2. Keys(Map.entries) = {}
    BY DEF Init, Map, Keys
  <2>3. waiting = {} /\ Cardinality({}) <= MaxPending
    BY <1>1, RequestsAssumption DEF Init
  <2> HIDE DEF Init
  <2> QED
    BY <1>1, <1>2, <2>1, <2>2, <2>3 DEF Follows
<1>4. TypeOK
  BY DEF Init, TypeOK
<1>5. OneFate
  BY DEF Init, OneFate
<1> QED
  BY <1>2, <1>3, <1>4, <1>5 DEF IInv

LEMMA LineKeepsIInv ==
    ASSUME IInv, NEW line \in Lines, ClientLine(line)
    PROVE  IInv'
<1> DEFINE j == JudgedLine(line)
           went == Forwarded(j, line)
           size == Cardinality(DOMAIN line)
           turned == {k \in DOMAIN line : Refuses(line[k])}
<1>0. open /\ TypeOK /\ OneFate /\ Follows(Unjudged, waiting) /\ sent \in Nat
  BY DEF IInv, ClientLine, TypeOK
<1>1. /\ \/ DOMAIN line = {1} /\ size = 1
         \/ DOMAIN line = {1, 2} /\ size = 2
      /\ \A k \in DOMAIN line : line[k] \in Messages
      /\ j.denied = turned
      /\ j.kept = DOMAIN line \ turned
      /\ j.kill \in BOOLEAN
  BY LineIsJudged
<1>2. Follows(j, WaitAfter(line))
  BY <1>0, LineFollows
<1>3. /\ pending' = j.map.entries /\ next' = j.map.next
      /\ open' = ~j.kill
      /\ sent' = sent + size
      /\ refused' = refused \cup {sent + i : i \in turned}
      /\ denied' = denied \cup {sent + i : i \in j.denied}
      /\ reached' = reached \cup {sent + i : i \in went}
      /\ waiting' = waiting \cup {Asked(sent + i, line[i]) :
                                     i \in {k \in went : line[k].id # NoId}}
      /\ reused' = j.reused /\ crowded' = j.crowded
      /\ mode' = mode
  BY DEF ClientLine, Asked
<1>4. went = IF j.kill THEN {} ELSE DOMAIN line \ turned
  BY <1>1 DEF Forwarded
<1>5. waiting' \subseteq WaitAfter(line) /\ (open' => waiting' = WaitAfter(line))
  <2> HIDE DEF j, went
  <2> QED
    BY <1>3, <1>4 DEF WaitAfter
<1>6. sent' \in Nat /\ \A i \in DOMAIN line : sent + i \in sent + 1 .. sent'
  <2> HIDE DEF j, went
  <2> QED
    BY <1>0, <1>1, <1>3
<1> HIDE DEF j, went, size
<1>7. Map' = j.map /\ MapOK(j.map)
  BY <1>2, <1>3 DEF Map, Follows, MapOK
<1>8. TypeOK'
  <2>1. pending' \subseteq Entries /\ next' \in Nat
    BY <1>3, <1>7 DEF MapOK
  <2>2. \A e, f \in pending' : e.id = f.id \/ e.order = f.order => e = f
    BY <1>3, <1>7 DEF MapOK
  <2>3. waiting' \subseteq Requests /\ reused' \subseteq Ids /\ crowded' \in BOOLEAN
    BY <1>2, <1>3, <1>5 DEF Follows
  <2>4. (refused \cup denied \cup reached)' \subseteq 1 .. sent'
    <3>1. refused \cup denied \cup reached \subseteq 1 .. sent
      BY <1>0 DEF TypeOK
    <3>2. 1 .. sent \subseteq 1 .. sent'
      BY <1>0, <1>1, <1>3
    <3>3. \A i \in DOMAIN line : sent + i \in 1 .. sent'
      BY <1>0, <1>6
    <3>4. turned \subseteq DOMAIN line /\ went \subseteq DOMAIN line
      BY <1>4
    <3> HIDE DEF turned
    <3> QED
      BY <1>1, <1>3, <3>1, <3>2, <3>3, <3>4
  <2>5. open' \in BOOLEAN /\ mode' \in Modes
    BY <1>0, <1>1, <1>3 DEF TypeOK
  <2> QED
    BY <1>6, <2>1, <2>2, <2>3, <2>4, <2>5 DEF TypeOK
<1>9. open' => Follows(Unjudged, waiting)'
  <2> SUFFICES ASSUME open' PROVE Follows(Unjudged', waiting')
    OBVIOUS
  <2>1. /\ Unjudged'.map = j.map
        /\ Unjudged'.ids = {r.id : r \in waiting'}
        /\ Unjudged'.reused = j.reused
        /\ Unjudged'.crowded = j.crowded
    BY <1>3, <1>7 DEF Unjudged, Map
  <2>2. waiting' = WaitAfter(line)
    BY <1>5
  <2> QED
    BY <1>2, <2>1, <2>2 DEF Follows
<1>10. OneFate'
  <2>1. refused' = denied'
    BY <1>0, <1>1, <1>3 DEF OneFate
  <2>2. refused' \cap reached' = {}
    <3>1. refused \cap reached = {} /\ refused \cup reached \subseteq 1 .. sent
      BY <1>0 DEF OneFate, TypeOK
    <3>2. \A i \in DOMAIN line : i \in Nat \ {0}
      BY <1>1
    <3>3. turned \cap went = {} /\ turned \subseteq DOMAIN line /\ went \subseteq DOMAIN line
      BY <1>4
    <3>4. \A i \in DOMAIN line : sent + i \notin 1 .. sent
      BY <1>0, <3>2
    <3>5. \A i, k \in DOMAIN line : sent + i = sent + k => i = k
      BY <1>0, <3>2
    <3> HIDE DEF turned
    <3> QED
      BY <1>3, <3>1, <3>3, <3>4, <3>5
  <2>3. open' => reached' \cup denied' = 1 .. sent'
    <3> SUFFICES ASSUME open' PROVE reached' \cup denied' = 1 .. sent'
      OBVIOUS
    <3>1. went \cup turned = DOMAIN line /\ j.denied = turned
      BY <1>1, <1>3, <1>4
    <3>2. reached' \cup denied' = (1 .. sent) \cup {sent + i : i \in DOMAIN line}
      <4> HIDE DEF turned
      <4> QED
        BY <1>0, <1>3, <3>1 DEF OneFate
    <3>3. 1 .. sent' = (1 .. sent) \cup {sent + i : i \in DOMAIN line}
      <4>1. CASE DOMAIN line = {1} /\ size = 1
        BY <1>0, <1>3, <4>1
      <4>2. CASE DOMAIN line = {1, 2} /\ size = 2
        BY <1>0, <1>3, <4>2
      <4> QED
        BY <1>1, <4>1, <4>2 DEF size
    <3> QED
      BY <3>2, <3>3
  <2> QED
    BY <2>1, <2>2, <2>3 DEF OneFate
<1> QED
  BY <1>7, <1>8, <1>9, <1>10 DEF IInv

LEMMA AnswerKeepsIInv ==
    ASSUME IInv, NEW r \in waiting, NEW outcome \in Outcomes, Answer(r, outcome)
    PROVE  IInv'
<1> DEFINE left == waiting \ {r}
           less == [Map EXCEPT !.entries = {e \in Map.entries : e.id # r.id}]
<1>0. /\ open /\ TypeOK /\ OneFate /\ MapOK(Map)
      /\ Follows(Unjudged, waiting)
  BY DEF IInv, Answer
<1>1. /\ waiting' = left
      /\ pending' = {e \in pending : e.id # r.id}
      /\ reused' = reused \cap {q.id : q \in left}
      /\ UNCHANGED <<mode, open, next, sent, refused, denied, reached, crowded>>
  BY DEF Answer
<1>2. /\ MapOK(less)
      /\ less.entries = {e \in Map.entries : e.id # r.id}
      /\ Keys(less.entries) = Keys(Map.entries) \ {r.id}
  BY <1>0, RemovedIsMap
<1>3. Map.entries = pending /\ Map.next = next
  BY DEF Map
<1>4. Map' = less
  BY <1>1 DEF Map
<1>5. TypeOK'
  <2>1. waiting' \subseteq Requests /\ reused' \subseteq Ids
    BY <1>0, <1>1 DEF TypeOK
  <2>2. pending' \subseteq pending
    BY <1>1
  <2> QED
    BY <1>0, <1>1, <2>1, <2>2 DEF TypeOK
<1>6. Follows(Unjudged, waiting)'
  <2> DEFINE ids == {q.id : q \in waiting}
             rest == {q.id : q \in left}
  <2>1. /\ Unjudged.map = Map /\ Unjudged.ids = ids
        /\ Unjudged.reused = reused /\ Unjudged.crowded = crowded
    BY DEF Unjudged, Map
  <2>2. /\ Unjudged'.map = less /\ Unjudged'.ids = rest
        /\ Unjudged'.reused = reused' /\ Unjudged'.crowded = crowded
    <3> HIDE DEF less
    <3> QED
      BY <1>1, <1>4 DEF Unjudged, Map
  <2>3. /\ IsFiniteSet(ids) /\ Keys(pending) \subseteq ids /\ reused \subseteq Ids
        /\ crowded \in BOOLEAN /\ waiting \subseteq Requests
        /\ \A q, p \in waiting : q.id = p.id => q = p \/ q.id \in reused
        /\ ~crowded =>
               /\ Cardinality(ids) <= MaxPending
               /\ \A q \in waiting : q.id \notin reused => Names(pending, q)
    BY <1>0, <1>3, <2>1 DEF Follows
  <2>4. IsFiniteSet(rest) /\ (~crowded => Cardinality(rest) <= MaxPending)
    <3>1. rest \subseteq ids
      OBVIOUS
    <3> HIDE DEF rest, ids
    <3>2. /\ IsFiniteSet(rest) /\ Cardinality(rest) <= Cardinality(ids)
          /\ Cardinality(rest) \in Nat /\ Cardinality(ids) \in Nat
      BY <2>3, <3>1, FS_Subset, FS_CardinalityType
    <3> QED
      BY <2>3, <3>2, RequestsAssumption
  <2>5. Keys(less.entries) \subseteq rest
    <3>1. ids \ {r.id} \subseteq rest
      OBVIOUS
    <3> HIDE DEF rest, ids, less
    <3> QED
      BY <1>2, <1>3, <2>3, <3>1
  <2>6. \A q \in left : q.id \in rest
    OBVIOUS
  <2>7. \A q, p \in left : q.id = p.id => q = p \/ q.id \in reused'
    BY <1>1, <2>3, <2>6
  <2>8. ASSUME ~crowded, NEW q \in left, q.id \notin reused'
        PROVE  Names(less.entries, q)
    <3>1. q \in waiting /\ q.id \notin reused
      BY <1>1, <2>6, <2>8
    <3>2. q.id # r.id
      BY <2>3, <3>1
    <3>3. PICK e \in pending : e.id = q.id /\ e.method = q.method /\ e.tool = q.tool
      BY <2>3, <2>8, <3>1 DEF Names
    <3> HIDE DEF less
    <3> QED
      BY <1>2, <1>3, <3>2, <3>3 DEF Names
  <2>9. reused' \subseteq Ids /\ left \subseteq Requests
    BY <1>1, <2>3
  <2> HIDE DEF less, left, rest, ids
  <2>10. Follows(Unjudged', left)
    <3>1. Unjudged'.ids = {q.id : q \in left}
      BY <2>2 DEF rest
    <3> QED
      BY <1>2, <2>2, <2>3, <2>4, <2>5, <2>7, <2>8, <2>9, <3>1 DEF Follows
  <2> QED
    BY <1>1, <2>10
<1>7. OneFate'
  BY <1>0, <1>1 DEF OneFate
<1> QED
  BY <1>2, <1>4, <1>5, <1>6, <1>7 DEF IInv

LEMMA IInvStep == IInv /\ [Next]_vars => IInv'
<1> SUFFICES ASSUME IInv, [Next]_vars PROVE IInv'
  OBVIOUS
<1>1. CASE \E line \in Lines : ClientLine(line)
  BY <1>1, LineKeepsIInv
<1>2. CASE \E r \in waiting, outcome \in Outcomes : Answer(r, outcome)
  BY <1>2, AnswerKeepsIInv
<1>3. CASE UNCHANGED vars
  BY <1>3 DEF IInv, TypeOK, MapOK, Map, Follows, Unjudged, OneFate, vars, history
<1> QED
  BY <1>1, <1>2, <1>3 DEF Next

LEMMA Invariance == Spec => []IInv
<1> QED
  BY IInvInit, IInvStep, PTL DEF Spec

-----------------------------------------------------------------------------
(* The theorems. *)

\* The state is of its type, whatever lines the client sends (record_pending,
\* forget_refused) and in whatever order the server answers.
THEOREM TypeCorrect == Spec => []TypeOK
<1>1. IInv => TypeOK
  BY DEF IInv
<1> QED
  BY <1>1, Invariance, PTL

\* The map of requests in flight never outgrows MAX_PENDING_REQUESTS:
\* IdRequestMap::insert drops the oldest entry for a new one.
THEOREM MapStaysBounded == Spec => []MapIsBounded
<1>1. IInv => MapIsBounded
  BY DEF IInv, MapOK, Map, MapIsBounded
<1> QED
  BY <1>1, Invariance, PTL

\* No entry stays behind in the map: a refused request leaves what was there
\* before it, and an answer takes its own.
THEOREM NothingStaysBehind == Spec => []EveryEntryIsAwaited
<1>1. IInv => EveryEntryIsAwaited
  BY DEF IInv, Follows, Unjudged, EveryEntryIsAwaited
<1> QED
  BY <1>1, Invariance, PTL

\* While no more requests wait together than the map holds, the server's
\* answers are read as answers to what was asked, a refused request that took
\* the id of a waiting one included.
THEOREM AnswersReadAsAsked == Spec => []AnswersAreReadAsAsked
<1>1. IInv => AnswersAreReadAsAsked
  BY DEF IInv, Follows, Unjudged, Names, AnswersAreReadAsAsked
<1> QED
  BY <1>1, Invariance, PTL

\* Every message of the client is answered by the proxy or reaches the server,
\* never both, in a batch or alone, while the session lasts.
THEOREM EachHasOneFate == Spec => []OneFate
<1>1. IInv => OneFate
  BY DEF IInv
<1> QED
  BY <1>1, Invariance, PTL
=============================================================================
