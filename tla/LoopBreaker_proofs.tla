------------------------- MODULE LoopBreaker_proofs -------------------------
(***************************************************************************)
(* Theorems about LoopBreaker, for any calls, limit, window and cap.       *)
(***************************************************************************)
EXTENDS LoopBreaker, FiniteSetTheorems, WellFoundedInduction, TLAPS

\* What the table holds: finite, its accepted calls among the logged ones, and
\* of the logged ones all that still count.
Remembering ==
    /\ IsFiniteSet(tracked)
    /\ \A c \in Calls :
          /\ IsFiniteSet(log[c])
          /\ accepted[c] \subseteq log[c]
          /\ c \notin tracked => accepted[c] = {}
          /\ \A a \in log[c] : /\ a[1] <= touches
                               /\ a[2] <= now
                               /\ Live(a) => a \in accepted[c]

Inv == TypeOK /\ Remembering

\* Every non-empty set of naturals has a least element.
LEMMA NatMin ==
    ASSUME NEW T \in SUBSET Nat, T # {}
    PROVE  \E m \in T : \A n \in T : m <= n
<1>1. \E m \in T : \A n \in T : ~(<<n, m>> \in OpToRel(<, Nat))
  BY NatLessThanWellFounded, WFMin, Zenon
<1>2. \A m, n \in Nat : n < m => <<n, m>> \in OpToRel(<, Nat)
  BY Zenon DEF OpToRel
<1>3. PICK m \in T : \A n \in T : ~(<<n, m>> \in OpToRel(<, Nat))
  BY <1>1
<1>4. \A n \in T : ~(n < m)
  BY <1>2, <1>3
<1> QED
  BY <1>4
\* The refusal always names a number of seconds.
LEMMA WaitIsNat ==
    ASSUME TypeOK, NEW c \in Calls
    PROVE  AcceptedAgainIn(c) \in Nat
<1> DEFINE times == {a[2] : a \in StillAccepted(c)}
           oldest == CHOOSE t \in times : \A u \in times : t <= u
<1>1. times \in SUBSET Nat
  BY DEF TypeOK, StillAccepted, Entries
<1>2. times # {} => oldest \in Nat
  <2> HIDE DEF times
  <2> SUFFICES ASSUME times # {} PROVE oldest \in Nat
    OBVIOUS
  <2>1. \E t \in times : \A u \in times : t <= u
    BY <1>1, NatMin
  <2> QED
    BY <1>1, <2>1
<1>3. now \in Nat /\ Window \in Nat
  BY BreakerAssumption DEF TypeOK
<1>4. AcceptedAgainIn(c) =
        AtLeast1(IF times = {} THEN Window ELSE Monus(oldest + Window, now))
  BY DEF AcceptedAgainIn
<1> HIDE DEF times, oldest
<1> QED
  BY <1>2, <1>3, <1>4 DEF AtLeast1, Monus

\* Looking at a call adds nothing to the table, and keeps the call itself.
LEMMA KeptIsTracked ==
    ASSUME NEW c PROVE KeptFor(c) \subseteq tracked /\ (c \in tracked => c \in KeptFor(c))
BY DEF KeptFor, MadeRoom

\* What is left of a call's accepted calls is all of its log that still counts.
LEMMA StillAcceptedIsLive ==
    ASSUME Inv, NEW c \in Calls
    PROVE  /\ StillAccepted(c) = {a \in log[c] : Live(a)}
           /\ IsFiniteSet(StillAccepted(c))
           /\ Cardinality(StillAccepted(c)) \in Nat
<1>1. StillAccepted(c) = {a \in log[c] : Live(a)}
  BY DEF Inv, Remembering, StillAccepted
<1>2. IsFiniteSet(log[c])
  BY DEF Inv, Remembering
<1> QED
  BY <1>1, <1>2, FS_Subset, FS_CardinalityType

LEMMA InvInit == Init => Inv
BY FS_EmptySet DEF Init, Inv, TypeOK, Remembering, Live, Entries

\* A call whose record a step does not touch, but may have forgotten, keeps its
\* part of Remembering.
LEMMA OthersRemembered ==
    ASSUME Inv, NEW c \in Calls, NEW d \in Calls, d # c,
           touches' = touches + 1, now' = now, tracked' = KeptFor(c) \cup {c},
           accepted'[d] = IF d \in KeptFor(c) THEN accepted[d] ELSE {},
           log'[d] = IF d \in ForgottenFor(c) THEN {} ELSE log[d]
    PROVE  /\ IsFiniteSet(log'[d])
           /\ accepted'[d] \subseteq log'[d]
           /\ d \notin tracked' => accepted'[d] = {}
           /\ \A a \in log'[d] : /\ a[1] <= touches'
                                 /\ a[2] <= now'
                                 /\ Live(a)' => a \in accepted'[d]
<1>1. d \in KeptFor(c) => d \notin ForgottenFor(c)
  BY DEF ForgottenFor
<1>2. \A a : Live(a)' <=> Live(a)
  BY DEF Live
<1>3. \A a \in log[d] : a \in Entries /\ a[1] <= touches /\ a[2] <= now
  BY DEF Inv, TypeOK, Remembering
<1>4. \A a \in log[d] : a[1] <= touches + 1
  BY <1>3 DEF Entries, Inv, TypeOK
<1>5. IsFiniteSet(log'[d])
  BY FS_EmptySet DEF Inv, Remembering
<1>6. CASE d \in KeptFor(c)
  BY <1>1, <1>2, <1>3, <1>4, <1>5, <1>6 DEF Inv, Remembering
<1>7. CASE d \notin KeptFor(c)
  <2>1. \A a \in log'[d] : ~Live(a)
    BY <1>7 DEF Inv, Remembering, ForgottenFor, Counts
  <2> QED
    BY <1>2, <1>3, <1>4, <1>5, <1>7, <2>1
<1> QED
  BY <1>6, <1>7

LEMMA InvTrip ==
    ASSUME Inv, NEW c \in Calls, Trip(c) PROVE Inv'
<1> USE DEF Trip
<1>1. TypeOK'
  <2>1. accepted' \in [Calls -> SUBSET Entries]
    BY DEF Inv, TypeOK, StillAccepted
  <2>2. promise' \in [Calls -> Nat]
    BY WaitIsNat DEF Inv, TypeOK
  <2>3. log' \in [Calls -> SUBSET Entries]
    BY DEF Inv, TypeOK
  <2>4. tracked' \subseteq Calls
    BY KeptIsTracked DEF Inv, TypeOK
  <2>5. last' \subseteq Calls \X Nat \X BOOLEAN
    <3>1. last' = {<<c, now, TRUE>>} /\ now \in Nat
      BY DEF Inv, TypeOK
    <3>2. <<c, now, TRUE>> \in Calls \X Nat \X BOOLEAN
      BY <3>1
    <3> QED
      BY <3>1, <3>2, Zenon
  <2> QED
    BY <2>1, <2>2, <2>3, <2>4, <2>5 DEF Inv, TypeOK
<1>2. IsFiniteSet(tracked')
  BY KeptIsTracked, FS_Subset, FS_AddElement DEF Inv, Remembering
<1>3. ASSUME NEW d \in Calls
      PROVE  /\ IsFiniteSet(log'[d])
             /\ accepted'[d] \subseteq log'[d]
             /\ d \notin tracked' => accepted'[d] = {}
             /\ \A a \in log'[d] : /\ a[1] <= touches'
                                   /\ a[2] <= now'
                                   /\ Live(a)' => a \in accepted'[d]
  <2>1. CASE d = c
    <3>0. c \notin ForgottenFor(c)
      BY KeptIsTracked DEF ForgottenFor
    <3>1. log'[c] = log[c] /\ accepted'[c] = {a \in log[c] : Live(a)}
      BY <3>0, StillAcceptedIsLive
    <3>2. \A a \in log[c] : a[1] <= touches + 1
      BY DEF Inv, TypeOK, Remembering, Entries
    <3>3. \A a : Live(a)' <=> Live(a)
      BY DEF Live
    <3> QED
      BY <2>1, <3>1, <3>2, <3>3 DEF Inv, Remembering
  <2>2. CASE d # c
    BY <2>2, OthersRemembered
  <2> QED
    BY <2>1, <2>2
<1> QED
  BY <1>1, <1>2, <1>3 DEF Inv, Remembering

LEMMA InvAccept ==
    ASSUME Inv, NEW c \in Calls, Accept(c) PROVE Inv'
<1> USE DEF Accept
<1> DEFINE new == <<touches + 1, now>>
<1>0. new \in Entries
  BY DEF Inv, TypeOK, Entries
<1>1. TypeOK'
  <2>1. accepted' \in [Calls -> SUBSET Entries]
    BY <1>0 DEF Inv, TypeOK, StillAccepted
  <2>2. log' \in [Calls -> SUBSET Entries]
    BY <1>0 DEF Inv, TypeOK
  <2>3. promise' \in [Calls -> Nat]
    BY DEF Inv, TypeOK
  <2>4. tracked' \subseteq Calls
    BY KeptIsTracked DEF Inv, TypeOK
  <2>5. last' \subseteq Calls \X Nat \X BOOLEAN
    <3>1. last' = {<<c, now, FALSE>>} /\ now \in Nat
      BY DEF Inv, TypeOK
    <3>2. <<c, now, FALSE>> \in Calls \X Nat \X BOOLEAN
      BY <3>1
    <3> QED
      BY <3>1, <3>2, Zenon
  <2> QED
    BY <2>1, <2>2, <2>3, <2>4, <2>5 DEF Inv, TypeOK
<1>2. IsFiniteSet(tracked')
  BY KeptIsTracked, FS_Subset, FS_AddElement DEF Inv, Remembering
<1>3. ASSUME NEW d \in Calls
      PROVE  /\ IsFiniteSet(log'[d])
             /\ accepted'[d] \subseteq log'[d]
             /\ d \notin tracked' => accepted'[d] = {}
             /\ \A a \in log'[d] : /\ a[1] <= touches'
                                   /\ a[2] <= now'
                                   /\ Live(a)' => a \in accepted'[d]
  <2>1. CASE d = c
    <3>1. /\ log'[c] = log[c] \cup {new}
          /\ accepted'[c] = {a \in log[c] : Live(a)} \cup {new}
      BY StillAcceptedIsLive DEF Inv, TypeOK
    <3>2. \A a \in log[c] : a[1] <= touches + 1 /\ a[2] <= now
      BY DEF Inv, TypeOK, Remembering, Entries
    <3>3. \A a : Live(a)' <=> Live(a)
      BY DEF Live
    <3>4. new[1] <= touches' /\ new[2] <= now'
      BY DEF Inv, TypeOK, Entries
    <3>5. IsFiniteSet(log'[c])
      BY <3>1, FS_AddElement DEF Inv, Remembering
    <3> HIDE DEF new
    <3> QED
      BY <2>1, <3>1, <3>2, <3>3, <3>4, <3>5
  <2>2. CASE d # c
    BY <2>2, OthersRemembered DEF Inv, TypeOK
  <2> QED
    BY <2>1, <2>2
<1> QED
  BY <1>1, <1>2, <1>3 DEF Inv, Remembering

\* Time only takes calls out of the window.
LEMMA InvTick ==
    ASSUME Inv, Tick PROVE Inv'
<1>1. TypeOK'
  BY DEF Inv, TypeOK, Tick
<1>2. \A c \in Calls : \A a \in log[c] : a[2] <= now' /\ (Live(a)' => Live(a))
  BY BreakerAssumption DEF Inv, TypeOK, Remembering, Tick, Live, Entries
<1> QED
  BY <1>1, <1>2 DEF Inv, Remembering, Tick

LEMMA InvStep == Inv /\ [Next]_vars => Inv'
<1> SUFFICES ASSUME Inv, [Next]_vars PROVE Inv'
  OBVIOUS
<1>1. CASE UNCHANGED vars
  BY <1>1 DEF vars, Inv, TypeOK, Remembering, Live
<1> QED
  BY <1>1, InvTrip, InvAccept, InvTick DEF Next

\* What the table and the log hold is as Remembering says, always.
THEOREM Invariant == Spec => []Inv
BY InvInit, InvStep, PTL DEF Spec

\* Every part of the breaker's state keeps its type: the wait of a refusal is
\* always a number of seconds, whichever call is refused and whenever.
THEOREM TypeCorrect == Spec => []TypeOK
<1>1. Inv => TypeOK
  BY DEF Inv
<1> QED
  BY <1>1, Invariant, PTL

----------------------------------------------------------------------------
(* The table is bounded. *)

\* make_room finds a least recently seen call to forget.
LEMMA LeastRecentIsOne ==
    ASSUME TypeOK, NEW S \in SUBSET Calls, S # {}
    PROVE  LeastRecent(S) \in S
<1> DEFINE seen == {lastTouch[c] : c \in S}
<1>1. seen \in SUBSET Nat /\ seen # {}
  BY DEF TypeOK
<1>2. PICK m \in seen : \A n \in seen : m <= n
  <2> HIDE DEF seen
  <2> QED
    BY <1>1, NatMin
<1>3. \E c \in S : \A d \in S : lastTouch[c] <= lastTouch[d]
  BY <1>2
<1> QED
  BY <1>3 DEF LeastRecent

\* Once room is made there is place for one more.
LEMMA RoomIsMade ==
    ASSUME Inv, BoundedMemory PROVE Cardinality(MadeRoom) < Cap
<1> DEFINE counting == {c \in tracked : Counts(c)}
<1>1. Cap \in Nat \ {0}
  BY BreakerAssumption
<1>2. /\ counting \in SUBSET tracked
      /\ IsFiniteSet(counting)
      /\ Cardinality(counting) <= Cardinality(tracked)
      /\ Cardinality(counting) \in Nat
      /\ Cardinality(tracked) \in Nat
  BY FS_Subset, FS_CardinalityType DEF Inv, Remembering
<1>3. CASE Cardinality(tracked) < Cap
  BY <1>3 DEF MadeRoom
<1>4. CASE Cardinality(tracked) >= Cap /\ Cardinality(counting) < Cap
  BY <1>1, <1>2, <1>4 DEF MadeRoom
<1>5. CASE Cardinality(tracked) >= Cap /\ Cardinality(counting) >= Cap
  <2>1. MadeRoom = counting \ {LeastRecent(counting)}
    BY <1>1, <1>2, <1>5 DEF MadeRoom
  <2> HIDE DEF counting
  <2>2. counting # {}
    BY <1>1, <1>5, FS_EmptySet
  <2>3. LeastRecent(counting) \in counting
    BY <1>2, <2>2, LeastRecentIsOne DEF Inv, TypeOK
  <2>4. Cardinality(MadeRoom) = Cardinality(counting) - 1
    BY <1>2, <2>1, <2>3, FS_RemoveElement
  <2> QED
    BY <1>1, <1>2, <2>4 DEF BoundedMemory
<1> QED
  BY <1>1, <1>2, <1>3, <1>4, <1>5

LEMMA BoundedStep == Inv /\ BoundedMemory /\ [Next]_vars => BoundedMemory'
<1> SUFFICES ASSUME Inv, BoundedMemory, [Next]_vars PROVE BoundedMemory'
  OBVIOUS
<1>1. ASSUME NEW c \in Calls, tracked' = KeptFor(c) \cup {c}
      PROVE  BoundedMemory'
  <2>1. CASE c \in tracked
    <3>1. tracked' = tracked
      BY <1>1, <2>1 DEF KeptFor
    <3> QED
      BY <3>1 DEF BoundedMemory
  <2>2. CASE c \notin tracked
    <3>1. tracked' = MadeRoom \cup {c} /\ MadeRoom \in SUBSET tracked
      BY <1>1, <2>2, KeptIsTracked DEF KeptFor
    <3>2. c \notin MadeRoom /\ IsFiniteSet(MadeRoom)
      BY <2>2, <3>1, FS_Subset DEF Inv, Remembering
    <3>3. /\ Cardinality(tracked') = Cardinality(MadeRoom) + 1
          /\ Cardinality(MadeRoom) \in Nat
      BY <3>1, <3>2, FS_AddElement, FS_CardinalityType
    <3> QED
      BY <3>3, RoomIsMade, BreakerAssumption DEF BoundedMemory
  <2> QED
    BY <2>1, <2>2
<1>2. ASSUME NEW c \in Calls, Trip(c) \/ Accept(c) PROVE BoundedMemory'
  BY <1>1, <1>2 DEF Trip, Accept
<1>3. CASE Tick \/ UNCHANGED vars
  BY <1>3 DEF Tick, vars, BoundedMemory
<1> QED
  BY <1>2, <1>3 DEF Next

\* The breaker never remembers more calls than its cap, whatever the agent
\* sends: what make_room promises a long-lived proxy.
THEOREM MemoryIsBounded == Spec => []BoundedMemory
<1>1. Init => BoundedMemory
  BY FS_EmptySet, BreakerAssumption DEF Init, BoundedMemory
<1> QED
  BY <1>1, Invariant, BoundedStep, PTL DEF Spec

----------------------------------------------------------------------------
(* A loop is held, and nothing else is. *)

LEMMA LoopHeldStep == Inv /\ LoopIsHeld /\ [Next]_vars => LoopIsHeld'
<1> SUFFICES ASSUME Inv, LoopIsHeld, [Next]_vars,
                    NEW d \in Calls, NEW s \in 0 .. MaxTime
             PROVE  Cardinality(InWindow(d, s)') <= Limit
  BY DEF LoopIsHeld
<1>1. Cardinality(InWindow(d, s)) <= Limit /\ Limit \in Nat
  BY BreakerAssumption DEF LoopIsHeld
<1>2. CASE log'[d] = log[d]
  BY <1>1, <1>2 DEF InWindow
<1>3. CASE log'[d] = {}
  BY <1>1, <1>3, FS_EmptySet DEF InWindow
<1>4. CASE Accept(d)
  <2> DEFINE new == <<touches + 1, now>>
  <2>1. log'[d] = log[d] \cup {new}
    BY <1>4 DEF Accept, Inv, TypeOK
  <2>2. CASE s <= now /\ now < s + Window
    \* Every logged call of this window still counts, and there are fewer
    \* than Limit of those.
    <3>1. \A a \in InWindow(d, s) : Live(a)
      BY <2>2, BreakerAssumption DEF InWindow, Live, Inv, TypeOK, Entries
    <3>2. InWindow(d, s) \in SUBSET StillAccepted(d)
      BY <3>1, StillAcceptedIsLive DEF InWindow
    <3>3. /\ Cardinality(InWindow(d, s)) <= Cardinality(StillAccepted(d))
          /\ IsFiniteSet(InWindow(d, s))
      BY <3>2, StillAcceptedIsLive, FS_Subset
    <3>4. InWindow(d, s)' = InWindow(d, s) \cup {new}
      <4>1. new[2] = now
        OBVIOUS
      <4> HIDE DEF new
      <4> QED
        BY <2>1, <2>2, <4>1 DEF InWindow
    <3>5. /\ Cardinality(InWindow(d, s)) \in Nat
          /\ Cardinality(StillAccepted(d)) \in Nat
      BY <3>3, FS_CardinalityType, StillAcceptedIsLive
    <3>6. Cardinality(InWindow(d, s)') <= Cardinality(InWindow(d, s)) + 1
      <4>1. Cardinality(InWindow(d, s) \cup {new})
              = IF new \in InWindow(d, s) THEN Cardinality(InWindow(d, s))
                ELSE Cardinality(InWindow(d, s)) + 1
        BY <3>3, FS_AddElement
      <4> HIDE DEF new
      <4> QED
        BY <3>4, <3>5, <4>1
    <3>7. Cardinality(StillAccepted(d)) < Limit
      BY <1>4 DEF Accept
    <3> QED
      <4>1. Cardinality(InWindow(d, s)') \in Nat
        BY <3>3, <3>4, FS_AddElement, FS_CardinalityType
      <4> QED
        BY <1>1, <3>3, <3>5, <3>6, <3>7, <4>1
  <2>3. CASE ~(s <= now /\ now < s + Window)
    <3>1. InWindow(d, s)' = InWindow(d, s)
      BY <2>1, <2>3 DEF InWindow
    <3> QED
      BY <1>1, <3>1
  <2> QED
    BY <2>2, <2>3
<1>5. Accept(d) \/ log'[d] = log[d] \/ log'[d] = {}
  <2>1. ASSUME NEW c \in Calls, Trip(c)
        PROVE  log'[d] = log[d] \/ log'[d] = {}
    BY <2>1 DEF Trip
  <2>2. ASSUME NEW c \in Calls, Accept(c), c # d
        PROVE  log'[d] = log[d] \/ log'[d] = {}
    BY <2>2 DEF Accept
  <2>3. CASE Tick \/ UNCHANGED vars
    BY <2>3 DEF Tick, vars
  <2> QED
    BY <2>1, <2>2, <2>3 DEF Next
<1> QED
  BY <1>2, <1>3, <1>4, <1>5

\* No window ever sees one call accepted more than Limit times, unless that
\* call was forgotten under a flood in between.
THEOREM LoopsAreHeld == Spec => []LoopIsHeld
<1>1. Init => LoopIsHeld
  BY FS_EmptySet, BreakerAssumption DEF Init, LoopIsHeld, InWindow
<1> QED
  BY <1>1, Invariant, LoopHeldStep, PTL DEF Spec

LEMMA OnlyLoopsTripStep == Inv /\ OnlyLoopsTrip /\ [Next]_vars => OnlyLoopsTrip'
<1> SUFFICES ASSUME Inv, OnlyLoopsTrip, [Next]_vars PROVE OnlyLoopsTrip'
  OBVIOUS
<1>1. ASSUME NEW c \in Calls, Trip(c) PROVE OnlyLoopsTrip'
  <2>1. c \notin ForgottenFor(c)
    BY KeptIsTracked DEF ForgottenFor
  <2>2. log'[c] = log[c] /\ last' = {<<c, now, TRUE>>}
    BY <1>1, <2>1 DEF Trip
  <2>3. Cardinality({a \in log[c] : now - a[2] < Window}) >= Limit
    <3>1. StillAccepted(c) = {a \in log[c] : now - a[2] < Window}
      BY StillAcceptedIsLive DEF Live
    <3> QED
      BY <1>1, <3>1 DEF Trip
  <2>4. \A l \in last' : l[1] = c /\ l[2] = now
    BY <2>2
  <2> QED
    BY <2>2, <2>3, <2>4, Zenon DEF OnlyLoopsTrip
<1>2. ASSUME NEW c \in Calls, Accept(c) PROVE OnlyLoopsTrip'
  <2>1. last' = {<<c, now, FALSE>>}
    BY <1>2 DEF Accept
  <2>2. <<c, now, FALSE>>[3] = FALSE
    OBVIOUS
  <2> QED
    BY <2>1, <2>2, Zenon DEF OnlyLoopsTrip
<1>3. CASE Tick \/ UNCHANGED vars
  BY <1>3 DEF Tick, vars, OnlyLoopsTrip
<1> QED
  BY <1>1, <1>2, <1>3 DEF Next

\* Every call held back was itself accepted Limit times in the window: a loop
\* on one call never holds back another.
THEOREM OnlyLoopsAreHeld == Spec => []OnlyLoopsTrip
<1>1. Init => OnlyLoopsTrip
  BY DEF Init, OnlyLoopsTrip
<1> QED
  BY <1>1, Invariant, OnlyLoopsTripStep, PTL DEF Spec
----------------------------------------------------------------------------
(* Forgetting takes a flood. *)

\* The tracked calls were seen at different positions, all of them past.
SeenApart ==
    /\ \A c \in tracked : lastTouch[c] <= touches
    /\ \A c, d \in tracked : lastTouch[c] = lastTouch[d] => c = d

LEMMA SeenApartStep == Inv /\ SeenApart /\ [Next]_vars => SeenApart'
<1> SUFFICES ASSUME Inv, SeenApart, [Next]_vars PROVE SeenApart'
  OBVIOUS
<1>1. ASSUME NEW c \in Calls, Trip(c) \/ Accept(c) PROVE SeenApart'
  <2>1. /\ touches' = touches + 1 /\ touches \in Nat
        /\ tracked' = KeptFor(c) \cup {c}
        /\ lastTouch' = [lastTouch EXCEPT ![c] = touches + 1]
    BY <1>1 DEF Trip, Accept, Inv, TypeOK
  <2>2. KeptFor(c) \subseteq tracked /\ tracked \subseteq Calls
    BY KeptIsTracked DEF Inv, TypeOK
  <2>3. \A d \in tracked' : \/ d = c /\ lastTouch'[d] = touches + 1
                            \/ d \in tracked /\ d # c /\ lastTouch'[d] = lastTouch[d]
    BY <2>1, <2>2 DEF Inv, TypeOK
  <2>4. \A d \in tracked : lastTouch[d] \in Nat /\ lastTouch[d] <= touches
    BY <2>2 DEF SeenApart, Inv, TypeOK
  <2> QED
    BY <2>1, <2>3, <2>4 DEF SeenApart
<1>2. CASE Tick \/ UNCHANGED vars
  BY <1>2 DEF Tick, vars, SeenApart
<1> QED
  BY <1>1, <1>2 DEF Next

\* The least recently seen of some calls is one of them, none seen before it.
LEMMA LeastRecentIsLeast ==
    ASSUME TypeOK, NEW S \in SUBSET Calls, S # {}
    PROVE  \A d \in S : lastTouch[LeastRecent(S)] <= lastTouch[d]
<1> DEFINE seen == {lastTouch[c] : c \in S}
<1>1. seen \in SUBSET Nat /\ seen # {}
  BY DEF TypeOK
<1>2. PICK m \in seen : \A n \in seen : m <= n
  <2> HIDE DEF seen
  <2> QED
    BY <1>1, NatMin
<1>3. \E c \in S : \A d \in S : lastTouch[c] <= lastTouch[d]
  BY <1>2
<1> QED
  BY <1>3 DEF LeastRecent

\* A call make_room drops while it counts is the least recently seen of at
\* least Cap that count.
LEMMA ForgottenIsLeastRecent ==
    ASSUME Inv, NEW e \in Calls, NEW c \in tracked, Counts(c), c \notin KeptFor(e)
    PROVE  LET counting == {d \in tracked : Counts(d)}
           IN  /\ e \notin tracked
               /\ c = LeastRecent(counting)
               /\ MadeRoom = counting \ {c}
               /\ Cardinality(counting) >= Cap
<1> DEFINE counting == {d \in tracked : Counts(d)}
<1>1. e \notin tracked /\ c \notin MadeRoom /\ c \in counting
  BY DEF KeptFor
<1>2. ~(Cardinality(tracked) < Cap) /\ ~(Cardinality(counting) < Cap)
  BY <1>1 DEF MadeRoom
<1>3. MadeRoom = counting \ {LeastRecent(counting)}
  BY <1>2 DEF MadeRoom
<1>4. Cardinality(counting) \in Nat /\ Cap \in Nat
  BY FS_Subset, FS_CardinalityType, BreakerAssumption DEF Inv, Remembering
<1> QED
  BY <1>1, <1>2, <1>3, <1>4

LEMMA FloodStep ==
    ASSUME Inv, SeenApart, [Next]_vars,
           NEW c \in tracked \ tracked', Counts(c)
    PROVE  Cardinality({d \in tracked' : lastTouch'[d] > lastTouch[c]}) >= Cap
<1> DEFINE counting == {d \in tracked : Counts(d)}
           later == {d \in tracked' : lastTouch'[d] > lastTouch[c]}
<1>1. PICK e \in Calls : Trip(e) \/ Accept(e)
  BY DEF Next, Tick, vars
<1>2. /\ tracked' = KeptFor(e) \cup {e}
      /\ lastTouch' = [lastTouch EXCEPT ![e] = touches + 1]
  BY <1>1 DEF Trip, Accept
<1>3. /\ e \notin tracked
      /\ c = LeastRecent(counting)
      /\ MadeRoom = counting \ {c}
      /\ Cardinality(counting) >= Cap
  BY <1>2, ForgottenIsLeastRecent
<1>4. tracked' = (counting \ {c}) \cup {e}
  BY <1>2, <1>3 DEF KeptFor
<1>5. /\ tracked \subseteq Calls /\ lastTouch \in [Calls -> Nat] /\ touches \in Nat
      /\ IsFiniteSet(counting)
      /\ Cap \in Nat
  BY FS_Subset, BreakerAssumption DEF Inv, TypeOK, Remembering
<1>6. \A d \in counting \ {c} : lastTouch'[d] > lastTouch[c]
  <2>1. \A d \in counting : lastTouch[c] <= lastTouch[d]
    BY <1>3, <1>5, LeastRecentIsLeast DEF Inv
  <2> QED
    BY <1>2, <1>3, <1>5, <2>1 DEF SeenApart
<1>7. lastTouch'[e] > lastTouch[c]
  BY <1>2, <1>5 DEF SeenApart
<1>8. later = (counting \ {c}) \cup {e}
  BY <1>4, <1>6, <1>7
<1>9. c \in counting /\ e \notin counting \ {c}
  BY <1>3
<1> HIDE DEF counting, later
<1>10. /\ IsFiniteSet(counting \ {c})
       /\ Cardinality(counting \ {c}) = Cardinality(counting) - 1
  BY <1>5, <1>9, FS_RemoveElement
<1>11. Cardinality(later) = Cardinality(counting \ {c}) + 1
  BY <1>8, <1>9, <1>10, FS_AddElement
<1>12. Cardinality(counting) \in Nat
  BY <1>5, FS_CardinalityType
<1>13. Cardinality(later) >= Cap
  BY <1>3, <1>10, <1>11, <1>12
<1> QED
  BY <1>13 DEF later

\* A call that still counts is forgotten only for Cap others that were all seen
\* after it: to clear its own count an agent has to flood the table.
THEOREM ForgettingTakesAFlood == Spec => ForgottenOnlyInAFlood
<1>1. Init => SeenApart
  BY DEF Init, SeenApart
<1>2. Inv /\ SeenApart /\ [Next]_vars =>
        [\A c \in tracked \ tracked' : Counts(c) =>
          Cardinality({d \in tracked' : lastTouch'[d] > lastTouch[c]}) >= Cap]_vars
  BY FloodStep
<1> QED
  BY <1>1, <1>2, Invariant, SeenApartStep, PTL DEF Spec, ForgottenOnlyInAFlood
----------------------------------------------------------------------------
(* The refusal's promise. *)

\* No call has more accepted than the limit ("never longer than
\* max_identical_calls").
NoneTooMany == \A c \in Calls : Cardinality(accepted[c]) <= Limit

\* A call that was promised something has its limit of accepted calls, and the
\* promise is when the oldest of them leaves the window; or it is not tracked,
\* and the promise is due.
Promised ==
    \A c \in Calls : promise[c] # 0 =>
        IF c \in tracked
        THEN /\ Cardinality(accepted[c]) >= Limit
             /\ \E a \in accepted[c] : promise[c] = a[2] + Window
             /\ \A a \in accepted[c] : promise[c] <= a[2] + Window
        ELSE now >= promise[c]

\* What a tripped call is told: when its oldest call still counted expires.
LEMMA WaitIsForTheOldest ==
    ASSUME Inv, NEW c \in Calls, StillAccepted(c) # {}
    PROVE  /\ \E a \in StillAccepted(c) : now + AcceptedAgainIn(c) = a[2] + Window
           /\ \A a \in StillAccepted(c) : now + AcceptedAgainIn(c) <= a[2] + Window
<1> DEFINE times == {a[2] : a \in StillAccepted(c)}
           oldest == CHOOSE t \in times : \A u \in times : t <= u
<1>1. /\ now \in Nat /\ Window \in Nat \ {0}
      /\ \A a \in StillAccepted(c) : a[2] \in Nat /\ a[2] <= now /\ now - a[2] < Window
  BY StillAcceptedIsLive, BreakerAssumption DEF Inv, TypeOK, Remembering, Live, Entries
<1>2. times \in SUBSET Nat /\ times # {}
  BY <1>1
<1>3. oldest \in times /\ \A u \in times : oldest <= u
  <2> HIDE DEF times
  <2>1. \E t \in times : \A u \in times : t <= u
    BY <1>2, NatMin
  <2> QED
    BY <2>1
<1>4. AcceptedAgainIn(c) = AtLeast1(Monus(oldest + Window, now))
  BY <1>2 DEF AcceptedAgainIn
<1>5. \E a \in StillAccepted(c) : oldest = a[2]
  <2> HIDE DEF oldest
  <2> QED
    BY <1>3
<1>6. now + AcceptedAgainIn(c) = oldest + Window
  <2> HIDE DEF oldest
  <2> QED
    BY <1>1, <1>4, <1>5 DEF AtLeast1, Monus
<1> HIDE DEF oldest
<1>7. \A a \in StillAccepted(c) : oldest <= a[2] /\ oldest \in Nat
  BY <1>1, <1>3, <1>5
<1> QED
  BY <1>1, <1>5, <1>6, <1>7

\* Without the call that expired, fewer than the limit are left.
LEMMA DueIsAccepted ==
    ASSUME Inv, NoneTooMany, Promised, NEW c \in Calls, promise[c] # 0,
           now >= promise[c], Limit > 0
    PROVE  Cardinality(StillAccepted(c)) < Limit
<1>1. Limit \in Nat \ {0} /\ now \in Nat /\ Window \in Nat \ {0}
  BY BreakerAssumption DEF Inv, TypeOK
<1>2. CASE c \notin tracked
  BY <1>1, <1>2, FS_EmptySet DEF StillAccepted
<1>3. CASE c \in tracked
  <2>1. PICK a \in accepted[c] : promise[c] = a[2] + Window
    BY <1>3 DEF Promised
  <2>2. a[2] \in Nat
    BY DEF Inv, TypeOK, Entries
  <2>3. a \notin StillAccepted(c)
    BY <1>1, <2>1, <2>2 DEF StillAccepted, Live
  <2>4. IsFiniteSet(accepted[c])
    BY FS_Subset DEF Inv, Remembering
  <2>5. StillAccepted(c) \in SUBSET (accepted[c] \ {a})
    BY <1>3, <2>3 DEF StillAccepted
  <2>6. /\ IsFiniteSet(accepted[c] \ {a})
        /\ Cardinality(accepted[c] \ {a}) = Cardinality(accepted[c]) - 1
    BY <2>1, <2>4, FS_RemoveElement
  <2>7. Cardinality(StillAccepted(c)) <= Cardinality(accepted[c]) - 1
    BY <2>5, <2>6, FS_Subset
  <2>8. Cardinality(StillAccepted(c)) \in Nat /\ Cardinality(accepted[c]) \in Nat
    BY <2>4, StillAcceptedIsLive, FS_CardinalityType
  <2> QED
    BY <1>1, <2>7, <2>8 DEF NoneTooMany
<1> QED
  BY <1>2, <1>3

\* Until then every one of them still counts.
LEMMA NotDueIsHeld ==
    ASSUME Inv, Promised, NEW c \in Calls, promise[c] # 0, now < promise[c]
    PROVE  Cardinality(StillAccepted(c)) >= Limit
<1>1. promise[c] \in Nat /\ now \in Nat /\ Window \in Nat
  BY BreakerAssumption DEF Inv, TypeOK
<1>2. c \in tracked
  BY <1>1 DEF Promised
<1>3. \A a \in accepted[c] : a[2] \in Nat /\ promise[c] <= a[2] + Window
  BY <1>2 DEF Promised, Inv, TypeOK, Entries
<1>4. \A a \in accepted[c] : Live(a)
  BY <1>1, <1>3 DEF Live
<1>5. StillAccepted(c) = accepted[c]
  BY <1>2, <1>4 DEF StillAccepted
<1> QED
  BY <1>2, <1>5 DEF Promised

\* Another call c is looked at: d keeps what it has, or is dropped.
LEMMA OthersPromised ==
    ASSUME Inv, Promised, NEW c \in Calls, NEW d \in Calls, d # c,
           now' = now, tracked' = KeptFor(c) \cup {c},
           accepted'[d] = IF d \in KeptFor(c) THEN accepted[d] ELSE {},
           promise'[d] = IF d \in ForgottenFor(c) THEN 0 ELSE promise[d],
           promise'[d] # 0
    PROVE  IF d \in tracked'
           THEN /\ Cardinality(accepted'[d]) >= Limit
                /\ \E a \in accepted'[d] : promise'[d] = a[2] + Window
                /\ \A a \in accepted'[d] : promise'[d] <= a[2] + Window
           ELSE now' >= promise'[d]
<1>1. KeptFor(c) \subseteq tracked /\ promise'[d] = promise[d]
  BY KeptIsTracked
<1>2. CASE d \in KeptFor(c)
  BY <1>1, <1>2 DEF Promised
<1>3. CASE d \notin tracked
  BY <1>1, <1>3 DEF Promised
<1>4. CASE d \in tracked \ KeptFor(c)
  <2>1. ~Counts(d)
    BY <1>4 DEF ForgottenFor
  <2>2. PICK a \in accepted[d] : promise[d] = a[2] + Window
    BY <1>1, <1>4 DEF Promised
  <2>3. a[2] \in Nat /\ now \in Nat /\ Window \in Nat
    BY BreakerAssumption DEF Inv, TypeOK, Entries
  <2>4. ~Live(a)
    BY <2>1 DEF Counts
  <2> QED
    BY <1>1, <1>4, <2>2, <2>3, <2>4 DEF Live
<1> QED
  BY <1>2, <1>3, <1>4

LEMMA PromiseTrip ==
    ASSUME Inv, NoneTooMany, Promised, Limit > 0, NEW c \in Calls, Trip(c)
    PROVE  NoneTooMany' /\ Promised'
<1>1. /\ accepted'[c] = StillAccepted(c)
      /\ promise'[c] = now + AcceptedAgainIn(c)
      /\ c \in tracked'
      /\ \A d \in Calls \ {c} :
             /\ accepted'[d] = IF d \in KeptFor(c) THEN accepted[d] ELSE {}
             /\ promise'[d] = IF d \in ForgottenFor(c) THEN 0 ELSE promise[d]
      /\ now' = now /\ tracked' = KeptFor(c) \cup {c}
  BY DEF Trip
<1>2. Limit \in Nat \ {0} /\ Cardinality(StillAccepted(c)) >= Limit
  BY BreakerAssumption DEF Trip
<1>3. StillAccepted(c) # {}
  <2>1. Cardinality({}) = 0
    BY FS_EmptySet
  <2> QED
    BY <1>2, <2>1
<1>4. \A d \in Calls : IsFiniteSet(accepted[d]) /\ Cardinality(accepted[d]) \in Nat
  BY FS_Subset, FS_CardinalityType DEF Inv, Remembering
<1>5. Cardinality(StillAccepted(c)) <= Limit
  <2>1. StillAccepted(c) \in SUBSET accepted[c]
    BY DEF StillAccepted
  <2>2. Cardinality(StillAccepted(c)) <= Cardinality(accepted[c])
    BY <1>4, <2>1, FS_Subset
  <2>3. Cardinality(StillAccepted(c)) \in Nat
    BY StillAcceptedIsLive
  <2> QED
    BY <1>2, <1>4, <2>2, <2>3 DEF NoneTooMany
<1>6. NoneTooMany'
  BY <1>1, <1>2, <1>5, FS_EmptySet DEF NoneTooMany
<1>7. ASSUME NEW d \in Calls, promise'[d] # 0, d # c
      PROVE  IF d \in tracked'
             THEN /\ Cardinality(accepted'[d]) >= Limit
                  /\ \E a \in accepted'[d] : promise'[d] = a[2] + Window
                  /\ \A a \in accepted'[d] : promise'[d] <= a[2] + Window
             ELSE now' >= promise'[d]
  BY <1>1, <1>7, OthersPromised
<1>8. /\ \E a \in accepted'[c] : promise'[c] = a[2] + Window
      /\ \A a \in accepted'[c] : promise'[c] <= a[2] + Window
  BY <1>1, <1>3, WaitIsForTheOldest
<1>9. Promised'
  BY <1>1, <1>2, <1>7, <1>8 DEF Promised
<1> QED
  BY <1>6, <1>9

LEMMA PromiseAccept ==
    ASSUME Inv, NoneTooMany, Promised, NEW c \in Calls, Accept(c)
    PROVE  NoneTooMany' /\ Promised'
<1> DEFINE new == <<touches + 1, now>>
<1>1. /\ accepted'[c] = StillAccepted(c) \cup {new}
      /\ promise'[c] = 0
      /\ \A d \in Calls \ {c} :
             /\ accepted'[d] = IF d \in KeptFor(c) THEN accepted[d] ELSE {}
             /\ promise'[d] = IF d \in ForgottenFor(c) THEN 0 ELSE promise[d]
      /\ now' = now /\ tracked' = KeptFor(c) \cup {c}
  BY DEF Accept
<1>2. /\ Limit \in Nat
      /\ Cardinality(StillAccepted(c)) < Limit
      /\ Cardinality(StillAccepted(c)) \in Nat
      /\ IsFiniteSet(StillAccepted(c))
  BY BreakerAssumption, StillAcceptedIsLive DEF Accept
<1>3. Cardinality(accepted'[c]) <= Limit
  <2>1. Cardinality(StillAccepted(c) \cup {new})
          = IF new \in StillAccepted(c) THEN Cardinality(StillAccepted(c))
            ELSE Cardinality(StillAccepted(c)) + 1
    BY <1>2, FS_AddElement
  <2> HIDE DEF new
  <2> QED
    BY <1>1, <1>2, <2>1
<1>4. NoneTooMany'
  <2>1. Cardinality({}) = 0
    BY FS_EmptySet
  <2>2. \A d \in Calls \ {c} : Cardinality(accepted'[d]) <= Limit
    BY <1>1, <1>2, <2>1 DEF NoneTooMany
  <2> HIDE DEF new
  <2> QED
    BY <1>3, <2>2 DEF NoneTooMany
<1>5. ASSUME NEW d \in Calls, promise'[d] # 0, d # c
      PROVE  IF d \in tracked'
             THEN /\ Cardinality(accepted'[d]) >= Limit
                  /\ \E a \in accepted'[d] : promise'[d] = a[2] + Window
                  /\ \A a \in accepted'[d] : promise'[d] <= a[2] + Window
             ELSE now' >= promise'[d]
  BY <1>1, <1>5, OthersPromised
<1>6. Promised'
  BY <1>1, <1>5 DEF Promised
<1> QED
  BY <1>4, <1>6

LEMMA PromiseStep ==
    ASSUME Limit > 0
    PROVE  Inv /\ NoneTooMany /\ Promised /\ [Next]_vars => NoneTooMany' /\ Promised'
<1> SUFFICES ASSUME Inv, NoneTooMany, Promised, [Next]_vars
             PROVE  NoneTooMany' /\ Promised'
  OBVIOUS
<1>1. CASE Tick
  <2>1. now' = now + 1 /\ now \in Nat /\ UNCHANGED <<tracked, accepted, promise>>
    BY <1>1 DEF Tick, Inv, TypeOK
  <2>2. \A c \in Calls : promise[c] \in Nat
    BY DEF Inv, TypeOK
  <2> QED
    BY <2>1, <2>2 DEF NoneTooMany, Promised
<1>2. CASE UNCHANGED vars
  BY <1>2 DEF vars, NoneTooMany, Promised
<1> QED
  BY <1>1, <1>2, PromiseTrip, PromiseAccept DEF Next

\* The refusal's "accepts this same call again in n s" is kept and is exact: the
\* call is tripped until then, and accepted from then on.  (A limit of 0 trips
\* every call for good; the proxy has the default, 3.)
THEOREM RefusalsAreExact ==
    ASSUME Limit > 0
    PROVE  Spec => PromiseIsExact
<1>1. Init => NoneTooMany /\ Promised
  BY FS_EmptySet, BreakerAssumption DEF Init, NoneTooMany, Promised
<1>2. ASSUME Inv, NoneTooMany, Promised, NEW c \in Calls, promise[c] # 0
      PROVE  /\ Trip(c) => now < promise[c]
             /\ Accept(c) => now >= promise[c]
  <2>1. now \in Nat /\ promise[c] \in Nat /\ Limit \in Nat
    BY <1>2, BreakerAssumption DEF Inv, TypeOK
  <2>2. Cardinality(StillAccepted(c)) \in Nat
    BY <1>2, StillAcceptedIsLive
  <2> QED
    <3>1. Trip(c) => ~(now >= promise[c])
      BY <1>2, <2>1, <2>2, DueIsAccepted DEF Trip
    <3>2. Accept(c) => ~(now < promise[c])
      BY <1>2, <2>1, <2>2, NotDueIsHeld DEF Accept
    <3> QED
      BY <2>1, <3>1, <3>2
<1>3. Inv /\ NoneTooMany /\ Promised =>
        [\A c \in Calls : promise[c] # 0 =>
          /\ Trip(c) => now < promise[c]
          /\ Accept(c) => now >= promise[c]]_vars
  BY <1>2
<1> QED
  BY <1>1, <1>3, Invariant, PromiseStep, PTL DEF Spec, PromiseIsExact
=============================================================================
