----------------------- MODULE AttemptRecords_proofs -----------------------
(***************************************************************************)
(* Theorems about AttemptRecords, for any calls, sessions and bounds: the  *)
(* types, that the pending state is a ledger (AttemptLedger), that a       *)
(* session has one ask, and that nothing is left behind or answered for    *)
(* another.                                                                *)
(***************************************************************************)
EXTENDS AttemptRecords, FiniteSetTheorems, WellFoundedInduction, TLAPS

----------------------------------------------------------------------------
(* What a change of the state takes out of it. *)

LEMMA Kinds ==
    ASSUME TypeOK, NEW c \in Calls
    PROVE  /\ c \in Inbounds <=> job[c].kind = "inbound"
           /\ job[c].kind \in {"inbound", "harmless", "reply", "settle", "ended"}
           /\ Departure(c) \in Whys \ {"expired", "pending_limit", "state_unavailable"}
           /\ Departure(c) = "replied" => job[c].kind = "reply"
<1> DEFINE D == DepartureOf
<1>0. /\ D["inbound"] = "next_message" /\ D["harmless"] = "next_message"
      /\ D["reply"] = "replied" /\ D["ended"] = "turn_ended"
      /\ D["settle"] = "channel_reports_none"
  BY DEF DepartureOf
<1> HIDE DEF D
<1>1. job[c] \in JobsOf(c)
  BY DEF TypeOK
<1>2. CASE c \in Inbounds
  <2>1. \E s \in Chats[c] : job[c] = Job("inbound", s, NoRun, FALSE)
    BY <1>1, <1>2 DEF JobsOf
  <2>2. job[c].kind = "inbound"
    BY <2>1 DEF Job
  <2>3. Departure(c) = "next_message"
    BY <1>0, <2>2 DEF Departure, D
  <2> QED
    BY <1>2, <2>2, <2>3 DEF Whys
<1>3. CASE c \notin Inbounds
  <2>1. PICK s \in Chats[c] :
           \/ job[c] \in {Job("harmless", s, NoRun, FALSE), Job("reply", s, NoRun, FALSE)}
           \/ job[c] \in {Job("settle", s, NoRun, reported) : reported \in BOOLEAN}
           \/ job[c] \in {Job("ended", s, run, FALSE) : run \in Tagged}
    BY <1>1, <1>3 DEF JobsOf
  <2>2. job[c].kind \in {"harmless", "reply", "settle", "ended"}
    BY <2>1 DEF Job
  <2>3. Departure(c) = D[job[c].kind]
    BY DEF Departure, D
  <2> QED
    BY <1>0, <1>3, <2>2, <2>3 DEF Whys
<1> QED
  BY <1>2, <1>3

\* Every ask leaves for one reason.
LEMMA Departures ==
    ASSUME TypeOK, NEW c \in Calls, NEW asks \in SUBSET Inbounds
    PROVE  /\ Out(c, asks) \subseteq asks
           /\ Leaving(c, asks) \subseteq Inbounds \X Whys
           /\ \A l \in Leaving(c, asks) :
                  l[1] \in Out(c, asks) /\ l[2] # "state_unavailable"
           /\ \A a \in Out(c, asks) : \E l \in Leaving(c, asks) : l[1] = a
           /\ \A k, l \in Leaving(c, asks) : k[1] = l[1] => k = l
<1> DEFINE E == Expired(c, asks)
           T == Taken(c, asks)
           P == PushedOut(c, asks)
<1>1. E \subseteq asks /\ T \subseteq asks \ E /\ P \subseteq asks \ (E \cup T)
  BY DEF Expired, Taken, Answered, PushedOut, Kept
<1>2. Departure(c) \in Whys \ {"expired", "pending_limit", "state_unavailable"}
  BY Kinds
<1>3. Leaving(c, asks) = (E \X {"expired"}) \cup (T \X {Departure(c)})
                         \cup (P \X {"pending_limit"})
  BY DEF Leaving
<1>4. Out(c, asks) = E \cup T \cup P
  BY DEF Out
<1> HIDE DEF E, T, P
<1>5. \A l \in Leaving(c, asks) :
         /\ l = <<l[1], l[2]>>
         /\ \/ l[1] \in E /\ l[2] = "expired"
            \/ l[1] \in T /\ l[2] = Departure(c)
            \/ l[1] \in P /\ l[2] = "pending_limit"
  BY <1>3
<1>6. ASSUME NEW k \in Leaving(c, asks), NEW l \in Leaving(c, asks), k[1] = l[1]
      PROVE  k = l
  <2>1. k[2] = l[2]
    BY <1>1, <1>5, <1>6
  <2> QED
    BY <1>5, <1>6, <2>1
<1>7. ASSUME NEW a \in Out(c, asks)
      PROVE  \E l \in Leaving(c, asks) : l[1] = a
  <2>1. CASE a \in E
    <3>1. <<a, "expired">> \in Leaving(c, asks)
      BY <1>3, <2>1
    <3> QED
      BY <3>1
  <2>2. CASE a \in T
    <3>1. <<a, Departure(c)>> \in Leaving(c, asks)
      BY <1>3, <2>2
    <3> QED
      BY <3>1
  <2>3. CASE a \in P
    <3>1. <<a, "pending_limit">> \in Leaving(c, asks)
      BY <1>3, <2>3
    <3> QED
      BY <3>1
  <2> QED
    BY <1>4, <1>7, <2>1, <2>2, <2>3
<1>8. Out(c, asks) \subseteq asks /\ \A l \in Leaving(c, asks) : l[1] \in Out(c, asks)
  BY <1>1, <1>4, <1>5
<1>9. Leaving(c, asks) \subseteq Inbounds \X Whys
  BY <1>1, <1>2, <1>3 DEF Whys
<1>10. \A l \in Leaving(c, asks) : l[2] # "state_unavailable"
  BY <1>2, <1>5
<1> QED
  BY <1>6, <1>7, <1>8, <1>9, <1>10

----------------------------------------------------------------------------
(* Types. *)

\* What handing out does to the call that does it, and leaves of the others.
LEMMA HandedOut ==
    ASSUME TypeOK, NEW c \in Calls, NEW out \in SUBSET (Inbounds \X Whys),
           HandOut(c, out)
    PROVE  /\ leaving' \in [Calls -> SUBSET (Inbounds \X Whys)]
           /\ pc' \in [Calls -> {"idle"} \cup Busy \cup Ended]
           /\ leaving'[c] = out /\ pc'[c] = IF out = {} THEN "done" ELSE "record"
           /\ \A d \in Calls \ {c} : leaving'[d] = leaving[d] /\ pc'[d] = pc[d]
           /\ \A d \in Calls : leaving'[d] # {} <=> pc'[d] = "record"
BY DEF HandOut, Goto, TypeOK, Busy, Ended

\* So it is when the update is given up, and a call goes to another place.
LEMMA WentTo ==
    ASSUME TypeOK, NEW c \in Calls, NEW label \in {"idle"} \cup Busy \cup Ended,
           Goto(c, label)
    PROVE  /\ pc' \in [Calls -> {"idle"} \cup Busy \cup Ended]
           /\ pc'[c] = label
           /\ \A d \in Calls \ {c} : pc'[d] = pc[d]
BY DEF Goto, TypeOK

LEMMA Returned ==
    ASSUME TypeOK, NEW c \in Calls, Return(c)
    PROVE  /\ read' \in [Calls -> SUBSET Inbounds]
           /\ tries' \in [Calls -> 0 .. Attempts]
BY AttemptAssumption DEF Return, TypeOK

\* Either the call's own ask is handed out, or nothing.
LEMMA GivenUp ==
    ASSUME TypeOK, NEW c \in Calls, pc[c] \in {"load", "save"}, GiveUp(c)
    PROVE  /\ leaving' \in [Calls -> SUBSET (Inbounds \X Whys)]
           /\ pc' \in [Calls -> {"idle"} \cup Busy \cup Ended]
           /\ read' \in [Calls -> SUBSET Inbounds]
           /\ tries' \in [Calls -> 0 .. Attempts]
           /\ \A d \in Calls \ {c} : leaving'[d] = leaving[d] /\ pc'[d] = pc[d]
           /\ \A d \in Calls : leaving'[d] # {} <=> pc'[d] = "record"
           /\ \/ c \in Inbounds /\ leaving'[c] = {<<c, "state_unavailable">>}
              \/ leaving' = leaving /\ pc'[c] = "failed"
<1>1. Return(c)
  BY DEF GiveUp
<1>2. CASE job[c].kind = "inbound"
  <2>1. c \in Inbounds /\ HandOut(c, {<<c, "state_unavailable">>})
    BY <1>2, Kinds DEF GiveUp
  <2>2. {<<c, "state_unavailable">>} \in SUBSET (Inbounds \X Whys)
    BY <2>1 DEF Whys
  <2> QED
    BY <1>1, <2>1, <2>2, Returned, HandedOut
<1>3. CASE job[c].kind # "inbound"
  <2>1. Goto(c, "failed") /\ leaving' = leaving
    BY <1>3 DEF GiveUp
  <2>2. "failed" \in {"idle"} \cup Busy \cup Ended
    BY DEF Ended
  <2>3. /\ pc' \in [Calls -> {"idle"} \cup Busy \cup Ended]
        /\ pc'[c] = "failed" /\ \A d \in Calls \ {c} : pc'[d] = pc[d]
    BY <2>1, <2>2, WentTo
  <2> QED
    BY <1>1, <2>1, <2>3, Returned DEF TypeOK
<1> QED
  BY <1>2, <1>3

\* Trying again changes nothing of what is handed out.
LEMMA TriedAgain ==
    ASSUME TypeOK, NEW c \in Calls, pc[c] = "save", Again(c), tries[c] + 1 < Attempts
    PROVE  /\ leaving' = leaving
           /\ pc' \in [Calls -> {"idle"} \cup Busy \cup Ended]
           /\ read' \in [Calls -> SUBSET Inbounds]
           /\ tries' \in [Calls -> 0 .. Attempts]
           /\ \A d \in Calls \ {c} : pc'[d] = pc[d]
           /\ pc'[c] = "load"
           /\ \A d \in Calls : leaving'[d] # {} <=> pc'[d] = "record"
<1>1. "load" \in {"idle"} \cup Busy \cup Ended /\ Goto(c, "load")
  BY DEF Busy, Again
<1>2. /\ pc' \in [Calls -> {"idle"} \cup Busy \cup Ended]
      /\ pc'[c] = "load" /\ \A d \in Calls \ {c} : pc'[d] = pc[d]
  BY <1>1, WentTo
<1>3. tries' \in [Calls -> 0 .. Attempts]
  <2>1. tries' = [tries EXCEPT ![c] = tries[c] + 1]
    BY DEF Again
  <2>2. tries[c] + 1 \in 0 .. Attempts
    BY AttemptAssumption DEF TypeOK
  <2> QED
    BY <2>1, <2>2 DEF TypeOK
<1> QED
  BY <1>2, <1>3 DEF Again, TypeOK

LEMMA Placed ==
    ASSUME TypeOK, NEW c \in Calls
    PROVE  Put(c) \in [Inbounds -> Nat]
<1>1. Cardinality({a \in Inbounds : place[a] > 0}) \in Nat
  <2>1. IsFiniteSet({a \in Inbounds : place[a] > 0})
    BY AttemptAssumption, FS_Subset
  <2> QED
    BY <2>1, FS_CardinalityType
<1>2. CASE job[c].kind = "inbound"
  <2>1. c \in Inbounds
    BY <1>2, Kinds
  <2>2. 1 + Cardinality({a \in Inbounds : place[a] > 0}) \in Nat
    BY <1>1
  <2> QED
    BY <1>2, <2>1, <2>2 DEF Put, TypeOK
<1> QED
  BY <1>2 DEF Put, TypeOK

LEMMA TypeInit == Init => TypeOK
<1> SUFFICES ASSUME Init PROVE TypeOK
  OBVIOUS
<1>1. ASSUME NEW c \in Calls PROVE job[c] \in JobsOf(c)
  <2>1. PICK s \in Chats[c] : TRUE
    BY AttemptAssumption
  <2>2. JobsOf(c) # {}
    <3>1. CASE c \in Inbounds
      BY <2>1, <3>1 DEF JobsOf
    <3>2. CASE c \notin Inbounds
      <4> DEFINE jobs(r) ==
              {Job("harmless", r, NoRun, FALSE), Job("reply", r, NoRun, FALSE)}
              \cup {Job("settle", r, NoRun, reported) : reported \in BOOLEAN}
              \cup {Job("ended", r, run, FALSE) : run \in Tagged}
      <4>1. JobsOf(c) = UNION {jobs(r) : r \in Chats[c]}
        BY <3>2 DEF JobsOf
      <4>2. Job("harmless", s, NoRun, FALSE) \in jobs(s)
        OBVIOUS
      <4> HIDE DEF jobs
      <4> QED
        BY <2>1, <4>1, <4>2
    <3> QED
      BY <3>1, <3>2
  <2> QED
    BY <2>2 DEF Init
<1>2. /\ pc \in [Calls -> {"idle"} \cup Busy \cup Ended]
      /\ \A c \in Calls : leaving[c] # {} <=> pc[c] = "record"
  BY DEF Init, Busy, Ended
<1>3. /\ tries \in [Calls -> 0 .. Attempts]
      /\ pending \subseteq Inbounds /\ place \in [Inbounds -> Nat]
  BY AttemptAssumption DEF Init
<1> QED
  BY <1>1, <1>2, <1>3 DEF Init, TypeOK

LEMMA TypeStep == TypeOK /\ [Next]_vars => TypeOK'
<1> SUFFICES ASSUME TypeOK, [Next]_vars PROVE TypeOK'
  OBVIOUS
<1>1. ASSUME NEW c \in Calls, NEW j \in JobsOf(c), NEW t \in now .. MaxTime, Start(c, j, t)
      PROVE  TypeOK'
  <2>1. /\ pc' \in [Calls -> {"idle"} \cup Busy \cup Ended]
        /\ \A d \in Calls : leaving'[d] # {} <=> pc'[d] = "record"
    BY <1>1 DEF Start, Goto, TypeOK, Busy
  <2>2. \A d \in Calls : job'[d] \in JobsOf(d)
    BY <1>1 DEF Start, TypeOK
  <2>3. t \in Nat /\ at' \in [Calls -> Nat]
    BY <1>1, AttemptAssumption DEF Start, TypeOK
  <2>4. seen' \in [Calls -> SUBSET Inbounds]
    BY <1>1 DEF Start, TypeOK
  <2> QED
    BY <1>1, <2>1, <2>2, <2>3, <2>4 DEF Start, TypeOK
<1>2. ASSUME NEW c \in Calls, Load(c) PROVE TypeOK'
  <2>1. /\ pc' \in [Calls -> {"idle"} \cup Busy \cup Ended]
        /\ \A d \in Calls : leaving'[d] # {} <=> pc'[d] = "record"
    BY <1>2 DEF Load, Goto, TypeOK, Busy
  <2>2. read' \in [Calls -> SUBSET Inbounds]
    BY <1>2 DEF Load, TypeOK
  <2> QED
    BY <1>2, <2>1, <2>2 DEF Load, TypeOK
<1>3. ASSUME NEW c \in Calls, LoadSame(c) PROVE TypeOK'
  <2>1. Leaving(c, pending) \in SUBSET (Inbounds \X Whys)
    BY Departures DEF TypeOK
  <2> QED
    BY <1>3, <2>1, HandedOut, Returned DEF LoadSame, TypeOK
<1>4. ASSUME NEW c \in Calls, Save(c) PROVE TypeOK'
  <2>1. pending \in SUBSET Inbounds /\ pending = read[c]
    BY <1>4 DEF Save, TypeOK
  <2>2. Leaving(c, pending) \in SUBSET (Inbounds \X Whys) /\ Out(c, pending) \subseteq pending
    BY <2>1, Departures
  <2>3. New(c) \subseteq Inbounds
    BY Kinds DEF New
  <2> QED
    BY <1>4, <2>1, <2>2, <2>3, HandedOut, Returned, Placed DEF Save, Changed, TypeOK
<1>5. ASSUME NEW c \in Calls, pc[c] = "save", TryAgain(c),
             UNCHANGED <<now, pending, place, job, at, records, seen, lost>>, faults' \in Nat
      PROVE  TypeOK'
  <2>1. CASE tries[c] + 1 < Attempts
    BY <1>5, <2>1, TriedAgain DEF TryAgain, TypeOK
  <2>2. CASE ~(tries[c] + 1 < Attempts)
    BY <1>5, <2>2, GivenUp DEF TryAgain, TypeOK
  <2> QED
    BY <2>1, <2>2
<1>6. Fault => faults' \in Nat
  BY DEF Fault, TypeOK
<1>7. ASSUME NEW c \in Calls, Unavailable(c) PROVE TypeOK'
  BY <1>6, <1>7, GivenUp DEF Unavailable, TypeOK
<1>8. ASSUME NEW c \in Calls, NEW l \in leaving[c], AppendRefused(c, l) PROVE TypeOK'
  <2>1. leaving[c] \ {l} \in SUBSET (Inbounds \X Whys) /\ l[1] \in Inbounds
    BY <1>8 DEF TypeOK
  <2> QED
    BY <1>6, <1>8, <2>1, HandedOut DEF AppendRefused, TypeOK
<1>9. ASSUME NEW c \in Calls, Kill(c) PROVE TypeOK'
  <2>1. /\ pc' \in [Calls -> {"idle"} \cup Busy \cup Ended]
        /\ leaving' \in [Calls -> SUBSET (Inbounds \X Whys)]
        /\ \A d \in Calls : leaving'[d] # {} <=> pc'[d] = "record"
    BY <1>9 DEF Kill, Goto, TypeOK, Ended
  <2>2. {l[1] : l \in leaving[c]} \subseteq Inbounds
    BY DEF TypeOK
  <2> QED
    BY <1>6, <1>9, <2>1, <2>2, Returned DEF Kill, TypeOK
<1>10. ASSUME NEW c \in Calls, NEW l \in leaving[c], Record(c, l) PROVE TypeOK'
  <2>1. leaving[c] \ {l} \in SUBSET (Inbounds \X Whys) /\ l \in Inbounds \X Whys
    BY <1>10 DEF TypeOK
  <2>2. [ask |-> l[1], why |-> l[2], by |-> c] \in [ask : Inbounds, why : Whys, by : Calls]
    BY <2>1
  <2> QED
    BY <1>10, <2>1, <2>2, HandedOut DEF Record, TypeOK
<1>11. CASE UNCHANGED vars
  BY <1>11 DEF vars, TypeOK
<1>12. ASSUME NEW c \in Calls, SaveLost(c) \/ SaveFails(c) PROVE TypeOK'
  BY <1>5, <1>6, <1>12 DEF SaveLost, SaveFails, TypeOK
<1> QED
  BY <1>1, <1>2, <1>3, <1>4, <1>7, <1>8, <1>9, <1>10, <1>11, <1>12 DEF Next, Proceed

\* Every part of the state keeps its type, and a call has asks to record
\* exactly while it records.
THEOREM TypeCorrect == Spec => []TypeOK
BY TypeInit, TypeStep, PTL DEF Spec

----------------------------------------------------------------------------
(* What a step does to the asks: the calls' places and clocks left aside.   *)

Early == {"idle", "load", "save"}

\* Who holds what.
Unhanded == \A a \in Inbounds : pc[a] \in Early =>
                a \notin pending \cup Handed \cup Recorded \cup lost

Apart == /\ pending \cap (Handed \cup Recorded \cup lost) = {}
         /\ Handed \cap (Recorded \cup lost) = {}

HandedOnce == \A c, d \in Calls : \A k \in leaving[c], l \in leaving[d] :
                  k[1] = l[1] => c = d /\ k = l

LedgerInv == TypeOK /\ Unhanded /\ Apart /\ HandedOnce

Quiet == UNCHANGED <<pending, leaving, records, lost>>

HandsOut(c, out) == /\ leaving[c] = {} /\ pc[c] \in Early /\ pc'[c] \notin Early
                    /\ leaving' = [leaving EXCEPT ![c] = out]
                    /\ UNCHANGED <<records, lost>>

Exchanges(c) == /\ pc[c] = "save"
                /\ pending' = Changed(c, pending)
                /\ HandsOut(c, Leaving(c, pending))

Declines(c) == /\ c \in Inbounds
               /\ pending' = pending
               /\ HandsOut(c, {<<c, "state_unavailable">>})

Loses(c, S) == /\ S \subseteq leaving[c]
               /\ leaving' = [leaving EXCEPT ![c] = leaving[c] \ S]
               /\ lost' = lost \cup {l[1] : l \in S}
               /\ UNCHANGED <<pending, records>>

Files(c, l) == /\ l \in leaving[c]
               /\ leaving' = [leaving EXCEPT ![c] = leaving[c] \ {l}]
               /\ records' = records \cup {[ask |-> l[1], why |-> l[2], by |-> c]}
               /\ UNCHANGED <<pending, lost>>

\* A call whose change left the state as it was takes nothing out of it.
LEMMA SameIsQuiet ==
    ASSUME TypeOK, Unhanded, NEW c \in Calls, LoadSame(c)
    PROVE  Leaving(c, pending) = {} /\ leaving[c] = {} /\ New(c) = {}
<1>1. pc[c] = "load" /\ (pending \ Out(c, pending)) \cup New(c) = pending
  BY DEF LoadSame, Changed
<1>2. New(c) = {}
  <2>1. c \in Inbounds => c \notin pending
    BY <1>1 DEF Unhanded, Early
  <2> QED
    BY <1>1, <2>1, Kinds DEF New
<1>3. Out(c, pending) = {}
  BY <1>1, <1>2, Departures DEF TypeOK
<1>4. Leaving(c, pending) = {}
  BY <1>3, Departures DEF TypeOK
<1> QED
  BY <1>1, <1>2, <1>4 DEF TypeOK

LEMMA GivingUp ==
    ASSUME TypeOK, NEW c \in Calls, pc[c] \in {"load", "save"}, GiveUp(c),
           UNCHANGED <<pending, records, lost>>
    PROVE  Quiet \/ Declines(c)
<1>1. leaving[c] = {}
  BY DEF TypeOK
<1>2. CASE job[c].kind = "inbound"
  <2>1. c \in Inbounds /\ HandOut(c, {<<c, "state_unavailable">>})
    BY <1>2, Kinds DEF GiveUp
  <2>2. pc'[c] = "record"
    BY <2>1 DEF HandOut, Goto, TypeOK
  <2> QED
    BY <1>1, <2>1, <2>2 DEF Declines, HandsOut, HandOut, Early
<1>3. CASE job[c].kind # "inbound"
  BY <1>3 DEF GiveUp, Quiet
<1> QED
  BY <1>2, <1>3

LEMMA Effects ==
    ASSUME TypeOK, Unhanded, [Next]_vars
    PROVE  \/ Quiet
           \/ \E c \in Calls : \/ Exchanges(c) \/ Declines(c)
                               \/ \E S \in SUBSET leaving[c] : Loses(c, S)
                               \/ \E l \in leaving[c] : Files(c, l)
<1>1. ASSUME NEW c \in Calls, NEW j, NEW t, Start(c, j, t) PROVE Quiet
  BY <1>1 DEF Start, Quiet
<1>2. ASSUME NEW c \in Calls, Load(c) PROVE Quiet
  BY <1>2 DEF Load, Quiet
<1>3. ASSUME NEW c \in Calls, LoadSame(c) PROVE Quiet
  <2>1. leaving' = [leaving EXCEPT ![c] = {}] /\ leaving[c] = {}
    BY <1>3, SameIsQuiet DEF LoadSame, HandOut
  <2>2. leaving' = leaving
    BY <2>1 DEF TypeOK
  <2> QED
    BY <1>3, <2>2 DEF LoadSame, Quiet
<1>4. ASSUME NEW c \in Calls, Save(c) PROVE Exchanges(c)
  <2>1. HandOut(c, Leaving(c, pending)) /\ pc[c] = "save"
    BY <1>4 DEF Save
  <2>2. pc'[c] \notin Early
    BY <2>1 DEF HandOut, Goto, TypeOK, Early
  <2>3. leaving[c] = {}
    BY <2>1 DEF TypeOK
  <2> QED
    BY <1>4, <2>1, <2>2, <2>3 DEF Save, Exchanges, HandsOut, HandOut, Early
<1>5. ASSUME NEW c \in Calls, pc[c] = "save", TryAgain(c), UNCHANGED <<pending, records, lost>>
      PROVE  Quiet \/ Declines(c)
  BY <1>5, GivingUp DEF TryAgain, Again, Quiet
<1>6. ASSUME NEW c \in Calls, SaveLost(c) \/ SaveFails(c) \/ Unavailable(c)
      PROVE  Quiet \/ Declines(c)
  BY <1>5, <1>6, GivingUp DEF SaveLost, SaveFails, Unavailable
<1>7. ASSUME NEW c \in Calls, NEW l \in leaving[c], AppendRefused(c, l)
      PROVE  Loses(c, {l})
  BY <1>7 DEF AppendRefused, HandOut, Loses
<1>8. ASSUME NEW c \in Calls, Kill(c) PROVE Loses(c, leaving[c])
  BY <1>8 DEF Kill, Loses
<1>9. ASSUME NEW c \in Calls, NEW l \in leaving[c], Record(c, l) PROVE Files(c, l)
  BY <1>9 DEF Record, HandOut, Files
<1>10. CASE UNCHANGED vars
  BY <1>10 DEF vars, Quiet
<1>11. ASSUME NEW c \in Calls, Proceed(c)
       PROVE  Quiet \/ Exchanges(c) \/ Declines(c) \/ \E l \in leaving[c] : Files(c, l)
  BY <1>2, <1>3, <1>4, <1>6, <1>9, <1>11 DEF Proceed
<1>12. ASSUME NEW c \in Calls, \/ \E l \in leaving[c] : AppendRefused(c, l)
                               \/ Kill(c)
       PROVE  \E S \in SUBSET leaving[c] : Loses(c, S)
  BY <1>7, <1>8, <1>12
<1> QED
  BY <1>1, <1>6, <1>10, <1>11, <1>12 DEF Next

\* A call that is past its update does not come back to it.
LEMMA Forward ==
    ASSUME TypeOK, [Next]_vars, NEW a \in Calls, pc'[a] \in Early
    PROVE  pc[a] \in Early
<1>1. ASSUME NEW c \in Calls, NEW label, Goto(c, label), pc[c] \in Early PROVE pc[a] \in Early
  BY <1>1 DEF Goto, TypeOK
<1>2. ASSUME NEW c \in Calls, NEW out, HandOut(c, out) PROVE pc[a] \in Early
  BY <1>2 DEF HandOut, Goto, TypeOK, Early
<1>3. ASSUME NEW c \in Calls, Kill(c) PROVE pc[a] \in Early
  BY <1>3 DEF Kill, Goto, TypeOK, Early
<1>4. ASSUME NEW c \in Calls, pc[c] = "save", TryAgain(c) PROVE pc[a] \in Early
  BY <1>1, <1>2, <1>4 DEF TryAgain, Again, GiveUp, Early
<1>5. ASSUME NEW c \in Calls, Unavailable(c) PROVE pc[a] \in Early
  BY <1>1, <1>2, <1>5 DEF Unavailable, GiveUp, Early
<1>6. ASSUME NEW c \in Calls, Proceed(c) \/ SaveFails(c) PROVE pc[a] \in Early
  BY <1>1, <1>2, <1>4, <1>6
  DEF Proceed, Load, LoadSame, Save, SaveLost, SaveFails, Record, Early
<1>7. ASSUME NEW c \in Calls, NEW j, NEW t, Start(c, j, t) PROVE pc[a] \in Early
  BY <1>1, <1>7 DEF Start, Early
<1>8. ASSUME NEW c \in Calls, NEW l, AppendRefused(c, l) PROVE pc[a] \in Early
  BY <1>2, <1>8 DEF AppendRefused
<1>9. CASE UNCHANGED vars
  BY <1>9 DEF vars
<1> QED
  BY <1>3, <1>5, <1>6, <1>7, <1>8, <1>9 DEF Next

----------------------------------------------------------------------------
(* The pending state is a ledger. *)

LEMMA HandedMore ==
    ASSUME TypeOK, NEW c \in Calls, NEW out \in SUBSET (Inbounds \X Whys), HandsOut(c, out)
    PROVE  Handed' = Handed \cup {l[1] : l \in out}
<1>1. leaving'[c] = out /\ \A d \in Calls \ {c} : leaving'[d] = leaving[d]
  BY DEF HandsOut, TypeOK
<1>2. leaving[c] = {}
  BY DEF HandsOut
<1>3. {l[1] : l \in out} \subseteq Inbounds
  OBVIOUS
<1>4. ASSUME NEW a \in Inbounds
      PROVE  a \in Handed' <=> a \in Handed \cup {l[1] : l \in out}
  BY <1>1, <1>2 DEF Handed
<1> QED
  BY <1>3, <1>4 DEF Handed

LEMMA HandedFewer ==
    ASSUME TypeOK, HandedOnce, NEW c \in Calls, NEW S \in SUBSET leaving[c],
           leaving' = [leaving EXCEPT ![c] = leaving[c] \ S]
    PROVE  /\ Handed' = Handed \ {l[1] : l \in S}
           /\ {l[1] : l \in S} \subseteq Handed
           /\ HandedOnce'
<1>1. \A d \in Calls : leaving'[d] = IF d = c THEN leaving[c] \ S ELSE leaving[d]
  BY DEF TypeOK
<1>2. \A d \in Calls : \A l \in leaving[d] : l[1] \in Inbounds
  BY DEF TypeOK
<1>3. {l[1] : l \in S} \subseteq Handed
  BY <1>2 DEF Handed
<1>4. ASSUME NEW a \in Inbounds, a \in Handed', NEW l \in S, l[1] = a
      PROVE  FALSE
  <2>1. PICK d \in Calls : \E k \in leaving'[d] : k[1] = a
    BY <1>4 DEF Handed
  <2>2. PICK k \in leaving'[d] : k[1] = a
    BY <2>1
  <2>3. k \in leaving[d] /\ (d = c => k \notin S)
    BY <1>1, <2>2
  <2>4. d = c /\ k = l
    BY <1>4, <2>2, <2>3 DEF HandedOnce
  <2> QED
    BY <2>3, <2>4
<1>5. ASSUME NEW a \in Handed, \A l \in S : l[1] # a PROVE a \in Handed'
  BY <1>1, <1>5 DEF Handed
<1>6. ASSUME NEW a \in Handed' PROVE a \in Handed /\ a \in Inbounds
  BY <1>1, <1>6 DEF Handed
<1>7. HandedOnce'
  BY <1>1 DEF HandedOnce
<1> QED
  BY <1>3, <1>4, <1>5, <1>6, <1>7

LEMMA LedgerInit == Init => LedgerInv
<1> SUFFICES ASSUME Init PROVE LedgerInv
  OBVIOUS
<1>1. Handed = {} /\ Recorded = {} /\ lost = {}
  BY DEF Init, Handed, Recorded
<1>2. \A a \in Inbounds : pc[a] \in Early => a \notin pending
  BY DEF Init, Early, Calls
<1> QED
  BY <1>1, <1>2, TypeInit DEF Init, LedgerInv, Unhanded, Apart, HandedOnce

\* The ledger's step that a step of the calls is.
LEMMA StepOfLedger ==
    ASSUME LedgerInv, [Next]_vars
    PROVE  [Ledger!Next]_<<pending, Handed, Recorded, lost>> /\ Unhanded' /\ Apart' /\ HandedOnce'
<1> USE DEF LedgerInv
<1>1. \A a \in Inbounds : pc'[a] \in Early => pc[a] \in Early
  BY Forward DEF Calls
<1>2. CASE Quiet
  BY <1>1, <1>2 DEF Quiet, Handed, Recorded, Unhanded, Apart, HandedOnce
<1>3. ASSUME NEW c \in Calls, Exchanges(c)
      PROVE  Ledger!Next /\ Unhanded' /\ Apart' /\ HandedOnce'
  <2> DEFINE out == Out(c, pending)
             gone == Leaving(c, pending)
  <2>1. /\ out \subseteq pending /\ gone \in SUBSET (Inbounds \X Whys)
        /\ {l[1] : l \in gone} = out
        /\ \A k, l \in gone : k[1] = l[1] => k = l
    <3>1. pending \in SUBSET Inbounds
      BY DEF TypeOK
    <3>2. \A l \in gone : l[1] \in out
      BY <3>1, Departures
    <3>3. \A a \in out : \E l \in gone : l[1] = a
      BY <3>1, Departures
    <3>4. /\ out \subseteq pending /\ gone \in SUBSET (Inbounds \X Whys)
          /\ \A k, l \in gone : k[1] = l[1] => k = l
      BY <3>1, Departures
    <3> HIDE DEF out, gone
    <3> QED
      BY <3>2, <3>3, <3>4
  <2>2. /\ pending' = (pending \ out) \cup New(c) /\ HandsOut(c, gone)
        /\ UNCHANGED <<Recorded, lost>>
    BY <1>3 DEF Exchanges, Changed, HandsOut, Recorded
  <2>3. \/ New(c) = {}
        \/ c \in Inbounds /\ New(c) = {c} /\ c \notin pending \cup Handed \cup Recorded \cup lost
    BY <2>2, Kinds DEF New, HandsOut, Unhanded
  <2> HIDE DEF out, gone
  <2>4. Handed' = Handed \cup out
    BY <2>1, <2>2, HandedMore
  <2>5. Ledger!Next
    <3>1. CASE New(c) = {}
      BY <2>1, <2>2, <2>4, <3>1 DEF Ledger!Next, Ledger!Close, Ledger!Exchange
    <3>2. CASE New(c) # {}
      <4>1. c \in Ledger!Fresh /\ Ledger!Exchange({c}, out)
        BY <2>2, <2>3, <2>4, <3>2 DEF Ledger!Fresh, Ledger!Exchange
      <4> QED
        BY <2>1, <4>1 DEF Ledger!Next, Ledger!Hold
    <3> QED
      BY <3>1, <3>2
  <2>6. Apart'
    BY <2>1, <2>2, <2>3, <2>4 DEF Apart
  <2>7. ASSUME NEW a \in Inbounds, pc'[a] \in Early
        PROVE  a \notin pending' \cup Handed' \cup Recorded' \cup lost'
    <3>1. a # c /\ a \notin pending \cup Handed \cup Recorded \cup lost
      BY <1>1, <2>2, <2>7 DEF HandsOut, Unhanded
    <3> QED
      BY <2>1, <2>2, <2>3, <2>4, <3>1
  <2>8. HandedOnce'
    <3>1. leaving'[c] = gone /\ \A d \in Calls \ {c} : leaving'[d] = leaving[d]
      BY <2>2 DEF HandsOut, TypeOK
    <3>2. \A d \in Calls : \A l \in leaving[d] : l[1] \in Handed
      BY DEF Handed, TypeOK
    <3>3. \A l \in gone : l[1] \notin Handed
      BY <2>1 DEF Apart
    <3> QED
      BY <2>1, <3>1, <3>2, <3>3 DEF HandedOnce
  <2> QED
    BY <2>5, <2>6, <2>7, <2>8 DEF Unhanded
<1>4. ASSUME NEW c \in Calls, Declines(c)
      PROVE  Ledger!Next /\ Unhanded' /\ Apart' /\ HandedOnce'
  <2> DEFINE gone == {<<c, "state_unavailable">>}
  <2>1. gone \in SUBSET (Inbounds \X Whys) /\ {l[1] : l \in gone} = {c}
    BY <1>4 DEF Declines, Whys
  <2>2. HandsOut(c, gone) /\ c \in Inbounds /\ UNCHANGED <<pending, Recorded, lost>>
    BY <1>4 DEF Declines, HandsOut, Recorded
  <2>3. c \notin pending \cup Handed \cup Recorded \cup lost
    BY <2>2 DEF HandsOut, Unhanded
  <2>4. \A k, l \in gone : k[1] = c /\ k = l
    OBVIOUS
  <2> HIDE DEF gone
  <2>5. Handed' = Handed \cup {c}
    BY <2>1, <2>2, HandedMore
  <2>6. Ledger!Next
    BY <2>2, <2>3, <2>5 DEF Ledger!Next, Ledger!Decline, Ledger!Fresh
  <2>7. Apart'
    BY <2>2, <2>3, <2>5 DEF Apart
  <2>8. Unhanded'
    <3>1. ASSUME NEW a \in Inbounds, pc'[a] \in Early
          PROVE  a # c /\ a \notin pending \cup Handed \cup Recorded \cup lost
      BY <1>1, <2>2, <3>1 DEF HandsOut, Unhanded
    <3> QED
      BY <2>2, <2>5, <3>1 DEF Unhanded
  <2>9. HandedOnce'
    <3>1. leaving'[c] = gone /\ \A d \in Calls \ {c} : leaving'[d] = leaving[d]
      BY <2>2 DEF HandsOut, TypeOK
    <3>2. \A d \in Calls : \A l \in leaving[d] : l[1] # c
      BY <2>3 DEF Handed, TypeOK
    <3> QED
      BY <2>4, <3>1, <3>2 DEF HandedOnce
  <2> QED
    BY <2>6, <2>7, <2>8, <2>9
<1>5. ASSUME NEW c \in Calls, NEW S \in SUBSET leaving[c], Loses(c, S)
      PROVE  Ledger!Next /\ Unhanded' /\ Apart' /\ HandedOnce'
  <2> DEFINE out == {l[1] : l \in S}
  <2>1. /\ Handed' = Handed \ out /\ out \subseteq Handed /\ HandedOnce'
        /\ lost' = lost \cup out /\ UNCHANGED <<pending, Recorded>>
    BY <1>5, HandedFewer DEF Loses, Recorded
  <2> HIDE DEF out
  <2>2. Ledger!Next
    BY <2>1 DEF Ledger!Next, Ledger!Lose
  <2> QED
    BY <1>1, <2>1, <2>2 DEF Apart, Unhanded
<1>6. ASSUME NEW c \in Calls, NEW l \in leaving[c], Files(c, l)
      PROVE  Ledger!Next /\ Unhanded' /\ Apart' /\ HandedOnce'
  <2>1. {k[1] : k \in {l}} = {l[1]} /\ {l} \in SUBSET leaving[c]
    OBVIOUS
  <2>2. Handed' = Handed \ {l[1]} /\ l[1] \in Handed /\ HandedOnce'
    BY <1>6, <2>1, HandedFewer DEF Files
  <2>3. Recorded' = Recorded \cup {l[1]} /\ UNCHANGED <<pending, lost>>
    <3> DEFINE e == [ask |-> l[1], why |-> l[2], by |-> c]
    <3>1. records' = records \cup {e} /\ e.ask = l[1] /\ UNCHANGED <<pending, lost>>
      BY <1>6 DEF Files
    <3> HIDE DEF e
    <3>2. {r.ask : r \in records \cup {e}} = {r.ask : r \in records} \cup {e.ask}
      OBVIOUS
    <3> QED
      BY <3>1, <3>2 DEF Recorded
  <2>4. Ledger!Next
    BY <2>2, <2>3 DEF Ledger!Next, Ledger!Record
  <2> QED
    BY <1>1, <2>2, <2>3, <2>4 DEF Apart, Unhanded
<1> QED
  BY <1>2, <1>3, <1>4, <1>5, <1>6, Effects

LEMMA LedgerInvStep == LedgerInv /\ [Next]_vars => LedgerInv'
BY TypeStep, StepOfLedger DEF LedgerInv

LEMMA LedgerInvariant == Spec => []LedgerInv
BY LedgerInit, LedgerInvStep, PTL DEF Spec

\* Whatever the calls, their interleaving, the lost races for the state, the
\* errors and the kills: an ask waits, is handed out to one call, and is
\* recorded by it once, or lost with it.
THEOREM ImplementsLedger == Spec => IsLedger
<1>1. Init => Ledger!Init
  <2>1. Init => Handed = {} /\ Recorded = {}
    BY DEF Init, Handed, Recorded
  <2> QED
    BY <2>1, AttemptAssumption DEF Init, Ledger!Init
<1>2. LedgerInv /\ [Next]_vars => [Ledger!Next]_(Ledger!vars)
  BY StepOfLedger DEF Ledger!vars
<1> QED
  BY <1>1, <1>2, LedgerInvariant, PTL DEF Spec, IsLedger, Ledger!Spec

----------------------------------------------------------------------------
(* A session has one ask. *)

\* What a call began with stays.
LEMMA Stays ==
    ASSUME TypeOK, [Next]_vars, NEW a \in Calls, pc[a] # "idle"
    PROVE  job'[a] = job[a] /\ at'[a] = at[a] /\ seen'[a] = seen[a] /\ pc'[a] # "idle"
<1>1. ASSUME NEW c \in Calls, NEW j, NEW t, Start(c, j, t)
      PROVE  c # a /\ job'[a] = job[a] /\ at'[a] = at[a] /\ seen'[a] = seen[a]
  BY <1>1 DEF Start, TypeOK
<1>2. ASSUME NEW c \in Calls,
             \/ Proceed(c) \/ SaveFails(c) \/ Unavailable(c) \/ Kill(c)
             \/ \E l \in leaving[c] : AppendRefused(c, l)
      PROVE  UNCHANGED <<job, at, seen>>
  BY <1>2 DEF Proceed, Load, LoadSame, Save, SaveLost, Record, SaveFails, Unavailable,
              AppendRefused, Kill
<1>3. CASE UNCHANGED vars
  BY <1>3 DEF vars
<1>4. job'[a] = job[a] /\ at'[a] = at[a] /\ seen'[a] = seen[a]
  BY <1>1, <1>2, <1>3 DEF Next
<1>5. pc'[a] # "idle"
  <2>1. ASSUME NEW c \in Calls, NEW label \in Busy \cup Ended, Goto(c, label)
        PROVE  pc'[a] # "idle"
    BY <2>1 DEF Goto, TypeOK, Busy, Ended
  <2>2. ASSUME NEW c \in Calls, NEW out, HandOut(c, out) PROVE pc'[a] # "idle"
    BY <2>1, <2>2 DEF HandOut, Busy, Ended
  <2>3. ASSUME NEW c \in Calls, GiveUp(c) PROVE pc'[a] # "idle"
    BY <2>1, <2>2, <2>3 DEF GiveUp, Ended
  <2>4. ASSUME NEW c \in Calls, TryAgain(c) PROVE pc'[a] # "idle"
    BY <2>1, <2>3, <2>4 DEF TryAgain, Again, Busy
  <2>5. ASSUME NEW c \in Calls,
               \/ Proceed(c) \/ SaveFails(c) \/ Unavailable(c) \/ Kill(c)
               \/ \E l \in leaving[c] : AppendRefused(c, l)
        PROVE  pc'[a] # "idle"
    BY <2>1, <2>2, <2>3, <2>4, <2>5
    DEF Proceed, Load, LoadSame, Save, SaveLost, Record, SaveFails, Unavailable,
        AppendRefused, Kill, Busy, Ended
  <2>6. ASSUME NEW c \in Calls, NEW j, NEW t, Start(c, j, t) PROVE pc'[a] # "idle"
    BY <2>1, <2>6 DEF Start, Busy
  <2> QED
    BY <1>3, <2>5, <2>6 DEF Next
<1> QED
  BY <1>4, <1>5

\* Where a session has one ask, the call takes it.
LEMMA TheOneIsTaken ==
    ASSUME TypeOK, OneAskPerSession, NEW c \in Calls, NEW a \in pending,
           Session(a) = Session(c), job[c].kind \in {"inbound", "reply"}
    PROVE  a \in Out(c, pending)
<1> DEFINE of == Answered(c, pending \ Expired(c, pending))
<1>1. a \in Expired(c, pending) \/ a \in of
  BY DEF Answered
<1>2. \A b \in of : b = a
  BY DEF Answered, OneAskPerSession
<1>3. place[a] <= place[a]
  BY DEF TypeOK
<1>4. a \in of => a \in Taken(c, pending)
  BY <1>2, <1>3 DEF Taken
<1> QED
  BY <1>1, <1>4 DEF Out

LEMMA OneAskStep == LedgerInv /\ OneAskPerSession /\ [Next]_vars => OneAskPerSession'
<1> SUFFICES ASSUME LedgerInv, OneAskPerSession, [Next]_vars PROVE OneAskPerSession'
  OBVIOUS
<1> USE DEF LedgerInv
<1>1. \A a \in pending : Session(a)' = Session(a)
  <2>1. \A a \in pending : a \in Calls /\ pc[a] # "idle"
    BY DEF Unhanded, Early, TypeOK, Calls
  <2> QED
    BY <2>1, Stays DEF Session
<1>2. CASE pending' \subseteq pending
  BY <1>1, <1>2 DEF OneAskPerSession
<1>3. ASSUME NEW c \in Calls, Exchanges(c), c \in Inbounds PROVE OneAskPerSession'
  <2>1. pending' = (pending \ Out(c, pending)) \cup {c} /\ job[c].kind = "inbound"
    BY <1>3, Kinds DEF Exchanges, Changed, New
  <2>2. Session(c)' = Session(c)
    BY <1>3, Stays DEF Exchanges, Session
  <2>3. \A a \in pending \ Out(c, pending) : Session(a) # Session(c)
    BY <2>1, TheOneIsTaken
  <2> QED
    BY <1>1, <2>1, <2>2, <2>3 DEF OneAskPerSession
<1>4. ASSUME NEW c \in Calls, Exchanges(c), c \notin Inbounds
      PROVE  pending' \subseteq pending
  BY <1>4, Kinds DEF Exchanges, Changed, New
<1>5. Quiet \/ (\E c \in Calls : Exchanges(c)) \/ pending' = pending
  BY Effects DEF Declines, Loses, Files
<1> QED
  BY <1>2, <1>3, <1>4, <1>5 DEF Quiet

\* No two asks of a session wait, whatever the calls and their interleaving.
THEOREM OneAskHeld == Spec => []OneAskPerSession
<1>1. Init => OneAskPerSession
  BY AttemptAssumption DEF Init, OneAskPerSession
<1> QED
  BY <1>1, OneAskStep, LedgerInvariant, PTL DEF Spec

----------------------------------------------------------------------------
(* Nothing is left behind. *)

SeenEnded == \A c \in Calls : \A b \in seen[c] : pc[b] \in Ended

\* An ask that could not be held is its own call's to record.
OwnRefusal == \A c \in Calls : \A l \in leaving[c] :
                  l[2] = "state_unavailable" => l[1] = c

BehindInv == LedgerInv /\ OneAskPerSession /\ SeenEnded /\ OwnRefusal /\ NothingLeftBehind

LEMMA EndedStays ==
    ASSUME TypeOK, [Next]_vars, NEW a \in Calls, pc[a] \in Ended PROVE pc'[a] = pc[a]
<1>1. ASSUME NEW c \in Calls, NEW label, Goto(c, label), pc[c] \notin Ended
      PROVE  pc'[a] = pc[a]
  BY <1>1 DEF Goto, TypeOK
<1>2. ASSUME NEW c \in Calls, NEW out, HandOut(c, out), pc[c] \notin Ended
      PROVE  pc'[a] = pc[a]
  BY <1>1, <1>2 DEF HandOut
<1>3. ASSUME NEW c \in Calls, pc[c] \notin Ended, GiveUp(c) PROVE pc'[a] = pc[a]
  BY <1>1, <1>2, <1>3 DEF GiveUp
<1>4. ASSUME NEW c \in Calls, pc[c] \notin Ended, TryAgain(c) PROVE pc'[a] = pc[a]
  BY <1>1, <1>3, <1>4 DEF TryAgain, Again
<1>5. ASSUME NEW c \in Calls,
             \/ Proceed(c) \/ SaveFails(c) \/ Unavailable(c) \/ Kill(c)
             \/ \E l \in leaving[c] : AppendRefused(c, l)
      PROVE  pc[c] \notin Ended
  BY <1>5 DEF Proceed, Load, LoadSame, Save, SaveLost, Record, SaveFails, Unavailable,
              AppendRefused, Kill, Ended, Busy
<1>6. ASSUME NEW c \in Calls,
             \/ Proceed(c) \/ SaveFails(c) \/ Unavailable(c) \/ Kill(c)
             \/ \E l \in leaving[c] : AppendRefused(c, l)
      PROVE  pc'[a] = pc[a]
  BY <1>1, <1>2, <1>3, <1>4, <1>5, <1>6
  DEF Proceed, Load, LoadSame, Save, SaveLost, Record, SaveFails, Unavailable,
      AppendRefused, Kill
<1>7. ASSUME NEW c \in Calls, NEW j, NEW t, Start(c, j, t) PROVE pc'[a] = pc[a]
  BY <1>1, <1>7 DEF Start, Ended
<1> QED
  BY <1>6, <1>7 DEF Next, vars

\* How a call comes to be past its update.
LEMMA ComesPast ==
    ASSUME TypeOK, [Next]_vars, NEW c \in Calls, pc'[c] \in {"record", "done"},
           pc[c] \notin {"record", "done"}
    PROVE  \/ Exchanges(c) \/ LoadSame(c)
           \/ <<c, "state_unavailable">> \in leaving'[c]
<1>1. ASSUME NEW d \in Calls, NEW label, Goto(d, label), label \notin {"record", "done"}
      PROVE  FALSE
  BY <1>1 DEF Goto, TypeOK
<1>2. ASSUME NEW d \in Calls, NEW out, HandOut(d, out) PROVE d = c
  BY <1>2 DEF HandOut, Goto, TypeOK
<1>3. ASSUME NEW d \in Calls, GiveUp(d)
      PROVE  <<c, "state_unavailable">> \in leaving'[c]
  <2>1. d = c /\ HandOut(c, {<<c, "state_unavailable">>})
    BY <1>1, <1>2, <1>3 DEF GiveUp
  <2> QED
    BY <2>1 DEF HandOut, TypeOK
<1>4. ASSUME NEW d \in Calls, TryAgain(d)
      PROVE  <<c, "state_unavailable">> \in leaving'[c]
  BY <1>1, <1>3, <1>4 DEF TryAgain, Again
<1>5. ASSUME NEW d \in Calls, Proceed(d) \/ SaveFails(d) \/ Unavailable(d)
      PROVE  \/ Exchanges(c) \/ LoadSame(c)
             \/ <<c, "state_unavailable">> \in leaving'[c]
  <2>1. CASE Load(d)
    BY <1>1, <2>1 DEF Load
  <2>2. CASE LoadSame(d)
    BY <1>2, <2>2 DEF LoadSame
  <2>3. CASE Save(d)
    <3>1. d = c
      BY <1>2, <2>3 DEF Save
    <3>2. leaving[c] = {}
      BY <2>3, <3>1 DEF Save, TypeOK
    <3> QED
      BY <2>3, <3>1, <3>2 DEF Save, Exchanges, HandsOut, HandOut, Early
  <2>4. CASE SaveLost(d) \/ SaveFails(d) \/ Unavailable(d)
    BY <1>3, <1>4, <2>4 DEF SaveLost, SaveFails, Unavailable
  <2>5. CASE \E l \in leaving[d] : Record(d, l)
    BY <1>2, <2>5 DEF Record
  <2> QED
    BY <1>5, <2>1, <2>2, <2>3, <2>4, <2>5 DEF Proceed
<1>6. ASSUME NEW d \in Calls, NEW l, AppendRefused(d, l) PROVE FALSE
  BY <1>2, <1>6 DEF AppendRefused
<1>7. ASSUME NEW d \in Calls, Kill(d) PROVE FALSE
  BY <1>1, <1>7 DEF Kill
<1>8. ASSUME NEW d \in Calls, NEW j, NEW t, Start(d, j, t) PROVE FALSE
  BY <1>1, <1>8 DEF Start
<1> QED
  BY <1>5, <1>6, <1>7, <1>8 DEF Next, vars

LEMMA SeenEndedStep == TypeOK /\ SeenEnded /\ [Next]_vars => SeenEnded'
<1> SUFFICES ASSUME TypeOK, SeenEnded, [Next]_vars PROVE SeenEnded'
  OBVIOUS
<1>1. \A b \in Calls : pc[b] \in Ended => pc'[b] \in Ended
  BY EndedStays
<1>2. ASSUME NEW c \in Calls, NEW j, NEW t, Start(c, j, t),
             NEW d \in Calls, NEW b \in seen'[d]
      PROVE  b \in Calls /\ pc[b] \in Ended
  BY <1>2 DEF Start, SeenEnded, TypeOK, Calls
<1>3. ASSUME UNCHANGED seen, NEW d \in Calls, NEW b \in seen'[d]
      PROVE  b \in Calls /\ pc[b] \in Ended
  BY <1>3 DEF SeenEnded, TypeOK, Calls
<1>4. ASSUME NEW c \in Calls,
             \/ Proceed(c) \/ SaveFails(c) \/ Unavailable(c) \/ Kill(c)
             \/ \E l \in leaving[c] : AppendRefused(c, l)
      PROVE  UNCHANGED seen
  BY <1>4 DEF Proceed, Load, LoadSame, Save, SaveLost, Record, SaveFails, Unavailable,
              AppendRefused, Kill
<1> QED
  BY <1>1, <1>2, <1>3, <1>4 DEF Next, vars, SeenEnded

LEMMA OwnRefusalStep == LedgerInv /\ OwnRefusal /\ [Next]_vars => OwnRefusal'
<1> SUFFICES ASSUME LedgerInv, OwnRefusal, [Next]_vars PROVE OwnRefusal'
  OBVIOUS
<1> USE DEF LedgerInv
<1>1. ASSUME NEW c \in Calls, NEW out, HandsOut(c, out),
             \A l \in out : l[2] = "state_unavailable" => l[1] = c
      PROVE  OwnRefusal'
  BY <1>1 DEF HandsOut, OwnRefusal, TypeOK
<1>2. ASSUME NEW c \in Calls, Exchanges(c) PROVE OwnRefusal'
  BY <1>1, <1>2, Departures DEF Exchanges, TypeOK
<1>3. ASSUME NEW c \in Calls, Declines(c) PROVE OwnRefusal'
  BY <1>1, <1>3 DEF Declines
<1>4. ASSUME NEW c \in Calls, NEW S, leaving' = [leaving EXCEPT ![c] = leaving[c] \ S]
      PROVE  OwnRefusal'
  BY <1>4 DEF OwnRefusal, TypeOK
<1> QED
  BY <1>2, <1>3, <1>4, Effects DEF Loses, Files, Quiet, OwnRefusal

\* What the update of a call is to close leaves with it.
LEMMA CoveredLeaves ==
    ASSUME TypeOK, OneAskPerSession, NEW c \in Calls
    PROVE  Covered(c) \cap pending \subseteq Out(c, pending)
<1>1. ASSUME NEW a \in pending, at[c] >= at[a] + Ttl PROVE a \in Out(c, pending)
  BY <1>1 DEF Out, Expired
<1> QED
  BY <1>1, TheOneIsTaken DEF Covered

\* A call that was past its update, and is still one that made it, was so
\* before.
LEMMA WasUpdated ==
    ASSUME LedgerInv, OwnRefusal, [Next]_vars, NEW c \in Calls,
           pc[c] \in {"record", "done"}, Updated(c)', c \notin lost'
    PROVE  Updated(c) /\ c \notin lost
<1> USE DEF LedgerInv
<1>1. records \subseteq records' /\ lost \subseteq lost'
  BY Effects DEF Quiet, Exchanges, HandsOut, Declines, Loses, Files
<1>2. ASSUME NEW l \in leaving[c], l[2] = "state_unavailable" PROVE FALSE
  <2>1. l[1] = c
    BY <1>2 DEF OwnRefusal
  <2>2. l \in leaving'[c] => FALSE
    BY <1>2 DEF Updated
  <2>3. ASSUME NEW d \in Calls, NEW out, HandsOut(d, out) PROVE FALSE
    <3>1. d # c
      BY <2>3 DEF HandsOut, Early
    <3> QED
      BY <2>2, <2>3, <3>1 DEF HandsOut, TypeOK
  <2>4. ASSUME NEW d \in Calls, NEW S \in SUBSET leaving[d], Loses(d, S) PROVE FALSE
    <3>1. d = c /\ l \in S
      BY <2>2, <2>4 DEF Loses, TypeOK
    <3> QED
      BY <2>1, <2>4, <3>1 DEF Loses
  <2>5. ASSUME NEW d \in Calls, NEW k \in leaving[d], Files(d, k) PROVE FALSE
    <3>1. d = c /\ l = k
      BY <2>2, <2>5 DEF Files, TypeOK
    <3> DEFINE e == [ask |-> l[1], why |-> l[2], by |-> c]
    <3>2. e \in records' /\ e.ask = c /\ e.why = "state_unavailable"
      BY <1>2, <2>1, <2>5, <3>1 DEF Files
    <3> HIDE DEF e
    <3> QED
      BY <3>2 DEF Updated
  <2>6. Quiet => FALSE
    BY <2>2 DEF Quiet
  <2> QED
    BY <2>3, <2>4, <2>5, <2>6, Effects DEF Exchanges, Declines
<1> QED
  BY <1>1, <1>2 DEF Updated

LEMMA BehindStep == BehindInv /\ [Next]_vars => NothingLeftBehind'
<1> SUFFICES ASSUME BehindInv, [Next]_vars, NEW c \in Calls, Updated(c)', c \notin lost',
                    NEW a \in Covered(c)', a \in pending'
             PROVE  FALSE
  BY DEF NothingLeftBehind
<1> USE DEF BehindInv, LedgerInv
<1>1. /\ pc'[c] \in {"record", "done"}
      /\ <<c, "state_unavailable">> \notin leaving'[c]
  BY DEF Updated
<1>2. pc[c] # "idle"
  BY <1>1, ComesPast DEF Exchanges, LoadSame
<1>3. a \in Covered(c) /\ pc[a] \in Ended
  <2>1. seen'[c] = seen[c] /\ job'[c] = job[c] /\ at'[c] = at[c]
    BY <1>2, Stays
  <2>2. a \in seen[c] /\ a \in Calls
    BY <2>1 DEF Covered, TypeOK, Calls
  <2>3. pc[a] \in Ended /\ pc[a] # "idle"
    BY <2>2 DEF SeenEnded, Ended
  <2>4. job'[a] = job[a] /\ at'[a] = at[a]
    BY <2>2, <2>3, Stays
  <2> QED
    BY <2>1, <2>2, <2>3, <2>4 DEF Covered, Session
<1>4. CASE pc[c] \in {"record", "done"}
  <2>1. a \notin pending
    BY <1>3, <1>4, WasUpdated DEF NothingLeftBehind
  <2>2. ASSUME NEW d \in Calls, Exchanges(d) PROVE FALSE
    <3>1. d # a
      BY <1>3, <2>2 DEF Exchanges, Ended
    <3> QED
      BY <2>1, <2>2, <3>1 DEF Exchanges, Changed, New
  <2> QED
    BY <2>1, <2>2, Effects DEF Quiet, Declines, Loses, Files
<1>5. CASE Exchanges(c)
  <2>1. a # c
    BY <1>3, <1>5 DEF Exchanges, Ended
  <2>2. a \in pending /\ a \notin Out(c, pending)
    BY <1>5, <2>1 DEF Exchanges, Changed, New
  <2> QED
    BY <1>3, <2>2, CoveredLeaves
<1>6. CASE LoadSame(c)
  <2>1. a \in pending
    BY <1>6 DEF LoadSame
  <2>2. Out(c, pending) = {}
    BY <1>6, SameIsQuiet, Departures DEF TypeOK
  <2> QED
    BY <1>3, <2>1, <2>2, CoveredLeaves
<1> QED
  BY <1>1, <1>4, <1>5, <1>6, ComesPast

LEMMA BehindInvariant == Spec => []BehindInv
<1>1. Init => BehindInv
  <2> SUFFICES ASSUME Init PROVE BehindInv
    OBVIOUS
  <2>1. OneAskPerSession /\ SeenEnded /\ OwnRefusal
    BY AttemptAssumption DEF Init, OneAskPerSession, SeenEnded, OwnRefusal
  <2>2. \A c \in Calls : Covered(c) = {}
    BY DEF Init, Covered
  <2> QED
    BY <2>1, <2>2, LedgerInit DEF BehindInv, NothingLeftBehind
<1>2. BehindInv /\ [Next]_vars => BehindInv'
  BY LedgerInvStep, OneAskStep, SeenEndedStep, OwnRefusalStep, BehindStep
  DEF BehindInv, LedgerInv
<1> QED
  BY <1>1, <1>2, PTL DEF Spec

\* An ask that had arrived before a call updated the state, and was for it to
\* close, does not wait on.
THEOREM NothingIsLeftBehind == Spec => []NothingLeftBehind
BY BehindInvariant, PTL DEF BehindInv

----------------------------------------------------------------------------
(* A reply answers the latest ask. *)

\* No ask later than a, among those the call c found ended, was held.
LatestFirst(a, c) ==
    \A b \in seen[c] :
        pc[b] = "done" /\ Session(b) = Session(c) /\ a \in seen[b] =>
            ~Updated(b) \/ b \in lost

RepliesInv ==
    /\ \A c \in Calls : \A l \in leaving[c] : l[2] = "replied" => LatestFirst(l[1], c)
    /\ \A r \in records : pc[r.by] # "idle"
                          /\ (r.why = "replied" => LatestFirst(r.ask, r.by))

LatestInv == BehindInv /\ RepliesInv

\* What is the latest stays the latest: the calls that ended do not change.
LEMMA LatestStays ==
    ASSUME LedgerInv, SeenEnded, [Next]_vars, NEW c \in Calls, pc[c] # "idle",
           NEW a \in Inbounds, LatestFirst(a, c)
    PROVE  LatestFirst(a, c)'
<1> USE DEF LedgerInv
<1>1. SUFFICES ASSUME NEW b \in seen'[c], pc'[b] = "done", Session(b)' = Session(c)',
                      a \in seen'[b]
               PROVE  ~Updated(b)' \/ b \in lost'
  BY DEF LatestFirst
<1>2. seen'[c] = seen[c] /\ job'[c] = job[c]
  BY Stays
<1>3. b \in seen[c] /\ b \in Calls
  BY <1>1, <1>2 DEF TypeOK, Calls
<1>4. pc[b] \in Ended /\ pc[b] # "idle"
  BY <1>3 DEF SeenEnded, Ended
<1>5. pc[b] = "done" /\ job'[b] = job[b] /\ seen'[b] = seen[b]
  BY <1>1, <1>3, <1>4, EndedStays, Stays
<1>6. ~Updated(b) \/ b \in lost
  BY <1>1, <1>2, <1>3, <1>5 DEF LatestFirst, Session
<1>7. records \subseteq records' /\ lost \subseteq lost'
  BY Effects DEF Quiet, Exchanges, HandsOut, Declines, Loses, Files
<1>8. leaving[b] = {}
  BY <1>3, <1>5 DEF TypeOK
<1> QED
  BY <1>5, <1>6, <1>7, <1>8 DEF Updated

\* A reply takes an ask that no call which ended before it was to close.
LEMMA ReplyTakesLatest ==
    ASSUME BehindInv, NEW c \in Calls, NEW l \in Leaving(c, pending), l[2] = "replied"
    PROVE  LatestFirst(l[1], c)
<1> USE DEF BehindInv, LedgerInv
<1>1. l[1] \in Taken(c, pending)
  BY DEF Leaving
<1>2. l[1] \in pending /\ Session(l[1]) = Session(c)
  BY <1>1 DEF Taken, Answered
<1>3. ASSUME NEW b \in seen[c], Session(b) = Session(c), l[1] \in seen[b], Updated(b),
             b \notin lost
      PROVE  FALSE
  <2>1. b \in Calls /\ job[b].kind = "inbound"
    BY Kinds DEF TypeOK, Calls
  <2>2. l[1] \in Covered(b)
    BY <1>2, <1>3, <2>1 DEF Covered
  <2> QED
    BY <1>2, <1>3, <2>1, <2>2 DEF NothingLeftBehind
<1> QED
  BY <1>3 DEF LatestFirst

LEMMA RepliesStep == LatestInv /\ [Next]_vars => RepliesInv'
<1> SUFFICES ASSUME LatestInv, [Next]_vars PROVE RepliesInv'
  OBVIOUS
<1> USE DEF LatestInv, BehindInv, LedgerInv
<1>1. ASSUME NEW c \in Calls, NEW l \in leaving[c], l[2] = "replied"
      PROVE  LatestFirst(l[1], c)'
  <2>1. pc[c] # "idle" /\ l[1] \in Inbounds
    BY DEF TypeOK
  <2> QED
    BY <1>1, <2>1, LatestStays DEF RepliesInv
<1>2. ASSUME NEW r \in records
      PROVE  pc'[r.by] # "idle" /\ (r.why = "replied" => LatestFirst(r.ask, r.by)')
  <2>1. r.by \in Calls /\ r.ask \in Inbounds /\ pc[r.by] # "idle"
    BY DEF TypeOK, RepliesInv
  <2> QED
    BY <2>1, LatestStays, Stays DEF RepliesInv
<1>3. ASSUME NEW c \in Calls, NEW out, HandsOut(c, out),
             \A l \in out : l[2] = "replied" => LatestFirst(l[1], c)'
      PROVE  RepliesInv'
  BY <1>1, <1>2, <1>3 DEF HandsOut, RepliesInv, TypeOK
<1>4. ASSUME NEW c \in Calls, Exchanges(c) PROVE RepliesInv'
  <2>1. ASSUME NEW l \in Leaving(c, pending), l[2] = "replied"
        PROVE  LatestFirst(l[1], c)'
    <3>1. LatestFirst(l[1], c) /\ l[1] \in Inbounds
      BY <2>1, ReplyTakesLatest, Departures DEF TypeOK
    <3> QED
      BY <1>4, <3>1, LatestStays DEF Exchanges
  <2> QED
    BY <1>3, <1>4, <2>1 DEF Exchanges
<1>5. ASSUME NEW c \in Calls, Declines(c) PROVE RepliesInv'
  BY <1>3, <1>5 DEF Declines
<1>6. ASSUME NEW c \in Calls, NEW S, leaving' = [leaving EXCEPT ![c] = leaving[c] \ S],
             UNCHANGED records
      PROVE  RepliesInv'
  BY <1>1, <1>2, <1>6 DEF RepliesInv, TypeOK
<1>7. ASSUME NEW c \in Calls, NEW l \in leaving[c], Files(c, l) PROVE RepliesInv'
  <2> DEFINE e == [ask |-> l[1], why |-> l[2], by |-> c]
  <2>1. /\ leaving' = [leaving EXCEPT ![c] = leaving[c] \ {l}]
        /\ records' = records \cup {e}
        /\ e.ask = l[1] /\ e.why = l[2] /\ e.by = c
    BY <1>7 DEF Files
  <2> HIDE DEF e
  <2>2. pc'[c] # "idle"
    BY Stays DEF TypeOK
  <2>3. \A d \in Calls : leaving'[d] \subseteq leaving[d]
    BY <2>1 DEF TypeOK
  <2>4. e.why = "replied" => LatestFirst(e.ask, e.by)'
    BY <1>1, <2>1
  <2> QED
    BY <1>1, <1>2, <2>1, <2>2, <2>3, <2>4 DEF RepliesInv
<1>8. CASE Quiet
  BY <1>1, <1>2, <1>8 DEF Quiet, RepliesInv
<1> QED
  BY <1>4, <1>5, <1>6, <1>7, <1>8, Effects DEF Loses

\* A reply is never recorded with an ask when a later one of its session, which
\* had arrived before the reply, was held.
THEOREM LatestIsAnswered == Spec => []ReplyAnswersLatest
<1>1. Init => RepliesInv
  BY DEF Init, RepliesInv
<1>2. RepliesInv => ReplyAnswersLatest
  BY DEF RepliesInv, LatestFirst, ReplyAnswersLatest
<1>3. BehindInv /\ RepliesInv /\ [Next]_vars => RepliesInv'
  BY RepliesStep DEF LatestInv
<1> QED
  BY <1>1, <1>2, <1>3, BehindInvariant, PTL DEF Spec

----------------------------------------------------------------------------
(* The pending state is bounded. *)

\* Some ask of a set was put in the state before the others.
LEMMA FirstPlaced ==
    ASSUME TypeOK, NEW S \in SUBSET Inbounds, S # {}
    PROVE  \E a \in S : \A b \in S : place[a] <= place[b]
<1> DEFINE Less == OpToRel(<, Nat)
           P == {place[a] : a \in S}
<1>1. IsWellFoundedOn(Less, Nat)
  BY NatLessThanWellFounded
<1>2. \A m, n \in Nat : m < n => <<m, n>> \in Less
  BY DEF OpToRel
<1> HIDE DEF Less
<1>3. P \subseteq Nat /\ P # {}
  BY DEF TypeOK
<1>4. PICK m \in P : \A n \in P : <<n, m>> \notin Less
  <2> HIDE DEF P
  <2> QED
    BY <1>1, <1>3, WFMin
<1>5. \A n \in P : m <= n
  <2> HIDE DEF P
  <2>1. m \in Nat
    BY <1>3
  <2>2. ASSUME NEW n \in P PROVE m <= n
    <3>1. n \in Nat /\ ~(n < m)
      BY <1>2, <1>3, <1>4, <2>1
    <3> QED
      BY <2>1, <3>1
  <2> QED
    BY <2>2
<1> QED
  BY <1>4, <1>5

\* What a new ask leaves in the state has room for it.
LEMMA RoomIsLeft ==
    ASSUME TypeOK, NEW c \in Calls, job[c].kind = "inbound"
    PROVE  LET left == pending \ Out(c, pending)
           IN  IsFiniteSet(left) /\ Cardinality(left) < MaxPending
<1> DEFINE K == Kept(c, pending)
           left == pending \ Out(c, pending)
           Since(a) == {b \in K : place[b] >= place[a]}
<1>1. K \subseteq Inbounds /\ left \subseteq K
  BY DEF TypeOK, Kept, Out
<1>2. \A a \in left : ~(Cardinality(Since(a)) >= MaxPending)
  BY <1>1 DEF Out, PushedOut
<1>3. IsFiniteSet(left)
  BY <1>1, AttemptAssumption, FS_Subset
<1>4. ASSUME left = {} PROVE Cardinality(left) < MaxPending
  <2>1. Cardinality({}) = 0 /\ 0 < MaxPending
    BY FS_EmptySet, AttemptAssumption
  <2> HIDE DEF left
  <2> QED
    BY <1>4, <2>1
<1>5. ASSUME left # {} PROVE Cardinality(left) < MaxPending
  <2> HIDE DEF K, left
  <2>1. PICK a \in left : \A b \in left : place[a] <= place[b]
    BY <1>1, <1>5, FirstPlaced
  <2>2. left \subseteq Since(a)
    BY <1>1, <2>1 DEF TypeOK
  <2>3. IsFiniteSet(Since(a))
    BY <1>1, AttemptAssumption, FS_Subset
  <2> HIDE DEF Since
  <2>4. Cardinality(left) <= Cardinality(Since(a))
    BY <2>2, <2>3, FS_Subset
  <2> QED
    BY <1>2, <1>3, <2>1, <2>3, <2>4, FS_CardinalityType, AttemptAssumption
<1> QED
  BY <1>3, <1>4, <1>5

LEMMA BoundStep == LedgerInv /\ PendingIsBounded /\ [Next]_vars => PendingIsBounded'
<1> SUFFICES ASSUME LedgerInv, PendingIsBounded, [Next]_vars PROVE PendingIsBounded'
  OBVIOUS
<1> USE DEF LedgerInv
<1>1. IsFiniteSet(pending)
  BY AttemptAssumption, FS_Subset DEF TypeOK
<1>2. ASSUME NEW S \in SUBSET pending PROVE Cardinality(S) <= MaxPending
  <2>1. IsFiniteSet(S) /\ Cardinality(S) <= Cardinality(pending)
    BY <1>1, FS_Subset
  <2> QED
    BY <1>1, <2>1, FS_CardinalityType, AttemptAssumption DEF PendingIsBounded
<1>3. ASSUME NEW c \in Calls, Exchanges(c) PROVE PendingIsBounded'
  <2> DEFINE left == pending \ Out(c, pending)
  <2>1. pending' = left \cup New(c)
    BY <1>3 DEF Exchanges, Changed
  <2>2. CASE New(c) = {}
    BY <1>2, <2>1, <2>2 DEF PendingIsBounded
  <2>3. CASE New(c) # {}
    <3>1. New(c) = {c} /\ job[c].kind = "inbound"
      BY <2>3 DEF New
    <3>2. IsFiniteSet(left) /\ Cardinality(left) < MaxPending
      BY <3>1, RoomIsLeft
    <3> HIDE DEF left
    <3>3. Cardinality(left) + 1 <= MaxPending /\ Cardinality(left) <= MaxPending
      BY <3>2, FS_CardinalityType, AttemptAssumption
    <3>4. Cardinality(left \cup {c}) <= MaxPending
      BY <3>2, <3>3, FS_AddElement
    <3> QED
      BY <2>1, <3>1, <3>4 DEF PendingIsBounded
  <2> QED
    BY <2>2, <2>3
<1>4. Quiet \/ (\E c \in Calls : Exchanges(c)) \/ pending' = pending
  BY Effects DEF Declines, Loses, Files
<1> QED
  BY <1>3, <1>4 DEF Quiet, PendingIsBounded

\* The state never holds more asks than its bound, however many sessions ask.
THEOREM PendingStaysBounded == Spec => []PendingIsBounded
<1>1. Init => PendingIsBounded
  <2> SUFFICES ASSUME Init PROVE Cardinality(Earlier) <= MaxPending
    BY DEF Init, PendingIsBounded
  <2>1. Cardinality({}) = 0 /\ \A x : Cardinality({x}) = 1
    BY FS_EmptySet, FS_Singleton
  <2>2. Earlier = {} \/ \E x : Earlier = {x}
    BY AttemptAssumption
  <2>3. 0 <= MaxPending /\ 1 <= MaxPending
    BY AttemptAssumption
  <2> QED
    BY <2>1, <2>2, <2>3
<1> QED
  BY <1>1, BoundStep, LedgerInvariant, PTL DEF Spec
=============================================================================
