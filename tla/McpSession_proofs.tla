-------------------------- MODULE McpSession_proofs --------------------------
(***************************************************************************)
(* Theorems about McpSession: what the relay loop keeps while it runs, and *)
(* what McpShutdown_proofs shows of the stop of a server, for the whole    *)
(* session, whatever the sizes of the pipes and the number of helpers.     *)
(***************************************************************************)
EXTENDS McpSession, McpShutdown_proofs, FiniteSetTheorems, SequenceTheorems

\* The lines that end in a pipe: its chunks that are no head.
LineEnds(s) == {i \in 1 .. Len(s) : s[i] # "head"}
LinesIn(s) == Cardinality(LineEnds(s))

\* Whole lines, the first of which may have lost its head.
Whole(s) ==
    /\ \A i \in 1 .. Len(s) - 1 : s[i] = "head" <=> s[i + 1] = "tail"
    /\ s # <<>> => s[Len(s)] # "head"

\* What the client reads, and the proxy is about to write it.
Out == pipe["out"] \o todo.out

-----------------------------------------------------------------------------
(* Sequences of chunks. *)

LEMMA LineEndsFinite ==
    ASSUME NEW s \in Seq(Relay!Chunks)
    PROVE  IsFiniteSet(LineEnds(s)) /\ LinesIn(s) \in Nat
<1>1. IsFiniteSet(1 .. Len(s)) /\ LineEnds(s) \in SUBSET (1 .. Len(s))
  BY FS_Interval DEF LineEnds
<1> QED
  BY <1>1, FS_Subset, FS_CardinalityType DEF LinesIn

LEMMA LinesInNone == LinesIn(<<>>) = 0
<1>1. LineEnds(<<>>) = {}
  BY DEF LineEnds
<1> QED
  BY <1>1, FS_EmptySet DEF LinesIn

LEMMA LinesInAppend ==
    ASSUME NEW s \in Seq(Relay!Chunks), NEW c \in Relay!Chunks
    PROVE  LinesIn(Append(s, c)) = IF c = "head" THEN LinesIn(s) ELSE LinesIn(s) + 1
<1> DEFINE t == Append(s, c)
<1>1. /\ Len(t) = Len(s) + 1 /\ Len(s) \in Nat
      /\ \A i \in 1 .. Len(s) : t[i] = s[i]
      /\ t[Len(s) + 1] = c
  OBVIOUS
<1> HIDE DEF t
<1>2. LineEnds(t) = IF c = "head" THEN LineEnds(s) ELSE LineEnds(s) \cup {Len(s) + 1}
  BY <1>1 DEF LineEnds
<1>3. Len(s) + 1 \notin LineEnds(s)
  BY <1>1 DEF LineEnds
<1>4. LinesIn(t) = IF c = "head" THEN LinesIn(s) ELSE LinesIn(s) + 1
  BY <1>2, <1>3, LineEndsFinite, FS_AddElement DEF LinesIn
<1> QED
  BY <1>4 DEF t

LEMMA LinesInTail ==
    ASSUME NEW s \in Seq(Relay!Chunks), s # <<>>
    PROVE  LinesIn(s) = IF Head(s) = "head" THEN LinesIn(Tail(s))
                        ELSE LinesIn(Tail(s)) + 1
<1> DEFINE t == Tail(s)
           S == LineEnds(s) \ {1}
           f == [i \in LineEnds(t) |-> i + 1]
<1>1. /\ t \in Seq(Relay!Chunks) /\ Len(s) \in Nat /\ Len(s) >= 1
      /\ Len(t) = Len(s) - 1
      /\ \A i \in 1 .. Len(t) : t[i] = s[i + 1]
      /\ Head(s) = s[1]
  BY EmptySeq, HeadTailProperties
<1> HIDE DEF t
<1>2. f \in [LineEnds(t) -> S]
  BY <1>1 DEF LineEnds
<1>3. \A i, j \in LineEnds(t) : f[i] = f[j] => i = j
  BY <1>1 DEF LineEnds
<1>4. \A k \in S : k - 1 \in LineEnds(t) /\ f[k - 1] = k
  <2> TAKE k \in S
  <2>1. k \in 1 .. Len(s) /\ k # 1 /\ s[k] # "head"
    BY DEF LineEnds
  <2>2. k - 1 \in 1 .. Len(t) /\ t[k - 1] = s[k]
    BY <1>1, <2>1
  <2> QED
    BY <2>1, <2>2 DEF LineEnds
<1>5. ExistsBijection(LineEnds(t), S)
  <2>1. \A k \in S : \E i \in LineEnds(t) : f[i] = k
    BY <1>4
  <2> QED
    BY <1>2, <1>3, <2>1
    DEF ExistsBijection, Bijection, Injection, Surjection, IsInjective
<1>6. Cardinality(S) = LinesIn(t)
  BY <1>1, <1>5, LineEndsFinite, FS_Bijection DEF LinesIn
<1>7. IsFiniteSet(LineEnds(s)) /\ (1 \in LineEnds(s) <=> Head(s) # "head")
  <2>1. IsFiniteSet(LineEnds(s))
    BY LineEndsFinite
  <2>2. 1 \in LineEnds(s) <=> Head(s) # "head"
    BY <1>1 DEF LineEnds
  <2> QED
    BY <2>1, <2>2
<1>8. Cardinality(S) = IF 1 \in LineEnds(s) THEN LinesIn(s) - 1 ELSE LinesIn(s)
  BY <1>7, FS_RemoveElement DEF LinesIn
<1>9. LinesIn(s) \in Nat /\ LinesIn(t) \in Nat
  BY <1>1, LineEndsFinite
<1> QED
  BY <1>6, <1>7, <1>8, <1>9 DEF t

LEMMA WholeLineAdded ==
    ASSUME NEW s \in Seq(Relay!Chunks), Whole(s), NEW line \in {Relay!Short, Relay!Long}
    PROVE  Whole(s \o line)
<1>1. /\ line \in Seq(Relay!Chunks)
      /\ \/ Len(line) = 1 /\ line[1] = "whole"
         \/ Len(line) = 2 /\ line[1] = "head" /\ line[2] = "tail"
  <2>1. CASE line = Relay!Short
    BY <2>1 DEF Relay!Short, Relay!Chunks
  <2>2. CASE line = Relay!Long
    BY <2>2 DEF Relay!Long, Relay!Chunks
  <2> QED
    BY <2>1, <2>2
<1> DEFINE t == s \o line
<1>2. /\ Len(t) = Len(s) + Len(line) /\ Len(s) \in Nat
      /\ \A i \in 1 .. Len(s) : t[i] = s[i]
      /\ \A i \in 1 .. Len(line) : t[Len(s) + i] = line[i]
  <2>1. /\ Len(t) = Len(s) + Len(line) /\ Len(s) \in Nat
        /\ \A i \in 1 .. Len(t) : t[i] = IF i <= Len(s) THEN s[i] ELSE line[i - Len(s)]
    BY <1>1, ConcatProperties, LenProperties
  <2> HIDE DEF t
  <2> QED
    BY <1>1, <2>1
<1>3. s # <<>> <=> Len(s) > 0
  OBVIOUS
<1> HIDE DEF t
<1>4. ASSUME NEW i \in 1 .. Len(t) - 1
      PROVE  t[i] = "head" <=> t[i + 1] = "tail"
  <2>1. CASE i < Len(s)
    <3>1. i \in 1 .. Len(s) - 1 /\ i \in 1 .. Len(s) /\ i + 1 \in 1 .. Len(s)
      BY <1>1, <1>2, <2>1
    <3> QED
      BY <1>2, <3>1 DEF Whole
  <2>2. CASE i = Len(s)
    <3>1. t[i] = s[Len(s)] /\ s[Len(s)] # "head" /\ t[i + 1] = line[1]
      BY <1>1, <1>2, <1>3, <2>2 DEF Whole
    <3> QED
      BY <1>1, <3>1
  <2>3. CASE i > Len(s)
    <3>1. i = Len(s) + 1 /\ Len(line) = 2
      BY <1>1, <1>2, <2>3
    <3>2. t[i] = line[1] /\ t[i + 1] = line[2]
      BY <1>2, <3>1
    <3> QED
      BY <1>1, <3>1, <3>2
  <2> QED
    BY <1>2, <2>1, <2>2, <2>3
<1>5. t[Len(t)] # "head"
  BY <1>1, <1>2
<1> QED
  BY <1>4, <1>5 DEF Whole, t

LEMMA WholeTail ==
    ASSUME NEW s \in Seq(Relay!Chunks), s # <<>>, Whole(s)
    PROVE  Whole(Tail(s))
<1> DEFINE t == Tail(s)
<1>1. /\ Len(s) \in Nat /\ Len(t) = Len(s) - 1
      /\ \A i \in 1 .. Len(t) : t[i] = s[i + 1]
      /\ t # <<>> => Len(t) > 0
  BY HeadTailProperties, EmptySeq
<1> HIDE DEF t
<1>2. ASSUME NEW i \in 1 .. Len(t) - 1
      PROVE  t[i] = "head" <=> t[i + 1] = "tail"
  BY <1>1 DEF Whole
<1>3. t # <<>> => t[Len(t)] # "head"
  BY <1>1 DEF Whole
<1> QED
  BY <1>2, <1>3 DEF Whole, t

\* A chunk that is moved from what is to write to the pipe stays where it is.
LEMMA MovedStays ==
    ASSUME NEW s \in Seq(Relay!Chunks), NEW t \in Seq(Relay!Chunks), t # <<>>
    PROVE  Append(s, Head(t)) \o Tail(t) = s \o t
<1>1. Head(t) \in Relay!Chunks /\ Tail(t) \in Seq(Relay!Chunks) /\ Len(t) >= 1
  OBVIOUS
<1>2. /\ Append(s, Head(t)) \o Tail(t) \in Seq(Relay!Chunks)
      /\ s \o t \in Seq(Relay!Chunks)
      /\ Len(Append(s, Head(t)) \o Tail(t)) = Len(s \o t)
  BY <1>1
<1>3. \A i \in 1 .. Len(s \o t) : (Append(s, Head(t)) \o Tail(t))[i] = (s \o t)[i]
  BY <1>1
<1> QED
  BY <1>2, <1>3, SeqEqual

\* So does what follows the chunk the client reads.
LEMMA ReadLeavesTheRest ==
    ASSUME NEW s \in Seq(Relay!Chunks), NEW t \in Seq(Relay!Chunks), s # <<>>
    PROVE  Tail(s) \o t = Tail(s \o t) /\ s \o t # <<>>
<1>1. /\ Tail(s) \in Seq(Relay!Chunks) /\ s \o t \in Seq(Relay!Chunks)
      /\ Len(s) >= 1 /\ Len(s \o t) = Len(s) + Len(t) /\ Len(t) \in Nat
  OBVIOUS
<1>2. s \o t # <<>>
  BY <1>1
<1>3. /\ Tail(s) \o t \in Seq(Relay!Chunks) /\ Tail(s \o t) \in Seq(Relay!Chunks)
      /\ Len(Tail(s) \o t) = Len(Tail(s \o t))
  BY <1>1, <1>2
<1>4. \A i \in 1 .. Len(Tail(s) \o t) : (Tail(s) \o t)[i] = Tail(s \o t)[i]
  BY <1>1, <1>2
<1> QED
  BY <1>2, <1>3, <1>4, SeqEqual
-----------------------------------------------------------------------------
(* The relay loop. *)

\* Every line the server wrote is relayed, or is still in its output; the loop
\* ends on the server's account when that is empty.
NoneLost ==
    /\ written \in Nat /\ relayed \in Nat
    /\ written = relayed + LinesIn(pipe["stdout"])
    /\ loopEnded = "ServerClosed" => relayed = written

RelayInv == Relay!TypeOK /\ Whole(Out) /\ NoneLost

\* A branch of the select! that reads a line or a part of it drops a chunk.
LEMMA DrainedTypes ==
    ASSUME Relay!TypeOK, NEW p \in Relay!Pipes, pipe[p] # <<>>, pipe' = Relay!Drained(p)
    PROVE  /\ pipe' \in [Relay!Pipes -> Seq(Relay!Chunks)]
           /\ \A q \in Relay!Pipes : Len(pipe'[q]) <= Cap
           /\ Head(pipe[p]) \in Relay!Chunks
           /\ pipe'[p] = Tail(pipe[p])
           /\ \A q \in Relay!Pipes \ {p} : pipe'[q] = pipe[q]
<1>1. /\ pipe \in [Relay!Pipes -> Seq(Relay!Chunks)]
      /\ \A q \in Relay!Pipes : Len(pipe[q]) <= Cap
      /\ Cap \in Nat
  BY SessionAssumption DEF Relay!RelayAssumption, Relay!TypeOK
<1>2. /\ Tail(pipe[p]) \in Seq(Relay!Chunks) /\ Head(pipe[p]) \in Relay!Chunks
      /\ Len(Tail(pipe[p])) <= Cap
  BY <1>1
<1> QED
  BY <1>1, <1>2 DEF Relay!Drained

\* A write adds one where there is room.
LEMMA MovedTypes ==
    ASSUME Relay!TypeOK, NEW p \in Relay!Pipes, NEW c \in Relay!Chunks, Relay!Room(p),
           pipe' = Relay!Moved(c, p)
    PROVE  /\ pipe' \in [Relay!Pipes -> Seq(Relay!Chunks)]
           /\ \A q \in Relay!Pipes : Len(pipe'[q]) <= Cap
           /\ pipe'[p] = Append(pipe[p], c)
           /\ \A q \in Relay!Pipes \ {p} : pipe'[q] = pipe[q]
<1>1. /\ pipe \in [Relay!Pipes -> Seq(Relay!Chunks)]
      /\ \A q \in Relay!Pipes : Len(pipe[q]) <= Cap
      /\ Cap \in Nat
  BY SessionAssumption DEF Relay!RelayAssumption, Relay!TypeOK
<1>2. /\ Append(pipe[p], c) \in Seq(Relay!Chunks)
      /\ Len(Append(pipe[p], c)) <= Cap
  BY <1>1 DEF Relay!Room
<1> QED
  BY <1>1, <1>2 DEF Relay!Moved

LEMMA LinesAreChunks ==
    /\ <<>> \in Seq(Relay!Chunks)
    /\ Relay!Short \in Seq(Relay!Chunks) /\ Relay!Long \in Seq(Relay!Chunks)
    /\ "whole" \in Relay!Chunks /\ "head" \in Relay!Chunks /\ "tail" \in Relay!Chunks
BY DEF Relay!Short, Relay!Long, Relay!Chunks

\* The branches of the select! that take something from an input.
LEMMA BranchKeeps ==
    ASSUME RelayInv,
           \/ \E p \in Relay!Inputs : Relay!ReadPart(p)
           \/ \E v \in Relay!Verdicts : Relay!ClientLine(v)
           \/ Relay!ServerLine
    PROVE  RelayInv'
<1>1. Relay!TypeOK /\ Whole(Out) /\ NoneLost
  BY DEF RelayInv
<1>2. /\ todo \in [stdin : Seq(Relay!Chunks), out : Seq(Relay!Chunks)]
      /\ pipe \in [Relay!Pipes -> Seq(Relay!Chunks)]
      /\ partial \in [Relay!Inputs -> BOOLEAN]
      /\ "out" \in Relay!Pipes /\ "stdout" \in Relay!Pipes /\ "in" \in Relay!Pipes
      /\ Relay!Inputs \subseteq Relay!Pipes /\ "out" \notin Relay!Inputs
  BY <1>1 DEF Relay!TypeOK, Relay!Pipes, Relay!Inputs
<1>3. LinesIn(pipe["stdout"]) \in Nat
  BY <1>2, LineEndsFinite
<1>4. ASSUME NEW p \in Relay!Inputs, Relay!ReadPart(p)
      PROVE  RelayInv'
  <2>1. /\ pipe[p] # <<>> /\ Head(pipe[p]) = "head" /\ pipe' = Relay!Drained(p)
        /\ partial' = [partial EXCEPT ![p] = TRUE]
        /\ UNCHANGED <<todo, loopEnded, client, server, written, relayed>>
    BY <1>4 DEF Relay!ReadPart, Relay!peers
  <2>2. Relay!TypeOK'
    BY <1>1, <1>2, <2>1, DrainedTypes DEF Relay!TypeOK
  <2>3. Out' = Out
    BY <1>1, <1>2, <2>1, DrainedTypes DEF Out
  <2>4. LinesIn(pipe'["stdout"]) = LinesIn(pipe["stdout"])
    BY <1>1, <1>2, <2>1, DrainedTypes, LinesInTail
  <2> QED
    BY <1>1, <2>1, <2>2, <2>3, <2>4 DEF RelayInv, NoneLost
<1>5. ASSUME NEW v \in Relay!Verdicts, Relay!ClientLine(v)
      PROVE  RelayInv'
  <2>1. /\ pipe["in"] # <<>> /\ pipe' = Relay!Drained("in")
        /\ partial' = Relay!NoneHeld
        /\ todo.out = <<>>
        /\ todo'.out \in {<<>>, Relay!Short}
        /\ todo' \in [stdin : Seq(Relay!Chunks), out : Seq(Relay!Chunks)]
        /\ UNCHANGED <<loopEnded, client, server, written, relayed>>
    BY <1>5, LinesAreChunks
    DEF Relay!ClientLine, Relay!ReadLine, Relay!InSelect, Relay!LineRead, Relay!peers
  <2>2. Relay!TypeOK'
    BY <1>1, <1>2, <2>1, DrainedTypes DEF Relay!TypeOK, Relay!NoneHeld
  <2>3. pipe'["out"] = pipe["out"] /\ pipe'["stdout"] = pipe["stdout"]
    BY <1>1, <1>2, <2>1, DrainedTypes
  <2>4. Out = pipe["out"]
    BY <1>2, <2>1, ConcatEmptySeq DEF Out
  <2>5. Whole(Out')
    BY <1>1, <1>2, <2>1, <2>3, <2>4, WholeLineAdded, ConcatEmptySeq DEF Out
  <2> QED
    BY <1>1, <2>1, <2>2, <2>3, <2>5 DEF RelayInv, NoneLost
<1>6. CASE Relay!ServerLine
  <2>1. /\ pipe["stdout"] # <<>> /\ Head(pipe["stdout"]) # "head"
        /\ pipe' = Relay!Drained("stdout")
        /\ partial' = Relay!NoneHeld
        /\ todo.out = <<>> /\ loopEnded = "no"
        /\ todo'.out \in {Relay!Short, Relay!Long}
        /\ todo' \in [stdin : Seq(Relay!Chunks), out : Seq(Relay!Chunks)]
        /\ relayed' = relayed + 1
        /\ UNCHANGED <<loopEnded, client, server, written>>
    BY <1>2, <1>6, LinesAreChunks
    DEF Relay!ServerLine, Relay!ReadLine, Relay!InSelect, Relay!LineRead, Relay!peers
  <2>2. Relay!TypeOK'
    BY <1>1, <1>2, <2>1, DrainedTypes DEF Relay!TypeOK, Relay!NoneHeld
  <2>3. pipe'["out"] = pipe["out"] /\ pipe'["stdout"] = Tail(pipe["stdout"])
    BY <1>1, <1>2, <2>1, DrainedTypes
  <2>4. Out = pipe["out"]
    BY <1>2, <2>1, ConcatEmptySeq DEF Out
  <2>5. Whole(Out')
    BY <1>1, <1>2, <2>1, <2>3, <2>4, WholeLineAdded DEF Out
  <2>6. /\ LinesIn(pipe["stdout"]) = LinesIn(pipe'["stdout"]) + 1
        /\ LinesIn(pipe'["stdout"]) \in Nat
    BY <1>2, <2>1, <2>3, LinesInTail, HeadTailProperties, LineEndsFinite
  <2> QED
    BY <1>1, <2>1, <2>2, <2>5, <2>6 DEF RelayInv, NoneLost
<1> QED
  BY <1>4, <1>5, <1>6

\* The branches that take nothing, and the loop's end.
LEMMA OtherBranchKeeps ==
    ASSUME RelayInv,
           \/ Relay!StderrLine \/ Relay!ClientEof \/ Relay!ServerEof
           \/ Relay!DrainDue \/ Relay!StopSeen \/ Relay!WriteFails
           \/ Relay!ClientGone \/ Relay!EndKilled
           \/ \E p \in Relay!Inputs : Relay!ReadFails(p)
    PROVE  RelayInv'
<1>1. Relay!TypeOK /\ Whole(Out) /\ NoneLost
  BY DEF RelayInv
<1>2. /\ partial' \in [Relay!Inputs -> BOOLEAN]
      /\ UNCHANGED <<pipe, todo, client, server, written, relayed>>
      /\ loopEnded' \in Relay!Ended
      /\ loopEnded' = "ServerClosed" =>
            loopEnded = "ServerClosed" \/ pipe["stdout"] = <<>>
  BY <1>1
  DEF Relay!StderrLine, Relay!ClientEof, Relay!ServerEof, Relay!DrainDue,
      Relay!StopSeen, Relay!WriteFails, Relay!ClientGone, Relay!EndKilled,
      Relay!ReadFails, Relay!End, Relay!peers, Relay!NoneHeld, Relay!TypeOK,
      Relay!Ended
<1>3. Relay!TypeOK' /\ Out' = Out
  BY <1>1, <1>2 DEF Relay!TypeOK, Out
<1>4. pipe["stdout"] = <<>> => relayed = written
  BY <1>1, LinesInNone DEF NoneLost
<1> QED
  BY <1>1, <1>2, <1>3, <1>4 DEF RelayInv, NoneLost

\* The writes of a branch.
LEMMA WriteKeeps ==
    ASSUME RelayInv, Relay!WriteServer \/ Relay!WriteClient
    PROVE  RelayInv'
<1>1. Relay!TypeOK /\ Whole(Out) /\ NoneLost
  BY DEF RelayInv
<1>2. /\ todo \in [stdin : Seq(Relay!Chunks), out : Seq(Relay!Chunks)]
      /\ pipe \in [Relay!Pipes -> Seq(Relay!Chunks)]
      /\ {"stdin", "out", "stdout"} \subseteq Relay!Pipes
  BY <1>1 DEF Relay!TypeOK, Relay!Pipes, Relay!Inputs
<1>3. CASE Relay!WriteServer
  <2>1. /\ todo.stdin # <<>> /\ Relay!Room("stdin")
        /\ pipe' = Relay!Moved(Head(todo.stdin), "stdin")
        /\ todo' = [todo EXCEPT !.stdin = Tail(@)]
        /\ UNCHANGED <<partial, loopEnded, client, server, written, relayed>>
    BY <1>3 DEF Relay!WriteServer, Relay!peers
  <2>2. Head(todo.stdin) \in Relay!Chunks /\ Tail(todo.stdin) \in Seq(Relay!Chunks)
    BY <1>2, <2>1
  <2>3. /\ todo' \in [stdin : Seq(Relay!Chunks), out : Seq(Relay!Chunks)]
        /\ todo'.out = todo.out
    BY <1>2, <2>1, <2>2
  <2>4. Relay!TypeOK'
    BY <1>1, <1>2, <2>1, <2>2, <2>3, MovedTypes DEF Relay!TypeOK
  <2>5. pipe'["out"] = pipe["out"] /\ pipe'["stdout"] = pipe["stdout"]
    BY <1>1, <1>2, <2>1, <2>2, MovedTypes
  <2> QED
    BY <1>1, <2>1, <2>3, <2>4, <2>5 DEF RelayInv, NoneLost, Out
<1>4. CASE Relay!WriteClient
  <2>1. /\ todo.out # <<>> /\ Relay!Room("out")
        /\ pipe' = Relay!Moved(Head(todo.out), "out")
        /\ todo' = [todo EXCEPT !.out = Tail(@)]
        /\ UNCHANGED <<partial, loopEnded, client, server, written, relayed>>
    BY <1>4 DEF Relay!WriteClient, Relay!peers
  <2>2. Head(todo.out) \in Relay!Chunks /\ Tail(todo.out) \in Seq(Relay!Chunks)
    BY <1>2, <2>1
  <2>3. /\ todo' \in [stdin : Seq(Relay!Chunks), out : Seq(Relay!Chunks)]
        /\ todo'.out = Tail(todo.out)
    BY <1>2, <2>1, <2>2
  <2>4. Relay!TypeOK'
    BY <1>1, <1>2, <2>1, <2>2, <2>3, MovedTypes DEF Relay!TypeOK
  <2>5. /\ pipe'["out"] = Append(pipe["out"], Head(todo.out))
        /\ pipe'["stdout"] = pipe["stdout"]
    BY <1>1, <1>2, <2>1, <2>2, MovedTypes
  <2>6. Out' = Out
    <3>1. pipe["out"] \in Seq(Relay!Chunks) /\ todo.out \in Seq(Relay!Chunks)
      BY <1>2
    <3>2. Append(pipe["out"], Head(todo.out)) \o Tail(todo.out) = pipe["out"] \o todo.out
      BY <2>1, <3>1, MovedStays
    <3> QED
      BY <2>3, <2>5, <3>2 DEF Out
  <2> QED
    BY <1>1, <2>1, <2>4, <2>5, <2>6 DEF RelayInv, NoneLost
<1> QED
  BY <1>3, <1>4

\* What the client and the server do.
LEMMA PeersKeep ==
    ASSUME RelayInv, Relay!Peers, loopEnded = "no"
    PROVE  RelayInv'
<1>1. Relay!TypeOK /\ Whole(Out) /\ NoneLost
  BY DEF RelayInv
<1>2. /\ todo \in [stdin : Seq(Relay!Chunks), out : Seq(Relay!Chunks)]
      /\ pipe \in [Relay!Pipes -> Seq(Relay!Chunks)]
      /\ client \in [open : BOOLEAN, rest : Seq(Relay!Chunks)]
      /\ server \in [up : BOOLEAN, rest : Seq(Relay!Chunks)]
      /\ {"stdin", "out", "stdout", "in"} \subseteq Relay!Pipes
  BY <1>1 DEF Relay!TypeOK, Relay!Pipes, Relay!Inputs
<1>3. UNCHANGED <<todo, partial, loopEnded, relayed>>
  BY DEF Relay!Peers, Relay!ClientBegins, Relay!ClientWrites, Relay!ClientReads,
         Relay!ClientCloses, Relay!ServerReads, Relay!ServerWrites,
         Relay!ServerExits, Relay!AskToStop, Relay!proxy
<1>4. ASSUME NEW line \in {Relay!Short, Relay!Long}, Relay!ClientBegins(line)
      PROVE  RelayInv'
  <2>1. /\ UNCHANGED <<pipe, server, written>>
        /\ client' = [client EXCEPT !.rest = line]
    BY <1>4 DEF Relay!ClientBegins
  <2>2. client' \in [open : BOOLEAN, rest : Seq(Relay!Chunks)]
    BY <1>2, <2>1, LinesAreChunks
  <2> QED
    BY <1>1, <1>3, <2>1, <2>2 DEF RelayInv, Relay!TypeOK, NoneLost, Out
<1>5. CASE Relay!ClientWrites
  <2>1. /\ client.rest # <<>> /\ Relay!Room("in")
        /\ pipe' = Relay!Moved(Head(client.rest), "in")
        /\ client' = [client EXCEPT !.rest = Tail(@)]
        /\ UNCHANGED <<server, written>>
    BY <1>5 DEF Relay!ClientWrites
  <2>2. Head(client.rest) \in Relay!Chunks /\ Tail(client.rest) \in Seq(Relay!Chunks)
    BY <1>2, <2>1
  <2>3. client' \in [open : BOOLEAN, rest : Seq(Relay!Chunks)]
    BY <1>2, <2>1, <2>2
  <2>4. Relay!TypeOK'
    BY <1>1, <1>2, <1>3, <2>1, <2>2, <2>3, MovedTypes DEF Relay!TypeOK
  <2>5. pipe'["out"] = pipe["out"] /\ pipe'["stdout"] = pipe["stdout"]
    BY <1>1, <1>2, <2>1, <2>2, MovedTypes
  <2> QED
    BY <1>1, <1>3, <2>1, <2>4, <2>5 DEF RelayInv, NoneLost, Out
<1>6. CASE Relay!ClientReads
  <2>1. /\ pipe["out"] # <<>> /\ pipe' = Relay!Drained("out")
        /\ UNCHANGED <<client, server, written>>
    BY <1>6 DEF Relay!ClientReads, Relay!peers
  <2>2. Relay!TypeOK'
    BY <1>1, <1>2, <1>3, <2>1, DrainedTypes DEF Relay!TypeOK
  <2>3. pipe'["out"] = Tail(pipe["out"]) /\ pipe'["stdout"] = pipe["stdout"]
    BY <1>1, <1>2, <2>1, DrainedTypes
  <2>4. Out' = Tail(Out) /\ Out # <<>> /\ Out \in Seq(Relay!Chunks)
    <3>1. pipe["out"] \in Seq(Relay!Chunks) /\ todo.out \in Seq(Relay!Chunks)
      BY <1>2
    <3>2. /\ Tail(pipe["out"]) \o todo.out = Tail(pipe["out"] \o todo.out)
          /\ pipe["out"] \o todo.out # <<>>
          /\ pipe["out"] \o todo.out \in Seq(Relay!Chunks)
      BY <2>1, <3>1, ReadLeavesTheRest, ConcatProperties
    <3> QED
      BY <1>3, <2>3, <3>2 DEF Out
  <2>5. Whole(Out')
    BY <1>1, <2>4, WholeTail
  <2> QED
    BY <1>1, <1>3, <2>1, <2>2, <2>3, <2>5 DEF RelayInv, NoneLost
<1>7. CASE Relay!ClientCloses
  <2>1. /\ UNCHANGED <<pipe, server, written>>
        /\ client' = [client EXCEPT !.open = FALSE]
    BY <1>7 DEF Relay!ClientCloses
  <2>2. client' \in [open : BOOLEAN, rest : Seq(Relay!Chunks)]
    BY <1>2, <2>1
  <2> QED
    BY <1>1, <1>3, <2>1, <2>2 DEF RelayInv, Relay!TypeOK, NoneLost, Out
<1>8. ASSUME NEW answer \in {<<>>, Relay!Short, Relay!Long}, Relay!ServerReads(answer)
      PROVE  RelayInv'
  <2>1. /\ pipe["stdin"] # <<>> /\ pipe' = Relay!Drained("stdin")
        /\ server' = [server EXCEPT !.rest = @ \o answer]
        /\ UNCHANGED <<client, written>>
    BY <1>8 DEF Relay!ServerReads
  <2>2. server.rest \o answer \in Seq(Relay!Chunks)
    BY <1>2, LinesAreChunks, ConcatProperties
  <2>3. server' \in [up : BOOLEAN, rest : Seq(Relay!Chunks)]
    BY <1>2, <2>1, <2>2
  <2>4. Relay!TypeOK'
    BY <1>1, <1>2, <1>3, <2>1, <2>3, DrainedTypes DEF Relay!TypeOK
  <2>5. pipe'["out"] = pipe["out"] /\ pipe'["stdout"] = pipe["stdout"]
    BY <1>1, <1>2, <2>1, DrainedTypes
  <2> QED
    BY <1>1, <1>3, <2>1, <2>4, <2>5 DEF RelayInv, NoneLost, Out
<1>9. CASE Relay!ServerWrites
  <2>1. /\ server.rest # <<>> /\ Relay!Room("stdout")
        /\ pipe' = Relay!Moved(Head(server.rest), "stdout")
        /\ server' = [server EXCEPT !.rest = Tail(@)]
        /\ written' = IF Head(server.rest) = "head" THEN written ELSE written + 1
        /\ UNCHANGED client
    BY <1>9 DEF Relay!ServerWrites
  <2>2. Head(server.rest) \in Relay!Chunks /\ Tail(server.rest) \in Seq(Relay!Chunks)
    BY <1>2, <2>1
  <2>3. server' \in [up : BOOLEAN, rest : Seq(Relay!Chunks)]
    BY <1>2, <2>1, <2>2
  <2>4. Relay!TypeOK'
    BY <1>1, <1>2, <1>3, <2>1, <2>2, <2>3, MovedTypes DEF Relay!TypeOK
  <2>5. /\ pipe'["out"] = pipe["out"]
        /\ pipe'["stdout"] = Append(pipe["stdout"], Head(server.rest))
    BY <1>1, <1>2, <2>1, <2>2, MovedTypes
  <2>6. /\ LinesIn(pipe'["stdout"]) = IF Head(server.rest) = "head"
                                      THEN LinesIn(pipe["stdout"])
                                      ELSE LinesIn(pipe["stdout"]) + 1
        /\ LinesIn(pipe["stdout"]) \in Nat
    BY <1>2, <2>2, <2>5, LinesInAppend, LineEndsFinite
  <2> QED
    BY <1>1, <1>3, <2>1, <2>4, <2>5, <2>6 DEF RelayInv, NoneLost, Out
<1>10. CASE Relay!ServerExits
  <2>1. /\ UNCHANGED <<pipe, client, written>>
        /\ server' = [server EXCEPT !.up = FALSE]
    BY <1>10 DEF Relay!ServerExits
  <2>2. server' \in [up : BOOLEAN, rest : Seq(Relay!Chunks)]
    BY <1>2, <2>1
  <2> QED
    BY <1>1, <1>3, <2>1, <2>2 DEF RelayInv, Relay!TypeOK, NoneLost, Out
<1>11. CASE Relay!AskToStop
  BY <1>1, <1>3, <1>11 DEF Relay!AskToStop, RelayInv, Relay!TypeOK, NoneLost, Out
<1> QED
  BY <1>4, <1>5, <1>6, <1>7, <1>8, <1>9, <1>10, <1>11 DEF Relay!Peers

LEMMA RelayInvInit == Relay!Init => RelayInv
<1> SUFFICES ASSUME Relay!Init PROVE RelayInv
  OBVIOUS
<1>1. Relay!TypeOK
  BY SessionAssumption, LinesAreChunks
  DEF Relay!RelayAssumption, Relay!Init, Relay!TypeOK, Relay!NoneHeld, Relay!Ended
<1>2. Out = <<>> /\ pipe["stdout"] = <<>>
  BY DEF Relay!Init, Out, Relay!Pipes, Relay!Inputs
<1> QED
  BY <1>1, <1>2, LinesInNone DEF Relay!Init, RelayInv, Whole, NoneLost

LEMMA RelayInvStep == RelayInv /\ loopEnded = "no" /\ Relay!Next => RelayInv'
BY BranchKeeps, OtherBranchKeeps, WriteKeeps, PeersKeep DEF Relay!Next, Relay!Proxy
-----------------------------------------------------------------------------
(* The session. *)

\* The stop of a server begins as McpShutdown's initial states do, and nothing
\* is signalled before it.
Untouched ==
    /\ timeUp = FALSE /\ reaped = FALSE
    /\ got = [m \in Members |-> {}]
    /\ ended \in Ended
    /\ stray \in BOOLEAN

SessionInv ==
    /\ step = "relaying" => RelayInv /\ Untouched
    /\ step # "relaying" => Inv
    /\ Whole(Out)
    /\ NoStraySignal

LEMMA SessionInvInit == SessionInit => SessionInv
<1> SUFFICES ASSUME SessionInit PROVE SessionInv
  OBVIOUS
<1>1. RelayInv
  BY RelayInvInit DEF SessionInit
<1> QED
  BY <1>1 DEF SessionInit, SessionInv, Untouched, NoStraySignal, RelayInv, Ended

LEMMA WholeNone == PipesClose => Whole(Out')
BY DEF PipesClose, Out, Whole, Relay!Pipes, Relay!Inputs

LEMMA LauncherRunsAtFirst ==
    ASSUME GroupIsNow
    PROVE  /\ proc' \in [Members -> {"none", "running", "exited", "gone"}]
           /\ proc'[Launcher] # "none" /\ proc'[Launcher] # "gone"
           /\ \A h \in Helpers : proc'[h] # "exited"
           /\ obeys' \in [Members -> BOOLEAN]
BY LauncherIsMember DEF GroupIsNow

LEMMA SessionInvStep == SessionInv /\ [SessionNext]_sessionVars => SessionInv'
<1> SUFFICES ASSUME SessionInv, [SessionNext]_sessionVars PROVE SessionInv'
  OBVIOUS
<1>1. CASE RelayStep
  <2>1. step = "relaying" /\ loopEnded = "no" /\ Relay!Next /\ UNCHANGED vars
    BY <1>1 DEF RelayStep
  <2>2. RelayInv'
    BY <2>1, RelayInvStep DEF SessionInv
  <2> QED
    BY <2>1, <2>2 DEF SessionInv, RelayInv, Untouched, NoStraySignal, vars
<1>2. CASE ShutDown
  <2>1. /\ step = "relaying" /\ loopEnded # "no" /\ ended' = loopEnded
        /\ step' = "leave" /\ GroupIsNow /\ PipesClose
        /\ UNCHANGED <<timeUp, reaped, got, stray>>
    BY <1>2 DEF ShutDown
  <2>2. loopEnded \in Relay!Ended
    BY <2>1 DEF SessionInv, RelayInv, Relay!TypeOK
  <2>3. ended' \in Ended
    BY <2>1, <2>2 DEF Ended, Relay!Ended
  <2>4. /\ timeUp' = FALSE /\ reaped' = FALSE /\ stray' \in BOOLEAN
        /\ got' \in [Members -> SUBSET {"term", "kill"}]
    BY <2>1 DEF SessionInv, Untouched
  <2>5. TypeOK'
    BY <2>1, <2>3, <2>4, LauncherRunsAtFirst DEF TypeOK, Steps
  <2>6. Killed'
    BY <2>1 DEF Killed
  <2> QED
    BY <2>1, <2>6, <2>5, WholeNone DEF SessionInv, Inv, NoStraySignal
<1>3. CASE DroppedInLoop
  <2>1. /\ step = "relaying" /\ step' = "dropped" /\ GroupIsNow /\ PipesClose
        /\ got' = [m \in Members |-> IF proc'[m] = "running" THEN {"kill"} ELSE {}]
        /\ UNCHANGED <<ended, timeUp, reaped, stray>>
    BY <1>3 DEF DroppedInLoop
  <2>2. /\ timeUp' = FALSE /\ reaped' = FALSE /\ stray' \in BOOLEAN
        /\ ended' \in Ended
    BY <2>1 DEF SessionInv, Untouched
  <2>3. got' \in [Members -> SUBSET {"term", "kill"}]
    BY <2>1
  <2>4. TypeOK'
    BY <2>1, <2>2, <2>3, LauncherRunsAtFirst DEF TypeOK, Steps
  <2>5. AllKilled'
    BY <2>1 DEF AllKilled, Running
  <2> QED
    BY <2>1, <2>5, <2>4, WholeNone DEF SessionInv, Inv, Killed, NoStraySignal
<1>4. CASE ShutdownStep
  <2>1. step # "relaying" /\ Next /\ UNCHANGED relayVars
    BY <1>4 DEF ShutdownStep
  <2>2. Inv'
    BY <2>1, InvStep DEF SessionInv
  <2>3. step' # "relaying"
    BY <2>2 DEF Inv, TypeOK, Steps, Awaits
  <2>4. stray' = stray
    BY <2>1, StrayStays DEF SessionInv
  <2>5. Out' = Out
    BY <2>1 DEF relayVars, Out
  <2> QED
    BY <2>2, <2>3, <2>4, <2>5 DEF SessionInv, NoStraySignal
<1>5. CASE UNCHANGED sessionVars
  <2>1. RelayInv' <=> RelayInv
    BY <1>5 DEF sessionVars, relayVars, RelayInv, Relay!TypeOK, Out, NoneLost
  <2>2. Inv' <=> Inv
    BY <1>5 DEF sessionVars, vars, Inv, TypeOK, Killed, AllKilled, Running
  <2> QED
    BY <1>5, <2>1, <2>2
    DEF sessionVars, relayVars, vars, SessionInv, Untouched, NoStraySignal, Out
<1> QED
  BY <1>1, <1>2, <1>3, <1>4, <1>5 DEF SessionNext

THEOREM SessionInvariant == SessionSpec => []SessionInv
BY SessionInvInit, SessionInvStep, PTL DEF SessionSpec

\* Every part of the state keeps its type, the relay loop's as long as it runs
\* and the stop's from then on.
THEOREM SessionTypeCorrect == SessionSpec => []SessionTypeOK
<1>1. SessionInv => SessionTypeOK
  BY DEF SessionInv, SessionTypeOK, RelayInv, Inv
<1> QED
  BY <1>1, SessionInvariant, PTL

\* A denial and a relayed answer never interleave in what the client reads,
\* however few chunks its pipe takes and wherever the loop is left.
THEOREM ClientReadsWholeLines == SessionSpec => []LinesNeverInterleave
<1>1. SessionInv => LinesNeverInterleave
  BY DEF SessionInv, Whole, Out, LinesNeverInterleave, Relay!LinesNeverInterleave
<1> QED
  BY <1>1, SessionInvariant, PTL

\* A session that ends because the server closed its output has relayed every
\* line the server wrote.
THEOREM AnswersAreRelayed == SessionSpec => []NothingLeftUnrelayed
<1>1. SessionInv => NothingLeftUnrelayed
  BY DEF SessionInv, RelayInv, NoneLost, NothingLeftUnrelayed,
         Relay!NothingLeftUnrelayed
<1> QED
  BY <1>1, SessionInvariant, PTL

\* The server never outlives the session: neither one that returned, nor one
\* that was dropped in its relay loop or before it waited for the launcher.
THEOREM ServerNeverOutlivesSession == SessionSpec => []NothingLeftRunning
<1>1. SessionInv => NothingLeftRunning
  BY DEF SessionInv, Inv, Killed, AllKilled, NothingLeftRunning
<1> QED
  BY <1>1, SessionInvariant, PTL

\* No signal of a session goes to a group id once the group is gone.
THEOREM SessionSignalsStay == SessionSpec => []NoStraySignal
<1>1. SessionInv => NoStraySignal
  BY DEF SessionInv
<1> QED
  BY <1>1, SessionInvariant, PTL

\* However the relay loop ended, no process is killed before the grace it was
\* given is over.
THEOREM SessionGraceIsGiven == SessionSpec => KilledOnlyAfterTheGrace
<1>1. SessionInv /\ [SessionNext]_sessionVars =>
        [step' # "dropped" /\ ended # "KillMode" =>
            \A m \in Members : "kill" \in got'[m] \ got[m] => timeUp]_vars
  <2> SUFFICES ASSUME SessionInv, [SessionNext]_sessionVars,
                      step' # "dropped", ended # "KillMode",
                      NEW m \in Members, "kill" \in got'[m], "kill" \notin got[m]
               PROVE  timeUp
    OBVIOUS
  <2>1. CASE ShutdownStep
    BY <2>1, KillsAreDue DEF ShutdownStep, SessionInv, vars
  <2>2. CASE got' = got
    BY <2>2
  <2> QED
    BY <2>1, <2>2
    DEF SessionNext, sessionVars, vars, RelayStep, ShutDown, DroppedInLoop
<1> QED
  BY <1>1, SessionInvariant, PTL DEF SessionSpec, KilledOnlyAfterTheGrace
=============================================================================
