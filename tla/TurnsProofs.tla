----------------------------- MODULE TurnsProofs -----------------------------
(***************************************************************************)
(* Proofs about turns: those that stand in the lines of the session daemon, *)
(* those that the CLI adapters run, those that are relayed from an         *)
(* upstream, and those that go to a chat-completions upstream.  Each of    *)
(* them is proved on its own: they share no state.                         *)
(***************************************************************************)
EXTENDS SessionDaemon, CliTurns, Relay, ChatMessages, DataLemmas, SequenceTheorems

(***************************************************************************)
(* SessionDaemon: for any number of requests and keys.                     *)
(***************************************************************************)

-----------------------------------------------------------------------------
(* Lines: an element that leaves from behind the front disturbs nobody.    *)

\* Removing an element from a line leaves a line.
LEMMA RemoveAtType ==
    ASSUME NEW S, NEW line \in Seq(S), NEW i \in 1..Len(line)
    PROVE  RemoveAt(line, i) \in Seq(S)
BY DEF RemoveAt

\* An element that is not in front leaves the front element where it is.
LEMMA RemoveAtKeepsFront ==
    ASSUME NEW S, NEW line \in Seq(S), NEW i \in 1..Len(line), NEW a,
           Holds(line, a), line[i] # a
    PROVE  Holds(RemoveAt(line, i), a)
<1>1. i # 1 /\ line[1] = a
  BY DEF Holds
<1> DEFINE front == SubSeq(line, 1, i - 1)
           back == SubSeq(line, i + 1, Len(line))
<1>2. front \in Seq(S) /\ back \in Seq(S) /\ Len(front) = i - 1 /\ front[1] = line[1]
  BY <1>1
<1>3. Len(front \o back) > 0 /\ (front \o back)[1] = line[1]
  <2> HIDE DEF front, back
  <2> QED BY <1>1, <1>2
<1>4. front \o back \in Seq(S)
  BY <1>2
<1>5. Holds(front \o back, a)
  <2> HIDE DEF front, back
  <2> QED BY <1>1, <1>3, <1>4 DEF Holds
<1>6. QED
  BY <1>5 DEF RemoveAt

\* Joining a line leaves the front element where it is.
LEMMA AppendKeepsFront ==
    ASSUME NEW S, NEW line \in Seq(S), NEW b \in S, NEW a, Holds(line, a)
    PROVE  Holds(Append(line, b), a)
BY DEF Holds

-----------------------------------------------------------------------------
(* The inductive invariant.  The safety properties follow from who stands  *)
(* in front of which line, so that is what has to be carried along.        *)

\* Whoever is past get_or_create has a session object.
HasSession ==
    \A r \in Requests : pc[r] \in {"session"} \cup Holding => sess[r] \in Requests

\* Whoever runs a turn, or still reports on it, stands in front of its session.
HoldersInFront ==
    \A r \in Requests : pc[r] \in Holding => Holds(turnLine[sess[r]], r)

\* Whoever spawns has the table lock.
SpawnerInFront ==
    \A r \in Requests : pc[r] = "spawning" => Holds(tableLine, r)

\* A session on which a turn runs was touched when the turn began.
RunningIsFresh ==
    \A r \in Requests : pc[r] = "turn" => ~idle[sess[r]]

IInv ==
    /\ TypeOK
    /\ HasSession
    /\ HoldersInFront
    /\ SpawnerInFront
    /\ SpawnsOnlyMissing
    /\ ResumesLatest
    /\ RunningIsFresh

\* A daemon that just started has no session, no lock holder and no turn.
LEMMA IInvInit == Init => IInv
BY NoneOK, SubsetsOK DEF Init, IInv, TypeOK, HasSession, HoldersInFront, SpawnerInFront,
   SpawnsOnlyMissing, ResumesLatest, RunningIsFresh, Holding, InCli, PCs

\* The front of a session's line is one request.
LEMMA FrontIsUnique == IInv => OneTurnPerSession
BY DEF IInv, HoldersInFront, OneTurnPerSession, Holds

\* The table's line stays a line when somebody joins it, and its front stays in front.
LEMMA TableAppend ==
    ASSUME TypeOK, NEW b \in Requests \cup {Sweeper}
    PROVE  /\ Append(tableLine, b) \in Seq(Requests \cup {Sweeper})
           /\ \A a : Holds(tableLine, a) => Holds(Append(tableLine, b), a)
<1>1. tableLine \in Seq(Requests \cup {Sweeper})
  BY DEF TypeOK
<1>2. QED
  BY <1>1, AppendKeepsFront

\* The holder of the table lock can leave the line.
LEMMA TableTail ==
    ASSUME TypeOK, NEW a, Holds(tableLine, a)
    PROVE  Tail(tableLine) \in Seq(Requests \cup {Sweeper})
<1>1. tableLine \in Seq(Requests \cup {Sweeper}) /\ tableLine # <<>>
  BY DEF TypeOK, Holds
<1>2. QED
  BY <1>1

\* A request joins the line of a session.
LEMMA TurnAppend ==
    ASSUME TypeOK, NEW s \in Requests, NEW r \in Requests,
           turnLine' = [turnLine EXCEPT ![s] = Append(@, r)]
    PROVE  /\ turnLine' \in [Requests -> Seq(Requests)]
           /\ \A t \in Requests : \A a : Holds(turnLine[t], a) => Holds(turnLine'[t], a)
<1>1. turnLine \in [Requests -> Seq(Requests)]
  BY DEF TypeOK
<1>2. turnLine' \in [Requests -> Seq(Requests)]
  BY <1>1
<1>3. ASSUME NEW t \in Requests, NEW a, Holds(turnLine[t], a)
      PROVE  Holds(turnLine'[t], a)
  <2>1. CASE t = s
    <3>1. turnLine'[t] = Append(turnLine[t], r) /\ turnLine[t] \in Seq(Requests)
      BY <1>1, <2>1
    <3> QED BY <3>1, <1>3, AppendKeepsFront
  <2>2. CASE t # s
    BY <1>1, <1>3, <2>2
  <2> QED BY <2>1, <2>2
<1>4. QED
  BY <1>2, <1>3

\* A handler that holds its session's lock ends.
LEMMA EndTurnEffect ==
    ASSUME IInv, NEW r \in Requests, pc[r] \in Holding, EndTurn(r)
    PROVE  /\ pc' \in [Requests -> PCs]
           /\ sess' \in [Requests -> Requests \cup {None}]
           /\ resumed' \in [Requests -> SUBSET Requests]
           /\ turnLine' \in [Requests -> Seq(Requests)]
           /\ HasSession' /\ HoldersInFront'
<1>1. /\ turnLine \in [Requests -> Seq(Requests)]
      /\ sess[r] \in Requests /\ turnLine[sess[r]] \in Seq(Requests)
      /\ Holds(turnLine[sess[r]], r)
  BY DEF IInv, TypeOK, HasSession, HoldersInFront
<1>2. Tail(turnLine[sess[r]]) \in Seq(Requests)
  BY <1>1 DEF Holds
<1>3. turnLine' \in [Requests -> Seq(Requests)]
  BY <1>1, <1>2 DEF EndTurn
<1>4. /\ pc' \in [Requests -> PCs]
      /\ sess' \in [Requests -> Requests \cup {None}]
      /\ resumed' \in [Requests -> SUBSET Requests]
      /\ HasSession'
  BY DEF IInv, TypeOK, PCs, EndTurn, End, Goto, HasSession, Holding, InCli
<1>5. ASSUME NEW q \in Requests, pc'[q] \in Holding
      PROVE  Holds(turnLine'[sess'[q]], q)
  <2>1. q # r /\ pc[q] \in Holding /\ sess'[q] = sess[q] /\ sess[q] \in Requests
    BY <1>5 DEF IInv, TypeOK, EndTurn, End, Goto, HasSession, Holding, InCli
  <2>2. sess[q] # sess[r]
    BY <2>1, FrontIsUnique DEF OneTurnPerSession
  <2>3. turnLine'[sess'[q]] = turnLine[sess[q]]
    BY <1>1, <2>1, <2>2 DEF EndTurn
  <2> QED BY <2>1, <2>3 DEF IInv, HoldersInFront
<1>6. QED
  BY <1>3, <1>4, <1>5 DEF HoldersInFront

\* What a turn records is a conversation.
LEMMA RecordTurnType ==
    ASSUME IInv, NEW r \in Requests, pc[r] \in InCli, RecordTurn(r)
    PROVE  conversation' \in [Requests -> SUBSET Requests]
<1>1. conversation \in [Requests -> SUBSET Requests] /\ resumed[r] \cup {r} \in SUBSET Requests
  BY DEF IInv, TypeOK
<1>2. QED
  BY <1>1 DEF RecordTurn

\* A request that joins the line of the table lock moves nobody who is in it.
LEMMA SubmitStep == ASSUME IInv, NEW r \in Requests, Submit(r) PROVE IInv'
<1>1. TypeOK'
  BY TableAppend DEF IInv, Submit, sessionVars, Goto, TypeOK, PCs, Holding,
     InCli
<1>2. HasSession' /\ HoldersInFront'
  BY DEF IInv, Submit, sessionVars, Goto, TypeOK, HasSession, HoldersInFront,
     Holding, InCli
<1>3. SpawnerInFront' /\ SpawnsOnlyMissing'
  BY TableAppend DEF IInv, Submit, sessionVars, Goto, TypeOK, SpawnerInFront,
     SpawnsOnlyMissing, Holds
<1>4. ResumesLatest' /\ RunningIsFresh'
  BY DEF IInv, Submit, sessionVars, Goto, TypeOK, HasSession, ResumesLatest,
     RunningIsFresh, Holding, InCli
<1> QED BY <1>1, <1>2, <1>3, <1>4 DEF IInv

\* A request that joins its session's line does so behind the turn that runs.
LEMMA FindSessionStep == ASSUME IInv, NEW r \in Requests, FindSession(r) PROVE IInv'
<1>1. TypeOK'
  BY TableTail, TurnAppend, NoneOK DEF IInv, FindSession, Goto, TypeOK, PCs,
     Holding, InCli
<1>2. HasSession' /\ HoldersInFront'
  BY TurnAppend, NoneOK, ZenonT(40) DEF IInv, FindSession, Goto, TypeOK, HasSession,
     HoldersInFront, Holding, InCli
<1>3. SpawnerInFront' /\ SpawnsOnlyMissing'
  BY DEF IInv, FindSession, Goto, TypeOK, SpawnerInFront, SpawnsOnlyMissing,
     Holds
<1>4. ResumesLatest' /\ RunningIsFresh'
  BY DEF IInv, FindSession, Goto, TypeOK, HasSession, ResumesLatest,
     RunningIsFresh, Holding, InCli
<1> QED BY <1>1, <1>2, <1>3, <1>4 DEF IInv

\* The front of the table's line found no entry, and only it may enter one.
LEMMA BeginSpawnStep == ASSUME IInv, NEW r \in Requests, BeginSpawn(r) PROVE IInv'
<1>1. TypeOK'
  BY DEF IInv, BeginSpawn, sessionVars, Goto, TypeOK, PCs, Holding, InCli
<1>2. HasSession' /\ HoldersInFront'
  BY DEF IInv, BeginSpawn, sessionVars, Goto, TypeOK, HasSession,
     HoldersInFront, Holding, InCli
<1>3. SpawnerInFront' /\ SpawnsOnlyMissing'
  BY DEF IInv, BeginSpawn, sessionVars, Goto, TypeOK, SpawnerInFront,
     SpawnsOnlyMissing, Holds
<1>4. ResumesLatest' /\ RunningIsFresh'
  BY DEF IInv, BeginSpawn, sessionVars, Goto, TypeOK, HasSession, ResumesLatest,
     RunningIsFresh, Holding, InCli
<1> QED BY <1>1, <1>2, <1>3, <1>4 DEF IInv

\* The new session is on nobody's locals yet but its creator's.
LEMMA SpawnSessionStep == ASSUME IInv, NEW r \in Requests, SpawnSession(r) PROVE IInv'
<1>1. TypeOK'
  BY TableTail, TurnAppend, NoneOK DEF IInv, SpawnSession, Goto, TypeOK, PCs,
     Holding, InCli, SpawnerInFront
<1>2. HasSession' /\ HoldersInFront'
  BY TurnAppend, NoneOK, ZenonT(40) DEF IInv, SpawnSession, Goto, TypeOK, HasSession,
     HoldersInFront, Holding, InCli
<1>3. SpawnerInFront' /\ SpawnsOnlyMissing'
  BY DEF IInv, SpawnSession, Goto, TypeOK, SpawnerInFront, SpawnsOnlyMissing,
     Holds
<1>4. ResumesLatest' /\ RunningIsFresh'
  BY DEF IInv, SpawnSession, Goto, TypeOK, HasSession, ResumesLatest,
     RunningIsFresh, Holding, InCli
<1> QED BY <1>1, <1>2, <1>3, <1>4 DEF IInv

\* A failed spawn releases the table lock and leaves the table alone.
LEMMA SpawnFailsStep == ASSUME IInv, NEW r \in Requests, SpawnFails(r) PROVE IInv'
<1>1. TypeOK'
  BY TableTail, NoneOK DEF IInv, SpawnFails, End, sessionVars, Goto, TypeOK,
     PCs, Holding, InCli, SpawnerInFront
<1>2. HasSession' /\ HoldersInFront'
  BY NoneOK DEF IInv, SpawnFails, End, sessionVars, Goto, TypeOK, HasSession,
     HoldersInFront, Holding, InCli
<1>3. SpawnerInFront' /\ SpawnsOnlyMissing'
  BY DEF IInv, SpawnFails, End, sessionVars, Goto, TypeOK, SpawnerInFront,
     SpawnsOnlyMissing, Holds
<1>4. ResumesLatest' /\ RunningIsFresh'
  BY DEF IInv, SpawnFails, End, sessionVars, Goto, TypeOK, HasSession,
     ResumesLatest, RunningIsFresh, Holding, InCli
<1> QED BY <1>1, <1>2, <1>3, <1>4 DEF IInv

\* The front of a session's line runs: it reads the newest conversation and touches idle.
LEMMA BeginTurnStep == ASSUME IInv, NEW r \in Requests, BeginTurn(r) PROVE IInv'
<1>1. TypeOK'
  <2>1. sess[r] \in Requests /\ conversation[sess[r]] \in SUBSET Requests
    BY DEF IInv, TypeOK, BeginTurn, HasSession
  <2> QED BY <2>1 DEF IInv, TypeOK, BeginTurn, Goto, PCs, Holding, InCli
<1>2. HasSession' /\ HoldersInFront'
  BY DEF IInv, BeginTurn, Goto, TypeOK, HasSession, HoldersInFront, Holding,
     InCli
<1>3. SpawnerInFront' /\ SpawnsOnlyMissing'
  BY DEF IInv, BeginTurn, Goto, TypeOK, SpawnerInFront, SpawnsOnlyMissing, Holds
<1>4. ResumesLatest' /\ RunningIsFresh'
  BY DEF IInv, BeginTurn, Goto, TypeOK, HasSession, ResumesLatest,
     RunningIsFresh, Holding, InCli
<1> QED BY <1>1, <1>2, <1>3, <1>4 DEF IInv

\* A turn that ends writes the conversation of its own session, where nobody else runs.
LEMMA TurnSucceedsStep == ASSUME IInv, NEW r \in Requests, TurnSucceeds(r) PROVE IInv'
<1> USE DEF TurnSucceeds
<1>0. conversation' \in [Requests -> SUBSET Requests]
  BY RecordTurnType DEF InCli
<1>1. TypeOK'
  <2>1. CASE r \in Streaming
    BY <1>0, <2>1 DEF IInv, TypeOK, Goto, PCs, Holding
  <2>2. CASE r \notin Streaming
    BY <1>0, <2>2, EndTurnEffect DEF IInv, TypeOK, Holding, InCli
  <2> QED BY <2>1, <2>2
<1>2. HasSession' /\ HoldersInFront'
  <2>1. CASE r \in Streaming
    BY <2>1 DEF IInv, TypeOK, Goto, HasSession, HoldersInFront, Holding, InCli
  <2>2. CASE r \notin Streaming
    BY <2>2, EndTurnEffect DEF Holding, InCli
  <2> QED BY <2>1, <2>2
<1>3. SpawnerInFront' /\ SpawnsOnlyMissing'
  BY DEF IInv, TurnSucceeds, EndTurn, RecordTurn, End, Goto, TypeOK,
     SpawnerInFront, SpawnsOnlyMissing, Holds
<1>4. ResumesLatest' /\ RunningIsFresh'
  <2>1. ASSUME NEW q \in Requests, pc'[q] \in InCli
        PROVE  /\ pc[q] = pc'[q] /\ q # r /\ sess'[q] = sess[q] /\ sess[q] # sess[r]
               /\ sess[q] \in Requests /\ resumed'[q] = resumed[q]
    BY <2>1, FrontIsUnique
       DEF IInv, TypeOK, EndTurn, End, Goto, OneTurnPerSession, HasSession, Holding, InCli
  <2>2. ASSUME NEW q \in Requests, sess[q] # sess[r], sess[q] \in Requests
        PROVE  conversation'[sess[q]] = conversation[sess[q]]
    BY <2>2 DEF IInv, TypeOK, RecordTurn
  <2> QED BY <2>1, <2>2 DEF IInv, ResumesLatest, RunningIsFresh, InCli
<1> QED BY <1>1, <1>2, <1>3, <1>4 DEF IInv

\* A streamed Codex turn keeps the session lock while its text is taken.
LEMMA YieldCodexTextStep == ASSUME IInv, NEW r \in Requests, YieldCodexText(r) PROVE IInv'
<1>1. TypeOK'
  BY DEF IInv, YieldCodexText, sessionVars, Goto, TypeOK, PCs, Holding, InCli
<1>2. HasSession' /\ HoldersInFront'
  BY DEF IInv, YieldCodexText, sessionVars, Goto, TypeOK, HasSession,
     HoldersInFront, Holding, InCli
<1>3. SpawnerInFront' /\ SpawnsOnlyMissing'
  BY DEF IInv, YieldCodexText, sessionVars, Goto, TypeOK, SpawnerInFront,
     SpawnsOnlyMissing, Holds
<1>4. ResumesLatest' /\ RunningIsFresh'
  BY DEF IInv, YieldCodexText, sessionVars, Goto, TypeOK, HasSession,
     ResumesLatest, RunningIsFresh, Holding, InCli
<1> QED BY <1>1, <1>2, <1>3, <1>4 DEF IInv

\* ... and then records its conversation, still as the only one on the session.
LEMMA TakeCodexTextStep == ASSUME IInv, NEW r \in Requests, TakeCodexText(r) PROVE IInv'
<1>1. TypeOK'
  <2>1. conversation' \in [Requests -> SUBSET Requests]
    BY RecordTurnType DEF TakeCodexText, InCli
  <2> QED BY <2>1 DEF IInv, TypeOK, TakeCodexText, Goto, PCs, Holding
<1>2. HasSession' /\ HoldersInFront'
  BY DEF IInv, TakeCodexText, RecordTurn, Goto, TypeOK, HasSession,
     HoldersInFront, Holding, InCli
<1>3. SpawnerInFront' /\ SpawnsOnlyMissing'
  BY DEF IInv, TakeCodexText, RecordTurn, Goto, TypeOK, SpawnerInFront,
     SpawnsOnlyMissing, Holds
<1>4. ResumesLatest' /\ RunningIsFresh'
  BY FrontIsUnique DEF IInv, TakeCodexText, RecordTurn, Goto, TypeOK,
     HasSession, ResumesLatest, RunningIsFresh, Holding, InCli, OneTurnPerSession
<1> QED BY <1>1, <1>2, <1>3, <1>4 DEF IInv

\* A failing turn joins the table's line while it stays in front of its session's.
LEMMA TurnFailsStep == ASSUME IInv, NEW r \in Requests, TurnFails(r) PROVE IInv'
<1>1. TypeOK'
  BY TableAppend DEF IInv, TurnFails, sessionVars, Goto, TypeOK, PCs, Holding,
     InCli
<1>2. HasSession' /\ HoldersInFront'
  BY DEF IInv, TurnFails, sessionVars, Goto, TypeOK, HasSession, HoldersInFront,
     Holding, InCli
<1>3. SpawnerInFront' /\ SpawnsOnlyMissing'
  BY TableAppend DEF IInv, TurnFails, sessionVars, Goto, TypeOK, SpawnerInFront,
     SpawnsOnlyMissing, Holds
<1>4. ResumesLatest' /\ RunningIsFresh'
  BY DEF IInv, TurnFails, sessionVars, Goto, TypeOK, HasSession, ResumesLatest,
     RunningIsFresh, Holding, InCli
<1> QED BY <1>1, <1>2, <1>3, <1>4 DEF IInv

\* A crashing turn leaves the front of its session's line.
LEMMA TurnCrashesStep == ASSUME IInv, NEW r \in Requests, TurnCrashes(r) PROVE IInv'
<1>1. TypeOK'
  BY EndTurnEffect, NoneOK DEF IInv, TurnCrashes, EndTurn, End, Goto, TypeOK,
     PCs, Holding, InCli
<1>2. HasSession' /\ HoldersInFront'
  BY EndTurnEffect, NoneOK DEF IInv, TurnCrashes, EndTurn, End, Goto, TypeOK,
     HasSession, HoldersInFront, Holding, InCli
<1>3. SpawnerInFront' /\ SpawnsOnlyMissing'
  BY DEF IInv, TurnCrashes, EndTurn, End, Goto, TypeOK, SpawnerInFront,
     SpawnsOnlyMissing, Holds
<1>4. ResumesLatest' /\ RunningIsFresh'
  BY DEF IInv, TurnCrashes, EndTurn, End, Goto, TypeOK, HasSession,
     ResumesLatest, RunningIsFresh, Holding, InCli
<1> QED BY <1>1, <1>2, <1>3, <1>4 DEF IInv

\* An entry is removed by the front of the table's line, so by no spawner's rival.
LEMMA DropSessionStep == ASSUME IInv, NEW r \in Requests, DropSession(r) PROVE IInv'
<1>1. TypeOK'
  BY TableTail, EndTurnEffect, NoneOK DEF IInv, DropSession, EndTurn, End, Goto,
     TypeOK, PCs, Holding, InCli
<1>2. HasSession' /\ HoldersInFront'
  BY EndTurnEffect, NoneOK DEF IInv, DropSession, EndTurn, End, Goto, TypeOK,
     HasSession, HoldersInFront, Holding, InCli
<1>3. SpawnerInFront' /\ SpawnsOnlyMissing'
  BY ZenonT(40) DEF IInv, DropSession, EndTurn, End, Goto, TypeOK, SpawnerInFront,
     SpawnsOnlyMissing, Holds
<1>4. ResumesLatest' /\ RunningIsFresh'
  <2>1. ASSUME NEW q \in Requests, pc'[q] \in InCli
        PROVE  pc[q] = pc'[q] /\ sess'[q] = sess[q] /\ resumed'[q] = resumed[q]
    BY <2>1 DEF IInv, TypeOK, DropSession, EndTurn, End, Goto, InCli
  <2> QED BY <2>1 DEF IInv, DropSession, ResumesLatest, RunningIsFresh, InCli
<1> QED BY <1>1, <1>2, <1>3, <1>4 DEF IInv

\* A stream that ends leaves the front of its session's line.
LEMMA DeliverStep == ASSUME IInv, NEW r \in Requests, Deliver(r) PROVE IInv'
<1>1. TypeOK'
  BY EndTurnEffect, NoneOK DEF IInv, Deliver, EndTurn, End, Goto, TypeOK, PCs,
     Holding, InCli
<1>2. HasSession' /\ HoldersInFront'
  BY EndTurnEffect, NoneOK DEF IInv, Deliver, EndTurn, End, Goto, TypeOK,
     HasSession, HoldersInFront, Holding, InCli
<1>3. SpawnerInFront' /\ SpawnsOnlyMissing'
  BY DEF IInv, Deliver, EndTurn, End, Goto, TypeOK, SpawnerInFront,
     SpawnsOnlyMissing, Holds
<1>4. ResumesLatest' /\ RunningIsFresh'
  BY DEF IInv, Deliver, EndTurn, End, Goto, TypeOK, HasSession, ResumesLatest,
     RunningIsFresh, Holding, InCli
<1> QED BY <1>1, <1>2, <1>3, <1>4 DEF IInv

\* A cancelled request leaves the lines it is in, wherever it stands in them.
LEMMA DisconnectStep == ASSUME IInv, NEW r \in Requests, Disconnect(r) PROVE IInv'
<1> USE DEF Disconnect
<1>a. ASSUME NEW S, NEW line \in Seq(S), NEW new, LeaveLine(line, r, new)
      PROVE  new \in Seq(S) /\ \A q : q # r /\ Holds(line, q) => Holds(new, q)
  <2>1. PICK i \in 1..Len(line) : line[i] = r /\ new = RemoveAt(line, i)
    BY <1>a DEF LeaveLine
  <2>2. ASSUME NEW q, q # r, Holds(line, q) PROVE Holds(new, q)
    BY <2>1, <2>2, RemoveAtKeepsFront
  <2> QED BY <2>1, <2>2, RemoveAtType
<1>b. /\ tableLine' \in Seq(Requests \cup {Sweeper})
      /\ \A q : q # r /\ Holds(tableLine, q) => Holds(tableLine', q)
  <2>1. tableLine \in Seq(Requests \cup {Sweeper})
    BY DEF IInv, TypeOK
  <2>2. LeaveLine(tableLine, r, tableLine') \/ tableLine' = tableLine
    OBVIOUS
  <2> HIDE DEF Disconnect
  <2> QED BY <2>1, <2>2, <1>a
<1>c. ASSUME NEW s \in Requests
      PROVE  /\ turnLine[s] \in Seq(Requests)
             /\ turnLine'[s] = turnLine[s] \/ LeaveLine(turnLine[s], r, turnLine'[s])
  BY DEF IInv, TypeOK, HasSession
<1>d. turnLine' \in [Requests -> Seq(Requests)]
  <2>1. \A s \in Requests : turnLine'[s] \in Seq(Requests)
    <3> HIDE DEF Disconnect
    <3> QED BY <1>a, <1>c
  <2>2. turnLine' = [s \in Requests |-> turnLine'[s]]
    BY DEF IInv, TypeOK
  <2> QED BY <2>1, <2>2
<1>e. \A s \in Requests : \A q : q # r /\ Holds(turnLine[s], q) => Holds(turnLine'[s], q)
  <2> HIDE DEF Disconnect
  <2> QED BY <1>a, <1>c
<1>1. TypeOK'
  BY <1>b, <1>d DEF IInv, TypeOK, End, Goto, PCs
<1>2. HasSession' /\ HoldersInFront'
  BY <1>e DEF IInv, TypeOK, End, Goto, HasSession, HoldersInFront, Holding, InCli
<1>3. SpawnerInFront' /\ SpawnsOnlyMissing'
  BY <1>b DEF IInv, TypeOK, End, Goto, SpawnerInFront, SpawnsOnlyMissing
<1>4. ResumesLatest' /\ RunningIsFresh'
  BY DEF IInv, TypeOK, End, Goto, ResumesLatest, RunningIsFresh, InCli
<1> QED BY <1>1, <1>2, <1>3, <1>4 DEF IInv

\* A session that is spared leaves the sweep's snapshot only.
LEMMA SweepKeepStep == ASSUME IInv, NEW s \in Requests, SweepKeep(s) PROVE IInv'
<1>1. TypeOK'
  BY DEF IInv, SweepKeep, requestVars, sessionVars, TypeOK, PCs, Holding, InCli
<1>2. HasSession' /\ HoldersInFront'
  BY DEF IInv, SweepKeep, requestVars, sessionVars, TypeOK, HasSession,
     HoldersInFront, Holding, InCli
<1>3. SpawnerInFront' /\ SpawnsOnlyMissing'
  BY DEF IInv, SweepKeep, requestVars, sessionVars, TypeOK, SpawnerInFront,
     SpawnsOnlyMissing, Holds
<1>4. ResumesLatest' /\ RunningIsFresh'
  BY DEF IInv, SweepKeep, requestVars, sessionVars, TypeOK, HasSession,
     ResumesLatest, RunningIsFresh, Holding, InCli
<1> QED BY <1>1, <1>2, <1>3, <1>4 DEF IInv

\* A session that is recycled is signalled, or its removal joins the table's line.
LEMMA SweepRecycleStep == ASSUME IInv, NEW s \in Requests, SweepRecycle(s) PROVE IInv'
<1>1. TypeOK'
  <2> DEFINE Recycling(at) == [sweep EXCEPT !.at = at, !.left = @ \ {s}, !.on = s]
  <2>1. ASSUME NEW at \in {"term", "drop"}
        PROVE  Recycling(at) \in [at : {"sleep", "walk", "term", "kill", "drop"},
                                  left : SUBSET Requests, on : Requests \cup {None}]
    BY DEF IInv, TypeOK
  <2>2. sweep' \in {Recycling("term"), Recycling("drop")}
    BY DEF SweepRecycle
  <2>3. tableLine' \in {tableLine, Append(tableLine, Sweeper)}
    BY DEF SweepRecycle
  <2>4. tableLine' \in Seq(Requests \cup {Sweeper})
    <3>1. tableLine \in Seq(Requests \cup {Sweeper})
      BY DEF IInv, TypeOK
    <3> QED BY <2>3, <3>1
  <2>5. UNCHANGED <<requestVars, table, sessionVars>>
    BY DEF SweepRecycle
  <2> HIDE DEF Recycling
  <2> QED BY <2>1, <2>2, <2>4, <2>5 DEF IInv, TypeOK, requestVars, sessionVars
<1>2. HasSession' /\ HoldersInFront'
  BY DEF IInv, SweepRecycle, requestVars, sessionVars, TypeOK, HasSession,
     HoldersInFront, Holding, InCli
<1>3. SpawnerInFront' /\ SpawnsOnlyMissing'
  BY TableAppend DEF IInv, SweepRecycle, requestVars, sessionVars, TypeOK,
     SpawnerInFront, SpawnsOnlyMissing, Holds
<1>4. ResumesLatest' /\ RunningIsFresh'
  BY DEF IInv, SweepRecycle, requestVars, sessionVars, TypeOK, HasSession,
     ResumesLatest, RunningIsFresh, Holding, InCli
<1> QED BY <1>1, <1>2, <1>3, <1>4 DEF IInv

\* A session on which a turn runs does not become idle.
LEMMA IdleThresholdPassesStep == ASSUME IInv, NEW s \in Requests, IdleThresholdPasses(s) PROVE IInv'
<1>1. TypeOK'
  BY DEF IInv, IdleThresholdPasses, requestVars, TypeOK, PCs, Holding, InCli
<1>2. HasSession' /\ HoldersInFront'
  BY DEF IInv, IdleThresholdPasses, requestVars, TypeOK, HasSession,
     HoldersInFront, Holding, InCli
<1>3. SpawnerInFront' /\ SpawnsOnlyMissing'
  BY DEF IInv, IdleThresholdPasses, requestVars, TypeOK, SpawnerInFront,
     SpawnsOnlyMissing, Holds
<1>4. ResumesLatest' /\ RunningIsFresh'
  BY DEF IInv, IdleThresholdPasses, requestVars, TypeOK, HasSession,
     ResumesLatest, RunningIsFresh, Holding, InCli
<1> QED BY <1>1, <1>2, <1>3, <1>4 DEF IInv

\* The end of a sentinel process changes no line.
LEMMA SentinelExitsStep == ASSUME IInv, NEW s \in Requests, SentinelExits(s) PROVE IInv'
<1>1. TypeOK'
  BY DEF IInv, SentinelExits, requestVars, TypeOK, PCs, Holding, InCli
<1>2. HasSession' /\ HoldersInFront'
  BY DEF IInv, SentinelExits, requestVars, TypeOK, HasSession, HoldersInFront,
     Holding, InCli
<1>3. SpawnerInFront' /\ SpawnsOnlyMissing'
  BY DEF IInv, SentinelExits, requestVars, TypeOK, SpawnerInFront,
     SpawnsOnlyMissing, Holds
<1>4. ResumesLatest' /\ RunningIsFresh'
  BY DEF IInv, SentinelExits, requestVars, TypeOK, HasSession, ResumesLatest,
     RunningIsFresh, Holding, InCli
<1> QED BY <1>1, <1>2, <1>3, <1>4 DEF IInv

\* A sweep begins with the sessions that are in the table.
LEMMA SweepWakeStep == ASSUME IInv, SweepWake PROVE IInv'
<1>1. TypeOK'
  BY NoneOK DEF IInv, SweepWake, requestVars, sessionVars, TypeOK, PCs, Holding,
     InCli
<1>2. HasSession' /\ HoldersInFront'
  BY NoneOK DEF IInv, SweepWake, requestVars, sessionVars, TypeOK, HasSession,
     HoldersInFront, Holding, InCli
<1>3. SpawnerInFront' /\ SpawnsOnlyMissing'
  BY DEF IInv, SweepWake, requestVars, sessionVars, TypeOK, SpawnerInFront,
     SpawnsOnlyMissing, Holds
<1>4. ResumesLatest' /\ RunningIsFresh'
  BY DEF IInv, SweepWake, requestVars, sessionVars, TypeOK, HasSession,
     ResumesLatest, RunningIsFresh, Holding, InCli
<1> QED BY <1>1, <1>2, <1>3, <1>4 DEF IInv

\* SIGKILL changes where the sweeper is only.
LEMMA SweepKillStep == ASSUME IInv, SweepKill PROVE IInv'
<1>1. TypeOK'
  BY DEF IInv, SweepKill, requestVars, sessionVars, TypeOK, PCs, Holding, InCli
<1>2. HasSession' /\ HoldersInFront'
  BY DEF IInv, SweepKill, requestVars, sessionVars, TypeOK, HasSession,
     HoldersInFront, Holding, InCli
<1>3. SpawnerInFront' /\ SpawnsOnlyMissing'
  BY DEF IInv, SweepKill, requestVars, sessionVars, TypeOK, SpawnerInFront,
     SpawnsOnlyMissing, Holds
<1>4. ResumesLatest' /\ RunningIsFresh'
  BY DEF IInv, SweepKill, requestVars, sessionVars, TypeOK, HasSession,
     ResumesLatest, RunningIsFresh, Holding, InCli
<1> QED BY <1>1, <1>2, <1>3, <1>4 DEF IInv

\* The sweeper joins the table's line behind the spawner.
LEMMA SweepTerminatedStep == ASSUME IInv, SweepTerminated PROVE IInv'
<1>1. TypeOK'
  BY TableAppend DEF IInv, SweepTerminated, requestVars, sessionVars, TypeOK,
     PCs, Holding, InCli
<1>2. HasSession' /\ HoldersInFront'
  BY DEF IInv, SweepTerminated, requestVars, sessionVars, TypeOK, HasSession,
     HoldersInFront, Holding, InCli
<1>3. SpawnerInFront' /\ SpawnsOnlyMissing'
  BY TableAppend DEF IInv, SweepTerminated, requestVars, sessionVars, TypeOK,
     SpawnerInFront, SpawnsOnlyMissing, Holds
<1>4. ResumesLatest' /\ RunningIsFresh'
  BY DEF IInv, SweepTerminated, requestVars, sessionVars, TypeOK, HasSession,
     ResumesLatest, RunningIsFresh, Holding, InCli
<1> QED BY <1>1, <1>2, <1>3, <1>4 DEF IInv

\* The sweeper removes an entry in front of the table's line, so nobody spawns.
LEMMA SweepDropStep == ASSUME IInv, SweepDrop PROVE IInv'
<1>1. TypeOK'
  BY TableTail, NoneOK DEF IInv, SweepDrop, requestVars, sessionVars, TypeOK,
     PCs, Holding, InCli
<1>2. HasSession' /\ HoldersInFront'
  BY NoneOK DEF IInv, SweepDrop, requestVars, sessionVars, TypeOK, HasSession,
     HoldersInFront, Holding, InCli
<1>3. SpawnerInFront' /\ SpawnsOnlyMissing'
  BY SweeperOK DEF IInv, SweepDrop, requestVars, sessionVars, TypeOK,
     SpawnerInFront, SpawnsOnlyMissing, Holds
<1>4. ResumesLatest' /\ RunningIsFresh'
  BY DEF IInv, SweepDrop, requestVars, sessionVars, TypeOK, HasSession,
     ResumesLatest, RunningIsFresh, Holding, InCli
<1> QED BY <1>1, <1>2, <1>3, <1>4 DEF IInv

\* A sweep that has seen its snapshot sleeps again.
LEMMA SweepEndStep == ASSUME IInv, SweepEnd PROVE IInv'
<1>1. TypeOK'
  BY DEF IInv, SweepEnd, requestVars, sessionVars, TypeOK, PCs, Holding, InCli
<1>2. HasSession' /\ HoldersInFront'
  BY DEF IInv, SweepEnd, requestVars, sessionVars, TypeOK, HasSession,
     HoldersInFront, Holding, InCli
<1>3. SpawnerInFront' /\ SpawnsOnlyMissing'
  BY DEF IInv, SweepEnd, requestVars, sessionVars, TypeOK, SpawnerInFront,
     SpawnsOnlyMissing, Holds
<1>4. ResumesLatest' /\ RunningIsFresh'
  BY DEF IInv, SweepEnd, requestVars, sessionVars, TypeOK, HasSession,
     ResumesLatest, RunningIsFresh, Holding, InCli
<1> QED BY <1>1, <1>2, <1>3, <1>4 DEF IInv

\* Every step keeps the invariant.
LEMMA IInvStep == IInv /\ [Next]_vars => IInv'
<1> SUFFICES ASSUME IInv, [Next]_vars PROVE IInv'
  OBVIOUS
<1>1. CASE UNCHANGED vars
  BY <1>1 DEF IInv, TypeOK, HasSession, HoldersInFront, SpawnerInFront, SpawnsOnlyMissing,
     ResumesLatest, RunningIsFresh, vars, requestVars, sessionVars
<1>2. ASSUME NEW r \in Requests, Submit(r) \/ Handle(r) \/ Disconnect(r)
      PROVE  IInv'
  BY <1>2, SubmitStep, FindSessionStep, BeginSpawnStep, SpawnSessionStep, SpawnFailsStep,
     BeginTurnStep, TurnSucceedsStep, YieldCodexTextStep, TakeCodexTextStep, TurnFailsStep,
     TurnCrashesStep, DropSessionStep, DeliverStep, DisconnectStep DEF Handle
<1>3. ASSUME Sweep
      PROVE  IInv'
  BY <1>3, SweepWakeStep, SweepKillStep, SweepTerminatedStep, SweepDropStep, SweepEndStep,
     SweepKeepStep, SweepRecycleStep DEF Sweep
<1>4. ASSUME NEW s \in Requests, IdleThresholdPasses(s) \/ SentinelExits(s)
      PROVE  IInv'
  BY <1>4, IdleThresholdPassesStep, SentinelExitsStep
<1> QED BY <1>1, <1>2, <1>3, <1>4 DEF Next

\* The invariant holds in every run of the daemon.
LEMMA Invariance == Spec => []IInv
BY IInvInit, IInvStep, PTL DEF Spec

-----------------------------------------------------------------------------
(* The theorems *)

\* Every variable keeps its type in every run of the daemon.
THEOREM TypeCorrect == Spec => []TypeOK
<1>1. IInv => TypeOK
  BY DEF IInv
<1> QED BY <1>1, Invariance, PTL

\* Session.lock gives mutual exclusion on each Session object: two turns never run
\* on it at once, whatever fails, is cancelled or is recycled meanwhile.
THEOREM MutualExclusion == Spec => []OneTurnPerSession
BY FrontIsUnique, Invariance, PTL

\* cli_session_id is not changed by anybody else between the await that a turn
\* starts with and the assignment that it ends with.
THEOREM NoLostConversation == Spec => []ResumesLatest
<1>1. IInv => ResumesLatest
  BY DEF IInv
<1> QED BY <1>1, Invariance, PTL

\* The turns of a session are serial, for every set of requests and keys, with
\* crashes, cancellations and the sweeper: each runs alone and resumes the last.
THEOREM SerialSessions == Spec => []SessionsAreSerial
<1>1. OneTurnPerSession /\ ResumesLatest => SessionsAreSerial
  BY DEF SessionsAreSerial
<1> QED BY <1>1, MutualExclusion, NoLostConversation, PTL

\* get_or_create never makes a second session for a key that has one.
THEOREM NoDoubleSpawn == Spec => []SpawnsOnlyMissing
<1>1. IInv => SpawnsOnlyMissing
  BY DEF IInv
<1> QED BY <1>1, Invariance, PTL

\* An answered turn stays in its session's conversation for ever.
THEOREM ConversationsGrow == Spec => ConversationGrows
<1>1. ASSUME IInv, [Next]_vars, NEW s \in Requests
      PROVE  conversation[s] \subseteq conversation'[s]
  <2>1. ASSUME NEW r \in Requests, TurnSucceeds(r) \/ TakeCodexText(r)
        PROVE  conversation[s] \subseteq conversation'[s]
    <3>1. RecordTurn(r) /\ pc[r] \in InCli
      BY <2>1 DEF TurnSucceeds, TakeCodexText, InCli
    <3>2. resumed[r] = conversation[sess[r]]
      BY <1>1, <3>1 DEF IInv, ResumesLatest
    <3>3. conversation \in [Requests -> SUBSET Requests]
      BY <1>1 DEF IInv, TypeOK
    <3> QED BY <3>1, <3>2, <3>3 DEF RecordTurn
  <2>2. CASE UNCHANGED conversation
    BY <2>2
  <2> QED
    BY <1>1, <2>1, <2>2
       DEF Next, Handle, Sweep, Submit, FindSession, BeginSpawn, SpawnSession, SpawnFails,
           BeginTurn, YieldCodexText, TurnFails, TurnCrashes, DropSession, Deliver, Disconnect,
           SweepWake, SweepKeep, SweepRecycle, SweepKill, SweepTerminated, SweepDrop, SweepEnd,
           IdleThresholdPasses, SentinelExits, vars, sessionVars
<1>2. IInv /\ [Next]_vars =>
         [\A s \in Requests : conversation[s] \subseteq conversation'[s]]_conversation
  BY <1>1
<1> QED BY <1>2, Invariance, PTL DEF Spec, ConversationGrows

\* The sweeper never picks a session on which a turn runs at that moment.
THEOREM RunningTurnsSpared == Spec => SparesRunningTurns
<1>1. ASSUME IInv, [Next]_vars, NEW s \in Requests, sweep'.on = s, sweep.on # s,
             NEW r \in Requests, pc[r] = "turn", sess[r] = s
      PROVE  FALSE
  <2>1. idle[s] = FALSE
    BY <1>1 DEF IInv, TypeOK, RunningIsFresh
  <2>2. s # None
    BY NoneOK
  <2>3. sweep \in [at : {"sleep", "walk", "term", "kill", "drop"},
                  left : SUBSET Requests,
                  on : Requests \cup {None}]
    BY <1>1 DEF IInv, TypeOK
  <2>4. ASSUME NEW t \in Requests, Submit(t) \/ Handle(t) \/ Disconnect(t)
        PROVE  sweep' = sweep
    BY <2>4 DEF Handle, Submit, FindSession, BeginSpawn, SpawnSession, SpawnFails, BeginTurn,
       TurnSucceeds, YieldCodexText, TakeCodexText, TurnFails, TurnCrashes, DropSession,
       Deliver, Disconnect
  <2>5. ASSUME NEW t \in Requests, IdleThresholdPasses(t) \/ SentinelExits(t)
        PROVE  sweep' = sweep
    BY <2>5 DEF IdleThresholdPasses, SentinelExits
  <2>6. ASSUME SweepWake \/ SweepKill \/ SweepTerminated \/ SweepDrop \/ SweepEnd
        PROVE  sweep'.on \in {sweep.on, None}
    <3>1. SweepWake => sweep'.on = None
      <4> DEFINE snapshot == {t \in Requests : InTable(t)}
      <4>1. SweepWake => sweep' = [at |-> "walk", left |-> snapshot, on |-> None]
        BY DEF SweepWake
      <4> HIDE DEF snapshot
      <4> QED BY <4>1
    <3>2. SweepKill => sweep'.on = sweep.on
      BY <2>3 DEF SweepKill
    <3>3. SweepTerminated => sweep'.on = sweep.on
      BY <2>3 DEF SweepTerminated
    <3>4. SweepDrop => sweep'.on = None
      BY <2>3 DEF SweepDrop
    <3>5. SweepEnd => sweep'.on = sweep.on
      BY <2>3 DEF SweepEnd
    <3> QED BY <2>6, <3>1, <3>2, <3>3, <3>4, <3>5
  <2>7. ASSUME NEW t \in Requests, SweepKeep(t)
        PROVE  sweep'.on = sweep.on
    BY <2>3, <2>7 DEF SweepKeep
  <2>8. UNCHANGED vars => sweep' = sweep
    BY DEF vars
  <2>9. PICK t \in Requests : SweepRecycle(t)
    BY <1>1, <2>2, <2>4, <2>5, <2>6, <2>7, <2>8 DEF Next, Sweep
  <2>10. t = s /\ idle[t]
    BY <1>1, <2>3, <2>9 DEF SweepRecycle, DecideRecycle
  <2> QED BY <2>1, <2>10
<1>2. IInv /\ [Next]_vars =>
         [\A s \in Requests :
            sweep'.on = s /\ sweep.on # s =>
               ~ \E r \in Requests : pc[r] = "turn" /\ sess[r] = s]_sweep
  BY <1>1
<1> QED BY <1>2, Invariance, PTL DEF Spec, SparesRunningTurns

-----------------------------------------------------------------------------
(* The refinement of TurnLine.                                              *)

\* Whom session s serves: the mapping of TurnLine's served.
ServedBy(s) == {r \in Requests : sess[r] = s /\ pc[r] \in InCli}

\* The same line, and a step that serves nobody else, is no step of TurnLine.
LEMMA LineStutters ==
    ASSUME UNCHANGED turnLine,
           \A s \in Requests : ServedBy(s)' = ServedBy(s)
    PROVE  UNCHANGED Line!lineVars
BY DEF Line!lineVars, ServedBy

\* Who is served is alone, and stands in front of the line.
LEMMA ServedAlone ==
    ASSUME IInv, NEW r \in Requests, pc[r] \in Holding
    PROVE  /\ sess[r] \in Requests /\ turnLine[sess[r]] \in Seq(Requests)
           /\ turnLine[sess[r]] # <<>> /\ Head(turnLine[sess[r]]) = r
           /\ ServedBy(sess[r]) = IF pc[r] \in InCli THEN {r} ELSE {}
<1>1. sess[r] \in Requests /\ turnLine[sess[r]] \in Seq(Requests) /\ Holds(turnLine[sess[r]], r)
  BY DEF IInv, TypeOK, HasSession, HoldersInFront
<1>2. \A q \in Requests : sess[q] = sess[r] /\ pc[q] \in InCli => q = r
  BY FrontIsUnique DEF OneTurnPerSession, Holding
<1> QED BY <1>1, <1>2 DEF Holds, ServedBy

\* The front of a line leaves it from its first place.
LEMMA TailIsRemoval ==
    ASSUME NEW S, NEW line \in Seq(S), line # <<>>
    PROVE  Tail(line) = RemoveAt(line, 1) /\ 1 \in 1..Len(line) /\ Head(line) = line[1]
<1>1. SubSeq(line, 1, 0) = <<>> /\ SubSeq(line, 2, Len(line)) = Tail(line)
  OBVIOUS
<1>2. Tail(line) \in Seq(S)
  OBVIOUS
<1>3. RemoveAt(line, 1) = SubSeq(line, 1, 0) \o SubSeq(line, 2, Len(line))
  BY DEF RemoveAt
<1>4. <<>> \o Tail(line) = Tail(line)
  BY <1>2
<1> QED BY <1>1, <1>3, <1>4

\* What TurnLine does, it does for one session and one request.
LEMMA LineActs ==
    ASSUME NEW s \in Requests, NEW r \in Requests,
           Line!Join(s, r) \/ Line!Serve(s, r) \/ Line!Served(s, r)
           \/ Line!Leave(s, r) \/ Line!LeaveUnserved(s, r)
    PROVE  Line!LineNext
BY DEF Line!LineNext

\* A request that has its session joins the session's line.
LEMMA JoinStep ==
    ASSUME IInv, NEW r \in Requests, FindSession(r) \/ SpawnSession(r)
    PROVE  Line!LineNext
<1>1. PICK s \in Requests :
          /\ turnLine' = [turnLine EXCEPT ![s] = Append(@, r)]
          /\ pc[r] \notin InCli /\ pc' = [pc EXCEPT ![r] = "session"]
          /\ sess' = [sess EXCEPT ![r] = s]
  BY NoneOK DEF IInv, TypeOK, FindSession, SpawnSession, Goto, InCli
<1>2. [t \in Requests |-> ServedBy(t)]' = [t \in Requests |-> ServedBy(t)]
  BY <1>1 DEF ServedBy, IInv, TypeOK, InCli
<1>3. Line!Join(s, r)
  BY <1>1, <1>2 DEF Line!Join, ServedBy
<1> QED BY <1>3, LineActs

\* The lock's holder begins its turn.
LEMMA ServeStep ==
    ASSUME IInv, NEW r \in Requests, BeginTurn(r)
    PROVE  Line!LineNext
<1>1. PICK s \in Requests :
          /\ s = sess[r] /\ pc[r] = "session" /\ Holds(turnLine[s], r)
          /\ pc' = [pc EXCEPT ![r] = "turn"] /\ sess' = sess /\ turnLine' = turnLine
  BY DEF IInv, HasSession, BeginTurn, Goto
<1>2. ServedBy(s) = {}
  BY <1>1 DEF IInv, HoldersInFront, Holding, InCli, ServedBy, Holds
<1>3. \A t \in Requests : ServedBy(t)' = IF t = s THEN {r} ELSE ServedBy(t)
  BY <1>1, <1>2 DEF ServedBy, IInv, TypeOK, InCli
<1>4. [t \in Requests |-> ServedBy(t)]' = [[t \in Requests |-> ServedBy(t)] EXCEPT ![s] = {r}]
  BY <1>3
<1>5. Line!Serve(s, r)
  BY <1>1, <1>2, <1>4 DEF Line!Serve, ServedBy, Holds
<1> QED BY <1>5, LineActs

\* A turn ends, and its request keeps the lock or not.
LEMMA ServedStep ==
    ASSUME IInv, NEW r \in Requests, pc[r] \in InCli,
           \A q \in Requests \ {r} : pc'[q] = pc[q] /\ sess'[q] = sess[q],
           pc'[r] \notin InCli,
           turnLine' \in {turnLine, [turnLine EXCEPT ![sess[r]] = Tail(@)]}
    PROVE  Line!LineNext
<1>1. PICK s \in Requests : s = sess[r] /\ ServedBy(s) = {r}
  BY ServedAlone DEF Holding
<1>2. \A t \in Requests : ServedBy(t)' = IF t = s THEN {} ELSE ServedBy(t)
  BY <1>1 DEF ServedBy
<1>3. [t \in Requests |-> ServedBy(t)]' = [[t \in Requests |-> ServedBy(t)] EXCEPT ![s] = {}]
  BY <1>2
<1>4. Line!Served(s, r)
  BY <1>1, <1>3 DEF Line!Served, ServedBy
<1> QED BY <1>4, LineActs

\* A request leaves its session's line, served or not.
LEMMA LeaveStep ==
    ASSUME IInv, NEW r \in Requests, pc[r] \in {"session"} \cup Holding,
           \A q \in Requests \ {r} : pc'[q] = pc[q] /\ sess'[q] = sess[q],
           pc'[r] \notin InCli,
           NEW i \in 1..Len(turnLine[sess[r]]), turnLine[sess[r]][i] = r,
           turnLine' = [turnLine EXCEPT ![sess[r]] = RemoveAt(@, i)]
    PROVE  Line!LineNext
<1>1. PICK s \in Requests : s = sess[r]
  BY DEF IInv, HasSession
<1>2. CASE pc[r] \in InCli
  <2>1. ServedBy(s) = {r}
    BY <1>1, <1>2, ServedAlone DEF Holding
  <2>2. \A t \in Requests : ServedBy(t)' = IF t = s THEN {} ELSE ServedBy(t)
    BY <1>1, <2>1 DEF ServedBy
  <2>3. [t \in Requests |-> ServedBy(t)]' = [[t \in Requests |-> ServedBy(t)] EXCEPT ![s] = {}]
    BY <2>2
  <2>4. Line!Leave(s, r)
    BY <1>1, <2>1, <2>3 DEF Line!Leave, ServedBy, RemoveAt, Line!RemoveAt
  <2> QED BY <2>4, LineActs
<1>3. CASE pc[r] \notin InCli
  <2>1. r \notin ServedBy(s)
    BY <1>3 DEF ServedBy
  <2>2. [t \in Requests |-> ServedBy(t)]' = [t \in Requests |-> ServedBy(t)]
    BY <1>3 DEF ServedBy
  <2>3. Line!LeaveUnserved(s, r)
    BY <1>1, <2>1, <2>2 DEF Line!LeaveUnserved, ServedBy, RemoveAt, Line!RemoveAt
  <2> QED BY <2>3, LineActs
<1> QED BY <1>2, <1>3

\* The front of the line goes, served or not.
LEMMA EndStep ==
    ASSUME IInv, NEW r \in Requests, pc[r] \in Holding, EndTurn(r)
    PROVE  Line!LineNext
<1>1. /\ \A q \in Requests \ {r} : pc'[q] = pc[q] /\ sess'[q] = sess[q]
      /\ pc'[r] = "ended"
      /\ turnLine' = [turnLine EXCEPT ![sess[r]] = Tail(@)]
  BY DEF IInv, TypeOK, EndTurn, End, Goto
<1>2. /\ turnLine[sess[r]][1] = r /\ 1 \in 1..Len(turnLine[sess[r]])
      /\ Tail(turnLine[sess[r]]) = RemoveAt(turnLine[sess[r]], 1)
  BY ServedAlone, TailIsRemoval
<1> QED BY <1>1, <1>2, LeaveStep DEF InCli

\* A client that goes away leaves the line that it stands in, if any.
LEMMA DisconnectLineStep ==
    ASSUME IInv, NEW r \in Requests, Disconnect(r)
    PROVE  Line!LineNext \/ UNCHANGED Line!lineVars
<1>1. /\ \A q \in Requests \ {r} : pc'[q] = pc[q] /\ sess'[q] = sess[q]
      /\ pc'[r] = "ended"
  BY DEF IInv, TypeOK, Disconnect, End, Goto
<1>2. CASE pc[r] \in {"session"} \cup Holding
  <2>1. sess[r] \in Requests
    BY <1>2 DEF IInv, HasSession
  <2>2. PICK line : LeaveLine(turnLine[sess[r]], r, line)
                    /\ turnLine' = [turnLine EXCEPT ![sess[r]] = line]
    BY <1>2 DEF Disconnect
  <2>3. PICK i \in 1..Len(turnLine[sess[r]]) :
            turnLine[sess[r]][i] = r /\ line = RemoveAt(turnLine[sess[r]], i)
    BY <2>2 DEF LeaveLine
  <2>4. turnLine' = [turnLine EXCEPT ![sess[r]] = RemoveAt(@, i)]
    BY <2>2, <2>3
  <2> QED BY <1>1, <1>2, <2>3, <2>4, LeaveStep DEF InCli
<1>3. CASE pc[r] \notin {"session"} \cup Holding
  <2>1. UNCHANGED turnLine
    BY <1>3 DEF Disconnect
  <2>2. \A s \in Requests : ServedBy(s)' = ServedBy(s)
    BY <1>1, <1>3 DEF ServedBy, Holding, InCli
  <2> QED BY <2>1, <2>2, LineStutters
<1> QED BY <1>2, <1>3

\* Every step of the daemon is one of TurnLine, or none.
LEMMA LineStep ==
    ASSUME IInv, [Next]_vars
    PROVE  Line!LineNext \/ UNCHANGED Line!lineVars
<1>1. ASSUME NEW r \in Requests,
             Submit(r) \/ BeginSpawn(r) \/ SpawnFails(r) \/ YieldCodexText(r)
      PROVE  UNCHANGED Line!lineVars
  <2>1. UNCHANGED turnLine
    BY <1>1 DEF Submit, BeginSpawn, SpawnFails, YieldCodexText, sessionVars
  <2>2. \A q \in Requests :
            \/ sess'[q] = sess[q] /\ (pc'[q] \in InCli <=> pc[q] \in InCli)
            \/ pc[q] \notin InCli /\ pc'[q] \notin InCli
    BY <1>1 DEF IInv, TypeOK, Submit, BeginSpawn, SpawnFails, YieldCodexText, Goto, End, InCli
  <2>3. \A s \in Requests : ServedBy(s)' = ServedBy(s)
    BY <2>2 DEF ServedBy
  <2> QED BY <2>1, <2>3, LineStutters
<1>2. ASSUME NEW r \in Requests, TurnSucceeds(r) \/ TakeCodexText(r) \/ TurnFails(r) \/ TurnCrashes(r)
      PROVE  Line!LineNext
  <2>1. /\ pc[r] \in InCli /\ pc'[r] \notin InCli
        /\ \A q \in Requests \ {r} : pc'[q] = pc[q] /\ sess'[q] = sess[q]
        /\ turnLine' \in {turnLine, [turnLine EXCEPT ![sess[r]] = Tail(@)]}
    BY <1>2 DEF IInv, TypeOK, TurnSucceeds, TakeCodexText, TurnFails, TurnCrashes, Goto, EndTurn, End,
                InCli, sessionVars
  <2> QED BY <2>1, ServedStep
<1>3. ASSUME NEW r \in Requests, DropSession(r) \/ Deliver(r)
      PROVE  Line!LineNext \/ UNCHANGED Line!lineVars
  <2>1. pc[r] \in Holding \ InCli
    BY <1>3 DEF DropSession, Deliver, Holding, InCli
  <2>2. CASE EndTurn(r)
    BY <2>1, <2>2, EndStep
  <2>3. CASE Goto(r, "delivering") /\ UNCHANGED <<sess, turnLine>>
    <3>1. \A s \in Requests : ServedBy(s)' = ServedBy(s)
      BY <2>1, <2>3 DEF IInv, TypeOK, ServedBy, Goto, InCli
    <3> QED BY <2>3, <3>1, LineStutters
  <2> QED BY <1>3, <2>2, <2>3 DEF DropSession, Deliver
<1>4. ASSUME Sweep \/ (\E s \in Requests : IdleThresholdPasses(s) \/ SentinelExits(s)) \/ UNCHANGED vars
      PROVE  UNCHANGED Line!lineVars
  <2>1. UNCHANGED <<pc, sess, turnLine>>
    BY <1>4 DEF Sweep, SweepWake, SweepKill, SweepTerminated, SweepDrop, SweepEnd, SweepKeep, SweepRecycle,
                IdleThresholdPasses, SentinelExits, requestVars, sessionVars, vars
  <2> QED BY <2>1, LineStutters DEF ServedBy
<1> QED BY <1>1, <1>2, <1>3, <1>4, JoinStep, ServeStep, DisconnectLineStep DEF Next, Handle

\* Whatever is cancelled, fails or is recycled, what the daemon does to the lock of
\* each Session object is what TurnLine promises: turns run one at a time, in the
\* order in which the requests reached the lock (session_table.py, Session.lock).
THEOREM TurnsStandInLine == Spec => TurnsInOrder
<1>1. Init => Line!LineInit
  BY DEF Init, Line!LineInit, InCli
<1>2. IInv /\ [Next]_vars => [Line!LineNext]_(Line!lineVars)
  BY LineStep
<1> QED BY <1>1, <1>2, Invariance, PTL DEF Spec, TurnsInOrder, Line!LineSpec

(***************************************************************************)
(* CliTurns: for any number of turns.                                      *)
(***************************************************************************)

TurnRecords == [provider : Providers, streams : BOOLEAN,
         phase : Final \cup {"new", "starting", "streaming", "buffered", "counting", "reading", "updating"},
         runs : Seq(Outcomes), counts : BOOLEAN, thread : Turns \cup {None},
         current : Threads \cup {None}, got : Threads \cup {None}]
Rollouts == [file : BOOLEAN, limits : Threads \cup {None}]

CliTypeOK ==
    /\ turn \in [Turns -> TurnRecords]
    /\ children \in [Turns -> Int]
    /\ usage \in [of : Turns, limits : Threads \cup {None}] \cup {None}
    /\ rollouts \in [Threads -> Rollouts]
    /\ newest \in Threads \cup {None}

\* The limits in a thread's rollout are its own.
RolloutsAreOwn == \A th \in Threads : rollouts[th].limits \in {None, th}

\* What is told of a turn whose last run ended, or is about to be.
IsTrue(t) ==
    /\ turn[t].phase \in {"counting", "reading", "updating"} => Last(turn[t].runs) \in {"text", "empty"}
    /\ turn[t].phase = "completed" =>
          \/ Last(turn[t].runs) \in {"text", "empty"}
          \/ Last(turn[t].runs) = "cut" /\ turn[t].provider = "claude"
    /\ turn[t].phase = "updating" /\ turn[t].thread # None => turn[t].got \in {None, turn[t].thread}

CliInv == CliTypeOK /\ RolloutsAreOwn /\ \A t \in Turns : IsTrue(t)

\* The last of a sequence is what was appended to it.
LEMMA LastOfAppend ==
    ASSUME NEW S, NEW s \in Seq(S), NEW x \in S
    PROVE  Append(s, x) \in Seq(S) /\ Last(Append(s, x)) = x
BY DEF Last

\* A step that changes one turn, to one that is told the truth of.
LEMMA OneTurnKeeps ==
    ASSUME CliInv, NEW t \in Turns, NEW r \in TurnRecords, Sets(t, r), Files,
           children' \in [Turns -> Int],
           usage' \in [of : Turns, limits : Threads \cup {None}] \cup {None},
           r.phase \in {"counting", "reading", "updating"} => Last(r.runs) \in {"text", "empty"},
           r.phase = "completed" => Last(r.runs) \in {"text", "empty"} \/ (Last(r.runs) = "cut" /\ r.provider = "claude"),
           r.phase = "updating" /\ r.thread # None => r.got \in {None, r.thread}
    PROVE  CliInv'
<1>1. /\ turn' \in [Turns -> TurnRecords] /\ turn'[t] = r
      /\ \A u \in Turns \ {t} : turn'[u] = turn[u]
  BY DEF Sets, CliInv, CliTypeOK
<1>2. CliTypeOK' /\ RolloutsAreOwn'
  BY <1>1 DEF Files, CliInv, CliTypeOK, RolloutsAreOwn
<1>3. IsTrue(t)'
  BY <1>1 DEF IsTrue
<1>4. ASSUME NEW u \in Turns \ {t} PROVE IsTrue(u)'
  BY <1>1 DEF CliInv, IsTrue
<1> QED BY <1>2, <1>3, <1>4 DEF CliInv

\* A step of a turn keeps the invariant, for each step: a turn that its gate refuses,
LEMMA GateKeeps == ASSUME CliInv, NEW t \in Turns, Gate(t) PROVE CliInv'
<1> DEFINE r == [turn[t] EXCEPT !.phase = "refused"]
<1>1. r \in TurnRecords /\ r.phase = "refused"
  BY DEF CliInv, CliTypeOK, TurnRecords, Final
<1>2. Sets(t, r) /\ Files /\ UNCHANGED <<children, usage>>
  BY DEF Gate
<1> HIDE DEF r
<1> QED BY <1>1, <1>2, OneTurnKeeps DEF CliInv, CliTypeOK

\* one whose child is spawned,
LEMMA SpawnKeeps == ASSUME CliInv, NEW t \in Turns, Spawn(t) PROVE CliInv'
<1> DEFINE p == IF turn[t].streams /\ turn[t].provider # "auggie" THEN "starting" ELSE "buffered"
           r == [turn[t] EXCEPT !.phase = p]
<1>1. p \in {"starting", "buffered"}
  OBVIOUS
<1>2. Sets(t, r) /\ Files /\ UNCHANGED usage /\ children' = [children EXCEPT ![t] = children[t] + 1]
  BY DEF Spawn
<1> HIDE DEF p
<1>3. r \in TurnRecords /\ r.phase \in {"starting", "buffered"}
  BY <1>1 DEF CliInv, CliTypeOK, TurnRecords, Final
<1> HIDE DEF r
<1>4. children' \in [Turns -> Int]
  BY <1>2 DEF CliInv, CliTypeOK
<1> QED BY <1>2, <1>3, <1>4, OneTurnKeeps DEF CliInv, CliTypeOK

\* one that has told its first text,
LEMMA FirstTextKeeps == ASSUME CliInv, NEW t \in Turns, FirstText(t) PROVE CliInv'
<1> DEFINE r == [turn[t] EXCEPT !.phase = "streaming"]
<1>1. r \in TurnRecords /\ r.phase = "streaming"
  BY DEF CliInv, CliTypeOK, TurnRecords, Final
<1>2. Sets(t, r) /\ Files /\ UNCHANGED <<children, usage>>
  BY DEF FirstText
<1> HIDE DEF r
<1> QED BY <1>1, <1>2, OneTurnKeeps DEF CliInv, CliTypeOK

\* TurnRecords t after a run with outcome o.
Ended(t, o, p, n, th) == [turn[t] EXCEPT !.runs = Append(@, o), !.phase = p, !.counts = n, !.thread = th]

\* A run that ended: its outcome is the last one.
LEMMA EndedRun ==
    ASSUME CliInv, NEW t \in Turns, NEW o \in Outcomes, NEW p \in Final \cup {"buffered", "counting"},
           NEW n \in BOOLEAN, NEW th \in Turns \cup {None}
    PROVE  /\ Ended(t, o, p, n, th) \in TurnRecords /\ Ended(t, o, p, n, th).phase = p
           /\ Last(Ended(t, o, p, n, th).runs) = o
           /\ Ended(t, o, p, n, th).provider = turn[t].provider
<1> DEFINE runs == Append(turn[t].runs, o)
           r == [turn[t] EXCEPT !.runs = runs, !.phase = p, !.counts = n, !.thread = th]
<1>1. turn[t] \in TurnRecords
  BY DEF CliInv, CliTypeOK
<1>2. runs \in Seq(Outcomes) /\ Last(runs) = o
  BY <1>1, LastOfAppend DEF TurnRecords
<1> HIDE DEF runs
<1>3. r \in TurnRecords /\ r.phase = p /\ r.runs = runs /\ r.provider = turn[t].provider
  BY <1>1, <1>2 DEF TurnRecords
<1>4. r = Ended(t, o, p, n, th)
  BY DEF Ended, runs
<1> HIDE DEF r
<1> QED BY <1>2, <1>3, <1>4

\* A turn that goes on with another run, or ends, after a run.
LEMMA EndedKeeps ==
    ASSUME CliInv, NEW t \in Turns, NEW o \in Outcomes, NEW p \in Final \cup {"buffered", "counting"},
           NEW n \in BOOLEAN, NEW th \in Turns \cup {None},
           p = "counting" => o \in {"text", "empty"},
           p = "completed" => o \in {"text", "empty"} \/ (o = "cut" /\ turn[t].provider = "claude"),
           Sets(t, Ended(t, o, p, n, th)),
           children' \in [Turns -> Int], UNCHANGED usage, Files
    PROVE  CliInv'
<1> DEFINE r == Ended(t, o, p, n, th)
<1>1. r \in TurnRecords /\ r.phase = p /\ Last(r.runs) = o /\ r.provider = turn[t].provider
  BY EndedRun
<1>2. Sets(t, r)
  OBVIOUS
<1> HIDE DEF r
<1>3. p \notin {"reading", "updating"}
  BY DEF Final
<1> QED BY <1>1, <1>2, <1>3, OneTurnKeeps DEF CliInv, CliTypeOK

\* one whose stream failed,
LEMMA StreamFailsKeeps ==
    ASSUME CliInv, NEW t \in Turns, NEW reaped \in BOOLEAN, StreamFails(t, reaped)
    PROVE  CliInv'
<1>1. turn[t] \in TurnRecords
  BY DEF CliInv, CliTypeOK
<1>2. Sets(t, Ended(t, "failed", "buffered", turn[t].counts, turn[t].thread))
  BY <1>1 DEF StreamFails, Fallback, Ended, TurnRecords
<1>3. children' \in [Turns -> Int] /\ UNCHANGED usage /\ Files
  BY DEF StreamFails, CliInv, CliTypeOK
<1>4. "failed" \in Outcomes /\ turn[t].counts \in BOOLEAN /\ turn[t].thread \in Turns \cup {None}
  BY <1>1 DEF Outcomes, TurnRecords
<1> QED BY <1>2, <1>3, <1>4, EndedKeeps

\* was empty,
LEMMA StreamEmptyKeeps ==
    ASSUME CliInv, NEW t \in Turns, NEW counts \in BOOLEAN, NEW reaped \in BOOLEAN, StreamEmpty(t, counts, reaped)
    PROVE  CliInv'
<1>1. turn[t] \in TurnRecords
  BY DEF CliInv, CliTypeOK
<1> DEFINE p == IF turn[t].provider = "codex" THEN "completed" ELSE "buffered"
<1>2. Sets(t, Ended(t, "empty", p, counts, turn[t].thread))
  BY <1>1 DEF StreamEmpty, Fallback, Ended, TurnRecords
<1>3. children' \in [Turns -> Int] /\ UNCHANGED usage /\ Files
  BY DEF StreamEmpty, CliInv, CliTypeOK
<1>4. "empty" \in Outcomes /\ turn[t].thread \in Turns \cup {None} /\ p \in {"completed", "buffered"}
  BY <1>1 DEF Outcomes, TurnRecords
<1> HIDE DEF p
<1> QED BY <1>2, <1>3, <1>4, EndedKeeps DEF Final

\* has ended,
LEMMA StreamEndsKeeps ==
    ASSUME CliInv, NEW t \in Turns, NEW counts \in BOOLEAN, NEW reaped \in BOOLEAN, StreamEnds(t, counts, reaped)
    PROVE  CliInv'
<1>1. turn[t] \in TurnRecords
  BY DEF CliInv, CliTypeOK
<1>2. Sets(t, Ended(t, "text", "completed", counts, turn[t].thread))
  BY <1>1 DEF StreamEnds, Ended, TurnRecords
<1>3. children' \in [Turns -> Int] /\ UNCHANGED usage /\ Files
  BY DEF StreamEnds, CliInv, CliTypeOK
<1>4. "text" \in Outcomes /\ turn[t].thread \in Turns \cup {None}
  BY <1>1 DEF Outcomes, TurnRecords
<1> QED BY <1>2, <1>3, <1>4, EndedKeeps DEF Final

\* or was cut,
LEMMA StreamCutKeeps ==
    ASSUME CliInv, NEW t \in Turns, NEW timeout \in BOOLEAN, StreamCut(t, timeout)
    PROVE  CliInv'
<1>1. turn[t] \in TurnRecords
  BY DEF CliInv, CliTypeOK
<1> DEFINE benign == turn[t].provider = "claude" /\ ~timeout
           o == IF benign THEN "cut" ELSE "failed"
           p == IF benign THEN "completed" ELSE "error"
<1>2. Sets(t, Ended(t, o, p, turn[t].counts, turn[t].thread))
  BY <1>1 DEF StreamCut, Ended, TurnRecords
<1>3. children' \in [Turns -> Int] /\ UNCHANGED usage /\ Files
  BY DEF StreamCut, CliInv, CliTypeOK
<1>4. /\ o \in Outcomes /\ p \in {"completed", "error"}
      /\ p = "completed" => o = "cut" /\ turn[t].provider = "claude"
  BY DEF Outcomes
<1>5. turn[t].counts \in BOOLEAN /\ turn[t].thread \in Turns \cup {None}
  BY <1>1 DEF TurnRecords
<1> HIDE DEF o, p
<1> QED BY <1>2, <1>3, <1>4, <1>5, EndedKeeps DEF Final

\* one that was buffered,
LEMMA BufferedEndsKeeps ==
    ASSUME CliInv, NEW t \in Turns, NEW o \in Outcomes, NEW th \in {t, None}, BufferedEnds(t, o, th)
    PROVE  CliInv'
<1>1. turn[t] \in TurnRecords /\ o \in {"text", "empty", "failed"}
  BY DEF CliInv, CliTypeOK, BufferedEnds
<1> DEFINE n == turn[t].provider = "codex" /\ o # "failed"
           p == IF o = "failed" THEN "error" ELSE IF n /\ ~turn[t].streams THEN "counting" ELSE "completed"
<1>2. Sets(t, Ended(t, o, p, n, th))
  BY <1>1 DEF BufferedEnds, Ended, TurnRecords
<1>3. children' \in [Turns -> Int] /\ UNCHANGED usage /\ Files
  BY DEF BufferedEnds, CliInv, CliTypeOK
<1>4. n \in BOOLEAN /\ p \in {"error", "counting", "completed"} /\ (p # "error" => o \in {"text", "empty"})
  BY <1>1
<1> HIDE DEF n, p
<1> QED BY <1>2, <1>3, <1>4, EndedKeeps DEF Final

\* one whose usage is counted,
LEMMA CountsKeeps == ASSUME CliInv, NEW t \in Turns, Counts(t) PROVE CliInv'
<1>1. turn[t] \in TurnRecords /\ turn[t].phase = "counting" /\ Last(turn[t].runs) \in {"text", "empty"}
  BY DEF CliInv, CliTypeOK, Counts, IsTrue
<1> DEFINE l == IF usage = None THEN None ELSE usage.limits
           r == [turn[t] EXCEPT !.phase = "reading", !.current = l]
<1>2. l \in Threads \cup {None}
  BY DEF CliInv, CliTypeOK
<1>3. Sets(t, r) /\ Files /\ UNCHANGED <<children, usage>>
  BY DEF Counts
<1> HIDE DEF l
<1>4. r \in TurnRecords /\ r.phase = "reading" /\ r.runs = turn[t].runs
  BY <1>1, <1>2 DEF TurnRecords
<1> HIDE DEF r
<1>5. Last(r.runs) \in {"text", "empty"}
  BY <1>1, <1>4
<1> QED BY <1>3, <1>4, <1>5, OneTurnKeeps DEF CliInv, CliTypeOK

\* A thread that is known is read from its own rollout.
LEMMA ReadsRolloutKeeps == ASSUME CliInv, NEW t \in Turns, ReadsRollout(t) PROVE CliInv'
<1>1. turn[t] \in TurnRecords /\ turn[t].phase = "reading" /\ Last(turn[t].runs) \in {"text", "empty"}
  BY DEF CliInv, CliTypeOK, ReadsRollout, IsTrue
<1> DEFINE l == RateLimits(turn[t].thread)
           r == [turn[t] EXCEPT !.phase = "updating", !.got = l]
<1>2. turn[t].thread \in Turns \cup {None}
  BY <1>1 DEF TurnRecords
<1>3. l \in Threads \cup {None} /\ (turn[t].thread # None => l \in {None, turn[t].thread})
  BY <1>2 DEF CliInv, CliTypeOK, Rollouts, RolloutsAreOwn, RateLimits, Threads
<1>4. Sets(t, r) /\ Files /\ UNCHANGED <<children, usage>>
  BY DEF ReadsRollout
<1> HIDE DEF l
<1>5. r \in TurnRecords /\ r.phase = "updating" /\ r.runs = turn[t].runs /\ r.thread = turn[t].thread /\ r.got = l
  BY <1>1, <1>3 DEF TurnRecords
<1> HIDE DEF r
<1>6. Last(r.runs) \in {"text", "empty"} /\ (r.thread # None => r.got \in {None, r.thread})
  BY <1>1, <1>3, <1>5
<1> QED BY <1>4, <1>5, <1>6, OneTurnKeeps DEF CliInv, CliTypeOK

\* updated,
LEMMA UpdatesKeeps == ASSUME CliInv, NEW t \in Turns, Updates(t) PROVE CliInv'
<1>1. turn[t] \in TurnRecords /\ turn[t].phase = "updating" /\ Last(turn[t].runs) \in {"text", "empty"}
  BY DEF CliInv, CliTypeOK, Updates, IsTrue
<1> DEFINE r == [turn[t] EXCEPT !.phase = "completed"]
           l == IF turn[t].got # None THEN turn[t].got ELSE turn[t].current
<1>2. l \in Threads \cup {None}
  BY <1>1 DEF TurnRecords
<1>3. Sets(t, r) /\ Files /\ UNCHANGED children /\ usage' = [of |-> t, limits |-> l]
  BY DEF Updates
<1>4. r \in TurnRecords /\ r.phase = "completed" /\ r.runs = turn[t].runs
  BY <1>1 DEF TurnRecords, Final
<1> HIDE DEF r, l
<1>5. Last(r.runs) \in {"text", "empty"}
  BY <1>1, <1>4
<1>6. usage' \in [of : Turns, limits : Threads \cup {None}] \cup {None}
  BY <1>2, <1>3
<1> QED BY <1>3, <1>4, <1>5, <1>6, OneTurnKeeps DEF CliInv, CliTypeOK

\* and one whose child is collected.
LEMMA CollectKeeps == ASSUME CliInv, NEW t \in Turns, Collect(t) PROVE CliInv'
<1>1. children' \in [Turns -> Int] /\ UNCHANGED <<turn, usage, rollouts, newest>>
  BY DEF CliInv, CliTypeOK, Collect, Files
<1> QED BY <1>1 DEF CliInv, CliTypeOK, RolloutsAreOwn, IsTrue

\* A session writes its own limits, into its own file.
LEMMA WritesKeeps ==
    ASSUME CliInv, NEW th \in Threads, NEW known \in BOOLEAN, Writes(th, known)
    PROVE  CliInv'
<1>1. UNCHANGED <<turn, children, usage>> /\ newest' = th
      /\ rollouts' = [rollouts EXCEPT ![th] = Rollout(th, known)]
  BY DEF Writes
<1>2. Rollout(th, known) \in Rollouts /\ Rollout(th, known).limits \in {th, None}
  BY DEF Rollout, Rollouts
<1>3. rollouts' \in [Threads -> Rollouts] /\ RolloutsAreOwn'
  BY <1>1, <1>2 DEF CliInv, CliTypeOK, RolloutsAreOwn
<1>4. CliTypeOK'
  BY <1>1, <1>3 DEF CliInv, CliTypeOK
<1> QED BY <1>1, <1>3, <1>4 DEF CliInv, IsTrue

\* Each step of a turn keeps the invariant.
LEMMA CliStepKeeps == ASSUME CliInv, NEW t \in Turns, CliStep(t) PROVE CliInv'
<1>1. ASSUME NEW counts \in {FALSE, turn[t].provider = "codex"},
             NEW reaped \in {TRUE, turn[t].provider # "codex"},
             StreamEmpty(t, counts, reaped) \/ StreamEnds(t, counts, reaped)
      PROVE  CliInv'
  <2>1. counts \in BOOLEAN /\ reaped \in BOOLEAN
    OBVIOUS
  <2> QED BY <1>1, <2>1, StreamEmptyKeeps, StreamEndsKeeps
<1>2. ASSUME NEW reaped \in {TRUE, turn[t].provider # "claude"}, StreamFails(t, reaped)
      PROVE  CliInv'
  <2>1. reaped \in BOOLEAN
    OBVIOUS
  <2> QED BY <1>2, <2>1, StreamFailsKeeps
<1>3. ASSUME NEW timeout \in BOOLEAN, StreamCut(t, timeout) PROVE CliInv'
  BY <1>3, StreamCutKeeps
<1>4. ASSUME NEW o \in Outcomes, NEW th \in {t, None}, BufferedEnds(t, o, th) PROVE CliInv'
  BY <1>4, BufferedEndsKeeps
<1> QED BY <1>1, <1>2, <1>3, <1>4, GateKeeps, SpawnKeeps, FirstTextKeeps, CountsKeeps,
           ReadsRolloutKeeps, UpdatesKeeps DEF CliStep

\* Each step of the adapters does.
LEMMA StepKeeps == ASSUME CliInv, [CliNext]_cliVars PROVE CliInv'
<1>1. ASSUME NEW t \in Turns, CliStep(t) \/ Collect(t) PROVE CliInv'
  BY <1>1, CliStepKeeps, CollectKeeps
<1>2. ASSUME NEW th \in Threads, NEW known \in BOOLEAN, Writes(th, known) PROVE CliInv'
  BY <1>2, WritesKeeps
<1>3. CASE UNCHANGED cliVars
  BY <1>3 DEF cliVars, CliInv, CliTypeOK, RolloutsAreOwn, IsTrue
<1> QED BY <1>1, <1>2, <1>3 DEF CliNext

\* The invariant holds at first.
LEMMA InitHolds == CliInit => CliInv
<1> SUFFICES ASSUME CliInit PROVE CliInv
  OBVIOUS
<1>1. PICK provider \in [Turns -> Providers], streams \in [Turns -> BOOLEAN] :
          turn = [t \in Turns |->
              [provider |-> provider[t], streams |-> streams[t], phase |-> "new",
               runs |-> <<>>, counts |-> FALSE, thread |-> None,
               current |-> None, got |-> None]]
  BY DEF CliInit
<1>2. <<>> \in Seq(Outcomes)
  OBVIOUS
<1>3. turn \in [Turns -> TurnRecords] /\ \A t \in Turns : turn[t].phase = "new"
  BY <1>1, <1>2 DEF TurnRecords
<1>4. CliTypeOK /\ RolloutsAreOwn
  BY <1>3 DEF CliInit, CliTypeOK, RolloutsAreOwn, NoFile, Rollouts
<1> QED BY <1>3, <1>4 DEF CliInv, IsTrue

\* However many turns run, fall back and write to each other's usage, a turn is
\* only told to have completed when its last run did (claude's cut-off aside),
\* and only takes the limits of the session it knows to be its own (codex.py,
\* _stream_response and _update_usage_store).
THEOREM TurnsTellTheTruth == CliSpec => []ToldIsTrue
<1>1. CliInv => ToldIsTrue
  BY DEF CliInv, IsTrue, ToldIsTrue, NoFalseGreen, QuotaIsOwn
<1> QED BY <1>1, InitHolds, StepKeeps, PTL DEF CliSpec

(***************************************************************************)
(* Relay: for any number of frames and of turns.                           *)
(***************************************************************************)

AllIds == {"minted", "theirs"} \X Nat
EventKinds == Lifecycle \cup {"delta", "completed", "failed", "other"}
RelayEvents == [type : EventKinds, id : AllIds \cup {None}, keeps : Nat \cup {None}]
RelayRecords ==
    [adapter : Relays, n : Nat, phase : {"idle", "asking", "open", "ended", "done", "error"},
     streams : BOOLEAN, id : AllIds \cup {None}, started : BOOLEAN, synthetic : BOOLEAN, text : Nat,
     completed : AllIds \cup {None}, next : Seq(RelayEvents), wire : Seq(RelayEvents), stopped : BOOLEAN]
Ends == {None, "redirect", "refused", "broken", "eof"}
UpstreamRecords == [frames : Nat, end : Ends, completed : BOOLEAN]

RelayTypeOK ==
    /\ relay \in RelayRecords /\ upstream \in UpstreamRecords
    /\ \A k \in DOMAIN kept : k \in AllIds /\ k[2] <= relay.n /\ kept[k] \in Nat

\* How many of the first n events of s are of a type.
CountOf(s, type, n) == Cardinality({i \in 1..n : s[i].type = type})
Deltas(s) == CountOf(s, "delta", Len(s))
Coming(s) == IF \E i \in DOMAIN s : s[i].type = "delta" THEN 1 ELSE 0

\* The id that a turn is told under.
TurnId(r) == IF r.adapter \in ResponsesRelays \ {"codex-direct"} THEN Theirs(r.n) ELSE r.id
Runs(r) == r.phase \in {"open", "ended"}

\* An adapter of chat completions mints its id; codex-direct does unless its
\* upstream begins with a lifecycle of its own.
IdOK(r) ==
    Runs(r) =>
        /\ r.adapter \in ChatRelays => r.id = Minted(r.n)
        /\ r.adapter = "codex-direct" =>
              /\ r.id \in {Minted(r.n), Theirs(r.n)}
              /\ r.phase = "open" /\ ~r.started => r.wire = <<>> /\ r.next = <<>> /\ r.id = Minted(r.n)
              /\ r.phase = "open" /\ r.started /\ ~r.synthetic => r.id = Theirs(r.n)

Told(r, id) ==
    /\ \A i \in DOMAIN r.wire : r.wire[i].id \in {None, id}
    /\ \A i \in DOMAIN r.next : r.next[i].id \in {None, id}
NamesOK(r) ==
    /\ \E id \in {Minted(r.n), Theirs(r.n)} : Told(r, id)
    /\ Runs(r) => Told(r, TurnId(r))

\* What is kept is at least what was told by then.
NextOK(r) ==
    /\ \A i \in DOMAIN r.next :
          /\ r.next[i].keeps \in {None, r.text}
          /\ r.next[i].keeps # None => r.next[i].type = "completed" /\ r.next[i].id # None
          /\ r.adapter \in Keepers /\ r.next[i].type = "completed" /\ r.next[i].id # None => r.next[i].keeps # None
    /\ \A i, j \in DOMAIN r.next : r.next[i].type = "delta" /\ r.next[j].type = "delta" => i = j
    /\ Deltas(r.wire) + Coming(r.next) <= r.text

Completes(e, id) == e.type = "completed" /\ e.id = id
KeptOK ==
    /\ CompletedIsKept
    /\ \A k \in DOMAIN kept \cap {Minted(relay.n), Theirs(relay.n)} :
          \E i \in DOMAIN relay.wire : Completes(relay.wire[i], k)
    /\ relay.adapter = "openai" /\ relay.phase = "open" /\ relay.completed # None =>
          \/ \E i \in DOMAIN relay.wire : Completes(relay.wire[i], relay.completed)
          \/ \E i \in DOMAIN relay.next : Completes(relay.next[i], relay.completed)

\* Nothing is told as completed that was not, but at the end of a stream.
Incomplete(r) ==
    /\ \A i \in DOMAIN r.wire : r.wire[i].type # "completed"
    /\ \A i \in DOMAIN r.next : r.next[i].type # "completed"
Failed(r, u) == u.end = "broken" \/ (u.end = "refused" /\ r.adapter # "openrouter")
PhaseOK(r, u) ==
    /\ r.phase \in {"idle", "asking"} => r.wire = <<>>
    /\ r.phase \in {"idle", "asking", "error"} => r.next = <<>>
    /\ r.phase = "done" => r.next = <<>> \/ r.stopped
    /\ r.stopped => r.phase = "done"
    /\ r.phase \in {"open", "error"} /\ ~u.completed => Incomplete(r)
    /\ Failed(r, u) => r.phase = "error"
    /\ r.phase = "asking" => u.end = None

RelayInv == RelayTypeOK /\ IdOK(relay) /\ NamesOK(relay) /\ NextOK(relay) /\ KeptOK /\ PhaseOK(relay, upstream)

-----------------------------------------------------------------------------
\* A count of events is a number.
LEMMA CountIsNatural ==
    ASSUME NEW s, NEW type, NEW n \in Nat PROVE CountOf(s, type, n) \in Nat
<1>1. IsFiniteSet(1..n)
  BY FS_Interval
<1>2. IsFiniteSet({i \in 1..n : s[i].type = type})
  BY <1>1, FS_Subset
<1> QED BY <1>2, FS_CardinalityType DEF CountOf

\* A prefix has no more of them.
LEMMA CountGrows ==
    ASSUME NEW s, NEW type, NEW n \in Nat, NEW m \in 0..n
    PROVE  CountOf(s, type, m) <= CountOf(s, type, n)
<1> DEFINE S == {i \in 1..m : s[i].type = type}
           T == {i \in 1..n : s[i].type = type}
<1>1. IsFiniteSet(1..n)
  BY FS_Interval
<1>2. IsFiniteSet(T) /\ S \subseteq T
  BY <1>1, FS_Subset
<1>3. Cardinality(S) <= Cardinality(T)
  BY <1>2, FS_Subset
<1> QED BY <1>3 DEF CountOf

\* Sequences that begin alike have the same counts there.
LEMMA CountOfSame ==
    ASSUME NEW s, NEW r, NEW type, NEW n \in Nat, \A i \in 1..n : r[i] = s[i]
    PROVE  CountOf(r, type, n) = CountOf(s, type, n)
<1>1. {i \in 1..n : r[i].type = type} = {i \in 1..n : s[i].type = type}
  OBVIOUS
<1> QED BY <1>1 DEF CountOf

\* One event more adds one to the count of its type.
LEMMA CountOfNext ==
    ASSUME NEW s, NEW type, NEW n \in Nat
    PROVE  CountOf(s, type, n + 1) = CountOf(s, type, n) + (IF s[n + 1].type = type THEN 1 ELSE 0)
<1> DEFINE S == {i \in 1..n : s[i].type = type}
           T == {i \in 1..(n + 1) : s[i].type = type}
<1>1. IsFiniteSet(S) /\ n + 1 \notin S
  <2>1. IsFiniteSet(1..n)
    BY FS_Interval
  <2> QED BY <2>1, FS_Subset
<1>4. CountOf(s, type, n) = Cardinality(S) /\ CountOf(s, type, n + 1) = Cardinality(T)
  BY DEF CountOf
<1>2. CASE s[n + 1].type = type
  <2>1. T = S \cup {n + 1}
    BY <1>2
  <2>2. Cardinality(S \cup {n + 1}) = Cardinality(S) + 1
    BY <1>1, FS_AddElement
  <2> HIDE DEF S, T
  <2> QED BY <1>2, <1>4, <2>1, <2>2
<1>3. CASE s[n + 1].type # type
  <2>1. T = S
    BY <1>3
  <2>2. Cardinality(S) \in Nat
    BY <1>1, FS_CardinalityType
  <2> HIDE DEF S, T
  <2> QED BY <1>3, <1>4, <2>1, <2>2
<1> QED BY <1>2, <1>3

\* A fragment that is appended is counted.
LEMMA DeltasAppend ==
    ASSUME NEW s \in Seq(RelayEvents), NEW e \in RelayEvents
    PROVE  /\ Deltas(s) \in Nat
           /\ Deltas(Append(s, e)) = Deltas(s) + (IF e.type = "delta" THEN 1 ELSE 0)
<1> DEFINE r == Append(s, e)
           l == Len(s)
<1>1. l \in Nat /\ Len(r) = l + 1 /\ r[l + 1] = e /\ \A i \in 1..l : r[i] = s[i]
  OBVIOUS
<1> HIDE DEF r, l
<1>2. CountOf(r, "delta", l) = CountOf(s, "delta", l)
  BY <1>1, CountOfSame
<1>3. CountOf(r, "delta", l + 1) = CountOf(r, "delta", l) + (IF r[l + 1].type = "delta" THEN 1 ELSE 0)
  BY <1>1, CountOfNext
<1>4. CountOf(s, "delta", l) \in Nat
  BY <1>1, CountIsNatural
<1> QED BY <1>1, <1>2, <1>3, <1>4 DEF Deltas, r, l

\* Nothing has no fragments.
LEMMA NoDeltas == Deltas(<<>>) = 0
<1>1. {i \in 1..0 : <<>>[i].type = "delta"} = {}
  OBVIOUS
<1>2. Len(<<>>) = 0
  OBVIOUS
<1> QED BY <1>1, <1>2, FS_EmptySet DEF Deltas, CountOf

\* What the invariant says of the properties.
LEMMA RelayHonest == RelayInv => RelayIsHonest
<1> SUFFICES ASSUME RelayInv PROVE RelayIsHonest
  OBVIOUS
<1> USE DEF RelayInv
<1>1. DOMAIN kept \cap {Minted(relay.n), Theirs(relay.n)} \subseteq Ids(relay)
  <2> SUFFICES ASSUME NEW k \in DOMAIN kept \cap {Minted(relay.n), Theirs(relay.n)} PROVE k \in Ids(relay)
    OBVIOUS
  <2>1. PICK i \in DOMAIN relay.wire : relay.wire[i].id = k
    BY DEF KeptOK, Completes
  <2>2. k # None
    BY NoneIsNoId DEF Minted, Theirs, AllIds, RelayTypeOK
  <2> QED BY <2>1, <2>2 DEF Ids
<1>2. Cardinality(Ids(relay)) <= 1
  <2>1. PICK id : \A i \in DOMAIN relay.wire : relay.wire[i].id \in {None, id}
    BY DEF NamesOK, Told
  <2>2. Ids(relay) \subseteq {id}
    BY <2>1 DEF Ids
  <2>3. IsFiniteSet({id}) /\ Cardinality({id}) = 1
    BY FS_Singleton
  <2>4. Cardinality(Ids(relay)) <= Cardinality({id})
    BY <2>2, <2>3, FS_Subset
  <2> QED BY <2>3, <2>4
<1>3. FailuresAreErrors
  <2> SUFFICES ASSUME Failed(relay, upstream)
               PROVE  /\ relay.phase = "error"
                      /\ \/ upstream.completed
                         \/ /\ \A i \in DOMAIN relay.wire : relay.wire[i].type # "completed"
                            /\ DOMAIN kept \cap {Minted(relay.n), Theirs(relay.n)} = {}
    BY DEF Failed, FailuresAreErrors
  <2>1. relay.phase = "error"
    BY DEF PhaseOK
  <2>2. ASSUME ~upstream.completed
        PROVE  /\ \A i \in DOMAIN relay.wire : relay.wire[i].type # "completed"
               /\ DOMAIN kept \cap {Minted(relay.n), Theirs(relay.n)} = {}
    BY <2>1, <2>2 DEF PhaseOK, Incomplete, KeptOK, Completes
  <2> QED BY <2>1, <2>2
<1> QED BY <1>1, <1>2, <1>3 DEF RelayIsHonest, OneIdPerStream, KeptOK

-----------------------------------------------------------------------------
\* What a step of the generator yields fits what was told before.
Fits(r, e) ==
    /\ e.id \in {None, TurnId(r)} /\ e.keeps \in {None, r.text}
    /\ e.keeps # None => e.type = "completed" /\ e.id # None
    /\ r.adapter \in Keepers /\ e.type = "completed" /\ e.id # None => e.keeps # None

\* A step of the generator: it reads or ends, and yields what is then to be taken.
Yields(r, u) ==
    /\ relay.phase = "open" /\ relay.next = <<>> /\ ~relay.stopped
    /\ r \in RelayRecords /\ u \in UpstreamRecords
    /\ r.adapter = relay.adapter /\ r.n = relay.n /\ r.streams = relay.streams
    /\ r.wire = relay.wire /\ ~r.stopped /\ Runs(r) /\ IdOK(r)
    /\ TurnId(r) = TurnId(relay) \/ relay.wire = <<>>
    /\ TurnId(r) \in {Minted(r.n), Theirs(r.n)}
    /\ \A i \in DOMAIN r.next : Fits(r, r.next[i])
    /\ \A i, j \in DOMAIN r.next : r.next[i].type = "delta" /\ r.next[j].type = "delta" => i = j
    /\ r.text >= relay.text + Coming(r.next)
    /\ ~Failed(r, u)
    /\ r.phase = "open" /\ ~u.completed =>
          ~upstream.completed /\ \A i \in DOMAIN r.next : r.next[i].type # "completed"
    /\ r.adapter = "openai" /\ r.phase = "open" /\ r.completed # relay.completed =>
          \E i \in DOMAIN r.next : Completes(r.next[i], r.completed)

\* openai keeps what its stream has told as completed when that has ended.
KeepsAtEnd == relay.adapter = "openai" /\ relay.completed # None /\ Keeps(relay.completed, relay.text)

\* What is kept of the turn stays kept while it goes on.
LEMMA YieldsKeeps ==
    ASSUME RelayInv, Yields(relay', upstream'), kept' = kept \/ KeepsAtEnd
    PROVE  RelayInv'
<1> USE DEF RelayInv
<1>0. ASSUME KeepsAtEnd
      PROVE  /\ DOMAIN kept' = DOMAIN kept \cup {relay.completed}
             /\ \A k \in DOMAIN kept' : kept'[k] = IF k = relay.completed THEN relay.text ELSE kept[k]
             /\ relay.completed \in AllIds
             /\ \E i \in DOMAIN relay.wire : Completes(relay.wire[i], relay.completed)
             /\ relay.completed = Theirs(relay.n)
  <2>1. /\ DOMAIN kept' = DOMAIN kept \cup {relay.completed}
        /\ \A k \in DOMAIN kept' : kept'[k] = IF k = relay.completed THEN relay.text ELSE kept[k]
    BY <1>0 DEF KeepsAtEnd, Keeps
  <2>2. PICK i \in DOMAIN relay.wire : Completes(relay.wire[i], relay.completed)
    BY <1>0 DEF KeepsAtEnd, KeptOK, Yields
  <2>3. relay.wire[i].id \in {None, TurnId(relay)} /\ TurnId(relay) = Theirs(relay.n)
    BY <1>0 DEF KeepsAtEnd, NamesOK, Told, Runs, Yields, TurnId, ResponsesRelays
  <2>4. relay.completed = Theirs(relay.n)
    BY <1>0, <2>2, <2>3 DEF KeepsAtEnd, Completes
  <2>5. relay.completed \in AllIds
    BY <1>0 DEF KeepsAtEnd, RelayTypeOK, RelayRecords
  <2> QED BY <2>1, <2>2, <2>4, <2>5
<1>1. RelayTypeOK'
  <2>1. CASE kept' = kept
    BY <2>1 DEF RelayTypeOK, Yields
  <2>2. CASE KeepsAtEnd
    <3>1. relay.n \in Nat /\ relay'.n = relay.n /\ relay.text \in Nat
      BY DEF RelayTypeOK, RelayRecords, Yields
    <3>2. Theirs(relay.n)[2] = relay.n
      BY DEF Theirs
    <3>3. \A k \in DOMAIN kept' : k \in AllIds /\ k[2] <= relay'.n /\ kept'[k] \in Nat
      BY <1>0, <2>2, <3>1, <3>2 DEF RelayTypeOK
    <3> QED BY <3>3 DEF RelayTypeOK, Yields
  <2> QED BY <2>1, <2>2
<1>2. IdOK(relay)'
  BY DEF Yields
<1>3. NamesOK(relay)'
  <2>1. \A i \in DOMAIN relay'.next : relay'.next[i].id \in {None, TurnId(relay')}
    BY DEF Yields, Fits
  <2>2. \A i \in DOMAIN relay'.wire : relay'.wire[i].id \in {None, TurnId(relay')}
    <3>1. CASE TurnId(relay') = TurnId(relay)
      BY <3>1 DEF Yields, NamesOK, Told, Runs
    <3>2. CASE relay.wire = <<>>
      BY <3>2 DEF Yields
    <3> QED BY <3>1, <3>2 DEF Yields
  <2>3. Told(relay', TurnId(relay')) /\ TurnId(relay') \in {Minted(relay'.n), Theirs(relay'.n)}
    BY <2>1, <2>2 DEF Told, Yields
  <2> QED BY <2>3 DEF NamesOK
<1>4. NextOK(relay)'
  <2>1. Deltas(relay.wire) \in Nat
    <3>1. Len(relay.wire) \in Nat
      BY DEF RelayTypeOK, RelayRecords
    <3> QED BY <3>1, CountIsNatural DEF Deltas
  <2>2. Deltas(relay.wire) <= relay.text /\ relay.text \in Nat /\ relay'.text \in Nat
    <3>1. Coming(relay.next) \in {0, 1} /\ relay.text \in Nat /\ relay'.text \in Nat
      BY DEF Coming, RelayTypeOK, RelayRecords, Yields
    <3> QED BY <2>1, <3>1 DEF NextOK
  <2>3. Coming(relay'.next) \in {0, 1}
    BY DEF Coming
  <2>4. Deltas(relay'.wire) + Coming(relay'.next) <= relay'.text
    BY <2>1, <2>2, <2>3 DEF Yields
  <2> QED BY <2>4 DEF NextOK, Yields, Fits
<1>5. KeptOK'
  <2>1. CompletedIsKept'
    <3>1. CASE kept' = kept
      BY <3>1 DEF KeptOK, CompletedIsKept, Yields
    <3>2. CASE KeepsAtEnd
      BY <3>2 DEF CompletedIsKept, KeepsAtEnd, Yields, Keepers, ChatRelays
    <3> QED BY <3>1, <3>2
  <2>2. relay'.adapter = "openai" /\ relay'.phase = "open" /\ relay'.completed # None =>
          \/ \E i \in DOMAIN relay'.wire : Completes(relay'.wire[i], relay'.completed)
          \/ \E i \in DOMAIN relay'.next : Completes(relay'.next[i], relay'.completed)
    BY DEF KeptOK, Yields
  <2>3. \A k \in DOMAIN kept' \cap {Minted(relay.n), Theirs(relay.n)} :
          \E i \in DOMAIN relay.wire : Completes(relay.wire[i], k)
    BY <1>0 DEF KeptOK
  <2> QED BY <2>1, <2>2, <2>3 DEF KeptOK, Yields
<1>6. PhaseOK(relay, upstream)'
  BY DEF PhaseOK, Yields, Runs, Incomplete
<1> QED BY <1>1, <1>2, <1>3, <1>4, <1>5, <1>6

\* Nothing was told yet: the turn begins, or it is asked about.
Blank(r) == r.wire = <<>> /\ r.next = <<>> /\ r.text = 0 /\ r.completed = None /\ ~r.stopped
AskingIsBlank == relay.phase = "asking" => Blank(relay) /\ ~relay.started /\ ~relay.synthetic /\ relay.id = Minted(relay.n)

\* A turn that has told nothing satisfies the invariant, if nothing is kept under its ids.
LEMMA BlankKeeps ==
    ASSUME RelayInv, RelayTypeOK', Blank(relay'), IdOK(relay'), kept' = kept,
           TurnId(relay') \in {Minted(relay'.n), Theirs(relay'.n)},
           \A k \in DOMAIN kept : k \notin {Minted(relay'.n), Theirs(relay'.n)},
           Failed(relay', upstream') => relay'.phase = "error",
           relay'.phase = "asking" => upstream'.end = None
    PROVE  RelayInv'
<1> USE DEF RelayInv, Blank
<1>1. NamesOK(relay)'
  BY DEF NamesOK, Told
<1>2. NextOK(relay)'
  <2>1. Deltas(relay'.wire) = 0 /\ Coming(relay'.next) = 0
    BY NoDeltas DEF Coming
  <2> QED BY <2>1 DEF NextOK
<1>3. KeptOK'
  BY DEF KeptOK, CompletedIsKept
<1>4. PhaseOK(relay, upstream)'
  BY DEF PhaseOK, Incomplete
<1> QED BY <1>1, <1>2, <1>3, <1>4

\* A later turn has other ids.
LEMMA LaterIsNew ==
    ASSUME RelayInv PROVE \A k \in DOMAIN kept : k \notin {Minted(relay.n + 1), Theirs(relay.n + 1)}
<1> SUFFICES ASSUME NEW k \in DOMAIN kept PROVE k[2] # relay.n + 1
  BY DEF Minted, Theirs
<1>1. k[2] <= relay.n /\ k[2] \in Nat /\ relay.n \in Nat
  BY DEF RelayInv, RelayTypeOK, RelayRecords, AllIds
<1> QED BY <1>1

\* A turn begins.
LEMMA BeginKeeps ==
    ASSUME RelayInv, NEW s \in BOOLEAN, NEW a \in BOOLEAN, Begin(s, a)
    PROVE  RelayInv' /\ AskingIsBlank'
<1> DEFINE n == relay.n + 1
           p == IF a THEN "asking" ELSE "error"
<1>1. n \in Nat /\ Minted(n) \in AllIds /\ p \in {"asking", "error"}
  BY DEF RelayInv, RelayTypeOK, RelayRecords, Minted, AllIds
<1>2. relay' = [relay EXCEPT !.n = n, !.phase = p, !.streams = s, !.id = Minted(n), !.started = FALSE,
                             !.synthetic = FALSE, !.text = 0, !.completed = None,
                             !.next = <<>>, !.wire = <<>>, !.stopped = FALSE]
  BY DEF Begin, Turn
<1>3. upstream' = [frames |-> 0, end |-> None, completed |-> FALSE] /\ kept' = kept
  BY DEF Begin, Upstream, Kept
<1>4. \A k \in DOMAIN kept : k \notin {Minted(n), Theirs(n)} /\ k \in AllIds /\ k[2] <= n /\ kept[k] \in Nat
  <2>1. \A k \in DOMAIN kept : k \in AllIds /\ k[2] <= relay.n /\ kept[k] \in Nat
    BY DEF RelayInv, RelayTypeOK
  <2>2. relay.n \in Nat /\ \A k \in AllIds : k[2] \in Nat
    BY DEF RelayInv, RelayTypeOK, RelayRecords, AllIds
  <2> QED BY <2>1, <2>2, LaterIsNew
<1> HIDE DEF n, p
<1>5. <<>> \in Seq(RelayEvents)
  OBVIOUS
<1>6. /\ relay' \in RelayRecords /\ relay'.n = n /\ relay'.phase = p /\ relay'.id = Minted(n)
      /\ Blank(relay') /\ ~relay'.started /\ ~relay'.synthetic
  BY <1>1, <1>2, <1>5 DEF RelayInv, RelayTypeOK, RelayRecords, Blank
<1>7. RelayTypeOK' /\ upstream'.end = None
  BY <1>3, <1>4, <1>6 DEF RelayTypeOK, UpstreamRecords, Ends
<1>8. IdOK(relay') /\ TurnId(relay') \in {Minted(relay'.n), Theirs(relay'.n)}
  BY <1>1, <1>6 DEF IdOK, TurnId, Runs
<1>9. ~Failed(relay', upstream')
  BY <1>7, NoneIsNoEnd DEF Failed
<1>10. AskingIsBlank'
  BY <1>6 DEF AskingIsBlank
<1>11. RelayInv'
  BY <1>3, <1>4, <1>6, <1>7, <1>8, <1>9, BlankKeeps
<1> QED BY <1>10, <1>11

\* What refuses a stream, for each client.
LEMMA ClientsRefuse ==
    ASSUME RelayInv, Client["refused"] = {"go"} PROVE relay.adapter = "openrouter"
<1>1. relay.adapter \in Relays
  BY DEF RelayInv, RelayTypeOK, RelayRecords
<1>2. {"break"} # {"go"}
  OBVIOUS
<1> USE <1>2 DEF Client, DeepSeekClient, OpenCodeClient, KimiClient, CopilotChatClient, CopilotClient, DirectClient,
         OpenAIClient, OllamaClient
<1>3. CASE relay.adapter = "deepseek"
  BY <1>3
<1>4. CASE relay.adapter = "opencode"
  BY <1>4
<1>5. CASE relay.adapter = "kimi"
  BY <1>5
<1>6. CASE relay.adapter = "copilot-chat"
  BY <1>6
<1>7. CASE relay.adapter = "copilot"
  BY <1>7
<1>8. CASE relay.adapter \in {"codex-direct", "openai"}
  BY <1>8
<1>9. CASE relay.adapter = "ollama"
  BY <1>9
<1> QED BY <1>1, <1>3, <1>4, <1>5, <1>6, <1>7, <1>8, <1>9 DEF Relays, ResponsesRelays, ChatRelays

\* The upstream answers a stream with a status.
LEMMA AnswersKeeps ==
    ASSUME RelayInv, AskingIsBlank, NEW status \in Statuses, Answers(status)
    PROVE  RelayInv' /\ AskingIsBlank'
<1> DEFINE p == IF Client[status] = {"go"} THEN "open" ELSE "error"
           e == IF status = "ok" THEN None ELSE status
<1>1. /\ relay.phase = "asking" /\ relay' = [relay EXCEPT !.phase = p] /\ upstream' = [upstream EXCEPT !.end = e]
      /\ kept' = kept
  BY DEF Answers, Turn, Upstream, Kept
<1>2. p \in {"open", "error"} /\ e \in Ends /\ (e # "broken") /\ (e = "refused" /\ p = "open" => relay.adapter = "openrouter")
  BY ClientsRefuse, NoneIsNoEnd DEF Statuses, Ends
<1> HIDE DEF p, e
<1>3. /\ relay' \in RelayRecords /\ upstream' \in UpstreamRecords /\ upstream'.end = e /\ relay'.phase = p
      /\ Blank(relay') /\ relay'.id = Minted(relay.n) /\ relay'.n = relay.n /\ relay'.adapter = relay.adapter
      /\ ~relay'.started
  BY <1>1, <1>2 DEF RelayInv, RelayTypeOK, RelayRecords, UpstreamRecords, Blank, AskingIsBlank
<1>4. RelayTypeOK'
  BY <1>1, <1>3 DEF RelayInv, RelayTypeOK
<1>5. \A k \in DOMAIN kept : k \notin {Minted(relay'.n), Theirs(relay'.n)}
  BY <1>1, <1>3 DEF RelayInv, KeptOK, PhaseOK
<1>6. IdOK(relay') /\ TurnId(relay') \in {Minted(relay'.n), Theirs(relay'.n)}
  BY <1>2, <1>3 DEF IdOK, TurnId, Blank
<1>7. Failed(relay', upstream') => relay'.phase = "error"
  BY <1>2, <1>3 DEF Failed
<1>8. AskingIsBlank'
  BY <1>2, <1>3 DEF AskingIsBlank
<1>9. relay'.phase # "asking"
  BY <1>2, <1>3
<1>10. RelayInv'
  BY <1>1, <1>3, <1>4, <1>5, <1>6, <1>7, <1>9, BlankKeeps
<1> QED BY <1>8, <1>10

\* One body is told under one id, and an adapter that keeps before it yields keeps it.
LEMMA UnaryIs ==
    ASSUME RelayInv, AskingIsBlank, NEW status \in Statuses, NEW object \in BOOLEAN, NEW named \in BOOLEAN,
           Unary(status, object, named)
    PROVE  \/ Fails
           \/ /\ status = "ok"
              /\ \E id \in {Minted(relay.n), Theirs(relay.n), None}, keeps \in BOOLEAN :
                    Answered(id, keeps) /\ (keeps => id # None) /\ (relay.adapter \in Keepers => keeps)
<1> DEFINE theirs == IF object /\ named THEN Theirs(relay.n) ELSE None
<1>1. relay.id = Minted(relay.n) /\ relay.adapter # "codex-direct" /\ relay.adapter \in Relays
  BY DEF Unary, AskingIsBlank, RelayInv, RelayTypeOK, RelayRecords
<1>2. Minted(relay.n) # None /\ Theirs(relay.n) # None
  <2>1. relay.n \in Nat
    BY DEF RelayInv, RelayTypeOK, RelayRecords
  <2>2. Minted(relay.n) \in {"minted", "theirs"} \X Nat /\ Theirs(relay.n) \in {"minted", "theirs"} \X Nat
    BY <2>1 DEF Minted, Theirs
  <2> QED BY <2>2, NoneIsNoId
<1>3. theirs \in {Theirs(relay.n), None}
  OBVIOUS
<1>4. CASE status # "ok" \/ (~object /\ relay.adapter # "openrouter")
  BY <1>4 DEF Unary
<1>5. CASE ~(status # "ok" \/ (~object /\ relay.adapter # "openrouter"))
  <2>1. CASE relay.adapter = "openai"
    <3>1. OpenAIAnswers(theirs)
      BY <1>5, <2>1 DEF Unary
    <3> QED BY <1>1, <1>2, <1>3, <1>5, <3>1 DEF OpenAIAnswers
  <2>2. CASE relay.adapter = "copilot"
    <3>1. CopilotAnswers(theirs)
      BY <1>5, <2>2 DEF Unary
    <3> QED BY <1>1, <1>2, <1>3, <1>5, <2>2, <3>1 DEF CopilotAnswers, Keepers, ChatRelays
  <2>3. CASE relay.adapter = "ollama"
    <3>1. OllamaAnswers(theirs)
      BY <1>5, <2>3 DEF Unary
    <3> QED BY <1>2, <1>3, <1>5, <3>1 DEF OllamaAnswers
  <2>4. CASE relay.adapter = "openrouter"
    <3>1. OpenRouterAnswers(theirs)
      BY <1>5, <2>4 DEF Unary
    <3> QED BY <1>3, <1>5, <2>4, <3>1 DEF OpenRouterAnswers, Keepers, ChatRelays
  <2>5. CASE relay.adapter \notin {"openai", "copilot", "ollama", "openrouter"}
    <3>1. ChatAnswers \/ CopilotChatAnswers
      BY <1>5, <2>5 DEF Unary
    <3>2. Answered(relay.id, TRUE)
      BY <3>1 DEF ChatAnswers, CopilotChatAnswers
    <3> QED BY <1>1, <1>2, <1>5, <3>2
  <2> QED BY <2>1, <2>2, <2>3, <2>4, <2>5
<1> QED BY <1>4, <1>5

\* The upstream answers with one body.
LEMMA UnaryKeeps ==
    ASSUME RelayInv, AskingIsBlank, NEW status \in Statuses, NEW object \in BOOLEAN, NEW named \in BOOLEAN,
           Unary(status, object, named)
    PROVE  RelayInv' /\ AskingIsBlank'
<1> DEFINE e == IF status = "ok" THEN "eof" ELSE status
<1>1. /\ relay.phase = "asking" /\ ~relay.streams /\ relay.adapter # "codex-direct" /\ Blank(relay)
      /\ upstream' = [upstream EXCEPT !.end = e, !.completed = object]
  BY DEF Unary, Upstream, AskingIsBlank
<1>2. e \in Ends /\ (status = "ok" => e = "eof")
  BY DEF Statuses, Ends
<1> HIDE DEF e
<1>3. upstream' \in UpstreamRecords /\ upstream'.end = e /\ upstream'.completed = object
  BY <1>1, <1>2 DEF RelayInv, RelayTypeOK, UpstreamRecords
<1>4. \A k \in DOMAIN kept : k \notin {Minted(relay.n), Theirs(relay.n)}
  BY <1>1 DEF RelayInv, KeptOK, PhaseOK
<1>5. CASE Fails
  <2>1. relay' = [relay EXCEPT !.phase = "error"] /\ kept' = kept
    BY <1>5 DEF Fails, Turn, Kept
  <2>2. /\ relay' \in RelayRecords /\ Blank(relay') /\ relay'.phase = "error" /\ relay'.n = relay.n
        /\ relay'.id = relay.id /\ relay'.adapter = relay.adapter
    BY <1>1, <2>1 DEF RelayInv, RelayTypeOK, RelayRecords, Blank
  <2>3. RelayTypeOK'
    BY <1>3, <2>1, <2>2 DEF RelayInv, RelayTypeOK
  <2>4. IdOK(relay') /\ TurnId(relay') \in {Minted(relay'.n), Theirs(relay'.n)}
    BY <1>1, <2>2 DEF IdOK, TurnId, Runs, AskingIsBlank
  <2>5. RelayInv'
    BY <1>4, <2>1, <2>2, <2>3, <2>4, BlankKeeps
  <2> QED BY <2>2, <2>5 DEF AskingIsBlank
<1>6. ASSUME status = "ok", NEW id \in {Minted(relay.n), Theirs(relay.n), None}, NEW keeps \in BOOLEAN,
             Answered(id, keeps), keeps => id # None, relay.adapter \in Keepers => keeps
      PROVE  RelayInv' /\ AskingIsBlank'
  <2> DEFINE event == Event("completed", id, None)
  <2>1. relay' = [relay EXCEPT !.phase = "done", !.wire = <<event>>]
    BY <1>6 DEF Answered, Turn
  <2>2. id \in AllIds \cup {None} /\ relay.n \in Nat
    <3>1. relay.n \in Nat
      BY DEF RelayInv, RelayTypeOK, RelayRecords
    <3> QED BY <3>1 DEF Minted, Theirs, AllIds
  <2>3. event \in RelayEvents /\ event.id = id /\ event.type = "completed"
    BY <2>2 DEF Event, RelayEvents, EventKinds
  <2>4. kept' = IF keeps THEN [i \in DOMAIN kept \cup {id} |-> IF i = id THEN 1 ELSE kept[i]] ELSE kept
    BY <1>6 DEF Answered, Keeps, Kept
  <2> HIDE DEF event
  <2>5. <<event>> \in Seq(RelayEvents) /\ Len(<<event>>) = 1 /\ <<event>>[1] = event
    BY <2>3
  <2>6. /\ relay' \in RelayRecords /\ relay'.wire = <<event>> /\ relay'.next = <<>> /\ relay'.phase = "done"
        /\ relay'.n = relay.n /\ relay'.adapter = relay.adapter /\ ~relay'.streams /\ ~relay'.stopped
        /\ relay'.text = 0
    BY <1>1, <2>1, <2>5 DEF RelayInv, RelayTypeOK, RelayRecords, Blank
  <2>7. DOMAIN relay'.wire = {1} /\ relay'.wire[1] = event
    BY <2>5, <2>6
  <2>8. DOMAIN kept' = IF keeps THEN DOMAIN kept \cup {id} ELSE DOMAIN kept
    BY <2>4
  <2>9. RelayTypeOK'
    <3>1. \A k \in DOMAIN kept' : k \in AllIds /\ k[2] <= relay.n /\ kept'[k] \in Nat
      <4> SUFFICES ASSUME NEW k \in DOMAIN kept' PROVE k \in AllIds /\ k[2] <= relay.n /\ kept'[k] \in Nat
        OBVIOUS
      <4>1. CASE k \in DOMAIN kept /\ k # id
        BY <2>4, <4>1 DEF RelayInv, RelayTypeOK
      <4>2. CASE k \in DOMAIN kept /\ ~keeps
        BY <2>4, <4>2 DEF RelayInv, RelayTypeOK
      <4>3. CASE k = id /\ keeps
        <5>1. id \in {Minted(relay.n), Theirs(relay.n)}
          BY <1>6, <4>3
        <5> QED BY <2>2, <2>4, <4>3, <5>1 DEF Minted, Theirs, AllIds
      <4> QED BY <2>8, <4>1, <4>2, <4>3
    <3> QED BY <1>3, <2>6, <3>1 DEF RelayTypeOK
  <2>10. IdOK(relay)' /\ AskingIsBlank'
    BY <2>6 DEF IdOK, Runs, AskingIsBlank
  <2>11. NamesOK(relay)'
    <3>1. \E i \in {Minted(relay.n), Theirs(relay.n)} : id \in {None, i}
      OBVIOUS
    <3> QED BY <2>3, <2>6, <2>7, <3>1 DEF NamesOK, Told, Runs
  <2>12. NextOK(relay)'
    <3>1. Deltas(<<event>>) = 0
      <4>1. <<event>> = Append(<<>>, event) /\ <<>> \in Seq(RelayEvents)
        OBVIOUS
      <4>2. Deltas(Append(<<>>, event)) = Deltas(<<>>) + 0
        BY <2>3, <4>1, DeltasAppend
      <4> QED BY <4>1, <4>2, NoDeltas
    <3>2. Coming(relay'.next) = 0 /\ DOMAIN relay'.next = {}
      BY <2>6 DEF Coming
    <3> QED BY <2>6, <3>1, <3>2 DEF NextOK
  <2>13. KeptOK'
    <3>1. CompletedIsKept'
      BY <1>6, <2>3, <2>6, <2>7, <2>8 DEF CompletedIsKept
    <3>2. \A k \in DOMAIN kept' \cap {Minted(relay.n), Theirs(relay.n)} : k = id
      BY <1>4, <2>8
    <3>3. \A k \in DOMAIN kept' \cap {Minted(relay.n), Theirs(relay.n)} :
             \E i \in DOMAIN relay'.wire : Completes(relay'.wire[i], k)
      BY <2>3, <2>7, <3>2 DEF Completes
    <3> QED BY <2>6, <3>1, <3>3 DEF KeptOK
  <2>14. PhaseOK(relay, upstream)'
    <3>1. ~Failed(relay', upstream')
      BY <1>2, <1>3, <1>6 DEF Failed
    <3> QED BY <2>6, <3>1 DEF PhaseOK
  <2> QED BY <2>9, <2>10, <2>11, <2>12, <2>13, <2>14 DEF RelayInv
<1> QED BY <1>5, <1>6, UnaryIs

\* What is so of a turn whose generator may run.
LEMMA OpenIs ==
    ASSUME RelayInv, Resumed
    PROVE  /\ relay.phase = "open" /\ relay.next = <<>> /\ ~relay.stopped /\ Runs(relay)
           /\ relay \in RelayRecords /\ upstream \in UpstreamRecords
           /\ TurnId(relay) \in {Minted(relay.n), Theirs(relay.n)}
           /\ Minted(relay.n) \in AllIds /\ Theirs(relay.n) \in AllIds
           /\ None \notin AllIds /\ None \notin Nat
           /\ ~Failed(relay, upstream)
<1> USE DEF RelayInv, RelayTypeOK, Resumed
<1>1. Runs(relay) /\ IdOK(relay) /\ relay \in RelayRecords
  BY DEF Runs
<1>2. TurnId(relay) \in {Minted(relay.n), Theirs(relay.n)}
  BY <1>1 DEF TurnId, IdOK, RelayRecords, Relays
<1>3. relay.n \in Nat
  BY DEF RelayRecords
<1>4. Minted(relay.n) \in AllIds /\ Theirs(relay.n) \in AllIds
  BY <1>3 DEF AllIds, Minted, Theirs
<1> QED BY <1>1, <1>2, <1>4, NoneIsNoId DEF PhaseOK, AllIds

\* What a frame is yielded as: the prelude, if the turn begins with it, and the event.
Opened(start, e) == start \o <<e>>
Opens(s, a, b, e) ==
    /\ s \in Seq(RelayEvents) /\ \A i \in DOMAIN s : s[i] \in {a, b, e}
    /\ \E i \in DOMAIN s : s[i] = e
    /\ \A i, j \in DOMAIN s : s[i].type = "delta" /\ s[j].type = "delta" => i = j
    /\ Coming(s) = IF e.type = "delta" THEN 1 ELSE 0

\* What is yielded are the prelude and the event, and at most the event is a fragment.
LEMMA OpenedIs ==
    ASSUME NEW start, NEW a \in RelayEvents, NEW b \in RelayEvents, NEW e \in RelayEvents,
           a.type \in Lifecycle, b.type \in Lifecycle, start = <<>> \/ start = <<a, b>>
    PROVE  Opens(Opened(start, e), a, b, e)
<1> DEFINE s == Opened(start, e)
<1>0. a.type # "delta" /\ b.type # "delta"
  BY DEF Lifecycle
<1>1. CASE start = <<a, b>>
  <2>2. s \in Seq(RelayEvents) /\ DOMAIN s = 1..3 /\ s[1] = a /\ s[2] = b /\ s[3] = e
    <3> DEFINE x == <<a, b>>
               y == <<e>>
    <3>1. /\ x \in Seq(RelayEvents) /\ Len(x) = 2 /\ x[1] = a /\ x[2] = b
          /\ y \in Seq(RelayEvents) /\ Len(y) = 1 /\ y[1] = e
      OBVIOUS
    <3>2. s = x \o y
      BY <1>1 DEF Opened
    <3> HIDE DEF s, x, y
    <3>3. s \in Seq(RelayEvents) /\ Len(s) = 3 /\ s[1] = x[1] /\ s[2] = x[2] /\ s[3] = y[1]
      BY <3>1, <3>2, ConcatProperties
    <3> QED BY <3>1, <3>3
  <2> HIDE DEF s
  <2>3. \A i \in DOMAIN s : i = 1 \/ i = 2 \/ i = 3
    BY <2>2
  <2>4. \A i \in DOMAIN s : s[i].type = "delta" => i = 3
    BY <1>0, <2>2, <2>3
  <2>5. 3 \in DOMAIN s
    BY <2>2
  <2>6. Coming(s) = IF e.type = "delta" THEN 1 ELSE 0
    BY <2>2, <2>4, <2>5 DEF Coming
  <2>7. \A i \in DOMAIN s : s[i] = e \/ s[i] \in {a, b}
    BY <2>2, <2>3
  <2>8. \A i, j \in DOMAIN s : s[i].type = "delta" /\ s[j].type = "delta" => i = j
    BY <2>4
  <2>9. \E i \in DOMAIN s : s[i] = e
    BY <2>2, <2>5
  <2> QED BY <2>2, <2>6, <2>7, <2>8, <2>9 DEF s, Opens
<1>2. CASE start = <<>>
  <2>1. s = <<e>>
    <3>1. <<>> \o <<e>> = <<e>>
      OBVIOUS
    <3> QED BY <1>2, <3>1 DEF Opened
  <2>2. s \in Seq(RelayEvents) /\ DOMAIN s = {1} /\ s[1] = e
    BY <2>1
  <2> HIDE DEF s
  <2>3. Coming(s) = IF e.type = "delta" THEN 1 ELSE 0
    BY <2>2 DEF Coming
  <2> QED BY <2>2, <2>3 DEF s, Opens
<1> QED BY <1>1, <1>2

\* The turn after a frame of codex-direct.
LEMMA DirectFrameYields ==
    ASSUME RelayInv, Resumed, relay.adapter = "codex-direct", upstream.end = None,
           NEW type \in EventKinds, NEW id \in {None, Theirs(relay.n)}, type \in Lifecycle => id # None,
           DirectFrame(type, id), upstream' \in UpstreamRecords, upstream'.end = None,
           ~upstream'.completed => ~upstream.completed /\ type # "completed"
    PROVE  Yields(relay', upstream')
<1> DEFINE myid == Adopted(id)
           begins == ~relay.started /\ type \notin Lifecycle
           synthetic == relay.synthetic \/ begins
           a == Event("created", myid, None)
           b == Event("in_progress", myid, None)
           shown == IF synthetic /\ id # None THEN myid ELSE id
           completes == type = "completed" /\ id # None
           e == Event(type, shown, IF completes THEN relay.text ELSE None)
           text == IF type = "delta" THEN relay.text + 1 ELSE relay.text
           completed == IF completes THEN myid ELSE relay.completed
           start == IF begins THEN <<a, b>> ELSE <<>>
           next == Opened(start, e)
           r == [relay EXCEPT !.id = myid]
<1>0. USE OpenIs
<1>1. relay.id \in {Minted(relay.n), Theirs(relay.n)} /\ relay.started \in BOOLEAN /\ relay.synthetic \in BOOLEAN
      /\ relay.text \in Nat /\ relay.completed \in AllIds \cup {None}
  BY DEF RelayInv, IdOK, Runs, RelayRecords
<1>2. myid \in {Minted(relay.n), Theirs(relay.n)} /\ myid \in AllIds
  BY <1>1 DEF Adopted
<1>3. begins \in BOOLEAN /\ synthetic \in BOOLEAN /\ text \in Nat /\ text >= relay.text + (IF type = "delta" THEN 1 ELSE 0)
      /\ completed \in AllIds \cup {None}
  BY <1>1, <1>2
<1>4. shown \in {None, myid}
  <2>1. CASE synthetic
    BY <2>1
  <2>2. CASE ~synthetic /\ id # None
    BY <2>2 DEF Adopted
  <2> QED BY <2>1, <2>2
<1>5. ~relay.started => relay.wire = <<>>
  BY DEF RelayInv, IdOK, Runs
<1>6. relay.started /\ ~relay.synthetic => relay.id = Theirs(relay.n)
  BY DEF RelayInv, IdOK, Runs
<1>7. myid = relay.id \/ relay.wire = <<>>
  BY <1>1, <1>5, <1>6 DEF Adopted
<1>8. ~synthetic => myid = Theirs(relay.n)
  BY <1>6 DEF Adopted
<1>9. /\ a \in RelayEvents /\ b \in RelayEvents /\ e \in RelayEvents /\ a.type \in Lifecycle /\ b.type \in Lifecycle
      /\ a.id = myid /\ b.id = myid /\ a.keeps = None /\ b.keeps = None
      /\ e.type = type /\ e.id = shown /\ e.keeps = (IF completes THEN relay.text ELSE None)
  BY <1>1, <1>2, <1>4 DEF Event, RelayEvents, EventKinds, Lifecycle
<1>11. shown # None <=> id # None
  BY <1>2
<1> DEFINE r2 == [r EXCEPT !.started = TRUE, !.synthetic = synthetic, !.text = text,
                           !.completed = completed, !.next = next]
<1>12. CASE type \in Lifecycle /\ synthetic
  <2>1. relay' = r
    BY <1>12 DEF DirectFrame, Turn
  <2>2. relay.synthetic /\ myid = relay.id
    BY <1>12, <1>1 DEF Adopted
  <2> HIDE DEF myid
  <2>3. /\ relay' \in RelayRecords /\ relay' = relay
    BY <2>1, <2>2 DEF RelayRecords
  <2>4. Coming(relay'.next) = 0 /\ relay'.text \in Nat
    BY <1>1, <2>3 DEF Coming
  <2>5. relay'.text >= relay.text + Coming(relay'.next)
    BY <1>1, <2>3, <2>4
  <2>6. IdOK(relay')
    BY <2>3 DEF RelayInv
  <2>7. ~Failed(relay', upstream')
    BY NoneIsNoEnd DEF Failed
  <2> QED BY <2>3, <2>4, <2>5, <2>6, <2>7 DEF Yields
<1>13. CASE ~(type \in Lifecycle /\ synthetic)
  <2>1. relay' = r2
    BY <1>13 DEF DirectFrame, Turn, Opened
  <2>2. /\ next \in Seq(RelayEvents)
        /\ \A i \in DOMAIN next : next[i] \in {a, b, e}
        /\ \E i \in DOMAIN next : next[i] = e
        /\ \A i, j \in DOMAIN next : next[i].type = "delta" /\ next[j].type = "delta" => i = j
        /\ Coming(next) = IF e.type = "delta" THEN 1 ELSE 0
    <3>1. start = <<>> \/ start = <<a, b>>
      OBVIOUS
    <3> HIDE DEF myid, begins, synthetic, a, b, shown, e, start
    <3>2. Opens(next, a, b, e)
      BY <3>1, <1>9, OpenedIs
    <3> QED BY <3>2 DEF Opens
  <2> HIDE DEF myid, begins, synthetic, a, b, shown, e, text, completed, next
  <2>3. /\ relay' \in RelayRecords /\ relay'.id = myid /\ relay'.started /\ relay'.synthetic = synthetic
        /\ relay'.text = text /\ relay'.completed = completed /\ relay'.next = next /\ relay'.adapter = relay.adapter
        /\ relay'.n = relay.n /\ relay'.phase = "open" /\ relay'.streams = relay.streams /\ relay'.wire = relay.wire
        /\ ~relay'.stopped
    BY <1>2, <1>3, <2>1, <2>2 DEF RelayRecords
  <2>4. TurnId(relay') = myid /\ TurnId(relay) = relay.id
    BY <2>3 DEF TurnId
  <2>5. IdOK(relay') /\ Runs(relay')
    BY <1>2, <1>8, <2>3 DEF IdOK, Runs, ChatRelays
  <2>6. \A i \in DOMAIN relay'.next : Fits(relay', relay'.next[i])
    <3>1. Fits(relay', e)
      <4>1. e.id \in {None, myid}
        BY <1>4, <1>9
      <4>2. e.keeps # None => type = "completed" /\ id # None
        BY <1>9
      <4>3. type = "completed" /\ id # None => e.keeps = text /\ text \in Nat
        BY <1>1, <1>9 DEF text
      <4> QED BY <1>9, <1>11, <2>3, <2>4, <4>1, <4>2, <4>3 DEF Fits
    <3>2. Fits(relay', a) /\ Fits(relay', b)
      BY <1>9, <2>4 DEF Fits, Lifecycle
    <3> QED BY <2>2, <2>3, <3>1, <3>2
  <2>7. relay'.text >= relay.text + Coming(relay'.next)
    BY <1>3, <1>9, <2>2, <2>3
  <2>8. ~Failed(relay', upstream')
    BY NoneIsNoEnd DEF Failed
  <2>9. ~upstream'.completed => ~upstream.completed /\ \A i \in DOMAIN relay'.next : relay'.next[i].type # "completed"
    BY <1>9, <2>2, <2>3 DEF Lifecycle
  <2> QED BY <1>2, <1>7, <2>2, <2>3, <2>4, <2>5, <2>6, <2>7, <2>8, <2>9 DEF Yields
<1> QED BY <1>12, <1>13

\* The turn after an event that goes on as it came.
LEMMA VerbatimFrameYields ==
    ASSUME RelayInv, Resumed, relay.adapter \in ResponsesRelays \ {"codex-direct"}, upstream.end = None,
           NEW type \in EventKinds, NEW id \in {None, Theirs(relay.n)},
           VerbatimFrame(type, id), upstream' \in UpstreamRecords, upstream'.end = None,
           ~upstream'.completed => ~upstream.completed /\ type # "completed"
    PROVE  Yields(relay', upstream')
<1> DEFINE completes == type = "completed" /\ id # None
           e == Event(type, id, IF completes /\ relay.adapter = "ollama" THEN relay.text ELSE None)
           text == IF type = "delta" THEN relay.text + 1 ELSE relay.text
           completed == IF completes /\ relay.adapter = "openai" THEN id ELSE relay.completed
<1>0. USE OpenIs
<1>1. relay.text \in Nat /\ relay.completed \in AllIds \cup {None}
  BY DEF RelayRecords
<1>2. /\ text \in Nat /\ text >= relay.text + (IF type = "delta" THEN 1 ELSE 0) /\ completed \in AllIds \cup {None}
      /\ (type = "completed" => text = relay.text)
  BY <1>1
<1>3. /\ e \in RelayEvents /\ e.type = type /\ e.id = id
      /\ e.keeps = (IF completes /\ relay.adapter = "ollama" THEN relay.text ELSE None)
  BY <1>1 DEF Event, RelayEvents
<1>4. relay' = [relay EXCEPT !.completed = completed, !.text = text, !.next = <<e>>]
  BY DEF VerbatimFrame, Turn
<1>5. completed # relay.completed => completes /\ completed = id
  OBVIOUS
<1> HIDE DEF e, text, completed
<1>6. <<e>> \in Seq(RelayEvents) /\ DOMAIN <<e>> = {1} /\ <<e>>[1] = e
  BY <1>3
<1>7. /\ relay' \in RelayRecords /\ relay'.id = relay.id /\ relay'.started = relay.started
      /\ relay'.synthetic = relay.synthetic
      /\ relay'.text = text /\ relay'.completed = completed /\ relay'.next = <<e>> /\ relay'.adapter = relay.adapter
      /\ relay'.n = relay.n /\ relay'.phase = "open" /\ relay'.streams = relay.streams /\ relay'.wire = relay.wire
      /\ ~relay'.stopped
  BY <1>2, <1>4, <1>6 DEF RelayRecords
<1>8. TurnId(relay') = Theirs(relay.n) /\ TurnId(relay) = Theirs(relay.n)
  BY <1>7 DEF TurnId
<1>9. IdOK(relay') /\ Runs(relay')
  BY <1>7 DEF IdOK, Runs, ResponsesRelays, ChatRelays
<1>10. Coming(relay'.next) = IF type = "delta" THEN 1 ELSE 0
  BY <1>3, <1>6, <1>7 DEF Coming
<1>11. Fits(relay', e)
  <2>1. relay.adapter \in Keepers => relay.adapter = "ollama"
    BY DEF Keepers, ResponsesRelays, ChatRelays
  <2>2. type = "completed" => text = relay.text
    BY DEF text
  <2> QED BY <1>1, <1>3, <1>7, <1>8, <2>1, <2>2 DEF Fits
<1>12. \A i \in DOMAIN relay'.next : Fits(relay', relay'.next[i])
  BY <1>6, <1>7, <1>11
<1>13. \A i, j \in DOMAIN relay'.next : relay'.next[i].type = "delta" /\ relay'.next[j].type = "delta" => i = j
  BY <1>6, <1>7
<1>14. ~Failed(relay', upstream')
  BY NoneIsNoEnd DEF Failed
<1>15. relay'.text >= relay.text + Coming(relay'.next)
  BY <1>2, <1>7, <1>10
<1>16. relay'.completed # relay.completed => \E i \in DOMAIN relay'.next : Completes(relay'.next[i], relay'.completed)
  BY <1>3, <1>5, <1>6, <1>7 DEF Completes
<1>17. ~upstream'.completed => ~upstream.completed /\ \A i \in DOMAIN relay'.next : relay'.next[i].type # "completed"
  BY <1>3, <1>6, <1>7
<1> QED BY <1>7, <1>8, <1>9, <1>12, <1>13, <1>14, <1>15, <1>16, <1>17 DEF Yields

\* The turn after a chunk of chat completions.
LEMMA ChatFrameYields ==
    ASSUME RelayInv, Resumed, relay.adapter \in ChatRelays, upstream.end = None,
           ChatFrame("delta"), upstream' \in UpstreamRecords, upstream'.end = None,
           ~upstream'.completed => ~upstream.completed
    PROVE  Yields(relay', upstream')
<1> DEFINE a == Event("created", relay.id, None)
           b == Event("in_progress", relay.id, None)
           e == Event("delta", None, None)
           text == relay.text + 1
           begins == ~relay.started
           start == IF begins THEN <<a, b>> ELSE <<>>
           next == Opened(start, e)
<1>0. USE OpenIs
<1>1. relay.text \in Nat /\ text \in Nat /\ begins \in BOOLEAN /\ relay.started \in BOOLEAN
  BY DEF RelayRecords
<1>2. relay.id = Minted(relay.n)
  BY DEF RelayInv, IdOK
<1>3. /\ a \in RelayEvents /\ b \in RelayEvents /\ e \in RelayEvents /\ a.type \in Lifecycle /\ b.type \in Lifecycle
      /\ a.id = relay.id /\ b.id = relay.id /\ a.keeps = None /\ b.keeps = None
      /\ e.type = "delta" /\ e.id = None /\ e.keeps = None
  BY <1>2 DEF Event, RelayEvents, EventKinds, Lifecycle
<1>4. relay' = [relay EXCEPT !.started = TRUE, !.text = text, !.next = next]
  BY <1>1 DEF ChatFrame, Turn, Opened, Prelude, Announced
<1>5. text >= relay.text + 1
  BY <1>1
<1>14. start = <<>> \/ start = <<a, b>>
  OBVIOUS
<1> HIDE DEF a, b, e, text, begins, start
<1>16. Opens(next, a, b, e)
  BY <1>3, <1>14, OpenedIs
<1> HIDE DEF next
<1>6. /\ next \in Seq(RelayEvents)
      /\ \A i \in DOMAIN next : next[i] \in {a, b, e}
      /\ \A i, j \in DOMAIN next : next[i].type = "delta" /\ next[j].type = "delta" => i = j
      /\ Coming(next) = IF e.type = "delta" THEN 1 ELSE 0
  BY <1>16 DEF Opens
<1>7. /\ relay' \in RelayRecords /\ relay'.id = relay.id /\ relay'.started
      /\ relay'.synthetic = relay.synthetic /\ relay'.completed = relay.completed
      /\ relay'.text = text /\ relay'.next = next /\ relay'.adapter = relay.adapter
      /\ relay'.n = relay.n /\ relay'.phase = "open" /\ relay'.streams = relay.streams /\ relay'.wire = relay.wire
      /\ ~relay'.stopped
  BY <1>1, <1>4, <1>6 DEF RelayRecords
<1>8. TurnId(relay') = relay.id /\ TurnId(relay) = relay.id
  BY <1>7 DEF TurnId, ChatRelays, ResponsesRelays
<1>9. IdOK(relay') /\ Runs(relay')
  BY <1>2, <1>7 DEF IdOK, Runs, ChatRelays
<1>10. Fits(relay', a) /\ Fits(relay', b) /\ Fits(relay', e)
  BY <1>3, <1>8 DEF Fits, Lifecycle
<1>11. \A i \in DOMAIN relay'.next : Fits(relay', relay'.next[i])
  BY <1>6, <1>7, <1>10
<1>12. ~Failed(relay', upstream')
  BY NoneIsNoEnd DEF Failed
<1>13. relay'.text >= relay.text + Coming(relay'.next)
  BY <1>1, <1>3, <1>5, <1>6, <1>7
<1>15. \A i \in DOMAIN relay'.next : relay'.next[i].type # "completed"
  BY <1>3, <1>6, <1>7 DEF Lifecycle
<1> QED BY <1>2, <1>6, <1>7, <1>8, <1>9, <1>11, <1>12, <1>13, <1>15 DEF Yields

\* An event of the upstream keeps the invariant.
LEMMA FrameKeeps ==
    ASSUME RelayInv, NEW type \in Lifecycle \cup {"delta", "completed", "failed"}, NEW named \in BOOLEAN,
           type \in Lifecycle => named, Frame(type, named)
    PROVE  RelayInv' /\ AskingIsBlank'
<1> DEFINE id == IF named THEN Theirs(relay.n) ELSE None
           frames == upstream.frames + 1
           done == type = "completed"
<1>1. /\ Resumed /\ upstream.end = None /\ ~upstream.completed /\ kept' = kept
      /\ upstream' = [upstream EXCEPT !.frames = frames, !.completed = done]
      /\ CASE relay.adapter = "codex-direct" -> DirectFrame(type, id)
           [] relay.adapter \in ChatRelays -> type = "delta" /\ ChatFrame(type)
           [] OTHER -> VerbatimFrame(type, id)
  BY DEF Frame, Read, Upstream, Kept
<1>2. relay.adapter \in Relays /\ upstream \in UpstreamRecords /\ frames \in Nat /\ done \in BOOLEAN
  BY <1>1, OpenIs DEF RelayRecords, UpstreamRecords
<1>3. id \in {None, Theirs(relay.n)} /\ type \in EventKinds /\ (type \in Lifecycle => id # None)
  <2>1. Theirs(relay.n) # None
    BY <1>1, OpenIs
  <2> QED BY <2>1 DEF EventKinds
<1> HIDE DEF id, frames
<1>4. upstream' \in UpstreamRecords /\ upstream'.end = None /\ (~upstream'.completed => ~upstream.completed /\ type # "completed")
  BY <1>1, <1>2 DEF UpstreamRecords
<1>5. Yields(relay', upstream')
  <2>1. CASE relay.adapter = "codex-direct"
    <3>1. DirectFrame(type, id)
      BY <1>1, <2>1 DEF ChatRelays
    <3> QED BY <1>1, <1>3, <1>4, <2>1, <3>1, DirectFrameYields
  <2>2. CASE relay.adapter \in ChatRelays
    <3>1. type = "delta" /\ ChatFrame("delta")
      BY <1>1, <2>2 DEF ChatRelays
    <3> QED BY <1>1, <1>4, <2>2, <3>1, ChatFrameYields
  <2>3. CASE relay.adapter \in ResponsesRelays \ {"codex-direct"}
    <3>1. VerbatimFrame(type, id)
      BY <1>1, <2>3 DEF ResponsesRelays, ChatRelays
    <3> QED BY <1>1, <1>3, <1>4, <2>3, <3>1, VerbatimFrameYields
  <2> QED BY <1>2, <2>1, <2>2, <2>3 DEF Relays
<1>6. RelayInv'
  BY <1>1, <1>5, YieldsKeeps
<1> QED BY <1>5, <1>6 DEF AskingIsBlank, Yields, Runs

\* A turn that ends with an exception.
LEMMA ErrorKeeps ==
    ASSUME RelayInv, Resumed, relay' = [relay EXCEPT !.phase = "error"], upstream' \in UpstreamRecords,
           upstream'.completed = upstream.completed, kept' = kept
    PROVE  RelayInv' /\ AskingIsBlank'
<1>1. /\ relay' \in RelayRecords /\ relay'.phase = "error" /\ relay'.wire = relay.wire /\ relay'.next = relay.next
      /\ relay'.adapter = relay.adapter /\ relay'.n = relay.n /\ relay'.text = relay.text /\ ~relay'.stopped
      /\ relay'.streams = relay.streams
  BY OpenIs DEF RelayRecords
<1>2. RelayTypeOK' /\ IdOK(relay)' /\ AskingIsBlank'
  BY <1>1 DEF RelayInv, RelayTypeOK, IdOK, Runs, AskingIsBlank
<1>3. NamesOK(relay)'
  BY <1>1 DEF RelayInv, NamesOK, Told, Runs
<1>4. NextOK(relay)'
  BY <1>1 DEF RelayInv, NextOK
<1>5. KeptOK'
  BY <1>1 DEF RelayInv, KeptOK, CompletedIsKept
<1>6. PhaseOK(relay, upstream)'
  BY <1>1, OpenIs DEF RelayInv, PhaseOK, Incomplete
<1> QED BY <1>2, <1>3, <1>4, <1>5, <1>6 DEF RelayInv

\* So does a line that carries none,
LEMMA NoiseKeeps ==
    ASSUME RelayInv, NEW line \in Lines, Noise(line)
    PROVE  RelayInv' /\ AskingIsBlank'
<1> DEFINE frames == upstream.frames + 1
           e == IF relay'.phase = "error" THEN "broken" ELSE upstream.end
<1>1. /\ Resumed /\ upstream.end = None /\ kept' = kept /\ upstream' = [upstream EXCEPT !.frames = frames, !.end = e]
  BY DEF Noise, Read, Upstream, Kept
<1>2. relay.adapter \in Relays /\ upstream \in UpstreamRecords /\ frames \in Nat /\ e \in Ends
  BY <1>1, OpenIs DEF RelayRecords, UpstreamRecords, Ends
<1>3. relay'.phase # "error" => e = None
  BY <1>1
<1> HIDE DEF frames, e
<1>4. upstream' \in UpstreamRecords /\ upstream'.end = e /\ upstream'.completed = upstream.completed
  BY <1>1, <1>2 DEF UpstreamRecords
<1>5. CASE relay' = relay
  <2>1. Coming(relay.next) = 0 /\ relay.text \in Nat
    BY <1>1, OpenIs DEF Coming, RelayRecords
  <2>2. relay'.text >= relay.text + Coming(relay'.next)
    BY <1>5, <2>1
  <2>3. upstream'.end = None
    BY <1>1, <1>3, <1>4, <1>5, OpenIs
  <2>4. IdOK(relay') /\ DOMAIN relay'.next = {}
    BY <1>1, <1>5, OpenIs DEF RelayInv
  <2>5. Yields(relay', upstream')
    BY <1>1, <1>4, <1>5, <2>2, <2>3, <2>4, OpenIs, NoneIsNoEnd DEF Yields, Failed
  <2>6. RelayInv'
    BY <1>1, <2>5, YieldsKeeps
  <2> QED BY <2>5, <2>6 DEF AskingIsBlank, Yields, Runs
<1>6. CASE relay.adapter = "codex-direct" /\ DirectFrame("other", None)
  <2>1. relay'.phase = relay.phase
    <3>1. "phase" \in DOMAIN relay
      BY <1>1, OpenIs DEF RelayRecords
    <3> QED BY <1>6, <3>1 DEF DirectFrame, Turn, Lifecycle
  <2>2. upstream'.end = None
    BY <1>1, <1>3, <1>4, <2>1, OpenIs
  <2>3. "other" \in EventKinds /\ "other" \notin Lifecycle
    BY DEF EventKinds, Lifecycle
  <2>4. Yields(relay', upstream')
    BY <1>1, <1>4, <1>6, <2>2, <2>3, DirectFrameYields
  <2>5. RelayInv'
    BY <1>1, <2>4, YieldsKeeps
  <2> QED BY <2>4, <2>5 DEF AskingIsBlank, Yields, Runs
<1>7. CASE relay.adapter \in ResponsesRelays \ {"codex-direct"} /\ VerbatimFrame("other", None)
  <2>1. relay'.phase = relay.phase
    BY <1>7 DEF VerbatimFrame, Turn
  <2>2. upstream'.end = None
    BY <1>1, <1>3, <1>4, <2>1, OpenIs
  <2>3. "other" \in EventKinds
    BY DEF EventKinds
  <2>4. Yields(relay', upstream')
    BY <1>1, <1>4, <1>7, <2>2, <2>3, VerbatimFrameYields
  <2>5. RelayInv'
    BY <1>1, <2>4, YieldsKeeps
  <2> QED BY <2>4, <2>5 DEF AskingIsBlank, Yields, Runs
<1>8. CASE relay' = [relay EXCEPT !.phase = "error"]
  BY <1>1, <1>4, <1>8, ErrorKeeps
<1>9. relay.adapter \in ChatRelays => ~Read(line, "other")
  <2> SUFFICES ASSUME relay.adapter \in ChatRelays PROVE "other" \notin Client[line]
    BY DEF Read
  <2>1. relay.adapter \in {"deepseek", "opencode", "kimi", "copilot-chat"}
    BY DEF ChatRelays
  <2> USE DEF Client, Lines, DeepSeekClient, OpenCodeClient, KimiClient, CopilotChatClient
  <2>2. CASE relay.adapter = "deepseek"
    BY <2>2
  <2>3. CASE relay.adapter = "opencode"
    BY <2>3
  <2>4. CASE relay.adapter = "kimi"
    BY <2>4
  <2>5. CASE relay.adapter = "copilot-chat"
    BY <2>5
  <2> QED BY <2>1, <2>2, <2>3, <2>4, <2>5
<1> QED BY <1>2, <1>5, <1>6, <1>7, <1>8, <1>9 DEF Noise, Turn, Relays

\* What a step of the generator yields when its stream has ended.
LEMMA EndYields ==
    ASSUME RelayInv, Resumed, NEW r, relay' = r, upstream' \in UpstreamRecords, ~Failed(relay, upstream'),
           r \in RelayRecords, r.phase = "ended", r.adapter = relay.adapter, r.n = relay.n, r.streams = relay.streams,
           r.wire = relay.wire, r.id = relay.id, r.text = relay.text, ~r.stopped,
           \A i \in DOMAIN r.next : Fits(r, r.next[i]) /\ r.next[i].type # "delta"
    PROVE  Yields(relay', upstream')
<1>1. TurnId(r) = TurnId(relay) /\ Runs(r)
  BY DEF TurnId, Runs
<1>2. IdOK(r)
  BY OpenIs DEF RelayInv, IdOK, Runs
<1>3. Coming(r.next) = 0 /\ relay.text \in Nat
  BY OpenIs DEF Coming, RelayRecords
<1>4. r.text >= relay.text + Coming(r.next)
  BY <1>3
<1>5. ~Failed(r, upstream')
  BY DEF Failed
<1> QED BY <1>1, <1>2, <1>4, <1>5, OpenIs DEF Yields

\* the end of its bytes,
LEMMA UpstreamEndsKeeps ==
    ASSUME RelayInv, UpstreamEnds
    PROVE  RelayInv' /\ AskingIsBlank'
<1> DEFINE e == IF upstream.end = None THEN "eof" ELSE upstream.end
           plain == [relay EXCEPT !.phase = "ended"]
           a == Event("created", relay.id, None)
           b == Event("in_progress", relay.id, None)
           c == Event("completed", relay.id, relay.text)
           start == IF relay.started THEN <<>> ELSE <<a, b>>
           next == Opened(start, c)
           started == relay.adapter \in ChatRelays \/ relay.started
           closed == [relay EXCEPT !.phase = "ended", !.started = started, !.completed = relay.id, !.next = next]
<1>1. Resumed /\ upstream.end # "broken" /\ upstream' = [upstream EXCEPT !.end = e]
  BY DEF UpstreamEnds, Upstream
<1>2. upstream \in UpstreamRecords /\ e \in Ends
  BY <1>1, OpenIs DEF UpstreamRecords, Ends
<1>3. e = "eof" \/ e = upstream.end
  OBVIOUS
<1> HIDE DEF e
<1>4. upstream' \in UpstreamRecords /\ ~Failed(relay, upstream')
  <2>1. upstream' \in UpstreamRecords /\ upstream'.end = e
    BY <1>1, <1>2 DEF UpstreamRecords
  <2>2. ~Failed(relay, upstream)
    BY <1>1, OpenIs
  <2> QED BY <1>3, <2>1, <2>2 DEF Failed
<1>5. relay.adapter \in Relays /\ relay.started \in BOOLEAN /\ relay.text \in Nat /\ relay \in RelayRecords
  BY <1>1, OpenIs DEF RelayRecords
<1>6. \/ relay' = plain /\ (kept' = kept \/ KeepsAtEnd)
      \/ relay.adapter \in ChatRelays \cup {"codex-direct"} /\ relay' = closed /\ kept' = kept
  <2>1. CASE relay.adapter = "codex-direct"
    <3>1. relay' = DirectEnds /\ kept' = kept
      BY <2>1 DEF UpstreamEnds, Turn, Kept, ChatRelays
    <3>2. CASE relay.completed # None
      BY <3>1, <3>2 DEF DirectEnds
    <3>3. CASE relay.completed = None
      <4>1. relay' = [relay EXCEPT !.phase = "ended", !.completed = relay.id, !.next = next]
        BY <3>1, <3>3 DEF DirectEnds, Announced, Opened
      <4>2. started = relay.started
        BY <2>1, <1>5 DEF ChatRelays
      <4>3. closed = [relay EXCEPT !.phase = "ended", !.completed = relay.id, !.next = next]
        <5> HIDE DEF next, started
        <5> QED BY <1>5, <4>2 DEF RelayRecords
      <4> QED BY <2>1, <3>1, <4>1, <4>3
    <3> QED BY <3>2, <3>3
  <2>2. CASE relay.adapter \in ChatRelays
    <3>1. relay' = ChatCompletes /\ kept' = kept
      BY <2>2 DEF UpstreamEnds, Turn, Kept, ChatRelays
    <3>2. started = TRUE
      BY <2>2
    <3> QED BY <2>2, <3>1, <3>2 DEF ChatCompletes, Prelude, Announced, Opened
  <2>3. CASE relay.adapter \in ResponsesRelays \ {"codex-direct"}
    <3>1. relay' = plain /\ (kept' = kept \/ KeepsAtEnd)
      BY <2>3 DEF UpstreamEnds, Turn, Kept, KeepsAtEnd, ResponsesRelays, ChatRelays
    <3> QED BY <3>1
  <2> QED BY <1>5, <2>1, <2>2, <2>3 DEF Relays
<1>7. CASE relay' = plain /\ (kept' = kept \/ KeepsAtEnd)
  <2>1. /\ plain \in RelayRecords /\ plain.next = relay.next /\ plain.phase = "ended" /\ plain.adapter = relay.adapter
        /\ plain.n = relay.n /\ plain.streams = relay.streams /\ plain.wire = relay.wire /\ plain.id = relay.id
        /\ plain.text = relay.text /\ plain.stopped = relay.stopped
    BY <1>5 DEF RelayRecords
  <2>2. DOMAIN relay.next = {} /\ ~relay.stopped
    BY <1>1, OpenIs
  <2> HIDE DEF plain
  <2>3. Yields(relay', upstream')
    BY <1>1, <1>4, <1>7, <2>1, <2>2, EndYields
  <2>4. RelayInv'
    BY <1>7, <2>3, YieldsKeeps
  <2>5. relay'.phase = "ended"
    BY <1>7, <2>1
  <2> QED BY <2>4, <2>5 DEF AskingIsBlank
<1>8. CASE relay.adapter \in ChatRelays \cup {"codex-direct"} /\ relay' = closed /\ kept' = kept
  <2>1. relay.id \in AllIds /\ relay.id # None /\ TurnId(relay) = relay.id
    <3>1. TurnId(relay) = relay.id
      BY <1>8 DEF TurnId, ChatRelays, ResponsesRelays
    <3> QED BY <1>1, <3>1, OpenIs
  <2>2. /\ a \in RelayEvents /\ b \in RelayEvents /\ c \in RelayEvents /\ a.type \in Lifecycle /\ b.type \in Lifecycle
        /\ a.id = relay.id /\ b.id = relay.id /\ a.keeps = None /\ b.keeps = None
        /\ c.type = "completed" /\ c.id = relay.id /\ c.keeps = relay.text
    BY <1>5, <2>1 DEF Event, RelayEvents, EventKinds, Lifecycle
  <2>3. (start = <<>> \/ start = <<a, b>>) /\ started \in BOOLEAN
    BY <1>5
  <2> HIDE DEF a, b, c, start, started
  <2>4. Opens(next, a, b, c)
    BY <2>2, <2>3, OpenedIs
  <2> HIDE DEF next
  <2>5. next \in Seq(RelayEvents) /\ \A i \in DOMAIN next : next[i] \in {a, b, c}
    BY <2>4 DEF Opens
  <2>6. /\ closed \in RelayRecords /\ closed.next = next /\ closed.phase = "ended" /\ closed.adapter = relay.adapter
        /\ closed.n = relay.n /\ closed.streams = relay.streams /\ closed.wire = relay.wire /\ closed.id = relay.id
        /\ closed.text = relay.text /\ closed.stopped = relay.stopped
    BY <1>5, <2>3, <2>5 DEF RelayRecords
  <2> HIDE DEF closed
  <2>7. TurnId(closed) = relay.id
    BY <2>1, <2>6 DEF TurnId
  <2>8. Fits(closed, a) /\ Fits(closed, b) /\ Fits(closed, c)
    <3>1. Fits(closed, a) /\ Fits(closed, b)
      BY <2>2, <2>7 DEF Fits, Lifecycle
    <3>2. c.keeps # None
      BY <1>1, <1>5, <2>2, OpenIs
    <3>3. Fits(closed, c)
      BY <2>1, <2>2, <2>6, <2>7, <3>2 DEF Fits
    <3> QED BY <3>1, <3>3
  <2>9. \A i \in DOMAIN closed.next : Fits(closed, closed.next[i]) /\ closed.next[i].type # "delta"
    BY <2>2, <2>5, <2>6, <2>8 DEF Lifecycle
  <2>10. ~relay.stopped
    BY <1>1, OpenIs
  <2>11. Yields(relay', upstream')
    BY <1>1, <1>4, <1>8, <2>6, <2>9, <2>10, EndYields
  <2>12. RelayInv'
    BY <1>8, <2>11, YieldsKeeps
  <2>13. relay'.phase = "ended"
    BY <1>8, <2>6
  <2> QED BY <2>12, <2>13 DEF AskingIsBlank
<1> QED BY <1>6, <1>7, <1>8

\* and a transport error.
LEMMA UpstreamBreaksKeeps ==
    ASSUME RelayInv, UpstreamBreaks
    PROVE  RelayInv' /\ AskingIsBlank'
<1>1. Resumed /\ relay' = [relay EXCEPT !.phase = "error"] /\ upstream' = [upstream EXCEPT !.end = "broken"] /\ kept' = kept
  BY DEF UpstreamBreaks, Turn, Upstream, Kept
<1>2. upstream' \in UpstreamRecords /\ upstream'.completed = upstream.completed
  BY <1>1, OpenIs DEF UpstreamRecords, Ends
<1> QED BY <1>1, <1>2, ErrorKeeps

\* What the consumer takes was to be told, and is kept as it is told.
LEMMA TakeIs ==
    ASSUME RelayInv, NEW stops \in BOOLEAN, Take(stops), NEW e, e = Head(relay.next)
    PROVE  /\ relay' \in RelayRecords /\ relay'.wire = Append(relay.wire, e) /\ relay'.next = Tail(relay.next)
           /\ relay'.stopped = stops /\ relay'.phase = (IF stops THEN "done" ELSE relay.phase)
           /\ relay'.adapter = relay.adapter /\ relay'.n = relay.n /\ relay'.id = relay.id
           /\ relay'.started = relay.started /\ relay'.synthetic = relay.synthetic /\ relay'.text = relay.text
           /\ relay'.completed = relay.completed /\ relay'.streams = relay.streams
           /\ upstream' = upstream /\ relay.phase \in {"open", "ended"}
           /\ relay.next \in Seq(RelayEvents) /\ 1 \in DOMAIN relay.next /\ e = relay.next[1] /\ e \in RelayEvents
           /\ e.keeps = None => kept' = kept
           /\ e.keeps # None =>
                 /\ DOMAIN kept' = DOMAIN kept \cup {e.id}
                 /\ \A k \in DOMAIN kept' : kept'[k] = IF k = e.id THEN e.keeps ELSE kept[k]
<1> DEFINE p == IF stops THEN "done" ELSE relay.phase
           w == Append(relay.wire, e)
           t == Tail(relay.next)
<1>1. relay.next # <<>> /\ ~relay.stopped /\ upstream' = upstream /\ Taken(e)
  BY DEF Take
<1>2. relay' = [relay EXCEPT !.wire = w, !.next = t, !.stopped = stops, !.phase = p]
  BY DEF Take, Turn
<1>3. relay \in RelayRecords /\ relay.next \in Seq(RelayEvents) /\ relay.wire \in Seq(RelayEvents)
  BY DEF RelayInv, RelayTypeOK, RelayRecords
<1>4. relay.phase \in {"open", "ended"}
  BY <1>1, <1>3 DEF RelayInv, PhaseOK, RelayRecords
<1>5. 1 \in DOMAIN relay.next /\ e = relay.next[1] /\ e \in RelayEvents
  <2> DEFINE s == relay.next
  <2> HIDE DEF s
  <2> QED BY <1>1, <1>3 DEF s
<1>6. w \in Seq(RelayEvents) /\ t \in Seq(RelayEvents) /\ p \in {"open", "ended", "done"}
  BY <1>1, <1>3, <1>4, <1>5
<1> HIDE DEF p, w, t
<1>7. /\ relay' \in RelayRecords /\ relay'.wire = w /\ relay'.next = t /\ relay'.stopped = stops /\ relay'.phase = p
      /\ relay'.adapter = relay.adapter /\ relay'.n = relay.n /\ relay'.id = relay.id
      /\ relay'.started = relay.started /\ relay'.synthetic = relay.synthetic /\ relay'.text = relay.text
      /\ relay'.completed = relay.completed /\ relay'.streams = relay.streams
  BY <1>2, <1>3, <1>6 DEF RelayRecords
<1>8. e.keeps = None => kept' = kept
  BY <1>1 DEF Taken, Kept
<1>9. e.keeps # None =>
         /\ DOMAIN kept' = DOMAIN kept \cup {e.id}
         /\ \A k \in DOMAIN kept' : kept'[k] = IF k = e.id THEN e.keeps ELSE kept[k]
  BY <1>1 DEF Taken, Keeps
<1> QED BY <1>1, <1>3, <1>4, <1>5, <1>7, <1>8, <1>9 DEF p, w, t

\* What is left to be told after one event, and what was told with it.
LEMMA TakenFrom ==
    ASSUME NEW s \in Seq(RelayEvents), s # <<>>, NEW w \in Seq(RelayEvents), NEW e \in RelayEvents, e = s[1]
    PROVE  /\ \A i \in DOMAIN Tail(s) : i + 1 \in DOMAIN s /\ i + 1 # 1 /\ Tail(s)[i] = s[i + 1]
           /\ \A i \in DOMAIN Append(w, e) : (i \in DOMAIN w /\ Append(w, e)[i] = w[i]) \/ (i = Len(w) + 1 /\ Append(w, e)[i] = e)
           /\ \A i \in DOMAIN w : i \in DOMAIN Append(w, e) /\ Append(w, e)[i] = w[i] /\ i # Len(w) + 1
           /\ Len(w) + 1 \in DOMAIN Append(w, e) /\ Append(w, e)[Len(w) + 1] = e
           /\ \A i \in DOMAIN s : i # 1 => (i - 1 \in DOMAIN Tail(s) /\ Tail(s)[i - 1] = s[i])
<1>1. DOMAIN s = 1..Len(s) /\ DOMAIN Tail(s) = 1..(Len(s) - 1) /\ Len(s) \in Nat /\ DOMAIN w = 1..Len(w) /\ Len(w) \in Nat
      /\ DOMAIN Append(w, e) = 1..(Len(w) + 1)
  OBVIOUS
<1>2. \A i \in 1..(Len(s) - 1) : Tail(s)[i] = s[i + 1]
  OBVIOUS
<1>3. (\A i \in 1..Len(w) : Append(w, e)[i] = w[i]) /\ Append(w, e)[Len(w) + 1] = e
  OBVIOUS
<1> DEFINE t == Tail(s)
           a == Append(w, e)
<1> HIDE DEF t, a
<1>4. \A i \in DOMAIN t : i + 1 \in DOMAIN s /\ i + 1 # 1 /\ t[i] = s[i + 1]
  BY <1>1, <1>2 DEF t
<1>5. \A i \in DOMAIN a : (i \in DOMAIN w /\ a[i] = w[i]) \/ (i = Len(w) + 1 /\ a[i] = e)
  BY <1>1, <1>3 DEF a
<1>6. \A i \in DOMAIN w : i \in DOMAIN a /\ a[i] = w[i] /\ i # Len(w) + 1
  BY <1>1, <1>3 DEF a
<1>7. Len(w) + 1 \in DOMAIN a /\ a[Len(w) + 1] = e
  BY <1>1, <1>3 DEF a
<1>8. \A i \in DOMAIN s : i # 1 => (i - 1 \in DOMAIN t /\ t[i - 1] = s[i])
  <2> SUFFICES ASSUME NEW i \in DOMAIN s, i # 1 PROVE i - 1 \in DOMAIN t /\ t[i - 1] = s[i]
    OBVIOUS
  <2>1. i - 1 \in 1..(Len(s) - 1) /\ (i - 1) + 1 = i
    BY <1>1
  <2> QED BY <1>1, <1>2, <2>1 DEF t
<1> QED BY <1>4, <1>5, <1>6, <1>7, <1>8 DEF t, a

\* The counts of the deltas told and to be told, after one is taken.
LEMMA TakeCounts ==
    ASSUME NEW s \in Seq(RelayEvents), s # <<>>, NEW w \in Seq(RelayEvents), NEW e \in RelayEvents, e = s[1],
           \A i, j \in DOMAIN s : s[i].type = "delta" /\ s[j].type = "delta" => i = j
    PROVE  /\ Deltas(Append(w, e)) + Coming(Tail(s)) = Deltas(w) + Coming(s)
           /\ Deltas(w) \in Nat
           /\ \A i \in DOMAIN w : CountOf(Append(w, e), "delta", i) = CountOf(w, "delta", i)
           /\ CountOf(Append(w, e), "delta", Len(w) + 1) = Deltas(Append(w, e))
<1> DEFINE t == Tail(s)
           a == Append(w, e)
<1>1. Deltas(w) \in Nat /\ Deltas(a) = Deltas(w) + (IF e.type = "delta" THEN 1 ELSE 0)
  BY DeltasAppend
<1>2. 1 \in DOMAIN s
  OBVIOUS
<1>3. Len(a) = Len(w) + 1 /\ Len(w) \in Nat /\ DOMAIN w = 1..Len(w) /\ \A i \in DOMAIN w : a[i] = w[i]
  OBVIOUS
<1>4. \A i \in DOMAIN t : i + 1 \in DOMAIN s /\ i + 1 # 1 /\ t[i] = s[i + 1]
  BY TakenFrom
<1>5. \A i \in DOMAIN s : i # 1 => (i - 1 \in DOMAIN t /\ t[i - 1] = s[i])
  BY TakenFrom
<1> HIDE DEF t, a
<1>6. Coming(t) + (IF e.type = "delta" THEN 1 ELSE 0) = Coming(s)
  <2>1. CASE e.type = "delta"
    <3>1. \A i \in DOMAIN t : t[i].type # "delta"
      BY <1>2, <1>4, <2>1
    <3> QED BY <1>2, <2>1, <3>1 DEF Coming
  <2>2. CASE e.type # "delta"
    <3>1. (\E i \in DOMAIN t : t[i].type = "delta") <=> (\E i \in DOMAIN s : s[i].type = "delta")
      <4>1. ASSUME NEW i \in DOMAIN t, t[i].type = "delta" PROVE \E j \in DOMAIN s : s[j].type = "delta"
        BY <1>4, <4>1
      <4>2. ASSUME NEW i \in DOMAIN s, s[i].type = "delta" PROVE \E j \in DOMAIN t : t[j].type = "delta"
        BY <1>5, <2>2, <4>2
      <4> QED BY <4>1, <4>2
    <3> QED BY <2>2, <3>1 DEF Coming
  <2> QED BY <2>1, <2>2
<1>7. Coming(t) \in {0, 1} /\ Coming(s) \in {0, 1}
  BY DEF Coming
<1>8. Deltas(a) + Coming(t) = Deltas(w) + Coming(s)
  BY <1>1, <1>6, <1>7
<1>9. \A i \in DOMAIN w : CountOf(a, "delta", i) = CountOf(w, "delta", i)
  <2> SUFFICES ASSUME NEW i \in DOMAIN w PROVE CountOf(a, "delta", i) = CountOf(w, "delta", i)
    OBVIOUS
  <2>1. i \in Nat /\ \A j \in 1..i : a[j] = w[j]
    BY <1>3
  <2> QED BY <2>1, CountOfSame
<1>10. CountOf(a, "delta", Len(w) + 1) = Deltas(a)
  BY <1>3 DEF Deltas
<1> QED BY <1>1, <1>8, <1>9, <1>10 DEF t, a

\* An event is taken.
LEMMA TakeKeeps ==
    ASSUME RelayInv, NEW stops \in BOOLEAN, Take(stops)
    PROVE  RelayInv' /\ AskingIsBlank'
<1> DEFINE e == Head(relay.next)
           s == relay.next
           w == relay.wire
<1> USE DEF RelayInv
<1>0. relay \in RelayRecords /\ w \in Seq(RelayEvents) /\ relay.n \in Nat /\ relay.text \in Nat
  BY DEF RelayTypeOK, RelayRecords
<1>1. /\ relay' \in RelayRecords /\ relay'.wire = Append(w, e) /\ relay'.next = Tail(s)
      /\ relay'.stopped = stops /\ relay'.phase = (IF stops THEN "done" ELSE relay.phase)
      /\ relay'.adapter = relay.adapter /\ relay'.n = relay.n /\ relay'.id = relay.id
      /\ relay'.started = relay.started /\ relay'.synthetic = relay.synthetic /\ relay'.text = relay.text
      /\ relay'.completed = relay.completed /\ relay'.streams = relay.streams
      /\ upstream' = upstream /\ relay.phase \in {"open", "ended"}
      /\ s \in Seq(RelayEvents) /\ 1 \in DOMAIN s /\ e = s[1] /\ e \in RelayEvents
      /\ e.keeps = None => kept' = kept
      /\ e.keeps # None =>
            /\ DOMAIN kept' = DOMAIN kept \cup {e.id}
            /\ \A k \in DOMAIN kept' : kept'[k] = IF k = e.id THEN e.keeps ELSE kept[k]
  BY TakeIs
<1>2. s # <<>>
  BY <1>1
<1> HIDE DEF e, s, w
<1> DEFINE a == Append(w, e)
           t == Tail(s)
<1>3. /\ \A i \in DOMAIN t : i + 1 \in DOMAIN s /\ i + 1 # 1 /\ t[i] = s[i + 1]
      /\ \A i \in DOMAIN a : (i \in DOMAIN w /\ a[i] = w[i]) \/ (i = Len(w) + 1 /\ a[i] = e)
      /\ \A i \in DOMAIN w : i \in DOMAIN a /\ a[i] = w[i] /\ i # Len(w) + 1
      /\ Len(w) + 1 \in DOMAIN a /\ a[Len(w) + 1] = e
      /\ \A i \in DOMAIN s : i # 1 => (i - 1 \in DOMAIN t /\ t[i - 1] = s[i])
  BY <1>0, <1>1, <1>2, TakenFrom
<1>4. \A i, j \in DOMAIN s : s[i].type = "delta" /\ s[j].type = "delta" => i = j
  BY DEF NextOK, s
<1>5. /\ Deltas(a) + Coming(t) = Deltas(w) + Coming(s) /\ Deltas(w) \in Nat
      /\ \A i \in DOMAIN w : CountOf(a, "delta", i) = CountOf(w, "delta", i)
      /\ CountOf(a, "delta", Len(w) + 1) = Deltas(a)
  BY <1>0, <1>1, <1>2, <1>4, TakeCounts
<1> HIDE DEF a, t
<1>6. Runs(relay) /\ e.id \in {None, TurnId(relay)} /\ TurnId(relay) \in {Minted(relay.n), Theirs(relay.n)}
  <2>1. Runs(relay)
    BY <1>1 DEF Runs
  <2>2. e.id \in {None, TurnId(relay)}
    BY <1>1, <2>1 DEF NamesOK, Told, s
  <2>3. TurnId(relay) \in {Minted(relay.n), Theirs(relay.n)}
    BY <1>0, <2>1 DEF TurnId, IdOK, RelayRecords, Relays
  <2> QED BY <2>1, <2>2, <2>3
<1>7. /\ e.keeps \in {None, relay.text}
      /\ e.keeps # None => e.type = "completed" /\ e.id # None
      /\ relay.adapter \in Keepers /\ e.type = "completed" /\ e.id # None => e.keeps # None
  BY <1>1 DEF NextOK, s
<1>8. TurnId(relay') = TurnId(relay)
  BY <1>1 DEF TurnId
<1>9. RelayTypeOK'
  <2> SUFFICES ASSUME NEW k \in DOMAIN kept' PROVE k \in AllIds /\ k[2] <= relay.n /\ kept'[k] \in Nat
    BY <1>1 DEF RelayTypeOK
  <2>1. CASE k \in DOMAIN kept /\ kept'[k] = kept[k]
    BY <2>1 DEF RelayTypeOK
  <2>2. CASE e.keeps # None /\ k = e.id
    <3>1. e.id \in {Minted(relay.n), Theirs(relay.n)} /\ kept'[k] = relay.text
      BY <1>1, <1>6, <1>7, <2>2
    <3> QED BY <1>0, <2>2, <3>1 DEF Minted, Theirs, AllIds
  <2> QED BY <1>1, <2>1, <2>2
<1>10. IdOK(relay)'
  BY <1>1, <1>2 DEF IdOK, Runs, s
<1>11. NamesOK(relay)'
  <2>1. Told(relay', TurnId(relay))
    <3>1. (\A i \in DOMAIN w : w[i].id \in {None, TurnId(relay)}) /\ (\A i \in DOMAIN s : s[i].id \in {None, TurnId(relay)})
      BY <1>6 DEF NamesOK, Told, s, w
    <3>2. (\A i \in DOMAIN a : a[i].id \in {None, TurnId(relay)}) /\ (\A i \in DOMAIN t : t[i].id \in {None, TurnId(relay)})
      BY <1>3, <1>6, <3>1
    <3> QED BY <1>1, <3>2 DEF Told, a, t
  <2> QED BY <1>1, <1>6, <1>8, <2>1 DEF NamesOK
<1>12. NextOK(relay)'
  <2>1. \A i \in DOMAIN s :
           /\ s[i].keeps \in {None, relay.text}
           /\ s[i].keeps # None => s[i].type = "completed" /\ s[i].id # None
           /\ relay.adapter \in Keepers /\ s[i].type = "completed" /\ s[i].id # None => s[i].keeps # None
    BY DEF NextOK, s
  <2>2. \A i \in DOMAIN t :
           /\ t[i].keeps \in {None, relay.text}
           /\ t[i].keeps # None => t[i].type = "completed" /\ t[i].id # None
           /\ relay.adapter \in Keepers /\ t[i].type = "completed" /\ t[i].id # None => t[i].keeps # None
    BY <1>3, <2>1
  <2>3. \A i, j \in DOMAIN t : t[i].type = "delta" /\ t[j].type = "delta" => i = j
    <3> SUFFICES ASSUME NEW i \in DOMAIN t, NEW j \in DOMAIN t, t[i].type = "delta", t[j].type = "delta" PROVE i = j
      OBVIOUS
    <3>1. i + 1 = j + 1
      BY <1>3, <1>4
    <3>2. i \in Nat /\ j \in Nat
      BY <1>1, <1>2 DEF t
    <3> QED BY <3>1, <3>2
  <2>4. Deltas(a) + Coming(t) <= relay.text
    BY <1>5 DEF NextOK, s, w
  <2> QED BY <1>1, <2>2, <2>3, <2>4 DEF NextOK, a, t
<1>13. KeptOK'
  <2>1. \A k \in DOMAIN kept : k \in DOMAIN kept'
    BY <1>1
  <2>2. CompletedIsKept'
    <3> SUFFICES ASSUME relay.adapter \in Keepers, NEW i \in DOMAIN a, a[i].type = "completed", a[i].id # None
                 PROVE  a[i].id \in DOMAIN kept' /\ (relay.streams => kept'[a[i].id] >= CountOf(a, "delta", i))
      <4>1. relay'.wire = a /\ relay'.adapter = relay.adapter /\ relay'.streams = relay.streams
        BY <1>1 DEF a
      <4> QED BY <4>1 DEF CompletedIsKept, CountOf
    <3>0. Coming(t) \in {0, 1} /\ Coming(s) \in {0, 1} /\ Deltas(a) <= relay.text /\ Deltas(a) \in Nat
      <4>1. Coming(t) \in {0, 1} /\ Coming(s) \in {0, 1}
        BY DEF Coming
      <4>2. Deltas(w) + Coming(s) <= relay.text
        BY DEF NextOK, s, w
      <4>3. a \in Seq(RelayEvents)
        BY <1>0, <1>1 DEF a
      <4>4. Len(a) \in Nat
        BY <4>3
      <4>5. Deltas(a) \in Nat
        BY <4>4, CountIsNatural DEF Deltas
      <4> QED BY <1>0, <1>5, <4>1, <4>2, <4>5
    <3>1. CASE i \in DOMAIN w /\ a[i] = w[i]
      <4>1. w[i].id \in DOMAIN kept /\ (relay.streams => kept[w[i].id] >= CountOf(w, "delta", i))
        BY <3>1 DEF KeptOK, CompletedIsKept, CountOf, w
      <4>2. CASE kept'[w[i].id] = kept[w[i].id]
        BY <1>5, <2>1, <3>1, <4>1, <4>2
      <4>3. CASE e.keeps # None /\ kept'[w[i].id] = relay.text
        <5>1. CountOf(a, "delta", i) <= Deltas(a) /\ CountOf(a, "delta", i) \in Nat
          <6>1. Len(w) \in Nat /\ i \in 1..Len(w)
            BY <1>0, <3>1
          <6>2. i \in 0..(Len(w) + 1) /\ Len(w) + 1 \in Nat /\ i \in Nat
            BY <6>1
          <6> QED BY <1>5, <6>2, CountGrows, CountIsNatural
        <5>2. CountOf(a, "delta", i) <= relay.text
          BY <1>0, <3>0, <5>1
        <5> QED BY <1>0, <2>1, <3>1, <4>1, <4>3, <5>1, <5>2
      <4> QED BY <1>1, <1>7, <2>1, <4>1, <4>2, <4>3
    <3>2. CASE i = Len(w) + 1 /\ a[i] = e
      <4>1. e.keeps # None /\ e.keeps = relay.text
        BY <1>7, <3>2
      <4>2. e.id \in DOMAIN kept' /\ kept'[e.id] = relay.text
        BY <1>1, <4>1
      <4>3. CountOf(a, "delta", i) = Deltas(a)
        BY <1>5, <3>2
      <4> QED BY <1>0, <3>0, <3>2, <4>2, <4>3
    <3> QED BY <1>3, <3>1, <3>2
  <2>3. \A k \in DOMAIN kept' \cap {Minted(relay.n), Theirs(relay.n)} : \E i \in DOMAIN a : Completes(a[i], k)
    <3> SUFFICES ASSUME NEW k \in DOMAIN kept', k \in {Minted(relay.n), Theirs(relay.n)}
                 PROVE  \E i \in DOMAIN a : Completes(a[i], k)
      OBVIOUS
    <3>1. CASE k \in DOMAIN kept
      <4>1. PICK i \in DOMAIN w : Completes(w[i], k)
        BY <3>1 DEF KeptOK, w
      <4> QED BY <1>3, <4>1 DEF Completes
    <3>2. CASE e.keeps # None /\ k = e.id
      BY <1>3, <1>7, <3>2 DEF Completes
    <3> QED BY <1>1, <3>1, <3>2
  <2>4. relay.adapter = "openai" /\ relay'.phase = "open" /\ relay.completed # None =>
          \/ \E i \in DOMAIN a : Completes(a[i], relay.completed)
          \/ \E i \in DOMAIN t : Completes(t[i], relay.completed)
    <3> SUFFICES ASSUME relay.adapter = "openai", relay'.phase = "open", relay.completed # None
                 PROVE  \/ \E i \in DOMAIN a : Completes(a[i], relay.completed)
                        \/ \E i \in DOMAIN t : Completes(t[i], relay.completed)
      OBVIOUS
    <3>1. \/ \E i \in DOMAIN w : Completes(w[i], relay.completed)
          \/ \E i \in DOMAIN s : Completes(s[i], relay.completed)
      <4>1. relay.phase = "open"
        BY <1>1
      <4> QED BY <4>1 DEF KeptOK, s, w
    <3>2. ASSUME NEW i \in DOMAIN w, Completes(w[i], relay.completed) PROVE \E j \in DOMAIN a : Completes(a[j], relay.completed)
      BY <1>3, <3>2
    <3>3. ASSUME NEW i \in DOMAIN s, Completes(s[i], relay.completed)
          PROVE  \/ \E j \in DOMAIN a : Completes(a[j], relay.completed)
                 \/ \E j \in DOMAIN t : Completes(t[j], relay.completed)
      <4>1. CASE i = 1
        BY <1>1, <1>3, <3>3, <4>1
      <4>2. CASE i # 1
        BY <1>3, <3>3, <4>2
      <4> QED BY <4>1, <4>2
    <3> QED BY <3>1, <3>2, <3>3
  <2> QED BY <1>1, <2>2, <2>3, <2>4 DEF KeptOK, a, t
<1>14. PhaseOK(relay, upstream)'
  <2>1. relay.phase = "open" /\ ~upstream.completed => Incomplete(relay')
    <3> SUFFICES ASSUME relay.phase = "open", ~upstream.completed PROVE Incomplete(relay')
      OBVIOUS
    <3>1. (\A i \in DOMAIN w : w[i].type # "completed") /\ (\A i \in DOMAIN s : s[i].type # "completed")
      BY DEF PhaseOK, Incomplete, s, w
    <3>2. (\A i \in DOMAIN a : a[i].type # "completed") /\ (\A i \in DOMAIN t : t[i].type # "completed")
      BY <1>1, <1>3, <3>1
    <3> QED BY <1>1, <3>2 DEF Incomplete, a, t
  <2>2. ~Failed(relay', upstream')
    BY <1>1 DEF PhaseOK, Failed
  <2> QED BY <1>1, <2>1, <2>2 DEF PhaseOK
<1>15. AskingIsBlank'
  BY <1>1 DEF AskingIsBlank
<1> QED BY <1>9, <1>10, <1>11, <1>12, <1>13, <1>14, <1>15

\* The consumer has read to the end.
LEMMA DrainedKeeps ==
    ASSUME RelayInv, Drained
    PROVE  RelayInv' /\ AskingIsBlank'
<1>0. relay.phase = "ended" /\ relay.next = <<>> /\ relay' = [relay EXCEPT !.phase = "done"] /\ upstream' = upstream /\ kept' = kept
  BY DEF Drained, Turn
<1>1. /\ relay' \in RelayRecords /\ relay'.phase = "done" /\ relay'.wire = relay.wire /\ relay'.next = relay.next
      /\ relay'.adapter = relay.adapter /\ relay'.n = relay.n /\ relay'.text = relay.text /\ relay'.stopped = relay.stopped
      /\ relay'.streams = relay.streams
  BY <1>0 DEF RelayInv, RelayTypeOK, RelayRecords
<1>2. RelayTypeOK' /\ IdOK(relay)' /\ AskingIsBlank'
  BY <1>0, <1>1 DEF RelayInv, RelayTypeOK, IdOK, Runs, AskingIsBlank
<1>3. NamesOK(relay)'
  BY <1>1 DEF RelayInv, NamesOK, Told, Runs
<1>4. NextOK(relay)'
  BY <1>1 DEF RelayInv, NextOK
<1>5. KeptOK'
  BY <1>0, <1>1 DEF RelayInv, KeptOK, CompletedIsKept
<1>6. PhaseOK(relay, upstream)'
  BY <1>0, <1>1 DEF RelayInv, PhaseOK, Incomplete, Failed
<1> QED BY <1>2, <1>3, <1>4, <1>5, <1>6 DEF RelayInv

\* The invariant holds at first.
LEMMA RelayInitHolds == RelayInit => RelayInv /\ AskingIsBlank
<1> SUFFICES ASSUME RelayInit PROVE RelayInv /\ AskingIsBlank
  OBVIOUS
<1>1. PICK adapter \in Relays :
         relay = [adapter |-> adapter, n |-> 0, phase |-> "idle", streams |-> FALSE, id |-> None,
                  started |-> FALSE, synthetic |-> FALSE, text |-> 0, completed |-> None,
                  next |-> <<>>, wire |-> <<>>, stopped |-> FALSE]
  BY DEF RelayInit
<1>2. upstream = [frames |-> 0, end |-> None, completed |-> FALSE] /\ DOMAIN kept = {}
  BY DEF RelayInit
<1>3. <<>> \in Seq(RelayEvents)
  OBVIOUS
<1>4. RelayTypeOK
  BY <1>1, <1>2, <1>3 DEF RelayTypeOK, RelayRecords, UpstreamRecords, Ends
<1>5. relay.phase = "idle" /\ relay.wire = <<>> /\ relay.next = <<>> /\ relay.text = 0 /\ ~relay.stopped
  BY <1>1
<1>6. IdOK(relay) /\ NamesOK(relay) /\ AskingIsBlank
  BY <1>5 DEF IdOK, NamesOK, Told, Runs, AskingIsBlank
<1>7. NextOK(relay)
  <2>1. Deltas(relay.wire) = 0 /\ Coming(relay.next) = 0
    BY <1>5, NoDeltas DEF Coming
  <2> QED BY <1>5, <2>1 DEF NextOK
<1>8. KeptOK
  BY <1>2, <1>5 DEF KeptOK, CompletedIsKept
<1>9. PhaseOK(relay, upstream)
  BY <1>2, <1>5, NoneIsNoEnd DEF PhaseOK, Failed
<1> QED BY <1>4, <1>6, <1>7, <1>8, <1>9 DEF RelayInv

\* It holds of what does not change.
LEMMA RelayStutters == (RelayInv /\ AskingIsBlank) /\ UNCHANGED relayVars => (RelayInv /\ AskingIsBlank)'
  BY DEF relayVars, RelayInv, RelayTypeOK, KeptOK, CompletedIsKept, AskingIsBlank

\* Each step keeps it.
LEMMA RelayStep ==
    ASSUME RelayInv, AskingIsBlank, RelayNext
    PROVE  RelayInv' /\ AskingIsBlank'
<1>1. ASSUME NEW s \in BOOLEAN, NEW a \in BOOLEAN, Begin(s, a) PROVE RelayInv' /\ AskingIsBlank'
  BY <1>1, BeginKeeps
<1>2. ASSUME NEW status \in Statuses, Answers(status) PROVE RelayInv' /\ AskingIsBlank'
  BY <1>2, AnswersKeeps
<1>3. ASSUME NEW status \in Statuses, NEW o \in BOOLEAN, NEW n \in BOOLEAN, Unary(status, o, n)
      PROVE  RelayInv' /\ AskingIsBlank'
  BY <1>3, UnaryKeeps
<1>4. ASSUME NEW line \in Lines, Noise(line) PROVE RelayInv' /\ AskingIsBlank'
  BY <1>4, NoiseKeeps
<1>5. ASSUME NEW type \in Lifecycle \cup {"delta", "completed", "failed"}, Frame(type, type # "delta")
      PROVE  RelayInv' /\ AskingIsBlank'
  <2> DEFINE named == type # "delta"
  <2>1. named \in BOOLEAN /\ (type \in Lifecycle => named)
    BY DEF Lifecycle
  <2>2. Frame(type, named)
    BY <1>5
  <2> HIDE DEF named
  <2> QED BY <2>1, <2>2, FrameKeeps
<1>6. ASSUME Frame("completed", FALSE) PROVE RelayInv' /\ AskingIsBlank'
  <2>1. "completed" \notin Lifecycle
    BY DEF Lifecycle
  <2> QED BY <1>6, <2>1, FrameKeeps
<1>7. ASSUME UpstreamEnds \/ UpstreamBreaks \/ Drained PROVE RelayInv' /\ AskingIsBlank'
  BY <1>7, UpstreamEndsKeeps, UpstreamBreaksKeeps, DrainedKeeps
<1>8. ASSUME NEW stops \in BOOLEAN, Take(stops) PROVE RelayInv' /\ AskingIsBlank'
  BY <1>8, TakeKeeps
<1> QED BY <1>1, <1>2, <1>3, <1>4, <1>5, <1>6, <1>7, <1>8 DEF RelayNext

\* A relayed turn is told under one id, is kept when it is told as completed, and is an
\* error when its upstream refused it or broke off, for each of the nine adapters.
THEOREM RelaysAreHonest == RelaySpec => []RelayIsHonest
<1>1. RelayInit => RelayInv /\ AskingIsBlank
  BY RelayInitHolds
<1>2. (RelayInv /\ AskingIsBlank) /\ [RelayNext]_relayVars => (RelayInv /\ AskingIsBlank)'
  BY RelayStep, RelayStutters
<1>3. RelayInv /\ AskingIsBlank => RelayIsHonest
  BY RelayHonest
<1> QED BY <1>1, <1>2, <1>3, PTL DEF RelaySpec

(***************************************************************************)
(* ChatMessages: for any inputs and any deltas.                            *)
(***************************************************************************)

-----------------------------------------------------------------------------
(* What the walk over the items of an input says.                          *)

\* What items and messages are made of.
AllItems == UNION {Range(items) : items \in Inputs}
ItemIds == {item.id : item \in AllItems} \cup {None}
Roles == {item.role : item \in AllItems} \cup {"assistant", "tool"}
Contents == {item.text : item \in AllItems} \cup {None}
Messages == [role : Roles, text : Contents, calls : Seq(ItemIds), id : ItemIds]
Words == ({"call"} \X ItemIds) \cup ({"result"} \X ItemIds \X Contents) \cup (Roles \X Contents)

Walks == [out : Seq(Messages), pending : Seq(ItemIds)]
AllSaid(out) == FlattenSeq([i \in DOMAIN out |-> Said(out[i])])
CallsOf(pending) == [i \in DOMAIN pending |-> <<"call", pending[i]>>]
SaidBy(w) == AllSaid(w.out) \o CallsOf(w.pending)

\* An item that may be in an input.
IsItem(item) ==
    /\ item.id \in ItemIds /\ item.role \in Roles /\ item.text \in Contents

LEMMA ItemsAre ==
    ASSUME NEW items \in Inputs
    PROVE  /\ Len(items) \in Nat /\ DOMAIN items = 1..Len(items)
           /\ \A i \in DOMAIN items : IsItem(items[i])
<1> DEFINE R == Range(items)
<1>1. items \in Seq(R)
  BY InputsOK
<1>2. \A item \in R : item \in AllItems
  BY DEF AllItems
<1>3. \A item \in AllItems : item.id \in ItemIds /\ item.role \in Roles /\ item.text \in Contents
  BY DEF ItemIds, Roles, Contents
<1> HIDE DEF R
<1>4. Len(items) \in Nat /\ DOMAIN items = 1..Len(items) /\ \A i \in DOMAIN items : items[i] \in R
  BY <1>1
<1> QED BY <1>1, <1>2, <1>3, <1>4 DEF IsItem

LEMMA SaidIs ==
    ASSUME NEW m \in Messages PROVE Said(m) \in Seq(Words)
<1>1. CASE m.calls # <<>>
  <2>1. m.calls \in Seq(ItemIds)
    BY DEF Messages
  <2>2. Len(m.calls) \in Nat /\ DOMAIN m.calls = 1..Len(m.calls) /\ \A i \in DOMAIN m.calls : m.calls[i] \in ItemIds
    <3> HIDE DEF ItemIds
    <3> QED BY <2>1
  <2>3. \A i \in DOMAIN m.calls : <<"call", m.calls[i]>> \in Words
    BY <2>2 DEF Words
  <2>4. [i \in DOMAIN m.calls |-> <<"call", m.calls[i]>>] \in Seq(Words)
    <3> HIDE DEF Words
    <3> QED BY <2>2, <2>3
  <2> QED BY <1>1, <2>4 DEF Said
<1>2. CASE m.calls = <<>>
  <2>1. <<"result", m.id, m.text>> \in Words /\ <<m.role, m.text>> \in Words
    BY DEF Messages, Words
  <2>2. \A x \in Words : <<x>> \in Seq(Words)
    <3> HIDE DEF Words
    <3> QED OBVIOUS
  <2> QED BY <1>2, <2>1, <2>2 DEF Said
<1> QED BY <1>1, <1>2

LEMMA AllSaidAppend ==
    ASSUME NEW out \in Seq(Messages)
    PROVE  /\ AllSaid(out) \in Seq(Words)
           /\ \A m \in Messages : AllSaid(Append(out, m)) = AllSaid(out) \o Said(m)
<1> DEFINE each(t) == [i \in DOMAIN t |-> Said(t[i])]
<1>2. /\ Len(out) \in Nat /\ DOMAIN out = 1..Len(out) /\ \A i \in DOMAIN out : out[i] \in Messages
  <2> HIDE DEF Messages
  <2> QED OBVIOUS
<1>3. each(out) \in Seq(Seq(Words)) /\ Len(each(out)) = Len(out)
  <2>1. \A i \in 1..Len(out) : Said(out[i]) \in Seq(Words)
    BY <1>2, SaidIs
  <2> HIDE DEF Words
  <2> QED BY <1>2, <2>1
<1>4. AllSaid(out) \in Seq(Words)
  <2> HIDE DEF each
  <2>1. FlattenSeq(each(out)) \in Seq(Words)
    BY <1>3, FlattenInSeq
  <2> QED BY <2>1 DEF AllSaid, each
<1>5. ASSUME NEW m \in Messages PROVE AllSaid(Append(out, m)) = AllSaid(out) \o Said(m)
  <2> DEFINE more == Append(out, m)
  <2>1. /\ DOMAIN more = 1..(Len(out) + 1) /\ more[Len(out) + 1] = m
        /\ \A i \in 1..Len(out) : more[i] = out[i]
    <3> HIDE DEF Messages
    <3> QED OBVIOUS
  <2> HIDE DEF more
  <2>2. Said(m) \in Seq(Words)
    BY SaidIs
  <2>3. each(more) = Append(each(out), Said(m))
    <3> DEFINE s == each(out)
               x == Said(m)
    <3>1. each(more) = [i \in 1..(Len(out) + 1) |-> Said(more[i])]
      BY <2>1
    <3>2. \A i \in 1..Len(out) : s[i] = Said(out[i])
      BY <1>2
    <3>3. s \in Seq(Seq(Words)) /\ x \in Seq(Words) /\ Len(s) = Len(out)
      BY <1>3, <2>2
    <3> HIDE DEF each, s, x
    <3>4. Append(s, x) = Longer(s, x)
      BY <3>3, AppendIs
    <3>5. \A i \in 1..(Len(out) + 1) : i # Len(out) + 1 => i \in 1..Len(out)
      BY <1>2
    <3>6. \A i \in 1..(Len(out) + 1) : Said(more[i]) = IF i = Len(out) + 1 THEN x ELSE s[i]
      BY <2>1, <3>2, <3>5 DEF x
    <3>7. each(more) = Append(s, x)
      BY <3>1, <3>3, <3>4, <3>6 DEF Longer
    <3> QED BY <3>7 DEF s, x
  <2>4. FlattenSeq(each(more)) = FlattenSeq(each(out)) \o Said(m)
    <3> HIDE DEF each
    <3> QED BY <1>3, <2>2, <2>3, FlattenAppend
  <2> QED BY <2>4 DEF AllSaid, more
<1> QED BY <1>4, <1>5

LEMMA CallsAppend ==
    ASSUME NEW pending \in Seq(ItemIds)
    PROVE  /\ CallsOf(pending) \in Seq(Words)
           /\ \A x \in ItemIds : CallsOf(Append(pending, x)) = Append(CallsOf(pending), <<"call", x>>)
           /\ CallsOf(<<>>) = <<>>
<1> DEFINE s == CallsOf(pending)
<1>1. /\ Len(pending) \in Nat /\ DOMAIN pending = 1..Len(pending)
      /\ \A i \in DOMAIN pending : pending[i] \in ItemIds
  <2> HIDE DEF ItemIds
  <2> QED OBVIOUS
<1>2. \A x \in ItemIds : <<"call", x>> \in Words
  BY DEF Words
<1>3. s \in Seq(Words) /\ Len(s) = Len(pending) /\ \A i \in 1..Len(pending) : s[i] = <<"call", pending[i]>>
  <2> HIDE DEF Words, ItemIds
  <2> QED BY <1>1, <1>2 DEF CallsOf
<1>4. ASSUME NEW x \in ItemIds PROVE CallsOf(Append(pending, x)) = Append(s, <<"call", x>>)
  <2> DEFINE more == Append(pending, x)
             c == <<"call", x>>
  <2>1. /\ DOMAIN more = 1..(Len(pending) + 1) /\ more[Len(pending) + 1] = x
        /\ \A i \in 1..Len(pending) : more[i] = pending[i]
    <3> HIDE DEF ItemIds, s
    <3> QED OBVIOUS
  <2>2. c \in Words
    BY <1>2
  <2> HIDE DEF more, s, c
  <2>3. Append(s, c) = Longer(s, c)
    BY <1>3, <2>2, AppendIs
  <2>4. \A i \in 1..(Len(pending) + 1) : i # Len(pending) + 1 => i \in 1..Len(pending)
    BY <1>1
  <2>5. \A i \in 1..(Len(pending) + 1) : <<"call", more[i]>> = IF i = Len(pending) + 1 THEN c ELSE s[i]
    BY <1>3, <2>1, <2>4 DEF c
  <2>6. CallsOf(more) = Append(s, c)
    BY <1>3, <2>1, <2>3, <2>5 DEF CallsOf, Longer
  <2> QED BY <2>6 DEF more, c
<1>5. CallsOf(<<>>) = <<>>
  BY DEF CallsOf
<1> QED BY <1>3, <1>4, <1>5

LEMMA FlushSays ==
    ASSUME NEW w \in Walks
    PROVE  FlushPending(w) \in Walks /\ FlushPending(w).pending = <<>> /\ SaidBy(FlushPending(w)) = SaidBy(w)
           /\ AllSaid(FlushPending(w).out) = SaidBy(w)
<1>1. w.out \in Seq(Messages) /\ w.pending \in Seq(ItemIds) /\ w = [out |-> w.out, pending |-> w.pending]
  BY DEF Walks
<1>2. AllSaid(w.out) \in Seq(Words) /\ CallsOf(w.pending) \in Seq(Words) /\ CallsOf(<<>>) = <<>>
  BY <1>1, AllSaidAppend, CallsAppend
<1>3. \A s \in Seq(Words) : s \o <<>> = s
  OBVIOUS
<1>4. CASE w.pending = <<>>
  <2>1. FlushPending(w) = w
    BY <1>4 DEF FlushPending
  <2>2. SaidBy(w) = AllSaid(w.out) \o <<>>
    BY <1>2, <1>4 DEF SaidBy
  <2> QED BY <1>2, <1>3, <1>4, <2>1, <2>2
<1>5. CASE w.pending # <<>>
  <2> DEFINE m == Message("assistant", None, w.pending, None)
             out == Append(w.out, m)
  <2>1. FlushPending(w) = [out |-> out, pending |-> <<>>]
    BY <1>5 DEF FlushPending
  <2>2. m \in Messages
    BY <1>1 DEF Messages, Message, Roles, Contents, ItemIds
  <2>3. Said(m) = CallsOf(w.pending)
    BY <1>5 DEF Said, CallsOf, Message
  <2> HIDE DEF m
  <2>4. out \in Seq(Messages)
    <3> HIDE DEF Messages
    <3> QED BY <1>1, <2>2
  <2>5. AllSaid(out) = SaidBy(w)
    BY <1>1, <2>2, <2>3, AllSaidAppend DEF SaidBy
  <2>6. AllSaid(out) \in Seq(Words)
    BY <2>4, AllSaidAppend
  <2> HIDE DEF out
  <2>7. FlushPending(w) \in Walks
    <3>1. <<>> \in Seq(ItemIds)
      OBVIOUS
    <3> QED BY <2>1, <2>4, <3>1 DEF Walks
  <2>8. SaidBy(FlushPending(w)) = AllSaid(out) \o <<>>
    <3>1. FlushPending(w).out = out /\ FlushPending(w).pending = <<>>
      BY <2>1
    <3> QED BY <1>2, <3>1 DEF SaidBy
  <2> QED BY <1>3, <2>1, <2>5, <2>6, <2>7, <2>8
<1> QED BY <1>4, <1>5

LEMMA WalkSays ==
    ASSUME NEW w \in Walks, NEW item, IsItem(item)
    PROVE  WalkItem(w, item) \in Walks /\ SaidBy(WalkItem(w, item)) = SaidBy(w) \o Meant(item) /\ Meant(item) \in Seq(Words)
<1>0. item.id \in ItemIds /\ item.role \in Roles /\ item.text \in Contents /\ None \in ItemIds /\ "tool" \in Roles
  BY DEF IsItem, ItemIds, Roles
<1> DEFINE f == FlushPending(w)
<1>1. f \in Walks /\ f.pending = <<>> /\ AllSaid(f.out) = SaidBy(w) /\ SaidBy(f) = SaidBy(w)
  BY FlushSays
<1>2. f.out \in Seq(Messages) /\ f = [out |-> f.out, pending |-> f.pending]
  BY <1>1 DEF Walks
<1>3. CallsOf(<<>>) = <<>>
  BY DEF CallsOf
<1>4. AllSaid(f.out) \in Seq(Words) /\ SaidBy(w) \in Seq(Words)
  BY <1>1, <1>2, AllSaidAppend
<1> HIDE DEF f
<1>5. ASSUME NEW m \in Messages
      PROVE  /\ [f EXCEPT !.out = Append(@, m)] \in Walks
             /\ SaidBy([f EXCEPT !.out = Append(@, m)]) = SaidBy(w) \o Said(m)
  <2> DEFINE out == Append(f.out, m)
  <2>1. out \in Seq(Messages)
    <3> HIDE DEF Messages
    <3> QED BY <1>2
  <2>2. AllSaid(out) = SaidBy(w) \o Said(m) /\ AllSaid(out) \in Seq(Words)
    BY <1>1, <1>2, <2>1, AllSaidAppend
  <2>3. [f EXCEPT !.out = Append(@, m)] = [out |-> out, pending |-> <<>>]
    BY <1>1, <1>2, SMTT(30)
  <2> HIDE DEF out
  <2>4. [out |-> out, pending |-> <<>>] \in Walks
    <3>1. <<>> \in Seq(ItemIds)
      OBVIOUS
    <3> QED BY <2>1, <3>1 DEF Walks
  <2>5. SaidBy([out |-> out, pending |-> <<>>]) = AllSaid(out) \o <<>>
    BY <1>3 DEF SaidBy
  <2>6. AllSaid(out) \o <<>> = AllSaid(out)
    BY <2>2
  <2> QED BY <2>2, <2>3, <2>4, <2>5, <2>6
<1>6. CASE IsCall(item)
  <2>1. Meant(item) = <<<<"call", item.id>>>> /\ WalkItem(w, item) = [w EXCEPT !.pending = Append(@, item.id)]
    BY <1>6 DEF Meant, WalkItem, IsCall, IsResult
  <2>2. w.out \in Seq(Messages) /\ w.pending \in Seq(ItemIds) /\ w = [out |-> w.out, pending |-> w.pending]
    BY DEF Walks
  <2> DEFINE pending == Append(w.pending, item.id)
             c == <<"call", item.id>>
  <2>3. pending \in Seq(ItemIds)
    <3> HIDE DEF ItemIds
    <3> QED BY <1>0, <2>2
  <2>4. WalkItem(w, item) = [out |-> w.out, pending |-> pending]
    <3> HIDE DEF c
    <3> QED BY <2>1, <2>2
  <2>5. /\ AllSaid(w.out) \in Seq(Words) /\ CallsOf(w.pending) \in Seq(Words)
        /\ CallsOf(pending) = Append(CallsOf(w.pending), c)
    BY <1>0, <2>2, AllSaidAppend, CallsAppend
  <2>6. c \in Words
    BY <1>0 DEF Words
  <2> HIDE DEF pending, c
  <2>7. AllSaid(w.out) \o Append(CallsOf(w.pending), c) = (AllSaid(w.out) \o CallsOf(w.pending)) \o <<c>>
    <3> HIDE DEF Words
    <3> QED BY <2>5, <2>6
  <2>8. <<c>> \in Seq(Words)
    <3> HIDE DEF Words
    <3> QED BY <2>6
  <2>9. WalkItem(w, item) \in Walks
    BY <2>2, <2>3, <2>4 DEF Walks
  <2>10. SaidBy(WalkItem(w, item)) = SaidBy(w) \o <<c>>
    <3>1. WalkItem(w, item).out = w.out /\ WalkItem(w, item).pending = pending
      BY <2>4
    <3>2. SaidBy(WalkItem(w, item)) = AllSaid(w.out) \o Append(CallsOf(w.pending), c)
      BY <2>5, <3>1 DEF SaidBy
    <3> QED BY <2>7, <3>2 DEF SaidBy
  <2> QED BY <2>1, <2>8, <2>9, <2>10 DEF c
<1>7. CASE IsResult(item)
  <2> DEFINE m == Message("tool", item.text, <<>>, item.id)
             c == <<"result", item.id, item.text>>
  <2>1. Meant(item) = <<c>> /\ WalkItem(w, item) = [f EXCEPT !.out = Append(@, m)]
    BY <1>7 DEF Meant, WalkItem, f, IsCall, IsResult
  <2>2. item.id # None
    BY <1>7 DEF IsResult
  <2>3. m \in Messages
    BY <1>0 DEF Message, Messages
  <2>4. Said(m) = <<c>>
    BY <2>2 DEF Said, Message
  <2>5. Said(m) \in Seq(Words)
    BY <2>3, SaidIs
  <2> HIDE DEF m, c
  <2> QED BY <1>5, <2>1, <2>3, <2>4, <2>5
<1>8. CASE item.type = "message"
  <2> DEFINE m == Message(item.role, item.text, <<>>, None)
             c == <<item.role, item.text>>
  <2>1. Meant(item) = <<c>> /\ WalkItem(w, item) = [f EXCEPT !.out = Append(@, m)]
    BY <1>8 DEF Meant, WalkItem, f, IsCall, IsResult
  <2>3. m \in Messages
    BY <1>0 DEF Message, Messages
  <2>4. Said(m) = <<c>>
    BY DEF Said, Message
  <2>5. Said(m) \in Seq(Words)
    BY <2>3, SaidIs
  <2> HIDE DEF m, c
  <2> QED BY <1>5, <2>1, <2>3, <2>4, <2>5
<1>9. CASE item.type = "function_call" /\ ~IsCall(item)
  <2>1. Meant(item) = <<>> /\ WalkItem(w, item) = w
    BY <1>9 DEF Meant, WalkItem, IsCall, IsResult
  <2>2. SaidBy(w) \o <<>> = SaidBy(w) /\ <<>> \in Seq(Words)
    BY <1>4
  <2> QED BY <2>1, <2>2
<1>10. CASE item.type # "function_call" /\ ~IsResult(item) /\ item.type # "message"
  <2>1. Meant(item) = <<>> /\ WalkItem(w, item) = f
    BY <1>10 DEF Meant, WalkItem, f, IsCall, IsResult
  <2>2. SaidBy(w) \o <<>> = SaidBy(w) /\ <<>> \in Seq(Words)
    BY <1>4
  <2> QED BY <1>1, <2>1, <2>2
<1> QED BY <1>6, <1>7, <1>8, <1>9, <1>10 DEF IsCall, IsResult

\* A request's items are walked one by one.
LEMMA WalkFold ==
    ASSUME NEW items \in Inputs
    PROVE  \E h : /\ h[0] = [out |-> <<>>, pending |-> <<>>]
                  /\ WalkInputItems(items) = FlushPending(h[Len(items)]).out
                  /\ \A k \in 1..Len(items) : h[k] = WalkItem(h[k - 1], items[k])
<1> DEFINE n == Len(items)
           acc == [out |-> <<>>, pending |-> <<>>]
           g == [x \in (1..n) \X Walks |-> WalkItem(x[2], items[x[1]])]
           eq(f) == [s \in SUBSET (1..n) |->
                       IF s = {} THEN acc ELSE WalkItem(f[s \ {Max(s)}], items[Max(s)])]
           iter == CHOOSE f : f = eq(f)
           h == [k \in 0..n |-> iter[1..k]]
<1>1. n \in Nat /\ DOMAIN items = 1..n /\ \A i \in 1..n : IsItem(items[i])
  BY ItemsAre
<1> HIDE DEF n
<1>2. WalkInputItems(items) = FlushPending(iter[1..n]).out
  <2>1. FoldLeft(WalkItem, acc, items) = iter[1..n]
    BY <1>1 DEF FoldLeft, MapThenFoldSet
  <2> HIDE DEF iter
  <2> QED BY <2>1 DEF WalkInputItems
<1>3. \E f : f = eq(f)
  <2>1. ASSUME NEW x \in (1..n) \X Walks PROVE WalkItem(x[2], items[x[1]]) \in Walks
    BY <1>1, <2>1, WalkSays
  <2>2. g \in [(1..n) \X Walks -> Walks] /\ acc \in Walks
    <3>1. acc \in Walks
      <4>1. <<>> \in Seq(Messages) /\ <<>> \in Seq(ItemIds)
        OBVIOUS
      <4> QED BY <4>1 DEF Walks
    <3> HIDE DEF acc
    <3> QED BY <2>1, <3>1
  <2>3. PICK f \in [SUBSET (1..n) -> Walks] : Folded(f, g, acc, n)
    <3> HIDE DEF g, acc
    <3> QED BY <1>1, <2>2, FoldsExist
  <2>4. ASSUME NEW s \in SUBSET (1..n), s # {}
        PROVE  g[<<Max(s), f[s \ {Max(s)}]>>] = WalkItem(f[s \ {Max(s)}], items[Max(s)])
    <3>1. Max(s) \in 1..n
      BY <1>1, <2>4, MaxIs
    <3>2. f[s \ {Max(s)}] \in Walks
      BY <2>3
    <3> QED BY <3>1, <3>2
  <2>5. f = eq(f)
    <3>1. f = [s \in SUBSET (1..n) |-> IF s = {} THEN acc ELSE g[<<Max(s), f[s \ {Max(s)}]>>]]
      BY <2>3 DEF Folded
    <3> HIDE DEF g, acc
    <3> QED BY <3>1, <2>4
  <2> HIDE DEF eq
  <2> QED BY <2>5
<1>4. iter = eq(iter)
  <2> HIDE DEF eq
  <2> QED BY <1>3
<1> HIDE DEF iter
<1>5. iter[1..0] = acc
  <2>1. 1..0 = {} /\ {} \in SUBSET (1..n)
    OBVIOUS
  <2> HIDE DEF acc
  <2> QED BY <1>4, <2>1
<1>6. ASSUME NEW k \in 1..n PROVE iter[1..k] = WalkItem(iter[1..(k - 1)], items[k])
  <2>1. k \in Nat /\ k # 0 /\ 1..k \in SUBSET (1..n)
    BY <1>1
  <2>2. Max(1..k) = k /\ (1..k) \ {Max(1..k)} = 1..(k - 1) /\ 1..k # {}
    BY <2>1, MaxUpto
  <2> HIDE DEF acc
  <2> QED BY <1>4, <2>1, <2>2
<1>7. h[0] = acc /\ WalkInputItems(items) = FlushPending(h[n]).out
  BY <1>1, <1>2, <1>5
<1>8. ASSUME NEW k \in 1..n PROVE h[k] = WalkItem(h[k - 1], items[k])
  <2>1. k \in 0..n /\ k - 1 \in 0..n
    BY <1>1
  <2> QED BY <1>6, <2>1
<1> HIDE DEF h
<1> QED BY <1>7, <1>8 DEF n

\* What the first k items mean.
MeantBy(items, k) == FlattenSeq([i \in 1..k |-> Meant(items[i])])

LEMMA MeantGrows ==
    ASSUME NEW items \in Inputs, NEW k \in Nat, k + 1 <= Len(items)
    PROVE  MeantBy(items, k + 1) = MeantBy(items, k) \o Meant(items[k + 1])
<1> DEFINE each(j) == [i \in 1..j |-> Meant(items[i])]
           s == each(k)
           x == Meant(items[k + 1])
<1>1. \A i \in 1..(k + 1) : IsItem(items[i])
  BY ItemsAre
<1>2. \A i \in 1..(k + 1) : Meant(items[i]) \in Seq(Words)
  <2>1. \E w : w \in Walks
    <3>1. <<>> \in Seq(Messages) /\ <<>> \in Seq(ItemIds)
      OBVIOUS
    <3>2. [out |-> <<>>, pending |-> <<>>] \in Walks
      BY <3>1 DEF Walks
    <3> QED BY <3>2
  <2> QED BY <1>1, <2>1, WalkSays
<1>3. s \in Seq(Seq(Words)) /\ Len(s) = k /\ x \in Seq(Words) /\ \A i \in 1..k : s[i] = Meant(items[i])
  <2> HIDE DEF Words
  <2> QED BY <1>2
<1>4. \A i \in 1..(k + 1) : Meant(items[i]) = IF i = k + 1 THEN x ELSE s[i]
  <2>1. \A i \in 1..(k + 1) : i # k + 1 => i \in 1..k
    OBVIOUS
  <2> HIDE DEF s
  <2> QED BY <1>3, <2>1
<1>5. each(k + 1) = Append(s, x)
  <2> HIDE DEF s, x
  <2>1. Append(s, x) = Longer(s, x)
    BY <1>3, AppendIs
  <2> QED BY <1>3, <1>4, <2>1 DEF Longer
<1>6. FlattenSeq(each(k + 1)) = FlattenSeq(s) \o x
  <2> HIDE DEF s, x, each
  <2> QED BY <1>3, <1>5, FlattenAppend
<1> QED BY <1>6 DEF MeantBy

\* So the walk says what the items mean.
LEMMA WalkIsWhole ==
    ASSUME NEW items \in Inputs
    PROVE  /\ WalkInputItems(items) \in Seq(Messages)
           /\ AllSaid(WalkInputItems(items)) = FlattenSeq([i \in DOMAIN items |-> Meant(items[i])])
<1>1. PICK h : /\ h[0] = [out |-> <<>>, pending |-> <<>>]
               /\ WalkInputItems(items) = FlushPending(h[Len(items)]).out
               /\ \A k \in 1..Len(items) : h[k] = WalkItem(h[k - 1], items[k])
  BY WalkFold
<1>2. Len(items) \in Nat /\ DOMAIN items = 1..Len(items) /\ \A i \in 1..Len(items) : IsItem(items[i])
  BY ItemsAre
<1> DEFINE Right(k) == h[k] \in Walks /\ SaidBy(h[k]) = MeantBy(items, k)
           S == {k \in Nat : k <= Len(items) => Right(k)}
<1>3. 0 \in S
  <2>1. <<>> \in Seq(Messages) /\ <<>> \in Seq(ItemIds)
    OBVIOUS
  <2>2. h[0] \in Walks /\ h[0].out = <<>> /\ h[0].pending = <<>>
    BY <1>1, <2>1 DEF Walks
  <2>3. AllSaid(<<>>) = <<>> /\ CallsOf(<<>>) = <<>>
    BY DEF AllSaid, FlattenSeq, CallsOf
  <2>4. SaidBy(h[0]) = <<>>
    BY <2>2, <2>3 DEF SaidBy
  <2>5. MeantBy(items, 0) = <<>>
    BY DEF MeantBy, FlattenSeq
  <2> QED BY <2>2, <2>4, <2>5
<1>4. ASSUME NEW k \in Nat, k \in S PROVE k + 1 \in S
  <2> SUFFICES ASSUME k + 1 <= Len(items) PROVE Right(k + 1)
    <3> HIDE DEF Right
    <3> QED OBVIOUS
  <2>1. k + 1 \in 1..Len(items) /\ (k + 1) - 1 = k /\ k <= Len(items)
    BY <1>2
  <2>2. Right(k)
    <3> HIDE DEF Right
    <3> QED BY <1>4, <2>1
  <2>3. h[k + 1] = WalkItem(h[k], items[k + 1]) /\ IsItem(items[k + 1])
    BY <1>1, <1>2, <2>1
  <2>4. h[k + 1] \in Walks /\ SaidBy(h[k + 1]) = SaidBy(h[k]) \o Meant(items[k + 1])
    BY <2>2, <2>3, WalkSays
  <2>5. MeantBy(items, k + 1) = MeantBy(items, k) \o Meant(items[k + 1])
    BY MeantGrows
  <2> QED BY <2>2, <2>4, <2>5
<1>5. Right(Len(items))
  <2> HIDE DEF S
  <2>2. Len(items) \in S
    BY <1>2, <1>3, <1>4, SetInduction
  <2> HIDE DEF Right
  <2> QED BY <1>2, <2>2 DEF S
<1>6. FlushPending(h[Len(items)]) \in Walks /\ AllSaid(FlushPending(h[Len(items)]).out) = MeantBy(items, Len(items))
  BY <1>5, FlushSays
<1>7. FlushPending(h[Len(items)]).out \in Seq(Messages)
  BY <1>6 DEF Walks
<1> QED BY <1>1, <1>2, <1>6, <1>7 DEF MeantBy

-----------------------------------------------------------------------------
(* Which call a delta is part of.                                          *)

OwnerIn(deltas, i) ==
    LET named == {j \in 1..i : deltas[j].index # None}
    IN IF named = {} THEN 0 ELSE deltas[Max(named)].index
Own(deltas, o) == {i \in 1..Len(deltas) : OwnerIn(deltas, i) = o}
OwnersOf(deltas) == {OwnerIn(deltas, i) : i \in 1..Len(deltas)}
CallDeltas == [index : Indexes \cup {None}, id : CallIds \cup {None}, piece : Pieces]

LEMMA OwnerIsIndex ==
    ASSUME NEW deltas \in Seq(CallDeltas), NEW i \in 1..Len(deltas)
    PROVE  OwnerIn(deltas, i) \in Nat
<1> DEFINE named == {j \in 1..i : deltas[j].index # None}
<1>1. i \in Nat /\ \A j \in 1..i : deltas[j] \in CallDeltas
  <2> HIDE DEF CallDeltas
  <2> QED OBVIOUS
<1>2. CASE named = {}
  BY <1>2 DEF OwnerIn
<1>3. CASE named # {}
  <2>1. named \in SUBSET (1..i)
    OBVIOUS
  <2>2. Max(named) \in named
    <3> HIDE DEF named
    <3> QED BY <1>1, <1>3, <2>1, MaxIs
  <2>3. deltas[Max(named)].index \in Indexes
    BY <1>1, <2>2 DEF CallDeltas
  <2> QED BY <1>3, <2>3, IndexesOK DEF OwnerIn
<1> QED BY <1>2, <1>3

LEMMA OwnersAppend ==
    ASSUME NEW deltas \in Seq(CallDeltas), NEW d \in CallDeltas
    PROVE  LET n == Len(deltas)
               more == Append(deltas, d)
           IN /\ \A i \in 1..n : OwnerIn(more, i) = OwnerIn(deltas, i)
              /\ OwnerIn(more, n + 1) = IF d.index # None THEN d.index
                                        ELSE IF n = 0 THEN 0 ELSE OwnerIn(deltas, n)
<1> DEFINE n == Len(deltas)
           more == Append(deltas, d)
           Named(s, i) == {j \in 1..i : s[j].index # None}
<1>1. n \in Nat /\ more[n + 1] = d /\ \A i \in 1..n : more[i] = deltas[i]
  <2> HIDE DEF CallDeltas
  <2> QED OBVIOUS
<1> HIDE DEF n, more
<1>2. ASSUME NEW i \in 1..n PROVE OwnerIn(more, i) = OwnerIn(deltas, i)
  <2>1. \A j \in 1..i : j \in 1..n
    BY <1>1
  <2>2. Named(more, i) = Named(deltas, i)
    BY <1>1, <2>1
  <2>3. CASE Named(deltas, i) = {}
    BY <2>2, <2>3 DEF OwnerIn
  <2>4. CASE Named(deltas, i) # {}
    <3>1. Named(deltas, i) \in SUBSET (1..i) /\ i \in Nat
      BY <1>1
    <3>2. Max(Named(deltas, i)) \in 1..i
      <4>1. Max(Named(deltas, i)) \in Named(deltas, i)
        <5> HIDE DEF Named
        <5> QED BY <2>4, <3>1, MaxIs
      <4> QED BY <3>1, <4>1
    <3>3. more[Max(Named(deltas, i))] = deltas[Max(Named(deltas, i))]
      BY <1>1, <2>1, <3>2
    <3> QED BY <2>2, <2>4, <3>3 DEF OwnerIn
  <2> QED BY <2>3, <2>4
<1>3. CASE d.index # None
  <2> DEFINE named == Named(more, n + 1)
  <2>1. n + 1 \in named /\ named \in SUBSET (1..(n + 1)) /\ n + 1 \in Nat
    BY <1>1, <1>3
  <2>2. Max(named) = n + 1
    <3> HIDE DEF named
    <3>1. Max(named) \in named /\ Max(named) >= n + 1
      BY <2>1, MaxIs
    <3>2. Max(named) \in 1..(n + 1)
      BY <2>1, <3>1
    <3> QED BY <1>1, <3>1, <3>2
  <2>3. OwnerIn(more, n + 1) = more[Max(named)].index
    BY <2>1 DEF OwnerIn
  <2> HIDE DEF named
  <2> QED BY <1>1, <1>2, <1>3, <2>2, <2>3 DEF n, more
<1>4. CASE d.index = None
  <2>1. Named(more, n + 1) = Named(deltas, n)
    <3>1. \A j \in 1..(n + 1) : j = n + 1 \/ j \in 1..n
      BY <1>1
    <3>2. \A j \in 1..n : j \in 1..(n + 1)
      BY <1>1
    <3> QED BY <1>1, <1>4, <3>1, <3>2
  <2>2. CASE n = 0
    <3>1. Named(deltas, n) = {}
      BY <2>2
    <3> QED BY <1>2, <1>4, <2>1, <2>2, <3>1 DEF OwnerIn, n, more
  <2>3. CASE n # 0
    <3>1. CASE Named(deltas, n) = {}
      <4>1. OwnerIn(more, n + 1) = 0 /\ OwnerIn(deltas, n) = 0
        BY <2>1, <3>1 DEF OwnerIn
      <4> QED BY <1>2, <1>4, <2>3, <4>1 DEF n, more
    <3>2. CASE Named(deltas, n) # {}
      <4>1. Named(deltas, n) \in SUBSET (1..n)
        OBVIOUS
      <4>2. Max(Named(deltas, n)) \in 1..n
        <5>1. Max(Named(deltas, n)) \in Named(deltas, n)
          <6> HIDE DEF Named
          <6> QED BY <1>1, <3>2, <4>1, MaxIs
        <5> QED BY <4>1, <5>1
      <4>3. more[Max(Named(deltas, n))] = deltas[Max(Named(deltas, n))]
        BY <1>1, <4>2
      <4>4. OwnerIn(more, n + 1) = OwnerIn(deltas, n)
        BY <2>1, <3>2, <4>3 DEF OwnerIn
      <4> QED BY <1>2, <1>4, <2>3, <4>4 DEF n, more
    <3> QED BY <3>1, <3>2
  <2> QED BY <2>2, <2>3
<1> QED BY <1>3, <1>4

-----------------------------------------------------------------------------
(* The calls that are put together from the first deltas.                  *)

\* The fragments of a call are those of its own deltas, in their order.
Whole(arguments, deltas, own) ==
    /\ arguments \in Seq(Pieces) /\ Len(arguments) = Cardinality(own)
    /\ \A i \in own : arguments[Place(own, i)] = deltas[i].piece

CallsAre(calls, last, deltas) ==
    /\ deltas \in Seq(CallDeltas)
    /\ DOMAIN calls = OwnersOf(deltas) /\ IsFiniteSet(DOMAIN calls)
    /\ last = IF deltas = <<>> THEN None ELSE OwnerIn(deltas, Len(deltas))
    /\ \A o \in DOMAIN calls : Whole(calls[o].arguments, deltas, Own(deltas, o))

LEMMA NoCalls == CallsAre(<<>>, None, <<>>)
<1>1. OwnersOf(<<>>) = {} /\ <<>> \in Seq(CallDeltas) /\ DOMAIN <<>> = {}
  <2>1. 1..Len(<<>>) = {}
    OBVIOUS
  <2>2. <<>> \in Seq(CallDeltas) /\ DOMAIN <<>> = {}
    OBVIOUS
  <2> QED BY <2>1, <2>2 DEF OwnersOf
<1> QED BY <1>1, FS_EmptySet DEF CallsAre

LEMMA WholeAppend ==
    ASSUME NEW deltas \in Seq(CallDeltas), NEW d \in CallDeltas, NEW arguments,
           NEW own \in SUBSET (1..Len(deltas)), Whole(arguments, deltas, own)
    PROVE  /\ Whole(arguments, Append(deltas, d), own)
           /\ Whole(Append(arguments, d.piece), Append(deltas, d), own \cup {Len(deltas) + 1})
<1> DEFINE n == Len(deltas)
           more == Append(deltas, d)
           longer == Append(arguments, d.piece)
           t == own \cup {n + 1}
<1>1. n \in Nat /\ more[n + 1] = d /\ \A i \in 1..n : more[i] = deltas[i]
  <2> HIDE DEF CallDeltas
  <2> QED OBVIOUS
<1>2. d.piece \in Pieces
  BY DEF CallDeltas
<1>3. arguments \in Seq(Pieces) /\ Len(arguments) = Cardinality(own)
  BY DEF Whole
<1>4. /\ longer \in Seq(Pieces) /\ Len(longer) = Len(arguments) + 1 /\ longer[Len(arguments) + 1] = d.piece
      /\ \A i \in 1..Len(arguments) : longer[i] = arguments[i]
  BY <1>2, <1>3
<1> HIDE DEF n, more, longer
<1>5. /\ Cardinality(t) = Cardinality(own) + 1 /\ Place(t, n + 1) = Cardinality(own) + 1
      /\ \A i \in own : Place(t, i) = Place(own, i) /\ Place(own, i) \in 1..Cardinality(own)
  <2>1. own \in SUBSET (1..n)
    BY DEF n
  <2> QED BY <1>1, <2>1, PlaceAppend
<1>6. Whole(arguments, more, own)
  <2>1. \A i \in own : more[i] = deltas[i]
    BY <1>1 DEF n
  <2> QED BY <2>1 DEF Whole
<1>7. Whole(longer, more, t)
  <2>1. ASSUME NEW i \in t PROVE longer[Place(t, i)] = more[i].piece
    <3>1. CASE i = n + 1
      BY <1>1, <1>3, <1>4, <1>5, <3>1
    <3>2. CASE i \in own
      <4>1. longer[Place(t, i)] = arguments[Place(own, i)]
        BY <1>3, <1>4, <1>5, <3>2
      <4>2. arguments[Place(own, i)] = more[i].piece
        BY <1>6, <3>2 DEF Whole
      <4> QED BY <4>1, <4>2
    <3> QED BY <3>1, <3>2
  <2> HIDE DEF t
  <2> QED BY <1>3, <1>4, <1>5, <2>1 DEF Whole
<1> QED BY <1>6, <1>7 DEF n, more, longer

\* The deltas of a call and its new one.
LEMMA OwnAppend ==
    ASSUME NEW deltas \in Seq(CallDeltas), NEW d \in CallDeltas, NEW index,
           OwnerIn(Append(deltas, d), Len(deltas) + 1) = index
    PROVE  /\ Own(Append(deltas, d), index) = Own(deltas, index) \cup {Len(deltas) + 1}
           /\ \A o : o # index => Own(Append(deltas, d), o) = Own(deltas, o)
           /\ OwnersOf(Append(deltas, d)) = OwnersOf(deltas) \cup {index}
<1> DEFINE n == Len(deltas)
           more == Append(deltas, d)
<1>1. n \in Nat /\ Len(more) = n + 1
  <2> HIDE DEF CallDeltas
  <2> QED OBVIOUS
<1>2. /\ \A i \in 1..n : OwnerIn(more, i) = OwnerIn(deltas, i)
      /\ OwnerIn(more, n + 1) = index
  BY OwnersAppend
<1> HIDE DEF n, more
<1>3. 1..(n + 1) = (1..n) \cup {n + 1} /\ n + 1 \notin 1..n
  BY <1>1
<1>4. /\ Own(more, index) = {i \in (1..n) \cup {n + 1} : OwnerIn(more, i) = index}
      /\ Own(deltas, index) = {i \in 1..n : OwnerIn(deltas, i) = index}
  BY <1>1, <1>3 DEF Own, n
<1>5. Own(more, index) = Own(deltas, index) \cup {n + 1}
  BY <1>2, <1>3, <1>4
<1>6. ASSUME NEW o, o # index PROVE Own(more, o) = Own(deltas, o)
  <2>1. /\ Own(more, o) = {i \in (1..n) \cup {n + 1} : OwnerIn(more, i) = o}
        /\ Own(deltas, o) = {i \in 1..n : OwnerIn(deltas, i) = o}
    BY <1>1, <1>3 DEF Own, n
  <2> QED BY <1>2, <1>3, <1>6, <2>1
<1>7. OwnersOf(more) = OwnersOf(deltas) \cup {index}
  <2>1. /\ OwnersOf(more) = {OwnerIn(more, i) : i \in (1..n) \cup {n + 1}}
        /\ OwnersOf(deltas) = {OwnerIn(deltas, i) : i \in 1..n}
    BY <1>1, <1>3 DEF OwnersOf, n
  <2> QED BY <1>2, <2>1
<1> QED BY <1>5, <1>6, <1>7 DEF n, more

Put(calls, index, call) == [i \in DOMAIN calls \cup {index} |-> IF i = index THEN call ELSE calls[i]]
Held(calls, index) == IF index \in DOMAIN calls THEN calls[index].arguments ELSE <<>>
Continues(call, calls, index, d) == call.arguments = Append(Held(calls, index), d.piece)
GrownCalls(calls, index, call, deltas, d) == CallsAre(Put(calls, index, call), index, Append(deltas, d))

\* One delta more: the slot that it goes to, and what the slot held before.
LEMMA CallsGrow ==
    ASSUME NEW calls, NEW last, NEW deltas, CallsAre(calls, last, deltas), NEW d \in CallDeltas, NEW index,
           index = IF d.index # None THEN d.index ELSE IF last = None THEN Cardinality(DOMAIN calls) ELSE last,
           NEW call, Continues(call, calls, index, d)
    PROVE  GrownCalls(calls, index, call, deltas, d)
<1> DEFINE n == Len(deltas)
           more == Append(deltas, d)
           new == Put(calls, index, call)
<1>0. deltas \in Seq(CallDeltas)
  BY DEF CallsAre
<1>1. n \in Nat /\ more \in Seq(CallDeltas) /\ Len(more) = n + 1 /\ more # <<>> /\ (n = 0 <=> deltas = <<>>)
  <2> HIDE DEF CallDeltas
  <2> QED BY <1>0
<1>2. OwnerIn(more, n + 1) = IF d.index # None THEN d.index ELSE IF n = 0 THEN 0 ELSE OwnerIn(deltas, n)
  BY <1>0, OwnersAppend
<1> HIDE DEF n, more
<1>3. OwnerIn(more, n + 1) = index
  <2>1. CASE n = 0
    <3>1. last = None
      BY <1>1, <2>1 DEF CallsAre
    <3>2. OwnersOf(deltas) = {}
      BY <2>1 DEF OwnersOf, n
    <3>3. Cardinality(DOMAIN calls) = 0
      BY <3>2, FS_EmptySet DEF CallsAre
    <3> QED BY <1>2, <2>1, <3>1, <3>3
  <2>2. CASE n # 0
    <3>1. last = OwnerIn(deltas, n)
      BY <1>1, <2>2 DEF CallsAre, n
    <3>2. n \in 1..Len(deltas)
      BY <1>1, <2>2 DEF n
    <3>3. last \in Nat
      BY <1>0, <3>1, <3>2, OwnerIsIndex
    <3>4. last # None
      BY <3>3, IndexesOK
    <3> QED BY <1>2, <2>2, <3>1, <3>4
  <2> QED BY <2>1, <2>2
<1>4. /\ Own(more, index) = Own(deltas, index) \cup {n + 1}
      /\ \A o : o # index => Own(more, o) = Own(deltas, o)
      /\ OwnersOf(more) = OwnersOf(deltas) \cup {index}
  BY <1>0, <1>3, OwnAppend DEF n, more
<1>5. DOMAIN new = OwnersOf(more) /\ IsFiniteSet(DOMAIN new)
  <2>1. DOMAIN new = DOMAIN calls \cup {index}
    BY DEF Put
  <2>2. DOMAIN calls = OwnersOf(deltas) /\ IsFiniteSet(DOMAIN calls)
    BY DEF CallsAre
  <2> HIDE DEF new
  <2> QED BY <1>4, <2>1, <2>2, FS_AddElement
<1>6. ASSUME NEW o \in DOMAIN new PROVE Whole(new[o].arguments, more, Own(more, o))
  <2>0. Own(deltas, o) \in SUBSET (1..Len(deltas))
    BY DEF Own
  <2>1. CASE o # index
    <3>1. o \in DOMAIN calls /\ new[o] = calls[o]
      BY <2>1 DEF Put
    <3>2. Whole(calls[o].arguments, deltas, Own(deltas, o))
      BY <3>1 DEF CallsAre
    <3> QED BY <1>0, <1>4, <2>0, <2>1, <3>1, <3>2, WholeAppend DEF more
  <2>2. CASE o = index
    <3> DEFINE before == Held(calls, index)
    <3>1. Whole(before, deltas, Own(deltas, index))
      <4>1. CASE index \in DOMAIN calls
        BY <4>1 DEF CallsAre, Held
      <4>2. CASE index \notin DOMAIN calls
        <5>1. Own(deltas, index) = {}
          BY <4>2 DEF CallsAre, Own, OwnersOf
        <5>2. before = <<>> /\ <<>> \in Seq(Pieces) /\ Len(<<>>) = 0
          BY <4>2 DEF Held
        <5> QED BY <5>1, <5>2, FS_EmptySet DEF Whole
      <4> QED BY <4>1, <4>2
    <3>2. new[o].arguments = Append(before, d.piece)
      BY <2>2 DEF Put, Continues
    <3> HIDE DEF before, new
    <3>3. Whole(Append(before, d.piece), Append(deltas, d), Own(deltas, index) \cup {Len(deltas) + 1})
      <4>1. Own(deltas, index) \in SUBSET (1..Len(deltas))
        BY DEF Own
      <4> QED BY <1>0, <3>1, <4>1, WholeAppend
    <3>4. Whole(Append(before, d.piece), more, Own(more, index))
      BY <1>4, <3>3 DEF n, more
    <3> QED BY <2>2, <3>2, <3>4
  <2> QED BY <2>1, <2>2
<1> HIDE DEF new
<1>7. CallsAre(new, index, more)
  BY <1>1, <1>3, <1>5, <1>6 DEF CallsAre
<1> QED BY <1>7 DEF new, more, GrownCalls

-----------------------------------------------------------------------------
(* The turn.                                                               *)

\* The input and what was made of it stay together; the calls are those of
\* the deltas so far, and they are what is given back.
ChatInv ==
    /\ chat = [phase |-> chat.phase, input |-> chat.input, prior |-> chat.prior,
               messages |-> chat.messages, text |-> chat.text, calls |-> chat.calls,
               last |-> chat.last, deltas |-> chat.deltas, output |-> chat.output]
    /\ chat.phase # "idle" =>
          /\ chat.input \in Inputs /\ chat.messages = BuildMessages(chat.input, chat.prior)
          /\ chat.prior = <<>> \/ \E m : chat.prior = <<m>>
    /\ CallsAre(chat.calls, chat.last, chat.deltas)
    /\ chat.phase = "stored" =>
          chat.output = <<[text |-> chat.text]>> \o
              [n \in 1..Cardinality(DOMAIN chat.calls) |-> chat.calls[Nth(DOMAIN chat.calls, n)]]

LEMMA ChatStarts == ASSUME ChatInit PROVE ChatInv
<1>1. CallsAre(chat.calls, chat.last, chat.deltas)
  BY NoCalls DEF ChatInit
<1> QED BY <1>1 DEF ChatInit, ChatInv

LEMMA ChatGoesOn == ASSUME ChatInv, [ChatNext]_chatVars PROVE ChatInv'
<1>0. chat = [phase |-> chat.phase, input |-> chat.input, prior |-> chat.prior,
              messages |-> chat.messages, text |-> chat.text, calls |-> chat.calls,
              last |-> chat.last, deltas |-> chat.deltas, output |-> chat.output]
  BY DEF ChatInv
<1>1. CASE UNCHANGED chatVars
  BY <1>1 DEF ChatInv, chatVars
<1>2. ASSUME NEW items \in Inputs, NEW prior \in PriorTurns, Ask(items, prior) PROVE ChatInv'
  <2>1. prior = <<>> \/ \E m : prior = <<m>>
    BY DEF PriorTurns
  <2>2. chat' = [phase |-> "streaming", input |-> items, prior |-> prior,
                 messages |-> BuildMessages(items, prior), text |-> <<>>, calls |-> <<>>,
                 last |-> None, deltas |-> <<>>, output |-> <<>>]
    BY <1>2 DEF Ask
  <2>3. CallsAre(chat'.calls, chat'.last, chat'.deltas)
    BY <2>2, NoCalls
  <2> QED BY <2>1, <2>2, <2>3 DEF ChatInv
<1>3. ASSUME NEW d \in CallDeltas, CallDelta(d) PROVE ChatInv'
  <2> DEFINE index == IndexOf(d)
             call == Accumulated(index, d)
             calls == Put(chat.calls, index, call)
             deltas == Append(chat.deltas, d)
  <2>1. chat' = [chat EXCEPT !.calls = calls, !.last = index, !.deltas = deltas] /\ chat.phase = "streaming"
    BY <1>3 DEF CallDelta, Receives, Put
  <2>2. index = IF d.index # None THEN d.index ELSE IF chat.last = None THEN Cardinality(DOMAIN chat.calls) ELSE chat.last
    BY DEF IndexOf
  <2>3. Continues(call, chat.calls, index, d)
    BY DEF Accumulated, Slot, Continues, Held
  <2> HIDE DEF index, call
  <2>4. CallsAre(calls, index, deltas)
    <3>1. CallsAre(chat.calls, chat.last, chat.deltas)
      BY DEF ChatInv
    <3>2. GrownCalls(chat.calls, index, call, chat.deltas, d)
      BY <2>2, <2>3, <3>1, CallsGrow
    <3> QED BY <3>2 DEF GrownCalls
  <2> HIDE DEF calls, deltas
  <2>5. chat' = [phase |-> chat.phase, input |-> chat.input, prior |-> chat.prior,
                 messages |-> chat.messages, text |-> chat.text, calls |-> calls,
                 last |-> index, deltas |-> deltas, output |-> chat.output]
    BY <1>0, <2>1
  <2>6. CallsAre(chat'.calls, chat'.last, chat'.deltas)
    BY <2>4, <2>5
  <2> QED BY <2>1, <2>5, <2>6 DEF ChatInv
<1>4. ASSUME NEW piece \in Pieces, TextDelta(piece) PROVE ChatInv'
  <2> DEFINE text == Append(chat.text, piece)
  <2>1. chat' = [chat EXCEPT !.text = text] /\ chat.phase = "streaming"
    BY <1>4 DEF TextDelta, Receives
  <2> HIDE DEF text
  <2>2. chat' = [phase |-> chat.phase, input |-> chat.input, prior |-> chat.prior,
                 messages |-> chat.messages, text |-> text, calls |-> chat.calls,
                 last |-> chat.last, deltas |-> chat.deltas, output |-> chat.output]
    BY <1>0, <2>1
  <2>3. CallsAre(chat'.calls, chat'.last, chat'.deltas)
    BY <2>2 DEF ChatInv
  <2> QED BY <2>1, <2>2, <2>3 DEF ChatInv
<1>5. CASE Finish
  <2> DEFINE output == <<[text |-> chat.text]>> \o
                 [n \in 1..Cardinality(DOMAIN chat.calls) |-> chat.calls[Nth(DOMAIN chat.calls, n)]]
  <2>1. chat' = [chat EXCEPT !.phase = "stored", !.output = output] /\ chat.phase = "streaming"
    BY <1>5 DEF Finish
  <2> HIDE DEF output
  <2>2. chat' = [phase |-> "stored", input |-> chat.input, prior |-> chat.prior,
                 messages |-> chat.messages, text |-> chat.text, calls |-> chat.calls,
                 last |-> chat.last, deltas |-> chat.deltas, output |-> output]
    BY <1>0, <2>1
  <2>3. CallsAre(chat'.calls, chat'.last, chat'.deltas)
    BY <2>2 DEF ChatInv
  <2>4. chat'.output = <<[text |-> chat'.text]>> \o
                 [n \in 1..Cardinality(DOMAIN chat'.calls) |-> chat'.calls[Nth(DOMAIN chat'.calls, n)]]
    BY <2>2 DEF output
  <2> QED BY <2>1, <2>2, <2>3, <2>4 DEF ChatInv
<1>6. ASSUME NEW index \in Indexes \cup {None}, NEW id \in CallIds \cup {None}, NEW piece \in Pieces
      PROVE  Delta(index, id, piece) \in CallDeltas
  BY DEF Delta, CallDeltas
<1> QED BY <1>1, <1>2, <1>3, <1>4, <1>5, <1>6 DEF ChatNext

LEMMA OrderIsKept == ASSUME ChatInv PROVE ChatKeepsOrder
<1> SUFFICES ASSUME chat.phase # "idle", HasToolItems(chat.input)
             PROVE  FlattenSeq([i \in DOMAIN SubSeq(chat.messages, Len(chat.prior) + 1, Len(chat.messages)) |->
                                  Said(SubSeq(chat.messages, Len(chat.prior) + 1, Len(chat.messages))[i])])
                    = FlattenSeq([i \in DOMAIN chat.input |-> Meant(chat.input[i])])
  BY DEF ChatKeepsOrder
<1> DEFINE walked == WalkInputItems(chat.input)
<1>1. chat.input \in Inputs /\ chat.messages = chat.prior \o walked
  BY DEF ChatInv, BuildMessages
<1>2. walked \in Seq(Messages) /\ AllSaid(walked) = FlattenSeq([i \in DOMAIN chat.input |-> Meant(chat.input[i])])
  BY <1>1, WalkIsWhole
<1> HIDE DEF walked
<1>3. SubSeq(chat.messages, Len(chat.prior) + 1, Len(chat.messages)) = walked
  <2> DEFINE p == chat.prior
             r == chat.messages
  <2>1. PICK S : p \in Seq(S) /\ walked \in Seq(S)
    <3> HIDE DEF Messages
    <3>1. CASE p = <<>>
      <4>1. p \in Seq(Messages)
        BY <3>1
      <4> QED BY <1>2, <4>1
    <3>2. ASSUME NEW m, p = <<m>> PROVE \E S : p \in Seq(S) /\ walked \in Seq(S)
      <4> DEFINE T == Messages \cup {m}
      <4>1. p \in Seq(T) /\ walked \in Seq(T)
        BY <1>2, <3>2
      <4> HIDE DEF T
      <4> QED BY <4>1
    <3> QED BY <3>1, <3>2 DEF ChatInv
  <2>2. r = p \o walked
    BY <1>1
  <2> HIDE DEF p, r
  <2>3. SubSeq(r, Len(p) + 1, Len(r)) = walked
    <3>1. Len(r) = Len(p) + Len(walked) /\ Len(p) \in Nat /\ Len(walked) \in Nat
      BY <2>1, <2>2
    <3>2. \A i \in 1..Len(walked) : r[Len(p) + i] = walked[i]
      BY <2>1, <2>2
    <3>3. SubSeq(r, Len(p) + 1, Len(r)) = [i \in 1..Len(walked) |-> r[Len(p) + i]]
      <4>2. r \in Seq(S)
        BY <2>1, <2>2
      <4>3. /\ Len(SubSeq(r, Len(p) + 1, Len(r))) = Len(walked)
            /\ \A i \in 1..Len(walked) : SubSeq(r, Len(p) + 1, Len(r))[i] = r[Len(p) + i]
            /\ SubSeq(r, Len(p) + 1, Len(r)) \in Seq(S)
        BY <3>1, <4>2
      <4> QED BY <4>3
    <3>4. walked = [i \in 1..Len(walked) |-> walked[i]]
      BY <2>1
    <3> QED BY <3>2, <3>3, <3>4
  <2> QED BY <2>3 DEF p, r
<1> QED BY <1>2, <1>3 DEF AllSaid

LEMMA AnswerIsWhole == ASSUME ChatInv PROVE CallsAreWhole
<1> SUFFICES ASSUME chat.phase = "stored" PROVE CallsAreWhole
  BY DEF CallsAreWhole
<1> DEFINE D == DOMAIN chat.calls
           k == Cardinality(D)
           tail == [n \in 1..k |-> chat.calls[Nth(D, n)]]
<1>1. /\ chat.deltas \in Seq(CallDeltas) /\ D = OwnersOf(chat.deltas) /\ IsFiniteSet(D)
      /\ \A o \in D : Whole(chat.calls[o].arguments, chat.deltas, Own(chat.deltas, o))
      /\ chat.output = <<[text |-> chat.text]>> \o tail
  BY DEF ChatInv, CallsAre
<1>2. D \in SUBSET Nat
  BY <1>1, OwnerIsIndex DEF OwnersOf
<1>3. k \in Nat
  BY <1>1, FS_CardinalityType
<1>4. Len(chat.output) = k + 1 /\ \A n \in 1..k : chat.output[n + 1] = chat.calls[Nth(D, n)]
  <2> DEFINE x == [text |-> chat.text]
             S == {x} \cup {tail[n] : n \in 1..k}
  <2> HIDE DEF k, x
  <2>1. tail \in Seq(S) /\ Len(tail) = k /\ \A n \in 1..k : tail[n] = chat.calls[Nth(D, n)]
    BY <1>3
  <2>2. <<x>> \in Seq(S) /\ Len(<<x>>) = 1
    OBVIOUS
  <2>3. chat.output = <<x>> \o tail
    BY <1>1 DEF x
  <2> HIDE DEF tail, S
  <2>4. Len(chat.output) = k + 1 /\ \A n \in 1..k : chat.output[n + 1] = tail[n]
    BY <1>3, <2>1, <2>2, <2>3
  <2> QED BY <2>1, <2>4
<1>5. ASSUME NEW o \in D PROVE chat.output[Place(D, o) + 1] = chat.calls[o]
  <2>1. Place(D, o) \in 1..k /\ Nth(D, Place(D, o)) = o
    BY <1>1, <1>2, PlaceIs
  <2> HIDE DEF D, k
  <2> QED BY <1>4, <2>1
<1>6. \A i \in DOMAIN chat.deltas : Owner(i) = OwnerIn(chat.deltas, i)
  BY DEF Owner, OwnerIn
<1>7. DOMAIN chat.deltas = 1..Len(chat.deltas)
  <2> HIDE DEF CallDeltas
  <2> QED BY <1>1
<1>8. {Owner(i) : i \in DOMAIN chat.deltas} = D
  BY <1>1, <1>6, <1>7 DEF OwnersOf
<1>9. \A o \in D : {i \in DOMAIN chat.deltas : Owner(i) = o} = Own(chat.deltas, o)
  BY <1>6, <1>7 DEF Own
<1> HIDE DEF D, k
<1>10. ASSUME NEW o \in D
       PROVE  LET own == {i \in DOMAIN chat.deltas : Owner(i) = o}
                  arguments == chat.output[Place(D, o) + 1].arguments
              IN /\ Len(arguments) = Cardinality(own)
                 /\ \A i \in own : arguments[Place(own, i)] = chat.deltas[i].piece
  <2>1. Whole(chat.calls[o].arguments, chat.deltas, Own(chat.deltas, o))
    BY <1>1 DEF D
  <2> QED BY <1>5, <1>9, <2>1 DEF Whole
<1> QED BY <1>4, <1>8, <1>10 DEF CallsAreWhole, k

\* A tool loop that goes upstream says what the request said, in its order,
\* and every call of an answer comes back once, with all of its fragments, for
\* every input and every answer (openai_chat.py, replay.py).
THEOREM ChatsAreWhole == ChatInit /\ [][ChatNext]_chatVars => []ChatIsWhole
<1>1. ChatInv => ChatIsWhole
  BY OrderIsKept, AnswerIsWhole DEF ChatIsWhole
<1> QED BY <1>1, ChatStarts, ChatGoesOn, PTL

=============================================================================
