----------------------- MODULE ResponsesGatewayProofs -----------------------
(***************************************************************************)
(* Proofs about ResponsesGateway, for any number of requests, fragments    *)
(* and faults.  Two invariants: IInv, that what is queued is in the store, *)
(* and LInv, that what each client heard and what is queued for it make up *)
(* one answer and tell the text received so far.                           *)
(***************************************************************************)
EXTENDS ResponsesGateway, DataLemmas, SequenceTheorems

\* Nothing came from the upstream of a request that waits for its first answer.
Untouched(r) ==
    pc[r] \in {"new", "gate", "thread", "call", "first"} => ~started[r] /\ text[r] = <<>>

FirstRun(r) == pc[r] = "first" => run[r] = 1

\* There is something to send in the two points that send.
Loaded(r) == pc[r] \in {"send", "tail"} => out[r] # <<>>

\* The turn is kept when the queue holds its completion, and not before its
\* last answer has come.
KeptLate(r) ==
    /\ pc[r] \in {"new", "gate"} \cup Upstream => store[r] = None
    /\ pc[r] = "send" /\ store[r] # None => out[r][Len(out[r])].type = "completed"

\* What is about to be sent can be asked for, and tells no body.
QueueIsKept(r) ==
    \A i \in DOMAIN out[r] :
        /\ out[r][i].type # "body"
        /\ out[r][i].type = "completed" => store[r] # None /\ store[r].text = out[r][i].text
        /\ pc[r] = "tail" => out[r][i].type \notin {"created", "completed"}

Remembered(r) == started[r] => items[r] = "original"

HeardIsAnswerable ==
    \A r \in Requests : \A i \in DOMAIN wire[r] : Answerable(r, wire[r][i])

\* The strengthening: what was heard is answerable because what is queued is
\* kept, and what is queued is kept because a turn is stored in the step that
\* queues its completion and never changes after it.
Silent == \A r \in Requests : Untouched(r) /\ FirstRun(r)
Queued == \A r \in Requests : Loaded(r) /\ KeptLate(r) /\ QueueIsKept(r) /\ Remembered(r)
IInv == TypeOK /\ Silent /\ Queued /\ HeardIsAnswerable

\* A gateway that has seen no request satisfies the invariant.
LEMMA InitInv == Init => IInv
<1> SUFFICES ASSUME Init PROVE IInv
  OBVIOUS
<1>1. TypeOK
  <2>1. \A S : <<>> \in Seq(S)
    OBVIOUS
  <2> QED BY <2>1 DEF Init, TypeOK, Points, Upstream, Texts, AllForms
<1>2. Silent
  BY DEF Init, Silent, Untouched, FirstRun
<1>3. Queued
  BY DEF Init, Queued, Loaded, KeptLate, QueueIsKept, Remembered
<1>4. HeardIsAnswerable
  BY DEF Init, HeardIsAnswerable
<1> QED BY <1>1, <1>2, <1>3, <1>4 DEF IInv

\* A sequence is empty when its length is zero.
LEMMA EmptyEvents == ASSUME NEW s \in Seq(Events) PROVE s = <<>> <=> Len(s) = 0
OBVIOUS

\* A queue of one event is empty after it.
LEMMA LastEvent ==
    ASSUME NEW s \in Seq(Events), s # <<>>
    PROVE  Tail(s) = <<>> <=> Len(s) = 1
<1>1. Len(s) \in Nat /\ Len(s) # 0
  BY EmptyEvents
<1>2. PICK t : t = Tail(s)
  OBVIOUS
<1>3. t \in Seq(Events) /\ Len(t) = Len(s) - 1
  BY <1>1, <1>2
<1>4. t = <<>> <=> Len(t) = 0
  BY <1>3, EmptyEvents
<1> QED BY <1>1, <1>2, <1>3, <1>4

\* The events have their type.
LEMMA EventTypes ==
    /\ Created \in Events /\ Error \in Events /\ Status \in Events /\ Done \in Events /\ End \in Events
    /\ <<Created>> \in Seq(Events) /\ <<Error>> \in Seq(Events) /\ <<Status>> \in Seq(Events)
    /\ FailureEvents \in Seq(Events) /\ <<End>> \in Seq(Events) /\ <<Done, End>> \in Seq(Events)
    /\ \A f \in Fragment : <<f>> \in Texts /\ Delta(f) \in Events
    /\ \A t \in Texts : Completed(t) \in Events /\ Body(t) \in Events
<1>1. <<>> \in Texts /\ \A f \in Fragment : <<f>> \in Texts
  BY DEF Texts
<1>2. Created \in Events /\ Error \in Events /\ Status \in Events /\ Done \in Events /\ End \in Events
      /\ Event("failed", <<>>) \in Events
  BY <1>1 DEF Created, Error, Status, Done, End, Event, Events
<1>3. \A f \in Fragment : Delta(f) \in Events
  BY <1>1 DEF Delta, Event, Events
<1>4. \A t \in Texts : Completed(t) \in Events /\ Body(t) \in Events
  <2>1. <<>> \in Texts
    BY DEF Texts
  <2>2. \A t \in Texts : Shown(t) \in Texts
    BY <2>1 DEF Shown
  <2> QED BY <2>2 DEF Completed, Body, Event, Events
<1> HIDE DEF Events, Texts, Created, Error, Status, Done, End, Event, Fragment
<1> QED BY <1>1, <1>2, <1>3, <1>4 DEF FailureEvents

\* Telling the client something keeps its record a sequence of events.
LEMMA TellType ==
    ASSUME TypeOK, NEW r \in Requests, NEW s \in Seq(Events), Tell(r, s)
    PROVE  wire' \in [Requests -> Seq(Events)]
<1>1. wire[r] \o s \in Seq(Events)
  BY DEF TypeOK
<1> QED BY <1>1 DEF TypeOK, Tell

\* What is added to the client's record is answerable, and what was heard
\* before stays so: an input is only ever remembered, and a turn is only stored
\* for a request that has none.
LEMMA TellAnswerable ==
    ASSUME TypeOK, HeardIsAnswerable, NEW r \in Requests, NEW e \in Events, Tell(r, <<e>>),
           Answerable(r, e)',
           items' = items \/ items' = [items EXCEPT ![r] = "original"],
           store' = store \/ (store[r] = None /\ \E t : store' = [store EXCEPT ![r] = t])
    PROVE  HeardIsAnswerable'
<1>1. ASSUME NEW q \in Requests, NEW x, Answerable(q, x) PROVE Answerable(q, x)'
  BY <1>1 DEF Answerable, TypeOK
<1> SUFFICES ASSUME NEW q \in Requests, NEW i \in DOMAIN wire'[q], NEW x, x = wire'[q][i]
             PROVE  Answerable(q, x)'
  BY DEF HeardIsAnswerable, Answerable
<1>2. CASE q # r \/ gone[r]
  <2>1. wire'[q] = wire[q]
    BY <1>2 DEF Tell, TypeOK
  <2>2. Answerable(q, x)
    BY <2>1 DEF HeardIsAnswerable
  <2> QED BY <1>1, <2>2
<1>3. CASE q = r /\ ~gone[r]
  <2>1. wire'[r] = wire[r] \o <<e>> /\ wire[r] \in Seq(Events)
    BY <1>3 DEF Tell, TypeOK
  <2>2. CASE i \in DOMAIN wire[r]
    <3>1. wire'[r][i] = wire[r][i]
      BY <2>1, <2>2
    <3>2. Answerable(r, x)
      BY <1>3, <2>2, <3>1 DEF HeardIsAnswerable
    <3> QED BY <1>1, <1>3, <3>2
  <2>3. CASE i \notin DOMAIN wire[r]
    <3>1. x = e
      BY <1>3, <2>1, <2>3
    <3> QED BY <1>3, <3>1
  <2> QED BY <2>2, <2>3
<1> QED BY <1>2, <1>3

\* A step that tells nothing keeps what was heard answerable.
LEMMA UntoldAnswerable ==
    ASSUME TypeOK, HeardIsAnswerable, NEW r \in Requests, wire' = wire, items' = items,
           store' = store \/ (store[r] = None /\ \E t : store' = [store EXCEPT ![r] = t])
    PROVE  HeardIsAnswerable'
<1>1. ASSUME NEW q \in Requests, NEW x, Answerable(q, x) PROVE Answerable(q, x)'
  BY <1>1 DEF Answerable, TypeOK
<1> SUFFICES ASSUME NEW q \in Requests, NEW i \in DOMAIN wire[q], NEW x, x = wire[q][i]
             PROVE  Answerable(q, x)'
  BY DEF HeardIsAnswerable, Answerable
<1>2. Answerable(q, x)
  BY DEF HeardIsAnswerable
<1> QED BY <1>1, <1>2

\* A request that is posted keeps what was heard answerable.
LEMMA AskInv == ASSUME IInv, NEW r \in Requests, Ask(r) PROVE IInv'
<1> USE DEF Go, request, client, faults, kept
<1>1. TypeOK'
  BY DEF IInv, Ask, TypeOK, Points
<1>2. Silent'
  BY DEF IInv, TypeOK, Ask, Silent, Untouched, FirstRun
<1>3. Queued'
  BY DEF IInv, TypeOK, Ask, Queued, Loaded, KeptLate, QueueIsKept, Remembered
<1>4. HeardIsAnswerable'
  BY UntoldAnswerable DEF IInv, Ask
<1> QED BY <1>1, <1>2, <1>3, <1>4 DEF IInv

\* A refusal keeps what was heard answerable.
LEMMA RefuseInv == ASSUME IInv, NEW r \in Requests, Refuse(r) PROVE IInv'
<1> USE DEF Go, request, client, faults, kept
<1>1. TypeOK'
  <2>1. wire' \in [Requests -> Seq(Events)]
    BY TellType, EventTypes DEF IInv, Refuse
  <2> QED BY <2>1 DEF IInv, Refuse, TypeOK, Points
<1>2. Silent'
  BY DEF IInv, TypeOK, Refuse, Silent, Untouched, FirstRun
<1>3. Queued'
  BY DEF IInv, TypeOK, Refuse, Queued, Loaded, KeptLate, QueueIsKept, Remembered
<1>4. HeardIsAnswerable'
  <2>1. Error \in Events /\ Answerable(r, Error)'
    BY EventTypes DEF Answerable, Error, Event
  <2> QED BY <2>1, TellAnswerable DEF IInv, Refuse
<1> QED BY <1>1, <1>2, <1>3, <1>4 DEF IInv

\* Going upstream keeps what was heard answerable.
LEMMA OpenInv == ASSUME IInv, NEW r \in Requests, Open(r) PROVE IInv'
<1> USE DEF Go, request, client, faults, kept
<1>1. TypeOK'
  <2>1. PriorTurn(r) \in Texts
    <3> DEFINE q == CHOOSE q \in previous[r] : TRUE
    <3>1. previous[r] # {} => q \in Requests
      BY DEF IInv, TypeOK
    <3> HIDE DEF q
    <3>2. <<>> \in Texts
      BY DEF Texts
    <3>3. previous[r] # {} /\ store[q] # None => store[q].text \in Texts
      BY <3>1 DEF IInv, TypeOK
    <3>4. PriorTurn(r) = IF kind = "chat" /\ previous[r] # {}
                        THEN IF store[q] = None THEN <<>> ELSE store[q].text ELSE <<>>
      BY DEF PriorTurn, q
    <3> QED BY <3>2, <3>3, <3>4
  <2>2. FirstWait(r) \in Points
    BY GatewayAssumption DEF FirstWait, Points, Upstream, IInv, TypeOK, AllKinds
  <2>3. pc' \in [Requests -> Points] /\ carried' \in [Requests -> Texts]
    BY <2>1, <2>2 DEF IInv, Open, TypeOK
  <2>4. form' \in [Requests -> AllForms] /\ run' \in [Requests -> 0..2]
    BY GatewayAssumption DEF IInv, Open, TypeOK
  <2>5. ASSUME NEW q \in Requests PROVE alive'[q] \subseteq 1..run'[q]
    <3>1. CASE q = r
      <4>1. alive'[r] = {1} /\ run'[r] = 1
        BY <2>4 DEF IInv, Open, TypeOK
      <4> QED BY <3>1, <4>1
    <3>2. CASE q # r
      BY <3>2 DEF IInv, Open, TypeOK
    <3> QED BY <3>1, <3>2
  <2> QED BY <2>3, <2>4, <2>5 DEF IInv, Open, TypeOK
<1>2. FirstWait(r) \in Upstream \ {"pull"}
  BY GatewayAssumption DEF FirstWait, Upstream, IInv, TypeOK, AllKinds
<1>3. Silent'
  BY <1>2 DEF IInv, TypeOK, Open, Silent, Untouched, FirstRun, Upstream
<1>4. Queued'
  BY <1>2 DEF IInv, TypeOK, Open, Queued, Loaded, KeptLate, QueueIsKept, Remembered, Upstream
<1>5. HeardIsAnswerable'
  BY UntoldAnswerable DEF IInv, Open
<1> QED BY <1>1, <1>3, <1>4, <1>5 DEF IInv

\* Ending a run leaves the children of the other runs.
LEMMA RunEndsType ==
    ASSUME TypeOK, NEW r \in Requests, RunEnds(r)
    PROVE  alive' \in [Requests -> SUBSET (1..2)] /\ \A q \in Requests : alive'[q] \subseteq 1..run[q]
<1>1. alive[r] \ {run[r]} \subseteq alive[r] /\ alive[r] \subseteq 1..2 /\ alive[r] \subseteq 1..run[r]
  BY DEF TypeOK
<1>2. alive' = [alive EXCEPT ![r] = alive[r] \ {run[r]}]
  BY DEF RunEnds
<1> QED BY <1>1, <1>2 DEF TypeOK

\* A kept turn has its type.
LEMMA KeepType ==
    ASSUME TypeOK, NEW r \in Requests, NEW t \in Texts, Keep(r, t)
    PROVE  /\ store' \in [Requests -> {None} \cup [turn : {"kept"}, text : Texts, items : AllForms]]
           /\ store'[r] # None /\ store'[r].text = t
<1>1. Turn(t, form[r]) \in [turn : {"kept"}, text : Texts, items : AllForms] /\ Turn(t, form[r]).text = t
  BY DEF TypeOK, Turn
<1>2. Turn(t, form[r]) # None
  BY DEF Turn, None
<1> QED BY <1>1, <1>2 DEF TypeOK, Keep

\* A whole turn, as a replay or a body, keeps what was heard answerable.
LEMMA WholeTurnInv == ASSUME IInv, NEW r \in Requests, WholeTurn(r) PROVE IInv'
<1> USE DEF Go, request, client, faults, kept
<1>0. PICK f \in Fragment :
         /\ text' = [text EXCEPT ![r] = <<f>>]
         /\ IF streamed[r] THEN Replay(r, <<f>>)
            ELSE Keep(r, <<f>>) /\ AnswerUnary(r, <<f>>)
  BY DEF WholeTurn, Fragments
<1>a. <<f>> \in Texts /\ Delta(f) \in Events /\ Completed(<<f>>) \in Events /\ Body(<<f>>) \in Events
      /\ Created \in Events
  BY EventTypes
<1>b. store[r] = None /\ ~started[r]
  BY DEF IInv, Queued, KeptLate, Silent, Untouched, WholeTurn, Upstream
<1>c. store' \in [Requests -> {None} \cup [turn : {"kept"}, text : Texts, items : AllForms]]
      /\ store'[r] # None /\ store'[r].text = <<f>>
  BY <1>0, <1>a, KeepType DEF IInv, Replay
<1>d. \E t : store' = [store EXCEPT ![r] = t]
  BY <1>0 DEF Replay, Keep
<1>e. alive' \in [Requests -> SUBSET (1..2)] /\ \A q \in Requests : alive'[q] \subseteq 1..run[q]
  BY RunEndsType DEF IInv, WholeTurn
<1>f. text' \in [Requests -> Texts]
  BY <1>0, <1>a DEF IInv, TypeOK
<1>1. CASE streamed[r]
  <2> DEFINE o == <<Created, Delta(f), Completed(<<f>>)>>
  <2>0. /\ pc' = [pc EXCEPT ![r] = "send"] /\ out' = [out EXCEPT ![r] = o]
        /\ UNCHANGED <<started, sawDone, wire, items>>
    BY <1>0, <1>1 DEF Replay
  <2>1. o \in Seq(Events) /\ Len(o) = 3
    BY <1>a
  <2>2. o[1].type = "created" /\ o[2].type = "delta" /\ o[3].type = "completed" /\ o[3].text = <<f>>
        /\ DOMAIN o = 1..3
    BY DEF Created, Delta, Completed, Event
  <2> HIDE DEF o
  <2>3. TypeOK'
    BY <1>c, <1>e, <1>f, <2>0, <2>1 DEF IInv, TypeOK, WholeTurn, Points
  <2>4. Silent'
    BY <1>f, <2>0, <1>0 DEF IInv, TypeOK, WholeTurn, Silent, Untouched, FirstRun
  <2>5. Queued'
    <3>1. ASSUME NEW q \in Requests PROVE (Loaded(q) /\ KeptLate(q) /\ QueueIsKept(q) /\ Remembered(q))'
      <4>1. CASE q = r
        <5>1. pc'[r] = "send" /\ out'[r] = o /\ ~started'[r]
          BY <1>b, <2>0 DEF IInv, TypeOK
        <5>2. Loaded(r)' /\ Remembered(r)'
          BY <5>1, <2>1 DEF Loaded, Remembered
        <5>4. KeptLate(r)'
          <6>1. out'[r][Len(out'[r])].type = "completed"
            BY <5>1, <2>1, <2>2
          <6> QED BY <5>1, <6>1 DEF KeptLate, Upstream
        <5>3. QueueIsKept(r)'
          BY <5>1, <1>c, <2>2 DEF QueueIsKept
        <5> QED BY <4>1, <5>2, <5>3, <5>4
      <4>2. CASE q # r
        BY <4>2, <1>d, <2>0 DEF IInv, TypeOK, Queued, Loaded, KeptLate, QueueIsKept, Remembered
      <4> QED BY <4>1, <4>2
    <3> QED BY <3>1 DEF Queued
  <2>6. HeardIsAnswerable'
    BY <1>b, <1>d, <2>0, UntoldAnswerable DEF IInv
  <2> QED BY <2>3, <2>4, <2>5, <2>6 DEF IInv
<1>2. CASE ~streamed[r]
  <2>0. /\ pc' = [pc EXCEPT ![r] = "over"] /\ items' = [items EXCEPT ![r] = "original"]
        /\ Tell(r, <<Body(<<f>>)>>) /\ UNCHANGED <<out, started, sawDone>>
    BY <1>0, <1>2 DEF AnswerUnary
  <2>1. wire' \in [Requests -> Seq(Events)]
    <3>1. <<Body(<<f>>)>> \in Seq(Events)
      BY <1>a
    <3> QED BY <2>0, <3>1, TellType DEF IInv
  <2>2. items' \in [Requests -> {"none"} \cup AllForms]
    BY <2>0 DEF IInv, TypeOK, AllForms
  <2>3. TypeOK'
    BY <1>c, <1>e, <1>f, <2>0, <2>1, <2>2 DEF IInv, TypeOK, WholeTurn, Points
  <2>4. Silent'
    BY <1>f, <2>0, <1>0 DEF IInv, TypeOK, WholeTurn, Silent, Untouched, FirstRun
  <2>5. Queued'
    <3>1. ASSUME NEW q \in Requests PROVE (Loaded(q) /\ KeptLate(q) /\ QueueIsKept(q) /\ Remembered(q))'
      <4>1. CASE q = r
        <5>1. pc'[r] = "over" /\ out'[r] = out[r] /\ ~started'[r]
          BY <1>b, <2>0 DEF IInv, TypeOK
        <5>2. \A i \in DOMAIN out[r] : out[r][i].type \notin {"body", "completed"}
          BY <1>b DEF IInv, Queued, QueueIsKept
        <5> QED BY <4>1, <5>1, <5>2 DEF Loaded, KeptLate, Remembered, QueueIsKept, Upstream
      <4>2. CASE q # r
        BY <4>2, <1>d, <2>0 DEF IInv, TypeOK, Queued, Loaded, KeptLate, QueueIsKept, Remembered
      <4> QED BY <4>1, <4>2
    <3> QED BY <3>1 DEF Queued
  <2>6. Answerable(r, Body(<<f>>))'
    <3>1. items'[r] = "original"
      BY <2>0 DEF IInv, TypeOK
    <3> QED BY <3>1, <1>c DEF Answerable, Body, Event
  <2>7. HeardIsAnswerable'
    BY <1>a, <1>b, <1>d, <2>0, <2>6, TellAnswerable DEF IInv
  <2> QED BY <2>3, <2>4, <2>5, <2>7 DEF IInv
<1> QED BY <1>1, <1>2

\* The failure of a whole turn keeps what was heard answerable.
LEMMA WholeTurnFailsInv == ASSUME IInv, NEW r \in Requests, WholeTurnFails(r) PROVE IInv'
<1> USE DEF Go, request, client, faults, kept
<1>1. TypeOK'
  <2>1. wire' \in [Requests -> Seq(Events)]
    BY TellType, EventTypes DEF IInv, WholeTurnFails
  <2>2. alive' \in [Requests -> SUBSET (1..2)] /\ \A q \in Requests : alive'[q] \subseteq 1..run[q]
    BY RunEndsType DEF IInv, WholeTurnFails
  <2> QED BY <2>1, <2>2 DEF IInv, WholeTurnFails, TypeOK, Points
<1>2. Silent'
  BY DEF IInv, TypeOK, WholeTurnFails, Silent, Untouched, FirstRun
<1>3. Queued'
  BY DEF IInv, TypeOK, WholeTurnFails, Queued, Loaded, KeptLate, QueueIsKept, Remembered, Upstream
<1>4. HeardIsAnswerable'
  <2>1. Error \in Events /\ Answerable(r, Error)'
    BY EventTypes DEF Answerable, Error, Event
  <2> QED BY <2>1, TellAnswerable DEF IInv, WholeTurnFails
<1> QED BY <1>1, <1>2, <1>3, <1>4 DEF IInv

\* A step of r leaves the queues of the other requests as they were.
LEMMA QueuedStep ==
    ASSUME IInv, NEW r \in Requests,
           pc' = pc \/ \E x : pc' = [pc EXCEPT ![r] = x],
           out' = out \/ \E x : out' = [out EXCEPT ![r] = x],
           started' = started \/ \E x : started' = [started EXCEPT ![r] = x],
           items' = items \/ \E x : items' = [items EXCEPT ![r] = x],
           store' = store \/ \E x : store' = [store EXCEPT ![r] = x],
           (Loaded(r) /\ KeptLate(r) /\ QueueIsKept(r) /\ Remembered(r))'
    PROVE  Queued'
<1> SUFFICES ASSUME NEW q \in Requests, q # r
             PROVE  (Loaded(q) /\ KeptLate(q) /\ QueueIsKept(q) /\ Remembered(q))'
  BY DEF Queued
<1>1. pc'[q] = pc[q] /\ out'[q] = out[q] /\ started'[q] = started[q] /\ items'[q] = items[q]
      /\ store'[q] = store[q]
  BY DEF IInv, TypeOK
<1> QED BY <1>1 DEF IInv, Queued, Loaded, KeptLate, QueueIsKept, Remembered

\* The first chunk of a stream keeps what was heard answerable.
LEMMA FirstInv == ASSUME IInv, NEW r \in Requests, First(r) PROVE IInv'
<1> USE DEF Go, request, client, faults, kept
<1>0. PICK o : /\ out' = [out EXCEPT ![r] = o] /\ o \in Seq(Events) /\ o # <<>>
               /\ \A i \in DOMAIN o : o[i].type \in {"created", "delta"}
  <2>1. ASSUME NEW f \in Fragment
        PROVE  /\ <<Created, Delta(f)>> \in Seq(Events) /\ <<Created, Delta(f)>> # <<>>
               /\ \A i \in DOMAIN <<Created, Delta(f)>> : <<Created, Delta(f)>>[i].type \in {"created", "delta"}
    <3>1. Created \in Events /\ Delta(f) \in Events /\ Created.type = "created" /\ Delta(f).type = "delta"
      BY EventTypes DEF Created, Delta, Event
    <3> HIDE DEF Created, Delta, Events
    <3> QED BY <3>1
  <2>2. <<Created>> \in Seq(Events) /\ <<Created>> # <<>>
        /\ \A i \in DOMAIN <<Created>> : <<Created>>[i].type \in {"created", "delta"}
    BY EventTypes DEF Created, Event
  <2> HIDE DEF Created, Delta, Events
  <2>3. CASE \E f \in Fragment : out' = [out EXCEPT ![r] = <<Created, Delta(f)>>]
    BY <2>1, <2>3
  <2>4. CASE out' = [out EXCEPT ![r] = <<Created>>]
    BY <2>2, <2>4
  <2> QED BY <2>3, <2>4 DEF First, Fragments
<1>1. text' \in [Requests -> Texts]
  <2>1. \A f \in Fragment : <<f>> \in Texts
    BY EventTypes
  <2>2. text' = text \/ \E t \in Texts : text' = [text EXCEPT ![r] = t]
    BY <2>1 DEF First, Fragments
  <2> QED BY <2>2 DEF IInv, TypeOK
<1>2. alive' \in [Requests -> SUBSET (1..2)] /\ \A q \in Requests : alive'[q] \subseteq 1..run[q]
  BY RunEndsType DEF IInv, TypeOK, First
<1>3. out' \in [Requests -> Seq(Events)]
  BY <1>0 DEF IInv, TypeOK
<1>4. TypeOK'
  BY <1>1, <1>2, <1>3 DEF IInv, TypeOK, First, Points
<1>5. Silent'
  <2>1. pc' = [pc EXCEPT ![r] = "send"] /\ started' = started /\ run' = run
        /\ (\A q \in Requests \ {r} : text'[q] = text[q])
    BY DEF IInv, TypeOK, First
  <2> QED BY <2>1 DEF IInv, TypeOK, Silent, Untouched, FirstRun
<1>6. Queued'
  <2>1. pc'[r] = "send" /\ out'[r] = o /\ store' = store /\ store[r] = None
        /\ ~started[r] /\ started' = started /\ items' = items
    BY <1>0 DEF IInv, TypeOK, First, Queued, KeptLate, Silent, Untouched, Upstream
  <2>2. (Loaded(r) /\ KeptLate(r) /\ QueueIsKept(r) /\ Remembered(r))'
    BY <1>0, <2>1 DEF Loaded, KeptLate, QueueIsKept, Remembered, Upstream
  <2> QED BY <1>0, <2>1, <2>2, QueuedStep DEF First
<1>7. HeardIsAnswerable'
  BY UntoldAnswerable DEF IInv, First
<1> QED BY <1>4, <1>5, <1>6, <1>7 DEF IInv

\* A failure before the first fragment keeps what was heard answerable.
LEMMA FirstFailsInv == ASSUME IInv, NEW r \in Requests, FirstFails(r) PROVE IInv'
<1> USE DEF Go, request, client, faults, kept
<1>1. CASE FallBack(r)
  <2>1. run' \in [Requests -> 0..2] /\ run'[r] = 2 /\ run[r] = 1
    BY <1>1 DEF IInv, TypeOK, FallBack, FirstFails, Silent, FirstRun
  <2>2. PICK left \in SUBSET {1} : alive' = [alive EXCEPT ![r] = left \cup {2}]
    BY <1>1, <2>1 DEF FallBack
  <2>3. alive' \in [Requests -> SUBSET (1..2)]
    BY <2>2 DEF IInv, TypeOK
  <2>4. ASSUME NEW q \in Requests PROVE alive'[q] \subseteq 1..run'[q]
    <3>1. CASE q = r
      BY <2>1, <2>3, <3>1
    <3>2. CASE q # r
      BY <1>1, <2>2, <3>2 DEF IInv, TypeOK, FallBack
    <3> QED BY <3>1, <3>2
  <2>5. TypeOK'
    BY <1>1, <2>1, <2>3, <2>4 DEF IInv, TypeOK, FirstFails, FallBack, Points, Upstream
  <2>6. Silent'
    BY <1>1 DEF IInv, TypeOK, FirstFails, FallBack, Silent, Untouched, FirstRun
  <2>7. Queued'
    <3>1. (Loaded(r) /\ KeptLate(r) /\ QueueIsKept(r) /\ Remembered(r))'
      BY <1>1 DEF IInv, TypeOK, FirstFails, FallBack, Queued, Loaded, KeptLate, QueueIsKept, Remembered, Upstream
    <3> QED BY <1>1, <3>1, QueuedStep DEF FirstFails, FallBack
  <2>8. HeardIsAnswerable'
    BY <1>1, UntoldAnswerable DEF IInv, FirstFails, FallBack
  <2> QED BY <2>5, <2>6, <2>7, <2>8 DEF IInv
<1>2. CASE PrimeFails(r)
  <2>1. wire' \in [Requests -> Seq(Events)]
    BY <1>2, TellType, EventTypes DEF IInv, PrimeFails
  <2>2. alive' \in [Requests -> SUBSET (1..2)] /\ \A q \in Requests : alive'[q] \subseteq 1..run[q]
    BY <1>2, RunEndsType DEF IInv, PrimeFails
  <2>3. TypeOK'
    BY <1>2, <2>1, <2>2 DEF IInv, FirstFails, PrimeFails, TypeOK, Points
  <2>4. Silent'
    BY <1>2 DEF IInv, TypeOK, FirstFails, PrimeFails, Silent, Untouched, FirstRun
  <2>5. Queued'
    <3>1. (Loaded(r) /\ KeptLate(r) /\ QueueIsKept(r) /\ Remembered(r))'
      BY <1>2 DEF IInv, TypeOK, FirstFails, PrimeFails, Queued, Loaded, KeptLate, QueueIsKept, Remembered, Upstream
    <3> QED BY <1>2, <3>1, QueuedStep DEF FirstFails, PrimeFails
  <2>6. HeardIsAnswerable'
    <3>1. Error \in Events /\ Answerable(r, Error)'
      BY EventTypes DEF Answerable, Error, Event
    <3> QED BY <1>2, <3>1, TellAnswerable DEF IInv, FirstFails, PrimeFails
  <2> QED BY <2>3, <2>4, <2>5, <2>6 DEF IInv
<1> QED BY <1>1, <1>2 DEF FirstFails

\* One more delta keeps what was heard answerable.
LEMMA ChunkInv == ASSUME IInv, NEW r \in Requests, Chunk(r) PROVE IInv'
<1> USE DEF Go, request, client, faults, kept
<1>0. PICK f \in Fragment :
         text' = [text EXCEPT ![r] = Append(text[r], f)] /\ out' = [out EXCEPT ![r] = <<Delta(f)>>]
  BY DEF Chunk, Fragments
<1>1. text' \in [Requests -> Texts]
  <2>1. Append(text[r], f) \in Texts
    BY DEF IInv, TypeOK, Texts
  <2> QED BY <1>0, <2>1 DEF IInv, TypeOK
<1>2. <<Delta(f)>> \in Seq(Events) /\ <<Delta(f)>> # <<>> /\ DOMAIN <<Delta(f)>> = {1}
      /\ <<Delta(f)>>[1].type = "delta"
  <2>1. Delta(f) \in Events /\ Delta(f).type = "delta"
    BY EventTypes DEF Delta, Event
  <2> HIDE DEF Delta, Events
  <2> QED BY <2>1
<1> DEFINE o == <<Delta(f)>>
<1> HIDE DEF o
<1>3. out' = [out EXCEPT ![r] = o] /\ o \in Seq(Events) /\ o # <<>>
      /\ \A i \in DOMAIN o : o[i].type = "delta"
  BY <1>0, <1>2 DEF o
<1>4. TypeOK'
  <2>1. out' \in [Requests -> Seq(Events)]
    BY <1>3 DEF IInv, TypeOK
  <2> QED BY <1>1, <2>1 DEF IInv, TypeOK, Chunk, Points
<1>5. Silent'
  <2>1. pc' = [pc EXCEPT ![r] = "send"] /\ started' = started /\ run' = run
        /\ (\A q \in Requests \ {r} : text'[q] = text[q])
    BY <1>0 DEF IInv, TypeOK, Chunk
  <2> QED BY <2>1 DEF IInv, TypeOK, Silent, Untouched, FirstRun
<1>6. Queued'
  <2>1. pc'[r] = "send" /\ out'[r] = o /\ store' = store /\ store[r] = None
        /\ started' = started /\ items' = items /\ Remembered(r)
    BY <1>3 DEF IInv, TypeOK, Chunk, Queued, KeptLate, Upstream
  <2>2. (Loaded(r) /\ KeptLate(r) /\ QueueIsKept(r) /\ Remembered(r))'
    BY <1>3, <2>1 DEF Loaded, KeptLate, QueueIsKept, Remembered, Upstream
  <2> QED BY <1>3, <2>1, <2>2, QueuedStep DEF Chunk
<1>7. HeardIsAnswerable'
  BY UntoldAnswerable DEF IInv, Chunk
<1> QED BY <1>4, <1>5, <1>6, <1>7 DEF IInv

\* The end of a stream keeps what was heard answerable.
LEMMA EndOfStreamInv == ASSUME IInv, NEW r \in Requests, EndOfStream(r) PROVE IInv'
<1> USE DEF Go, request, client, faults, kept
<1>0. text[r] \in Texts /\ store[r] = None
  BY DEF IInv, TypeOK, EndOfStream, Queued, KeptLate, Upstream
<1> DEFINE o == <<Completed(text[r])>>
<1>1. o \in Seq(Events) /\ o # <<>> /\ Len(o) = 1 /\ DOMAIN o = {1} /\ o[1].type = "completed" /\ o[1].text = text[r]
  <2>1. Completed(text[r]) \in Events /\ Completed(text[r]).type = "completed"
        /\ Completed(text[r]).text = text[r]
    BY <1>0, EventTypes DEF Completed, Event
  <2> HIDE DEF Completed, Events
  <2> QED BY <2>1
<1>2. out' = [out EXCEPT ![r] = o] /\ Keep(r, text[r])
  BY DEF EndOfStream, KeepThenTell
<1> HIDE DEF o
<1>3. store' \in [Requests -> {None} \cup [turn : {"kept"}, text : Texts, items : AllForms]]
      /\ store'[r] # None /\ store'[r].text = text[r]
  BY <1>0, <1>2, KeepType DEF IInv
<1>4. \E t : store' = [store EXCEPT ![r] = t]
  BY <1>2 DEF Keep
<1>5. TypeOK'
  <2>1. out' \in [Requests -> Seq(Events)]
    BY <1>1, <1>2 DEF IInv, TypeOK
  <2>2. alive' \in [Requests -> SUBSET (1..2)] /\ \A q \in Requests : alive'[q] \subseteq 1..run[q]
    BY RunEndsType DEF IInv, TypeOK, EndOfStream
  <2> QED BY <1>3, <2>1, <2>2 DEF IInv, TypeOK, EndOfStream, Points
<1>6. Silent'
  BY DEF IInv, TypeOK, EndOfStream, Silent, Untouched, FirstRun
<1>7. Queued'
  <2>1. pc'[r] = "send" /\ out'[r] = o /\ started' = started /\ items' = items
    BY <1>2 DEF IInv, TypeOK, EndOfStream
  <2>2. out'[r][Len(out'[r])].type = "completed" /\ out'[r] # <<>>
    BY <1>1, <2>1
  <2>3. QueueIsKept(r)'
    BY <1>1, <1>3, <2>1 DEF QueueIsKept
  <2>4. (Loaded(r) /\ KeptLate(r) /\ Remembered(r))'
    BY <2>1, <2>2 DEF IInv, Queued, Loaded, KeptLate, Remembered, Upstream
  <2> QED BY <1>2, <1>4, <2>1, <2>3, <2>4, QueuedStep DEF EndOfStream
<1>8. HeardIsAnswerable'
  BY <1>0, <1>4, UntoldAnswerable DEF IInv, EndOfStream
<1> QED BY <1>5, <1>6, <1>7, <1>8 DEF IInv

\* A failure in mid-stream keeps what was heard answerable.
LEMMA StreamFailsInv == ASSUME IInv, NEW r \in Requests, StreamFails(r) PROVE IInv'
<1> USE DEF Go, request, client, faults, kept
<1>1. out' = [out EXCEPT ![r] = FailureEvents] /\ pc' = [pc EXCEPT ![r] = "tail"] /\ run' = run
  BY DEF StreamFails, MidStreamFailure
<1>2. TypeOK'
  <2>1. out' \in [Requests -> Seq(Events)]
    BY <1>1, EventTypes DEF IInv, TypeOK
  <2>2. alive' \in [Requests -> SUBSET (1..2)] /\ \A q \in Requests : alive'[q] \subseteq 1..run[q]
    BY RunEndsType DEF IInv, TypeOK, StreamFails, MidStreamFailure
  <2> QED BY <1>1, <2>1, <2>2 DEF IInv, TypeOK, StreamFails, Points
<1>3. Silent'
  BY <1>1 DEF IInv, TypeOK, StreamFails, Silent, Untouched, FirstRun
<1>4. Queued'
  <2>1. pc'[r] = "tail" /\ out'[r] = FailureEvents
    BY <1>1 DEF IInv, TypeOK
  <2>2. FailureEvents # <<>> /\ \A i \in DOMAIN FailureEvents :
           FailureEvents[i].type \in {"failed", "[DONE]", "end"}
    <3>1. Event("failed", <<>>).type = "failed" /\ Done.type = "[DONE]" /\ End.type = "end"
      BY DEF Event, Done, End
    <3> HIDE DEF Event, Done, End
    <3> QED BY <3>1 DEF FailureEvents
  <2>3. (Loaded(r) /\ KeptLate(r) /\ QueueIsKept(r) /\ Remembered(r))'
    BY <2>1, <2>2 DEF IInv, StreamFails, Queued, Loaded, KeptLate, QueueIsKept, Remembered, Upstream
  <2> QED BY <1>1, <2>3, QueuedStep DEF StreamFails
<1>5. HeardIsAnswerable'
  BY UntoldAnswerable DEF IInv, StreamFails
<1> QED BY <1>2, <1>3, <1>4, <1>5 DEF IInv

\* The status line keeps what was heard answerable.
LEMMA StartInv == ASSUME IInv, NEW r \in Requests, Start(r) PROVE IInv'
<1> USE DEF Go, request, client, faults, kept
<1>1. TypeOK'
  <2>1. wire' \in [Requests -> Seq(Events)]
    BY TellType, EventTypes DEF IInv, Start
  <2> QED BY <2>1 DEF IInv, Start, TypeOK, AllForms
<1>2. Silent'
  BY DEF IInv, TypeOK, Start, Silent, Untouched, FirstRun
<1>3. Queued'
  <2>1. (Loaded(r) /\ KeptLate(r) /\ QueueIsKept(r) /\ Remembered(r))'
    BY DEF IInv, TypeOK, Start, Queued, Loaded, KeptLate, QueueIsKept, Remembered
  <2> QED BY <2>1, QueuedStep DEF Start
<1>4. HeardIsAnswerable'
  <2>1. Status \in Events /\ Answerable(r, Status)'
    BY EventTypes DEF Answerable, Status, Event
  <2> QED BY <2>1, TellAnswerable DEF IInv, Start
<1> QED BY <1>1, <1>2, <1>3, <1>4 DEF IInv

\* What is left to send after an event, and where the task then waits.
LEMMA SendNextType ==
    ASSUME IInv, NEW r \in Requests, pc[r] = "send", SendNext(r, Head(out[r]))
    PROVE  /\ out' \in [Requests -> Seq(Events)] /\ \E o : out' = [out EXCEPT ![r] = o]
           /\ \E p \in {"tail", "pull", "send"} : pc' = [pc EXCEPT ![r] = p]
           /\ Loaded(r)'
           /\ store' = store => KeptLate(r)' /\ QueueIsKept(r)'
<1> USE DEF Go
<1> DEFINE e == Head(out[r])
           rest == Tail(out[r])
<1>1. out[r] \in Seq(Events) /\ out[r] # <<>>
  BY DEF IInv, TypeOK, Queued, Loaded
<1>2. rest \in Seq(Events) /\ Len(rest) = Len(out[r]) - 1 /\ e = out[r][1]
      /\ \A i \in DOMAIN rest : rest[i] = out[r][i + 1] /\ i + 1 \in DOMAIN out[r]
  BY <1>1
<1>3. CASE e.type = "completed"
  <2> DEFINE saw == sawDone[r] \/ Quotes(e)
             o == IF saw THEN <<End>> ELSE <<Done, End>>
  <2>1. pc' = [pc EXCEPT ![r] = "tail"] /\ out' = [out EXCEPT ![r] = o]
    BY <1>3 DEF SendNext
  <2>2. o \in Seq(Events) /\ o # <<>> /\ \A i \in DOMAIN o : o[i].type \in {"[DONE]", "end"}
    <3>1. <<End>> \in Seq(Events) /\ <<Done, End>> \in Seq(Events)
      BY EventTypes
    <3>2. Done.type = "[DONE]" /\ End.type = "end"
      BY DEF Event, Done, End
    <3> HIDE DEF saw, Done, End
    <3> QED BY <3>1, <3>2
  <2> HIDE DEF o
  <2>3. out' \in [Requests -> Seq(Events)] /\ pc'[r] = "tail" /\ out'[r] = o
    BY <2>1, <2>2 DEF IInv, TypeOK
  <2>4. Loaded(r)' /\ KeptLate(r)' /\ QueueIsKept(r)'
    BY <2>2, <2>3 DEF Loaded, KeptLate, QueueIsKept, Upstream
  <2> QED BY <2>1, <2>3, <2>4
<1>4. CASE e.type # "completed" /\ rest = <<>>
  <2>1. pc' = [pc EXCEPT ![r] = "pull"] /\ out' = [out EXCEPT ![r] = <<>>]
    BY <1>4 DEF SendNext
  <2>2. out' \in [Requests -> Seq(Events)] /\ pc'[r] = "pull" /\ out'[r] = <<>>
    BY <2>1 DEF IInv, TypeOK
  <2>3. store[r] = None
    <3>1. Len(out[r]) = 1
      BY <1>1, <1>4, LastEvent
    <3> QED BY <1>2, <1>4, <3>1 DEF IInv, Queued, KeptLate
  <2>4. Loaded(r)' /\ (store' = store => KeptLate(r)' /\ QueueIsKept(r)')
    BY <2>2, <2>3 DEF Loaded, KeptLate, QueueIsKept, Upstream
  <2> QED BY <2>1, <2>2, <2>4
<1>5. CASE e.type # "completed" /\ rest # <<>>
  <2>1. pc' = [pc EXCEPT ![r] = "send"] /\ out' = [out EXCEPT ![r] = rest]
    BY <1>5 DEF SendNext
  <2>2. out' \in [Requests -> Seq(Events)] /\ pc'[r] = "send" /\ out'[r] = rest
    BY <1>2, <2>1 DEF IInv, TypeOK
  <2>3. rest[Len(rest)] = out[r][Len(out[r])]
    BY <1>1, <1>2, <1>5
  <2>4. KeptLate(r) /\ QueueIsKept(r)
    BY DEF IInv, Queued
  <2>5. Loaded(r)' /\ (store' = store => KeptLate(r)')
    BY <1>5, <2>2, <2>3, <2>4 DEF Loaded, KeptLate, Upstream
  <2>6. store' = store => QueueIsKept(r)'
    BY <1>2, <2>2, <2>4 DEF QueueIsKept
  <2> QED BY <2>1, <2>2, <2>5, <2>6
<1> QED BY <1>3, <1>4, <1>5

\* An event that is sent keeps what was heard answerable.
LEMMA SendInv == ASSUME IInv, NEW r \in Requests, Send(r) PROVE IInv'
<1> USE DEF request, client, faults, kept
<1> DEFINE e == Head(out[r])
<1>1. e \in Events /\ e.type # "body"
      /\ (e.type = "completed" => store[r] # None /\ store[r].text = e.text)
  <2>1. out[r] \in Seq(Events) /\ out[r] # <<>>
    BY DEF IInv, TypeOK, Queued, Loaded, Send
  <2>2. e = out[r][1] /\ 1 \in DOMAIN out[r]
    BY <2>1
  <2> QED BY <2>1, <2>2 DEF IInv, Queued, QueueIsKept
<1>2. Tell(r, <<e>>) /\ SendNext(r, e) /\ pc[r] = "send" /\ started[r]
  BY DEF Send
<1>3. /\ out' \in [Requests -> Seq(Events)] /\ \E o : out' = [out EXCEPT ![r] = o]
      /\ \E p \in {"tail", "pull", "send"} : pc' = [pc EXCEPT ![r] = p]
      /\ Loaded(r)' /\ KeptLate(r)' /\ QueueIsKept(r)'
  BY <1>2, SendNextType DEF Send
<1>4. TypeOK'
  <2>1. wire' \in [Requests -> Seq(Events)]
    <3>1. <<e>> \in Seq(Events)
      BY <1>1
    <3> QED BY <1>2, <3>1, TellType DEF IInv
  <2>2. pc' \in [Requests -> Points]
    BY <1>3 DEF IInv, TypeOK, Points, Upstream
  <2>3. sawDone' \in [Requests -> BOOLEAN]
    <3>1. sawDone' = [sawDone EXCEPT ![r] = sawDone[r] \/ Quotes(e)] /\ (sawDone[r] \/ Quotes(e)) \in BOOLEAN
      BY DEF Send
    <3> QED BY <3>1 DEF IInv, TypeOK
  <2> QED BY <1>3, <2>1, <2>2, <2>3 DEF IInv, TypeOK, Send
<1>5. Silent'
  BY <1>3 DEF IInv, TypeOK, Send, Silent, Untouched, FirstRun
<1>6. Queued'
  <2>1. Remembered(r)'
    BY DEF IInv, Send, Queued, Remembered
  <2> QED BY <1>3, <2>1, QueuedStep DEF Send
<1>7. HeardIsAnswerable'
  <2>1. Answerable(r, e)
    BY <1>1, <1>2 DEF IInv, Queued, Remembered, Answerable
  <2>2. items' = items /\ store' = store
    BY DEF Send
  <2>3. PICK x \in Events : x = e
    BY <1>1
  <2>4. Answerable(r, x)'
    BY <2>1, <2>2, <2>3 DEF Answerable
  <2> QED BY <1>2, <2>2, <2>3, <2>4, TellAnswerable DEF IInv
<1> QED BY <1>4, <1>5, <1>6, <1>7 DEF IInv

\* The last events keeps what was heard answerable.
LEMMA SendTailInv == ASSUME IInv, NEW r \in Requests, SendTail(r) PROVE IInv'
<1> USE DEF Go, request, client, faults, kept
<1> DEFINE e == Head(out[r])
           rest == Tail(out[r])
<1>1. out[r] \in Seq(Events) /\ out[r] # <<>> /\ pc[r] = "tail"
  BY DEF IInv, TypeOK, Queued, Loaded, SendTail
<1>2. rest \in Seq(Events) /\ Len(rest) = Len(out[r]) - 1 /\ e = out[r][1] /\ 1 \in DOMAIN out[r]
      /\ \A i \in DOMAIN rest : rest[i] = out[r][i + 1] /\ i + 1 \in DOMAIN out[r]
  BY <1>1
<1>3. e \in Events /\ e.type \notin {"body", "created", "completed"}
      /\ \A i \in DOMAIN rest : rest[i].type \notin {"body", "created", "completed"}
  BY <1>1, <1>2 DEF IInv, Queued, QueueIsKept
<1>4. \E p \in {"tail", "over"} : pc' = [pc EXCEPT ![r] = p] /\ (p = "tail" => Len(out[r]) # 1)
  BY DEF SendTail
<1>5. out' = [out EXCEPT ![r] = rest] /\ out' \in [Requests -> Seq(Events)] /\ out'[r] = rest
  BY <1>2 DEF SendTail, IInv, TypeOK
<1> HIDE DEF rest
<1>6. TypeOK'
  <2>1. wire' \in [Requests -> Seq(Events)]
    <3>1. <<e>> \in Seq(Events)
      BY <1>3
    <3> QED BY <3>1, TellType DEF IInv, SendTail
  <2>2. pc' \in [Requests -> Points]
    BY <1>4 DEF IInv, TypeOK, Points, Upstream
  <2> QED BY <1>5, <2>1, <2>2 DEF IInv, TypeOK, SendTail
<1>7. Silent'
  BY <1>4 DEF IInv, TypeOK, SendTail, Silent, Untouched, FirstRun
<1>8. Queued'
  <2>1. pc'[r] \in {"tail", "over"} /\ (pc'[r] = "tail" => Len(out[r]) # 1)
    BY <1>4 DEF IInv, TypeOK
  <2>2. pc'[r] = "tail" => rest # <<>>
    BY <1>1, <2>1, LastEvent DEF rest
  <2>3. (Loaded(r) /\ KeptLate(r) /\ QueueIsKept(r) /\ Remembered(r))'
    BY <1>3, <1>5, <2>1, <2>2 DEF IInv, SendTail, Queued, Loaded, KeptLate, QueueIsKept, Remembered, Upstream
  <2> QED BY <1>4, <1>5, <2>3, QueuedStep DEF SendTail
<1>9. HeardIsAnswerable'
  <2>1. PICK x \in Events : x = e
    BY <1>3
  <2>2. Answerable(r, x)'
    BY <1>3, <2>1 DEF Answerable
  <2> QED BY <2>1, <2>2, TellAnswerable DEF IInv, SendTail
<1> QED BY <1>6, <1>7, <1>8, <1>9 DEF IInv

\* A client that goes keeps what was heard answerable.
LEMMA DisconnectInv == ASSUME IInv, NEW r \in Requests, Disconnect(r) PROVE IInv'
<1> USE DEF Go, request, client, faults, kept
<1>1. TypeOK'
  BY DEF IInv, TypeOK, Disconnect
<1>2. Silent'
  BY DEF IInv, Disconnect, Silent, Untouched, FirstRun
<1>3. Queued'
  BY DEF IInv, Disconnect, Queued, Loaded, KeptLate, QueueIsKept, Remembered
<1>4. HeardIsAnswerable'
  BY UntoldAnswerable DEF IInv, Disconnect
<1> QED BY <1>1, <1>2, <1>3, <1>4 DEF IInv

\* A cancellation keeps what was heard answerable.
LEMMA CancelInv == ASSUME IInv, NEW r \in Requests, Cancel(r) PROVE IInv'
<1> USE DEF Go, request, client, faults, kept
<1>1. TypeOK'
  <2>1. alive' \in [Requests -> SUBSET (1..2)] /\ \A q \in Requests : alive'[q] \subseteq 1..run[q]
    <3>1. CASE RunEnds(r)
      BY <3>1, RunEndsType DEF IInv
    <3>2. CASE alive' = alive
      BY <3>2 DEF IInv, TypeOK
    <3> QED BY <3>1, <3>2 DEF Cancel
  <2> QED BY <2>1 DEF IInv, TypeOK, Cancel, Points
<1>2. Silent'
  BY DEF IInv, TypeOK, Cancel, Silent, Untouched, FirstRun
<1>3. Queued'
  <2>1. (Loaded(r) /\ KeptLate(r) /\ QueueIsKept(r) /\ Remembered(r))'
    BY DEF IInv, TypeOK, Cancel, Queued, Loaded, KeptLate, QueueIsKept, Remembered, Upstream
  <2> QED BY <2>1, QueuedStep DEF Cancel
<1>4. HeardIsAnswerable'
  BY UntoldAnswerable DEF IInv, Cancel
<1> QED BY <1>1, <1>2, <1>3, <1>4 DEF IInv

\* The finalizer keeps what was heard answerable.
LEMMA FinalizeInv == ASSUME IInv, NEW r \in Requests, Finalize(r) PROVE IInv'
<1> USE DEF Go, request, client, faults, kept
<1>1. TypeOK'
  <2>1. PICK n : alive' = [alive EXCEPT ![r] = alive[r] \ {n}]
    BY DEF Finalize, Abandoned
  <2>2. alive[r] \ {n} \subseteq alive[r] /\ alive[r] \subseteq 1..2 /\ alive[r] \subseteq 1..run[r]
    BY DEF IInv, TypeOK
  <2>3. alive' \in [Requests -> SUBSET (1..2)] /\ \A q \in Requests : alive'[q] \subseteq 1..run[q]
    BY <2>1, <2>2 DEF IInv, TypeOK
  <2> QED BY <2>3 DEF IInv, TypeOK, Finalize
<1>2. Silent'
  BY DEF IInv, Finalize, Silent, Untouched, FirstRun
<1>3. Queued'
  BY DEF IInv, Finalize, Queued, Loaded, KeptLate, QueueIsKept, Remembered
<1>4. HeardIsAnswerable'
  BY UntoldAnswerable DEF IInv, Finalize
<1> QED BY <1>1, <1>2, <1>3, <1>4 DEF IInv

\* Every step keeps the invariant.
LEMMA StepInv == IInv /\ [Next]_vars => IInv'
<1> SUFFICES ASSUME IInv, [Next]_vars PROVE IInv'
  OBVIOUS
<1>1. CASE UNCHANGED vars
  BY <1>1 DEF IInv, TypeOK, Silent, Untouched, FirstRun, Queued, Loaded, KeptLate, QueueIsKept,
              Remembered, HeardIsAnswerable, Answerable, vars, request, client, faults, kept
<1>2. ASSUME NEW r \in Requests, Ask(r) \/ Progress(r) \/ Disconnect(r) \/ Cancel(r) \/ Finalize(r)
      PROVE  IInv'
  BY <1>2, AskInv, RefuseInv, OpenInv, WholeTurnInv, WholeTurnFailsInv, FirstInv, FirstFailsInv, ChunkInv,
     EndOfStreamInv, StreamFailsInv, StartInv, SendInv, SendTailInv, DisconnectInv, CancelInv, FinalizeInv
     DEF Progress
<1> QED BY <1>1, <1>2 DEF Next

-----------------------------------------------------------------------------
(* What a client hears, in its order.                                      *)

\* The shapes of what a client may have heard: one error or body; the status line;
\* an answer that goes on; one with its verdict; one that was marked done; one that
\* was closed.
Single(s) == Len(s) = 1 /\ s[1].type \in {"error", "body"}
Begun(s) == Len(s) = 1 /\ s[1].type = "200"
Opens(s, n) ==
    /\ n >= 2 /\ n <= Len(s)
    /\ s[1].type = "200" /\ s[2].type = "created"
    /\ \A i \in 3..n : s[i].type = "delta"
Opened(s) == Opens(s, Len(s))
Judges(s, n) == Opens(s, n - 1) /\ n <= Len(s) /\ s[n].type \in {"completed", "failed"}
Judged(s) == Judges(s, Len(s))
Marks(s, n) == Judges(s, n - 1) /\ n <= Len(s) /\ s[n].type = "[DONE]"
MarkedDone(s) == Marks(s, Len(s))
Closed(s) == LET n == Len(s) IN (Judges(s, n - 1) \/ Marks(s, n - 1)) /\ s[n].type = "end"

Shaped(s) ==
    s = <<>> \/ Single(s) \/ Begun(s) \/ Opened(s) \/ Judged(s) \/ MarkedDone(s) \/ Closed(s)

\* A completion tells what the deltas told.
ToldWhole(s) == \A i \in DOMAIN s : s[i].type = "completed" => DeltasOf(s) = s[i].text

\* The queue o of a stream that opens, and of one that told told, when t was received.
Opening(o, t) ==
    \/ o = <<Created>> /\ t = <<>>
    \/ \E f \in Fragment : t = <<f>> /\ o \in {<<Created, Delta(f)>>, <<Created, Delta(f), Completed(t)>>}
Going(o, told, t) ==
    \/ \E f \in Fragment : t = told \o <<f>> /\ o \in {<<Delta(f)>>, <<Delta(f), Completed(t)>>}
    \/ t = told /\ o = <<Completed(t)>>

\* What is left to send after the verdict, or of a failure.
Closing(o, w) ==
    \/ Opened(w) /\ o = FailureEvents
    \/ Judged(w) /\ o \in {<<Done, End>>, <<End>>}
    \/ MarkedDone(w) /\ o = <<End>>

\* A client that stays heard nothing before its stream opens; then what it heard and
\* what is queued make up the text received so far.
Line(p, st, o, w, t) ==
    /\ p \in {"new", "gate", "thread", "call", "first"} => w = <<>>
    /\ p = "send" => \/ Opening(o, t) /\ w = (IF st THEN <<Status>> ELSE <<>>)
                     \/ st /\ Opened(w) /\ Going(o, DeltasOf(w), t)
    /\ p = "pull" => st /\ Opened(w) /\ DeltasOf(w) = t
    /\ p = "tail" => Closing(o, w)

InLine(r) == gone[r] \/ Line(pc[r], started[r], out[r], wire[r], text[r])
Recorded(r) == Shaped(wire[r]) /\ ToldWhole(wire[r])

\* A request names one response at most, and has not run before it is let in.
Named(r) == pc[r] \in {"new", "gate"} => run[r] = 0 /\ \A p, q \in previous[r] : p = q

LineInv == \A r \in Requests : InLine(r) /\ Recorded(r) /\ Named(r)
\* What an event tells of the text.
TextOf(e) == IF e.type = "delta" THEN e.text ELSE <<>>

\* One more event tells its own text after what was told.
LEMMA DeltasAppend ==
    ASSUME NEW s \in Seq(Events), NEW e \in Events
    PROVE  DeltasOf(Append(s, e)) = DeltasOf(s) \o TextOf(e)
<1> DEFINE r == Append(s, e)
           a == [i \in DOMAIN s |-> TextOf(s[i])]
           b == [i \in DOMAIN r |-> TextOf(r[i])]
<1>1. DOMAIN s = 1..Len(s) /\ DOMAIN r = 1..(Len(s) + 1) /\ Len(s) \in Nat
      /\ r[Len(s) + 1] = e /\ (\A i \in 1..Len(s) : r[i] = s[i] /\ s[i] \in Events)
  OBVIOUS
<1>2. \A x \in Events : TextOf(x) \in Seq(Fragment)
  BY DEF TextOf, Events, Texts
<1> HIDE DEF r
<1>3. a \in Seq(Seq(Fragment)) /\ Len(a) = Len(s)
  BY <1>1, <1>2
<1>4. b = Append(a, TextOf(e))
  BY <1>1, <1>3
<1>5. FlattenSeq(b) = FlattenSeq(a) \o TextOf(e)
  BY <1>2, <1>3, <1>4, FlattenAppend
<1>6. DeltasOf(s) = FlattenSeq(a) /\ DeltasOf(r) = FlattenSeq(b)
  BY DEF DeltasOf, TextOf
<1> QED BY <1>5, <1>6 DEF r

\* A client that heard nothing was told nothing.
LEMMA DeltasOfNothing == DeltasOf(<<>>) = <<>>
<1>1. [i \in DOMAIN <<>> |-> IF <<>>[i].type = "delta" THEN <<>>[i].text ELSE <<>>] = <<>>
  OBVIOUS
<1>2. FlattenSeq(<<>>) = <<>>
  BY DEF FlattenSeq
<1> QED BY <1>1, <1>2 DEF DeltasOf

\* What a client may hear next, after an answer of each shape.
LEMMA ShapeAppend ==
    ASSUME NEW s \in Seq(Events), NEW e \in Events, NEW r, r = Append(s, e)
    PROVE  /\ s = <<>> /\ e.type \in {"error", "body"} => Single(r)
           /\ s = <<>> /\ e.type = "200" => Begun(r)
           /\ Begun(s) /\ e.type = "created" => Opened(r)
           /\ Opened(s) /\ e.type = "delta" => Opened(r)
           /\ Opened(s) /\ e.type \in {"completed", "failed"} => Judged(r)
           /\ Judged(s) /\ e.type = "[DONE]" => MarkedDone(r)
           /\ (Judged(s) \/ MarkedDone(s)) /\ e.type = "end" => Closed(r)
<1>1. /\ Len(s) \in Nat /\ Len(r) = Len(s) + 1 /\ r[Len(s) + 1] = e /\ (\A i \in 1..Len(s) : r[i] = s[i])
      /\ (s = <<>> => Len(s) = 0)
  OBVIOUS
<1>2. (s = <<>> /\ e.type \in {"error", "body"} => Single(r)) /\ (s = <<>> /\ e.type = "200" => Begun(r))
  BY <1>1 DEF Single, Begun
<1>3. Begun(s) /\ e.type = "created" => Opened(r)
  BY <1>1 DEF Begun, Opened, Opens
<1>4. Opened(s) /\ e.type = "delta" => Opened(r)
  <2> SUFFICES ASSUME Opened(s), e.type = "delta" PROVE Opened(r)
    OBVIOUS
  <2>1. Len(s) >= 2 /\ s[1].type = "200" /\ s[2].type = "created" /\ \A i \in 3..Len(s) : s[i].type = "delta"
    BY DEF Opened, Opens
  <2> QED BY <1>1, <2>1 DEF Opened, Opens
<1>5. ASSUME NEW n \in Nat, n <= Len(s) PROVE (Opens(s, n) => Opens(r, n)) /\ (Judges(s, n) => Judges(r, n))
      /\ (Marks(s, n) => Marks(r, n))
  <2>1. ASSUME NEW k \in Int, Opens(s, k) PROVE Opens(r, k)
    BY <1>1, <2>1 DEF Opens
  <2>2. ASSUME NEW k \in Int, Judges(s, k) PROVE Judges(r, k)
    <3>1. Opens(r, k - 1) /\ k - 1 >= 2
      <4>1. Opens(s, k - 1) /\ k - 1 \in Int
        BY <2>2 DEF Judges
      <4>2. Opens(r, k - 1)
        BY <2>1, <4>1
      <4>3. k - 1 >= 2
        BY <4>1 DEF Opens
      <4> QED BY <4>2, <4>3
    <3> QED BY <1>1, <2>2, <3>1 DEF Judges
  <2>3. ASSUME NEW k \in Int, Marks(s, k) PROVE Marks(r, k)
    <3>1. Judges(r, k - 1) /\ k - 1 >= 2
      <4>1. Judges(s, k - 1) /\ k - 1 \in Int
        BY <2>3 DEF Marks
      <4>2. Judges(r, k - 1)
        BY <2>2, <4>1
      <4>3. k - 1 >= 2
        BY <4>1 DEF Judges, Opens
      <4> QED BY <4>2, <4>3
    <3> QED BY <1>1, <2>3, <3>1 DEF Marks
  <2> QED BY <2>1, <2>2, <2>3
<1>6. Opened(s) /\ e.type \in {"completed", "failed"} => Judged(r)
  BY <1>1, <1>5 DEF Opened, Judged, Judges
<1>7. Judged(s) /\ e.type = "[DONE]" => MarkedDone(r)
  BY <1>1, <1>5 DEF Judged, MarkedDone, Marks
<1>8. (Judged(s) \/ MarkedDone(s)) /\ e.type = "end" => Closed(r)
  BY <1>1, <1>5 DEF Judged, MarkedDone, Closed
<1> QED BY <1>2, <1>3, <1>4, <1>6, <1>7, <1>8

\* An answer of one of the shapes is well-formed.
LEMMA ShapesAreWellFormed ==
    ASSUME NEW s \in Seq(Events), Shaped(s)
    PROVE  WellFormed([i \in DOMAIN s |-> s[i].type])
<1> DEFINE t == [i \in DOMAIN s |-> s[i].type]
<1> SUFFICES WellFormed(t)
  OBVIOUS
<1>1. Len(s) \in Nat /\ Len(t) = Len(s) /\ DOMAIN t = 1..Len(s) /\ \A i \in 1..Len(s) : t[i] = s[i].type
  OBVIOUS
<1> HIDE DEF t
<1>2. CASE s = <<>> \/ Single(s) \/ Begun(s)
  BY <1>1, <1>2 DEF Single, Begun, WellFormed
<1>3. CASE Opened(s)
  <2>1. Len(s) >= 2 /\ t[1] = "200" /\ t[2] = "created" /\ \A i \in 3..Len(s) : t[i] = "delta"
    BY <1>1, <1>3 DEF Opened, Opens
  <2> QED BY <1>1, <2>1 DEF WellFormed
<1>4. CASE Judged(s)
  <2> DEFINE n == Len(s)
  <2>1. n >= 3 /\ t[1] = "200" /\ t[2] = "created" /\ t[n] \in {"completed", "failed"}
        /\ \A i \in 3..(n - 1) : t[i] = "delta"
    BY <1>1, <1>4 DEF Judged, Judges, Opens
  <2> HIDE DEF n
  <2>3. n \in Nat /\ Len(t) = n /\ DOMAIN t = 1..n
    BY <1>1 DEF n
  <2>2. \A i \in 1..n : i = 1 \/ i = 2 \/ i = n \/ i \in 3..(n - 1)
    BY <2>3
  <2> QED BY <2>1, <2>2, <2>3 DEF WellFormed
<1>5. CASE MarkedDone(s)
  <2> DEFINE n == Len(s)
  <2>1. n >= 4 /\ t[1] = "200" /\ t[2] = "created" /\ t[n - 1] \in {"completed", "failed"} /\ t[n] = "[DONE]"
        /\ \A i \in 3..(n - 2) : t[i] = "delta"
    BY <1>1, <1>5 DEF MarkedDone, Marks, Judges, Opens
  <2> HIDE DEF n
  <2>3. n \in Nat /\ Len(t) = n /\ DOMAIN t = 1..n
    BY <1>1 DEF n
  <2>2. \A i \in 1..n : i = 1 \/ i = 2 \/ i = n \/ i = n - 1 \/ i \in 3..(n - 2)
    BY <2>3
  <2> QED BY <2>1, <2>2, <2>3 DEF WellFormed
<1>6. CASE Closed(s)
  <2> DEFINE n == Len(s)
  <2>3. n \in Nat /\ Len(t) = n /\ DOMAIN t = 1..n
    BY <1>1 DEF n
  <2>4. CASE Judges(s, n - 1)
    <3>0. Opens(s, n - 2) /\ s[n - 1].type \in {"completed", "failed"} /\ s[n].type = "end" /\ n - 2 >= 2
      BY <2>3, <2>4, <1>6 DEF Closed, Judges, Opens
    <3>1. n >= 4 /\ t[1] = "200" /\ t[2] = "created" /\ t[n - 1] \in {"completed", "failed"} /\ t[n] = "end"
          /\ \A i \in 3..(n - 2) : t[i] = "delta"
      <4>1. \A i \in 1..n : t[i] = s[i].type
        BY <1>1
      <4>2. n \in Nat /\ n >= 4 /\ 1 \in 1..n /\ 2 \in 1..n /\ n - 1 \in 1..n /\ n \in 1..n
            /\ \A i \in 3..(n - 2) : i \in 1..n
        BY <2>3, <3>0
      <4> HIDE DEF n
      <4> QED BY <3>0, <4>1, <4>2 DEF Opens
    <3> HIDE DEF n
    <3>2. \A i \in 1..n : i = 1 \/ i = 2 \/ i = n \/ i = n - 1 \/ i \in 3..(n - 2)
      BY <3>1, <2>3
    <3> QED BY <3>1, <3>2, <2>3 DEF WellFormed
  <2>5. CASE Marks(s, n - 1)
    <3>0. Opens(s, n - 3) /\ s[n - 2].type \in {"completed", "failed"} /\ s[n - 1].type = "[DONE]"
          /\ s[n].type = "end" /\ n - 3 >= 2
      BY <2>3, <2>5, <1>6 DEF Closed, Marks, Judges, Opens
    <3>1. n >= 5 /\ t[1] = "200" /\ t[2] = "created" /\ t[n - 2] \in {"completed", "failed"}
          /\ t[n - 1] = "[DONE]" /\ t[n] = "end" /\ \A i \in 3..(n - 3) : t[i] = "delta"
      <4>1. \A i \in 1..n : t[i] = s[i].type
        BY <1>1
      <4>2. n \in Nat /\ n >= 5 /\ 1 \in 1..n /\ 2 \in 1..n /\ n - 2 \in 1..n /\ n - 1 \in 1..n /\ n \in 1..n
            /\ \A i \in 3..(n - 3) : i \in 1..n
        BY <2>3, <3>0
      <4> HIDE DEF n
      <4> QED BY <3>0, <4>1, <4>2 DEF Opens
    <3> HIDE DEF n
    <3>2. \A i \in 1..n : i = 1 \/ i = 2 \/ i = n \/ i = n - 1 \/ i = n - 2 \/ i \in 3..(n - 3)
      BY <3>1, <2>3
    <3> QED BY <3>1, <3>2, <2>3 DEF WellFormed
  <2> QED BY <1>6, <2>4, <2>5 DEF Closed
<1> QED BY <1>2, <1>3, <1>4, <1>5, <1>6 DEF Shaped

\* An event that tells no text leaves what was told whole.
LEMMA ToldStays ==
    ASSUME NEW s \in Seq(Events), NEW e \in Events, ToldWhole(s), e.type \notin {"delta", "completed"},
           NEW r, r = Append(s, e)
    PROVE  ToldWhole(r)
<1> SUFFICES ASSUME NEW i \in DOMAIN r, r[i].type = "completed" PROVE DeltasOf(r) = r[i].text
  BY DEF ToldWhole
<1>1. i \in DOMAIN s /\ r[i] = s[i]
  OBVIOUS
<1>2. DeltasOf(s) = s[i].text /\ s[i].text \in Seq(Fragment)
  <2>1. s[i] \in Events
    BY <1>1
  <2> QED BY <1>1, <2>1 DEF ToldWhole, Events, Texts
<1>3. DeltasOf(r) = DeltasOf(s) \o <<>>
  BY DeltasAppend DEF TextOf
<1> QED BY <1>1, <1>2, <1>3

\* A stream that goes on has completed nothing.
LEMMA NothingCompleted == ASSUME NEW s \in Seq(Events), Opened(s) PROVE ToldWhole(s)
<1>1. \A i \in 1..Len(s) : i = 1 \/ i = 2 \/ i \in 3..Len(s)
  OBVIOUS
<1> QED BY <1>1 DEF Opened, Opens, ToldWhole

\* The completion of what was told.
LEMMA ToldCompletely ==
    ASSUME NEW s \in Seq(Events), NEW t \in Texts, Opened(s), DeltasOf(s) = t, NEW r, r = Append(s, Completed(t))
    PROVE  ToldWhole(r)
<1>1. Completed(t) \in Events /\ Completed(t).text = t /\ TextOf(Completed(t)) = <<>>
      /\ Completed(t).type = "completed"
  BY DEF Completed, Event, Events, TextOf
<1>2. DeltasOf(r) = t
  <2>1. DeltasOf(r) = t \o <<>>
    BY <1>1, DeltasAppend
  <2> QED BY <2>1 DEF Texts
<1>3. \A i \in DOMAIN s : s[i].type # "completed"
  <2>1. \A i \in 1..Len(s) : i = 1 \/ i = 2 \/ i \in 3..Len(s)
    OBVIOUS
  <2> QED BY <2>1 DEF Opened, Opens
<1> QED BY <1>1, <1>2, <1>3 DEF ToldWhole

\* What is told to a client that stays comes after what it heard.
LEMMA TellAppends ==
    ASSUME TypeOK, NEW r \in Requests, NEW e \in Events, Tell(r, <<e>>)
    PROVE  /\ wire[r] \in Seq(Events)
           /\ wire'[r] = IF gone[r] THEN wire[r] ELSE Append(wire[r], e)
           /\ \A q \in Requests \ {r} : wire'[q] = wire[q]
<1>1. wire[r] \in Seq(Events) /\ wire' = [wire EXCEPT ![r] = IF gone[r] THEN wire[r] ELSE wire[r] \o <<e>>]
  BY DEF TypeOK, Tell
<1>2. wire[r] \o <<e>> = Append(wire[r], e)
  BY <1>1
<1> QED BY <1>1, <1>2 DEF TypeOK

\* One error or one body, told to a client that heard nothing.
LEMMA AnswerRecorded ==
    ASSUME TypeOK, NEW r \in Requests, Recorded(r), NEW e \in Events, e.type \in {"error", "body"},
           Tell(r, <<e>>), ~gone[r] => wire[r] = <<>>
    PROVE  Recorded(r)'
<1>1. CASE gone[r]
  <2>1. wire'[r] = wire[r]
    BY <1>1, TellAppends
  <2> QED BY <2>1 DEF Recorded
<1>2. CASE ~gone[r]
  <2>1. wire[r] = <<>> /\ wire[r] \in Seq(Events) /\ wire'[r] = Append(wire[r], e)
    BY <1>2, TellAppends
  <2>2. Single(wire'[r])
    BY <2>1, ShapeAppend
  <2>3. ToldWhole(wire[r])
    BY DEF Recorded
  <2>4. ToldWhole(wire'[r])
    BY <2>1, <2>3, ToldStays
  <2> QED BY <2>2, <2>4 DEF Recorded, Shaped
<1> QED BY <1>1, <1>2

\* The opening of a stream: its status line, then its first event.
LEMMA LineStart ==
    ASSUME NEW o, NEW t, NEW w, Line("send", FALSE, o, w, t)
    PROVE  w = <<>> /\ Line("send", TRUE, o, Append(w, Status), t)
<1>1. Opening(o, t) /\ w = <<>>
  BY DEF Line
<1>2. Append(w, Status) = <<Status>>
  BY <1>1
<1> QED BY <1>1, <1>2 DEF Line

\* What an opened stream told so far, and the events it sends.
LEMMA SendOpening ==
    ASSUME NEW o, NEW t \in Texts, Opening(o, t), NEW w, w = Append(<<Status>>, Created)
    PROVE  /\ Head(o) = Created /\ w \in Seq(Events) /\ Opened(w) /\ DeltasOf(w) = <<>>
           /\ Tail(o) # <<>> => Going(Tail(o), DeltasOf(w), t)
           /\ Tail(o) = <<>> => DeltasOf(w) = t
<1>1. Created \in Events /\ Status \in Events /\ <<Status>> \in Seq(Events) /\ <<>> \in Seq(Events)
      /\ <<Status>> = Append(<<>>, Status)
  BY EventTypes
<1>2. Begun(<<Status>>) /\ Created.type = "created" /\ TextOf(Created) = <<>> /\ TextOf(Status) = <<>>
  BY DEF Begun, Status, Created, Event, TextOf
<1>3. Opened(w) /\ w \in Seq(Events)
  <2>1. w \in Seq(Events)
    BY <1>1
  <2>2. Opened(w)
    BY <1>1, <1>2, ShapeAppend
  <2> QED BY <2>1, <2>2
<1>4. DeltasOf(w) = <<>>
  <2>1. DeltasOf(<<Status>>) = <<>> \o <<>>
    BY <1>1, <1>2, DeltasAppend, DeltasOfNothing
  <2>2. DeltasOf(w) = DeltasOf(<<Status>>) \o <<>>
    BY <1>1, <1>2, DeltasAppend
  <2> QED BY <2>1, <2>2
<1>5. CASE o = <<Created>> /\ t = <<>>
  <2>1. Head(o) = Created /\ Tail(o) = <<>>
    BY <1>5
  <2> QED BY <1>3, <1>4, <1>5, <2>1
<1>6. ASSUME NEW f \in Fragment, t = <<f>>, o \in {<<Created, Delta(f)>>, <<Created, Delta(f), Completed(t)>>}
      PROVE  Head(o) = Created /\ Tail(o) # <<>> /\ Going(Tail(o), <<>>, t)
  <2>1. t = <<>> \o <<f>>
    BY <1>6
  <2>2. CASE o = <<Created, Delta(f)>>
    <3>1. Head(o) = Created /\ Tail(o) = <<Delta(f)>>
      BY <2>2
    <3> QED BY <2>1, <3>1 DEF Going
  <2>3. CASE o = <<Created, Delta(f), Completed(t)>>
    <3>1. Head(o) = Created /\ Tail(o) = <<Delta(f), Completed(t)>>
      BY <2>3
    <3> QED BY <2>1, <3>1 DEF Going
  <2> QED BY <1>6, <2>2, <2>3
<1> QED BY <1>3, <1>4, <1>5, <1>6 DEF Opening

\* A stream that goes on sends a delta or its completion.
LEMMA SendGoing ==
    ASSUME NEW w \in Seq(Events), Opened(w), NEW o, NEW t \in Texts, Going(o, DeltasOf(w), t)
    PROVE  \/ /\ \E f \in Fragment : Head(o) = Delta(f)
              /\ Opened(Append(w, Head(o)))
              /\ DeltasOf(Append(w, Head(o))) = t
              /\ Tail(o) # <<>> => Tail(o) = <<Completed(t)>>
           \/ /\ Head(o) = Completed(t)
              /\ DeltasOf(w) = t
              /\ Judged(Append(w, Head(o)))
<1>1. ASSUME NEW f \in Fragment, t = DeltasOf(w) \o <<f>>, o \in {<<Delta(f)>>, <<Delta(f), Completed(t)>>}
      PROVE  /\ Head(o) = Delta(f) /\ Opened(Append(w, Head(o))) /\ DeltasOf(Append(w, Head(o))) = t
             /\ Tail(o) # <<>> => Tail(o) = <<Completed(t)>>
  <2>1. Head(o) = Delta(f) /\ (Tail(o) # <<>> => Tail(o) = <<Completed(t)>>)
    <3>1. CASE o = <<Delta(f)>>
      BY <3>1
    <3>2. CASE o = <<Delta(f), Completed(t)>>
      BY <3>2
    <3> QED BY <1>1, <3>1, <3>2
  <2>2. Delta(f) \in Events /\ TextOf(Delta(f)) = <<f>> /\ Delta(f).type = "delta"
    <3>1. Delta(f) \in Events
      BY EventTypes
    <3> QED BY <3>1 DEF Delta, Event, TextOf
  <2>3. Opened(Append(w, Delta(f)))
    BY <2>2, ShapeAppend
  <2>4. DeltasOf(Append(w, Delta(f))) = t
    BY <1>1, <2>2, DeltasAppend
  <2> QED BY <2>1, <2>3, <2>4
<1>2. CASE t = DeltasOf(w) /\ o = <<Completed(t)>>
  <2>1. Head(o) = Completed(t)
    BY <1>2
  <2>2. Completed(t) \in Events /\ Completed(t).type = "completed"
    <3>1. Completed(t) \in Events
      BY EventTypes
    <3> QED BY <3>1 DEF Completed, Event
  <2>3. Judged(Append(w, Completed(t)))
    BY <2>2, ShapeAppend
  <2> QED BY <1>2, <2>1, <2>3
<1> QED BY <1>1, <1>2 DEF Going

\* The end of a stream: a failure or nothing more, [DONE] once, and the end.
LEMMA SendClosing ==
    ASSUME NEW w \in Seq(Events), ToldWhole(w), NEW o, Closing(o, w), NEW v, v = Append(w, Head(o))
    PROVE  /\ Shaped(v) /\ ToldWhole(v)
           /\ Len(o) # 1 => Closing(Tail(o), v)
<1> DEFINE F == Event("failed", <<>>)
<1>1. /\ F \in Events /\ Done \in Events /\ End \in Events
      /\ F.type = "failed" /\ Done.type = "[DONE]" /\ End.type = "end"
  <2>1. <<>> \in Texts
    BY DEF Texts
  <2> QED BY <2>1 DEF Event, Events, Done, End
<1> HIDE DEF F
<1>2. CASE Opened(w) /\ o = FailureEvents
  <2>1. Head(o) = F /\ Tail(o) = <<Done, End>>
    BY <1>2 DEF FailureEvents, F
  <2>2. Judged(v) /\ ToldWhole(v)
    BY <1>1, <1>2, <2>1, ShapeAppend, ToldStays
  <2> QED BY <2>1, <2>2 DEF Shaped, Closing
<1>3. CASE Judged(w) /\ o = <<Done, End>>
  <2>1. Head(o) = Done /\ Tail(o) = <<End>>
    BY <1>3
  <2>2. MarkedDone(v) /\ ToldWhole(v)
    BY <1>1, <1>3, <2>1, ShapeAppend, ToldStays
  <2> QED BY <2>1, <2>2 DEF Shaped, Closing
<1>4. CASE (Judged(w) \/ MarkedDone(w)) /\ o = <<End>>
  <2>1. Head(o) = End /\ Len(o) = 1
    BY <1>4
  <2>2. Closed(v) /\ ToldWhole(v)
    BY <1>1, <1>4, <2>1, ShapeAppend, ToldStays
  <2> QED BY <2>1, <2>2 DEF Shaped
<1> QED BY <1>2, <1>3, <1>4 DEF Closing

\* The invariant of the answers, on top of that of the store.
LInv == IInv /\ LineInv

\* A step that leaves the other requests alone keeps their lines.
OthersStay(r) ==
    \A q \in Requests \ {r} :
        /\ pc'[q] = pc[q] /\ started'[q] = started[q] /\ out'[q] = out[q] /\ wire'[q] = wire[q]
        /\ text'[q] = text[q] /\ gone'[q] = gone[q] /\ run'[q] = run[q] /\ previous'[q] = previous[q]

\* So the invariant is a matter of the request that takes the step.
LEMMA LineStep ==
    ASSUME LineInv, NEW r \in Requests, OthersStay(r), InLine(r)', Recorded(r)', Named(r)'
    PROVE  LineInv'
BY DEF LineInv, OthersStay, InLine, Recorded, Named

\* Who waits for a first answer heard nothing.
LEMMA Unheard ==
    ASSUME LInv, NEW r \in Requests, pc[r] \in {"new", "gate", "thread", "call", "first"}
    PROVE  InLine(r) /\ Recorded(r) /\ Named(r) /\ (~gone[r] => wire[r] = <<>>) /\ ~started[r]
BY DEF LInv, LineInv, InLine, Line, IInv, Silent, Untouched

\* Before the first request nobody has heard anything.
LEMMA InitLine == Init => LineInv
<1> SUFFICES ASSUME Init, NEW r \in Requests PROVE InLine(r) /\ Recorded(r) /\ Named(r)
  BY DEF LineInv
<1>1. pc[r] = "new" /\ wire[r] = <<>> /\ run[r] = 0 /\ previous[r] = {}
  BY DEF Init
<1> QED BY <1>1 DEF InLine, Line, Recorded, Shaped, ToldWhole, Named

\* A request that is posted keeps every client's answer in its line.
LEMMA AskLine == ASSUME LInv, NEW r \in Requests, Ask(r) PROVE LineInv'
<1> USE DEF Go, request, client, faults, kept
<1>1. OthersStay(r)
  BY DEF LInv, IInv, TypeOK, Ask, OthersStay
<1>2. Recorded(r)' /\ Named(r)' /\ InLine(r)'
  <2>1. Recorded(r) /\ (~gone[r] => wire[r] = <<>>) /\ run[r] = 0
    BY Unheard DEF Ask, Named
  <2>2. PICK p \in {{}} \cup {{q} : q \in {q \in Requests : kind = "chat" /\ KnowsId(q)}} :
           previous' = [previous EXCEPT ![r] = p]
    BY DEF Ask
  <2>3. \A x, y \in p : x = y
    BY <2>2
  <2>4. pc'[r] = "gate" /\ previous'[r] = p /\ run'[r] = 0 /\ wire' = wire /\ gone' = gone
    BY <2>1, <2>2 DEF LInv, IInv, TypeOK, Ask
  <2> QED BY <2>1, <2>3, <2>4 DEF Recorded, Named, InLine, Line
<1> QED BY <1>1, <1>2, LineStep DEF LInv

\* A refusal keeps every client's answer in its line.
LEMMA RefuseLine == ASSUME LInv, NEW r \in Requests, Refuse(r) PROVE LineInv'
<1> USE DEF Go, request, client, faults, kept
<1>0. Error \in Events /\ Error.type = "error" /\ Tell(r, <<Error>>)
  BY EventTypes DEF Error, Event, Refuse
<1>1. OthersStay(r)
  BY <1>0, TellAppends DEF LInv, IInv, TypeOK, Refuse, OthersStay
<1>2. Recorded(r)'
  BY <1>0, Unheard, AnswerRecorded DEF LInv, IInv, Refuse
<1>3. pc'[r] = "over"
  BY DEF LInv, IInv, TypeOK, Refuse
<1> QED BY <1>1, <1>2, <1>3, LineStep DEF LInv, InLine, Line, Named

\* Going upstream keeps every client's answer in its line.
LEMMA OpenLine == ASSUME LInv, NEW r \in Requests, Open(r) PROVE LineInv'
<1> USE DEF Go, request, client, faults, kept
<1>1. OthersStay(r)
  BY DEF LInv, IInv, TypeOK, Open, OthersStay
<1>2. pc'[r] \in {"thread", "call", "first"} /\ wire' = wire /\ gone' = gone
  <2>1. FirstWait(r) \in {"thread", "call", "first"}
    BY GatewayAssumption DEF FirstWait, LInv, IInv, TypeOK, AllKinds
  <2> QED BY <2>1 DEF LInv, IInv, TypeOK, Open
<1>3. Recorded(r) /\ (~gone[r] => wire[r] = <<>>)
  BY Unheard DEF Open
<1> QED BY <1>1, <1>2, <1>3, LineStep DEF LInv, InLine, Line, Named, Recorded

\* A whole turn, as a replay or a body, keeps every client's answer in its line.
LEMMA WholeTurnLine == ASSUME LInv, NEW r \in Requests, WholeTurn(r) PROVE LineInv'
<1> USE DEF Go, request, client, faults, kept
<1>0. PICK f \in Fragment :
         /\ text' = [text EXCEPT ![r] = <<f>>]
         /\ IF streamed[r] THEN Replay(r, <<f>>)
            ELSE Keep(r, <<f>>) /\ AnswerUnary(r, <<f>>)
  BY DEF WholeTurn, Fragments
<1>a. Recorded(r) /\ (~gone[r] => wire[r] = <<>>) /\ ~started[r]
  BY Unheard DEF WholeTurn
<1>1. CASE streamed[r]
  <2> DEFINE t == <<f>>
             o == <<Created, Delta(t[1]), Completed(t)>>
  <2>1. /\ pc' = [pc EXCEPT ![r] = "send"] /\ out' = [out EXCEPT ![r] = o]
        /\ UNCHANGED <<started, wire, gone>>
    BY <1>0, <1>1 DEF Replay, WholeTurn
  <2>2. OthersStay(r)
    BY <1>0, <2>1 DEF LInv, IInv, TypeOK, WholeTurn, OthersStay
  <2>3. Opening(o, t)
    BY DEF Opening
  <2> HIDE DEF o
  <2>4. pc'[r] = "send" /\ out'[r] = o /\ text'[r] = t
    BY <1>0, <2>1 DEF LInv, IInv, TypeOK
  <2> QED BY <1>a, <2>1, <2>2, <2>3, <2>4, LineStep DEF LInv, InLine, Line, Named, Recorded
<1>2. CASE ~streamed[r]
  <2>1. pc' = [pc EXCEPT ![r] = "over"] /\ Tell(r, <<Body(<<f>>)>>) /\ UNCHANGED <<out, started, gone, run, previous>>
    BY <1>0, <1>2 DEF AnswerUnary, WholeTurn
  <2>2. Body(<<f>>) \in Events /\ Body(<<f>>).type = "body"
    <3>1. Body(<<f>>) \in Events
      BY EventTypes
    <3> QED BY <3>1 DEF Body, Event
  <2>3. OthersStay(r)
    BY <1>0, <2>1, <2>2, TellAppends DEF LInv, IInv, TypeOK, OthersStay
  <2>4. Recorded(r)'
    BY <1>a, <2>1, <2>2, AnswerRecorded DEF LInv, IInv
  <2>5. pc'[r] = "over"
    BY <2>1 DEF LInv, IInv, TypeOK
  <2> QED BY <2>3, <2>4, <2>5, LineStep DEF LInv, InLine, Line, Named
<1> QED BY <1>1, <1>2

\* The failure of a whole turn keeps every client's answer in its line.
LEMMA WholeTurnFailsLine == ASSUME LInv, NEW r \in Requests, WholeTurnFails(r) PROVE LineInv'
<1> USE DEF Go, request, client, faults, kept
<1>0. Error \in Events /\ Error.type = "error" /\ Tell(r, <<Error>>)
  BY EventTypes DEF Error, Event, WholeTurnFails
<1>1. OthersStay(r)
  BY <1>0, TellAppends DEF LInv, IInv, TypeOK, WholeTurnFails, OthersStay
<1>2. Recorded(r)'
  BY <1>0, Unheard, AnswerRecorded DEF LInv, IInv, WholeTurnFails
<1>3. pc'[r] = "over"
  BY DEF LInv, IInv, TypeOK, WholeTurnFails
<1> QED BY <1>1, <1>2, <1>3, LineStep DEF LInv, InLine, Line, Named

\* The first chunk of a stream keeps every client's answer in its line.
LEMMA FirstLine == ASSUME LInv, NEW r \in Requests, First(r) PROVE LineInv'
<1> USE DEF Go, request, client, faults, kept
<1>a. Recorded(r) /\ (~gone[r] => wire[r] = <<>>) /\ ~started[r] /\ text[r] = <<>>
  BY Unheard DEF First, LInv, IInv, Silent, Untouched
<1>1. pc' = [pc EXCEPT ![r] = "send"] /\ UNCHANGED <<started, wire, gone, run, previous>>
  BY DEF First
<1>2. \E o, t : out' = [out EXCEPT ![r] = o] /\ text' = [text EXCEPT ![r] = t] /\ Opening(o, t)
  <2>1. ASSUME NEW f \in Fragment, text' = [text EXCEPT ![r] = <<f>>],
               out' = [out EXCEPT ![r] = <<Created, Delta(f)>>]
        PROVE  \E o, t : out' = [out EXCEPT ![r] = o] /\ text' = [text EXCEPT ![r] = t] /\ Opening(o, t)
    <3>1. Opening(<<Created, Delta(f)>>, <<f>>)
      BY DEF Opening
    <3> QED BY <2>1, <3>1
  <2>2. ASSUME out' = [out EXCEPT ![r] = <<Created>>], text' = text
        PROVE  \E o, t : out' = [out EXCEPT ![r] = o] /\ text' = [text EXCEPT ![r] = t] /\ Opening(o, t)
    <3>1. Opening(<<Created>>, <<>>) /\ text' = [text EXCEPT ![r] = <<>>]
      BY <1>a, <2>2 DEF Opening, LInv, IInv, TypeOK
    <3> QED BY <2>2, <3>1
  <2> QED BY <2>1, <2>2 DEF First, Fragments
<1>3. OthersStay(r)
  BY <1>1, <1>2 DEF LInv, IInv, TypeOK, OthersStay
<1>4. Opening(out'[r], text'[r]) /\ pc'[r] = "send"
  BY <1>1, <1>2 DEF LInv, IInv, TypeOK
<1> QED BY <1>a, <1>1, <1>3, <1>4, LineStep DEF LInv, InLine, Line, Named, Recorded

\* A failure before the first fragment keeps every client's answer in its line.
LEMMA FirstFailsLine == ASSUME LInv, NEW r \in Requests, FirstFails(r) PROVE LineInv'
<1> USE DEF Go, request, client, faults, kept
<1>a. Recorded(r) /\ (~gone[r] => wire[r] = <<>>)
  BY Unheard DEF FirstFails
<1>1. CASE FallBack(r)
  <2>1. pc' = [pc EXCEPT ![r] = "thread"] /\ UNCHANGED <<text, out, started, wire, gone, previous>>
        /\ run' = [run EXCEPT ![r] = 2]
    BY <1>1 DEF FallBack, FirstFails
  <2>2. OthersStay(r)
    BY <2>1 DEF LInv, IInv, TypeOK, OthersStay
  <2>3. pc'[r] = "thread"
    BY <2>1 DEF LInv, IInv, TypeOK
  <2> QED BY <1>a, <2>1, <2>2, <2>3, LineStep DEF LInv, InLine, Line, Named, Recorded
<1>2. CASE PrimeFails(r)
  <2>1. pc' = [pc EXCEPT ![r] = "over"] /\ Tell(r, <<Error>>) /\ UNCHANGED <<run, text, out, started, gone, previous>>
    BY <1>2 DEF PrimeFails, FirstFails
  <2>2. Error \in Events /\ Error.type = "error"
    BY EventTypes DEF Error, Event
  <2>3. OthersStay(r)
    BY <2>1, <2>2, TellAppends DEF LInv, IInv, TypeOK, OthersStay
  <2>4. Recorded(r)'
    BY <1>a, <2>1, <2>2, AnswerRecorded DEF LInv, IInv
  <2>5. pc'[r] = "over"
    BY <2>1 DEF LInv, IInv, TypeOK
  <2> QED BY <2>3, <2>4, <2>5, LineStep DEF LInv, InLine, Line, Named
<1> QED BY <1>1, <1>2 DEF FirstFails

\* One more delta keeps every client's answer in its line.
LEMMA ChunkLine == ASSUME LInv, NEW r \in Requests, Chunk(r) PROVE LineInv'
<1> USE DEF Go, request, client, faults, kept
<1>0. PICK f \in Fragment : text' = [text EXCEPT ![r] = Append(text[r], f)] /\ out' = [out EXCEPT ![r] = <<Delta(f)>>]
  BY DEF Chunk, Fragments
<1>1. pc' = [pc EXCEPT ![r] = "send"] /\ UNCHANGED <<started, wire, gone, run, previous>> /\ pc[r] = "pull"
  BY DEF Chunk
<1>2. OthersStay(r)
  BY <1>0, <1>1 DEF LInv, IInv, TypeOK, OthersStay
<1>3. pc'[r] = "send" /\ out'[r] = <<Delta(f)>> /\ text'[r] = text[r] \o <<f>>
  <2>1. text[r] \in Seq(Fragment)
    BY DEF LInv, IInv, TypeOK, Texts
  <2>2. Append(text[r], f) = text[r] \o <<f>>
    BY <2>1
  <2> QED BY <1>0, <1>1, <2>2 DEF LInv, IInv, TypeOK
<1>4. InLine(r) /\ Recorded(r)
  BY DEF LInv, LineInv
<1>5. InLine(r)'
  <2>1. CASE gone[r]
    BY <1>1, <2>1 DEF InLine
  <2>2. CASE ~gone[r]
    <3>1. started[r] /\ Opened(wire[r]) /\ DeltasOf(wire[r]) = text[r]
      BY <1>1, <1>4, <2>2 DEF InLine, Line
    <3>2. Going(<<Delta(f)>>, text[r], text[r] \o <<f>>)
      BY DEF Going
    <3> QED BY <1>1, <1>3, <3>1, <3>2 DEF InLine, Line
  <2> QED BY <2>1, <2>2
<1> QED BY <1>1, <1>2, <1>3, <1>4, <1>5, LineStep DEF LInv, Named, Recorded

\* The end of a stream keeps every client's answer in its line.
LEMMA EndOfStreamLine == ASSUME LInv, NEW r \in Requests, EndOfStream(r) PROVE LineInv'
<1> USE DEF Go, request, client, faults, kept
<1>1. /\ pc' = [pc EXCEPT ![r] = "send"] /\ UNCHANGED <<started, wire, gone, run, previous, text>> /\ pc[r] = "pull"
      /\ out' = [out EXCEPT ![r] = <<Completed(text[r])>>]
  BY DEF EndOfStream, KeepThenTell
<1>2. OthersStay(r)
  BY <1>1 DEF LInv, IInv, TypeOK, OthersStay
<1>3. pc'[r] = "send" /\ out'[r] = <<Completed(text[r])>> /\ text'[r] = text[r]
  BY <1>1 DEF LInv, IInv, TypeOK
<1>4. InLine(r) /\ Recorded(r)
  BY DEF LInv, LineInv
<1>5. InLine(r)'
  <2>1. CASE gone[r]
    BY <1>1, <2>1 DEF InLine
  <2>2. CASE ~gone[r]
    <3>1. started[r] /\ Opened(wire[r]) /\ DeltasOf(wire[r]) = text[r]
      BY <1>1, <1>4, <2>2 DEF InLine, Line
    <3>2. Going(<<Completed(text[r])>>, text[r], text[r])
      BY DEF Going
    <3> QED BY <1>1, <1>3, <3>1, <3>2 DEF InLine, Line
  <2> QED BY <2>1, <2>2
<1> QED BY <1>1, <1>2, <1>3, <1>4, <1>5, LineStep DEF LInv, Named, Recorded

\* A failure in mid-stream keeps every client's answer in its line.
LEMMA StreamFailsLine == ASSUME LInv, NEW r \in Requests, StreamFails(r) PROVE LineInv'
<1> USE DEF Go, request, client, faults, kept
<1>1. /\ pc' = [pc EXCEPT ![r] = "tail"] /\ UNCHANGED <<started, wire, gone, run, previous, text>> /\ pc[r] = "pull"
      /\ out' = [out EXCEPT ![r] = FailureEvents]
  BY DEF StreamFails, MidStreamFailure
<1>2. OthersStay(r)
  BY <1>1 DEF LInv, IInv, TypeOK, OthersStay
<1>3. pc'[r] = "tail" /\ out'[r] = FailureEvents
  BY <1>1 DEF LInv, IInv, TypeOK
<1>4. InLine(r) /\ Recorded(r)
  BY DEF LInv, LineInv
<1>5. InLine(r)'
  BY <1>1, <1>3, <1>4 DEF InLine, Line, Closing
<1> QED BY <1>1, <1>2, <1>3, <1>4, <1>5, LineStep DEF LInv, Named, Recorded

\* The status line keeps every client's answer in its line.
LEMMA StartLine == ASSUME LInv, NEW r \in Requests, Start(r) PROVE LineInv'
<1> USE DEF Go, request, client, faults, kept
<1>0. Status \in Events /\ Status.type = "200" /\ Tell(r, <<Status>>)
  BY EventTypes DEF Status, Event, Start
<1>1. /\ started' = [started EXCEPT ![r] = TRUE] /\ UNCHANGED <<pc, out, gone, run, previous, text>>
      /\ pc[r] = "send" /\ ~started[r] /\ started'[r] = TRUE
  BY DEF Start, LInv, IInv, TypeOK
<1>2. OthersStay(r)
  BY <1>0, <1>1, TellAppends DEF LInv, IInv, TypeOK, OthersStay
<1>3. wire'[r] = (IF gone[r] THEN wire[r] ELSE Append(wire[r], Status)) /\ wire[r] \in Seq(Events)
  BY <1>0, TellAppends DEF LInv, IInv
<1>4. InLine(r) /\ Recorded(r)
  BY DEF LInv, LineInv
<1>5. CASE gone[r]
  BY <1>1, <1>2, <1>3, <1>4, <1>5, LineStep DEF LInv, InLine, Named, Recorded
<1>6. CASE ~gone[r]
  <2>1. Line("send", FALSE, out[r], wire[r], text[r])
    BY <1>1, <1>4, <1>6 DEF InLine, LInv, IInv, TypeOK
  <2>2. wire[r] = <<>> /\ Line("send", TRUE, out[r], Append(wire[r], Status), text[r])
    BY <2>1, LineStart
  <2>3. InLine(r)'
    BY <1>1, <1>3, <1>6, <2>2 DEF InLine
  <2>4. Begun(wire'[r]) /\ ToldWhole(wire'[r])
    <3>1. ToldWhole(wire[r])
      BY <1>4 DEF Recorded
    <3> QED BY <1>0, <1>3, <1>6, <2>2, <3>1, ShapeAppend, ToldStays
  <2> QED BY <1>1, <1>2, <2>3, <2>4, LineStep DEF LInv, Named, Recorded, Shaped
<1> QED BY <1>5, <1>6

\* What a stream that opens or goes on sends next, and how it goes on after it.
LEMMA SendLine == ASSUME LInv, NEW r \in Requests, Send(r) PROVE LineInv'
<1> USE DEF Go, request, client, faults, kept
<1> DEFINE e == Head(out[r])
           v == Append(wire[r], e)
<1>1. out[r] \in Seq(Events) /\ out[r] # <<>> /\ pc[r] = "send" /\ started[r] = TRUE /\ text[r] \in Texts
  BY DEF LInv, IInv, TypeOK, Queued, Loaded, Send
<1>2. e \in Events /\ Tell(r, <<e>>) /\ SendNext(r, e) /\ UNCHANGED <<gone, run, previous, text, started>>
  BY <1>1 DEF Send
<1>3. /\ e.type = "completed" => pc'[r] = "tail" /\ out'[r] \in {<<Done, End>>, <<End>>}
      /\ e.type # "completed" => /\ out'[r] = Tail(out[r])
                                 /\ pc'[r] = IF Tail(out[r]) = <<>> THEN "pull" ELSE "send"
  BY <1>2 DEF SendNext, LInv, IInv, TypeOK
<1>4. OthersStay(r)
  <2>1. \A q \in Requests \ {r} : pc'[q] = pc[q] /\ out'[q] = out[q]
    BY <1>2 DEF SendNext, LInv, IInv, TypeOK
  <2>2. \A q \in Requests \ {r} : wire'[q] = wire[q]
    BY <1>2, TellAppends DEF LInv, IInv
  <2> QED BY <1>2, <2>1, <2>2 DEF OthersStay
<1>5. wire'[r] = (IF gone[r] THEN wire[r] ELSE v) /\ wire[r] \in Seq(Events)
  BY <1>2, TellAppends DEF LInv, IInv
<1>6. InLine(r) /\ Recorded(r)
  BY DEF LInv, LineInv
<1>7. Named(r)'
  BY <1>3 DEF Named
<1> HIDE DEF e
<1>8. CASE gone[r]
  BY <1>2, <1>4, <1>5, <1>6, <1>7, <1>8, LineStep DEF LInv, InLine, Recorded
<1>9. CASE ~gone[r]
  <2>1. Line("send", TRUE, out[r], wire[r], text[r])
    BY <1>1, <1>6, <1>9 DEF InLine
  <2>2. wire'[r] = v
    BY <1>5, <1>9
  <2> SUFFICES Line(pc'[r], TRUE, out'[r], v, text[r]) /\ Shaped(v) /\ ToldWhole(v)
    BY <1>1, <1>2, <1>4, <1>7, <2>2, LineStep DEF LInv, InLine, Recorded
  <2>3. CASE Opening(out[r], text[r]) /\ wire[r] = <<Status>>
    <3>1. /\ e = Created /\ v \in Seq(Events) /\ Opened(v)
          /\ Tail(out[r]) # <<>> => Going(Tail(out[r]), DeltasOf(v), text[r])
          /\ Tail(out[r]) = <<>> => DeltasOf(v) = text[r]
      BY <1>1, <2>3, SendOpening DEF e
    <3>2. e.type = "created"
      BY <3>1 DEF Created, Event
    <3>3. ToldWhole(v)
      BY <3>1, NothingCompleted
    <3> HIDE DEF v
    <3> QED BY <1>3, <3>1, <3>2, <3>3 DEF Line, Shaped
  <2>4. CASE Opened(wire[r]) /\ Going(out[r], DeltasOf(wire[r]), text[r])
    <3>1. CASE \E f \in Fragment : e = Delta(f)
      <4>1. e.type = "delta"
        BY <3>1 DEF Delta, Event
      <4>2. ~ (e = Completed(text[r]))
        BY <4>1 DEF Completed, Event
      <4>3. Opened(v) /\ DeltasOf(v) = text[r] /\ (Tail(out[r]) # <<>> => Tail(out[r]) = <<Completed(text[r])>>)
        BY <1>1, <1>5, <2>4, <4>2, SendGoing DEF e
      <4>4. v \in Seq(Events)
        BY <1>2, <1>5
      <4>5. ToldWhole(v)
        BY <4>3, <4>4, NothingCompleted
      <4>6. Going(<<Completed(text[r])>>, text[r], text[r])
        BY DEF Going
      <4> HIDE DEF v
      <4> QED BY <1>3, <4>1, <4>3, <4>5, <4>6 DEF Line, Shaped
    <3>2. CASE ~ \E f \in Fragment : e = Delta(f)
      <4>1. e = Completed(text[r]) /\ DeltasOf(wire[r]) = text[r] /\ Judged(v)
        BY <1>1, <1>5, <2>4, <3>2, SendGoing DEF e
      <4>2. e.type = "completed"
        BY <4>1 DEF Completed, Event
      <4>3. ToldWhole(v)
        BY <1>1, <1>5, <2>4, <4>1, ToldCompletely
      <4> HIDE DEF v
      <4> QED BY <1>3, <4>1, <4>2, <4>3 DEF Line, Shaped, Closing
    <3> QED BY <3>1, <3>2
  <2> QED BY <2>1, <2>3, <2>4 DEF Line
<1> QED BY <1>8, <1>9

\* The last events keeps every client's answer in its line.
LEMMA SendTailLine == ASSUME LInv, NEW r \in Requests, SendTail(r) PROVE LineInv'
<1> USE DEF Go, request, client, faults, kept
<1> DEFINE e == Head(out[r])
           v == Append(wire[r], e)
<1>1. out[r] \in Seq(Events) /\ out[r] # <<>> /\ pc[r] = "tail"
  BY DEF LInv, IInv, TypeOK, Queued, Loaded, SendTail
<1>2. e \in Events /\ Tell(r, <<e>>) /\ UNCHANGED <<gone, run, previous, text, started>>
  BY <1>1 DEF SendTail
<1>3. out'[r] = Tail(out[r]) /\ pc'[r] = IF Len(out[r]) = 1 THEN "over" ELSE "tail"
  BY DEF SendTail, LInv, IInv, TypeOK
<1>4. OthersStay(r)
  <2>1. \A q \in Requests \ {r} : pc'[q] = pc[q] /\ out'[q] = out[q]
    BY DEF SendTail, LInv, IInv, TypeOK
  <2>2. \A q \in Requests \ {r} : wire'[q] = wire[q]
    BY <1>2, TellAppends DEF LInv, IInv
  <2> QED BY <1>2, <2>1, <2>2 DEF OthersStay
<1>5. wire'[r] = (IF gone[r] THEN wire[r] ELSE v) /\ wire[r] \in Seq(Events)
  BY <1>2, TellAppends DEF LInv, IInv
<1>6. InLine(r) /\ Recorded(r)
  BY DEF LInv, LineInv
<1>7. Named(r)'
  BY <1>3 DEF Named
<1>8. CASE gone[r]
  BY <1>2, <1>4, <1>5, <1>6, <1>7, <1>8, LineStep DEF LInv, InLine, Recorded
<1>9. CASE ~gone[r]
  <2>1. Closing(out[r], wire[r]) /\ ToldWhole(wire[r])
    BY <1>1, <1>6, <1>9 DEF InLine, Line, Recorded
  <2>2. Shaped(v) /\ ToldWhole(v) /\ (Len(out[r]) # 1 => Closing(Tail(out[r]), v))
    BY <1>5, <2>1, SendClosing
  <2> HIDE DEF v
  <2>3. wire'[r] = v
    BY <1>5, <1>9
  <2> QED BY <1>2, <1>3, <1>4, <1>7, <2>2, <2>3, LineStep DEF LInv, InLine, Line, Recorded
<1> QED BY <1>8, <1>9

\* A client that goes keeps every client's answer in its line.
LEMMA DisconnectLine == ASSUME LInv, NEW r \in Requests, Disconnect(r) PROVE LineInv'
<1> USE DEF Go, request, client, faults, kept
<1>1. OthersStay(r)
  BY DEF LInv, IInv, TypeOK, Disconnect, OthersStay
<1>2. gone'[r]
  BY DEF LInv, IInv, TypeOK, Disconnect
<1> QED BY <1>1, <1>2, LineStep DEF LInv, LineInv, InLine, Recorded, Named, Disconnect

\* A cancellation keeps every client's answer in its line.
LEMMA CancelLine == ASSUME LInv, NEW r \in Requests, Cancel(r) PROVE LineInv'
<1> USE DEF Go, request, client, faults, kept
<1>1. OthersStay(r)
  BY DEF LInv, IInv, TypeOK, Cancel, OthersStay
<1>2. pc'[r] = "over" /\ wire' = wire
  BY DEF LInv, IInv, TypeOK, Cancel
<1> QED BY <1>1, <1>2, LineStep DEF LInv, LineInv, InLine, Line, Recorded, Named

\* The finalizer keeps every client's answer in its line.
LEMMA FinalizeLine == ASSUME LInv, NEW r \in Requests, Finalize(r) PROVE LineInv'
<1> USE DEF Go, request, client, faults, kept
<1> QED BY DEF LInv, LineInv, InLine, Recorded, Named, Finalize

\* Every step keeps what is queued and what was heard in line.
LEMMA StepLine == LInv /\ [Next]_vars => LInv'
<1> SUFFICES ASSUME LInv, [Next]_vars PROVE LineInv'
  BY StepInv DEF LInv
<1>1. CASE UNCHANGED vars
  BY <1>1 DEF LInv, LineInv, InLine, Recorded, Named, vars, request, client, faults, kept
<1>2. ASSUME NEW r \in Requests, Ask(r) \/ Progress(r) \/ Disconnect(r) \/ Cancel(r) \/ Finalize(r)
      PROVE  LineInv'
  BY <1>2, AskLine, RefuseLine, OpenLine, WholeTurnLine, WholeTurnFailsLine, FirstLine, FirstFailsLine, ChunkLine,
     EndOfStreamLine, StreamFailsLine, StartLine, SendLine, SendTailLine, DisconnectLine, CancelLine, FinalizeLine
     DEF Progress
<1> QED BY <1>1, <1>2 DEF Next

\* Which holds in every state.
LEMMA AlwaysLine == Spec => []LInv
<1>1. Init => LInv
  BY InitInv, InitLine DEF LInv
<1> QED BY <1>1, StepLine, PTL DEF Spec

-----------------------------------------------------------------------------
(* The theorems.                                                           *)

\* The types of all variables, the two runs a request has at most included, for
\* any number of requests and any bounds (responses_app.py, replay.py, claude.py).
THEOREM TypeCorrect == Spec => []TypeOK
<1>1. IInv => TypeOK
  BY DEF IInv
<1> QED BY <1>1, InitInv, StepInv, PTL DEF Spec

\* The fallback of the claude adapter runs a request again only before anything
\* of it was taken or sent.
THEOREM SecondRunIsSilent == Spec => SecondRunOnlyInSilence
<1>1. IInv /\ [Next]_vars
      => [\A r \in Requests : run'[r] = 2 /\ run[r] = 1 => ~started[r] /\ text[r] = <<>>]_vars
  <2> SUFFICES ASSUME IInv, Next, NEW r \in Requests, run'[r] = 2, run[r] = 1
               PROVE  ~started[r] /\ text[r] = <<>>
    BY DEF vars
  <2>1. pc[r] = "first"
    <3>1. PICK q \in Requests : Ask(q) \/ Progress(q) \/ Disconnect(q) \/ Cancel(q) \/ Finalize(q)
      BY DEF Next
    <3>2. run' = run \/ Open(q) \/ FirstFails(q)
      <4>1. CASE Ask(q) \/ Refuse(q) \/ Disconnect(q) \/ Cancel(q) \/ Finalize(q)
        BY <4>1 DEF Ask, Refuse, Disconnect, Cancel, Finalize
      <4>2. CASE WholeTurn(q) \/ WholeTurnFails(q)
        BY <4>2 DEF WholeTurn, WholeTurnFails
      <4>3. CASE First(q) \/ Chunk(q) \/ EndOfStream(q)
        BY <4>3 DEF First, Chunk, EndOfStream
      <4>4. CASE StreamFails(q)
        BY <4>4 DEF StreamFails, MidStreamFailure
      <4>5. CASE Start(q) \/ Send(q) \/ SendTail(q)
        BY <4>5 DEF Start, Send, SendTail
      <4> QED BY <3>1, <4>1, <4>2, <4>3, <4>4, <4>5 DEF Progress
    <3>3. CASE run' = run
      BY <3>3
    <3>4. CASE Open(q)
      BY <3>4 DEF Open, IInv, TypeOK
    <3>5. CASE FirstFails(q)
      <4>1. run \in [Requests -> 0..2] /\ pc[q] = "first"
        BY <3>5 DEF FirstFails, IInv, TypeOK
      <4>2. run' = run \/ run' = [run EXCEPT ![q] = 2]
        BY <3>5 DEF FirstFails, FallBack, PrimeFails
      <4> QED BY <4>1, <4>2
    <3> QED BY <3>2, <3>3, <3>4, <3>5
  <2> QED BY <2>1 DEF IInv, Silent, Untouched
<1> QED BY <1>1, InitInv, StepInv, PTL DEF Spec, SecondRunOnlyInSilence

\* What a client was told can be asked for, with the whole text it heard: the text
\* of a completion is that of the deltas before it, and that of the stored turn
\* (replay.py, responses_app.py's create_response and _stream).
THEOREM HeardStaysKept == Spec => []HeardIsKept
<1>1. LInv => HeardIsKept
  BY DEF LInv, IInv, LineInv, HeardIsAnswerable, Recorded, ToldWhole, HeardIsKept
<1> QED BY <1>1, AlwaysLine, PTL

\* Every client hears the beginning of one well-formed answer, whatever its
\* upstream does, for any number of fragments (responses_app.py's _stream,
\* _emit_mid_stream_failure).
THEOREM AnswersStayWellFormed == Spec => []AnswersAreWellFormed
<1>1. LInv => AnswersAreWellFormed
  <2> SUFFICES ASSUME LInv, NEW r \in Requests PROVE WellFormed(Types(r))
    BY DEF AnswersAreWellFormed
  <2>1. wire[r] \in Seq(Events) /\ Shaped(wire[r])
    BY DEF LInv, IInv, TypeOK, LineInv, Recorded
  <2> QED BY <2>1, ShapesAreWellFormed DEF Types
<1> QED BY <1>1, AlwaysLine, PTL

\* A chat that names a turn its client heard to the end carries it upstream
\* (deepseek.py's _prior_turn, store.py).
THEOREM ChainsCarryThePast == Spec => ChainCarriesThePast
<1>1. LInv /\ [Next]_vars
      => [\A r, q \in Requests :
             (kind = "chat" /\ pc[r] = "gate" /\ run'[r] = 1 /\ q \in previous[r]
                 /\ (Heard(q, "completed") \/ Heard(q, "body")))
             => carried'[r] = store[q].text]_vars
  <2> SUFFICES ASSUME LInv, Next, NEW r \in Requests, NEW q \in Requests,
                      kind = "chat", pc[r] = "gate", run'[r] = 1, q \in previous[r],
                      Heard(q, "completed") \/ Heard(q, "body")
               PROVE  carried'[r] = store[q].text
    BY DEF vars
  <2>1. run[r] = 0 /\ \A x, y \in previous[r] : x = y
    BY DEF LInv, LineInv, Named
  <2>2. Open(r)
    <3>1. PICK p \in Requests : Ask(p) \/ Progress(p) \/ Disconnect(p) \/ Cancel(p) \/ Finalize(p)
      BY DEF Next
    <3>2. run' = run \/ Open(p) \/ FirstFails(p)
      <4>1. CASE Ask(p) \/ Refuse(p) \/ Disconnect(p) \/ Cancel(p) \/ Finalize(p)
        BY <4>1 DEF Ask, Refuse, Disconnect, Cancel, Finalize
      <4>2. CASE WholeTurn(p) \/ WholeTurnFails(p)
        BY <4>2 DEF WholeTurn, WholeTurnFails
      <4>3. CASE First(p) \/ Chunk(p) \/ EndOfStream(p)
        BY <4>3 DEF First, Chunk, EndOfStream
      <4>4. CASE StreamFails(p)
        BY <4>4 DEF StreamFails, MidStreamFailure
      <4>5. CASE Start(p) \/ Send(p) \/ SendTail(p)
        BY <4>5 DEF Start, Send, SendTail
      <4> QED BY <3>1, <4>1, <4>2, <4>3, <4>4, <4>5 DEF Progress
    <3>3. run \in [Requests -> 0..2]
      BY DEF LInv, IInv, TypeOK
    <3>4. CASE FirstFails(p)
      <4>1. pc[p] = "first" /\ (run' = run \/ run' = [run EXCEPT ![p] = 2])
        BY <3>4 DEF FirstFails, FallBack, PrimeFails
      <4> QED BY <2>1, <3>3, <4>1
    <3>5. CASE Open(p)
      <4>1. run' = [run EXCEPT ![p] = 1]
        BY <3>5 DEF Open
      <4>2. p = r
        BY <2>1, <3>3, <4>1
      <4> QED BY <3>5, <4>2
    <3> QED BY <2>1, <3>2, <3>4, <3>5
  <2>3. store[q] # None
    <3>1. PICK i \in DOMAIN wire[q] : wire[q][i].type \in {"completed", "body"}
      BY DEF Heard
    <3> QED BY <3>1 DEF LInv, IInv, HeardIsAnswerable, Answerable
  <2>4. (CHOOSE x \in previous[r] : TRUE) = q
    BY <2>1
  <2>5. PriorTurn(r) = store[q].text
    BY <2>3, <2>4 DEF PriorTurn
  <2> QED BY <2>2, <2>5 DEF Open, LInv, IInv, TypeOK
<1> QED BY <1>1, AlwaysLine, PTL DEF Spec, ChainCarriesThePast
=============================================================================
