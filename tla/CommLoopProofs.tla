---------------------------- MODULE CommLoopProofs ----------------------------
(***************************************************************************)
(* What udpsclinda promises to the datagrams of a session, for any number  *)
(* of connections of any kinds, of requests, clients and paths: they reach *)
(* no other session, and a close lets them out first.  Both follow from    *)
(* one invariant on the queue of key "sendsc".  Then what it promises to   *)
(* the filters: who was told that its filter is there gets the messages;   *)
(* this follows from an invariant on the queue of key "clearFilter".       *)
(***************************************************************************)
EXTENDS CommLoop, TLAPS

\* Where a datagram that was handed over can be: still queued, or sent by some lane.
Queued(r) == \E k \in DOMAIN sendQ : sendQ[k] = r
SentBySome(r) == \E j \in LaneIds : r \in sent[j]

SessionTypes ==
    /\ stamp \in Nat
    /\ sendQ \in Seq(Nat)
    /\ opened \in Seq(Kinds) /\ Len(opened) <= MaxLanes
    /\ born \in [LaneIds -> Nat]
    /\ sent \in [LaneIds -> SUBSET Nat]
    /\ asked \subseteq Nat

\* Only lanes that were opened run and have sent, and none was opened in the future.
LanesOpened ==
    /\ \A i \in LaneIds : pc[i] # "unborn" => i <= Len(opened)
    /\ \A i \in LaneIds : i > Len(opened) => sent[i] = {}
    /\ \A i \in LaneIds : born[i] <= stamp
    /\ DOMAIN pc = LaneIds

\* The queue is emptied when a lane is made, so that what it holds is younger than every lane.
QueueIsYoung == \A k \in DOMAIN sendQ, i \in LaneIds : sendQ[k] > born[i]

\* A datagram of the present session is queued until it is sent.
NoneLost ==
    /\ \A r \in asked : r <= stamp
    /\ opened # <<>> => \A r \in asked : r > born[Len(opened)] => Queued(r) \/ SentBySome(r)

SessionInv == SessionTypes /\ LanesOpened /\ QueueIsYoung /\ SessionIsolation /\ NoneLost

LEMMA Bounds == MaxLanes \in Nat /\ MaxLanes > 0 /\ LaneIds \subseteq Nat
  BY BoundsAssumption DEF LaneIds

LEMMA SessionInitially == Init => SessionInv
  BY Bounds DEF Init, SessionInv, SessionTypes, LanesOpened, QueueIsYoung, SessionIsolation, NoneLost

\* Opening a connection: the queue is emptied, and the new lane is younger than every request.
LEMMA OpenKeepsSession ==
    ASSUME SessionInv, NEW kind \in Kinds, OpenConnection(kind)
    PROVE  SessionInv'
<1> DEFINE n == Len(opened')
<1> USE Bounds DEF SessionInv
<1>1. /\ sendQ' = <<>> /\ stamp' = stamp /\ sent' = sent /\ asked' = asked
      /\ opened' = Append(opened, kind) /\ Len(opened) < MaxLanes
      /\ born' = [born EXCEPT ![n] = stamp] /\ pc' = [pc EXCEPT ![n] = "connect"]
  BY DEF OpenConnection
<1>2. opened' \in Seq(Kinds) /\ n = Len(opened) + 1 /\ n \in LaneIds /\ opened' # <<>>
  BY <1>1 DEF SessionTypes, LaneIds
<1>3. SessionTypes'
  BY <1>1, <1>2 DEF SessionTypes
<1>4. LanesOpened'
  <2>1. \A i \in LaneIds : pc'[i] # "unborn" => i <= Len(opened')
    BY <1>1, <1>2 DEF LanesOpened, SessionTypes
  <2>2. ASSUME NEW i \in LaneIds, i > Len(opened')
        PROVE  sent'[i] = {}
    <3>1. i > Len(opened)
      BY <1>2, <2>2 DEF SessionTypes
    <3>2. QED
      BY <1>1, <3>1 DEF LanesOpened
  <2>3. \A i \in LaneIds : born'[i] <= stamp'
    BY <1>1, <1>2 DEF LanesOpened, SessionTypes
  <2>4. QED
    BY <1>1, <2>1, <2>2, <2>3 DEF LanesOpened
<1>5. QueueIsYoung'
  BY <1>1 DEF QueueIsYoung
<1>6. SessionIsolation'
  BY <1>1, <1>2 DEF SessionIsolation, SessionTypes, LanesOpened
<1>7. NoneLost'
  BY <1>1, <1>2 DEF SessionTypes, NoneLost
<1>8. QED
  BY <1>3, <1>4, <1>5, <1>6, <1>7

\* A datagram handed over is younger than every lane, and goes to the end of the queue.
LEMMA SendKeepsSession ==
    ASSUME SessionInv, SendSC \/ ThreadServerSend
    PROVE  SessionInv'
<1> USE Bounds DEF SessionInv
<1>1. /\ sendQ' = Append(sendQ, stamp') /\ stamp' = stamp + 1
      /\ asked' = asked \cup {stamp'} /\ UNCHANGED <<opened, born, sent, pc>>
  BY DEF SendSC, ThreadServerSend, session, control
<1>2. SessionTypes'
  BY <1>1 DEF SessionTypes
<1>3. LanesOpened'
  BY <1>1 DEF SessionTypes, LanesOpened
<1>4. ASSUME NEW k \in DOMAIN sendQ'
      PROVE  \/ k \in DOMAIN sendQ /\ sendQ'[k] = sendQ[k]
             \/ sendQ'[k] = stamp'
  BY <1>1, <1>4 DEF SessionTypes
<1>5. QueueIsYoung'
  BY <1>1, <1>4 DEF QueueIsYoung, LanesOpened, SessionTypes
<1>6. SessionIsolation'
  BY <1>1 DEF SessionIsolation
<1>7. Len(sendQ) + 1 \in DOMAIN sendQ' /\ sendQ'[Len(sendQ) + 1] = stamp'
  BY <1>1 DEF SessionTypes
<1>8. ASSUME NEW r, Queued(r)
      PROVE  Queued(r)'
  <2>1. PICK k \in DOMAIN sendQ : sendQ[k] = r
    BY <1>8 DEF Queued
  <2>2. k \in DOMAIN sendQ' /\ sendQ'[k] = r
    BY <1>1, <2>1 DEF SessionTypes
  <2>3. QED
    BY <2>2 DEF Queued
<1>9. NoneLost'
  <2>1. ASSUME NEW r \in asked', opened # <<>>, r > born[Len(opened)]
        PROVE  Queued(r)' \/ SentBySome(r)'
    <3>1. CASE r = stamp'
      BY <1>7, <3>1 DEF Queued
    <3>2. CASE r \in asked
      BY <1>1, <1>8, <2>1, <3>2 DEF NoneLost, SentBySome
    <3>3. QED
      BY <1>1, <3>1, <3>2
  <2>2. \A r \in asked' : r <= stamp'
    BY <1>1 DEF NoneLost, SessionTypes
  <2>3. QED
    BY <1>1, <2>1, <2>2 DEF NoneLost
<1>10. QED
  BY <1>2, <1>3, <1>5, <1>6, <1>9

\* A lane takes the oldest datagram and sends it, or has no connection to send it over.
LEMMA PollKeepsSession ==
    ASSUME SessionInv, NEW i \in LaneIds, PollSend(i)
    PROVE  SessionInv'
<1> DEFINE h == Head(sendQ)
<1> USE Bounds DEF SessionInv
<1>1. /\ sendQ # <<>> /\ sendQ' = Tail(sendQ) /\ UNCHANGED <<opened, born, stamp, pc>>
      /\ pc[i] # "unborn"
      /\ \/ asked' = asked \ {h} /\ sent' = sent
         \/ asked' = asked /\ sent' = [sent EXCEPT ![i] = @ \cup {h}]
  BY DEF PollSend, Polling, session, Served
<1>2. 1 \in DOMAIN sendQ /\ h = sendQ[1] /\ h \in Nat
  BY <1>1 DEF SessionTypes
<1>3. SessionTypes'
  <2>1. sendQ' \in Seq(Nat)
    BY <1>1 DEF SessionTypes
  <2>2. sent' \in [LaneIds -> SUBSET Nat] /\ asked' \subseteq Nat
    <3>1. sent \in [LaneIds -> SUBSET Nat] /\ asked \subseteq Nat
      BY DEF SessionTypes
    <3>2. asked' \subseteq Nat /\ (sent' = sent \/ sent' = [sent EXCEPT ![i] = @ \cup {h}])
      BY <1>1, <3>1
    <3> HIDE DEF h
    <3>3. sent[i] \cup {h} \in SUBSET Nat
      BY <1>2, <3>1
    <3>4. QED
      BY <3>1, <3>2, <3>3
  <2>3. QED
    BY <1>1, <2>1, <2>2 DEF SessionTypes
<1>4. LanesOpened'
  BY <1>1 DEF SessionTypes, LanesOpened
<1>5. \A k \in DOMAIN sendQ' : k + 1 \in DOMAIN sendQ /\ sendQ'[k] = sendQ[k + 1]
  BY <1>1 DEF SessionTypes
<1>6. QueueIsYoung'
  BY <1>1, <1>5 DEF QueueIsYoung
<1>7. SessionIsolation'
  BY SMTT(30), <1>1, <1>2 DEF SessionIsolation, QueueIsYoung, SessionTypes
<1>8. ASSUME NEW r, Queued(r), r # h
      PROVE  Queued(r)'
  <2>1. PICK k \in DOMAIN sendQ : sendQ[k] = r
    BY <1>8 DEF Queued
  <2>2. k - 1 \in DOMAIN sendQ' /\ sendQ'[k - 1] = r
    BY <1>1, <1>2, <1>8, <2>1 DEF SessionTypes
  <2>3. QED
    BY <2>2 DEF Queued
<1>9. \A r : SentBySome(r) => SentBySome(r)'
  BY <1>1 DEF SentBySome, SessionTypes
<1>10. NoneLost'
  <2>1. ASSUME NEW r \in asked', opened # <<>>, r > born[Len(opened)]
        PROVE  Queued(r)' \/ SentBySome(r)'
    <3>1. r \in asked /\ (Queued(r) \/ SentBySome(r))
      BY <1>1, <2>1 DEF NoneLost
    <3>2. CASE r = h
      BY <1>1, <2>1, <3>2 DEF SentBySome, SessionTypes
    <3>3. QED
      BY <1>8, <1>9, <3>1, <3>2
  <2>2. QED
    BY <1>1, <2>1 DEF NoneLost
<1>11. QED
  BY <1>3, <1>4, <1>6, <1>7, <1>10

\* All other steps leave the datagrams alone; some count a request of another key.
LEMMA OthersKeepSession ==
    ASSUME SessionInv,
           stamp' \in {stamp, stamp + 1},
           UNCHANGED <<sendQ, opened, born, sent, asked>>,
           DOMAIN pc' = LaneIds,
           \A i \in LaneIds : pc'[i] # "unborn" => pc[i] # "unborn"
    PROVE  SessionInv'
<1> USE Bounds DEF SessionInv
<1>1. SessionTypes'
  BY DEF SessionTypes
<1>2. LanesOpened'
  BY DEF SessionTypes, LanesOpened
<1>3. QueueIsYoung'
  BY DEF QueueIsYoung
<1>4. SessionIsolation'
  BY DEF SessionIsolation
<1>5. NoneLost'
  BY DEF NoneLost, Queued, SentBySome, SessionTypes
<1>6. QED
  BY <1>1, <1>2, <1>3, <1>4, <1>5

\* The invariant is inductive.
LEMMA SessionInductive == SessionInv /\ [Next]_vars => SessionInv'
<1> SUFFICES ASSUME SessionInv, [Next]_vars
             PROVE  SessionInv'
  OBVIOUS
<1>0. DOMAIN pc = LaneIds
  BY DEF SessionInv, LanesOpened
<1>1. ASSUME NEW kind \in Kinds, OpenConnection(kind)
      PROVE  SessionInv'
  BY <1>1, OpenKeepsSession
<1>2. CASE SendSC \/ ThreadServerSend
  BY <1>2, SendKeepsSession
<1>3. CASE CloseConnection
  BY <1>0, <1>3, OthersKeepSession DEF CloseConnection, history, control
<1>4. ASSUME NEW c \in Clients, NEW p \in Paths, NEW block \in BOOLEAN, NewFilter(c, p, block)
      PROVE  SessionInv'
  BY <1>0, <1>4, OthersKeepSession DEF NewFilter, history, control, session
<1>5. ASSUME NEW c \in Clients, NEW p \in Paths, ClearFilters(c, p)
      PROVE  SessionInv'
  BY <1>0, <1>5, OthersKeepSession DEF ClearFilters, control, session
<1>6. CASE ServerStarts \/ ServerStops
  BY <1>0, <1>6, OthersKeepSession DEF ServerStarts, ServerStops, history, control, queues
<1>7. ASSUME NEW i \in LaneIds, NEW m \in Replies, ServerSends(i, m)
      PROVE  SessionInv'
  BY <1>0, <1>7, OthersKeepSession DEF ServerSends, history, control, queues, session
<1>8. ASSUME NEW i \in LaneIds, DatagramLost(i)
      PROVE  SessionInv'
  BY <1>0, <1>8, OthersKeepSession DEF DatagramLost, history, control, queues, session
<1>9. ASSUME NEW i \in LaneIds, LaneStep(i)
      PROVE  SessionInv'
  <2> USE <1>0, OthersKeepSession DEF history, queues, session
  <2>1. CASE PollSend(i)
    BY <2>1, PollKeepsSession
  <2>2. CASE Connect(i)
    BY <2>2 DEF Connect
  <2>3. CASE NotifyAnswered(i)
    BY <2>3 DEF NotifyAnswered
  <2>4. CASE NotifyGivesUp(i)
    BY <2>4 DEF NotifyGivesUp
  <2>5. CASE Receive(i)
    BY <2>5 DEF Receive
  <2>6. CASE PollAdd(i)
    BY <2>6 DEF PollAdd, Served
  <2>7. CASE PollClear(i)
    BY <2>7 DEF PollClear, Served
  <2>8. CASE PollExit(i)
    BY <2>8 DEF PollExit, Polling
  <2>9. CASE PollEmpty(i)
    BY <2>9 DEF PollEmpty, Polling
  <2>10. CASE Route(i)
    BY <2>10 DEF Route
  <2>11. QED
    BY <1>9, <2>1, <2>2, <2>3, <2>4, <2>5, <2>6, <2>7, <2>8, <2>9, <2>10 DEF LaneStep
<1>10. CASE UNCHANGED vars
  BY <1>0, <1>10, OthersKeepSession DEF vars, history, control, queues, session
<1>11. QED
  BY <1>1, <1>2, <1>3, <1>4, <1>5, <1>6, <1>7, <1>8, <1>9, <1>10 DEF Next

LEMMA SessionAlways == Spec => []SessionInv
  BY SessionInitially, SessionInductive, PTL DEF Spec

\* No datagram meant for one connection is sent over a later one (scudp.lua:224), however many
\* lanes of either kind serve the linda.
THEOREM SessionsIsolated == Spec => []SessionIsolation
<1>1. SessionInv => SessionIsolation
  BY DEF SessionInv
<1>2. QED
  BY <1>1, SessionAlways, PTL

\* Only an exit makes a polling lane leave, and it takes it from an empty queue.
LEMMA LeavesByExit ==
    ASSUME SessionInv, [Next]_vars,
           NEW i \in LaneIds, Polling(i), pc'[i] \in {"bye", "dead"}
    PROVE  PollExit(i)
<1>0. DOMAIN pc = LaneIds /\ pc[i] \in {"connectPoll", "poll"}
  BY DEF SessionInv, LanesOpened, Polling
<1>1. ASSUME NEW kind \in Kinds, OpenConnection(kind)
      PROVE  FALSE
  BY <1>0, <1>1 DEF OpenConnection
<1>2. CASE UNCHANGED pc
  BY <1>0, <1>2
<1>3. ASSUME NEW j \in LaneIds, LaneStep(j), j # i
      PROVE  UNCHANGED pc[i]
  <2> USE DEF Served, history, queues, session
  <2>1. CASE Connect(j) \/ NotifyAnswered(j) \/ NotifyGivesUp(j) \/ Receive(j) \/ PollEmpty(j)
    BY <1>0, <1>3, <2>1 DEF Connect, NotifyAnswered, NotifyGivesUp, Receive, PollEmpty
  <2>2. CASE PollSend(j) \/ PollAdd(j) \/ PollClear(j)
    BY <2>2 DEF PollSend, PollAdd, PollClear
  <2>3. CASE PollExit(j)
    BY <1>0, <1>3, <2>3 DEF PollExit
  <2>4. CASE Route(j)
    BY <1>0, <1>3, <2>4 DEF Route
  <2>5. QED
    BY <1>3, <2>1, <2>2, <2>3, <2>4 DEF LaneStep
<1>4. ASSUME LaneStep(i)
      PROVE  PollExit(i)
  <2> USE <1>0 DEF Served
  <2>1. CASE Connect(i) \/ NotifyAnswered(i) \/ NotifyGivesUp(i) \/ Receive(i) \/ Route(i)
    BY <2>1 DEF Connect, NotifyAnswered, NotifyGivesUp, Receive, Route
  <2>2. CASE PollSend(i) \/ PollAdd(i) \/ PollClear(i)
    BY <2>2 DEF PollSend, PollAdd, PollClear
  <2>3. CASE PollEmpty(i)
    BY <2>3 DEF PollEmpty
  <2>4. QED
    BY <1>4, <2>1, <2>2, <2>3 DEF LaneStep
<1>5. CASE SendSC \/ ThreadServerSend \/ CloseConnection \/ ServerStarts \/ ServerStops
  BY <1>2, <1>5 DEF SendSC, ThreadServerSend, CloseConnection, ServerStarts, ServerStops, control
<1>6. CASE \E c \in Clients, p \in Paths : (\E block \in BOOLEAN : NewFilter(c, p, block)) \/ ClearFilters(c, p)
  BY <1>2, <1>6 DEF NewFilter, ClearFilters, control
<1>7. CASE \E j \in LaneIds : (\E m \in Replies : ServerSends(j, m)) \/ DatagramLost(j)
  BY <1>2, <1>7 DEF ServerSends, DatagramLost, control
<1>8. CASE UNCHANGED vars
  BY <1>2, <1>8 DEF vars, control
<1>9. QED
  BY <1>0, <1>1, <1>3, <1>4, <1>5, <1>6, <1>7, <1>8 DEF Next

\* Whenever a lane takes an exit, what was handed over in the present session has been sent
\* (scudp.lua:91, :110-112): the exit is taken from an empty queue.
THEOREM DatagramsSentBeforeExit == Spec => SentBeforeExit
<1>1. ASSUME SessionInv, [Next]_vars, NEW i \in LaneIds, Polling(i), pc'[i] \in {"bye", "dead"},
             NEW r \in asked, born[Len(opened)] < r
      PROVE  \E j \in LaneIds : r \in sent[j]
  <2>1. i \in Nat /\ i >= 1 /\ i <= Len(opened)
    BY <1>1, Bounds DEF SessionInv, SessionTypes, LanesOpened, Polling, LaneIds
  <2>2. opened # <<>>
    BY <2>1
  <2>3. sendQ = <<>>
    BY <1>1, LeavesByExit DEF PollExit
  <2>4. Queued(r) \/ SentBySome(r)
    BY <1>1, <2>2 DEF SessionInv, NoneLost
  <2>5. QED
    BY <2>3, <2>4 DEF Queued, SentBySome
<1>2. SessionInv /\ [Next]_vars =>
         [\A i \in LaneIds : Polling(i) /\ pc'[i] \in {"bye", "dead"} =>
             \A r \in asked : born[Len(opened)] < r /\ r < Head(exitQ) =>
                \E j \in LaneIds : r \in sent[j]]_vars
  BY <1>1
<1>3. QED
  BY <1>2, SessionAlways, PTL DEF Spec, SentBeforeExit

-----------------------------------------------------------------------------
Places == {"unborn", "connect", "notify", "receive", "connectPoll", "poll", "route", "bye", "dead"}
AddRequests == [path : Paths, linda : Clients, block : BOOLEAN, stamp : Request]
ClearRequests == [path : Paths, linda : Clients, stamp : Request]

\* A queue of a linda keeps the kind of what it holds, at either end.
LEMMA QueueTyped ==
  ASSUME NEW S, NEW q \in Seq(S)
  PROVE  /\ \A x \in S : Append(q, x) \in Seq(S)
         /\ q # <<>> => Head(q) \in S /\ Tail(q) \in Seq(S)
         /\ <<>> \in Seq(S)
  OBVIOUS

\* The parts of the type invariant: what waits, the session, the lanes, the clients.
QueuesTyped ==
    /\ sendQ \in Seq(Request) /\ exitQ \in Seq(Request) /\ addQ \in Seq(AddRequests) /\ clearQ \in Seq(ClearRequests)
SessionTyped ==
    /\ stamp \in 0..MaxRequests /\ inited \in BOOLEAN /\ serverUp \in BOOLEAN
    /\ opened \in Seq(Kinds) /\ Len(opened) <= MaxLanes
ControlTyped ==
    /\ pc \in [LaneIds -> Places] /\ inner \in [LaneIds -> BOOLEAN] /\ linked \in [LaneIds -> BOOLEAN]
    /\ held \in [LaneIds -> Msg \cup {None, Closed}] /\ wire \in [LaneIds -> Seq(Msg)]
    /\ delivered \subseteq (Msg \cup {ALL}) \X Lindas
FiltersTyped ==
    /\ filters \in [LaneIds -> SUBSET (Paths \X Clients)]
    /\ {confirmed, overtaken} \subseteq [LaneIds -> SUBSET (Paths \X Clients)]
    /\ waiting \subseteq Clients /\ own \in [Clients -> SUBSET Paths]
RequestsTyped ==
    /\ sent \in [LaneIds -> SUBSET Request] /\ born \in [LaneIds -> 0..MaxRequests] /\ asked \subseteq Request

LEMMA TypesOfParts == TypeOK <=> QueuesTyped /\ SessionTyped /\ ControlTyped /\ FiltersTyped /\ RequestsTyped
  BY DEF TypeOK, QueuesTyped, SessionTyped, ControlTyped, FiltersTyped, RequestsTyped, Places, AddRequests, ClearRequests

\* The next request has a number of its own, within the bound.
LEMMA NextStamp ==
  ASSUME stamp \in 0..MaxRequests, stamp < MaxRequests, stamp' = stamp + 1
  PROVE  stamp' \in Request /\ stamp' \in 0..MaxRequests
  BY BoundsAssumption DEF Request

\* One step keeps the kinds of the requests that wait in udpsclinda.
LEMMA StepKeepsQueues == ASSUME TypeOK, Next PROVE QueuesTyped'
<1>0. QueuesTyped /\ stamp \in 0..MaxRequests
  BY TypesOfParts DEF SessionTyped
<1> USE <1>0 DEF QueuesTyped
<1>1. CASE SendSC \/ ThreadServerSend
  <2>1. stamp' \in Request /\ sendQ' = Append(sendQ, stamp') /\ UNCHANGED <<addQ, clearQ, exitQ>>
    BY <1>1, NextStamp DEF SendSC, ThreadServerSend
  <2>2. QED
    BY <2>1, QueueTyped
<1>2. CASE CloseConnection
  <2>1. stamp' \in Request /\ exitQ' = Append(exitQ, stamp') /\ UNCHANGED <<addQ, clearQ, sendQ>>
    BY <1>2, NextStamp DEF CloseConnection
  <2>2. QED
    BY <2>1, QueueTyped
<1>3. ASSUME NEW c \in Clients, NEW p \in Paths, NEW block \in BOOLEAN, NewFilter(c, p, block) PROVE QueuesTyped'
  <2>1. /\ stamp' \in Request /\ UNCHANGED <<exitQ, clearQ, sendQ>>
        /\ addQ' = Append(addQ, [path |-> p, linda |-> c, block |-> block, stamp |-> stamp'])
    BY <1>3, NextStamp DEF NewFilter
  <2>2. [path |-> p, linda |-> c, block |-> block, stamp |-> stamp'] \in AddRequests
    BY <2>1 DEF AddRequests
  <2>3. QED
    BY <2>1, <2>2, QueueTyped
<1>4. ASSUME NEW c \in Clients, NEW p \in Paths, ClearFilters(c, p) PROVE QueuesTyped'
  <2>1. /\ stamp' \in Request /\ UNCHANGED <<exitQ, addQ, sendQ>>
        /\ clearQ' = Append(clearQ, [path |-> p, linda |-> c, stamp |-> stamp'])
    BY <1>4, NextStamp DEF ClearFilters
  <2>2. [path |-> p, linda |-> c, stamp |-> stamp'] \in ClearRequests
    BY <2>1 DEF ClearRequests
  <2>3. QED
    BY <2>1, <2>2, QueueTyped
<1>5. ASSUME NEW kind \in Kinds, OpenConnection(kind) PROVE QueuesTyped'
  BY <1>5, QueueTyped DEF OpenConnection
<1>6. ASSUME NEW i \in LaneIds, LaneStep(i) PROVE QueuesTyped'
  <2>1. CASE PollSend(i) \/ PollAdd(i) \/ PollClear(i) \/ PollExit(i)
    <3>1. /\ sendQ' = sendQ \/ (sendQ # <<>> /\ sendQ' = Tail(sendQ))
          /\ addQ' = addQ \/ (addQ # <<>> /\ addQ' = Tail(addQ))
          /\ clearQ' = clearQ \/ (clearQ # <<>> /\ clearQ' = Tail(clearQ))
          /\ exitQ' = exitQ \/ (exitQ # <<>> /\ exitQ' = Tail(exitQ))
      BY <2>1 DEF PollSend, PollAdd, PollClear, PollExit
    <3>2. sendQ' \in Seq(Request) /\ exitQ' \in Seq(Request)
      BY <3>1, QueueTyped
    <3>3. addQ' \in Seq(AddRequests)
      BY <3>1, QueueTyped
    <3>4. clearQ' \in Seq(ClearRequests)
      BY <3>1, QueueTyped
    <3>5. QED
      BY <3>2, <3>3, <3>4
  <2>2. CASE UNCHANGED queues
    BY <2>2 DEF queues
  <2>3. QED
    BY <1>6, <2>1, <2>2 DEF LaneStep, Connect, NotifyAnswered, NotifyGivesUp, Receive, PollEmpty, Route
<1>7. CASE UNCHANGED queues
  BY <1>7 DEF queues
<1>8. QED
  BY <1>1, <1>2, <1>3, <1>4, <1>5, <1>6, <1>7 DEF Next, ServerSends, DatagramLost, ServerStarts, ServerStops

\* One step keeps the session and the numbers of the requests.
LEMMA StepKeepsRequests == ASSUME TypeOK, Next PROVE SessionTyped' /\ RequestsTyped'
<1>0. QueuesTyped /\ SessionTyped /\ RequestsTyped
  BY TypesOfParts
<1> USE <1>0 DEF SessionTyped, RequestsTyped
<1>1. CASE SendSC \/ ThreadServerSend
  <2>1. /\ stamp' \in Request /\ stamp' \in 0..MaxRequests /\ asked' = asked \cup {stamp'}
        /\ UNCHANGED <<inited, opened, serverUp, sent, born>>
    BY <1>1, NextStamp DEF SendSC, ThreadServerSend, session
  <2>2. QED
    BY <2>1
<1>2. CASE CloseConnection
  <2>1. stamp' \in 0..MaxRequests /\ inited' = FALSE /\ UNCHANGED <<opened, serverUp, sent, born, asked>>
    BY <1>2, NextStamp DEF CloseConnection, history
  <2>2. QED
    BY <2>1
<1>3. CASE \E c \in Clients, p \in Paths : (\E block \in BOOLEAN : NewFilter(c, p, block)) \/ ClearFilters(c, p)
  <2>1. stamp' \in 0..MaxRequests /\ UNCHANGED <<session, sent, born, asked>>
    BY <1>3, NextStamp DEF NewFilter, ClearFilters, history
  <2>2. QED
    BY <2>1 DEF session
<1>4. ASSUME NEW kind \in Kinds, OpenConnection(kind) PROVE SessionTyped' /\ RequestsTyped'
  <2>1. /\ opened' = Append(opened, kind) /\ Len(opened) < MaxLanes /\ inited' = TRUE
        /\ born' = [born EXCEPT ![Len(opened')] = stamp]
        /\ UNCHANGED <<stamp, serverUp, sent, asked>>
    BY <1>4 DEF OpenConnection
  <2>2. opened' \in Seq(Kinds) /\ Len(opened') = Len(opened) + 1
    BY <2>1
  <2>3. Len(opened') <= MaxLanes
    BY <2>1, <2>2, BoundsAssumption
  <2>4. born' \in [LaneIds -> 0..MaxRequests]
    BY <2>1
  <2>5. QED
    BY <2>1, <2>2, <2>3, <2>4
<1>5. CASE ServerStarts \/ ServerStops
  BY <1>5 DEF ServerStarts, ServerStops, history
<1>6. ASSUME NEW i \in LaneIds, PollSend(i) PROVE SessionTyped' /\ RequestsTyped'
  <2>1. Head(sendQ) \in Request
    BY <1>6, QueueTyped DEF PollSend, QueuesTyped
  <2>2. /\ UNCHANGED <<stamp, session, born>>
        /\ \/ asked' = asked \ {Head(sendQ)} /\ sent' = sent
           \/ asked' = asked /\ sent' = [sent EXCEPT ![i] = @ \cup {Head(sendQ)}]
    BY <1>6 DEF PollSend
  <2>3. QED
    BY <2>1, <2>2 DEF session
<1>7. CASE UNCHANGED <<stamp, session, sent, born, asked>>
  BY <1>7 DEF session
<1>8. ASSUME NEW i \in LaneIds, LaneStep(i) PROVE SessionTyped' /\ RequestsTyped'
  <2>1. CASE PollSend(i)
    BY <1>6, <2>1
  <2>2. CASE ~PollSend(i)
    BY <1>7, <1>8, <2>2 DEF LaneStep, Connect, NotifyAnswered, NotifyGivesUp, Receive, PollAdd, PollClear,
       PollExit, PollEmpty, Route, history
  <2>3. QED
    BY <2>1, <2>2
<1>9. CASE \E i \in LaneIds : (\E m \in Replies : ServerSends(i, m)) \/ DatagramLost(i)
  BY <1>7, <1>9 DEF ServerSends, DatagramLost, history
<1>10. QED
  BY <1>1, <1>2, <1>3, <1>4, <1>5, <1>8, <1>9 DEF Next

\* A message is delivered under an address of a message or of the catch-all filter, to lindas.
LEMMA DestinationsTyped ==
  ASSUME TypeOK, NEW i \in LaneIds, NEW m \in Msg
  PROVE  {Delivered(i, m)} \X Destinations(i, m) \subseteq (Msg \cup {ALL}) \X Lindas
<1>1. filters[i] \subseteq Paths \X Clients
  BY DEF TypeOK
<1>2. \A g \in filters[i] : g[2] \in Lindas
  BY <1>1, ClientsAssumption
<1>3. Destinations(i, m) \subseteq Lindas
  BY <1>2 DEF Destinations, Lindas
<1>4. Delivered(i, m) \in Msg \cup {ALL}
  BY DEF Delivered
<1>5. QED
  BY <1>3, <1>4

\* One step keeps the places of the lanes and the kinds of what they read and pass on.
LEMMA StepKeepsControl == ASSUME TypeOK, Next PROVE ControlTyped'
<1>0. ControlTyped /\ SessionTyped
  BY TypesOfParts
<1> USE <1>0 DEF ControlTyped, Places
<1>1. CASE SendSC \/ ThreadServerSend \/ CloseConnection
  BY <1>1 DEF SendSC, ThreadServerSend, CloseConnection, control
<1>2. CASE \E c \in Clients, p \in Paths : (\E block \in BOOLEAN : NewFilter(c, p, block)) \/ ClearFilters(c, p)
  BY <1>2 DEF NewFilter, ClearFilters, control
<1>3. ASSUME NEW kind \in Kinds, OpenConnection(kind) PROVE ControlTyped'
  BY <1>3 DEF OpenConnection
<1>4. CASE ServerStarts \/ ServerStops
  <2>1. \A i \in LaneIds : (linked[i] /\ ~IsTcp(i)) \in BOOLEAN
    OBVIOUS
  <2>2. QED
    BY <1>4, <2>1 DEF ServerStarts, ServerStops, control
<1>5. ASSUME NEW i \in LaneIds, NEW m \in Replies, ServerSends(i, m) PROVE ControlTyped'
  <2>1. m \in Msg /\ wire[i] \in Seq(Msg)
    BY RepliesAssumption
  <2>2. Append(wire[i], m) \in Seq(Msg)
    BY <2>1, QueueTyped
  <2>3. QED
    BY <1>5, <2>2 DEF ServerSends, control
<1>w. ASSUME NEW i \in LaneIds, wire[i] # <<>>
      PROVE  Head(wire[i]) \in Msg /\ [wire EXCEPT ![i] = Tail(@)] \in [LaneIds -> Seq(Msg)]
  <2>1. wire[i] \in Seq(Msg)
    OBVIOUS
  <2>2. Head(wire[i]) \in Msg /\ Tail(wire[i]) \in Seq(Msg)
    BY <1>w, <2>1, QueueTyped
  <2>3. QED
    BY <2>2
<1>6. ASSUME NEW i \in LaneIds, DatagramLost(i) PROVE ControlTyped'
  BY <1>6, <1>w DEF DatagramLost, control
<1>7. ASSUME NEW i \in LaneIds, LaneStep(i) PROVE ControlTyped'
  <2>1. CASE Connect(i)
    <3>1. wire' = wire \/ (wire[i] # <<>> /\ wire' = [wire EXCEPT ![i] = Tail(@)])
      BY <2>1 DEF Connect
    <3>2. wire' \in [LaneIds -> Seq(Msg)]
      BY <1>w, <3>1
    <3>3. /\ pc' \in [LaneIds -> Places] /\ linked' \in [LaneIds -> BOOLEAN]
          /\ UNCHANGED <<inner, held, delivered>>
      BY <2>1 DEF Connect
    <3>4. QED
      BY <3>2, <3>3
  <2>2. CASE NotifyAnswered(i)
    BY <1>w, <2>2 DEF NotifyAnswered, AfterNotify
  <2>3. CASE NotifyGivesUp(i)
    BY <2>3 DEF NotifyGivesUp, AfterNotify
  <2>4. CASE Receive(i)
    <3>1. wire' \in [LaneIds -> Seq(Msg)]
      <4>1. wire' = wire \/ (wire[i] # <<>> /\ wire' = [wire EXCEPT ![i] = Tail(@)])
        BY <2>4 DEF Receive
      <4>2. QED
        BY <1>w, <4>1
    <3>2. held' \in [LaneIds -> Msg \cup {None, Closed}]
      BY <1>w, <2>4 DEF Receive
    <3>3. QED
      BY <2>4, <3>1, <3>2 DEF Receive
  <2>5. CASE PollSend(i) \/ PollAdd(i) \/ PollClear(i)
    BY <2>5 DEF PollSend, PollAdd, PollClear, Served
  <2>6. CASE PollExit(i) \/ PollEmpty(i)
    BY <2>6 DEF PollExit, PollEmpty, Forget
  <2>7. CASE Route(i)
    <3>1. delivered' \subseteq (Msg \cup {ALL}) \X Lindas
      <4>1. held[i] \in Msg => {Delivered(i, held[i])} \X Destinations(i, held[i]) \subseteq (Msg \cup {ALL}) \X Lindas
        BY DestinationsTyped
      <4>2. QED
        BY <2>7, <4>1 DEF Route
    <3>2. pc' \in [LaneIds -> Places] /\ held' \in [LaneIds -> Msg \cup {None, Closed}]
      BY <2>7 DEF Route, Forget
    <3>3. QED
      BY <2>7, <3>1, <3>2 DEF Route
  <2>8. QED
    BY <1>7, <2>1, <2>2, <2>3, <2>4, <2>5, <2>6, <2>7 DEF LaneStep
<1>8. QED
  BY <1>1, <1>2, <1>3, <1>4, <1>5, <1>6, <1>7 DEF Next

\* One step keeps filters and what clients know of them to registered addresses and lindas.
LEMMA StepKeepsFilters == ASSUME TypeOK, Next PROVE FiltersTyped'
<1>0. FiltersTyped /\ QueuesTyped
  BY TypesOfParts
<1> USE <1>0 DEF FiltersTyped
<1>1. ASSUME NEW c \in Clients, NEW p \in Paths, NEW block \in BOOLEAN, NewFilter(c, p, block) PROVE FiltersTyped'
  BY <1>1 DEF NewFilter, history
<1>2. ASSUME NEW c \in Clients, NEW p \in Paths, ClearFilters(c, p) PROVE FiltersTyped'
  <2>1. /\ UNCHANGED <<filters, waiting>> /\ own' = [own EXCEPT ![c] = @ \ {p}]
        /\ confirmed' = [i \in LaneIds |-> {f \in confirmed[i] : f[1] # p}]
        /\ overtaken' = [i \in LaneIds |-> {f \in overtaken[i] : f[1] # p}]
    BY <1>2 DEF ClearFilters
  <2>2. \A i \in LaneIds : /\ {f \in confirmed[i] : f[1] # p} \in SUBSET (Paths \X Clients)
                          /\ {f \in overtaken[i] : f[1] # p} \in SUBSET (Paths \X Clients)
    OBVIOUS
  <2>3. QED
    BY <2>1, <2>2
<1>3. ASSUME NEW i \in LaneIds, PollAdd(i) PROVE FiltersTyped'
  <2> DEFINE req == Head(addQ)
  <2>1. req \in AddRequests
    BY <1>3, QueueTyped DEF PollAdd, QueuesTyped
  <2>2. <<req.path, req.linda>> \in Paths \X Clients
    BY <2>1 DEF AddRequests
  <2>3. /\ filters' = [filters EXCEPT ![i] = @ \cup {<<req.path, req.linda>>}]
        /\ confirmed' = confirmed \/ confirmed' = [confirmed EXCEPT ![i] = @ \cup {<<req.path, req.linda>>}]
        /\ \/ overtaken' = [overtaken EXCEPT ![i] = @ \ {<<req.path, req.linda>>}]
           \/ overtaken' = [overtaken EXCEPT ![i] = @ \cup {<<req.path, req.linda>>}]
           \/ overtaken' = overtaken
        /\ waiting' \subseteq waiting /\ own' = own
    BY <1>3 DEF PollAdd
  <2>4. QED
    BY <2>2, <2>3
<1>4. ASSUME NEW i \in LaneIds, PollClear(i) PROVE FiltersTyped'
  <2>1. {f \in filters[i] : f[1] # Head(clearQ).path} \in SUBSET (Paths \X Clients)
    OBVIOUS
  <2>2. QED
    BY <1>4, <2>1 DEF PollClear, clients, history
<1>5. ASSUME NEW i \in LaneIds, Forget(i), UNCHANGED clients PROVE FiltersTyped'
  BY <1>5 DEF Forget, clients
<1>6. CASE UNCHANGED <<filters, confirmed, overtaken, clients>>
  BY <1>6 DEF clients
<1>7. ASSUME NEW i \in LaneIds, LaneStep(i) PROVE FiltersTyped'
  <2>1. CASE PollExit(i) \/ Route(i)
    BY <1>5, <1>6, <2>1 DEF PollExit, Route
  <2>2. CASE Connect(i) \/ NotifyAnswered(i) \/ NotifyGivesUp(i) \/ Receive(i) \/ PollSend(i) \/ PollEmpty(i)
    BY <1>6, <2>2 DEF Connect, NotifyAnswered, NotifyGivesUp, Receive, PollSend, PollEmpty, history
  <2>3. QED
    BY <1>3, <1>4, <1>7, <2>1, <2>2 DEF LaneStep
<1>8. CASE \/ \E kind \in Kinds : OpenConnection(kind)
           \/ CloseConnection \/ SendSC \/ ThreadServerSend \/ ServerStarts \/ ServerStops
           \/ \E i \in LaneIds : (\E m \in Replies : ServerSends(i, m)) \/ DatagramLost(i)
  BY <1>6, <1>8 DEF OpenConnection, CloseConnection, SendSC, ThreadServerSend, ServerStarts, ServerStops,
     ServerSends, DatagramLost, history
<1>9. QED
  BY <1>1, <1>2, <1>7, <1>8 DEF Next

\* The state has its shape for any number of lanes, requests, clients and paths.
THEOREM CommTypeCorrect == Spec => []TypeOK
<1>1. ASSUME Init PROVE TypeOK
  <2>1. QueuesTyped
    BY <1>1, QueueTyped DEF Init, QueuesTyped
  <2>2. SessionTyped /\ RequestsTyped
    <3>1. 0 \in 0..MaxRequests /\ opened \in Seq(Kinds) /\ Len(opened) <= MaxLanes
      BY <1>1, BoundsAssumption DEF Init
    <3>2. QED
      BY <1>1, <3>1 DEF Init, SessionTyped, RequestsTyped
  <2>3. ControlTyped
    BY <1>1 DEF Init, ControlTyped, Places
  <2>4. FiltersTyped
    BY <1>1 DEF Init, FiltersTyped
  <2>5. QED
    BY <2>1, <2>2, <2>3, <2>4, TypesOfParts
<1>2. ASSUME TypeOK, [Next]_vars PROVE TypeOK'
  <2>1. CASE Next
    BY <1>2, <2>1, StepKeepsQueues, StepKeepsRequests, StepKeepsControl, StepKeepsFilters
       DEF TypeOK, QueuesTyped, SessionTyped, ControlTyped, FiltersTyped, RequestsTyped, Places, AddRequests,
           ClearRequests
  <2>2. CASE UNCHANGED vars
    BY <1>2, <2>2 DEF TypeOK, vars, queues, session, control, clients, history
  <2>3. QED
    BY <1>2, <2>1, <2>2
<1>3. QED
  BY <1>1, <1>2, PTL DEF Spec

-----------------------------------------------------------------------------
\* What a lane has confirmed when no request to clear the path waited it has, and there is still
\* none on its way.
ConfirmedInv ==
    \A i \in LaneIds : \A f \in confirmed[i] \ overtaken[i] :
        f \in filters[i] /\ \A k \in DOMAIN clearQ : clearQ[k].path # f[1]

\* A path is cleared only by requests that wait: what is answered while one does is overtaken, and
\* a client that asks for another takes the answer back.
LEMMA StepKeepsConfirmed == ASSUME TypeOK, ConfirmedInv, Next PROVE ConfirmedInv'
<1>0. FiltersTyped /\ QueuesTyped
  BY TypesOfParts
<1> USE DEF ConfirmedInv
<1>1. ASSUME NEW c \in Clients, NEW p \in Paths, ClearFilters(c, p) PROVE ConfirmedInv'
  <2>1. /\ clearQ' = Append(clearQ, [path |-> p, linda |-> c, stamp |-> stamp']) /\ filters' = filters
        /\ confirmed' = [i \in LaneIds |-> {f \in confirmed[i] : f[1] # p}]
        /\ overtaken' = [i \in LaneIds |-> {f \in overtaken[i] : f[1] # p}]
    BY <1>1 DEF ClearFilters
  <2>2. ASSUME NEW k \in DOMAIN clearQ' PROVE clearQ'[k].path = p \/ (k \in DOMAIN clearQ /\ clearQ'[k] = clearQ[k])
    BY <1>0, <2>1, <2>2 DEF QueuesTyped
  <2>3. QED
    BY <2>1, <2>2
<1>2. ASSUME NEW i \in LaneIds, PollAdd(i) PROVE ConfirmedInv'
  <2> DEFINE f == <<Head(addQ).path, Head(addQ).linda>>
             waits == \E k \in DOMAIN clearQ : clearQ[k].path = f[1]
  <2>1. /\ clearQ' = clearQ /\ filters' = [filters EXCEPT ![i] = @ \cup {f}]
        /\ confirmed' = confirmed \/ confirmed' = [confirmed EXCEPT ![i] = @ \cup {f}]
    BY <1>2 DEF PollAdd
  <2>2. /\ ~waits => overtaken' = [overtaken EXCEPT ![i] = @ \ {f}]
        /\ waits => \/ overtaken' = [overtaken EXCEPT ![i] = @ \cup {f}]
                    \/ overtaken' = overtaken /\ confirmed' = confirmed
    BY <1>2 DEF PollAdd
  <2>3. \A j \in LaneIds : f \in filters'[i] /\ filters[j] \subseteq filters'[j]
    BY <1>0, <2>1 DEF FiltersTyped
  <2>4. \A j \in LaneIds : \A g \in confirmed'[j] : g \in confirmed[j] \/ (j = i /\ g = f)
    BY <1>0, <2>1 DEF FiltersTyped
  <2>5. \A j \in LaneIds : \A g : g \notin overtaken'[j] => g \notin overtaken[j] \/ (j = i /\ g = f /\ ~waits)
    BY <1>0, <2>2 DEF FiltersTyped
  <2>6. waits => f \in overtaken'[i] \/ (confirmed' = confirmed /\ overtaken' = overtaken)
    BY <1>0, <2>2 DEF FiltersTyped
  <2> HIDE DEF f, waits
  <2>7. ASSUME NEW j \in LaneIds, NEW g \in confirmed'[j] \ overtaken'[j]
        PROVE  g \in filters'[j] /\ \A k \in DOMAIN clearQ' : clearQ'[k].path # g[1]
    <3>1. CASE g \in confirmed[j] \ overtaken[j]
      BY <2>1, <2>3, <3>1
    <3>2. CASE j = i /\ g = f /\ ~waits
      BY <2>1, <2>3, <3>2 DEF waits
    <3>3. QED
      BY <2>4, <2>5, <2>6, <2>7, <3>1, <3>2
  <2>8. QED
    BY <2>7
<1>3. ASSUME NEW i \in LaneIds, PollClear(i) PROVE ConfirmedInv'
  <2>1. /\ clearQ # <<>> /\ clearQ' = Tail(clearQ) /\ UNCHANGED <<confirmed, overtaken>>
        /\ filters' = [filters EXCEPT ![i] = {f \in @ : f[1] # Head(clearQ).path}]
    BY <1>3 DEF PollClear, history
  <2>2. 1 \in DOMAIN clearQ /\ Head(clearQ) = clearQ[1]
    BY <1>0, <2>1 DEF QueuesTyped
  <2>3. \A k \in DOMAIN clearQ' : k + 1 \in DOMAIN clearQ /\ clearQ'[k] = clearQ[k + 1]
    BY <1>0, <2>1 DEF QueuesTyped
  <2>4. \A j \in LaneIds : \A f \in confirmed[j] \ overtaken[j] : f[1] # Head(clearQ).path
    BY <2>2
  <2>5. \A j \in LaneIds : filters'[j] = filters[j] \/ filters'[j] = {f \in filters[j] : f[1] # Head(clearQ).path}
    BY <1>0, <2>1 DEF FiltersTyped
  <2>6. QED
    BY <2>1, <2>3, <2>4, <2>5
<1>4. ASSUME NEW i \in LaneIds, Forget(i), UNCHANGED clearQ PROVE ConfirmedInv'
  BY <1>0, <1>4 DEF Forget, FiltersTyped
<1>5. CASE UNCHANGED <<filters, confirmed, overtaken, clearQ>>
  BY <1>5
<1>6. ASSUME NEW i \in LaneIds, LaneStep(i) PROVE ConfirmedInv'
  <2>1. CASE PollExit(i) \/ Route(i)
    BY <1>4, <1>5, <2>1 DEF PollExit, Route, queues
  <2>2. CASE Connect(i) \/ NotifyAnswered(i) \/ NotifyGivesUp(i) \/ Receive(i) \/ PollSend(i) \/ PollEmpty(i)
    BY <1>5, <2>2 DEF Connect, NotifyAnswered, NotifyGivesUp, Receive, PollSend, PollEmpty, history, queues
  <2>3. QED
    BY <1>2, <1>3, <1>6, <2>1, <2>2 DEF LaneStep
<1>7. CASE \/ \E kind \in Kinds : OpenConnection(kind)
           \/ \E c \in Clients, p \in Paths, block \in BOOLEAN : NewFilter(c, p, block)
           \/ CloseConnection \/ SendSC \/ ThreadServerSend \/ ServerStarts \/ ServerStops
           \/ \E i \in LaneIds : (\E m \in Replies : ServerSends(i, m)) \/ DatagramLost(i)
  BY <1>5, <1>7 DEF OpenConnection, NewFilter, CloseConnection, SendSC, ThreadServerSend, ServerStarts, ServerStops,
     ServerSends, DatagramLost, history, queues
<1>8. QED
  BY <1>1, <1>6, <1>7 DEF Next

LEMMA ConfirmedAlways == Spec => []ConfirmedInv
<1>1. Init => ConfirmedInv
  BY DEF Init, ConfirmedInv
<1>2. TypeOK /\ ConfirmedInv /\ [Next]_vars => ConfirmedInv'
  <2>1. TypeOK /\ ConfirmedInv /\ Next => ConfirmedInv'
    BY StepKeepsConfirmed
  <2>2. ConfirmedInv /\ UNCHANGED vars => ConfirmedInv'
    BY DEF ConfirmedInv, vars, queues, history
  <2>3. QED
    BY <2>1, <2>2
<1>3. QED
  BY <1>1, <1>2, CommTypeCorrect, PTL DEF Spec

\* A lane that has polled for the last time before it routes leaves that place only by routing.
LEMMA LeavesRoute ==
  ASSUME TypeOK, LanesOpened, [Next]_vars, NEW i \in LaneIds, pc[i] = "route", pc'[i] # "route"
  PROVE  Route(i)
<1>0. DOMAIN pc = LaneIds /\ opened \in Seq(Kinds) /\ i <= Len(opened)
  BY DEF TypeOK, LanesOpened
<1>1. ASSUME NEW kind \in Kinds, OpenConnection(kind)
      PROVE  FALSE
  <2>1. Len(opened') = Len(opened) + 1 /\ i # Len(opened')
    BY <1>0, <1>1, Bounds DEF OpenConnection
  <2>2. QED
    BY <1>0, <1>1, <2>1 DEF OpenConnection
<1>2. CASE UNCHANGED pc
  BY <1>2
<1>3. ASSUME NEW j \in LaneIds, LaneStep(j), ~Route(i)
      PROVE  pc'[i] = "route"
  <2>1. CASE Connect(j) \/ NotifyAnswered(j) \/ NotifyGivesUp(j) \/ Receive(j) \/ PollEmpty(j) \/ PollExit(j)
    BY <1>0, <1>3, <2>1 DEF Connect, NotifyAnswered, NotifyGivesUp, Receive, PollEmpty, PollExit, Polling
  <2>2. CASE PollSend(j) \/ PollAdd(j) \/ PollClear(j)
    BY <1>0, <1>3, <2>2 DEF PollSend, PollAdd, PollClear, Served
  <2>3. CASE Route(j)
    BY <1>0, <1>3, <2>3 DEF Route
  <2>4. QED
    BY <1>3, <2>1, <2>2, <2>3 DEF LaneStep
<1>5. CASE SendSC \/ ThreadServerSend \/ CloseConnection \/ ServerStarts \/ ServerStops
  BY <1>2, <1>5 DEF SendSC, ThreadServerSend, CloseConnection, ServerStarts, ServerStops, control
<1>6. CASE \E c \in Clients, p \in Paths : (\E block \in BOOLEAN : NewFilter(c, p, block)) \/ ClearFilters(c, p)
  BY <1>2, <1>6 DEF NewFilter, ClearFilters, control
<1>7. CASE \E j \in LaneIds : (\E m \in Replies : ServerSends(j, m)) \/ DatagramLost(j)
  BY <1>2, <1>7 DEF ServerSends, DatagramLost, control
<1>8. CASE UNCHANGED vars
  BY <1>2, <1>8 DEF vars, control
<1>9. QED
  BY <1>1, <1>3, <1>5, <1>6, <1>7, <1>8 DEF Next

\* A message that a registration concerns goes to its linda under its address.
LEMMA RegisteredIsServed ==
  ASSUME TypeOK, NEW i \in LaneIds, NEW m \in Msg \ Fixed, NEW f \in filters[i], Concerns(i, m, f)
  PROVE  f \in {Delivered(i, m)} \X Destinations(i, m)
<1> DEFINE Registered(p) == {g[2] : g \in {h \in filters[i] : h[1] = p}}
<1>1. f = <<f[1], f[2]>>
  <2>1. f \in Paths \X Clients
    BY DEF TypeOK
  <2>2. QED
    BY <2>1
<1>2. Destinations(i, m) = IF Registered(m) # {} THEN Registered(m) ELSE Registered(ALL)
  BY DEF Destinations, Fixed
<1>3. CASE m = f[1]
  <2>1. f[2] \in Registered(m) /\ Delivered(i, m) = f[1]
    BY <1>3 DEF Delivered
  <2>2. QED
    BY <1>1, <1>2, <2>1
<1>4. CASE f[1] = ALL /\ \A g \in filters[i] : g[1] # m
  <2>1. Registered(m) = {} /\ f[2] \in Registered(ALL) /\ Delivered(i, m) = f[1]
    BY <1>4 DEF Delivered
  <2>2. QED
    BY <1>1, <1>2, <2>1
<1>5. QED
  BY <1>3, <1>4 DEF Concerns

\* A client whose blocking newfilter has returned gets the messages of its path until somebody asks
\* to clear the path after it asked, unless an older request to clear it still waited when it was
\* answered, whatever the other clients of the linda do (scudp.lua:93-103, :168-176).
THEOREM RepliesReachConfirmed == Spec => ConfirmedIsDelivered
<1>1. ASSUME TypeOK, LanesOpened, ConfirmedInv, [Next]_vars,
             NEW i \in LaneIds, pc[i] = "route", pc'[i] # "route", held[i] \in Msg \ Fixed,
             NEW f \in confirmed[i] \ overtaken[i], Concerns(i, held[i], f)
      PROVE  f \in delivered'
  <2>1. Route(i) /\ f \in filters[i]
    BY <1>1, LeavesRoute DEF ConfirmedInv
  <2>2. f \in {Delivered(i, held[i])} \X Destinations(i, held[i])
    BY <1>1, <2>1, RegisteredIsServed
  <2>3. QED
    BY <1>1, <2>1, <2>2 DEF Route
<1>2. TypeOK /\ LanesOpened /\ ConfirmedInv /\ [Next]_vars =>
         [\A i \in LaneIds : pc[i] = "route" /\ pc'[i] # "route" /\ held[i] \in Msg \ Fixed =>
             \A f \in confirmed[i] \ overtaken[i] : Concerns(i, held[i], f) => f \in delivered']_vars
  BY <1>1
<1>3. SessionInv => LanesOpened
  BY DEF SessionInv
<1>4. QED
  BY <1>2, <1>3, SessionAlways, CommTypeCorrect, ConfirmedAlways, PTL DEF Spec, ConfirmedIsDelivered
===============================================================================
