------------------------------ MODULE CommLoop ------------------------------
(***************************************************************************)
(* The server connection of the main process (sc_comm_loop/): SCCOMMLOOP   *)
(* opens and closes a connection of kind "udp" or "tcp", each connection   *)
(* is a receive lane (ReceiveUDPLoop, ReceiveTCPLoop), and every lane      *)
(* reads its requests from the same linda, udpsclinda.                     *)
(*                                                                         *)
(* A linda holds one queue per key; receive(timeout, key1, key2, ...)      *)
(* takes the oldest value of the first key that has one, so the order of   *)
(* the keys in the call, not the order of sending, decides what is served  *)
(* first.  Requests are numbered in the order of sending (stamp), which    *)
(* the program does not do: the properties need it.  OSC messages are      *)
(* their address; the trace key and all printing are left out.             *)
(***************************************************************************)
EXTENDS Naturals, Sequences, FiniteSets

CONSTANTS Kinds,        \* the kinds of connection the user opens: "udp" or "tcp" or both
          Clients,      \* the lindas that register filters, of Lindas
          Paths,        \* the OSC addresses filters are registered for
          Replies,      \* the addresses the server sends in this instance
          MaxLanes,     \* bound on the number of connections opened
          MaxRequests,  \* bound on the requests sent to udpsclinda
          MaxWire,      \* bound on the messages in flight to one lane
          ServerMayStop \* whether the server process may end by itself

Lindas == {"script", "scriptgui", "idle"}

ASSUME KindsAssumption == Kinds \subseteq {"udp", "tcp"}
ASSUME ClientsAssumption == Clients \subseteq Lindas
ASSUME BoundsAssumption ==
    /\ MaxLanes \in Nat \ {0}
    /\ MaxRequests \in Nat
    /\ MaxWire \in Nat \ {0}
    /\ ServerMayStop \in BOOLEAN

LaneIds == 1..MaxLanes
None == "none"                \* receive() timed out
Closed == "closed"            \* receive() found the connection closed
ALL == "ALL"                  \* the catch-all filter path
Fixed == {"/metronom", "/vumeter", "/status.reply", "/fail"}
Notified == {"/done /notify", "/fail /notify"}
Msg == Fixed \cup Notified \cup (Paths \ {ALL})

ASSUME RepliesAssumption == Replies \subseteq Msg

VARIABLES
    sendQ, addQ, clearQ, exitQ, \* udpsclinda: the queues of its keys
    stamp,      \* number of requests sent so far
    inited,     \* SCCOMMLOOP.inited
    opened,     \* the kinds of the connections opened so far; its length is numsccomm
    serverUp,   \* the server process runs
    pc,         \* where each lane is: "connectPoll" and "poll" are lindaloop
    inner,      \* lindaloop has served a request: it is in its inner receive
    linked,     \* the server can send to the lane: its socket is open (udp), connected (tcp)
    held,       \* the datagram, or status, got before lindaloop
    filters,    \* Filters of each lane, as a set of <<path, linda>>
    wire,       \* messages from the server to the socket of each lane
    delivered,  \* the last message routed: <<address, linda>> for every linda it is sent to
    waiting,    \* clients blocked in newfilter(..., block)
    own,        \* the paths each client has filters for
    sent,       \* stamps of the datagrams each lane has sent to the server
    born,       \* stamp when the lane was created
    asked,      \* stamps of all datagrams sent to udpsclinda, but for those that a tcp lane
                \* dropped because it was not connected
    confirmed,  \* for each lane, the <<path, linda>> it has answered to a blocked client
                \* and that no client has asked to clear after it asked for them
    overtaken   \* those of confirmed that were answered while a request to clear the path,
                \* sent before them, still waited

queues  == <<sendQ, addQ, clearQ, exitQ>>
session == <<inited, opened, serverUp>>
control == <<pc, inner, linked, held>>
history == <<sent, born, asked, confirmed, overtaken>>
clients == <<waiting, own>>
vars == <<queues, stamp, session, control, filters, wire, delivered, clients, history>>

Serving(i) == pc[i] \notin {"unborn", "bye", "dead"}
Open(i) == pc[i] \notin {"unborn", "dead"}
IsTcp(i) == opened[i] = "tcp"

-----------------------------------------------------------------------------
Init ==
    /\ sendQ = <<>> /\ addQ = <<>> /\ clearQ = <<>> /\ exitQ = <<>>
    /\ stamp = 0
    /\ inited = FALSE
    /\ opened = <<>>
    /\ serverUp \in BOOLEAN
    /\ pc = [i \in LaneIds |-> "unborn"]
    /\ inner = [i \in LaneIds |-> FALSE]
    /\ linked = [i \in LaneIds |-> FALSE]
    /\ held = [i \in LaneIds |-> None]
    /\ filters = [i \in LaneIds |-> {}]
    /\ wire = [i \in LaneIds |-> <<>>]
    /\ delivered = {}
    /\ waiting = {}
    /\ own = [c \in Clients |-> {}]
    /\ sent = [i \in LaneIds |-> {}]
    /\ born = [i \in LaneIds |-> 0]
    /\ asked = {}
    /\ confirmed = [i \in LaneIds |-> {}]
    /\ overtaken = [i \in LaneIds |-> {}]

-----------------------------------------------------------------------------
(* The main loop: SCCOMMLOOP:init, close, send.                            *)

\* Mutant of OpenConnection: the queued sendsc is not deleted.
OpenKeepsSends(kind) ==
    /\ ~inited
    /\ Len(opened) < MaxLanes
    /\ opened' = Append(opened, kind)
    /\ inited' = TRUE
    /\ exitQ' = <<>>
    /\ pc' = [pc EXCEPT ![Len(opened')] = "connect"]
    /\ linked' = [linked EXCEPT ![Len(opened')] = kind = "udp"]
    /\ born' = [born EXCEPT ![Len(opened')] = stamp]
    /\ UNCHANGED <<sendQ, addQ, clearQ, stamp, serverUp, inner, held, filters, wire, delivered,
                    clients, sent, asked, confirmed, overtaken>>

\* init: assert(not self.inited), the queued exits and sendsc are deleted, a lane is made.
\* set(key) with no value empties the key.
OpenConnection(kind) ==
    /\ ~inited
    /\ Len(opened) < MaxLanes
    /\ opened' = Append(opened, kind)
    /\ inited' = TRUE
    /\ exitQ' = <<>>
    /\ sendQ' = <<>>
    /\ pc' = [pc EXCEPT ![Len(opened')] = "connect"]
    /\ linked' = [linked EXCEPT ![Len(opened')] = kind = "udp"]
    /\ born' = [born EXCEPT ![Len(opened')] = stamp]
    /\ UNCHANGED <<addQ, clearQ, stamp, serverUp, inner, held, filters, wire, delivered,
                    clients, sent, asked, confirmed, overtaken>>

\* close: the lane is told to exit and forgotten.
CloseConnection ==
    /\ inited
    /\ stamp < MaxRequests
    /\ stamp' = stamp + 1
    /\ exitQ' = Append(exitQ, stamp')
    /\ inited' = FALSE
    /\ UNCHANGED <<sendQ, addQ, clearQ, opened, serverUp, control, filters, wire, delivered, clients,
                    history>>

\* send: dropped unless a connection is open.
SendSC ==
    /\ inited
    /\ stamp < MaxRequests
    /\ stamp' = stamp + 1
    /\ sendQ' = Append(sendQ, stamp')
    /\ asked' = asked \cup {stamp'}
    /\ UNCHANGED <<addQ, clearQ, exitQ, session, control, filters, wire, delivered, clients, sent,
                    born, confirmed, overtaken>>

\* ThreadServerSend: a script, once started with a server, sends past SCCOMMLOOP.
ThreadServerSend ==
    /\ opened # <<>>
    /\ stamp < MaxRequests
    /\ stamp' = stamp + 1
    /\ sendQ' = Append(sendQ, stamp')
    /\ asked' = asked \cup {stamp'}
    /\ UNCHANGED <<addQ, clearQ, exitQ, session, control, filters, wire, delivered, clients, sent,
                    born, confirmed, overtaken>>

-----------------------------------------------------------------------------
(* The clients: OSCFunc of the script and of the IDE.                      *)

\* newfilter: the request goes out, and with block the caller waits for the answer.
NewFilter(c, p, block) ==
    /\ c \notin waiting
    /\ stamp < MaxRequests
    /\ stamp' = stamp + 1
    /\ addQ' = Append(addQ, [path |-> p, linda |-> c, block |-> block, stamp |-> stamp'])
    /\ own' = [own EXCEPT ![c] = @ \cup {p}]
    /\ waiting' = IF block THEN waiting \cup {c} ELSE waiting
    /\ UNCHANGED <<sendQ, clearQ, exitQ, session, control, filters, wire, delivered, history>>

\* clearfilters, when it empties the client's list for the path.
ClearFilters(c, p) ==
    /\ c \notin waiting
    /\ p \in own[c]
    /\ stamp < MaxRequests
    /\ stamp' = stamp + 1
    /\ clearQ' = Append(clearQ, [path |-> p, linda |-> c, stamp |-> stamp'])
    /\ own' = [own EXCEPT ![c] = @ \ {p}]
    /\ confirmed' = [i \in LaneIds |-> {f \in confirmed[i] : f[1] # p}]
    /\ overtaken' = [i \in LaneIds |-> {f \in overtaken[i] : f[1] # p}]
    /\ UNCHANGED <<sendQ, addQ, exitQ, session, control, filters, wire, delivered, waiting, sent,
                    born, asked>>

-----------------------------------------------------------------------------
(* The server process, outside this program.                               *)

ServerSends(i, m) ==
    /\ serverUp
    /\ Open(i)
    /\ linked[i]
    /\ Len(wire[i]) < MaxWire
    /\ wire' = [wire EXCEPT ![i] = Append(@, m)]
    /\ UNCHANGED <<queues, stamp, session, control, filters, delivered, clients, history>>

\* A datagram may be lost, a TCP segment may not.
DatagramLost(i) ==
    /\ wire[i] # <<>> /\ ~IsTcp(i)
    /\ wire' = [wire EXCEPT ![i] = Tail(@)]
    /\ UNCHANGED <<queues, stamp, session, control, filters, delivered, clients, history>>

ServerStarts ==
    /\ ~serverUp
    /\ serverUp' = TRUE
    /\ UNCHANGED <<queues, stamp, inited, opened, control, filters, wire, delivered, clients,
                    history>>

ServerStops ==
    /\ ServerMayStop
    /\ serverUp
    /\ serverUp' = FALSE
    /\ linked' = [i \in LaneIds |-> linked[i] /\ ~IsTcp(i)]
    /\ UNCHANGED <<queues, stamp, inited, opened, pc, inner, held, filters, wire, delivered, clients,
                    history>>

-----------------------------------------------------------------------------
(* The receive lane.                                                       *)

\* Mutant of Connect: the connect loop retries without calling lindaloop.
ConnectDeaf(i) ==
    /\ pc[i] = "connect"
    /\ IF IsTcp(i) THEN serverUp ELSE wire[i] # <<>>
    /\ pc' = [pc EXCEPT ![i] = "notify"]
    /\ linked' = [linked EXCEPT ![i] = TRUE]
    /\ wire' = IF IsTcp(i) THEN wire ELSE [wire EXCEPT ![i] = Tail(@)]
    /\ UNCHANGED <<queues, stamp, session, inner, held, filters, delivered, clients, history>>

\* The connect loop: a first answer to /status (udp) or an accepted connection (tcp) leads to
\* notify_and_done(1), otherwise the requests are served and the attempt is repeated.
Connect(i) ==
    /\ pc[i] = "connect"
    /\ LET accepted == IF IsTcp(i) THEN serverUp ELSE wire[i] # <<>>
       IN  /\ pc' = [pc EXCEPT ![i] = IF accepted THEN "notify" ELSE "connectPoll"]
           /\ linked' = IF IsTcp(i) /\ accepted THEN [linked EXCEPT ![i] = TRUE] ELSE linked
           /\ wire' = IF accepted /\ ~IsTcp(i) THEN [wire EXCEPT ![i] = Tail(@)] ELSE wire
    /\ UNCHANGED <<queues, stamp, session, inner, held, filters, delivered, clients, history>>

\* After notify_and_done(1) comes the comm loop, after notify_and_done(0) the lane returns.
AfterNotify(i) == IF pc[i] = "notify" THEN "receive" ELSE "dead"

\* notify_and_done gets a message: a failure of /notify is reported and the wait goes on; any
\* other message, whatever it is, is swallowed and ends the wait.
NotifyAnswered(i) ==
    /\ pc[i] \in {"notify", "bye"}
    /\ wire[i] # <<>>
    /\ wire' = [wire EXCEPT ![i] = Tail(@)]
    /\ pc' = [pc EXCEPT ![i] = IF Head(wire[i]) = "/fail /notify" THEN @ ELSE AfterNotify(i)]
    /\ UNCHANGED <<queues, stamp, session, inner, linked, held, filters, delivered, clients, history>>

\* Mutant of NotifyGivesUp: the timeouts are not counted.
NotifyWaits(i) == FALSE

\* notify_and_done over udp gives up after 200 timeouts of 10 ms; over tcp it never does.
NotifyGivesUp(i) ==
    /\ pc[i] \in {"notify", "bye"}
    /\ wire[i] = <<>> /\ ~IsTcp(i)
    /\ pc' = [pc EXCEPT ![i] = AfterNotify(i)]
    /\ UNCHANGED <<queues, stamp, session, inner, linked, held, filters, wire, delivered,
                    clients, history>>

\* The comm loop reads the socket, with a timeout of 10 ms, and then calls lindaloop(0).
Receive(i) ==
    /\ pc[i] = "receive"
    /\ held' = [held EXCEPT ![i] = IF wire[i] # <<>> THEN Head(wire[i])
                                   ELSE IF ~linked[i] THEN Closed ELSE None]
    /\ wire' = [wire EXCEPT ![i] = IF @ # <<>> THEN Tail(@) ELSE @]
    /\ pc' = [pc EXCEPT ![i] = "poll"]
    /\ UNCHANGED <<queues, stamp, session, inner, linked, filters, delivered, clients, history>>

Polling(i) == pc[i] \in {"connectPoll", "poll"}

\* lindaloop has served a request and asks for the next.
Served(i) == inner' = [inner EXCEPT ![i] = TRUE] /\ UNCHANGED <<pc, linked, held>>

\* key "sendsc", first in both receives: the datagram is sent; sendtcp drops it unconnected.
PollSend(i) ==
    /\ Polling(i)
    /\ sendQ # <<>>
    /\ IF IsTcp(i) /\ pc[i] = "connectPoll"
       THEN asked' = asked \ {Head(sendQ)} /\ UNCHANGED sent
       ELSE sent' = [sent EXCEPT ![i] = @ \cup {Head(sendQ)}] /\ UNCHANGED asked
    /\ sendQ' = Tail(sendQ)
    /\ Served(i)
    /\ UNCHANGED <<addQ, clearQ, exitQ, stamp, session, filters, wire, delivered, clients, born,
                    confirmed, overtaken>>

\* Mutant of PollAdd: the linda is taken for the path and the path for the linda.
PollAddSwapped(i) ==
    /\ Polling(i)
    /\ sendQ = <<>> /\ addQ # <<>> /\ (~inner[i] => clearQ = <<>>)
    /\ filters' = [filters EXCEPT ![i] = @ \cup {<<Head(addQ).linda, Head(addQ).path>>}]
    /\ waiting' = waiting \ {Head(addQ).linda}
    /\ addQ' = Tail(addQ)
    /\ Served(i)
    /\ UNCHANGED <<sendQ, clearQ, exitQ, stamp, session, wire, delivered, own, history>>

\* key "addFilter": after clearFilter in the outer receive, before it in the inner one, so that
\* the answer may go out before a request to clear the path that was sent earlier is served.
PollAdd(i) ==
    /\ Polling(i)
    /\ sendQ = <<>> /\ addQ # <<>> /\ (~inner[i] => clearQ = <<>>)
    /\ LET req == Head(addQ)
           f == <<req.path, req.linda>>
           clears == {k \in DOMAIN clearQ : clearQ[k].path = req.path}
           confirms == req.block /\ \A k \in clears : clearQ[k].stamp < req.stamp
       IN  /\ filters' = [filters EXCEPT ![i] = @ \cup {f}]
           /\ waiting' = IF req.block THEN waiting \ {req.linda} ELSE waiting
           /\ confirmed' = IF confirms THEN [confirmed EXCEPT ![i] = @ \cup {f}] ELSE confirmed
           /\ overtaken' = IF clears = {} THEN [overtaken EXCEPT ![i] = @ \ {f}]
                           ELSE IF confirms THEN [overtaken EXCEPT ![i] = @ \cup {f}]
                           ELSE overtaken
    /\ addQ' = Tail(addQ)
    /\ Served(i)
    /\ UNCHANGED <<sendQ, clearQ, exitQ, stamp, session, wire, delivered, own, sent,
                    born, asked>>

\* key "clearFilter": #Filters[path] of a table whose keys are lindas is 0, so Filters[path]
\* is dropped, with the registrations of all lindas.
PollClear(i) ==
    /\ Polling(i)
    /\ sendQ = <<>> /\ clearQ # <<>> /\ (inner[i] => addQ = <<>>)
    /\ filters' = [filters EXCEPT ![i] = {f \in @ : f[1] # Head(clearQ).path}]
    /\ clearQ' = Tail(clearQ)
    /\ Served(i)
    /\ UNCHANGED <<sendQ, addQ, exitQ, stamp, session, wire, delivered, clients, history>>

\* The lane's locals are of no use any more.
Forget(i) ==
    /\ held' = [held EXCEPT ![i] = None]
    /\ filters' = [filters EXCEPT ![i] = {}]
    /\ confirmed' = [confirmed EXCEPT ![i] = {}]
    /\ overtaken' = [overtaken EXCEPT ![i] = {}]

\* Mutant of PollExit: the key exit comes first in the receives.
PollExitFirst(i) ==
    /\ Polling(i)
    /\ exitQ # <<>>
    /\ exitQ' = Tail(exitQ)
    /\ inner' = [inner EXCEPT ![i] = FALSE]
    /\ Forget(i)
    /\ pc' = [pc EXCEPT ![i] = IF @ = "connectPoll" THEN "dead" ELSE "bye"]
    /\ UNCHANGED <<sendQ, addQ, clearQ, stamp, session, linked, wire, delivered, clients, sent,
                    born, asked>>

\* key "exit", last in both receives: the connect loop returns, the comm loop says goodbye
\* with notify_and_done(0); a datagram already received is dropped.
PollExit(i) ==
    /\ Polling(i)
    /\ sendQ = <<>> /\ addQ = <<>> /\ clearQ = <<>> /\ exitQ # <<>>
    /\ exitQ' = Tail(exitQ)
    /\ inner' = [inner EXCEPT ![i] = FALSE]
    /\ Forget(i)
    /\ pc' = [pc EXCEPT ![i] = IF @ = "connectPoll" THEN "dead" ELSE "bye"]
    /\ UNCHANGED <<sendQ, addQ, clearQ, stamp, session, linked, wire, delivered, clients, sent,
                    born, asked>>

\* No request within the timeout: lindaloop returns nil.
PollEmpty(i) ==
    /\ Polling(i)
    /\ sendQ = <<>> /\ addQ = <<>> /\ clearQ = <<>> /\ exitQ = <<>>
    /\ inner' = [inner EXCEPT ![i] = FALSE]
    /\ pc' = [pc EXCEPT ![i] = IF @ = "connectPoll" THEN "connect" ELSE "route"]
    /\ UNCHANGED <<queues, stamp, session, linked, held, filters, wire, delivered, clients,
                    history>>

\* Mutant of Destinations: the catch-all filter is tested before the address.
DestinationsAllFirst(i, m) ==
    LET Registered(p) == {f[2] : f \in {g \in filters[i] : g[1] = p}}
    IN  CASE m \in {"/metronom", "/fail"} -> {"script"}
          [] m = "/vumeter" -> {"scriptgui"}
          [] m = "/status.reply" -> {"idle"}
          [] OTHER -> IF Registered(ALL) # {} THEN Registered(ALL) ELSE Registered(m)

\* Where a message goes: four addresses have a fixed destination whatever the filters say, the
\* others go to the lindas registered for the address or else for ALL.
Destinations(i, m) ==
    LET Registered(p) == {f[2] : f \in {g \in filters[i] : g[1] = p}}
    IN  CASE m \in {"/metronom", "/fail"} -> {"script"}
          [] m = "/vumeter" -> {"scriptgui"}
          [] m = "/status.reply" -> {"idle"}
          [] OTHER -> IF Registered(m) # {} THEN Registered(m) ELSE Registered(ALL)

\* The address under which it arrives: a message for the catch-all filter is renamed.
Delivered(i, m) ==
    IF m \in Fixed \/ \E f \in filters[i] : f[1] = m THEN m ELSE ALL

Route(i) ==
    /\ pc[i] = "route"
    /\ delivered' = IF held[i] \in Msg
                    THEN {Delivered(i, held[i])} \X Destinations(i, held[i])
                    ELSE {}
    /\ IF held[i] = Closed
       THEN pc' = [pc EXCEPT ![i] = "dead"] /\ Forget(i)
       ELSE /\ pc' = [pc EXCEPT ![i] = "receive"]
            /\ held' = [held EXCEPT ![i] = None]
            /\ UNCHANGED <<filters, confirmed, overtaken>>
    /\ UNCHANGED <<queues, stamp, session, inner, linked, wire, clients, sent,
                    born, asked>>

LaneStep(i) ==
    \/ Connect(i)
    \/ NotifyAnswered(i)
    \/ NotifyGivesUp(i)
    \/ Receive(i)
    \/ PollSend(i)
    \/ PollAdd(i)
    \/ PollClear(i)
    \/ PollExit(i)
    \/ PollEmpty(i)
    \/ Route(i)

Next ==
    \/ \E kind \in Kinds : OpenConnection(kind)
    \/ CloseConnection
    \/ SendSC
    \/ ThreadServerSend
    \/ \E c \in Clients, p \in Paths : \/ \E block \in BOOLEAN : NewFilter(c, p, block)
                                       \/ ClearFilters(c, p)
    \/ \E i \in LaneIds : \/ \E m \in Replies : ServerSends(i, m)
                          \/ DatagramLost(i)
                          \/ LaneStep(i)
    \/ ServerStarts
    \/ ServerStops

\* A lane is a thread that keeps running.  For a tcp lane the server is started in the end, and
\* answers /notify; a udp lane may be left without an answer.
ServerAnswers(i) ==
    /\ pc[i] \in {"notify", "bye"} /\ IsTcp(i)
    /\ \E m \in Replies \ {"/fail /notify"} : ServerSends(i, m)

Fairness ==
    /\ \A i \in LaneIds : WF_vars(LaneStep(i))
    /\ WF_vars(ServerStarts /\ \E i \in DOMAIN opened : IsTcp(i))
    /\ \A i \in LaneIds : WF_vars(ServerAnswers(i))

Spec == Init /\ [][Next]_vars
FairSpec == Spec /\ Fairness

-----------------------------------------------------------------------------
Request == 1..MaxRequests

\* The shape of the state.
TypeOK ==
    /\ sendQ \in Seq(Request) /\ exitQ \in Seq(Request)
    /\ addQ \in Seq([path : Paths, linda : Clients, block : BOOLEAN, stamp : Request])
    /\ clearQ \in Seq([path : Paths, linda : Clients, stamp : Request])
    /\ stamp \in 0..MaxRequests
    /\ inited \in BOOLEAN /\ serverUp \in BOOLEAN
    /\ opened \in Seq(Kinds) /\ Len(opened) <= MaxLanes
    /\ pc \in [LaneIds -> {"unborn", "connect", "notify", "receive", "connectPoll", "poll", "route", "bye", "dead"}]
    /\ inner \in [LaneIds -> BOOLEAN]
    /\ linked \in [LaneIds -> BOOLEAN]
    /\ held \in [LaneIds -> Msg \cup {None, Closed}]
    /\ filters \in [LaneIds -> SUBSET (Paths \X Clients)]
    /\ wire \in [LaneIds -> Seq(Msg)]
    /\ delivered \subseteq (Msg \cup {ALL}) \X Lindas
    /\ waiting \subseteq Clients
    /\ own \in [Clients -> SUBSET Paths]
    /\ sent \in [LaneIds -> SUBSET Request]
    /\ born \in [LaneIds -> 0..MaxRequests]
    /\ asked \subseteq Request
    /\ {confirmed, overtaken} \subseteq [LaneIds -> SUBSET (Paths \X Clients)]

\* close() is orderly (bootsc.lua:66-68, scudp.lua:91, :110, :224): when a lane takes an exit,
\* every datagram handed over since the last connection was opened and before that close, the
\* /quit of the user for one, has been sent, by this lane or by one that is left from before.
SentBeforeExit ==
    [][\A i \in LaneIds : Polling(i) /\ pc'[i] \in {"bye", "dead"} =>
          \A r \in asked : born[Len(opened)] < r /\ r < Head(exitQ) =>
             \E j \in LaneIds : r \in sent[j]]_vars

\* A connection never sends a datagram that was meant for an earlier one (scudp.lua:224).
SessionIsolation ==
    \A i \in LaneIds : \A r \in sent[i] : r > born[i]

\* The registration a message concerns: the one for its address, or the catch-all one when the
\* address has none.
Concerns(i, m, f) ==
    \/ m = f[1]
    \/ f[1] = ALL /\ \A g \in filters[i] : g[1] # m

\* A client whose blocking newfilter has returned is delivered the messages of the path by the
\* lane that answered it, whatever is registered and cleared before it asked, until somebody asks
\* to clear the path after that (scudp.lua:93-103, :168-176). Left out is the client that was
\* answered while an older request to clear the path still waited: see AnsweredIsRegistered.
ConfirmedIsDelivered ==
    [][\A i \in LaneIds : pc[i] = "route" /\ pc'[i] # "route" /\ held[i] \in Msg \ Fixed =>
          \A f \in confirmed[i] \ overtaken[i] : Concerns(i, held[i], f) => f \in delivered']_vars

\* After a blocking newfilter ("for block", scudp.lua:96) Buffer:query asks the server and waits for
\* the reply without a timeout ("wait", Buffer.lua:92-95): the filter it was told of is there until
\* somebody asks to clear the path after that.
AnsweredIsRegistered == \A i \in LaneIds : confirmed[i] \subseteq filters[i]

\* A blocked newfilter returns (oscfunc.lua:9-12) if the connection, once opened, stays open.
BlockedReturns ==
    <>[]inited => \A c \in Clients : (c \in waiting) ~> (c \notin waiting)

\* A lane that was told to exit ends: the goodbye does not keep it (scudp.lua:59-87, :142).
LaneEnds == \A i \in LaneIds : (pc[i] = "bye") ~> (pc[i] = "dead")

\* assert(SCUDP.tcp==nil,"tcp not closed") (scudp.lua:207): when a connection is opened the
\* one before it is closed, so that at most one lane serves udpsclinda.
OneLaneServes == \A i, j \in LaneIds : Serving(i) /\ Serving(j) => i = j
=============================================================================
