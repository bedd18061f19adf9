-------------------------------- MODULE UdpMux --------------------------------
(***************************************************************************)
(* SocketReceiveMultiplexer of the bundled oscpack, in its posix and its   *)
(* win32 form: one thread waits for datagrams, timers and a call to stop,  *)
(* and calls the listeners. On posix it waits with select, which tells of  *)
(* all descriptors that have something; on win32 for events, of which the  *)
(* first that is set is reset, and of which one for a socket is set again  *)
(* only after the socket has been read.                                    *)
(***************************************************************************)
EXTENDS Integers, Sequences, Functions

CONSTANTS
    Sockets, Timers,
    Delay, Period,      \* of each timer
    MaxQueue,           \* bound: datagrams waiting at a socket
    MaxTime,            \* bound of the clock
    MaxBreaks           \* bound: calls of AsynchronousBreak

ASSUME MuxAssumption ==
    /\ MaxQueue \in Nat /\ MaxTime \in Nat /\ MaxBreaks \in Nat
    /\ Delay \in [Timers -> Nat] /\ Period \in [Timers -> Nat \ {0}]

VARIABLES
    platform,           \* "posix" or "win32"
    socketListeners_, timerListeners_,      \* attached, in order
    break_,
    wakeup,             \* bytes in breakPipe_, or breakEvent_
    waiting,            \* of each socket: datagrams that nobody has read
    event, armed,       \* win32, of each socket: its event; whether a datagram sets it
    pc, index,          \* where Run is, and in its loops
    ready,              \* sockets to read: tempfds, or those from waitResult on
    timerQueue_,        \* <<when it expires, timer>>
    deadline,           \* when the wait ends
    now, currentTimeMs,
    breaker, breaks,    \* a thread that calls AsynchronousBreak
    served              \* timers called since currentTimeMs was read

muxvars == <<platform, socketListeners_, timerListeners_, break_, wakeup, waiting, event, armed, pc, index, ready,
             timerQueue_, deadline, now, currentTimeMs, breaker, breaks, served>>
attached == <<platform, socketListeners_, timerListeners_>>
network == <<waiting, event, armed>>
clock == <<now, currentTimeMs>>
outside == <<breaker, breaks>>

Never == MaxTime + 1000
Windows == platform = "win32"

CompareScheduledTimerCalls(a, b) == a[1] < b[1]

\* What std::sort may make of the timers: the order of those that expire together is its own.
Sortings(q) ==
    {r \in [DOMAIN q -> Range(q)] :
        /\ Range(r) = Range(q)
        /\ \A i, j \in DOMAIN q : i < j => ~CompareScheduledTimerCalls(r[j], r[i])}

\* std::find and erase: what is behind moves one place forward.
Without(list, x) ==
    LET place == CHOOSE i \in DOMAIN list : list[i] = x
    IN  [k \in 1..(Len(list) - 1) |-> IF k < place THEN list[k] ELSE list[k + 1]]

------------------------------------------------------------------------------
(* Before Run *)

AttachSocketListener(s) ==
    /\ pc = "idle" /\ s \notin Range(socketListeners_)
    /\ socketListeners_' = Append(socketListeners_, s)
    /\ UNCHANGED <<platform, timerListeners_, break_, wakeup, network, pc, index, ready, timerQueue_, deadline,
                   clock, outside, served>>

DetachSocketListener(s) ==
    /\ pc = "idle" /\ s \in Range(socketListeners_)
    /\ socketListeners_' = Without(socketListeners_, s)
    /\ UNCHANGED <<platform, timerListeners_, break_, wakeup, network, pc, index, ready, timerQueue_, deadline,
                   clock, outside, served>>

AttachPeriodicTimerListener(t) ==
    /\ pc = "idle" /\ t \notin Range(timerListeners_)
    /\ timerListeners_' = Append(timerListeners_, t)
    /\ UNCHANGED <<platform, socketListeners_, break_, wakeup, network, pc, index, ready, timerQueue_, deadline,
                   clock, outside, served>>

DetachPeriodicTimerListener(t) ==
    /\ pc = "idle" /\ t \in Range(timerListeners_)
    /\ timerListeners_' = Without(timerListeners_, t)
    /\ UNCHANGED <<platform, socketListeners_, break_, wakeup, network, pc, index, ready, timerQueue_, deadline,
                   clock, outside, served>>

------------------------------------------------------------------------------
(* Run *)

RunBegins ==
    /\ pc = "idle" /\ pc' = "loop"
    /\ break_' = FALSE
    /\ timerQueue_' \in Sortings([i \in DOMAIN timerListeners_ |->
                                    <<now + Delay[timerListeners_[i]], timerListeners_[i]>>])
    /\ currentTimeMs' = now
    \* WSAEventSelect sets the event of a socket that has a datagram already.
    /\ event' = [s \in Sockets |-> Windows /\ s \in Range(socketListeners_) /\ waiting[s] > 0]
    /\ armed' = [s \in Sockets |-> Windows /\ s \in Range(socketListeners_) /\ waiting[s] = 0]
    /\ served' = Timers
    /\ UNCHANGED <<attached, wakeup, waiting, index, ready, deadline, now, outside>>

Run_Ends ==
    /\ pc' = "idle"
    /\ event' = [s \in Sockets |-> FALSE] /\ armed' = [s \in Sockets |-> FALSE]
    /\ timerQueue_' = <<>> /\ ready' = {}

\* while( !break_ ), and the timeout
Loop ==
    /\ pc = "loop"
    /\ IF break_ THEN Run_Ends /\ UNCHANGED deadline
       ELSE /\ pc' = "wait"
            /\ deadline' = IF timerQueue_ = <<>> THEN Never ELSE Head(timerQueue_)[1]
            /\ UNCHANGED <<event, armed, timerQueue_, ready>>
    /\ UNCHANGED <<attached, break_, wakeup, waiting, index, clock, outside, served>>

\* What follows the wait: break_ is looked at, then the sockets are read from index i on.
Woken(i, socks) ==
    IF break_ THEN Run_Ends /\ UNCHANGED index
    ELSE /\ pc' = "packets" /\ index' = i /\ ready' = socks
         /\ UNCHANGED <<event, armed, timerQueue_>>

SelectReturns ==
    /\ pc = "wait" /\ ~Windows
    /\ LET socks == {s \in Range(socketListeners_) : waiting[s] > 0}
       IN  /\ socks # {} \/ wakeup > 0 \/ now >= deadline
           /\ wakeup' = IF wakeup > 0 THEN wakeup - 1 ELSE wakeup       \* read( breakPipe_[0] )
           /\ Woken(1, socks)
    /\ UNCHANGED <<attached, break_, waiting, deadline, clock, outside, served>>

\* select fails with EINTR: the handler of SIGINT has called AsynchronousBreak, or it was another signal.
Interrupted(sigint) ==
    /\ pc = "wait" /\ ~Windows
    /\ IF sigint
       THEN /\ breaks < MaxBreaks /\ breaks' = breaks + 1
            /\ break_' = TRUE /\ wakeup' = wakeup + 1
       ELSE UNCHANGED <<breaks, break_, wakeup>>
    /\ IF sigint \/ break_ THEN Run_Ends ELSE pc' = "loop" /\ UNCHANGED <<event, armed, timerQueue_, ready>>
    /\ UNCHANGED <<attached, waiting, index, deadline, clock, breaker, served>>

\* WaitForMultipleObjects: the events of the sockets come before breakEvent_.
WaitReturns ==
    /\ pc = "wait" /\ Windows
    /\ LET n == Len(socketListeners_)
           set == {i \in 1..n : event[socketListeners_[i]]}
       IN  \/ \E first \in set :
                 /\ \A i \in set : first <= i
                 /\ IF break_ THEN Run_Ends /\ UNCHANGED index
                    ELSE /\ event' = [event EXCEPT ![socketListeners_[first]] = FALSE]
                         /\ pc' = "packets" /\ index' = first /\ ready' = Range(socketListeners_)
                         /\ UNCHANGED <<armed, timerQueue_>>
                 /\ UNCHANGED wakeup
           \/ /\ set = {} /\ (wakeup > 0 \/ now >= deadline)
              /\ wakeup' = 0
              /\ Woken(n + 1, {})
    /\ UNCHANGED <<attached, break_, waiting, deadline, clock, outside, served>>

\* The called listener may call Break.
Listener(calls) == break_' = (break_ \/ calls)

ToTimers ==
    /\ pc' = "timers" /\ index' = 1 /\ currentTimeMs' = now /\ served' = {}

\* ReceiveFrom and ProcessPacket for one socket; win32 sets the event again if the socket has more.
Packet(calls) ==
    /\ pc = "packets" /\ index <= Len(socketListeners_)
    /\ LET s == socketListeners_[index]
       IN  IF s \in ready /\ waiting[s] > 0
           THEN /\ waiting' = [waiting EXCEPT ![s] = @ - 1]
                /\ event' = [event EXCEPT ![s] = @ \/ (Windows /\ waiting[s] > 1)]
                /\ armed' = [armed EXCEPT ![s] = Windows /\ waiting[s] = 1]
                /\ Listener(calls)
                /\ IF break_' THEN ToTimers
                   ELSE index' = index + 1 /\ UNCHANGED <<pc, currentTimeMs, served>>
           ELSE index' = index + 1 /\ ~calls /\ UNCHANGED <<network, break_, pc, currentTimeMs, served>>
    /\ UNCHANGED <<attached, wakeup, ready, timerQueue_, deadline, now, outside>>

PacketsEnd ==
    /\ pc = "packets" /\ index > Len(socketListeners_)
    /\ ToTimers
    /\ UNCHANGED <<attached, break_, wakeup, network, ready, timerQueue_, deadline, now, outside>>

Advanced(i) == [timerQueue_ EXCEPT ![i][1] = @ + Period[timerQueue_[i][2]]]

Expired == index <= Len(timerQueue_) /\ timerQueue_[index][1] <= currentTimeMs

TimerExpired(calls) ==
    /\ pc = "timers" /\ Expired
    /\ served' = served \cup {timerQueue_[index][2]}
    /\ Listener(calls)
    /\ IF break_' THEN pc' = "timersend" /\ UNCHANGED <<index, timerQueue_>>
       ELSE timerQueue_' = Advanced(index) /\ index' = index + 1 /\ UNCHANGED pc
    /\ UNCHANGED <<attached, wakeup, network, ready, deadline, clock, outside>>

TimersEnd ==
    /\ pc = "timersend" \/ (pc = "timers" /\ ~Expired)
    /\ IF index > 1 THEN timerQueue_' \in Sortings(timerQueue_) ELSE UNCHANGED timerQueue_     \* resort
    /\ pc' = "loop"
    /\ UNCHANGED <<attached, break_, wakeup, network, index, ready, deadline, clock, outside, served>>

------------------------------------------------------------------------------
(* Around Run *)

\* break_ is set, and in a second step the wait is ended.
BreakSignalsFirst ==
    \/ /\ breaker = "idle" /\ breaks < MaxBreaks
       /\ breaker' = "between" /\ breaks' = breaks + 1
       /\ wakeup' = (IF Windows THEN 1 ELSE wakeup + 1) /\ UNCHANGED break_
    \/ breaker = "between" /\ breaker' = "idle" /\ break_' = TRUE /\ UNCHANGED <<wakeup, breaks>>

BreakSteps ==
    \/ /\ breaker = "idle" /\ breaks < MaxBreaks
       /\ breaker' = "between" /\ breaks' = breaks + 1
       /\ break_' = TRUE /\ UNCHANGED wakeup
    \/ /\ breaker = "between" /\ breaker' = "idle"
       /\ wakeup' = (IF Windows THEN 1 ELSE wakeup + 1) /\ UNCHANGED <<break_, breaks>>

AsynchronousBreak ==
    /\ BreakSteps
    /\ UNCHANGED <<attached, network, pc, index, ready, timerQueue_, deadline, clock, served>>

Datagram(s) ==
    /\ waiting[s] < MaxQueue
    /\ waiting' = [waiting EXCEPT ![s] = @ + 1]
    /\ event' = [event EXCEPT ![s] = @ \/ armed[s]]
    /\ armed' = [armed EXCEPT ![s] = FALSE]
    /\ UNCHANGED <<attached, break_, wakeup, pc, index, ready, timerQueue_, deadline, clock, outside, served>>

Tick ==
    /\ now < MaxTime /\ now' = now + 1
    /\ UNCHANGED <<attached, break_, wakeup, network, pc, index, ready, timerQueue_, deadline, currentTimeMs,
                   outside, served>>

MuxInit ==
    /\ platform \in {"posix", "win32"}
    /\ socketListeners_ = <<>> /\ timerListeners_ = <<>>
    /\ break_ = FALSE /\ wakeup = 0
    /\ waiting = [s \in Sockets |-> 0]
    /\ event = [s \in Sockets |-> FALSE] /\ armed = [s \in Sockets |-> FALSE]
    /\ pc = "idle" /\ index = 1 /\ ready = {} /\ timerQueue_ = <<>> /\ deadline = Never
    /\ now = 0 /\ currentTimeMs = 0
    /\ breaker = "idle" /\ breaks = 0 /\ served = Timers

MuxNext ==
    \/ \E s \in Sockets : AttachSocketListener(s) \/ DetachSocketListener(s) \/ Datagram(s)
    \/ \E t \in Timers : AttachPeriodicTimerListener(t) \/ DetachPeriodicTimerListener(t)
    \/ RunBegins \/ Loop \/ SelectReturns \/ WaitReturns
    \/ \E b \in BOOLEAN : Interrupted(b) \/ Packet(b) \/ TimerExpired(b)
    \/ PacketsEnd \/ TimersEnd
    \/ AsynchronousBreak \/ Tick

MuxSpec == MuxInit /\ [][MuxNext]_muxvars

------------------------------------------------------------------------------
(* Properties *)

MuxTypeOK ==
    /\ platform \in {"posix", "win32"} /\ pc \in {"idle", "loop", "wait", "packets", "timers", "timersend"}
    /\ break_ \in BOOLEAN /\ wakeup \in 0..MaxBreaks /\ breaks \in 0..MaxBreaks
    /\ waiting \in [Sockets -> 0..MaxQueue]
    /\ event \in [Sockets -> BOOLEAN] /\ armed \in [Sockets -> BOOLEAN]
    /\ IsInjective(socketListeners_) /\ IsInjective(timerListeners_)
    /\ pc # "idle" => {e[2] : e \in Range(timerQueue_)} = Range(timerListeners_)
    /\ ready \subseteq Sockets /\ index \in Nat \ {0}

\* A thread that has called AsynchronousBreak while Run was on has ended it or has woken it up:
\* Run never waits with break_ set and nothing to end the wait.
NoLostBreak == pc = "wait" /\ break_ /\ breaker = "idle" => wakeup > 0

\* The wait ends when the earliest timer expires.
WaitsForEarliest == pc = "wait" => \A e \in Range(timerQueue_) : deadline <= e[1]

\* Unless Run is to end, each timer that has expired when the timers are looked at is called then,
\* once, whichever were called before it.
TimersServed == pc = "loop" /\ ~break_ => \A e \in Range(timerQueue_) : e[1] > currentTimeMs \/ e[2] \in served

\* On win32 Run does not wait with a datagram at a socket of which no event tells it.
NoUnseenDatagram ==
    pc = "wait" /\ Windows => \A s \in Range(socketListeners_) : waiting[s] > 0 => event[s]

\* The multiplexer: a break from another thread is not lost wherever it comes, the wait ends by the
\* earliest timer, no timer due is passed over, no datagram stays unseen (UdpSocket.cpp, both forms).
SocketsSound == MuxTypeOK /\ NoLostBreak /\ WaitsForEarliest /\ TimersServed /\ NoUnseenDatagram
=============================================================================
