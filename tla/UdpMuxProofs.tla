----------------------------- MODULE UdpMuxProofs -----------------------------
(***************************************************************************)
(* Theorems about the multiplexer, for any sockets, timers, delays and     *)
(* periods, in both forms. A break is counted until its byte is read; of   *)
(* the timers those before index have been called and those from it on are *)
(* in order; and on win32 the next datagram of a socket sets its event, or *)
(* the event is set, or the socket is the one that Run reads next.         *)
(***************************************************************************)
EXTENDS UdpMux, TLAPS

Entry == Nat \X Timers
Running == pc # "idle"
Ordered(q, first) == \A i, j \in DOMAIN q : first <= i /\ i < j => q[i][1] <= q[j][1]
TimersOf(q) == {e[2] : e \in Range(q)}

MuxTyped ==
    /\ platform \in {"posix", "win32"} /\ pc \in {"idle", "loop", "wait", "packets", "timers", "timersend"}
    /\ break_ \in BOOLEAN /\ breaker \in {"idle", "between"}
    /\ waiting \in [Sockets -> 0..MaxQueue]
    /\ event \in [Sockets -> BOOLEAN] /\ armed \in [Sockets -> BOOLEAN]
    /\ socketListeners_ \in Seq(Sockets) /\ timerListeners_ \in Seq(Timers)
    /\ ready \subseteq Sockets /\ index \in Nat \ {0} /\ served \subseteq Timers
    /\ now \in Nat /\ currentTimeMs \in Nat
    /\ timerQueue_ \in Seq(Entry)

\* A byte in the pipe is of a call of AsynchronousBreak, of one that has been made whole.
BreaksCounted ==
    /\ wakeup \in Nat /\ breaks \in 0..MaxBreaks
    /\ wakeup <= breaks /\ (breaker = "between" => wakeup + 1 <= breaks)
    /\ NoLostBreak

Attached ==
    /\ IsInjective(socketListeners_) /\ IsInjective(timerListeners_)
    /\ Running => TimersOf(timerQueue_) = Range(timerListeners_)

InOrder ==
    /\ pc \in {"loop", "wait", "packets"} => Ordered(timerQueue_, 1)
    /\ pc \in {"timers", "timersend"} => Ordered(timerQueue_, index)
    /\ WaitsForEarliest

TimersCalled ==
    /\ pc \in {"loop", "wait"} /\ ~break_ =>
          \A e \in Range(timerQueue_) : e[1] > currentTimeMs \/ e[2] \in served
    /\ pc = "timers" => \A i \in DOMAIN timerQueue_ : i < index => timerQueue_[i][2] \in served
    /\ pc = "timersend" => break_

NoticedOrNext ==
    Running /\ Windows => \A s \in Range(socketListeners_) :
        IF waiting[s] = 0 THEN armed[s]
        ELSE \/ event[s]
             \/ /\ pc = "packets" /\ s \in ready
                /\ index <= Len(socketListeners_) /\ socketListeners_[index] = s

MuxInv == MuxTyped /\ BreaksCounted /\ Attached /\ InOrder /\ TimersCalled /\ NoticedOrNext

------------------------------------------------------------------------------
(* The lists *)

\* What std::sort makes of the timers is the same timers, by the time they expire (timerQueue_).
LEMMA SortingsAreSorted ==
    ASSUME NEW q \in Seq(Entry), NEW r \in Sortings(q)
    PROVE  r \in Seq(Entry) /\ Range(r) = Range(q) /\ Ordered(r, 1)
<1>1. Range(q) \subseteq Entry
    BY DEF Range
<1>2. r \in [1..Len(q) -> Entry] /\ Len(q) \in Nat /\ DOMAIN q = 1..Len(q)
    BY <1>1 DEF Sortings
<1>3. r \in Seq(Entry)
    BY <1>2
<1>4. ASSUME NEW i \in DOMAIN r, NEW j \in DOMAIN r, i < j
      PROVE  r[i][1] <= r[j][1]
    <2>1. ~(r[j][1] < r[i][1])
        BY <1>2, <1>4 DEF Sortings, CompareScheduledTimerCalls
    <2>2. r[i][1] \in Nat /\ r[j][1] \in Nat
        BY <1>2, <1>4 DEF Entry
    <2> QED BY <2>1, <2>2
<1> QED BY <1>3, <1>4 DEF Sortings, Ordered

\* find and erase leave the others, each once (DetachSocketListener, DetachPeriodicTimerListener).
LEMMA WithoutOne ==
    ASSUME NEW S, NEW list \in Seq(S), IsInjective(list), NEW x \in Range(list)
    PROVE  Without(list, x) \in Seq(S) /\ IsInjective(Without(list, x))
<1> DEFINE place == CHOOSE i \in DOMAIN list : list[i] = x
           rest == [k \in 1..(Len(list) - 1) |-> IF k < place THEN list[k] ELSE list[k + 1]]
<1>1. place \in 1..Len(list) /\ Len(list) \in Nat
    BY DEF Range
<1>2. rest = Without(list, x)
    BY DEF Without
<1> HIDE DEF place
<1>3. \A k \in 1..(Len(list) - 1) : rest[k] \in S
    BY <1>1
<1>4. rest \in Seq(S)
    BY <1>1, <1>3
<1>5. IsInjective(rest)
    BY <1>1 DEF IsInjective
<1> QED BY <1>2, <1>4, <1>5

\* A timer that has been called expires a period later; the others stay (Run).
LEMMA AdvancedOne ==
    ASSUME MuxAssumption, timerQueue_ \in Seq(Entry), NEW i \in DOMAIN timerQueue_
    PROVE  /\ Advanced(i) \in Seq(Entry) /\ DOMAIN Advanced(i) = DOMAIN timerQueue_
           /\ TimersOf(Advanced(i)) = TimersOf(timerQueue_)
           /\ \A j \in DOMAIN timerQueue_ : Advanced(i)[j][2] = timerQueue_[j][2]
           /\ \A j \in DOMAIN timerQueue_ \ {i} : Advanced(i)[j] = timerQueue_[j]
<1> DEFINE e == timerQueue_[i]
           later == [e EXCEPT ![1] = @ + Period[e[2]]]
<1>1. e \in Entry
    OBVIOUS
<1>2. later \in Entry /\ later[2] = e[2]
    <2>1. PICK a \in Nat, t \in Timers : e = <<a, t>>
        BY <1>1 DEF Entry
    <2>2. Period[t] \in Nat
        BY DEF MuxAssumption
    <2>3. later = <<a + Period[t], t>>
        BY <2>1
    <2> QED BY <2>1, <2>2, <2>3 DEF Entry
<1>3. Advanced(i) = [timerQueue_ EXCEPT ![i] = later]
    BY DEF Advanced
<1> HIDE DEF later
<1>4. Advanced(i) \in Seq(Entry) /\ DOMAIN Advanced(i) = DOMAIN timerQueue_
    BY <1>2, <1>3
<1>5. \A j \in DOMAIN timerQueue_ : Advanced(i)[j][2] = timerQueue_[j][2]
    BY <1>2, <1>3
<1>6. \A j \in DOMAIN timerQueue_ \ {i} : Advanced(i)[j] = timerQueue_[j]
    BY <1>3
<1>7. TimersOf(Advanced(i)) = TimersOf(timerQueue_)
    <2>1. TimersOf(Advanced(i)) = {Advanced(i)[j][2] : j \in DOMAIN Advanced(i)}
        BY DEF TimersOf, Range
    <2>2. TimersOf(timerQueue_) = {timerQueue_[j][2] : j \in DOMAIN timerQueue_}
        BY DEF TimersOf, Range
    <2>3. {Advanced(i)[j][2] : j \in DOMAIN Advanced(i)} = {timerQueue_[j][2] : j \in DOMAIN timerQueue_}
        BY <1>4, <1>5
    <2> QED BY <2>1, <2>2, <2>3
<1> QED BY <1>4, <1>5, <1>6, <1>7

\* Run begins with an entry for each timer that is attached.
LEMMA TimersQueued ==
    ASSUME MuxAssumption, timerListeners_ \in Seq(Timers), now \in Nat, NEW q,
           q = [i \in DOMAIN timerListeners_ |-> <<now + Delay[timerListeners_[i]], timerListeners_[i]>>]
    PROVE  q \in Seq(Entry) /\ TimersOf(q) = Range(timerListeners_)
<1>1. DOMAIN q = 1..Len(timerListeners_) /\ Len(timerListeners_) \in Nat
    OBVIOUS
<1>2. \A i \in DOMAIN timerListeners_ : q[i] \in Entry /\ q[i][2] = timerListeners_[i]
    BY DEF MuxAssumption, Entry
<1>3. q \in [1..Len(timerListeners_) -> Entry]
    BY <1>1, <1>2
<1>4. q \in Seq(Entry)
    BY <1>1, <1>3
<1>5. TimersOf(q) = {q[i][2] : i \in DOMAIN timerListeners_}
    BY DEF TimersOf, Range
<1>6. {q[i][2] : i \in DOMAIN timerListeners_} = Range(timerListeners_)
    BY <1>2 DEF Range
<1> QED BY <1>4, <1>5, <1>6

\* The timers are sorted again only if one was advanced; if not, they are in order (Run: resort).
LEMMA EndSorts ==
    ASSUME timerQueue_ \in Seq(Entry), index \in Nat \ {0}, TimersEnd
    PROVE  /\ timerQueue_' \in Seq(Entry) /\ Range(timerQueue_') = Range(timerQueue_)
           /\ Ordered(timerQueue_, index) => Ordered(timerQueue_', 1)
<1>1. CASE index > 1
    BY <1>1, SortingsAreSorted DEF TimersEnd
<1>2. CASE ~(index > 1)
    <2>1. index = 1 /\ timerQueue_' = timerQueue_
        BY <1>2 DEF TimersEnd
    <2> QED BY <2>1
<1> QED BY <1>1, <1>2

------------------------------------------------------------------------------
(* The first state *)

LEMMA MuxBegins == ASSUME MuxAssumption, MuxInit PROVE MuxInv
<1> USE DEF MuxInit
<1>1. MuxTyped
    <2>1. waiting \in [Sockets -> 0..MaxQueue]
        BY DEF MuxAssumption
    <2>2. socketListeners_ \in Seq(Sockets) /\ timerListeners_ \in Seq(Timers) /\ timerQueue_ \in Seq(Entry)
        OBVIOUS
    <2>3. event \in [Sockets -> BOOLEAN] /\ armed \in [Sockets -> BOOLEAN]
        OBVIOUS
    <2>4. break_ \in BOOLEAN /\ breaker \in {"idle", "between"} /\ platform \in {"posix", "win32"}
        OBVIOUS
    <2>5. ready \subseteq Sockets /\ served \subseteq Timers
        OBVIOUS
    <2>6. pc \in {"idle", "loop", "wait", "packets", "timers", "timersend"}
        OBVIOUS
    <2>7. index \in Nat \ {0} /\ now \in Nat /\ currentTimeMs \in Nat
        OBVIOUS
    <2> HIDE DEF MuxInit
    <2> QED BY <2>1, <2>2, <2>3, <2>4, <2>5, <2>6, <2>7 DEF MuxTyped
<1>2. BreaksCounted
    BY DEF BreaksCounted, NoLostBreak, MuxAssumption
<1>3. Attached
    BY DEF Attached, Running, IsInjective
<1>4. InOrder
    BY DEF InOrder, WaitsForEarliest
<1>5. TimersCalled
    BY DEF TimersCalled
<1>6. NoticedOrNext
    BY DEF NoticedOrNext, Running
<1> QED BY <1>1, <1>2, <1>3, <1>4, <1>5, <1>6 DEF MuxInv

------------------------------------------------------------------------------
(* The steps, for each part *)

\* Each step keeps the types (all of SocketReceiveMultiplexer).
LEMMA TypesGoOn ==
    ASSUME MuxAssumption, MuxTyped, Attached, [MuxNext]_muxvars
    PROVE  MuxTyped'
<1> USE DEF MuxTyped, attached, network, clock, outside
<1>0. Run_Ends =>
         /\ pc' = "idle" /\ timerQueue_' \in Seq(Entry) /\ ready' \subseteq Sockets
         /\ event' \in [Sockets -> BOOLEAN] /\ armed' \in [Sockets -> BOOLEAN]
    BY DEF Run_Ends
<1>1. ASSUME NEW s \in Sockets, AttachSocketListener(s)
      PROVE  MuxTyped'
    BY <1>1 DEF AttachSocketListener
<1>2. ASSUME NEW s \in Sockets, DetachSocketListener(s)
      PROVE  MuxTyped'
    <2>1. socketListeners_' \in Seq(Sockets)
        BY <1>2, WithoutOne DEF DetachSocketListener, Attached
    <2> QED BY <1>2, <2>1 DEF DetachSocketListener
<1>3. ASSUME NEW t \in Timers, AttachPeriodicTimerListener(t)
      PROVE  MuxTyped'
    BY <1>3 DEF AttachPeriodicTimerListener
<1>4. ASSUME NEW t \in Timers, DetachPeriodicTimerListener(t)
      PROVE  MuxTyped'
    <2>1. timerListeners_' \in Seq(Timers)
        BY <1>4, WithoutOne DEF DetachPeriodicTimerListener, Attached
    <2> QED BY <1>4, <2>1 DEF DetachPeriodicTimerListener
<1>5. ASSUME NEW s \in Sockets, Datagram(s)
      PROVE  MuxTyped'
    <2>1. waiting[s] + 1 \in 0..MaxQueue
        BY <1>5 DEF Datagram, MuxAssumption
    <2>2. waiting' \in [Sockets -> 0..MaxQueue]
        BY <1>5, <2>1 DEF Datagram
    <2>3. event' \in [Sockets -> BOOLEAN] /\ armed' \in [Sockets -> BOOLEAN]
        BY <1>5 DEF Datagram
    <2> QED BY <1>5, <2>2, <2>3 DEF Datagram
<1>6. ASSUME RunBegins
      PROVE  MuxTyped'
    <2> DEFINE q == [i \in DOMAIN timerListeners_ |->
                        <<now + Delay[timerListeners_[i]], timerListeners_[i]>>]
    <2>1. q \in Seq(Entry)
        BY TimersQueued
    <2>2. timerQueue_' \in Sortings(q)
        BY <1>6 DEF RunBegins
    <2> HIDE DEF q
    <2>3. timerQueue_' \in Seq(Entry)
        BY <2>1, <2>2, SortingsAreSorted
    <2>4. event' \in [Sockets -> BOOLEAN] /\ armed' \in [Sockets -> BOOLEAN]
        BY <1>6 DEF RunBegins, Windows
    <2> QED BY <1>6, <2>3, <2>4 DEF RunBegins
<1>7. CASE Loop
    BY <1>0, <1>7 DEF Loop
<1>8. CASE SelectReturns
    <2>1. CASE break_
        BY <1>0, <1>8, <2>1 DEF SelectReturns, Woken
    <2>2. CASE ~break_
        BY <1>8, <2>2 DEF SelectReturns, Woken, Range
    <2> QED BY <2>1, <2>2
<1>9. CASE WaitReturns
    <2>1. CASE break_
        BY <1>0, <1>9, <2>1 DEF WaitReturns, Woken
    <2>2. CASE ~break_
        <3>1. event' \in [Sockets -> BOOLEAN] /\ UNCHANGED armed
            BY <1>9, <2>2 DEF WaitReturns, Woken
        <3>2. index' \in Nat \ {0} /\ ready' \subseteq Sockets /\ pc' = "packets"
            BY <1>9, <2>2 DEF WaitReturns, Woken, Range
        <3> QED BY <1>9, <2>2, <3>1, <3>2 DEF WaitReturns, Woken
    <2> QED BY <2>1, <2>2
<1>10. ASSUME NEW b \in BOOLEAN, Interrupted(b)
       PROVE  MuxTyped'
    <2>1. break_' \in BOOLEAN
        BY <1>10 DEF Interrupted
    <2>2. CASE b \/ break_
        BY <1>0, <1>10, <2>1, <2>2 DEF Interrupted
    <2>3. CASE ~(b \/ break_)
        BY <1>10, <2>1, <2>3 DEF Interrupted
    <2> QED BY <2>2, <2>3
<1>11. ASSUME NEW b \in BOOLEAN, Packet(b)
       PROVE  MuxTyped'
    <2> DEFINE s == socketListeners_[index]
    <2>0. s \in Sockets
        BY <1>11 DEF Packet
    <2>1. CASE s \in ready /\ waiting[s] > 0
        <3>1. waiting' = [waiting EXCEPT ![s] = @ - 1] /\ waiting[s] - 1 \in 0..MaxQueue
            BY <1>11, <2>0, <2>1 DEF Packet, MuxAssumption
        <3>2. event' \in [Sockets -> BOOLEAN] /\ armed' \in [Sockets -> BOOLEAN]
            BY <1>11, <2>0, <2>1 DEF Packet, Windows
        <3>3. break_' \in BOOLEAN
            BY <1>11, <2>1 DEF Packet, Listener
        <3>4. waiting' \in [Sockets -> 0..MaxQueue]
            BY <3>1, <2>0
        <3>5. index' \in Nat \ {0} /\ currentTimeMs' \in Nat /\ served' \subseteq Timers
              /\ pc' \in {"packets", "timers"}
            <4>1. CASE break_'
                <5>1. ToTimers
                    BY <1>11, <2>1, <4>1 DEF Packet
                <5> QED BY <5>1 DEF ToTimers
            <4>2. CASE ~break_'
                BY <1>11, <2>1, <4>2 DEF Packet
            <4> QED BY <4>1, <4>2
        <3> QED BY <1>11, <3>2, <3>3, <3>4, <3>5 DEF Packet
    <2>2. CASE ~(s \in ready /\ waiting[s] > 0)
        BY <1>11, <2>2 DEF Packet
    <2> QED BY <2>1, <2>2
<1>12. ASSUME NEW b \in BOOLEAN, TimerExpired(b)
       PROVE  MuxTyped'
    <2>1. index \in DOMAIN timerQueue_ /\ timerQueue_[index][2] \in Timers
        BY <1>12 DEF TimerExpired, Expired, Entry
    <2>2. timerQueue_' \in Seq(Entry)
        BY <1>12, <2>1, AdvancedOne DEF TimerExpired
    <2>3. served' \subseteq Timers
        BY <1>12, <2>1 DEF TimerExpired
    <2> QED BY <1>12, <2>2, <2>3 DEF TimerExpired, Listener
<1>13. CASE PacketsEnd
    BY <1>13 DEF PacketsEnd, ToTimers
<1>14. CASE TimersEnd
    BY <1>14, EndSorts DEF TimersEnd
<1>15. CASE AsynchronousBreak
    BY <1>15 DEF AsynchronousBreak, BreakSteps
<1>16. CASE Tick
    BY <1>16 DEF Tick
<1>17. CASE UNCHANGED muxvars
    BY <1>17 DEF muxvars
<1> QED BY <1>1, <1>2, <1>3, <1>4, <1>5, <1>6, <1>7, <1>8, <1>9, <1>10, <1>11, <1>12, <1>13, <1>14, <1>15,
           <1>16, <1>17 DEF MuxNext

\* Each step keeps the count of the breaks, and no break is lost: break_ is set before the byte is
\* written, Run looks at break_ before it waits, and only a wait reads the byte (AsynchronousBreak).
LEMMA BreaksGoOn ==
    ASSUME MuxAssumption, MuxTyped, BreaksCounted, [MuxNext]_muxvars
    PROVE  BreaksCounted'
<1> USE DEF MuxTyped, BreaksCounted, NoLostBreak, attached, network, clock, outside
<1>0. MaxBreaks \in Nat
    BY DEF MuxAssumption
<1>1. ASSUME NEW s \in Sockets, AttachSocketListener(s) \/ DetachSocketListener(s) \/ Datagram(s)
      PROVE  BreaksCounted'
    BY SMTT(30), <1>1 DEF AttachSocketListener, DetachSocketListener, Datagram
<1>2. ASSUME NEW t \in Timers, AttachPeriodicTimerListener(t) \/ DetachPeriodicTimerListener(t)
      PROVE  BreaksCounted'
    BY <1>2 DEF AttachPeriodicTimerListener, DetachPeriodicTimerListener
<1>3. CASE RunBegins
    BY <1>3 DEF RunBegins
<1>4. CASE Loop
    BY <1>4 DEF Loop, Run_Ends
<1>5. CASE SelectReturns
    <2>1. pc' # "wait"
        BY <1>5 DEF SelectReturns, Woken, Run_Ends
    <2>2. wakeup' \in Nat /\ wakeup' <= wakeup
        BY <1>5 DEF SelectReturns
    <2>3. breaker' = breaker /\ breaks' = breaks
        BY <1>5 DEF SelectReturns
    <2>4. wakeup' <= breaks' /\ (breaker' = "between" => wakeup' + 1 <= breaks')
        <3>1. wakeup \in Nat /\ breaks \in Nat /\ wakeup <= breaks /\ (breaker = "between" => wakeup + 1 <= breaks)
            BY <1>0
        <3>2. \A a, b, c \in Nat : c <= a /\ a <= b => c <= b /\ (a + 1 <= b => c + 1 <= b)
            OBVIOUS
        <3>3. wakeup' <= breaks /\ (wakeup + 1 <= breaks => wakeup' + 1 <= breaks)
            BY <2>2, <3>1, <3>2
        <3> QED BY <2>3, <3>1, <3>3
    <2> QED BY <1>0, <2>1, <2>2, <2>3, <2>4
<1>6. CASE WaitReturns
    <2>1. pc' # "wait"
        BY <1>6 DEF WaitReturns, Woken, Run_Ends
    <2>2. wakeup' \in Nat /\ wakeup' <= wakeup
        BY <1>6 DEF WaitReturns
    <2>3. breaker' = breaker /\ breaks' = breaks
        BY <1>6 DEF WaitReturns
    <2>4. wakeup' <= breaks' /\ (breaker' = "between" => wakeup' + 1 <= breaks')
        <3>1. wakeup \in Nat /\ breaks \in Nat /\ wakeup <= breaks /\ (breaker = "between" => wakeup + 1 <= breaks)
            BY <1>0
        <3>2. \A a, b, c \in Nat : c <= a /\ a <= b => c <= b /\ (a + 1 <= b => c + 1 <= b)
            OBVIOUS
        <3>3. wakeup' <= breaks /\ (wakeup + 1 <= breaks => wakeup' + 1 <= breaks)
            BY <2>2, <3>1, <3>2
        <3> QED BY <2>3, <3>1, <3>3
    <2> QED BY <1>0, <2>1, <2>2, <2>3, <2>4
<1>7. ASSUME NEW b \in BOOLEAN, Interrupted(b)
      PROVE  BreaksCounted'
    <2>1. pc' # "wait" /\ UNCHANGED breaker
        BY <1>7 DEF Interrupted, Run_Ends
    <2>2. \/ breaks < MaxBreaks /\ breaks' = breaks + 1 /\ wakeup' = wakeup + 1
          \/ UNCHANGED <<breaks, wakeup>>
        BY <1>7 DEF Interrupted
    <2> QED BY <1>0, <2>1, <2>2
<1>8. ASSUME NEW b \in BOOLEAN, Packet(b) \/ TimerExpired(b)
      PROVE  BreaksCounted'
    <2>1. pc' # "wait"
        BY <1>8 DEF Packet, TimerExpired, ToTimers
    <2>2. UNCHANGED <<wakeup, breaker, breaks>>
        BY <1>8 DEF Packet, TimerExpired
    <2> QED BY <2>1, <2>2
<1>9. CASE PacketsEnd \/ TimersEnd
    BY <1>9 DEF PacketsEnd, TimersEnd, ToTimers
<1>10. CASE AsynchronousBreak
    <2>1. CASE breaker = "idle"
        <3>1. breaks < MaxBreaks /\ breaker' = "between" /\ breaks' = breaks + 1 /\ UNCHANGED wakeup
            BY <1>10, <2>1 DEF AsynchronousBreak, BreakSteps
        <3> QED BY <1>0, <3>1
    <2>2. CASE breaker = "between"
        <3>1. breaker' = "idle" /\ wakeup' \in {1, wakeup + 1} /\ UNCHANGED breaks
            BY <1>10, <2>2 DEF AsynchronousBreak, BreakSteps
        <3> QED BY <1>0, <2>2, <3>1
    <2> QED BY <2>1, <2>2
<1>11. CASE Tick \/ UNCHANGED muxvars
    BY <1>11 DEF Tick, muxvars
<1> QED BY <1>1, <1>2, <1>3, <1>4, <1>5, <1>6, <1>7, <1>8, <1>9, <1>10, <1>11 DEF MuxNext

\* Each step keeps what is attached, and the timers of the queue (Attach..., Detach..., Run).
LEMMA AttachedGoesOn ==
    ASSUME MuxAssumption, MuxTyped, Attached, [MuxNext]_muxvars
    PROVE  Attached'
<1> USE DEF MuxTyped, Attached, Running, attached, network, clock, outside
<1>1. ASSUME NEW s \in Sockets, AttachSocketListener(s)
      PROVE  Attached'
    <2>1. IsInjective(socketListeners_')
        BY <1>1 DEF AttachSocketListener, IsInjective, Range
    <2> QED BY <1>1, <2>1 DEF AttachSocketListener
<1>2. ASSUME NEW s \in Sockets, DetachSocketListener(s)
      PROVE  Attached'
    BY <1>2, WithoutOne DEF DetachSocketListener
<1>3. ASSUME NEW t \in Timers, AttachPeriodicTimerListener(t)
      PROVE  Attached'
    <2>1. IsInjective(timerListeners_')
        BY SMTT(30), <1>3 DEF AttachPeriodicTimerListener, IsInjective, Range
    <2> QED BY <1>3, <2>1 DEF AttachPeriodicTimerListener
<1>4. ASSUME NEW t \in Timers, DetachPeriodicTimerListener(t)
      PROVE  Attached'
    BY <1>4, WithoutOne DEF DetachPeriodicTimerListener
<1>5. CASE RunBegins
    <2> DEFINE q == [i \in DOMAIN timerListeners_ |->
                        <<now + Delay[timerListeners_[i]], timerListeners_[i]>>]
    <2>1. q \in Seq(Entry) /\ TimersOf(q) = Range(timerListeners_)
        BY TimersQueued
    <2>2. timerQueue_' \in Sortings(q) /\ UNCHANGED attached
        BY <1>5 DEF RunBegins
    <2> HIDE DEF q
    <2>3. Range(timerQueue_') = Range(q)
        BY <2>1, <2>2, SortingsAreSorted
    <2>4. TimersOf(timerQueue_') = Range(timerListeners_)
        BY <2>1, <2>3 DEF TimersOf
    <2> QED BY <2>2, <2>4
<1>6. ASSUME UNCHANGED attached, UNCHANGED timerQueue_, pc # "idle"
      PROVE  Attached'
    BY <1>6
<1>7. ASSUME UNCHANGED attached, pc' = "idle"
      PROVE  Attached'
    BY <1>7
<1>8. CASE Loop
    BY <1>6, <1>7, <1>8 DEF Loop, Run_Ends
<1>9. CASE SelectReturns
    BY <1>6, <1>7, <1>9 DEF SelectReturns, Woken, Run_Ends
<1>10. CASE WaitReturns
    BY <1>6, <1>7, <1>10 DEF WaitReturns, Woken, Run_Ends
<1>11. ASSUME NEW b \in BOOLEAN, Interrupted(b)
       PROVE  Attached'
    BY <1>6, <1>7, <1>11 DEF Interrupted, Run_Ends
<1>12. ASSUME NEW b \in BOOLEAN, Packet(b)
       PROVE  Attached'
    BY <1>6, <1>12 DEF Packet
<1>13. ASSUME NEW b \in BOOLEAN, TimerExpired(b)
       PROVE  Attached'
    <2>1. index \in DOMAIN timerQueue_
        BY <1>13 DEF TimerExpired, Expired
    <2>2. TimersOf(timerQueue_') = TimersOf(timerQueue_)
        BY <1>13, <2>1, AdvancedOne DEF TimerExpired
    <2> QED BY <1>13, <2>2 DEF TimerExpired
<1>14. CASE TimersEnd
    <2>1. Range(timerQueue_') = Range(timerQueue_)
        BY <1>14, EndSorts
    <2>2. TimersOf(timerQueue_') = TimersOf(timerQueue_)
        BY <2>1 DEF TimersOf
    <2> QED BY <1>14, <2>2 DEF TimersEnd
<1>15. CASE PacketsEnd
    BY <1>6, <1>15 DEF PacketsEnd
<1>16. ASSUME UNCHANGED <<attached, timerQueue_, pc>>
       PROVE  Attached'
    BY <1>16
<1>17. ASSUME NEW s \in Sockets, Datagram(s)
       PROVE  Attached'
    BY <1>16, <1>17 DEF Datagram
<1>18. CASE AsynchronousBreak \/ Tick \/ UNCHANGED muxvars
    BY <1>16, <1>18 DEF AsynchronousBreak, Tick, muxvars
<1> QED BY <1>1, <1>2, <1>3, <1>4, <1>5, <1>8, <1>9, <1>10, <1>11, <1>12, <1>13, <1>14, <1>15, <1>17, <1>18
        DEF MuxNext

\* Each step keeps the timers that are still to be looked at in order, and the end of the wait (Run).
LEMMA OrderGoesOn ==
    ASSUME MuxAssumption, MuxTyped, InOrder, [MuxNext]_muxvars
    PROVE  InOrder'
<1> USE DEF MuxTyped, InOrder, WaitsForEarliest, attached, network, clock, outside
<1>1. ASSUME UNCHANGED <<timerQueue_, index, deadline, pc>>
      PROVE  InOrder'
    BY <1>1 DEF Ordered
<1>2. ASSUME NEW s \in Sockets, AttachSocketListener(s) \/ DetachSocketListener(s) \/ Datagram(s)
      PROVE  InOrder'
    BY <1>1, <1>2 DEF AttachSocketListener, DetachSocketListener, Datagram
<1>3. ASSUME NEW t \in Timers, AttachPeriodicTimerListener(t) \/ DetachPeriodicTimerListener(t)
      PROVE  InOrder'
    BY <1>1, <1>3 DEF AttachPeriodicTimerListener, DetachPeriodicTimerListener
<1>4. CASE AsynchronousBreak \/ Tick \/ UNCHANGED muxvars
    BY <1>1, <1>4 DEF AsynchronousBreak, Tick, muxvars
<1>5. ASSUME Ordered(timerQueue_', 1), pc' \in {"loop", "packets"}
      PROVE  InOrder'
    BY <1>5
<1>6. ASSUME pc' = "idle"
      PROVE  InOrder'
    BY <1>6
<1>7. ASSUME Ordered(timerQueue_, 1), UNCHANGED timerQueue_
      PROVE  Ordered(timerQueue_', 1)
    BY <1>7
<1>8. CASE RunBegins
    <2> DEFINE q == [i \in DOMAIN timerListeners_ |->
                        <<now + Delay[timerListeners_[i]], timerListeners_[i]>>]
    <2>1. q \in Seq(Entry)
        BY TimersQueued
    <2>2. timerQueue_' \in Sortings(q) /\ pc' = "loop"
        BY <1>8 DEF RunBegins
    <2> HIDE DEF q
    <2>3. Ordered(timerQueue_', 1)
        BY <2>1, <2>2, SortingsAreSorted
    <2> QED BY <1>5, <2>2, <2>3
<1>9. CASE Loop
    <2>1. CASE break_
        BY <1>6, <1>9, <2>1 DEF Loop, Run_Ends
    <2>2. CASE ~break_
        <3>1. /\ UNCHANGED timerQueue_ /\ pc' = "wait" /\ Ordered(timerQueue_, 1)
              /\ timerQueue_ # <<>> => deadline' = timerQueue_[1][1]
            BY <1>9, <2>2 DEF Loop
        <3>2. ASSUME NEW e \in Range(timerQueue_)
              PROVE  deadline' <= e[1]
            <4>1. PICK i \in DOMAIN timerQueue_ : e = timerQueue_[i]
                BY DEF Range
            <4>2. timerQueue_[1][1] \in Nat /\ 1 \in DOMAIN timerQueue_ /\ timerQueue_ # <<>>
                BY <4>1 DEF Entry
            <4>3. timerQueue_[1][1] <= timerQueue_[i][1]
                BY SMTT(30), <3>1, <4>1, <4>2 DEF Ordered
            <4> QED BY <3>1, <4>1, <4>2, <4>3
        <3> QED BY <1>7, <3>1, <3>2
    <2> QED BY <2>1, <2>2
<1>10. CASE SelectReturns
    <2>1. pc' = "idle" \/ (pc' = "packets" /\ UNCHANGED timerQueue_ /\ pc = "wait")
        BY <1>10 DEF SelectReturns, Woken, Run_Ends
    <2> QED BY <1>5, <1>6, <1>7, <2>1
<1>11. CASE WaitReturns
    <2>1. pc' = "idle" \/ (pc' = "packets" /\ UNCHANGED timerQueue_ /\ pc = "wait")
        BY <1>11 DEF WaitReturns, Woken, Run_Ends
    <2> QED BY <1>5, <1>6, <1>7, <2>1
<1>12. ASSUME NEW b \in BOOLEAN, Interrupted(b)
       PROVE  InOrder'
    <2>1. pc' = "idle" \/ (pc' = "loop" /\ UNCHANGED timerQueue_ /\ pc = "wait")
        BY <1>12 DEF Interrupted, Run_Ends
    <2> QED BY <1>5, <1>6, <1>7, <2>1
<1>13. ASSUME pc = "packets", UNCHANGED timerQueue_, pc' = "packets" \/ ToTimers
       PROVE  InOrder'
    BY <1>5, <1>7, <1>13 DEF ToTimers
<1>14. ASSUME NEW b \in BOOLEAN, Packet(b)
       PROVE  InOrder'
    BY <1>13, <1>14 DEF Packet
<1>15. CASE PacketsEnd
    BY <1>13, <1>15 DEF PacketsEnd
<1>16. ASSUME NEW b \in BOOLEAN, TimerExpired(b)
       PROVE  InOrder'
    <2>1. index \in DOMAIN timerQueue_ /\ pc = "timers"
        BY <1>16 DEF TimerExpired, Expired
    <2>2. CASE pc' = "timersend"
        <3>1. UNCHANGED <<timerQueue_, index>>
            BY <1>16, <2>1, <2>2 DEF TimerExpired
        <3> QED BY <2>1, <2>2, <3>1 DEF Ordered
    <2>3. CASE pc' # "timersend"
        <3>1. timerQueue_' = Advanced(index) /\ index' = index + 1 /\ pc' = "timers"
            BY <1>16, <2>1, <2>3 DEF TimerExpired
        <3>2. ASSUME NEW i \in DOMAIN timerQueue_', NEW j \in DOMAIN timerQueue_', index' <= i, i < j
              PROVE  timerQueue_'[i][1] <= timerQueue_'[j][1]
            <4>1. i \in DOMAIN timerQueue_ /\ j \in DOMAIN timerQueue_
                BY <2>1, <3>1, AdvancedOne
            <4>2. i # index /\ j # index /\ index <= i
                BY <3>1, <3>2, <4>1
            <4>3. timerQueue_'[i] = timerQueue_[i] /\ timerQueue_'[j] = timerQueue_[j]
                BY <2>1, <3>1, <4>1, <4>2, AdvancedOne
            <4> QED BY <2>1, <3>2, <4>1, <4>2, <4>3 DEF Ordered
        <3>3. Ordered(timerQueue_', index')
            BY <3>2 DEF Ordered
        <3> QED BY <3>1, <3>3
    <2> QED BY <2>2, <2>3
<1>17. CASE TimersEnd
    <2>1. Ordered(timerQueue_, index) /\ pc' = "loop"
        BY <1>17 DEF TimersEnd
    <2> QED BY <1>5, <1>17, <2>1, EndSorts
<1> QED BY <1>2, <1>3, <1>4, <1>8, <1>9, <1>10, <1>11, <1>12, <1>14, <1>15, <1>16, <1>17 DEF MuxNext

\* Each step keeps that the timers before index have been called, and at the end of Run's loop
\* over them that the rest is later, being in order (Run).
LEMMA TimersGoOn ==
    ASSUME MuxAssumption, MuxTyped, Attached, InOrder, TimersCalled, [MuxNext]_muxvars
    PROVE  TimersCalled'
<1> USE DEF MuxTyped, TimersCalled, attached, network, clock, outside
<1>1. ASSUME UNCHANGED <<timerQueue_, index, pc, currentTimeMs, served>>, break_ => break_'
      PROVE  TimersCalled'
    BY <1>1
<1>2. ASSUME NEW s \in Sockets, AttachSocketListener(s) \/ DetachSocketListener(s) \/ Datagram(s)
      PROVE  TimersCalled'
    BY <1>1, <1>2 DEF AttachSocketListener, DetachSocketListener, Datagram
<1>3. ASSUME NEW t \in Timers, AttachPeriodicTimerListener(t) \/ DetachPeriodicTimerListener(t)
      PROVE  TimersCalled'
    BY <1>1, <1>3 DEF AttachPeriodicTimerListener, DetachPeriodicTimerListener
<1>4. CASE AsynchronousBreak \/ Tick \/ UNCHANGED muxvars
    BY <1>1, <1>4 DEF AsynchronousBreak, BreakSteps, Tick, muxvars
<1>5. CASE RunBegins
    <2> DEFINE q == [i \in DOMAIN timerListeners_ |->
                        <<now + Delay[timerListeners_[i]], timerListeners_[i]>>]
    <2>1. q \in Seq(Entry)
        BY TimersQueued
    <2>2. timerQueue_' \in Sortings(q) /\ pc' = "loop" /\ served' = Timers
        BY <1>5 DEF RunBegins
    <2> HIDE DEF q
    <2>3. timerQueue_' \in Seq(Entry)
        BY <2>1, <2>2, SortingsAreSorted
    <2>4. \A e \in Range(timerQueue_') : e[2] \in served'
        BY <2>2, <2>3 DEF Range, Entry
    <2> QED BY <2>2, <2>4
<1>6. ASSUME \/ pc' \in {"idle", "packets"}
             \/ /\ pc \in {"loop", "wait"} /\ pc' \in {"loop", "wait"} /\ break_' = break_
                /\ UNCHANGED <<timerQueue_, currentTimeMs, served>>
      PROVE  TimersCalled'
    BY <1>6
<1>7. CASE Loop
    BY <1>6, <1>7 DEF Loop, Run_Ends
<1>8. CASE SelectReturns \/ WaitReturns
    BY <1>6, <1>8 DEF SelectReturns, WaitReturns, Woken, Run_Ends
<1>9. ASSUME NEW b \in BOOLEAN, Interrupted(b)
      PROVE  TimersCalled'
    BY <1>6, <1>9 DEF Interrupted, Run_Ends
<1>10. ASSUME ToTimers, UNCHANGED timerQueue_
       PROVE  TimersCalled'
    <2>1. pc' = "timers" /\ index' = 1
        BY <1>10 DEF ToTimers
    <2>2. \A i \in DOMAIN timerQueue_' : ~(i < 1)
        BY <1>10
    <2> QED BY <2>1, <2>2
<1>11. ASSUME NEW b \in BOOLEAN, Packet(b)
       PROVE  TimersCalled'
    <2>1. ToTimers \/ pc' = "packets"
        BY <1>11 DEF Packet
    <2>2. UNCHANGED timerQueue_
        BY <1>11 DEF Packet
    <2> QED BY <1>6, <1>10, <2>1, <2>2
<1>12. CASE PacketsEnd
    BY <1>10, <1>12 DEF PacketsEnd
<1>13. ASSUME NEW b \in BOOLEAN, TimerExpired(b)
       PROVE  TimersCalled'
    <2>1. index \in DOMAIN timerQueue_ /\ pc = "timers" /\ served' = served \cup {timerQueue_[index][2]}
        BY <1>13 DEF TimerExpired, Expired
    <2>2. CASE break_'
        BY <1>13, <2>2 DEF TimerExpired
    <2>3. CASE ~break_'
        <3>1. timerQueue_' = Advanced(index) /\ index' = index + 1 /\ pc' = "timers"
            BY <1>13, <2>1, <2>3 DEF TimerExpired
        <3>2. ASSUME NEW i \in DOMAIN timerQueue_', i < index'
              PROVE  timerQueue_'[i][2] \in served'
            <4>1. i \in DOMAIN timerQueue_ /\ timerQueue_'[i][2] = timerQueue_[i][2]
                BY <2>1, <3>1, AdvancedOne
            <4>2. i < index \/ i = index
                BY <3>1, <3>2, <4>1
            <4> QED BY <2>1, <4>1, <4>2
        <3> QED BY <3>1, <3>2
    <2> QED BY <2>2, <2>3
<1>14. CASE TimersEnd
    <2>1. CASE pc = "timersend"
        BY <1>14, <2>1 DEF TimersEnd
    <2>2. CASE pc = "timers"
        <3>1. ~Expired /\ pc' = "loop" /\ UNCHANGED <<currentTimeMs, served>>
            BY <1>14, <2>2 DEF TimersEnd
        <3>2. Range(timerQueue_') = Range(timerQueue_)
            BY <1>14, EndSorts
        <3>3. ASSUME NEW e \in Range(timerQueue_)
              PROVE  e[1] > currentTimeMs \/ e[2] \in served
            <4>1. PICK i \in DOMAIN timerQueue_ : e = timerQueue_[i]
                BY DEF Range
            <4>2. CASE i < index
                BY <2>2, <4>1, <4>2
            <4>3. CASE ~(i < index)
                <5>0. index \in DOMAIN timerQueue_ /\ (i = index \/ index < i)
                    <6>1. DOMAIN timerQueue_ = 1..Len(timerQueue_) /\ Len(timerQueue_) \in Nat
                        OBVIOUS
                    <6>2. i \in 1..Len(timerQueue_) /\ index \in Nat \ {0}
                        BY <4>1, <6>1
                    <6> QED BY <4>3, <6>1, <6>2
                <5>1. timerQueue_[index][1] \in Nat /\ timerQueue_[i][1] \in Nat
                    BY SMTT(30), <5>0 DEF Entry
                <5>2. timerQueue_[index][1] <= timerQueue_[i][1]
                    BY <2>2, <5>0, <5>1 DEF InOrder, Ordered
                <5>3. timerQueue_[index][1] > currentTimeMs
                    BY <3>1, <5>0, <5>1 DEF Expired
                <5> QED BY <4>1, <5>1, <5>2, <5>3
            <4> QED BY <4>2, <4>3
        <3> QED BY <3>1, <3>2, <3>3
    <2> QED BY <1>14, <2>1, <2>2 DEF TimersEnd
<1> QED BY <1>2, <1>3, <1>4, <1>5, <1>7, <1>8, <1>9, <1>11, <1>12, <1>13, <1>14 DEF MuxNext

\* On win32, each step keeps that of a datagram at a socket its event tells, or Run reads it next
\* (Run, ReceiveFrom, a datagram).
LEMMA NoticeGoesOn ==
    ASSUME MuxAssumption, MuxTyped, NoticedOrNext, [MuxNext]_muxvars
    PROVE  NoticedOrNext'
<1> USE DEF MuxTyped, NoticedOrNext, Running, Windows, attached, network, clock, outside
<1>1. ASSUME UNCHANGED <<platform, socketListeners_, waiting, event, armed>>,
             \/ UNCHANGED <<ready, index, pc>>
             \/ pc \notin {"idle", "packets"}
      PROVE  NoticedOrNext'
    BY <1>1
<1>2. ASSUME pc' = "idle"
      PROVE  NoticedOrNext'
    BY <1>2
<1>3. ASSUME NEW s \in Sockets, AttachSocketListener(s) \/ DetachSocketListener(s)
      PROVE  NoticedOrNext'
    BY <1>2, <1>3 DEF AttachSocketListener, DetachSocketListener
<1>4. ASSUME NEW t \in Timers, AttachPeriodicTimerListener(t) \/ DetachPeriodicTimerListener(t)
      PROVE  NoticedOrNext'
    BY <1>2, <1>4 DEF AttachPeriodicTimerListener, DetachPeriodicTimerListener
<1>5. CASE AsynchronousBreak \/ Tick \/ UNCHANGED muxvars
    BY <1>1, <1>5 DEF AsynchronousBreak, Tick, muxvars
<1>6. CASE RunBegins
    <2>1. \A s \in Range(socketListeners_) : s \in Sockets
        BY DEF Range
    <2>2. /\ UNCHANGED <<platform, socketListeners_, waiting>>
          /\ event' = [s \in Sockets |-> Windows /\ s \in Range(socketListeners_) /\ waiting[s] > 0]
          /\ armed' = [s \in Sockets |-> Windows /\ s \in Range(socketListeners_) /\ waiting[s] = 0]
        BY <1>6 DEF RunBegins
    <2>3. ASSUME Windows, NEW s \in Range(socketListeners_)
          PROVE  IF waiting[s] = 0 THEN armed'[s] ELSE event'[s]
        <3>1. waiting[s] \in Nat /\ s \in Sockets
            BY <2>1, <2>3 DEF MuxAssumption
        <3>2. armed'[s] = (waiting[s] = 0) /\ event'[s] = (waiting[s] > 0)
            BY <2>2, <2>3, <3>1
        <3>3. CASE waiting[s] = 0
            BY <3>2, <3>3
        <3>4. CASE waiting[s] # 0
            <4>1. waiting[s] > 0
                BY <3>1, <3>4
            <4> QED BY <3>2, <3>4, <4>1
        <3> QED BY <3>3, <3>4
    <2> QED BY <2>2, <2>3
<1>7. CASE Loop
    BY <1>1, <1>2, <1>7 DEF Loop, Run_Ends
<1>8. CASE SelectReturns
    BY <1>8 DEF SelectReturns
<1>9. ASSUME NEW b \in BOOLEAN, Interrupted(b)
      PROVE  NoticedOrNext'
    BY <1>9 DEF Interrupted
<1>10. CASE TimersEnd
    BY <1>1, <1>10 DEF TimersEnd
<1>11. ASSUME NEW b \in BOOLEAN, TimerExpired(b)
       PROVE  NoticedOrNext'
    BY <1>1, <1>11 DEF TimerExpired
<1>12. CASE PacketsEnd
    <2>1. /\ UNCHANGED <<platform, socketListeners_, waiting, event, armed>>
          /\ pc = "packets" /\ ~(index <= Len(socketListeners_)) /\ pc' = "timers"
        BY <1>12 DEF PacketsEnd, ToTimers
    <2> QED BY <2>1
<1>13. ASSUME NEW s \in Sockets, Datagram(s)
       PROVE  NoticedOrNext'
    <2>1. /\ UNCHANGED <<platform, socketListeners_, ready, index, pc>>
          /\ waiting' = [waiting EXCEPT ![s] = @ + 1]
          /\ event' = [event EXCEPT ![s] = @ \/ armed[s]] /\ armed' = [armed EXCEPT ![s] = FALSE]
        BY <1>13 DEF Datagram
    <2>2. ASSUME Running, Windows, NEW r \in Range(socketListeners_)
          PROVE  IF waiting'[r] = 0 THEN armed'[r]
                 ELSE \/ event'[r]
                      \/ /\ pc = "packets" /\ r \in ready
                         /\ index <= Len(socketListeners_) /\ socketListeners_[index] = r
        <3>1. waiting[r] \in Nat /\ r \in Sockets
            BY <2>2 DEF MuxAssumption, Range
        <3>2. CASE r # s
            <4>1. waiting'[r] = waiting[r] /\ event'[r] = event[r] /\ armed'[r] = armed[r]
                BY <2>1, <3>1, <3>2
            <4> QED BY <2>2, <4>1
        <3>3. CASE r = s
            <4>1. waiting'[r] # 0 /\ event'[r] = (event[r] \/ armed[r])
                BY <2>1, <3>1, <3>3
            <4> QED BY <2>2, <4>1
        <3> QED BY <3>2, <3>3
    <2> QED BY <2>1, <2>2
<1>14. CASE WaitReturns
    <2>1. CASE break_
        BY <1>2, <1>14, <2>1 DEF WaitReturns, Woken, Run_Ends
    <2>2. CASE ~break_
        <3>1. pc = "wait" /\ pc' = "packets" /\ UNCHANGED <<platform, socketListeners_, waiting, armed>>
            BY <1>14, <2>2 DEF WaitReturns, Woken
        <3>2. \/ event' = event
              \/ /\ index' \in 1..Len(socketListeners_) /\ ready' = Range(socketListeners_)
                 /\ event' = [event EXCEPT ![socketListeners_[index']] = FALSE]
            BY <1>14, <2>2 DEF WaitReturns, Woken
        <3>3. \A s \in Range(socketListeners_) : s \in Sockets
            BY DEF Range
        <3>4. CASE event' = event
            BY <3>1, <3>4
        <3>5. CASE event' # event
            <4>1. \A s \in Range(socketListeners_) :
                     event'[s] = event[s] \/ (s = socketListeners_[index'] /\ s \in ready')
                BY <3>2, <3>3, <3>5
            <4>2. index' <= Len(socketListeners_)
                BY <3>2, <3>5
            <4> QED BY <3>1, <4>1, <4>2
        <3> QED BY <3>4, <3>5
    <2> QED BY <2>1, <2>2
<1>15. ASSUME NEW b \in BOOLEAN, Packet(b)
       PROVE  NoticedOrNext'
    <2> DEFINE s == socketListeners_[index]
    <2>0. s \in Sockets /\ s \in Range(socketListeners_) /\ pc = "packets" /\ waiting[s] \in Nat
        BY <1>15 DEF Packet, Range, MuxAssumption
    <2>1. UNCHANGED <<platform, socketListeners_, ready>> /\ pc' \in {"packets", "timers"}
        BY <1>15 DEF Packet, ToTimers
    <2>2. ASSUME Windows, NEW r \in Range(socketListeners_)
          PROVE  IF waiting'[r] = 0 THEN armed'[r] ELSE event'[r]
        <3>0. r \in Sockets /\ waiting[r] \in Nat
            BY <2>2 DEF MuxAssumption, Range
        <3>1. CASE s \in ready /\ waiting[s] > 0
            <4>1. /\ waiting' = [waiting EXCEPT ![s] = @ - 1]
                  /\ event' = [event EXCEPT ![s] = @ \/ (Windows /\ waiting[s] > 1)]
                  /\ armed' = [armed EXCEPT ![s] = Windows /\ waiting[s] = 1]
                BY <1>15, <3>1 DEF Packet
            <4>2. CASE r = s
                <5>1. waiting'[r] = waiting[s] - 1 /\ armed'[r] = (waiting[s] = 1)
                    BY <2>0, <2>2, <4>1, <4>2
                <5>2. event'[r] = (event[s] \/ waiting[s] > 1)
                    BY <2>0, <2>2, <4>1, <4>2
                <5>3. CASE waiting[s] = 1
                    <6>1. waiting'[r] = 0
                        BY <5>1, <5>3
                    <6>2. armed'[r]
                        BY <2>0, <2>2, <4>1, <4>2, <5>3
                    <6> QED BY <6>1, <6>2
                <5>4. CASE waiting[s] # 1
                    <6>1. waiting[s] > 1 /\ waiting[s] - 1 # 0
                        BY <2>0, <3>1, <5>4
                    <6> QED BY <5>1, <5>2, <6>1
                <5> QED BY <5>3, <5>4
            <4>3. CASE r # s
                <5>1. waiting'[r] = waiting[r] /\ event'[r] = event[r] /\ armed'[r] = armed[r]
                    BY <3>0, <4>1, <4>3
                <5> QED BY <2>0, <2>2, <4>3, <5>1
            <4> QED BY <4>2, <4>3
        <3>2. CASE ~(s \in ready /\ waiting[s] > 0)
            <4>1. UNCHANGED <<waiting, event, armed>>
                BY <1>15, <3>2 DEF Packet
            <4>2. waiting[r] # 0 => ~(r \in ready /\ s = r)
                BY <3>0, <3>2
            <4> QED BY <2>0, <2>2, <4>1, <4>2
        <3> QED BY <3>1, <3>2
    <2> QED BY <2>1, <2>2
<1> QED BY <1>3, <1>4, <1>5, <1>6, <1>7, <1>8, <1>9, <1>10, <1>11, <1>12, <1>13, <1>14, <1>15 DEF MuxNext

------------------------------------------------------------------------------
(* The theorem *)

LEMMA MuxInvSuffices == ASSUME MuxAssumption, MuxInv PROVE SocketsSound
<1> USE DEF MuxInv, MuxTyped
<1>1. MuxTypeOK
    <2>1. wakeup \in 0..MaxBreaks /\ breaks \in 0..MaxBreaks
        BY DEF BreaksCounted, MuxAssumption
    <2>2. IsInjective(socketListeners_) /\ IsInjective(timerListeners_)
        BY DEF Attached
    <2>3. pc # "idle" => {e[2] : e \in Range(timerQueue_)} = Range(timerListeners_)
        BY DEF Attached, Running, TimersOf
    <2> QED BY <2>1, <2>2, <2>3 DEF MuxTypeOK
<1>2. NoLostBreak /\ WaitsForEarliest
    BY DEF BreaksCounted, InOrder
<1>3. TimersServed
    BY DEF TimersCalled, TimersServed
<1>4. NoUnseenDatagram
    <2>1. ASSUME pc = "wait", Windows, NEW s \in Range(socketListeners_), waiting[s] > 0
          PROVE  event[s]
        BY <2>1 DEF NoticedOrNext, Running
    <2> QED BY <2>1 DEF NoUnseenDatagram
<1> QED BY <1>1, <1>2, <1>3, <1>4 DEF SocketsSound

\* For any sockets and timers, whatever their delays and periods, in both forms: no call of
\* AsynchronousBreak is lost, the wait ends by the earliest timer, each timer that is due is called
\* when the timers are looked at, and on win32 no datagram stays unseen in a wait
\* (SocketReceiveMultiplexer, Run).
THEOREM SocketsAreSound == MuxSpec => []SocketsSound
<1>0. MuxAssumption
    BY MuxAssumption
<1>1. MuxInit => MuxInv
    BY <1>0, MuxBegins
<1>2. MuxInv /\ [MuxNext]_muxvars => MuxInv'
    BY <1>0, TypesGoOn, BreaksGoOn, AttachedGoesOn, OrderGoesOn, TimersGoOn, NoticeGoesOn DEF MuxInv
<1>3. MuxInv => SocketsSound
    BY <1>0, MuxInvSuffices
<1> QED BY <1>1, <1>2, <1>3, PTL DEF MuxSpec
=============================================================================
