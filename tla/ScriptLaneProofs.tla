-------------------------- MODULE ScriptLaneProofs --------------------------
(***************************************************************************)
(* Theorems about two parts of a script's lane, for any values of their    *)
(* constants.                                                              *)
(*                                                                         *)
(* The agenda of delayed actions: each invariant has a lemma that says     *)
(* what one handler or timer step does to it; the theorems put them        *)
(* together.                                                               *)
(*                                                                         *)
(* The debugger: a stop is a token, which is a message about the stop,     *)
(* then an enabled menu, then a command. StopIsAnswerable says that it is  *)
(* never lost, CommandMeetsItsStop that there is never a second one; for   *)
(* the latter the token is followed through its three places (OneToken).   *)
(* BreakpointsCatchUp follows a line's breakpoint through the table that   *)
(* ScriptRun sends and the messages that wait (BreakpointsFollow).         *)
(***************************************************************************)
EXTENDS QueueAction, Debugger, TLAPS

------------------------------------------------------------------------------
(* Delayed actions *)

\* What the entries of the agenda are.
LEMMA EntriesTyped ==
    /\ \A e \in Entry : e.act \in Actions /\ e.timestamp \in Nat /\ e.before \in Nat
                        /\ e.timestamp \in 0..MaxTime
    /\ \A list \in Seq(Entry) : /\ \A i \in DOMAIN list : list[i] \in Entry
                                /\ \A e \in Range(list) : e \in Entry
<1>1. \A e \in Entry : e.act \in Actions /\ e.timestamp \in 0..MaxTime /\ e.before \in Nat
  BY DEF Entry
<1>2. \A list \in Seq(Entry) : \A i \in DOMAIN list : list[i] \in Entry
  OBVIOUS
<1>3. QED
  BY <1>1, <1>2, BoundsAreNat DEF Range

\* What the sort makes of a list: the same entries, each once if each was there once, by
\* descending timestamp.
LEMMA SortingsAreSorted ==
    ASSUME NEW list \in Seq(Entry), NEW sorted \in Sortings(list)
    PROVE  /\ sorted \in Seq(Entry) /\ Len(sorted) = Len(list)
           /\ Range(sorted) = Range(list)
           /\ (\A i, j \in DOMAIN list : list[i].act = list[j].act => i = j) =>
                 \A i, j \in DOMAIN sorted : sorted[i].act = sorted[j].act => i = j
           /\ \A i, j \in DOMAIN sorted : i < j => sorted[j].timestamp <= sorted[i].timestamp
<1>1. PICK p \in Bijection(DOMAIN list, DOMAIN list) : sorted = [i \in DOMAIN list |-> list[p[i]]]
  BY DEF Sortings, Reorderings
<1>2. /\ p \in [DOMAIN list -> DOMAIN list]
      /\ \A i, j \in DOMAIN list : p[i] = p[j] => i = j
      /\ \A k \in DOMAIN list : \E i \in DOMAIN list : p[i] = k
  BY DEF Bijection, Injection, Surjection, IsInjective
<1>3. DOMAIN list = 1..Len(list) /\ Len(list) \in Nat /\ \A i \in DOMAIN list : list[i] \in Entry
  OBVIOUS
<1>4. sorted \in Seq(Entry) /\ DOMAIN sorted = DOMAIN list /\ Len(sorted) = Len(list)
  BY <1>1, <1>2, <1>3
<1>5. Range(sorted) = Range(list)
  BY <1>1, <1>2 DEF Range
<1>6. ASSUME \A i, j \in DOMAIN list : list[i].act = list[j].act => i = j,
             NEW i \in DOMAIN sorted, NEW j \in DOMAIN sorted, sorted[i].act = sorted[j].act
      PROVE  i = j
  BY <1>1, <1>2, <1>6
<1>7. ASSUME NEW i \in DOMAIN sorted, NEW j \in DOMAIN sorted, i < j
      PROVE  sorted[j].timestamp <= sorted[i].timestamp
  <2>1. ~(sorted[j].timestamp > sorted[i].timestamp)
    BY <1>4, <1>7 DEF Sortings
  <2>2. sorted[i].timestamp \in Nat /\ sorted[j].timestamp \in Nat
    BY <1>4, <1>7, EntriesTyped
  <2>3. QED
    BY <2>1, <2>2
<1>8. QED
  BY <1>4, <1>5, <1>6, <1>7

\* A list whose last entry is removed: the others, where they were.
LEMMA WithoutTheLast ==
    ASSUME NEW list \in Seq(Entry), list # <<>>
    PROVE  /\ LastOf(list) \in Entry /\ LastOf(list) \in Range(list)
           /\ AllButLast(list) \in Seq(Entry) /\ Len(AllButLast(list)) = Len(list) - 1
           /\ \A i \in DOMAIN AllButLast(list) :
                 i \in DOMAIN list /\ i < Len(list) /\ AllButLast(list)[i] = list[i]
<1>1. Len(list) \in Nat \ {0} /\ DOMAIN list = 1..Len(list)
  OBVIOUS
<1>2. LastOf(list) \in Entry /\ LastOf(list) \in Range(list)
  BY <1>1 DEF LastOf, Range
<1>3. QED
  BY <1>1, <1>2 DEF AllButLast

\* What QueueAction leaves in the queue: the sorted list of what was there and the new entry.
LEMMA QueuedIsSorted ==
    ASSUME TypeOK, NEW a \in Actions, NEW i \in Intervals, QueueAction(a, i),
           NEW new, new = [act |-> a, timestamp |-> now + i, before |-> Len(ran)]
    PROVE  /\ new \in Entry
           /\ Append(queue, new) \in Seq(Entry) /\ queue' \in Sortings(Append(queue, new))
           /\ queue' \in Seq(Entry) /\ Range(queue') = Range(queue) \cup {new}
<1>1. new \in Entry
  BY BoundsAreNat, IntervalsAreNat DEF QueueAction, TypeOK, Entry
<1>2. Append(queue, new) \in Seq(Entry) /\ queue' \in Sortings(Append(queue, new))
  BY <1>1 DEF QueueAction, TypeOK
<1>3. Range(Append(queue, new)) = Range(queue) \cup {new}
  <2>1. /\ queue \in Seq(Entry) /\ DOMAIN queue = 1..Len(queue) /\ Len(queue) \in Nat
        /\ DOMAIN Append(queue, new) = 1..(Len(queue) + 1)
        /\ Append(queue, new)[Len(queue) + 1] = new
        /\ \A k \in DOMAIN queue : Append(queue, new)[k] = queue[k]
    BY <1>1 DEF TypeOK
  <2>2. DOMAIN Append(queue, new) = DOMAIN queue \cup {Len(queue) + 1}
    BY <2>1
  <2> DEFINE list == Append(queue, new)
  <2>3. /\ \A k \in DOMAIN list : (k \in DOMAIN queue /\ list[k] = queue[k]) \/ list[k] = new
        /\ \A k \in DOMAIN queue : k \in DOMAIN list /\ list[k] = queue[k]
        /\ \E k \in DOMAIN list : list[k] = new
    BY <2>1, <2>2
  <2> HIDE DEF list
  <2>4. Range(list) = Range(queue) \cup {new}
    BY <2>3 DEF Range
  <2>5. QED
    BY <2>4 DEF list
<1>4. QED
  BY <1>1, <1>2, <1>3, SortingsAreSorted

\* One step of the agenda keeps its types.
LEMMA StepKeepsTypes == ASSUME TypeOK, Next PROVE TypeOK'
<1>q. ASSUME NEW a \in Actions, NEW i \in Intervals, QueueAction(a, i)
      PROVE  TypeOK'
  <2>1. now + i \in 0..MaxTime
    BY <1>q, BoundsAreNat, IntervalsAreNat DEF QueueAction, TypeOK
  <2>2. queue' \in Seq(Entry)
    BY <1>q, QueuedIsSorted
  <2>3. timer' \in 0..None /\ mail' \in {0, 1}
    BY <1>q, <2>1, BoundsAreNat DEF QueueAction, ArmTimer, TypeOK, None
  <2>4. QED
    BY <1>q, <2>2, <2>3 DEF QueueAction, TypeOK
<1>r. CASE RunAction
  <2>1. queue' \in Seq(Entry) /\ ran' \in Seq(Entry)
    BY <1>r, WithoutTheLast DEF RunAction, TypeOK
  <2>2. QED
    BY <1>r, <2>1 DEF RunAction, TypeOK
<1>a. CASE Rearm
  <2>1. queue # <<>> => LastOf(queue).timestamp \in 0..MaxTime
    BY WithoutTheLast DEF TypeOK, Entry
  <2>2. timer' \in 0..None /\ mail' \in {0, 1}
    BY <1>a, <2>1, BoundsAreNat DEF Rearm, ArmTimer, TypeOK, None
  <2>3. QED
    BY <1>a, <2>2 DEF Rearm, TypeOK
<1>s. CASE Restart
  <2>1. Acts(queue) \subseteq Actions
    BY EntriesTyped DEF TypeOK, Acts
  <2>2. QED
    BY <1>s, <2>1, BoundsAreNat DEF Restart, TypeOK
<1>t. CASE Tick \/ TimerStrikes
  <2>1. now' \in 0..MaxTime
    BY <1>t, BoundsAreNat DEF Tick, TimerStrikes, TypeOK
  <2>2. timer' \in 0..None /\ mail' \in {0, 1}
    BY <1>t, BoundsAreNat DEF Tick, TimerStrikes, TypeOK, None
  <2>3. UNCHANGED <<queue, ran, pc, lost, restarts>>
    BY <1>t DEF Tick, TimerStrikes
  <2>4. QED
    BY <2>1, <2>2, <2>3 DEF TypeOK
<1>h. CASE Receive \/ ActionReturns \/ LoopEnds
  BY <1>h DEF Receive, ActionReturns, LoopEnds, TypeOK
<1> QED
  BY <1>q, <1>r, <1>a, <1>s, <1>t, <1>h DEF Next

\* One step of the agenda leaves a wakeup on the way to a waiting script with queued actions.
LEMMA StepKeepsWakeup == ASSUME TypeOK, NoLostWakeup, Next PROVE NoLostWakeup'
<1> USE DEF NoLostWakeup, WakeupOnTheWay
<1>q. ASSUME NEW a \in Actions, NEW i \in Intervals, QueueAction(a, i)
      PROVE  NoLostWakeup'
  <2> DEFINE e == [act |-> a, timestamp |-> now + i, before |-> Len(ran)]
  <2>1. e \in Range(queue') /\ e.timestamp = now + i
    BY <1>q, QueuedIsSorted
  <2>2. mail' = 1 \/ timer' = now + i
    BY <1>q DEF QueueAction, ArmTimer
  <2>3. now + i \in Nat
    BY IntervalsAreNat DEF TypeOK
  <2>4. QED
    BY <2>1, <2>2, <2>3
<1>l. CASE Rearm
  <2>1. CASE queue = <<>>
    BY <1>l, <2>1 DEF Rearm
  <2>2. CASE queue # <<>>
    <3>1. LastOf(queue) \in Range(queue) /\ LastOf(queue).timestamp \in Nat
      BY <2>2, WithoutTheLast, EntriesTyped DEF TypeOK
    <3>2. mail' = 1 \/ timer' = LastOf(queue).timestamp
      BY <1>l, <2>2 DEF Rearm, ArmTimer
    <3>3. QED
      BY <1>l, <3>1, <3>2 DEF Rearm
  <2>3. QED
    BY <2>1, <2>2
<1>r. CASE RunAction \/ ActionReturns \/ LoopEnds
  BY <1>r DEF RunAction, ActionReturns, LoopEnds
<1>t. CASE Tick \/ TimerStrikes \/ Receive \/ Restart
  BY <1>t DEF Tick, TimerStrikes, Receive, Restart
<1> QED
  BY <1>q, <1>l, <1>r, <1>t DEF Next

\* One step of the agenda moves an action from the queue to one of called and dropped, never back.
LEMMA StepRunsOnce == ASSUME TypeOK, RunAtMostOnce, Next PROVE RunAtMostOnce'
<1>q. ASSUME NEW a \in Actions, NEW i \in Intervals, QueueAction(a, i)
      PROVE  RunAtMostOnce'
  <2> DEFINE new == [act |-> a, timestamp |-> now + i, before |-> Len(ran)]
             list == Append(queue, new)
  <2>1. queue' \in Sortings(list) /\ list \in Seq(Entry) /\ Range(queue') = Range(queue) \cup {new}
    BY <1>q, QueuedIsSorted
  <2>2. a \notin Acts(queue) /\ a \notin Acts(ran) \cup lost /\ UNCHANGED <<ran, lost>>
    BY <1>q DEF QueueAction, Known
  <2>3. \A k, l \in DOMAIN list : list[k].act = list[l].act => k = l
    BY <2>2 DEF RunAtMostOnce, TypeOK, Acts, Range
  <2>4. \A k, l \in DOMAIN queue' : queue'[k].act = queue'[l].act => k = l
    <3> HIDE DEF list
    <3> QED BY <2>1, <2>3, SortingsAreSorted
  <2>5. Acts(queue') = Acts(queue) \cup {a} /\ Acts(ran') = Acts(ran)
    BY <2>1, <2>2 DEF Acts
  <2>6. QED
    BY <2>2, <2>4, <2>5 DEF RunAtMostOnce
<1>r. CASE RunAction
  <2> DEFINE last == LastOf(queue)
             n == Len(queue)
  <2>1. /\ queue # <<>> /\ queue' = AllButLast(queue) /\ ran' = Append(ran, last) /\ lost' = lost
        /\ queue \in Seq(Entry) /\ ran \in Seq(Entry) /\ n \in Nat \ {0}
    BY <1>r DEF RunAction, TypeOK
  <2>2. \A i \in DOMAIN queue' : i \in DOMAIN queue /\ i < n /\ queue'[i] = queue[i]
    BY <2>1, WithoutTheLast
  <2>3. last = queue[n] /\ n \in DOMAIN queue /\ last \in Range(queue)
    BY <2>1, WithoutTheLast DEF LastOf
  <2>4. Acts(queue') \subseteq Acts(queue) /\ last.act \in Acts(queue) /\ last.act \notin Acts(queue')
    <3>1. Range(queue') \subseteq Range(queue) /\ \A e \in Range(queue') : e.act # last.act
      BY <2>1, <2>2, <2>3 DEF Range, RunAtMostOnce
    <3>2. QED
      BY <2>3, <3>1 DEF Acts
  <2>5. Acts(ran') = Acts(ran) \cup {last.act}
    BY <2>1 DEF Acts, Range
  <2>6. last.act \notin Acts(ran)
    BY <2>4 DEF RunAtMostOnce
  <2>7. \A i, j \in DOMAIN ran' : ran'[i].act = ran'[j].act => i = j
    BY <2>1, <2>6 DEF RunAtMostOnce, Acts, Range
  <2>8. \A i, j \in DOMAIN queue' : queue'[i].act = queue'[j].act => i = j
    BY <2>2 DEF RunAtMostOnce
  <2>9. QED
    BY <2>1, <2>4, <2>5, <2>6, <2>7, <2>8 DEF RunAtMostOnce
<1>s. CASE Restart
  <2>1. Acts(queue') = {}
    BY <1>s DEF Restart, Acts, Range
  <2>2. QED
    BY <1>s, <2>1 DEF Restart, RunAtMostOnce
<1>t. CASE Tick \/ TimerStrikes \/ Receive \/ ActionReturns \/ LoopEnds \/ Rearm
  BY <1>t DEF Tick, TimerStrikes, Receive, ActionReturns, LoopEnds, Rearm, RunAtMostOnce, Acts
<1> QED
  BY <1>q, <1>r, <1>s, <1>t DEF Next

\* The queue is sorted, and what was called since an entry came into it was due no later than it.
OrderInv ==
    /\ RunInOrder
    /\ \A i, j \in DOMAIN queue : i < j => queue[j].timestamp <= queue[i].timestamp
    /\ \A e \in Range(queue) :
          /\ e.before <= Len(ran)
          /\ \A k \in DOMAIN ran : e.before < k => ran[k].timestamp <= e.timestamp

\* One step of the agenda keeps the queue in order, and with it the order of the calls.
LEMMA StepKeepsOrder == ASSUME TypeOK, OrderInv, Next PROVE OrderInv'
<1>0. /\ queue \in Seq(Entry) /\ ran \in Seq(Entry) /\ Len(ran) \in Nat /\ DOMAIN ran = 1..Len(ran)
      /\ \A e \in Entry : e.timestamp \in Nat /\ e.before \in Nat
  BY BoundsAreNat DEF TypeOK, Entry
<1>q. ASSUME NEW a \in Actions, NEW i \in Intervals, QueueAction(a, i)
      PROVE  OrderInv'
  <2> DEFINE new == [act |-> a, timestamp |-> now + i, before |-> Len(ran)]
             list == Append(queue, new)
  <2>1. queue' \in Sortings(list) /\ list \in Seq(Entry) /\ Range(queue') = Range(queue) \cup {new}
    BY <1>q, QueuedIsSorted
  <2>2. \A k, l \in DOMAIN queue' : k < l => queue'[l].timestamp <= queue'[k].timestamp
    <3> HIDE DEF list
    <3> QED BY <2>1, SortingsAreSorted
  <2>3. ran' = ran /\ RunInOrder'
    BY <1>q DEF QueueAction, OrderInv, RunInOrder
  <2>4. ASSUME NEW e \in Range(queue')
        PROVE  e.before <= Len(ran) /\ \A k \in DOMAIN ran : e.before < k => ran[k].timestamp <= e.timestamp
    <3>1. CASE e = new
      BY <1>0, <3>1
    <3>2. CASE e \in Range(queue)
      BY <3>2 DEF OrderInv
    <3>3. QED
      BY <2>1, <2>4, <3>1, <3>2
  <2>5. QED
    BY <2>2, <2>3, <2>4 DEF OrderInv
<1>r. CASE RunAction
  <2> DEFINE last == LastOf(queue)
             n == Len(queue)
  <2>1. /\ queue # <<>> /\ queue' = AllButLast(queue) /\ ran' = Append(ran, last)
        /\ n \in Nat \ {0}
    BY <1>r, <1>0 DEF RunAction
  <2>2. \A i \in DOMAIN queue' : i \in DOMAIN queue /\ i < n /\ queue'[i] = queue[i]
    BY <1>0, <2>1, WithoutTheLast
  <2>3. last = queue[n] /\ n \in DOMAIN queue /\ last \in Range(queue) /\ last \in Entry
    BY <1>0, <2>1, WithoutTheLast DEF LastOf
  <2>4. /\ Len(ran') = Len(ran) + 1 /\ DOMAIN ran' = 1..(Len(ran) + 1)
        /\ ran'[Len(ran) + 1] = last /\ \A k \in DOMAIN ran : ran'[k] = ran[k] /\ ran[k] \in Entry
    BY <1>0, <2>1, <2>3
  <2> HIDE DEF last, n
  <2>5. ASSUME NEW e \in Range(queue')
        PROVE  /\ e \in Range(queue) /\ e \in Entry /\ last.timestamp <= e.timestamp
    BY <1>0, <2>2, <2>3 DEF OrderInv, Range
  <2>6. ASSUME NEW e \in Range(queue')
        PROVE  /\ e.before <= Len(ran')
               /\ \A k \in DOMAIN ran' : e.before < k => ran'[k].timestamp <= e.timestamp
    <3>1. e.before <= Len(ran) /\ \A k \in DOMAIN ran : e.before < k => ran[k].timestamp <= e.timestamp
      BY <2>5 DEF OrderInv
    <3>2. /\ e.before \in Nat /\ last.timestamp <= e.timestamp
      BY <1>0, <2>5
    <3>3. \A k \in DOMAIN ran' : k \in DOMAIN ran \/ ran'[k] = last
      BY <1>0, <2>4
    <3>4. QED
      BY <1>0, <2>4, <3>1, <3>2, <3>3
  <2>7. ASSUME NEW i \in DOMAIN ran', NEW j \in DOMAIN ran', i < j,
               ran'[i].timestamp > ran'[j].timestamp
        PROVE  ran'[j].before >= i
    <3>1. CASE j \in DOMAIN ran
      BY <1>0, <2>4, <2>7, <3>1 DEF OrderInv, RunInOrder
    <3>2. CASE j = Len(ran) + 1
      <4>1. i \in DOMAIN ran /\ ran'[j] = last /\ ran'[i] = ran[i] /\ ran[i] \in Entry
        BY <1>0, <2>4, <2>7, <3>2
      <4>2. ~(last.before < i)
        BY <1>0, <2>3, <2>7, <4>1 DEF OrderInv
      <4>3. QED
        BY <1>0, <2>3, <4>1, <4>2
    <3>3. QED
      BY <1>0, <2>4, <3>1, <3>2
  <2>8. \A i, j \in DOMAIN queue' : i < j => queue'[j].timestamp <= queue'[i].timestamp
    BY <2>2 DEF OrderInv
  <2>9. QED
    BY <2>6, <2>7, <2>8 DEF OrderInv, RunInOrder
<1>s. CASE Restart
  <2>1. DOMAIN queue' = {} /\ Range(queue') = {} /\ ran' = ran
    BY <1>s DEF Restart, Range
  <2>2. QED
    BY <2>1 DEF OrderInv, RunInOrder
<1>t. CASE Tick \/ TimerStrikes \/ Receive \/ ActionReturns \/ LoopEnds \/ Rearm
  BY <1>t DEF Tick, TimerStrikes, Receive, ActionReturns, LoopEnds, Rearm, OrderInv, RunInOrder
<1> QED
  BY <1>q, <1>r, <1>s, <1>t DEF Next

\* A stutter of the agenda changes nothing that the invariants speak of.
LEMMA StutterKeeps ==
  UNCHANGED vars => /\ TypeOK => TypeOK'
                    /\ NoLostWakeup => NoLostWakeup'
                    /\ RunAtMostOnce => RunAtMostOnce'
                    /\ OrderInv => OrderInv'
BY DEF vars, TypeOK, NoLostWakeup, WakeupOnTheWay, RunAtMostOnce, Acts, OrderInv, RunInOrder

\* Type correctness of the agenda: every handler and timer step keeps the state in its types.
THEOREM QueueActionTypeOK == Spec => []TypeOK
<1>i. Init => TypeOK
  BY BoundsAreNat DEF Init, TypeOK, None
<1> QED
  BY <1>i, StepKeepsTypes, StutterKeeps, PTL DEF Spec

\* No interleaving of QueueAction calls, timer strikes and the loop leaves a waiting script with
\* queued actions and no wakeup on the way.
THEOREM WakeupNeverLost == Spec => []NoLostWakeup
<1>i. Init => NoLostWakeup
  BY DEF Init, NoLostWakeup
<1> QED
  BY <1>i, QueueActionTypeOK, StepKeepsWakeup, StutterKeeps, PTL DEF Spec

\* An action table is in the agenda, called or dropped by a restart, never two of these, and it is
\* called once.
THEOREM ActionsRunAtMostOnce == Spec => []RunAtMostOnce
<1>i. Init => RunAtMostOnce
  BY DEF Init, RunAtMostOnce, Acts, Range
<1> QED
  BY <1>i, QueueActionTypeOK, StepRunsOnce, StutterKeeps, PTL DEF Spec

\* Over the whole life of the script actions are called in the order of the times they are due at;
\* only one that is queued after another has been called may have been due before it.
THEOREM ActionsRunInOrder == Spec => []RunInOrder
<1>1. Init => OrderInv
  BY DEF Init, OrderInv, RunInOrder, Range
<1>2. OrderInv => RunInOrder
  BY DEF OrderInv
<1> QED
  BY <1>1, <1>2, QueueActionTypeOK, StepKeepsOrder, StutterKeeps, PTL DEF Spec

------------------------------------------------------------------------------
(* Debugger *)

Messages == {"stop", "error"}
NoStopShown == \A i \in DOMAIN shown : shown[i] # "stop"
OneStopShown == \E i \in DOMAIN shown : shown[i] = "stop" /\ \A j \in DOMAIN shown : shown[j] = "stop" => j = i
NoCommand == \A k \in Commands : debuggerlinda[k] = 0
OneCommand == \E k \in Commands : debuggerlinda[k] = 1 /\ \A l \in Commands : l # k => debuggerlinda[l] = 0

\* The IDE knows of every script that may still stop.
ScriptKnown == lane \in {"asked", "running", "stopped"} => script_lane

\* The messages that wait have the shape their receivers expect.
MessagesTyped == shown \in Seq(Messages) /\ debuggerlinda \in [Ones -> Nat]

\* Where the token is, while nothing but the present script and its user has acted.
OneToken ==
    answerable /\ Debuggerbp.on =>
        /\ lane = "running" => ~commandsOn /\ NoStopShown /\ NoCommand
        /\ lane = "stopped" =>
              \/ commandsOn /\ NoStopShown /\ NoCommand
              \/ ~commandsOn /\ OneStopShown /\ NoCommand
              \/ ~commandsOn /\ NoStopShown /\ OneCommand

-----------------------------------------------------------------------------
\* Taking the first message of the key "debugger": the others move one place forward.
LEMMA FirstShown ==
  ASSUME shown \in Seq(Messages), shown # <<>>, shown' = Tail(shown)
  PROVE  /\ StopShown => Head(shown) = "stop" \/ StopShown'
         /\ NoStopShown => Head(shown) # "stop" /\ NoStopShown'
         /\ OneStopShown => IF Head(shown) = "stop" THEN NoStopShown' ELSE OneStopShown'
<1> DEFINE n == Len(shown)
<1>1. /\ n \in Nat /\ n > 0 /\ DOMAIN shown = 1..n /\ Head(shown) = shown[1]
      /\ DOMAIN shown' = 1..(n - 1)
      /\ \A i \in 1..(n - 1) : shown'[i] = shown[i + 1]
  OBVIOUS
<1>a. \A i \in 1..(n - 1) : i + 1 \in 1..n
  BY <1>1
<1>2. \A i \in 1..n : i # 1 => i - 1 \in 1..(n - 1) /\ shown'[i - 1] = shown[i]
  BY <1>1
<1>3. StopShown => Head(shown) = "stop" \/ StopShown'
  BY <1>1, <1>2 DEF StopShown
<1>4. ASSUME NoStopShown PROVE Head(shown) # "stop" /\ NoStopShown'
  <2>1. \A i \in 1..n : shown[i] # "stop"
    BY <1>1, <1>4 DEF NoStopShown
  <2>2. ASSUME NEW i \in 1..(n - 1) PROVE shown'[i] # "stop"
    BY <1>1, <1>a, <2>1
  <2>3. QED
    BY <1>1, <2>1, <2>2 DEF NoStopShown
<1>5. ASSUME OneStopShown, Head(shown) = "stop" PROVE NoStopShown'
  <2>1. \A j \in 1..n : shown[j] = "stop" => j = 1
    BY <1>1, <1>5 DEF OneStopShown
  <2>2. ASSUME NEW i \in 1..(n - 1) PROVE shown'[i] # "stop"
    BY <1>1, <1>a, <2>1
  <2>3. QED
    BY <1>1, <2>2 DEF NoStopShown
<1>6. ASSUME OneStopShown, Head(shown) # "stop" PROVE OneStopShown'
  <2>1. PICK i \in 1..n : shown[i] = "stop" /\ \A j \in 1..n : shown[j] = "stop" => j = i
    BY <1>1, <1>6 DEF OneStopShown
  <2>2. i - 1 \in 1..(n - 1) /\ shown'[i - 1] = "stop"
    BY <1>1, <1>2, <1>6, <2>1
  <2>3. \A j \in 1..(n - 1) : shown'[j] = "stop" => j = i - 1
    BY <1>1, <1>a, <2>1
  <2>4. \E m \in 1..(n - 1) : shown'[m] = "stop" /\ \A j \in 1..(n - 1) : shown'[j] = "stop" => j = m
    BY <2>2, <2>3
  <2>5. DOMAIN shown' = 1..(n - 1)
    BY <1>1
  <2>6. QED
    BY <2>4, <2>5, ZenonT(30) DEF OneStopShown
<1>7. QED
  BY <1>3, <1>4, <1>5, <1>6

\* Appending one: a stop is shown from then on, alone if none was.
LEMMA LastShown ==
  ASSUME shown \in Seq(Messages), shown' = Append(shown, "stop")
  PROVE  StopShown' /\ (NoStopShown => OneStopShown')
<1> DEFINE n == Len(shown)
<1>1. /\ n \in Nat /\ DOMAIN shown = 1..n /\ DOMAIN shown' = 1..(n + 1)
      /\ shown'[n + 1] = "stop" /\ \A i \in 1..n : shown'[i] = shown[i]
  OBVIOUS
<1>2. \A i \in 1..(n + 1) : i = n + 1 \/ i \in 1..n
  BY <1>1
<1>3. n + 1 \in 1..(n + 1)
  BY <1>1
<1>4. QED
  BY <1>1, <1>2, <1>3 DEF StopShown, NoStopShown, OneStopShown

-----------------------------------------------------------------------------
\* One step of the IDE or of the script keeps the shape of what waits.
LEMMA StepKeepsMessages == ASSUME MessagesTyped, DebuggerNext PROVE MessagesTyped'
<1> USE DEF MessagesTyped, Ones, Commands, Steps
<1>1. CASE \/ \E debugging \in BOOLEAN : RunDebugged(debugging)
           \/ \E line \in Lines : ToggleDebugMarker(line)
           \/ checkendScript \/ TakeBreakpoint
  BY <1>1 DEF RunDebugged, ToggleDebugMarker, checkendScript, TakeBreakpoint
<1>2. ASSUME NEW key \in Ones, SendDebugger(key), UNCHANGED shown PROVE MessagesTyped'
  BY <1>2 DEF SendDebugger
<1>3. CASE \/ \E key \in Commands : Command(key)
           \/ BreakCommand \/ ExitCommand
  BY <1>2, <1>3 DEF Command, BreakCommand, ExitCommand
<1>4. CASE (\E line \in Lines : StopAtLine(line)) \/ BreakIn
  <2>a. shown' = Append(shown, "stop")
    BY <1>4 DEF StopAtLine, BreakIn, StopScript
  <2>1. shown' \in Seq(Messages)
    BY <2>a DEF Messages
  <2>2. debuggerlinda' \in [Ones -> Nat]
    BY <1>4 DEF StopAtLine, BreakIn
  <2>3. QED
    BY <2>1, <2>2
<1>e. CASE ScriptEnds \/ ShowDebugInfo
  <2>1. shown' \in Seq(Messages)
    <3>1. CASE ShowDebugInfo
      BY <3>1 DEF ShowDebugInfo
    <3>2. CASE ScriptEnds
      <4>1. shown' = shown \/ shown' = Append(shown, "error")
        BY <3>2 DEF ScriptEnds
      <4>2. QED
        BY <4>1 DEF Messages
    <3>3. QED
      BY <1>e, <3>1, <3>2
  <2>2. QED
    BY <1>e, <2>1 DEF ScriptEnds, ShowDebugInfo
<1>s. CASE StartDebugged
  BY <1>s DEF StartDebugged
<1>5. CASE TakeContinue \/ TakeStep \/ TakeDebugExit
  BY <1>5 DEF TakeContinue, TakeStep, TakeDebugExit, TakesCommand
<1>6. QED
  BY <1>1, <1>3, <1>4, <1>e, <1>s, <1>5 DEF DebuggerNext

\* One step of the IDE or of the script: only a script that is over is forgotten by the IDE.
LEMMA StepKeepsScriptKnown == ASSUME ScriptKnown, DebuggerNext PROVE ScriptKnown'
<1> USE DEF ScriptKnown
<1>1. CASE \/ \E debugging \in BOOLEAN : RunDebugged(debugging)
           \/ \E key \in Commands : Command(key)
           \/ \E line \in Lines : ToggleDebugMarker(line)
           \/ BreakCommand \/ ExitCommand \/ checkendScript \/ ShowDebugInfo
  BY <1>1 DEF RunDebugged, Command, ToggleDebugMarker, BreakCommand, ExitCommand, checkendScript,
              ShowDebugInfo, ide
<1>2. CASE \/ \E line \in Lines : StopAtLine(line)
           \/ StartDebugged \/ BreakIn \/ TakeBreakpoint \/ ScriptEnds
  BY <1>2 DEF StopAtLine, StartDebugged, BreakIn, StopScript, TakeBreakpoint, ScriptEnds, ide
<1>3. CASE TakeContinue \/ TakeStep \/ TakeDebugExit
  BY <1>3 DEF TakeContinue, TakeStep, TakeDebugExit, TakesCommand, ide
<1>4. QED
  BY <1>1, <1>2, <1>3 DEF DebuggerNext

\* One step of the IDE or of the script moves the token of a stop, but loses none: the menu is
\* switched off only by the command that is sent, or when no script is left to wait.
LEMMA StepKeepsAnswerable ==
  ASSUME MessagesTyped, ScriptKnown, StopIsAnswerable, DebuggerNext PROVE StopIsAnswerable'
<1> USE DEF StopIsAnswerable, ScriptKnown
<1>1. CASE \E debugging \in BOOLEAN : RunDebugged(debugging)
  BY <1>1 DEF RunDebugged
<1>2. ASSUME NEW key \in Commands, Command(key) PROVE StopIsAnswerable'
  <2>1. debuggerlinda'[key] > 0
    BY <1>2 DEF Command, SendDebugger, MessagesTyped, Ones
  <2>2. QED
    BY <1>2, <2>1
<1>3. CASE BreakCommand \/ ExitCommand
  <2>1. \A key \in Commands \cup {"debug_exit"} : debuggerlinda[key] > 0 => debuggerlinda'[key] > 0
    BY <1>3 DEF BreakCommand, ExitCommand, SendDebugger, MessagesTyped, Ones, Commands, Steps
  <2>2. QED
    BY <1>3, <2>1 DEF BreakCommand, ExitCommand, StopShown, ide
<1>4. CASE \E line \in Lines : ToggleDebugMarker(line)
  BY <1>4 DEF ToggleDebugMarker, StopShown
<1>5. CASE checkendScript \/ ScriptEnds \/ StartDebugged
  BY <1>5 DEF checkendScript, ScriptEnds, StartDebugged
<1>6. CASE ShowDebugInfo
  <2>1. shown' = Tail(shown) /\ (StopShown => Head(shown) = "stop" \/ StopShown')
    BY <1>6, FirstShown DEF ShowDebugInfo, MessagesTyped, Messages
  <2>2. QED
    BY <1>6, <2>1 DEF ShowDebugInfo, EnableDebugCommands
<1>7. CASE (\E line \in Lines : StopAtLine(line)) \/ BreakIn
  <2>1. shown' = Append(shown, "stop")
    BY <1>7 DEF StopAtLine, BreakIn, StopScript
  <2>2. QED
    BY <2>1, LastShown DEF MessagesTyped
<1>8. CASE TakeContinue \/ TakeStep \/ TakeDebugExit
  BY <1>8 DEF TakeContinue, TakeStep, TakeDebugExit, TakesCommand
<1>9. CASE TakeBreakpoint
  BY <1>9 DEF TakeBreakpoint, StopShown, ide
<1>10. QED
  BY <1>1, <1>2, <1>3, <1>4, <1>5, <1>6, <1>7, <1>8, <1>9 DEF DebuggerNext

\* One step of the IDE or of the script makes no second token.
LEMMA StepKeepsOneToken == ASSUME MessagesTyped, ScriptKnown, OneToken, DebuggerNext PROVE OneToken'
<1> USE DEF OneToken
<1>1. CASE (\E debugging \in BOOLEAN : RunDebugged(debugging)) \/ checkendScript \/ ScriptEnds \/ TakeDebugExit
  <2>1. (lane' # "running" /\ lane' # "stopped") \/ ~answerable'
    BY <1>1 DEF ScriptKnown, RunDebugged, checkendScript, ScriptEnds, TakeDebugExit
  <2>2. QED
    BY <2>1
<1>2. ASSUME NEW key \in Commands, Command(key) PROVE OneToken'
  <2>1. commandsOn /\ ~commandsOn' /\ shown' = shown /\ lane' = lane /\ answerable' = answerable
        /\ Debuggerbp' = Debuggerbp
    BY <1>2 DEF Command, EnableDebugCommands, dbghistory
  <2>2. debuggerlinda' = [debuggerlinda EXCEPT ![key] = @ + 1] /\ Commands \subseteq Ones
    BY <1>2 DEF Command, SendDebugger, Ones
  <2>3. NoCommand => OneCommand'
    BY <2>2 DEF NoCommand, OneCommand, MessagesTyped
  <2>4. NoStopShown => NoStopShown'
    BY <2>1 DEF NoStopShown
  <2>5. QED
    BY <2>1, <2>3, <2>4
<1>3. CASE \/ BreakCommand \/ ExitCommand \/ TakeBreakpoint
           \/ \E line \in Lines : ToggleDebugMarker(line)
  <2>1. \A k \in Commands : debuggerlinda'[k] = debuggerlinda[k]
    BY <1>3 DEF BreakCommand, ExitCommand, TakeBreakpoint, ToggleDebugMarker, SendDebugger, Commands, Steps,
                Ones, MessagesTyped
  <2>2. UNCHANGED <<commandsOn, shown, lane, answerable, Debuggerbp>>
    BY <1>3 DEF BreakCommand, ExitCommand, TakeBreakpoint, ToggleDebugMarker, ide, dbghistory
  <2>3. (NoCommand => NoCommand') /\ (OneCommand => OneCommand')
    BY <2>1 DEF NoCommand, OneCommand
  <2>4. (NoStopShown => NoStopShown') /\ (OneStopShown => OneStopShown')
    BY <2>2 DEF NoStopShown, OneStopShown
  <2>5. QED
    BY <2>2, <2>3, <2>4
<1>4. CASE ShowDebugInfo
  <2>1. /\ shown # <<>> /\ shown' = Tail(shown) /\ UNCHANGED <<debuggerlinda, lane, answerable, Debuggerbp>>
        /\ IF Head(shown) = "stop" THEN commandsOn' ELSE commandsOn' = commandsOn
    BY <1>4 DEF ShowDebugInfo, EnableDebugCommands, dbghistory
  <2>2. /\ NoStopShown => Head(shown) # "stop" /\ NoStopShown'
        /\ OneStopShown => IF Head(shown) = "stop" THEN NoStopShown' ELSE OneStopShown'
    BY <2>1, FirstShown DEF MessagesTyped
  <2>3. (NoCommand => NoCommand') /\ (OneCommand => OneCommand')
    BY <2>1 DEF NoCommand, OneCommand
  <2>4. QED
    BY <2>1, <2>2, <2>3
<1>5. CASE StartDebugged
  <2>1. /\ Debuggerbp' = Debuggerbp /\ commandsOn' = commandsOn /\ shown' = shown /\ lane' = "running"
        /\ answerable' => ~commandsOn /\ ~StopShown
    BY <1>5 DEF StartDebugged, ide
  <2>2. Debuggerbp.on => NoCommand'
    BY <1>5 DEF StartDebugged, NoCommand, Ones
  <2>3. ~StopShown => NoStopShown'
    BY <2>1 DEF StopShown, NoStopShown
  <2>4. QED
    BY <2>1, <2>2, <2>3
<1>6. CASE (\E line \in Lines : StopAtLine(line)) \/ BreakIn
  <2>1. /\ lane = "running" /\ lane' = "stopped" /\ shown' = Append(shown, "stop")
        /\ UNCHANGED <<commandsOn, answerable, Debuggerbp>>
    BY <1>6 DEF StopAtLine, BreakIn, StopScript, ide, dbghistory
  <2>2. NoCommand => NoCommand'
    BY <1>6 DEF StopAtLine, BreakIn, NoCommand, MessagesTyped, Ones, Commands, Steps
  <2>3. NoStopShown => OneStopShown'
    BY <2>1, LastShown DEF MessagesTyped
  <2>4. QED
    BY <2>1, <2>2, <2>3
<1>7. CASE TakeContinue \/ TakeStep
  <2>1. /\ lane = "stopped" /\ lane' = "running"
        /\ UNCHANGED <<commandsOn, shown, answerable, Debuggerbp>>
    BY <1>7 DEF TakeContinue, TakeStep, TakesCommand, ide, dbghistory
  <2>2. PICK key \in Commands : TakesCommand(key)
    BY <1>7 DEF TakeContinue, TakeStep, Commands
  <2>3. debuggerlinda[key] > 0 /\ debuggerlinda' = [debuggerlinda EXCEPT ![key] = @ - 1] /\ key \in Ones
    BY <2>2 DEF TakesCommand, Ones
  <2>4. ~NoCommand /\ (OneCommand => NoCommand')
    BY <2>3 DEF NoCommand, OneCommand, MessagesTyped, Ones
  <2>5. NoStopShown => NoStopShown'
    BY <2>1 DEF NoStopShown
  <2>6. QED
    BY <2>1, <2>4, <2>5
<1>8. QED
  BY <1>1, <1>2, <1>3, <1>4, <1>5, <1>6, <1>7 DEF DebuggerNext

-----------------------------------------------------------------------------
DebuggerInv == MessagesTyped /\ ScriptKnown /\ StopIsAnswerable /\ OneToken

\* The parts of the invariant hold at first and are kept by every step and stutter.
LEMMA DebuggerInductive == DebuggerSpec => []DebuggerInv
<1>1. DebuggerInit => DebuggerInv
  BY DEF DebuggerInit, DebuggerInv, MessagesTyped, ScriptKnown, StopIsAnswerable, OneToken, Messages
<1>2. DebuggerInv /\ DebuggerNext => DebuggerInv'
  BY StepKeepsMessages, StepKeepsScriptKnown, StepKeepsAnswerable, StepKeepsOneToken DEF DebuggerInv
<1>3. DebuggerInv /\ UNCHANGED dbgvars => DebuggerInv'
  BY DEF DebuggerInv, dbgvars, ide, hook, dbghistory, MessagesTyped, ScriptKnown, StopIsAnswerable, StopShown,
         OneToken, NoStopShown, OneStopShown, NoCommand, OneCommand
<1>4. QED
  BY <1>1, <1>2, <1>3, PTL DEF DebuggerSpec

\* A script that is stopped can always be let go on: no order of stops, stale messages, status
\* polls, cancels and exits leaves it waiting with the menu disabled (debugger.lua:132-170).
THEOREM StopsAreAnswerable == DebuggerSpec => []StopIsAnswerable
BY DebuggerInductive, PTL DEF DebuggerInv

\* A command that waits was given for the stop the script is in, and is the only one, for any
\* number of scripts run one after another (idescriptrun.lua:209-213, debugger.lua:173-195).
THEOREM CommandsMeetTheirStop == DebuggerSpec => []CommandMeetsItsStop
<1>1. OneToken /\ MessagesTyped => CommandMeetsItsStop
  <2> SUFFICES ASSUME OneToken, MessagesTyped, answerable, Debuggerbp.on, lane \in {"running", "stopped"}
               PROVE  CommandMeetsItsStop
    BY DEF CommandMeetsItsStop
  <2>1. CASE NoCommand
    BY <2>1 DEF NoCommand, CommandMeetsItsStop
  <2>2. CASE ~NoCommand
    <3>1. lane = "stopped" /\ ~commandsOn /\ NoStopShown /\ OneCommand
      BY <2>2 DEF OneToken
    <3>2. ~StopShown
      BY <3>1 DEF NoStopShown, StopShown
    <3>3. QED
      BY <3>1, <3>2 DEF OneCommand, CommandMeetsItsStop
  <2>3. QED
    BY <2>1, <2>2
<1>2. QED
  BY <1>1, DebuggerInductive, PTL DEF DebuggerInv

-----------------------------------------------------------------------------
\* The kinds of values that the two lindas, the IDE and the hook hold are kept by every step.
LEMMA StepKeepsDebuggerTypes == ASSUME DebuggerTypeOK, DebuggerNext PROVE DebuggerTypeOK'
<1> DEFINE Msgs == {"add", "delete"} \X Lines
<1> USE DEF DebuggerTypeOK
<1>1. brpoints' \in Seq(Msgs)
  <2>1. ASSUME NEW line \in Lines, ToggleDebugMarker(line) PROVE brpoints' \in Seq(Msgs)
    <3>1. \E m \in Msgs : brpoints' = Append(brpoints, m)
      BY <2>1 DEF ToggleDebugMarker
    <3>2. QED
      BY <3>1
  <2>2. CASE TakeBreakpoint
    BY <2>2 DEF TakeBreakpoint
  <2>3. CASE brpoints' = brpoints \/ brpoints' = <<>>
    <3>1. brpoints \in Seq(Msgs)
      OBVIOUS
    <3>2. <<>> \in Seq(Msgs)
      OBVIOUS
    <3>3. QED
      BY <2>3, <3>1, <3>2, Zenon
  <2>4. QED
    BY <2>1, <2>2, <2>3 DEF DebuggerNext, RunDebugged, Command, BreakCommand, ExitCommand, StopAtLine,
       checkendScript, ShowDebugInfo, StartDebugged, BreakIn, TakeContinue, TakeStep, TakeDebugExit,
       ScriptEnds, StopScript
<1>2. shown' \in Seq(Messages) /\ debuggerlinda' \in [Ones -> Nat]
  BY StepKeepsMessages DEF MessagesTyped, Messages
<1>3. breakpoints' \subseteq Lines
  <2>1. CASE TakeBreakpoint
    <3>1. Head(brpoints) \in Msgs
      BY <2>1 DEF TakeBreakpoint
    <3>2. QED
      BY <2>1, <3>1 DEF TakeBreakpoint, Changed
  <2>2. CASE breakpoints' = breakpoints \/ breakpoints' = {} \/ breakpoints' = Debuggerbp.breakpoints
    BY <2>2
  <2>3. QED
    BY <2>1, <2>2 DEF DebuggerNext, RunDebugged, Command, BreakCommand, ExitCommand, ToggleDebugMarker,
       StopAtLine, checkendScript, ShowDebugInfo, StartDebugged, BreakIn, TakeContinue, TakeStep,
       TakeDebugExit, ScriptEnds, StopScript, hook
<1>4. /\ markers' \subseteq Lines /\ missed' \subseteq Lines
      /\ Debuggerbp' \in [on : BOOLEAN, breakpoints : SUBSET Lines]
  <2>1. CASE \/ \E debugging \in BOOLEAN : RunDebugged(debugging)
             \/ \E line \in Lines : ToggleDebugMarker(line)
    <3>1. ASSUME NEW debugging \in BOOLEAN, RunDebugged(debugging)
          PROVE  /\ markers' = markers /\ missed' \subseteq Lines
                 /\ Debuggerbp' \in [on : BOOLEAN, breakpoints : SUBSET Lines]
      <4>1. (IF debugging THEN markers ELSE {}) \in SUBSET Lines
        OBVIOUS
      <4>2. markers' = markers /\ (missed' = missed \/ missed' = {})
            /\ \/ Debuggerbp' = Debuggerbp
               \/ Debuggerbp' = [on |-> debugging, breakpoints |-> IF debugging THEN markers ELSE {}]
        BY <3>1 DEF RunDebugged
      <4>3. QED
        BY <4>1, <4>2
    <3>2. ASSUME NEW line \in Lines, ToggleDebugMarker(line)
          PROVE  markers' \subseteq Lines /\ missed' \subseteq Lines /\ Debuggerbp' = Debuggerbp
      BY <3>2 DEF ToggleDebugMarker
    <3>3. QED
      BY <2>1, <3>1, <3>2
  <2>2. CASE UNCHANGED <<markers, missed, Debuggerbp>>
    BY <2>2
  <2>3. QED
    BY <2>1, <2>2 DEF DebuggerNext, Command, BreakCommand, ExitCommand, StopAtLine, checkendScript,
       ShowDebugInfo, StartDebugged, BreakIn, TakeContinue, TakeStep, TakeDebugExit, TakeBreakpoint,
       ScriptEnds, StopScript, ide, dbghistory
<1>5. /\ {commandsOn', breakOn', script_lane', hooked', answerable'} \subseteq BOOLEAN
      /\ lane' \in {"none", "asked", "running", "stopped", "over"}
      /\ step' \in {"none", "into", "over"}
  BY DEF DebuggerNext, RunDebugged, Command, BreakCommand, ExitCommand, ToggleDebugMarker,
     StopAtLine, checkendScript, ShowDebugInfo, StartDebugged, BreakIn, TakeContinue, TakeStep, TakesCommand,
     TakeDebugExit, TakeBreakpoint, ScriptEnds, StopScript, EnableDebugCommands, ide, hook, dbghistory
<1>6. QED
  BY <1>1, <1>2, <1>3, <1>4, <1>5 DEF Messages

-----------------------------------------------------------------------------
\* Before the script has taken them over, its breakpoints are those sent with ScriptRun.
BreakpointsFollow ==
    /\ BreakpointsCatchUp
    /\ lane = "asked" /\ Debuggerbp.on =>
          \A line \in Lines \ missed : line \in Debuggerbp.breakpoints <=> line \in markers

\* A message that is appended decides for its line and changes nothing for the others.
LEMMA LastMessageDecides ==
  ASSUME DebuggerTypeOK, NEW line \in Lines, NEW op \in {"add", "delete"},
         brpoints' = Append(brpoints, <<op, line>>), breakpoints' = breakpoints, NEW l \in Lines
  PROVE  WillBreak(l)' <=> IF l = line THEN op = "add" ELSE WillBreak(l)
<1> DEFINE n == Len(brpoints)
<1>1. /\ n \in Nat /\ DOMAIN brpoints = 1..n /\ DOMAIN brpoints' = 1..(n + 1)
      /\ brpoints'[n + 1] = <<op, line>> /\ \A i \in 1..n : brpoints'[i] = brpoints[i]
  BY DEF DebuggerTypeOK
<1>2. n + 1 \in 1..(n + 1) /\ \A i \in 1..(n + 1) : i = n + 1 \/ i \in 1..n
  BY <1>1
<1>3. \A i \in 1..n : brpoints[i] = <<brpoints[i][1], brpoints[i][2]>>
  BY DEF DebuggerTypeOK
<1> HIDE DEF n
<1>4. CASE l = line
  <2>1. ~(\A i \in DOMAIN brpoints' : brpoints'[i][2] # l)
    BY <1>1, <1>2, <1>4
  <2>2. op = "add" => WillBreak(l)'
    BY <1>1, <1>2, <1>4 DEF WillBreak
  <2>3. ASSUME WillBreak(l)' PROVE op = "add"
    <3>1. PICK i \in 1..(n + 1) : brpoints'[i] = <<"add", l>> /\ \A j \in 1..(n + 1) : j > i => brpoints'[j][2] # l
      BY <1>1, <2>1, <2>3 DEF WillBreak
    <3>2. i = n + 1
      BY <1>1, <1>2, <1>4, <3>1
    <3>3. QED
      BY <1>1, <3>1, <3>2
  <2>4. QED
    BY <1>4, <2>2, <2>3
<1>5. CASE l # line
  <2>1. (\A i \in 1..(n + 1) : brpoints'[i][2] # l) <=> (\A i \in 1..n : brpoints[i][2] # l)
    BY <1>1, <1>2, <1>5
  <2>2. ASSUME NEW i \in 1..(n + 1)
        PROVE  (brpoints'[i] = <<"add", l>> /\ \A j \in 1..(n + 1) : j > i => brpoints'[j][2] # l)
               <=> (i \in 1..n /\ brpoints[i] = <<"add", l>> /\ \A j \in 1..n : j > i => brpoints[j][2] # l)
    BY <1>1, <1>2, <1>5
  <2>3. (\E i \in 1..(n + 1) : brpoints'[i] = <<"add", l>> /\ \A j \in 1..(n + 1) : j > i => brpoints'[j][2] # l)
        <=> (\E i \in 1..n : brpoints[i] = <<"add", l>> /\ \A j \in 1..n : j > i => brpoints[j][2] # l)
    <3> DEFINE After(i) == brpoints'[i] = <<"add", l>> /\ \A j \in 1..(n + 1) : j > i => brpoints'[j][2] # l
               Before(i) == brpoints[i] = <<"add", l>> /\ \A j \in 1..n : j > i => brpoints[j][2] # l
    <3>1. \A i \in 1..(n + 1) : After(i) <=> (i \in 1..n /\ Before(i))
      BY <2>2
    <3>2. \A i \in 1..n : i \in 1..(n + 1)
      BY <1>1
    <3> HIDE DEF After, Before
    <3>3. (\E i \in 1..(n + 1) : After(i)) <=> (\E i \in 1..n : Before(i))
      BY <3>1, <3>2
    <3>4. QED
      BY <3>3 DEF After, Before
  <2>4. QED
    <3>1. WillBreak(l) <=> \/ \E i \in 1..n : brpoints[i] = <<"add", l>> /\ \A j \in 1..n : j > i => brpoints[j][2] # l
                           \/ l \in breakpoints /\ \A i \in 1..n : brpoints[i][2] # l
      BY <1>1 DEF WillBreak
    <3>2. WillBreak(l)' <=>
             \/ \E i \in 1..(n + 1) : brpoints'[i] = <<"add", l>> /\ \A j \in 1..(n + 1) : j > i => brpoints'[j][2] # l
             \/ l \in breakpoints /\ \A i \in 1..(n + 1) : brpoints'[i][2] # l
      BY <1>1 DEF WillBreak
    <3>3. WillBreak(l)' <=> WillBreak(l)
      BY <2>1, <2>3, <3>1, <3>2, Zenon
    <3>4. QED
      BY <1>5, <3>3
<1>6. QED
  BY <1>4, <1>5

\* A message that is taken is applied: what the script will stop at stays the same.
LEMMA FirstMessageIsApplied ==
  ASSUME DebuggerTypeOK, TakeBreakpoint, NEW l \in Lines PROVE WillBreak(l)' <=> WillBreak(l)
<1> DEFINE n == Len(brpoints)
           m == Head(brpoints)
<1>1. /\ n \in Nat /\ n > 0 /\ DOMAIN brpoints = 1..n /\ DOMAIN brpoints' = 1..(n - 1) /\ m = brpoints[1]
      /\ \A i \in 1..(n - 1) : brpoints'[i] = brpoints[i + 1]
      /\ breakpoints' = IF m[1] = "add" THEN breakpoints \cup {m[2]} ELSE breakpoints \ {m[2]}
  BY DEF DebuggerTypeOK, TakeBreakpoint, Changed
<1>2. 1 \in 1..n /\ \A i \in 1..(n - 1) : i + 1 \in 1..n
  BY <1>1
<1>3. \A i \in 1..n : i # 1 => i - 1 \in 1..(n - 1) /\ brpoints'[i - 1] = brpoints[i]
  BY <1>1
<1>4. m[1] \in {"add", "delete"} /\ m = <<m[1], m[2]>>
  BY <1>1 DEF DebuggerTypeOK
<1> HIDE DEF n, m
<1> DEFINE Decides(i) == brpoints[i] = <<"add", l>> /\ \A j \in 1..n : j > i => brpoints[j][2] # l
           DecidesNext(i) == brpoints'[i] = <<"add", l>> /\ \A j \in 1..(n - 1) : j > i => brpoints'[j][2] # l
           Silent == \A i \in 1..n : brpoints[i][2] # l
           SilentNext == \A i \in 1..(n - 1) : brpoints'[i][2] # l
<1>5. \A i \in 1..(n - 1) : DecidesNext(i) <=> Decides(i + 1)
  <2> SUFFICES ASSUME NEW i \in 1..(n - 1) PROVE DecidesNext(i) <=> Decides(i + 1)
    OBVIOUS
  <2>1. (\A j \in 1..(n - 1) : j > i => brpoints'[j][2] # l) <=> (\A j \in 1..n : j > i + 1 => brpoints[j][2] # l)
    BY <1>1, <1>2, <1>3
  <2>2. QED
    BY <1>1, <2>1
<1>6. Decides(1) <=> m = <<"add", l>> /\ SilentNext
  <2>1. (\A j \in 1..n : j > 1 => brpoints[j][2] # l) <=> SilentNext
    BY <1>1, <1>2, <1>3
  <2>2. QED
    BY <1>1, <2>1
<1>7. (\E i \in 1..n : Decides(i)) <=> (\E i \in 1..(n - 1) : DecidesNext(i)) \/ (m = <<"add", l>> /\ SilentNext)
  <2>0. \A i \in 1..n : i # 1 => (i - 1) + 1 = i
    BY <1>1
  <2> HIDE DEF Decides, DecidesNext, SilentNext
  <2>1. \A i \in 1..n : i # 1 => (Decides(i) <=> DecidesNext(i - 1))
    <3> SUFFICES ASSUME NEW i \in 1..n, i # 1 PROVE Decides(i) <=> DecidesNext(i - 1)
      OBVIOUS
    <3>1. DecidesNext(i - 1) <=> Decides((i - 1) + 1)
      BY <1>3, <1>5
    <3>2. QED
      BY <2>0, <3>1
  <2>2. ASSUME \E i \in 1..n : Decides(i)
        PROVE  (\E i \in 1..(n - 1) : DecidesNext(i)) \/ (m = <<"add", l>> /\ SilentNext)
    BY <1>3, <1>6, <2>1, <2>2
  <2>3. ASSUME (\E i \in 1..(n - 1) : DecidesNext(i)) \/ (m = <<"add", l>> /\ SilentNext)
        PROVE  \E i \in 1..n : Decides(i)
    BY <1>2, <1>5, <1>6, <2>3
  <2>4. QED
    BY <2>2, <2>3
<1>8. Silent <=> SilentNext /\ m[2] # l
  BY <1>1, <1>2, <1>3
<1>9. /\ WillBreak(l) <=> (\E i \in 1..n : Decides(i)) \/ (l \in breakpoints /\ Silent)
      /\ WillBreak(l)' <=> (\E i \in 1..(n - 1) : DecidesNext(i)) \/ (l \in breakpoints' /\ SilentNext)
  BY <1>1 DEF WillBreak
<1> HIDE DEF Decides, DecidesNext, Silent, SilentNext
<1>10. CASE m[2] = l
  <2>1. (l \in breakpoints') <=> (m = <<"add", l>>)
    BY <1>1, <1>4, <1>10
  <2>2. QED
    BY <1>7, <1>8, <1>9, <1>10, <2>1
<1>11. CASE m[2] # l
  <2>1. ((l \in breakpoints') <=> (l \in breakpoints)) /\ m # <<"add", l>>
    BY <1>1, <1>4, <1>11
  <2>2. QED
    BY <1>7, <1>8, <1>9, <1>11, <2>1
<1>12. QED
  BY <1>10, <1>11

\* One step of the IDE or of the script: markers change only together with a message, or while the
\* script has not begun, and Debugger:init empties the linda when it takes its table over.
LEMMA StepKeepsBreakpoints ==
  ASSUME DebuggerTypeOK, ScriptKnown, BreakpointsFollow, DebuggerNext PROVE BreakpointsFollow'
<1> USE DEF BreakpointsFollow, BreakpointsCatchUp
<1>1. CASE \E debugging \in BOOLEAN : RunDebugged(debugging)
  <2>1. ~(lane \in {"asked", "running", "stopped"})
    BY <1>1 DEF RunDebugged, ScriptKnown
  <2>2. \/ lane' = lane
        \/ /\ lane' = "asked" /\ markers' = markers
           /\ Debuggerbp'.on => Debuggerbp'.breakpoints = markers
    BY <1>1 DEF RunDebugged
  <2>3. QED
    BY <2>1, <2>2
<1>2. ASSUME NEW line \in Lines, ToggleDebugMarker(line) PROVE BreakpointsFollow'
  <2>1. PICK op \in {"add", "delete"} :
           /\ brpoints' = Append(brpoints, <<op, line>>)
           /\ markers' = IF op = "add" THEN markers \cup {line} ELSE markers \ {line}
    BY <1>2 DEF ToggleDebugMarker
  <2>2. /\ UNCHANGED <<lane, Debuggerbp, breakpoints>>
        /\ missed' = IF lane = "asked" THEN missed \cup {line} ELSE missed
    BY <1>2 DEF ToggleDebugMarker, hook
  <2>3. \A l \in Lines : WillBreak(l)' <=> IF l = line THEN op = "add" ELSE WillBreak(l)
    BY <2>1, <2>2, LastMessageDecides
  <2>4. CASE lane = "asked"
    BY <2>1, <2>2, <2>4
  <2>5. CASE lane # "asked"
    BY <2>1, <2>2, <2>3, <2>5
  <2>6. QED
    BY <2>4, <2>5
<1>3. CASE StartDebugged
  <2>1. /\ lane = "asked" /\ lane' = "running" /\ UNCHANGED <<markers, missed, Debuggerbp>>
        /\ Debuggerbp.on => breakpoints' = Debuggerbp.breakpoints /\ brpoints' = <<>>
    BY <1>3 DEF StartDebugged, ide
  <2>2. Debuggerbp.on => \A l \in Lines : WillBreak(l)' <=> l \in Debuggerbp.breakpoints
    BY <2>1 DEF WillBreak
  <2>3. QED
    BY <2>1, <2>2
<1>4. CASE TakeBreakpoint
  <2>1. UNCHANGED <<markers, missed, Debuggerbp, lane>>
    BY <1>4 DEF TakeBreakpoint, ide, dbghistory
  <2>2. \A l \in Lines : WillBreak(l)' <=> WillBreak(l)
    BY <1>4, FirstMessageIsApplied
  <2>3. QED
    BY <2>1, <2>2
<1>5. CASE \/ \E key \in Commands : Command(key)
           \/ \E line \in Lines : StopAtLine(line)
           \/ BreakCommand \/ ExitCommand \/ checkendScript \/ ShowDebugInfo
           \/ BreakIn \/ TakeContinue \/ TakeStep \/ TakeDebugExit \/ ScriptEnds
  <2>1. /\ UNCHANGED <<markers, missed, Debuggerbp, breakpoints, brpoints>>
        /\ \/ lane' = lane \/ lane' = "over"
           \/ lane \in {"running", "stopped"} /\ lane' \in {"running", "stopped"}
    BY <1>5 DEF Command, StopAtLine, BreakCommand, ExitCommand, checkendScript, ShowDebugInfo, BreakIn,
       TakeContinue, TakeStep, TakesCommand, TakeDebugExit, ScriptEnds, StopScript, ide, hook, dbghistory
  <2>2. \A l \in Lines : WillBreak(l)' <=> WillBreak(l)
    BY <2>1 DEF WillBreak
  <2>3. QED
    BY <2>1, <2>2
<1>6. QED
  BY <1>1, <1>2, <1>3, <1>4, <1>5 DEF DebuggerNext

\* The kinds of values, and the breakpoints in step with the markers, always hold.
LEMMA BreakpointsInductive == DebuggerSpec => [](DebuggerTypeOK /\ BreakpointsFollow)
<1>1. ASSUME DebuggerInit PROVE DebuggerTypeOK /\ BreakpointsFollow
  <2>1. brpoints \in Seq({"add", "delete"} \X Lines) /\ shown \in Seq({"stop", "error"})
    <3> DEFINE Msgs == {"add", "delete"} \X Lines
    <3> HIDE DEF Msgs
    <3>1. brpoints \in Seq(Msgs) /\ shown \in Seq({"stop", "error"})
      BY <1>1 DEF DebuggerInit
    <3>2. QED
      BY <3>1 DEF Msgs
  <2>2. QED
    BY <1>1, <2>1 DEF DebuggerInit, DebuggerTypeOK, BreakpointsFollow, BreakpointsCatchUp
<1>2. DebuggerTypeOK /\ BreakpointsFollow /\ DebuggerInv /\ [DebuggerNext]_dbgvars
      => (DebuggerTypeOK /\ BreakpointsFollow)'
  <2>1. CASE DebuggerNext
    BY <2>1, StepKeepsDebuggerTypes, StepKeepsBreakpoints DEF DebuggerInv
  <2>2. CASE UNCHANGED dbgvars
    BY <2>2 DEF dbgvars, ide, hook, dbghistory, DebuggerTypeOK, BreakpointsFollow, BreakpointsCatchUp, WillBreak
  <2>3. QED
    BY <2>1, <2>2
<1>3. QED
  BY <1>1, <1>2, DebuggerInductive, PTL DEF DebuggerSpec

\* The protocol between a stopped script and the IDE is sound for any number of scripts, lines,
\* breaks and exits: stops can be answered, commands meet their stop, and the breakpoints of the
\* script follow the markers of the editor (sc/debugger.lua:105-195, idescriptrun.lua:209-230).
THEOREM DebuggerIsSound == DebuggerSpec => []DebuggerSound
BY BreakpointsInductive, StopsAreAnswerable, CommandsMeetTheirStop, PTL DEF DebuggerSound, BreakpointsFollow
=============================================================================
