---------------------------- MODULE QueueAction ----------------------------
(***************************************************************************)
(* The delayed-action agenda of a script (sc/queue_action.lua; ide.lua     *)
(* holds a second copy for the IDE thread).  A handler calls               *)
(* QueueAction(interval, action); one single-shot lanes timer posts        *)
(* "QueueAction" to the script's linda and MsgLoop answers it with         *)
(* doQueueAction.                                                          *)
(*                                                                         *)
(* ActionsQueue is a list: QueueAction appends to it and sorts it by       *)
(* descending timestamp (table.sort is not stable), doQueueAction takes    *)
(* whatever is last. What has been called is kept beside it as a history.  *)
(***************************************************************************)
EXTENDS Naturals, Sequences, Functions

CONSTANTS Intervals,    \* the intervals scripts pass to QueueAction, in ticks
          Actions,      \* the action tables a script may queue (each at most once)
          MaxTime,      \* bound on the clock
          MaxRestarts   \* bound on script restarts

ASSUME IntervalsAreNat == Intervals \subseteq Nat
ASSUME BoundsAreNat == MaxTime \in Nat /\ MaxRestarts \in Nat

None == MaxTime + 1     \* "the timer is not armed"

VARIABLES
    now,        \* lanes.now_secs()
    queue,      \* ActionsQueue
    timer,      \* when the lanes timer for "QueueAction" strikes, or None
    mail,       \* "QueueAction" messages in the linda: a timer sets the key, so 0 or 1
    pc,         \* where the script thread is
    ran,        \* history: the actions that have been called, in the order of the calls
    lost,       \* the actions dropped by a restart of the script
    restarts    \* number of restarts so far

vars == <<now, queue, timer, mail, pc, ran, lost, restarts>>

\* An action, the time it is due at, and how many actions had been called when it was queued.
Entry == [act : Actions, timestamp : 0..MaxTime, before : Nat]

Acts(list) == {e.act : e \in Range(list)}

\* The same list in another order.
Reorderings(list) == {[i \in DOMAIN list |-> list[p[i]]] : p \in Bijection(DOMAIN list, DOMAIN list)}

\* Mutant of Sortings: the sort of QueueAction is left out.
SortLeftOut(list) == {list}

\* What table.sort may make of a list with "a.timestamp > b.timestamp": none comes before one
\* that is due later.
Sortings(list) ==
    {sorted \in Reorderings(list) :
        \A i, j \in DOMAIN list : i < j => ~(sorted[j].timestamp > sorted[i].timestamp)}

\* ActionsQueue[#ActionsQueue], and what table.remove leaves.
LastOf(list) == list[Len(list)]
AllButLast(list) == SubSeq(list, 1, Len(list) - 1)

\* lanes.timer(linda, "QueueAction", d, 0) for a delay d = due - now: a zero delay
\* sets the key at once and clears the timer, any other one re-arms it.
ArmTimer(due) ==
    IF due = now
    THEN mail' = 1 /\ timer' = None
    ELSE timer' = due /\ UNCHANGED mail

Known == Acts(queue) \cup Acts(ran) \cup lost

-----------------------------------------------------------------------------
Init ==
    /\ now = 0
    /\ queue = <<>>
    /\ timer = None
    /\ mail = 0
    /\ pc = "idle"
    /\ ran = <<>>
    /\ lost = {}
    /\ restarts = 0

\* Time passes, also while a handler runs.
Tick ==
    /\ now < MaxTime
    /\ now' = now + 1
    /\ UNCHANGED <<queue, timer, mail, pc, ran, lost, restarts>>

\* QueueAction(interval, action), called by any handler or by a running action.
QueueAction(a, interval) ==
    /\ pc \in {"idle", "action"}
    /\ a \notin Known
    /\ now + interval <= MaxTime
    /\ queue' \in Sortings(Append(queue, [act |-> a, timestamp |-> now + interval, before |-> Len(ran)]))
    /\ ArmTimer(now + interval)
    /\ UNCHANGED <<now, pc, ran, lost, restarts>>

\* The timer lane posts the message; the key is set, so an unread one is replaced.
TimerStrikes ==
    /\ timer <= now
    /\ timer' = None
    /\ mail' = 1
    /\ UNCHANGED <<now, queue, pc, ran, lost, restarts>>

\* MsgLoop receives "QueueAction" and calls doQueueAction.
Receive ==
    /\ pc = "idle"
    /\ mail = 1
    /\ mail' = 0
    /\ pc' = "loop"
    /\ UNCHANGED <<now, queue, timer, ran, lost, restarts>>

\* Mutant of RunAction: table.remove is left out, or comes after the call.
RunActionKeeps ==
    /\ pc = "loop"
    /\ queue # <<>>
    /\ LastOf(queue).timestamp <= now
    /\ ran' = Append(ran, LastOf(queue))
    /\ pc' = "action"
    /\ UNCHANGED <<now, queue, timer, mail, lost, restarts>>

\* One turn of the while loop: the last action is due, removed, and called.
RunAction ==
    /\ pc = "loop"
    /\ queue # <<>>
    /\ LastOf(queue).timestamp <= now
    /\ queue' = AllButLast(queue)
    /\ ran' = Append(ran, LastOf(queue))
    /\ pc' = "action"
    /\ UNCHANGED <<now, timer, mail, lost, restarts>>

\* The action returns and the loop looks at the queue again.
ActionReturns ==
    /\ pc = "action"
    /\ pc' = "loop"
    /\ UNCHANGED <<now, queue, timer, mail, ran, lost, restarts>>

\* The loop ends: no action, or the last one is not due yet.
LoopEnds ==
    /\ pc = "loop"
    /\ queue # <<>> => LastOf(queue).timestamp > now
    /\ pc' = "rearm"
    /\ UNCHANGED <<now, queue, timer, mail, ran, lost, restarts>>

\* Mutant of Rearm: doQueueAction returns without arming the timer again.
RearmMissing == pc = "rearm" /\ pc' = "idle" /\ UNCHANGED <<now, queue, timer, mail, ran, lost, restarts>>

\* if #ActionsQueue > 0 then lanes.timer(..., timestamp - now_secs(), 0): now_secs() is read
\* again, and the timestamp may have been reached or passed since the test of the loop.
Rearm ==
    /\ pc = "rearm"
    /\ pc' = "idle"
    /\ IF queue = <<>> THEN UNCHANGED <<timer, mail>> ELSE ArmTimer(LastOf(queue).timestamp)
    /\ UNCHANGED <<now, queue, ran, lost, restarts>>

\* The script is cancelled or ends and another is started: pmain empties the linda, the new
\* lane has an ActionsQueue of its own, and a timer left armed by the old one still strikes.
Restart ==
    /\ restarts < MaxRestarts
    /\ restarts' = restarts + 1
    /\ lost' = lost \cup Acts(queue)
    /\ queue' = <<>>
    /\ mail' = 0
    /\ pc' = "idle"
    /\ UNCHANGED <<now, timer, ran>>

Next ==
    \/ Tick
    \/ \E a \in Actions, i \in Intervals : QueueAction(a, i)
    \/ TimerStrikes
    \/ Receive
    \/ RunAction
    \/ ActionReturns
    \/ LoopEnds
    \/ Rearm
    \/ Restart

\* The clock runs, the timer lane is a thread of its own, and the script's handlers return.
Fairness ==
    /\ WF_vars(Tick)
    /\ WF_vars(TimerStrikes)
    /\ WF_vars(Receive \/ RunAction \/ ActionReturns \/ LoopEnds \/ Rearm)

Spec == Init /\ [][Next]_vars
FairSpec == Spec /\ Fairness

-----------------------------------------------------------------------------
\* The shape of the state.
TypeOK ==
    /\ now \in 0..MaxTime
    /\ queue \in Seq(Entry)
    /\ timer \in 0..None
    /\ mail \in {0, 1}
    /\ pc \in {"idle", "loop", "action", "rearm"}
    /\ ran \in Seq(Entry)
    /\ lost \subseteq Actions
    /\ restarts \in 0..MaxRestarts

\* A wakeup on the way that is of use to some queued action: either the message is in the
\* linda or the timer strikes no later than the timestamp of a queued action.
WakeupOnTheWay ==
    \/ mail = 1
    \/ \E e \in Range(queue) : timer <= e.timestamp

\* No lost wakeup (queue_action.lua:7 and :18): while the script waits in MsgLoop with actions
\* queued, a wakeup is on the way, although every call of QueueAction overwrites the one timer.
NoLostWakeup == pc = "idle" /\ queue # <<>> => WakeupOnTheWay

\* An action is queued, called or dropped, only one of these and only once; no handler or
\* interleaving of QueueAction with the loop duplicates or loses one (queue_action.lua:13-15).
RunAtMostOnce ==
    /\ \A i, j \in DOMAIN queue : queue[i].act = queue[j].act => i = j
    /\ \A i, j \in DOMAIN ran : ran[i].act = ran[j].act => i = j
    /\ Acts(queue) \cap (Acts(ran) \cup lost) = {}
    /\ Acts(ran) \cap lost = {}

\* Over the whole life of the script actions are called in the order of the times they are due at,
\* whatever the order and the nesting of the calls that queue them: one that is called after another
\* that was due later had not been queued yet when that one was called (queue_action.lua:4-6, :11-15).
RunInOrder ==
    \A i, j \in DOMAIN ran : i < j /\ ran[i].timestamp > ran[j].timestamp => ran[j].before >= i

\* Whatever is queued is executed, unless the script is restarted first (queue_action.lua:17-19).
EveryActionRuns ==
    \A a \in Actions : (a \in Acts(queue)) ~> (a \in Acts(ran) \cup lost)
=============================================================================
