------------------------------ MODULE Players ------------------------------
(***************************************************************************)
(* The players of a script on the clock of Metronome (sc/playersppq.lua).  *)
(* In every frame _onFrameCb gives each action player and then each event  *)
(* player its turn.  An event player plays the events of its stream that   *)
(* lie in the window [oldppqPos, ppqPos) and pulls, without a sound, those *)
(* that lie before it; an action player performs the actions that lie in   *)
(* (oldppqPos, ppqPos] or before: it starts and stops players, moves the   *)
(* clock or stops it.  A frame that finds the clock moved backwards resets *)
(* every player first.                                                     *)
(*                                                                         *)
(* A stream is a finite list of event lengths (delta), an action list is   *)
(* in the order of its beats; ppqOffset is 0, and doplay and doneAction    *)
(* are not set.                                                            *)
(***************************************************************************)
EXTENDS Metronome, Sequences

CONSTANTS Streams,  \* for each event player its stream: the deltas of its events
          Actions   \* for each action player its list of [ppq, verb, arg]

EPs == DOMAIN Streams
AEPs == DOMAIN Actions

Verbs == {"START", "STOP", "GOTO", "HALT"}

ASSUME StreamsAssumption == Streams \in Seq(Seq(Nat))
ASSUME ActionsAssumption == Actions \in Seq(Seq([ppq : Int, verb : Verbs, arg : Int]))

\* Beats are all positions that the clock is ever sent to.
ASSUME GoToAssumption ==
    \A a \in AEPs : \A k \in DOMAIN Actions[a] : Actions[a][k].verb = "GOTO" => Actions[a][k].arg \in Beats

\* What is started and stopped are players.
ASSUME StartStopAssumption ==
    \A a \in AEPs : \A k \in DOMAIN Actions[a] : Actions[a][k].verb \in {"START", "STOP"} => Actions[a][k].arg \in EPs

\* A score: its actions are in the order of their beats, and come after the upbeat of theMetro:init.
ASSUME ScoreAssumption ==
    /\ FirstBeat <= 0
    /\ \A a \in AEPs : \A k \in DOMAIN Actions[a] :
          /\ Actions[a][k].ppq > FirstBeat
          /\ \A j \in DOMAIN Actions[a] : j < k => Actions[a][j].ppq <= Actions[a][k].ppq

NegInfinity == -1000    \* -math.huge: before every beat
ASSUME NegInfinityAssumption == FirstBeat > NegInfinity /\ \A beat \in Beats : beat > NegInfinity

VARIABLES
    turn,       \* whose turn it is: the action players, then the event players
    pos,        \* ppqPos of each event player: where its next event lies
    prev,       \* prevppqPos: where its last event lay
    next,       \* the index of its next event in its stream
    MUSPOS,     \* where its stream begins
    active,     \* playing of each event player, 0 or 1
    apos,       \* ppqPos of each action player: where the action it holds lies
    curlist,    \* the index of the action it holds, or 0
    anext,      \* the index of the action it fetches next
    aactive,    \* playing of each action player, 0 or 1
    moved,      \* the clock was moved since the last frame began (not in the program)
    moving,     \* it was moved before the present frame began (not in the program)
    anchor,     \* {bps * time - beat} of the last event played, or {} (not in the program)
    commanded   \* the clock was started, stopped or moved in this frame (not in the program)

eplayers == <<pos, prev, next, MUSPOS, active>>
aplayers == <<apos, curlist, anext, aactive>>
history == <<moved, moving, anchor, commanded>>
vars == <<now, metro, turn, eplayers, aplayers, history>>

Init ==
    /\ MetroInit
    /\ turn = 1
    /\ pos = [p \in EPs |-> 0]
    /\ prev = [p \in EPs |-> NegInfinity]
    /\ next = [p \in EPs |-> 1]
    /\ MUSPOS = [p \in EPs |-> 0]
    /\ active = [p \in EPs |-> 1]
    /\ apos = [a \in AEPs |-> NegInfinity]
    /\ curlist = [a \in AEPs |-> 0]
    /\ anext = [a \in AEPs |-> 1]
    /\ aactive = [a \in AEPs |-> 1]
    /\ moved = FALSE /\ moving = FALSE
    /\ anchor = {}
    /\ commanded = FALSE

-----------------------------------------------------------------------------
\* Mutant of TurnOf: the callbacks are inserted in the other order.
TurnOfReversed(kind, i) == IF kind = "event" THEN i ELSE Len(Streams) + i

\* onFrameCallbacks: first the action players, then the event players.
TurnOf(kind, i) == IF kind = "action" THEN i ELSE Len(Actions) + i

\* EventPlayer:Reset of the players in ps, whose streams begin at beat[p].
Reset(ps, beat) ==
    /\ MUSPOS' = [p \in EPs |-> IF p \in ps THEN beat[p] ELSE MUSPOS[p]]
    /\ pos' = [p \in EPs |-> IF p \in ps THEN beat[p] ELSE pos[p]]
    /\ prev' = [p \in EPs |-> IF p \in ps THEN NegInfinity ELSE prev[p]]
    /\ next' = [p \in EPs |-> IF p \in ps THEN 1 ELSE next[p]]
    /\ active' = [p \in EPs |-> IF p \in ps THEN 1 ELSE active[p]]

\* ActionEventPlayer:Reset of all action players: the action held stays held.
ResetActions ==
    /\ apos' = [a \in AEPs |-> NegInfinity]
    /\ anext' = [a \in AEPs |-> 1]
    /\ aactive' = [a \in AEPs |-> 1]
    /\ UNCHANGED curlist

\* setMetronomLanes up to _onFrameCb.
BeginFrame ==
    /\ FrameStart
    /\ turn' = 1
    /\ IF Backwards
       THEN ResetActions /\ Reset(EPs, MUSPOS)
       ELSE UNCHANGED <<eplayers, aplayers>>
    /\ moving' = moved
    /\ moved' = FALSE
    /\ UNCHANGED <<anchor, commanded>>

\* The user or a handler commands the clock between two frames.
Transport ==
    /\ Handler
    /\ moved' = (moved \/ ppqPos' # ppqPos)
    /\ anchor' = {}
    /\ UNCHANGED <<turn, eplayers, aplayers, moving, commanded>>

-----------------------------------------------------------------------------
(* The turn of an action player: Pull and Play.                            *)

Later(x, y) == IF x >= y THEN x ELSE y

\* Mutant of Due: the end of the window is left to the next frame, as event players do.
DueBefore(a) == aactive[a] = 1 /\ apos[a] < Later(oldppqPos, ppqPos)

Due(a) == aactive[a] = 1 /\ apos[a] <= Later(oldppqPos, ppqPos)

\* Mutant of GoTo: the position is set and the timer runs on.
GoToAlone(beat) == ppqPos' = beat /\ UNCHANGED <<playing, bps, oldtimestamp, timer, ghosts>>

\* GOTO and its relatives send the clock to a beat.
GoTo(beat) == play(bps, beat)

\* What an action does, by its verb.
Perform(act) ==
    \/ /\ act.verb = "START"
       /\ Reset({act.arg}, [p \in EPs |-> act.ppq])
       /\ UNCHANGED <<metro, history>>
    \/ /\ act.verb = "STOP"
       /\ active' = [active EXCEPT ![act.arg] = 0]
       /\ UNCHANGED <<metro, pos, prev, next, MUSPOS, history>>
    \/ /\ act.verb = "GOTO"
       /\ GoTo(act.arg)
       /\ moved' = TRUE /\ commanded' = TRUE /\ anchor' = {}
       /\ UNCHANGED <<oldppqPos, timestamp, tms1, mail, pc, eplayers, moving>>
    \/ /\ act.verb = "HALT"
       /\ stop
       /\ commanded' = TRUE /\ anchor' = {}
       /\ UNCHANGED <<bps, position, timestamp, tms1, mail, pc, eplayers, moved, moving>>

\* NextVals: the next action is held, or the list is at its end.
Fetch(a) ==
    IF anext[a] <= Len(Actions[a])
    THEN /\ curlist' = [curlist EXCEPT ![a] = anext[a]]
         /\ apos' = [apos EXCEPT ![a] = Actions[a][anext[a]].ppq]
         /\ anext' = [anext EXCEPT ![a] = @ + 1]
         /\ UNCHANGED aactive
    ELSE /\ curlist' = [curlist EXCEPT ![a] = 0]
         /\ anext' = [anext EXCEPT ![a] = 1]
         /\ aactive' = [aactive EXCEPT ![a] = 0]
         /\ UNCHANGED apos

\* The action held is performed and the next one fetched.
RunAction(a) ==
    /\ pc = "frame" /\ turn = TurnOf("action", a)
    /\ Due(a)
    /\ IF curlist[a] # 0
       THEN Perform(Actions[a][curlist[a]])
       ELSE UNCHANGED <<metro, eplayers, history>>
    /\ Fetch(a)
    /\ UNCHANGED <<now, turn>>

-----------------------------------------------------------------------------
(* The turn of an event player: Pull and Play.                             *)

\* Mutant of Advance: the stream is asked for one event more.
AdvanceTwice(p) ==
    /\ prev' = [prev EXCEPT ![p] = pos[p]]
    /\ pos' = [pos EXCEPT ![p] = @ + Streams[p][next[p]]]
    /\ next' = [next EXCEPT ![p] = @ + 2]
    /\ UNCHANGED <<MUSPOS, active>>

\* UpdatePos, after an event.
Advance(p) ==
    /\ prev' = [prev EXCEPT ![p] = pos[p]]
    /\ pos' = [pos EXCEPT ![p] = @ + Streams[p][next[p]]]
    /\ next' = [next EXCEPT ![p] = @ + 1]
    /\ UNCHANGED <<MUSPOS, active>>

HasNext(p) == next[p] <= Len(Streams[p])

\* Mutant of InWindow: the window is open at its start, as that of the action players.
InOpenWindow(p) == oldppqPos < pos[p] /\ pos[p] < ppqPos

InWindow(p) == oldppqPos <= pos[p] /\ pos[p] < ppqPos
Before(p) == oldppqPos > pos[p]

EventTurn(p) == pc = "frame" /\ turn = TurnOf("event", p) /\ active[p] = 1

\* Pull: an event that lies before the window is passed over.
PullEvent(p) ==
    /\ EventTurn(p)
    /\ Before(p) /\ HasNext(p)
    /\ Advance(p)
    /\ UNCHANGED <<now, metro, turn, aplayers, history>>

\* Mutant of ScaledTime: the time of the end of the frame is taken for that of its start.
ScaledTimeEnd(beat) == bps * timestamp + (beat - oldppqPos)

\* theMetro:ppq2time of a beat, times bps.
ScaledTime(beat) == bps * oldtimestamp + (beat - oldppqPos)

\* Play: an event that lies in the window is sent, for its time.
PlayEvent(p) ==
    /\ EventTurn(p)
    /\ InWindow(p) /\ HasNext(p)
    /\ Advance(p)
    /\ anchor' = IF commanded THEN {} ELSE {ScaledTime(pos[p]) - pos[p]}
    /\ UNCHANGED <<now, metro, turn, aplayers, moved, moving, commanded>>

\* The stream ends: a player that is pulled stops where it is, one that plays is reset, and
\* stopped too.
StreamEnds(p) ==
    /\ EventTurn(p)
    /\ ~HasNext(p)
    /\ Before(p) \/ InWindow(p)
    /\ next' = [next EXCEPT ![p] = 1]
    /\ active' = [active EXCEPT ![p] = 0]
    /\ IF Before(p)
       THEN UNCHANGED <<pos, prev>>
       ELSE /\ pos' = [pos EXCEPT ![p] = MUSPOS[p]]
            /\ prev' = [prev EXCEPT ![p] = NegInfinity]
    /\ UNCHANGED <<now, metro, turn, MUSPOS, aplayers, history>>

\* The player whose turn it is has no more to do.
TurnOver ==
    \/ \E a \in AEPs : turn = TurnOf("action", a) /\ ~Due(a)
    \/ \E p \in EPs : /\ turn = TurnOf("event", p)
                      /\ active[p] = 1 => ~Before(p) /\ ~InWindow(p)

\* The for loops of onFrameCallbacks: the action players, then the event players.
NextPlayer ==
    /\ pc = "frame"
    /\ TurnOver
    /\ turn' = turn + 1
    /\ UNCHANGED <<now, metro, eplayers, aplayers, history>>

EndFrame ==
    /\ turn > Len(Actions) + Len(Streams)
    /\ FrameEnd
    /\ commanded' = FALSE
    /\ UNCHANGED <<turn, eplayers, aplayers, moved, moving, anchor>>

Next ==
    \/ Tick /\ UNCHANGED <<turn, eplayers, aplayers, history>>
    \/ TimerStrikes /\ UNCHANGED <<turn, eplayers, aplayers, history>>
    \/ Transport
    \/ BeginFrame
    \/ \E a \in AEPs : RunAction(a)
    \/ \E p \in EPs : PullEvent(p) \/ PlayEvent(p) \/ StreamEnds(p)
    \/ NextPlayer
    \/ EndFrame

Spec == Init /\ [][Next]_vars

-----------------------------------------------------------------------------
\* The shape of the state.
TypeOK ==
    /\ MetroTypeOK
    /\ turn \in 1..(Len(Actions) + Len(Streams) + 1)
    /\ pos \in [EPs -> Int] /\ prev \in [EPs -> Int] /\ MUSPOS \in [EPs -> Int]
    /\ next \in [EPs -> Nat] /\ \A p \in EPs : next[p] \in 1..(Len(Streams[p]) + 1)
    /\ active \in [EPs -> {0, 1}]
    /\ apos \in [AEPs -> Int]
    /\ curlist \in [AEPs -> Nat] /\ anext \in [AEPs -> Nat]
    /\ \A a \in AEPs : curlist[a] \in 0..Len(Actions[a]) /\ anext[a] \in 1..(Len(Actions[a]) + 1)
    /\ aactive \in [AEPs -> {0, 1}]
    /\ moved \in BOOLEAN /\ moving \in BOOLEAN /\ commanded \in BOOLEAN
    /\ anchor \subseteq Int

\* No event is passed over without a sound (playersppq.lua:216-246, :289; playerssc.lua:175)
\* unless the clock was moved: not when strikes are lost, the tempo changes, the metronome is
\* stopped and started, or an action starts the player in the middle of a frame.
NoEventPassedOver == [][\A p \in EPs : PullEvent(p) => moving]_vars

\* An action player that sends the clock to other beats.
Moves(a) == \E k \in DOMAIN Actions[a] : Actions[a][k].verb = "GOTO"

\* When STOP(b, player) is performed the player has played none of its events at b or later
\* (playersppq.lua:457-464, :622), although the window of the frame reaches past b, and however the
\* clock was moved, unless by an action player whose turn comes later in the frame: that one may leap
\* past b when the turn of the STOP is over and the events are still to be played.
StopInTime ==
    [][\A a \in AEPs : \A k \in DOMAIN Actions[a] :
          /\ RunAction(a) /\ curlist[a] = k /\ Actions[a][k].verb = "STOP"
          /\ \A b \in AEPs : b > a => ~Moves(b)
          => prev[Actions[a][k].arg] < Actions[a][k].ppq]_vars

\* An action is performed in the frame whose window holds its beat (playersppq.lua:617-639)
\* unless the clock was moved.
ActionInItsWindow ==
    [][\A a \in AEPs :
          RunAction(a) /\ curlist[a] # 0 /\ ~moving =>
             Actions[a][curlist[a]].ppq \in (oldppqPos + 1)..ppqPos]_vars

\* Two events between which nobody commands the clock are as far apart in the time they are
\* sent for as in beats, whichever players they belong to (MetronomLanes.lua:99-102, :173-196).
EvenlyTimed ==
    [][anchor # {} /\ anchor' # {} => anchor' = anchor]_vars

\* The clock that the players command in the middle of a frame is the metronome still: no action
\* leaves it between two of its methods (playersppq.lua:457-485, MetronomLanes.lua:86-97).
ClockIsMetronome == MetroSpec
=============================================================================
