---------------------------- MODULE PlayersProofs ----------------------------
(***************************************************************************)
(* A script with players implements the metronome: whatever streams and    *)
(* actions it has, the players command the clock of their frames through   *)
(* its methods alone.  So what is shown first, of the metronome on its     *)
(* own, whose environment may command it at any time of a frame, holds of  *)
(* a script with players.  Then the players themselves: events are as far  *)
(* apart in time as in beats, none is passed over, and actions come in     *)
(* their frames and before the events of their beats, for any score.       *)
(***************************************************************************)
EXTENDS Players, TLAPS

------------------------------------------------------------------------------
(* The metronome, for every period, set of tempos and set of positions: the clock of a frame stays
   near the present, a stopped metronome plays one frame more at most, and position and time go
   together. *)

USE DEF Never

\* The constants as the provers want them.
LEMMA Constants ==
    /\ Period \in Int /\ Period > 0
    /\ MaxTime \in Int /\ MaxTime >= 0
    /\ \A b \in Tempos : b \in Int
    /\ \A b \in Beats : b \in Int
    /\ FirstBeat \in Int
  BY PeriodAssumption, TemposAssumption, BeatsAssumption, MaxTimeAssumption

\* A strike, one or more periods after the last, is the first that lies in the future.
LEMMA NextStrike ==
    ASSUME NEW k \in 1..Never
    PROVE  k * Period \in Int /\ k * Period >= Period
<1>1. k \in Int /\ k >= 1
  BY Constants
<1>2. k * Period = Period + (k - 1) * Period /\ (k - 1) * Period >= 0
  BY <1>1, Constants
<1>3. QED
  BY <1>1, <1>2, Constants

\* The shape of the state is kept by every step of the metronome.
LEMMA MetroTyping == MetroTypeOK /\ [MetroNext]_mvars => MetroTypeOK'
<1> SUFFICES ASSUME MetroTypeOK, [MetroNext]_mvars
             PROVE  MetroTypeOK'
  OBVIOUS
<1> USE Constants DEF MetroTypeOK
<1>1. CASE Tick
  BY <1>1 DEF Tick, metro, position, clock
<1>2. CASE TimerStrikes
  <2>1. PICK k \in 1..Never : /\ timer' = timer + k * Period
                              /\ timer' - Period <= now
                              /\ now < timer'
    BY <1>2 DEF TimerStrikes
  <2>2. timer' \in 0..Never
    BY <2>1, NextStrike
  <2>3. QED
    BY <1>2, <2>2 DEF TimerStrikes, position
<1>3. CASE Handler \/ InFrame
  <2>1. Command
    BY <1>3 DEF Handler, InFrame
  <2>2. CASE start /\ UNCHANGED <<bps, ppqPos>>
    BY <2>1, <2>2 DEF Command, start
  <2>3. CASE stop /\ UNCHANGED <<bps, ppqPos>>
    BY <2>1, <2>3 DEF Command, stop
  <2>4. ASSUME NEW tempo \in Tempos, play(tempo, ppqPos)
        PROVE  MetroTypeOK'
    BY <2>1, <2>4 DEF Command, play, start, stop
  <2>5. ASSUME NEW beat \in Beats, play(bps, beat)
        PROVE  MetroTypeOK'
    BY <2>1, <2>5 DEF Command, play, start, stop
  <2>6. QED
    BY <2>1, <2>2, <2>3, <2>4, <2>5 DEF Command
<1>4. CASE FrameStart
  <2>1. ppqPos' \in Int /\ timestamp' \in Nat
    BY <1>4 DEF FrameStart, Catchup, frame
  <2>2. QED
    BY <1>4, <2>1 DEF FrameStart
<1>5. CASE FrameEnd
  BY <1>5 DEF FrameEnd, position
<1>6. CASE UNCHANGED mvars
  BY <1>6 DEF mvars, metro, position, clock
<1>7. QED
  BY <1>1, <1>2, <1>3, <1>4, <1>5, <1>6 DEF MetroNext

LEMMA MetroInitTyped == MetroInit => MetroTypeOK
  BY Constants DEF MetroInit, MetroTypeOK

\* The state of the metronome has its shape in every behaviour.
THEOREM MetroTypeCorrect == MetroSpec => []MetroTypeOK
  BY MetroInitTyped, MetroTyping, PTL DEF MetroSpec

-----------------------------------------------------------------------------
(* The clock.  KeepsTime is about the frame being played; it is kept       *)
(* because where the next frame begins is bounded by when its strike comes *)
(* (NextFrameInTime), whether the timer is late, early or armed again.     *)

ClockInv == MetroTypeOK /\ KeepsTime /\ NextFrameInTime

LEMMA StartKeepsClock ==
    ASSUME ClockInv, start,
           UNCHANGED <<now, timestamp, tms1, mail, pc>>
    PROVE  KeepsTime' /\ NextFrameInTime'
<1> USE Constants DEF ClockInv, MetroTypeOK, KeepsTime, NextFrameInTime, start
<1>1. CASE pc = "idle"
  BY <1>1
<1>2. CASE pc = "frame"
  BY <1>2
<1>3. QED
  BY <1>1, <1>2

LEMMA StopKeepsClock ==
    ASSUME ClockInv, stop,
           UNCHANGED <<now, timestamp, tms1, mail, pc>>
    PROVE  KeepsTime' /\ NextFrameInTime'
  BY Constants DEF ClockInv, MetroTypeOK, KeepsTime, NextFrameInTime, stop

LEMMA ClockInductive == ClockInv /\ [MetroNext]_mvars => ClockInv'
<1> SUFFICES ASSUME ClockInv, [MetroNext]_mvars
             PROVE  KeepsTime' /\ NextFrameInTime'
  BY MetroTyping DEF ClockInv
<1> USE Constants DEF ClockInv, MetroTypeOK, KeepsTime, NextFrameInTime
<1>1. CASE Tick
  BY <1>1 DEF Tick, metro, position, clock
<1>2. CASE TimerStrikes
  <2>1. PICK k \in 1..Never : /\ timer' = timer + k * Period
                              /\ timer' - Period <= now
                              /\ now < timer'
    BY <1>2 DEF TimerStrikes
  <2>2. timer <= now /\ timer' \in Int /\ timer' >= timer + Period
    BY <1>2, <2>1, NextStrike DEF TimerStrikes
  <2>3. QED
    BY <1>2, <2>1, <2>2 DEF TimerStrikes, position
<1>3. CASE Handler \/ InFrame
  <2>1. /\ Command
        /\ UNCHANGED <<now, timestamp, tms1, mail, pc>>
    BY <1>3 DEF Handler, InFrame, Command
  <2>2. start \/ stop
    BY <2>1 DEF Command, play
  <2>3. QED
    BY <2>1, <2>2, StartKeepsClock, StopKeepsClock
<1>4. CASE FrameStart
  <2>1. oldtimestamp < timer /\ oldtimestamp < now + Period
    BY <1>4 DEF FrameStart
  <2>2. \/ timestamp' = now
        \/ timestamp' = oldtimestamp + Period /\ now - (oldtimestamp + Period) < Period
    BY <1>4 DEF FrameStart, Catchup
  <2>3. QED
    BY <1>4, <2>1, <2>2 DEF FrameStart
<1>5. CASE FrameEnd
  BY <1>5 DEF FrameEnd, position
<1>6. CASE UNCHANGED mvars
  BY <1>6 DEF mvars, metro, position, clock
<1>7. QED
  BY <1>1, <1>2, <1>3, <1>4, <1>5, <1>6 DEF MetroNext

LEMMA ClockInitially == MetroInit => ClockInv
  BY Constants, MetroInitTyped DEF MetroInit, ClockInv, KeepsTime, NextFrameInTime

\* However late the timer strikes and whatever is commanded, a frame ends less than a period
\* before and less than two periods after the time it began.
THEOREM FramesKeepTime == MetroSpec => []KeepsTime
<1>1. ClockInv => KeepsTime
  BY DEF ClockInv
<1>2. QED
  BY <1>1, ClockInitially, ClockInductive, PTL DEF MetroSpec

\* Where the next frame begins is bounded by when its strike comes.
THEOREM NextFramesInTime == MetroSpec => []NextFrameInTime
<1>1. ClockInv => NextFrameInTime
  BY DEF ClockInv
<1>2. QED
  BY <1>1, ClockInitially, ClockInductive, PTL DEF MetroSpec

-----------------------------------------------------------------------------
(* Frames played while stopped: the timer of a stopped metronome is not    *)
(* armed, so that only a message already in the linda can begin a frame.   *)

GhostInv ==
    /\ playing = 1 => ghosts = 0
    /\ playing = 0 => timer = Never /\ ghosts + mail <= 1

LEMMA GhostInductive == MetroTypeOK /\ GhostInv /\ [MetroNext]_mvars => GhostInv'
<1> SUFFICES ASSUME MetroTypeOK, GhostInv, [MetroNext]_mvars
             PROVE  GhostInv'
  OBVIOUS
<1> USE Constants DEF MetroTypeOK, GhostInv
<1>1. CASE Tick
  BY <1>1 DEF Tick, metro, clock
<1>2. CASE TimerStrikes
  <2>1. playing = 1
    BY <1>2 DEF TimerStrikes
  <2>2. QED
    BY <1>2, <2>1 DEF TimerStrikes
<1>3. CASE Handler \/ InFrame
  <2>1. UNCHANGED mail /\ (start \/ stop)
    BY <1>3 DEF Handler, InFrame, Command, play
  <2>2. CASE start
    BY <2>1, <2>2 DEF start
  <2>3. CASE stop
    BY <2>1, <2>3 DEF stop
  <2>4. QED
    BY <2>1, <2>2, <2>3
<1>4. CASE FrameStart
  BY <1>4 DEF FrameStart
<1>5. CASE FrameEnd
  BY <1>5 DEF FrameEnd
<1>6. CASE UNCHANGED mvars
  BY <1>6 DEF mvars, metro, clock
<1>7. QED
  BY <1>1, <1>2, <1>3, <1>4, <1>5, <1>6 DEF MetroNext

\* After stop at most one frame is played until the metronome is started again.
THEOREM OneGhostFrameOnly == MetroSpec => []OneGhostFrame
<1>1. MetroInit => GhostInv
  BY DEF MetroInit, GhostInv
<1>2. MetroTypeOK /\ GhostInv => OneGhostFrame
  BY DEF MetroTypeOK, GhostInv, OneGhostFrame
<1>3. QED
  BY <1>1, <1>2, GhostInductive, MetroTypeCorrect, PTL DEF MetroSpec

-----------------------------------------------------------------------------
(* Position and time.                                                      *)

\* The correction for lost strikes adds to the position what it adds to the time.
LEMMA FrameMoves ==
    ASSUME MetroTypeOK, FrameStart
    PROVE  ppqPos' - ppqPos = bps * (timestamp' - oldtimestamp)
<1> DEFINE lost == now - (oldtimestamp + Period)
<1>1. /\ bps \in Int /\ ppqPos \in Int /\ oldtimestamp \in Int /\ now \in Int
      /\ Period \in Int /\ lost \in Int
  BY Constants DEF MetroTypeOK
<1>2. CASE lost >= Period
  <2>1. timestamp' = now /\ ppqPos' = ppqPos + bps * Period + lost * bps
    BY <1>2 DEF FrameStart, Catchup, frame
  <2>2. timestamp' - oldtimestamp = Period + lost
    BY <1>1, <2>1
  <2>3. bps * (Period + lost) = bps * Period + lost * bps
    BY <1>1
  <2>4. QED
    BY <1>1, <2>1, <2>2, <2>3
<1>3. CASE ~(lost >= Period)
  <2>1. timestamp' = oldtimestamp + Period /\ ppqPos' = ppqPos + bps * Period
    BY <1>3 DEF FrameStart, Catchup, frame
  <2>2. QED
    BY <1>1, <2>1
<1>4. QED
  BY <1>2, <1>3

\* A frame moves the position by the beats of the time it takes, lost strikes included.
THEOREM PositionAndTime == MetroSpec => PositionKeepsTime
<1>1. MetroTypeOK => (FrameStart => ppqPos' - ppqPos = bps * (timestamp' - oldtimestamp))
  BY FrameMoves
<1>2. QED
  BY <1>1, MetroTypeCorrect, PTL DEF MetroSpec, PositionKeepsTime

------------------------------------------------------------------------------
(* The players on the clock *)

\* A frame's GOTO and HALT are commands, all other actions leave the clock alone.
LEMMA PerformCommandsClock ==
    ASSUME NEW a \in AEPs, NEW k \in DOMAIN Actions[a], pc = "frame",
           Perform(Actions[a][k]), UNCHANGED now
    PROVE  InFrame \/ UNCHANGED mvars
<1> DEFINE act == Actions[a][k]
<1>1. CASE act.verb = "GOTO"
  <2>1. act.arg \in Beats
    BY <1>1, GoToAssumption
  <2>2. play(bps, act.arg) /\ UNCHANGED <<now, oldppqPos, timestamp, tms1, mail, pc>>
    BY <1>1 DEF Perform, GoTo
  <2>3. QED
    BY <2>1, <2>2 DEF InFrame, Command
<1>2. CASE act.verb = "HALT"
  <2>1. stop /\ UNCHANGED <<now, bps, ppqPos, oldppqPos, timestamp, tms1, mail, pc>>
    BY <1>2 DEF Perform, position
  <2>2. QED
    BY <2>1 DEF InFrame, Command
<1>3. CASE act.verb \in {"START", "STOP"}
  BY <1>3 DEF Perform, mvars
<1>4. act.verb \in {"START", "STOP", "GOTO", "HALT"}
  BY DEF Perform
<1>5. QED
  BY <1>1, <1>2, <1>3, <1>4

\* An action player holds an action of its list or none, and will fetch one of the list or its end.
HeldInv ==
    /\ curlist \in [AEPs -> Nat] /\ anext \in [AEPs -> Nat \ {0}]
    /\ \A a \in AEPs : curlist[a] # 0 => curlist[a] \in DOMAIN Actions[a]

\* Fetching keeps the action held one of the list.
LEMMA FetchHolds == ASSUME NEW a \in AEPs, HeldInv, Fetch(a) PROVE HeldInv'
<1>1. Actions[a] \in Seq([ppq : Int, verb : Verbs, arg : Int])
  BY ActionsAssumption DEF AEPs
<1>2. Len(Actions[a]) \in Nat /\ DOMAIN Actions[a] = 1..Len(Actions[a])
  BY <1>1
<1>3. CASE anext[a] <= Len(Actions[a])
  <2>1. anext[a] \in Nat \ {0}
    BY DEF HeldInv
  <2>2. /\ curlist' = [curlist EXCEPT ![a] = anext[a]]
        /\ anext' = [anext EXCEPT ![a] = anext[a] + 1]
    BY <1>3 DEF Fetch
  <2>3. anext[a] + 1 \in Nat \ {0} /\ anext[a] \in DOMAIN Actions[a]
    BY <1>2, <1>3, <2>1
  <2>4. curlist' \in [AEPs -> Nat] /\ anext' \in [AEPs -> Nat \ {0}]
    BY <2>1, <2>2, <2>3 DEF HeldInv
  <2>5. ASSUME NEW b \in AEPs, curlist'[b] # 0 PROVE curlist'[b] \in DOMAIN Actions[b]
    BY <2>2, <2>3, <2>5 DEF HeldInv
  <2>6. QED
    BY <2>4, <2>5 DEF HeldInv
<1>4. CASE ~(anext[a] <= Len(Actions[a]))
  <2>1. curlist' = [curlist EXCEPT ![a] = 0] /\ anext' = [anext EXCEPT ![a] = 1]
    BY <1>4 DEF Fetch
  <2>2. curlist' \in [AEPs -> Nat] /\ anext' \in [AEPs -> Nat \ {0}]
    BY <2>1 DEF HeldInv
  <2>3. ASSUME NEW b \in AEPs, curlist'[b] # 0 PROVE curlist'[b] \in DOMAIN Actions[b]
    BY <2>1, <2>3 DEF HeldInv
  <2>4. QED
    BY <2>2, <2>3 DEF HeldInv
<1>5. QED
  BY <1>3, <1>4

\* All other steps leave what is held alone; a reset only fetches from the beginning again.
LEMMA NextHolds == HeldInv /\ [Next]_vars => HeldInv'
<1> SUFFICES ASSUME HeldInv, [Next]_vars PROVE HeldInv'
  OBVIOUS
<1>1. CASE UNCHANGED aplayers
  BY <1>1 DEF aplayers, HeldInv
<1>2. CASE ResetActions
  BY <1>2 DEF ResetActions, HeldInv
<1>3. ASSUME NEW a \in AEPs, RunAction(a) PROVE HeldInv'
  BY <1>3, FetchHolds DEF RunAction
<1>4. CASE BeginFrame
  BY <1>1, <1>2, <1>4 DEF BeginFrame
<1>5. CASE Transport \/ NextPlayer \/ EndFrame
  BY <1>1, <1>5 DEF Transport, NextPlayer, EndFrame
<1>6. CASE \E p \in EPs : PullEvent(p) \/ PlayEvent(p) \/ StreamEnds(p)
  BY <1>1, <1>6 DEF PullEvent, PlayEvent, StreamEnds
<1>7. CASE UNCHANGED vars
  BY <1>1, <1>7 DEF vars
<1>8. QED
  BY <1>1, <1>3, <1>4, <1>5, <1>6, <1>7 DEF Next

\* Whatever an action player holds is an action of its list.
THEOREM HeldIsOfList == Spec => []HeldInv
<1>1. Init => HeldInv
  BY DEF Init, HeldInv
<1>2. QED
  BY <1>1, NextHolds, PTL DEF Spec

\* Every step of a script with players is a step of the metronome or leaves it alone.
LEMMA PlayersStepClock == HeldInv /\ [Next]_vars => [MetroNext]_mvars
<1> SUFFICES ASSUME HeldInv, [Next]_vars PROVE MetroNext \/ UNCHANGED mvars
  OBVIOUS
<1>1. CASE Tick \/ TimerStrikes
  BY <1>1 DEF MetroNext
<1>2. CASE Transport
  BY <1>2 DEF Transport, MetroNext
<1>3. CASE BeginFrame
  BY <1>3 DEF BeginFrame, MetroNext
<1>4. ASSUME NEW a \in AEPs, RunAction(a)
      PROVE  MetroNext \/ UNCHANGED mvars
  <2>1. CASE curlist[a] # 0
    <3>1. curlist[a] \in DOMAIN Actions[a]
      BY <2>1 DEF HeldInv
    <3>2. QED
      BY <1>4, <2>1, <3>1, PerformCommandsClock DEF RunAction, MetroNext
  <2>2. CASE curlist[a] = 0
    BY <1>4, <2>2 DEF RunAction, mvars
  <2>3. QED
    BY <2>1, <2>2
<1>5. CASE NextPlayer \/ \E p \in EPs : PullEvent(p) \/ PlayEvent(p) \/ StreamEnds(p)
  BY <1>5 DEF NextPlayer, PullEvent, PlayEvent, StreamEnds, mvars
<1>6. CASE EndFrame
  BY <1>6 DEF EndFrame, MetroNext
<1>7. CASE UNCHANGED vars
  BY <1>7 DEF vars, mvars
<1>8. QED
  BY <1>1, <1>2, <1>3, <1>4, <1>5, <1>6, <1>7 DEF Next

\* A script with players implements the metronome, through any streams and actions.
THEOREM ClockOfPlayersIsMetronome == Spec => ClockIsMetronome
<1>1. Init => MetroInit
  BY DEF Init
<1>2. QED
  BY <1>1, HeldIsOfList, PlayersStepClock, PTL DEF Spec, MetroSpec, ClockIsMetronome

\* Its frames keep time, a stopped clock plays one frame more at most, and positions go with time.
THEOREM PlayersKeepTime == Spec => []KeepsTime /\ []OneGhostFrame /\ PositionKeepsTime
  BY ClockOfPlayersIsMetronome, FramesKeepTime, OneGhostFrameOnly, PositionAndTime, PTL DEF ClockIsMetronome
-----------------------------------------------------------------------------
(* The players on their own: the shape of their state.                     *)

\* What a sequence of elements of a set holds.
LEMMA ElementOfSeq == ASSUME NEW S, NEW s \in Seq(S), NEW i \in DOMAIN s PROVE s[i] \in S
OBVIOUS

\* Streams and lists of actions as sequences of numbers and records.
LEMMA Scores ==
    /\ Len(Actions) \in Nat /\ AEPs = 1..Len(Actions)
    /\ Len(Streams) \in Nat /\ EPs = 1..Len(Streams)
    /\ \A p \in EPs : Len(Streams[p]) \in Nat /\ \A k \in 1..Len(Streams[p]) : Streams[p][k] \in Nat
    /\ \A a \in AEPs : /\ Len(Actions[a]) \in Nat /\ DOMAIN Actions[a] = 1..Len(Actions[a])
                       /\ \A k \in DOMAIN Actions[a] : Actions[a][k].ppq \in Int /\ Actions[a][k].arg \in Int
<1>1. ASSUME NEW p \in EPs
      PROVE  Len(Streams[p]) \in Nat /\ \A k \in 1..Len(Streams[p]) : Streams[p][k] \in Nat
  <2>1. Streams[p] \in Seq(Nat)
    BY StreamsAssumption DEF EPs
  <2>2. QED
    BY <2>1
<1>2. ASSUME NEW a \in AEPs
      PROVE  /\ Len(Actions[a]) \in Nat /\ DOMAIN Actions[a] = 1..Len(Actions[a])
             /\ \A k \in DOMAIN Actions[a] : Actions[a][k].ppq \in Int /\ Actions[a][k].arg \in Int
  <2>1. Actions[a] \in Seq([ppq : Int, verb : Verbs, arg : Int])
    BY ActionsAssumption DEF AEPs
  <2>2. Len(Actions[a]) \in Nat /\ DOMAIN Actions[a] = 1..Len(Actions[a])
    BY <2>1
  <2>3. ASSUME NEW k \in DOMAIN Actions[a]
        PROVE  Actions[a][k].ppq \in Int /\ Actions[a][k].arg \in Int
    <3>1. Actions[a][k] \in [ppq : Int, verb : Verbs, arg : Int]
      BY <2>1, <2>3, ElementOfSeq, Zenon
    <3>2. QED
      BY <3>1
  <2>4. QED
    BY <2>2, <2>3
<1>3. Len(Actions) \in Nat /\ AEPs = 1..Len(Actions)
  BY ActionsAssumption DEF AEPs
<1>4. Len(Streams) \in Nat /\ EPs = 1..Len(Streams)
  BY StreamsAssumption DEF EPs
<1>5. QED
  BY <1>1, <1>2, <1>3, <1>4

\* Resetting players to beats that are numbers keeps the shape of their state.
LEMMA ResetTyped ==
    ASSUME TypeOK, NEW ps, NEW beat, Reset(ps, beat), \A p \in EPs : p \in ps => beat[p] \in Int
    PROVE  /\ pos' \in [EPs -> Int] /\ prev' \in [EPs -> Int] /\ MUSPOS' \in [EPs -> Int]
           /\ next' \in [EPs -> Nat] /\ \A p \in EPs : next'[p] \in 1..(Len(Streams[p]) + 1)
           /\ active' \in [EPs -> {0, 1}]
  BY Scores DEF TypeOK, Reset, NegInfinity

\* Fetching, and resetting, keep the shape of the state of an action player.
ActionTypes ==
    /\ apos \in [AEPs -> Int]
    /\ curlist \in [AEPs -> Nat] /\ anext \in [AEPs -> Nat]
    /\ \A a \in AEPs : curlist[a] \in 0..Len(Actions[a]) /\ anext[a] \in 1..(Len(Actions[a]) + 1)
    /\ aactive \in [AEPs -> {0, 1}]

LEMMA ActionsTyped ==
    ASSUME ActionTypes, ResetActions \/ \E a \in AEPs : Fetch(a)
    PROVE  ActionTypes'
<1> USE Scores DEF ActionTypes
<1>1. CASE ResetActions
  BY <1>1 DEF ResetActions, NegInfinity
<1>2. ASSUME NEW a \in AEPs, Fetch(a)
      PROVE  ActionTypes'
  <2>1. CASE anext[a] <= Len(Actions[a])
    <3>1. /\ curlist' = [curlist EXCEPT ![a] = anext[a]] /\ anext' = [anext EXCEPT ![a] = anext[a] + 1]
          /\ apos' = [apos EXCEPT ![a] = Actions[a][anext[a]].ppq] /\ aactive' = aactive
      BY <1>2, <2>1 DEF Fetch
    <3>2. Actions[a][anext[a]].ppq \in Int
      <4>1. anext[a] \in DOMAIN Actions[a]
        BY <2>1
      <4>2. QED
        BY <4>1
    <3>3. ASSUME NEW b \in AEPs
          PROVE  curlist'[b] \in 0..Len(Actions[b]) /\ anext'[b] \in 1..(Len(Actions[b]) + 1)
      <4>1. CASE b = a
        <5>1. curlist'[b] = anext[a] /\ anext'[b] = anext[a] + 1
          BY <3>1, <4>1
        <5>2. anext[a] \in 1..Len(Actions[a]) /\ Len(Actions[a]) \in Nat
          BY <2>1
        <5>3. QED
          BY <4>1, <5>1, <5>2
      <4>2. CASE b # a
        <5>1. curlist'[b] = curlist[b] /\ anext'[b] = anext[b]
          BY <3>1, <4>2
        <5>2. QED
          BY <5>1
      <4>3. QED
        BY <4>1, <4>2
    <3>4. curlist' \in [AEPs -> Nat] /\ anext' \in [AEPs -> Nat]
      BY <2>1, <3>1
    <3>5. apos' \in [AEPs -> Int] /\ aactive' \in [AEPs -> {0, 1}]
      BY <3>1, <3>2
    <3>6. QED
      BY <3>3, <3>4, <3>5
  <2>2. CASE ~(anext[a] <= Len(Actions[a]))
    <3>1. /\ curlist' = [curlist EXCEPT ![a] = 0] /\ anext' = [anext EXCEPT ![a] = 1]
          /\ aactive' = [aactive EXCEPT ![a] = 0] /\ apos' = apos
      BY <1>2, <2>2 DEF Fetch
    <3>2. \A b \in AEPs : curlist'[b] \in 0..Len(Actions[b]) /\ anext'[b] \in 1..(Len(Actions[b]) + 1)
      BY <3>1
    <3>3. curlist' \in [AEPs -> Nat] /\ anext' \in [AEPs -> Nat]
      BY <3>1
    <3>4. aactive' \in [AEPs -> {0, 1}]
      BY <3>1
    <3>5. QED
      BY <3>1, <3>2, <3>3, <3>4
  <2>3. QED
    BY <2>1, <2>2
<1>3. QED
  BY <1>1, <1>2

\* What an action does keeps the shape of the event players and of what is remembered.
LEMMA PerformTyped ==
    ASSUME TypeOK, NEW a \in AEPs, NEW k \in DOMAIN Actions[a], Perform(Actions[a][k])
    PROVE  /\ pos' \in [EPs -> Int] /\ prev' \in [EPs -> Int] /\ MUSPOS' \in [EPs -> Int]
           /\ next' \in [EPs -> Nat] /\ \A p \in EPs : next'[p] \in 1..(Len(Streams[p]) + 1)
           /\ active' \in [EPs -> {0, 1}]
           /\ moved' \in BOOLEAN /\ moving' \in BOOLEAN /\ commanded' \in BOOLEAN /\ anchor' \subseteq Int
<1> DEFINE act == Actions[a][k]
<1>0. act.ppq \in Int
  BY Scores
<1>1. CASE act.verb = "START"
  <2>1. Reset({act.arg}, [p \in EPs |-> act.ppq]) /\ UNCHANGED history
    BY <1>1 DEF Perform
  <2>2. \A p \in EPs : p \in {act.arg} => [q \in EPs |-> act.ppq][p] \in Int
    BY <1>0
  <2>3. QED
    BY <2>1, <2>2, ResetTyped DEF TypeOK, history
<1>2. CASE act.verb = "STOP"
  BY <1>2 DEF Perform, TypeOK, history
<1>3. CASE act.verb \in {"GOTO", "HALT"}
  BY <1>3 DEF Perform, TypeOK, eplayers
<1>4. QED
  BY <1>1, <1>2, <1>3 DEF Perform

\* Moving to the next event keeps the shape of an event player.
LEMMA AdvanceTyped ==
    ASSUME TypeOK, NEW p \in EPs, HasNext(p), Advance(p)
    PROVE  /\ pos' \in [EPs -> Int] /\ prev' \in [EPs -> Int] /\ MUSPOS' \in [EPs -> Int]
           /\ next' \in [EPs -> Nat] /\ \A q \in EPs : next'[q] \in 1..(Len(Streams[q]) + 1)
           /\ active' \in [EPs -> {0, 1}]
<1>1. /\ pos' = [pos EXCEPT ![p] = pos[p] + Streams[p][next[p]]] /\ prev' = [prev EXCEPT ![p] = pos[p]]
      /\ next' = [next EXCEPT ![p] = next[p] + 1] /\ UNCHANGED <<MUSPOS, active>>
  BY DEF Advance
<1>2. next[p] \in 1..Len(Streams[p]) /\ Streams[p][next[p]] \in Nat
  BY Scores DEF TypeOK, HasNext
<1>3. pos' \in [EPs -> Int] /\ prev' \in [EPs -> Int] /\ MUSPOS' \in [EPs -> Int] /\ active' \in [EPs -> {0, 1}]
  BY <1>1, <1>2 DEF TypeOK
<1>4. next' \in [EPs -> Nat]
  BY <1>1, <1>2 DEF TypeOK
<1>5. \A q \in EPs : next'[q] \in 1..(Len(Streams[q]) + 1)
  BY SMTT(30), <1>1, <1>2, Scores DEF TypeOK
<1>6. QED
  BY <1>3, <1>4, <1>5

\* One step of the players, on a clock that keeps its types, keeps theirs.
LEMMA PlayersTyping ==
    ASSUME TypeOK, MetroTypeOK', [Next]_vars
    PROVE  TypeOK'
<1> USE DEF TypeOK, eplayers, aplayers, history
<1>1. ASSUME UNCHANGED eplayers, UNCHANGED aplayers, UNCHANGED turn,
             moved' \in BOOLEAN, moving' \in BOOLEAN, commanded' \in BOOLEAN, anchor' \subseteq Int
      PROVE  TypeOK'
  BY <1>1
<1>2. CASE Tick /\ UNCHANGED <<turn, eplayers, aplayers, history>>
  BY <1>1, <1>2
<1>3. CASE TimerStrikes /\ UNCHANGED <<turn, eplayers, aplayers, history>>
  BY <1>1, <1>3
<1>4. CASE Transport
  BY <1>1, <1>4 DEF Transport
<1>5. CASE EndFrame
  BY <1>1, <1>5 DEF EndFrame
<1>6. CASE UNCHANGED vars
  BY <1>1, <1>6 DEF vars
<1>7. CASE NextPlayer
  <2>1. turn \in AEPs \/ \E p \in EPs : turn = Len(Actions) + p
    BY <1>7 DEF NextPlayer, TurnOver, TurnOf
  <2>2. turn + 1 \in 1..(Len(Actions) + Len(Streams) + 1)
    BY <2>1, Scores
  <2>3. QED
    BY <1>7, <2>2 DEF NextPlayer
<1>8. CASE BeginFrame
  <2>1. turn' \in 1..(Len(Actions) + Len(Streams) + 1)
    BY <1>8, Scores DEF BeginFrame
  <2>2. CASE Backwards
    <3>1. ResetActions /\ Reset(EPs, MUSPOS)
      BY <1>8, <2>2 DEF BeginFrame
    <3>2. ActionTypes'
      BY <3>1, ActionsTyped DEF ActionTypes
    <3>3. \A p \in EPs : MUSPOS[p] \in Int
      OBVIOUS
    <3>4. /\ pos' \in [EPs -> Int] /\ prev' \in [EPs -> Int] /\ MUSPOS' \in [EPs -> Int]
          /\ next' \in [EPs -> Nat] /\ \A p \in EPs : next'[p] \in 1..(Len(Streams[p]) + 1)
          /\ active' \in [EPs -> {0, 1}]
      BY <3>1, <3>3, ResetTyped
    <3>5. moved' \in BOOLEAN /\ moving' \in BOOLEAN /\ commanded' \in BOOLEAN /\ anchor' \subseteq Int
      BY <1>8 DEF BeginFrame
    <3>6. QED
      BY <2>1, <3>2, <3>4, <3>5 DEF ActionTypes
  <2>3. CASE ~Backwards
    BY <1>8, <2>1, <2>3 DEF BeginFrame
  <2>4. QED
    BY <2>2, <2>3
<1>9. ASSUME NEW a \in AEPs, RunAction(a)
      PROVE  TypeOK'
  <2>1. ActionTypes'
    BY <1>9, ActionsTyped DEF RunAction, ActionTypes
  <2>2. CASE curlist[a] # 0
    <3>1. curlist[a] \in DOMAIN Actions[a] /\ Perform(Actions[a][curlist[a]]) /\ turn' = turn
      BY <1>9, <2>2, Scores DEF RunAction
    <3>2. QED
      BY <2>1, <3>1, PerformTyped DEF ActionTypes
  <2>3. CASE curlist[a] = 0
    BY <1>9, <2>1, <2>3 DEF RunAction, ActionTypes
  <2>4. QED
    BY <2>2, <2>3
<1>10. ASSUME NEW p \in EPs, PullEvent(p) \/ PlayEvent(p)
       PROVE  TypeOK'
  <2>1. HasNext(p) /\ Advance(p) /\ UNCHANGED <<turn, aplayers, moved, moving, commanded>>
    BY <1>10 DEF PullEvent, PlayEvent
  <2>2. anchor' \subseteq Int
    <3>1. bps \in Int /\ oldtimestamp \in Int /\ oldppqPos \in Int /\ pos[p] \in Int
      BY Constants DEF MetroTypeOK
    <3>2. bps * oldtimestamp \in Int
      BY <3>1
    <3>3. ScaledTime(pos[p]) - pos[p] \in Int
      BY <3>1, <3>2 DEF ScaledTime
    <3>4. QED
      BY <1>10, <3>3 DEF PullEvent, PlayEvent
  <2>3. QED
    BY <2>1, <2>2, AdvanceTyped
<1>11. ASSUME NEW p \in EPs, StreamEnds(p)
       PROVE  TypeOK'
  <2>1. next' = [next EXCEPT ![p] = 1] /\ active' = [active EXCEPT ![p] = 0] /\ UNCHANGED <<MUSPOS, turn, aplayers, history>>
    BY <1>11 DEF StreamEnds
  <2>2. \/ pos' = pos /\ prev' = prev
        \/ pos' = [pos EXCEPT ![p] = MUSPOS[p]] /\ prev' = [prev EXCEPT ![p] = NegInfinity]
    BY <1>11 DEF StreamEnds
  <2>3. pos' \in [EPs -> Int] /\ prev' \in [EPs -> Int]
    BY <2>2 DEF NegInfinity
  <2>4. next' \in [EPs -> Nat] /\ active' \in [EPs -> {0, 1}]
    BY <2>1
  <2>5. \A q \in EPs : next'[q] \in 1..(Len(Streams[q]) + 1)
    BY <2>1, Scores
  <2>6. QED
    BY <2>1, <2>3, <2>4, <2>5
<1>12. QED
  BY <1>2, <1>3, <1>4, <1>5, <1>6, <1>7, <1>8, <1>9, <1>10, <1>11 DEF Next

\* The players' state keeps its shape, whatever the score and however the clock is commanded.
THEOREM PlayersTypeCorrect == Spec => []TypeOK
<1>1. Init => TypeOK
  <2> SUFFICES ASSUME Init PROVE TypeOK
    OBVIOUS
  <2>1. MetroTypeOK
    BY MetroInitTyped DEF Init
  <2>2. \A a \in AEPs : curlist[a] \in 0..Len(Actions[a]) /\ anext[a] \in 1..(Len(Actions[a]) + 1)
    BY Scores DEF Init
  <2>3. \A p \in EPs : next[p] \in 1..(Len(Streams[p]) + 1)
    BY Scores DEF Init
  <2>4. turn \in 1..(Len(Actions) + Len(Streams) + 1)
    BY Scores DEF Init
  <2>5. pos \in [EPs -> Int] /\ prev \in [EPs -> Int] /\ MUSPOS \in [EPs -> Int] /\ apos \in [AEPs -> Int]
    BY DEF Init, NegInfinity
  <2>6. next \in [EPs -> Nat] /\ curlist \in [AEPs -> Nat] /\ anext \in [AEPs -> Nat]
    BY DEF Init
  <2>7. active \in [EPs -> {0, 1}] /\ aactive \in [AEPs -> {0, 1}]
    BY DEF Init
  <2>8. moved \in BOOLEAN /\ moving \in BOOLEAN /\ commanded \in BOOLEAN /\ anchor \subseteq Int
    BY DEF Init
  <2>9. QED
    BY <2>1, <2>2, <2>3, <2>4, <2>5, <2>6, <2>7, <2>8 DEF TypeOK
<1>2. QED
  BY <1>1, PlayersTyping, ClockOfPlayersIsMetronome, MetroTypeCorrect, PTL DEF Spec, ClockIsMetronome

-----------------------------------------------------------------------------
(* Beats and time.  All events of a stretch in which nobody commands the   *)
(* clock lie on one line, whose anchor the frames hand on: it is that of   *)
(* the window's start during a frame and that of its end between two.      *)

OnOneLine ==
    /\ pc = "frame" /\ ~commanded =>
          /\ ppqPos - oldppqPos = bps * (timestamp - oldtimestamp)
          /\ anchor \subseteq {bps * oldtimestamp - oldppqPos}
    /\ pc = "frame" /\ commanded => anchor = {}
    /\ pc = "idle" => ~commanded /\ anchor \subseteq {bps * oldtimestamp - ppqPos}

\* Steps that leave the clock and what is remembered of it alone.
LEMMA LineKept ==
    ASSUME OnOneLine, UNCHANGED <<bps, position, oldtimestamp, timestamp, pc, anchor, commanded>>
    PROVE  OnOneLine'
  BY DEF OnOneLine, position

\* An event that is played lies on the line, and leaves it the same.
LEMMA EventOnLine ==
    ASSUME TypeOK, NEW p \in EPs, ~commanded
    PROVE  ScaledTime(pos[p]) - pos[p] = bps * oldtimestamp - oldppqPos
<1>1. bps \in Int /\ oldtimestamp \in Int /\ oldppqPos \in Int /\ pos[p] \in Int
  BY Constants DEF TypeOK, MetroTypeOK
<1>2. bps * oldtimestamp \in Int
  BY <1>1
<1>3. QED
  BY <1>1, <1>2 DEF ScaledTime

\* One step of the players keeps the line, or clears it when the clock is commanded.
LEMMA LineInductive == ASSUME TypeOK, OnOneLine, [Next]_vars PROVE OnOneLine'
<1> USE LineKept DEF metro, clock, history
<1>1. CASE (Tick \/ TimerStrikes) /\ UNCHANGED <<turn, eplayers, aplayers, history>>
  BY <1>1 DEF Tick, TimerStrikes
<1>2. CASE Transport
  BY <1>2 DEF Transport, Handler, Command, OnOneLine
<1>3. CASE BeginFrame
  <2>1. ppqPos' - ppqPos = bps * (timestamp' - oldtimestamp)
    BY <1>3, FrameMoves DEF BeginFrame, TypeOK
  <2>2. /\ pc = "idle" /\ pc' = "frame" /\ oldppqPos' = ppqPos
        /\ UNCHANGED <<bps, oldtimestamp, anchor, commanded>>
    BY <1>3 DEF BeginFrame, FrameStart
  <2>3. QED
    BY <2>1, <2>2 DEF OnOneLine
<1>4. ASSUME NEW a \in AEPs, RunAction(a)
      PROVE  OnOneLine'
  <2>1. CASE UNCHANGED <<metro, history>>
    BY <2>1
  <2>2. CASE anchor' = {} /\ commanded' = TRUE /\ pc' = pc
    BY <1>4, <2>2 DEF RunAction, OnOneLine
  <2>3. QED
    BY <1>4, <2>1, <2>2 DEF RunAction, Perform
<1>5. ASSUME NEW p \in EPs, PlayEvent(p)
      PROVE  OnOneLine'
  <2>1. pc = "frame" /\ UNCHANGED <<metro, commanded>> /\ anchor' = IF commanded THEN {} ELSE {ScaledTime(pos[p]) - pos[p]}
    BY <1>5 DEF PlayEvent, EventTurn
  <2>2. QED
    BY <2>1, EventOnLine DEF OnOneLine, position
<1>6. ASSUME NEW p \in EPs, PullEvent(p) \/ StreamEnds(p)
      PROVE  OnOneLine'
  BY <1>6 DEF PullEvent, StreamEnds
<1>7. CASE NextPlayer
  BY <1>7 DEF NextPlayer
<1>8. CASE EndFrame
  <2>1. /\ pc = "frame" /\ pc' = "idle" /\ oldtimestamp' = timestamp /\ commanded' = FALSE
        /\ UNCHANGED <<bps, position, anchor>>
    BY <1>8 DEF EndFrame, FrameEnd
  <2>2. ASSUME ~commanded
        PROVE  bps * oldtimestamp - oldppqPos = bps * timestamp - ppqPos
    <3>1. /\ bps \in Int /\ oldtimestamp \in Int /\ timestamp \in Int /\ oldppqPos \in Int /\ ppqPos \in Int
      BY Constants DEF TypeOK, MetroTypeOK
    <3>2. ppqPos - oldppqPos = bps * (timestamp - oldtimestamp)
      BY <2>1, <2>2 DEF OnOneLine
    <3>3. bps * (timestamp - oldtimestamp) = bps * timestamp - bps * oldtimestamp
      BY <3>1
    <3>4. bps * timestamp \in Int /\ bps * oldtimestamp \in Int
      BY <3>1
    <3>5. QED
      BY <3>1, <3>2, <3>3, <3>4
  <2>3. QED
    BY <2>1, <2>2 DEF OnOneLine, position
<1>9. CASE UNCHANGED vars
  BY <1>9 DEF vars
<1>10. QED
  BY <1>1, <1>2, <1>3, <1>4, <1>5, <1>6, <1>7, <1>8, <1>9 DEF Next

LEMMA AlwaysOnOneLine == Spec => []OnOneLine
<1>1. Init => OnOneLine
  BY DEF Init, MetroInit, OnOneLine
<1>2. QED
  BY <1>1, LineInductive, PlayersTypeCorrect, PTL DEF Spec

\* Events of any players between which nobody commands the clock are as far apart in time as in
\* beats, over any number of frames with lost strikes (MetronomLanes.lua:99-102, :173-196).
THEOREM EventsEvenlyTimed == Spec => EvenlyTimed
<1>1. ASSUME TypeOK, OnOneLine, [Next]_vars, anchor # {}, anchor' # {}
      PROVE  anchor' = anchor
  <2> USE DEF history
  <2>1. ASSUME NEW p \in EPs, PlayEvent(p)
        PROVE  anchor' = anchor
    <3>1. ~commanded /\ anchor' = {ScaledTime(pos[p]) - pos[p]} /\ anchor \subseteq {bps * oldtimestamp - oldppqPos}
      BY <1>1, <2>1 DEF PlayEvent, EventTurn, OnOneLine
    <3>2. QED
      BY <1>1, <3>1, EventOnLine
  <2>2. ASSUME NEW a \in AEPs, RunAction(a)
        PROVE  anchor' = anchor
    BY <1>1, <2>2 DEF RunAction, Perform
  <2>3. QED
    BY <1>1, <2>1, <2>2 DEF Next, Transport, BeginFrame, PullEvent, StreamEnds, NextPlayer, EndFrame, vars
<1>2. TypeOK /\ OnOneLine /\ [Next]_vars => [anchor # {} /\ anchor' # {} => anchor' = anchor]_vars
  BY <1>1
<1>3. QED
  BY <1>2, AlwaysOnOneLine, PlayersTypeCorrect, PTL DEF Spec, EvenlyTimed

-----------------------------------------------------------------------------
(* What the players have done of the score.  When an action player's turn  *)
(* is over, the action it holds lies behind the window; when the event     *)
(* players' turns are over, so do their next events; and no event at or    *)
(* after the beat of an action is played before the action.                *)

Held(a) == Actions[a][curlist[a]].ppq

\* No action player that comes later in the frame sends the clock anywhere.
LastToMove(a) == \A b \in AEPs : b > a => ~Moves(b)

\* The clock is behind the start of its last window only if somebody moved it.
Onwards ==
    /\ oldppqPos > NegInfinity /\ ppqPos > NegInfinity
    /\ ~moved => oldppqPos <= ppqPos

\* An action player has been reset, or waits for the beat of the action it holds.
WaitsForHeld ==
    \A a \in AEPs : aactive[a] = 1 =>
       \/ apos[a] = NegInfinity /\ anext[a] = 1
       \/ curlist[a] # 0 /\ anext[a] = curlist[a] + 1 /\ apos[a] = Held(a)

ActionsDone ==
    \A a \in AEPs : aactive[a] = 1 /\ pc = "frame" /\ turn > a /\ (~moved \/ LastToMove(a)) =>
       apos[a] > Later(oldppqPos, ppqPos)

\* Until its turn, and between the frames, an action lies behind what was played; a player that
\* has fetched none has yet to see its first frame.
ActionsAhead ==
    \A a \in AEPs : aactive[a] = 1 =>
       /\ pc = "frame" /\ turn <= a /\ ~moving => apos[a] > oldppqPos \/ (curlist[a] = 0 /\ oldppqPos = FirstBeat)
       /\ pc = "idle" /\ ~moved => apos[a] > ppqPos \/ (curlist[a] = 0 /\ ppqPos = FirstBeat)

StopsAhead ==
    \A a \in AEPs : aactive[a] = 1 /\ LastToMove(a) =>
       /\ curlist[a] # 0 => \A p \in EPs : prev[p] < Held(a)
       /\ apos[a] = NegInfinity => \A p \in EPs : prev[p] = NegInfinity

EventsAhead ==
    \A p \in EPs : active[p] = 1 =>
       /\ pc = "frame" /\ turn <= Len(Actions) + p /\ ~moving => pos[p] >= oldppqPos
       /\ pc = "frame" /\ turn > Len(Actions) + p /\ ~moved => pos[p] >= ppqPos
       /\ pc = "idle" /\ ~moved => pos[p] >= ppqPos

ScoreInv == Onwards /\ WaitsForHeld /\ ActionsDone /\ ActionsAhead /\ StopsAhead /\ EventsAhead

\* Beats of a score as numbers.
LEMMA ScoreBeats ==
    /\ NegInfinity \in Int /\ FirstBeat \in Int /\ FirstBeat > NegInfinity /\ FirstBeat <= 0
    /\ \A a \in AEPs : \A k \in DOMAIN Actions[a] :
          Actions[a][k].ppq \in Int /\ Actions[a][k].ppq > FirstBeat /\ Actions[a][k].ppq > NegInfinity
<1>1. NegInfinity \in Int
  BY DEF NegInfinity
<1>2. QED
  BY <1>1, Scores, ScoreAssumption, NegInfinityAssumption, BeatsAssumption

\* Whatever an action player holds lies behind the upbeat.
LEMMA HeldAfterUpbeat ==
    ASSUME TypeOK, NEW a \in AEPs, curlist[a] # 0
    PROVE  curlist[a] \in DOMAIN Actions[a] /\ Held(a) \in Int /\ Held(a) > FirstBeat /\ Held(a) > NegInfinity
<1>1. curlist[a] \in DOMAIN Actions[a]
  BY Scores DEF TypeOK
<1>2. QED
  BY <1>1, ScoreBeats DEF Held

\* A frame never moves the clock backwards.
LEMMA FrameGoesOn ==
    ASSUME MetroTypeOK, FrameStart
    PROVE  oldppqPos' = ppqPos /\ ppqPos' \in Int /\ ppqPos' >= ppqPos
<1> DEFINE lost == now - (oldtimestamp + Period)
<1>1. bps \in Int /\ bps > 0 /\ ppqPos \in Int /\ Period \in Int /\ Period > 0 /\ lost \in Int
  BY Constants, TemposAssumption DEF MetroTypeOK
<1>2. bps * Period \in Int /\ bps * Period >= 0
  BY <1>1
<1>3. lost >= Period => lost * bps \in Int /\ lost * bps >= 0
  BY <1>1
<1>4. QED
  BY <1>1, <1>2, <1>3 DEF FrameStart, Catchup, frame

\* The clock stays behind every beat before the first, and goes backwards only when it is moved.
LEMMA OnwardsKept == ASSUME TypeOK, Onwards, [Next]_vars PROVE Onwards'
<1> USE DEF Onwards, metro, clock, position, history
<1>1. CASE UNCHANGED <<ppqPos, oldppqPos, moved>>
  BY <1>1
<1>2. CASE Transport
  <2>1. oldppqPos' = oldppqPos /\ (ppqPos' = ppqPos \/ ppqPos' \in Beats) /\ moved' = (moved \/ ppqPos' # ppqPos)
    BY <1>2 DEF Transport, Handler, Command, play
  <2>2. QED
    BY <2>1, NegInfinityAssumption
<1>3. CASE BeginFrame
  BY <1>3, FrameGoesOn, ScoreBeats DEF BeginFrame, TypeOK, MetroTypeOK
<1>4. ASSUME NEW a \in AEPs, RunAction(a)
      PROVE  Onwards'
  <2>1. CASE curlist[a] # 0
    <3> DEFINE act == Actions[a][curlist[a]]
    <3>1. curlist[a] \in DOMAIN Actions[a] /\ Perform(act)
      BY <1>4, <2>1, Scores DEF RunAction, TypeOK
    <3>2. CASE act.verb = "GOTO"
      <4>1. ppqPos' = act.arg /\ act.arg \in Beats /\ oldppqPos' = oldppqPos /\ moved' = TRUE
        BY <3>1, <3>2, GoToAssumption DEF Perform, GoTo, play
      <4>2. QED
        BY <4>1, NegInfinityAssumption
    <3>3. QED
      BY <1>1, <3>1, <3>2 DEF Perform
  <2>2. QED
    BY <1>1, <1>4, <2>1 DEF RunAction
<1>5. CASE \E p \in EPs : PullEvent(p) \/ PlayEvent(p) \/ StreamEnds(p)
  BY <1>1, <1>5 DEF PullEvent, PlayEvent, StreamEnds
<1>6. CASE NextPlayer \/ EndFrame
  BY <1>1, <1>6 DEF NextPlayer, EndFrame, FrameEnd
<1>7. CASE (Tick \/ TimerStrikes) /\ UNCHANGED <<turn, eplayers, aplayers, history>>
  BY <1>1, <1>7 DEF Tick, TimerStrikes
<1>8. CASE UNCHANGED vars
  BY <1>1, <1>8 DEF vars
<1>9. QED
  BY <1>2, <1>3, <1>4, <1>5, <1>6, <1>7, <1>8 DEF Next

\* An action player that goes on after fetching holds the next of its list, whose beat is no
\* earlier than the one before.
LEMMA FetchGoesOn ==
    ASSUME TypeOK, WaitsForHeld, NEW a \in AEPs, aactive[a] = 1, Fetch(a), aactive'[a] = 1
    PROVE  /\ anext[a] \in DOMAIN Actions[a]
           /\ curlist'[a] = anext[a] /\ curlist'[a] # 0 /\ anext'[a] = curlist'[a] + 1
           /\ apos'[a] = Actions[a][anext[a]].ppq
           /\ curlist[a] # 0 /\ apos[a] # NegInfinity => Held(a) <= apos'[a]
<1>1. anext[a] <= Len(Actions[a])
  BY DEF Fetch, TypeOK
<1>2. /\ anext[a] \in DOMAIN Actions[a] /\ anext[a] # 0
      /\ curlist'[a] = anext[a] /\ anext'[a] = anext[a] + 1 /\ apos'[a] = Actions[a][anext[a]].ppq
  BY <1>1, Scores DEF Fetch, TypeOK
<1>3. ASSUME curlist[a] # 0, apos[a] # NegInfinity
      PROVE  Held(a) <= apos'[a]
  <2>1. anext[a] = curlist[a] + 1 /\ curlist[a] \in DOMAIN Actions[a]
    BY <1>3, Scores DEF WaitsForHeld, TypeOK
  <2>2. curlist[a] < anext[a]
    BY <2>1, Scores
  <2>3. QED
    BY <1>2, <2>1, <2>2, ScoreAssumption DEF Held
<1>4. QED
  BY <1>2, <1>3

\* Fetching changes nothing of the other action players.
LEMMA FetchIsOwn ==
    ASSUME TypeOK, NEW a \in AEPs, Fetch(a), NEW b \in AEPs, b # a
    PROVE  /\ apos'[b] = apos[b] /\ curlist'[b] = curlist[b] /\ anext'[b] = anext[b] /\ aactive'[b] = aactive[b]
  BY DEF Fetch, TypeOK

LEMMA WaitsKept == ASSUME TypeOK, WaitsForHeld, [Next]_vars PROVE WaitsForHeld'
<1> USE DEF WaitsForHeld, aplayers
<1>1. CASE UNCHANGED aplayers
  BY <1>1 DEF Held
<1>2. CASE ResetActions
  BY <1>2 DEF ResetActions
<1>3. ASSUME NEW a \in AEPs, RunAction(a)
      PROVE  WaitsForHeld'
  <2>1. aactive[a] = 1 /\ Fetch(a)
    BY <1>3 DEF RunAction, Due
  <2>2. ASSUME NEW b \in AEPs, aactive'[b] = 1
        PROVE  \/ apos'[b] = NegInfinity /\ anext'[b] = 1
               \/ curlist'[b] # 0 /\ anext'[b] = curlist'[b] + 1 /\ apos'[b] = Held(b)'
    <3>1. CASE b = a
      BY <2>1, <2>2, <3>1, FetchGoesOn DEF Held
    <3>2. CASE b # a
      BY <2>1, <2>2, <3>2, FetchIsOwn DEF Held
    <3>3. QED
      BY <3>1, <3>2
  <2>3. QED
    BY <2>2
<1>4. CASE BeginFrame
  BY <1>1, <1>2, <1>4 DEF BeginFrame
<1>5. QED
  BY <1>1, <1>2, <1>3, <1>4 DEF Next, Transport, PullEvent, PlayEvent, StreamEnds, NextPlayer, EndFrame, vars

\* What an action does to the position of the clock and to the events played.
LEMMA PerformEffects ==
    ASSUME TypeOK, NEW a \in AEPs, RunAction(a)
    PROVE  /\ pc' = pc /\ turn' = turn /\ oldppqPos' = oldppqPos /\ moving' = moving
           /\ \/ ppqPos' = ppqPos /\ moved' = moved
              \/ Moves(a) /\ moved' = TRUE
           /\ \A p \in EPs : prev'[p] = prev[p] \/ prev'[p] = NegInfinity
           /\ \A p \in EPs : active'[p] = 1 =>
                 \/ active[p] = 1 /\ pos'[p] = pos[p]
                 \/ curlist[a] # 0 /\ pos'[p] = Held(a)
<1> DEFINE act == Actions[a][curlist[a]]
<1> USE DEF metro, position, clock, eplayers, history
<1>1. turn' = turn /\ UNCHANGED now
  BY DEF RunAction
<1>2. CASE UNCHANGED <<metro, eplayers, history>>
  BY <1>1, <1>2
<1>3. CASE curlist[a] # 0 /\ act.verb = "START"
  <2>1. Reset({act.arg}, [p \in EPs |-> act.ppq]) /\ UNCHANGED <<metro, history>>
    BY <1>3 DEF RunAction, Perform
  <2>2. ASSUME NEW p \in EPs
        PROVE  /\ prev'[p] = prev[p] \/ prev'[p] = NegInfinity
               /\ active'[p] = 1 => (active[p] = 1 /\ pos'[p] = pos[p]) \/ pos'[p] = Held(a)
    BY <2>1 DEF Reset, Held
  <2>3. QED
    BY <1>1, <1>3, <2>1, <2>2
<1>4. CASE curlist[a] # 0 /\ act.verb = "STOP"
  <2>1. active' = [active EXCEPT ![act.arg] = 0] /\ UNCHANGED <<metro, pos, prev, history>>
    BY <1>4 DEF RunAction, Perform
  <2>2. \A p \in EPs : active'[p] = 1 => active[p] = 1
    BY <2>1 DEF TypeOK
  <2>3. QED
    BY <1>1, <2>1, <2>2
<1>5. CASE curlist[a] # 0 /\ act.verb = "GOTO"
  <2>1. curlist[a] \in DOMAIN Actions[a]
    BY <1>5, Scores DEF TypeOK
  <2>2. Moves(a)
    BY <1>5, <2>1 DEF Moves
  <2>3. moved' = TRUE /\ UNCHANGED <<pc, oldppqPos, moving, eplayers>>
    BY <1>5 DEF RunAction, Perform
  <2>4. QED
    BY <1>1, <2>2, <2>3
<1>6. CASE curlist[a] # 0 /\ act.verb = "HALT"
  <2>1. UNCHANGED <<position, pc, moved, moving, eplayers>>
    BY <1>6 DEF RunAction, Perform
  <2>2. QED
    BY <1>1, <2>1
<1>7. QED
  BY <1>2, <1>3, <1>4, <1>5, <1>6 DEF RunAction, Perform

\* The position of the player that acts, before and after it fetches.
LEMMA ActionPosition ==
    ASSUME TypeOK, ScoreInv, NEW a \in AEPs, RunAction(a)
    PROVE  /\ pc = "frame" /\ turn = a /\ aactive[a] = 1 /\ Fetch(a)
           /\ ~moving /\ curlist[a] # 0 => apos[a] = Held(a) /\ apos[a] > oldppqPos
<1>1. pc = "frame" /\ turn = a /\ aactive[a] = 1 /\ Fetch(a)
  BY DEF RunAction, TurnOf, Due
<1>2. ASSUME ~moving, curlist[a] # 0
      PROVE  apos[a] = Held(a) /\ apos[a] > oldppqPos
  <2>1. apos[a] > oldppqPos
    BY <1>1, <1>2, Scores DEF ScoreInv, ActionsAhead
  <2>2. apos[a] # NegInfinity
    BY <2>1, ScoreBeats DEF ScoreInv, Onwards, TypeOK, MetroTypeOK
  <2>3. QED
    BY <1>1, <2>1, <2>2 DEF ScoreInv, WaitsForHeld
<1>3. QED
  BY <1>1, <1>2

\* Performing an action keeps the score: those whose turn is over wait behind the window, and
\* what is fetched lies behind what was performed.
LEMMA ActionKeepsScore == ASSUME TypeOK, ScoreInv, NEW a \in AEPs, RunAction(a) PROVE ScoreInv'
<1> USE DEF ScoreInv
<1>1. /\ pc = "frame" /\ turn = a /\ aactive[a] = 1 /\ Fetch(a)
      /\ ~moving /\ curlist[a] # 0 => apos[a] = Held(a) /\ apos[a] > oldppqPos
  BY ActionPosition
<1>2. /\ pc' = pc /\ turn' = turn /\ oldppqPos' = oldppqPos /\ moving' = moving
      /\ \/ ppqPos' = ppqPos /\ moved' = moved
         \/ Moves(a) /\ moved' = TRUE
      /\ \A p \in EPs : prev'[p] = prev[p] \/ prev'[p] = NegInfinity
      /\ \A p \in EPs : active'[p] = 1 =>
            \/ active[p] = 1 /\ pos'[p] = pos[p]
            \/ curlist[a] # 0 /\ pos'[p] = Held(a)
  BY PerformEffects
<1>3. [Next]_vars
  BY DEF Next
<1>4. Onwards' /\ WaitsForHeld'
  BY <1>3, OnwardsKept, WaitsKept
<1>5. \A b \in AEPs : b # a => /\ apos'[b] = apos[b] /\ curlist'[b] = curlist[b] /\ aactive'[b] = aactive[b]
                               /\ Held(b)' = Held(b)
  BY <1>1, FetchIsOwn DEF Held
<1>6. aactive'[a] = 1 => /\ anext[a] \in DOMAIN Actions[a] /\ curlist'[a] # 0
                         /\ apos'[a] = Actions[a][anext[a]].ppq /\ Held(a)' = apos'[a]
                         /\ curlist[a] # 0 /\ apos[a] # NegInfinity => Held(a) <= apos'[a]
  BY <1>1, FetchGoesOn DEF Held
<1>7. aactive'[a] = 1 => apos'[a] \in Int /\ apos'[a] > FirstBeat /\ apos'[a] > NegInfinity
  BY <1>6, ScoreBeats
<1>8. ActionsDone'
  <2> SUFFICES ASSUME NEW b \in AEPs, aactive'[b] = 1, turn' > b, ~moved' \/ LastToMove(b)
               PROVE  apos'[b] > Later(oldppqPos', ppqPos')
    BY DEF ActionsDone
  <2>1. b # a /\ a > b
    BY <1>1, <1>2, Scores
  <2>2. ppqPos' = ppqPos /\ moved' = moved
    BY <1>2, <2>1 DEF LastToMove
  <2>3. apos[b] > Later(oldppqPos, ppqPos)
    BY <1>1, <1>2, <1>5, <2>1, <2>2 DEF ActionsDone
  <2>4. QED
    BY <1>2, <1>5, <2>1, <2>2, <2>3
<1>9. ActionsAhead'
  <2> SUFFICES ASSUME NEW b \in AEPs, aactive'[b] = 1, turn' <= b, ~moving'
               PROVE  apos'[b] > oldppqPos' \/ (curlist'[b] = 0 /\ oldppqPos' = FirstBeat)
    BY <1>1, <1>2 DEF ActionsAhead
  <2>1. CASE b # a
    BY <1>1, <1>2, <1>5, <2>1 DEF ActionsAhead
  <2>2. CASE b = a /\ curlist[a] # 0
    <3>1. apos[a] = Held(a) /\ apos[a] > oldppqPos
      BY <1>1, <1>2, <2>2
    <3>2. apos[a] \in Int /\ oldppqPos \in Int
      BY DEF TypeOK, MetroTypeOK
    <3>3. Held(a) <= apos'[a]
      BY <1>6, <2>2, <3>1, <3>2, ScoreBeats DEF Onwards
    <3>4. QED
      BY <1>2, <1>7, <2>2, <3>1, <3>2, <3>3
  <2>3. CASE b = a /\ curlist[a] = 0
    <3>1. apos[a] = NegInfinity
      BY <1>1, <2>3 DEF WaitsForHeld
    <3>2. oldppqPos = FirstBeat
      BY <1>1, <1>2, <2>3, <3>1, Scores, ScoreBeats DEF ActionsAhead, Onwards, TypeOK, MetroTypeOK
    <3>3. QED
      BY <1>2, <1>7, <2>3, <3>2
  <2>4. QED
    BY <2>1, <2>2, <2>3
<1>10. StopsAhead'
  <2> SUFFICES ASSUME NEW b \in AEPs, aactive'[b] = 1, LastToMove(b)
               PROVE  /\ curlist'[b] # 0 => \A p \in EPs : prev'[p] < Held(b)'
                      /\ apos'[b] = NegInfinity => \A p \in EPs : prev'[p] = NegInfinity
    BY DEF StopsAhead
  <2>1. CASE b # a
    <3>1. curlist[b] # 0 => NegInfinity < Held(b)
      BY HeldAfterUpbeat
    <3>2. curlist'[b] # 0 => NegInfinity < Held(b)'
      BY <1>5, <2>1, <3>1
    <3>3. QED
      BY <1>2, <1>5, <2>1, <3>2 DEF StopsAhead
  <2>2. CASE b = a
    <3>1. ASSUME NEW p \in EPs
          PROVE  prev'[p] < apos'[a]
      <4>1. CASE prev'[p] = NegInfinity
        BY <1>7, <2>2, <4>1
      <4>2. CASE prev'[p] = prev[p] /\ apos[a] = NegInfinity
        BY <1>1, <1>7, <2>2, <4>2 DEF StopsAhead
      <4>3. CASE prev'[p] = prev[p] /\ apos[a] # NegInfinity
        <5>1. curlist[a] # 0 /\ apos[a] = Held(a)
          BY <1>1, <4>3 DEF WaitsForHeld
        <5>2. prev[p] < Held(a)
          BY <1>1, <2>2, <5>1 DEF StopsAhead
        <5>3. prev[p] \in Int /\ apos[a] \in Int
          BY DEF TypeOK
        <5>4. QED
          BY <1>6, <1>7, <2>2, <4>3, <5>1, <5>2, <5>3
      <4>4. QED
        BY <1>2, <4>1, <4>2, <4>3
    <3>2. QED
      BY <1>6, <1>7, <2>2, <3>1, ScoreBeats
  <2>3. QED
    BY <2>1, <2>2
<1>11. EventsAhead'
  <2> SUFFICES ASSUME NEW p \in EPs, active'[p] = 1, ~moving'
               PROVE  pos'[p] >= oldppqPos'
    <3>1. \A p \in EPs : turn' <= Len(Actions) + p
      BY <1>1, <1>2, Scores
    <3>2. QED
      BY <1>1, <1>2, <3>1, Scores DEF EventsAhead
  <2>1. CASE active[p] = 1 /\ pos'[p] = pos[p]
    <3>1. turn <= Len(Actions) + p
      BY <1>1, Scores
    <3>2. QED
      BY <1>1, <1>2, <2>1, <3>1 DEF EventsAhead
  <2>2. CASE curlist[a] # 0 /\ pos'[p] = Held(a)
    <3>1. apos[a] \in Int /\ oldppqPos \in Int
      BY DEF TypeOK, MetroTypeOK
    <3>2. QED
      BY <1>1, <1>2, <2>2, <3>1
  <2>3. QED
    BY <1>2, <2>1, <2>2
<1>12. QED
  BY <1>4, <1>8, <1>9, <1>10, <1>11

\* A frame begins where the last one ended, or finds the clock moved and may reset the players.
LEMMA BeginKeepsScore == ASSUME TypeOK, ScoreInv, BeginFrame PROVE ScoreInv'
<1> USE DEF ScoreInv, eplayers, aplayers
<1>1. /\ pc = "idle" /\ pc' = "frame" /\ turn' = 1 /\ moving' = moved /\ moved' = FALSE
      /\ oldppqPos' = ppqPos
  BY DEF BeginFrame, FrameStart
<1>2. [Next]_vars
  BY DEF Next
<1>3. Onwards' /\ WaitsForHeld'
  BY <1>2, OnwardsKept, WaitsKept
<1>4. ActionsDone'
  BY <1>1, Scores DEF ActionsDone
<1>5. ~moved => UNCHANGED <<eplayers, aplayers>>
  BY DEF BeginFrame, Backwards, Onwards, TypeOK, MetroTypeOK
<1>6. ActionsAhead'
  BY <1>1, <1>5 DEF ActionsAhead
<1>7. EventsAhead'
  BY <1>1, <1>5, Scores DEF EventsAhead
<1>8. StopsAhead'
  <2>1. CASE UNCHANGED <<eplayers, aplayers>>
    BY <2>1 DEF StopsAhead, Held
  <2>2. CASE ResetActions /\ Reset(EPs, MUSPOS)
    <3>1. \A p \in EPs : prev'[p] = NegInfinity
      BY <2>2 DEF Reset
    <3>2. \A a \in AEPs : curlist'[a] # 0 => Held(a)' > NegInfinity
      BY <2>2, HeldAfterUpbeat DEF ResetActions, Held
    <3>3. QED
      BY <3>1, <3>2, ScoreBeats DEF StopsAhead
  <2>3. QED
    BY <2>1, <2>2 DEF BeginFrame
<1>9. QED
  BY <1>3, <1>4, <1>6, <1>7, <1>8

\* In the turn of an event player every action that is held lies behind the window, and so behind
\* the event that is played or passed over.
LEMMA EventKeepsScore ==
    ASSUME TypeOK, ScoreInv, NEW p \in EPs, PullEvent(p) \/ PlayEvent(p) \/ StreamEnds(p)
    PROVE  ScoreInv'
<1> USE DEF ScoreInv, metro, position
<1>1. /\ pc = "frame" /\ turn = Len(Actions) + p /\ active[p] = 1
      /\ UNCHANGED <<metro, turn, aplayers, moved, moving>>
  BY DEF PullEvent, PlayEvent, StreamEnds, EventTurn, TurnOf, history
<1>2. [Next]_vars
  BY DEF Next
<1>3. Onwards' /\ WaitsForHeld'
  BY <1>2, OnwardsKept, WaitsKept
<1>4. ActionsDone' /\ ActionsAhead'
  BY <1>1 DEF ActionsDone, ActionsAhead, aplayers
<1>5. \A q \in EPs : prev'[q] = prev[q] \/ prev'[q] = NegInfinity \/ (q = p /\ prev'[q] = pos[p])
  BY DEF PullEvent, PlayEvent, StreamEnds, Advance, TypeOK
<1>6. pos[p] < Later(oldppqPos, ppqPos) \/ UNCHANGED prev \/ prev' = [prev EXCEPT ![p] = NegInfinity]
  BY DEF PullEvent, PlayEvent, StreamEnds, Before, InWindow, Later, TypeOK, MetroTypeOK
<1>7. StopsAhead'
  <2> SUFFICES ASSUME NEW a \in AEPs, aactive'[a] = 1, LastToMove(a)
               PROVE  /\ curlist'[a] # 0 => \A q \in EPs : prev'[q] < Held(a)'
                      /\ apos'[a] = NegInfinity => \A q \in EPs : prev'[q] = NegInfinity
    BY DEF StopsAhead
  <2>1. UNCHANGED <<apos, curlist, aactive>> /\ Held(a)' = Held(a)
    BY <1>1 DEF aplayers, Held
  <2>2. apos[a] > Later(oldppqPos, ppqPos)
    BY <1>1, <2>1, Scores DEF ActionsDone
  <2>3. Later(oldppqPos, ppqPos) \in Int /\ Later(oldppqPos, ppqPos) > NegInfinity /\ apos[a] \in Int
    BY DEF Onwards, Later, TypeOK, MetroTypeOK
  <2>4. apos[a] > NegInfinity /\ apos[a] # NegInfinity
    BY <2>2, <2>3, ScoreBeats
  <2>5. curlist[a] # 0 /\ apos[a] = Held(a)
    BY <2>1, <2>4 DEF WaitsForHeld
  <2>6. ASSUME NEW q \in EPs
        PROVE  prev'[q] < Held(a)
    <3>1. prev[q] < Held(a)
      BY <2>1, <2>5 DEF StopsAhead
    <3>2. CASE prev'[q] = prev[q] \/ prev'[q] = NegInfinity
      BY <2>4, <2>5, <3>1, <3>2
    <3>3. CASE q = p /\ prev'[q] = pos[p] /\ pos[p] < Later(oldppqPos, ppqPos)
      <4>1. pos[p] \in Int
        BY DEF TypeOK
      <4>2. QED
        BY <2>2, <2>3, <2>5, <3>3, <4>1
    <3>4. QED
      BY <1>5, <1>6, <3>2, <3>3 DEF TypeOK
  <2>7. QED
    BY <2>1, <2>4, <2>6
<1>8. EventsAhead'
  <2> SUFFICES ASSUME NEW q \in EPs, active'[q] = 1
               PROVE  /\ turn <= Len(Actions) + q /\ ~moving => pos'[q] >= oldppqPos
                      /\ turn > Len(Actions) + q /\ ~moved => pos'[q] >= ppqPos
    BY <1>1 DEF EventsAhead
  <2>1. CASE q # p
    <3>1. active'[q] = active[q] /\ pos'[q] = pos[q]
      BY <2>1 DEF PullEvent, PlayEvent, StreamEnds, Advance, TypeOK
    <3>2. QED
      BY <1>1, <3>1 DEF EventsAhead
  <2>2. CASE q = p /\ (PullEvent(p) \/ PlayEvent(p))
    <3>1. next[p] \in 1..Len(Streams[p]) /\ pos'[p] = pos[p] + Streams[p][next[p]]
      BY <2>2, Scores DEF PullEvent, PlayEvent, HasNext, Advance, TypeOK
    <3>2. pos[p] \in Int /\ oldppqPos \in Int /\ pos'[p] >= pos[p] /\ pos'[p] \in Int
      <4>1. Streams[p][next[p]] \in Nat
        BY <3>1, Scores
      <4>2. pos[p] \in Int /\ oldppqPos \in Int
        BY DEF TypeOK, MetroTypeOK
      <4>3. QED
        BY <3>1, <4>1, <4>2
    <3>3. ~moving => pos[p] >= oldppqPos
      BY <1>1, Scores DEF EventsAhead
    <3>4. ~(turn > Len(Actions) + p)
      BY <1>1, Scores
    <3>5. QED
      BY <2>2, <3>2, <3>3, <3>4
  <2>3. CASE q = p /\ StreamEnds(p)
    BY <2>3 DEF StreamEnds, TypeOK
  <2>4. QED
    BY <2>1, <2>2, <2>3
<1>9. QED
  BY <1>3, <1>4, <1>7, <1>8

\* A turn is over when nothing is left in the window.
LEMMA TurnKeepsScore == ASSUME TypeOK, ScoreInv, NextPlayer PROVE ScoreInv'
<1> USE DEF ScoreInv, metro, position, history, eplayers, aplayers
<1>1. /\ pc = "frame" /\ turn' = turn + 1 /\ turn \in Int /\ TurnOver
      /\ UNCHANGED <<metro, eplayers, aplayers, history>>
  BY DEF NextPlayer, TypeOK
<1>2. [Next]_vars
  BY DEF Next
<1>3. Onwards' /\ WaitsForHeld'
  BY <1>2, OnwardsKept, WaitsKept
<1>4. StopsAhead'
  BY <1>1 DEF StopsAhead, Held
<1>5. ActionsAhead'
  <2>1. \A a \in AEPs : turn' <= a => turn <= a
    BY <1>1, Scores
  <2>2. QED
    BY <1>1, <2>1 DEF ActionsAhead
<1>6. ActionsDone'
  <2> SUFFICES ASSUME NEW a \in AEPs, aactive[a] = 1, turn + 1 > a, ~moved \/ LastToMove(a)
               PROVE  apos[a] > Later(oldppqPos, ppqPos)
    BY <1>1 DEF ActionsDone, Later
  <2>1. CASE turn > a
    BY <1>1, <2>1 DEF ActionsDone
  <2>2. CASE turn = a
    <3>1. ~Due(a)
      BY <1>1, <2>2, Scores DEF TurnOver, TurnOf
    <3>2. apos[a] \in Int /\ Later(oldppqPos, ppqPos) \in Int
      BY DEF TypeOK, MetroTypeOK, Later
    <3>3. QED
      BY <3>1, <3>2 DEF Due
  <2>3. QED
    BY <1>1, <2>1, <2>2, Scores
<1>7. EventsAhead'
  <2> SUFFICES ASSUME NEW p \in EPs, active[p] = 1
               PROVE  /\ turn + 1 <= Len(Actions) + p /\ ~moving => pos[p] >= oldppqPos
                      /\ turn + 1 > Len(Actions) + p /\ ~moved => pos[p] >= ppqPos
    BY <1>1 DEF EventsAhead
  <2>1. CASE turn = Len(Actions) + p
    <3>1. ~Before(p) /\ ~InWindow(p)
      <4>1. ASSUME NEW q \in EPs, turn = TurnOf("event", q)
            PROVE  q = p
        BY <2>1, <4>1, Scores DEF TurnOf
      <4>2. \A a \in AEPs : turn # TurnOf("action", a)
        BY <2>1, Scores DEF TurnOf
      <4>3. QED
        BY <1>1, <4>1, <4>2 DEF TurnOver
    <3>2. pos[p] \in Int /\ oldppqPos \in Int /\ ppqPos \in Int
      BY DEF TypeOK, MetroTypeOK
    <3>3. pos[p] >= ppqPos
      BY <3>1, <3>2 DEF Before, InWindow
    <3>4. ~(turn + 1 <= Len(Actions) + p)
      BY <2>1, Scores
    <3>5. QED
      BY <3>3, <3>4
  <2>2. CASE turn # Len(Actions) + p
    <3>1. /\ turn + 1 <= Len(Actions) + p => turn <= Len(Actions) + p
          /\ turn + 1 > Len(Actions) + p => turn > Len(Actions) + p
      <4>1. Len(Actions) + p \in Int
        BY Scores
      <4>2. QED
        BY <1>1, <2>2, <4>1
    <3>2. QED
      BY <1>1, <3>1 DEF EventsAhead
  <2>3. QED
    BY <2>1, <2>2
<1>8. QED
  BY <1>3, <1>4, <1>5, <1>6, <1>7

\* A frame ends when all turns are over.
LEMMA EndKeepsScore == ASSUME TypeOK, ScoreInv, EndFrame PROVE ScoreInv'
<1> USE DEF ScoreInv, position, eplayers, aplayers
<1>1. /\ pc = "frame" /\ pc' = "idle" /\ turn > Len(Actions) + Len(Streams)
      /\ UNCHANGED <<position, turn, eplayers, aplayers, moved, moving>>
  BY DEF EndFrame, FrameEnd
<1>2. [Next]_vars
  BY DEF Next
<1>3. Onwards' /\ WaitsForHeld'
  BY <1>2, OnwardsKept, WaitsKept
<1>4. StopsAhead' /\ ActionsDone'
  BY <1>1 DEF StopsAhead, ActionsDone, Held
<1>5. ActionsAhead'
  <2> SUFFICES ASSUME NEW a \in AEPs, aactive[a] = 1, ~moved
               PROVE  apos[a] > ppqPos
    BY <1>1 DEF ActionsAhead
  <2>1. turn > a
    BY <1>1, Scores DEF TypeOK
  <2>2. apos[a] > Later(oldppqPos, ppqPos)
    BY <1>1, <2>1 DEF ActionsDone
  <2>3. QED
    BY <2>2 DEF Later, TypeOK, MetroTypeOK
<1>6. EventsAhead'
  <2>1. \A p \in EPs : turn > Len(Actions) + p
    BY <1>1, Scores DEF TypeOK
  <2>2. QED
    BY <1>1, <2>1 DEF EventsAhead
<1>7. QED
  BY <1>3, <1>4, <1>5, <1>6

\* What moves the clock between two frames is remembered.
LEMMA TransportKeepsScore == ASSUME TypeOK, ScoreInv, Transport PROVE ScoreInv'
<1> USE DEF ScoreInv, eplayers, aplayers
<1>1. /\ pc = "idle" /\ pc' = "idle" /\ oldppqPos' = oldppqPos
      /\ UNCHANGED <<turn, eplayers, aplayers, moving>>
      /\ moved' = (moved \/ ppqPos' # ppqPos)
  BY DEF Transport, Handler, Command
<1>2. [Next]_vars
  BY DEF Next
<1>3. Onwards' /\ WaitsForHeld'
  BY <1>2, OnwardsKept, WaitsKept
<1>4. ActionsDone' /\ ActionsAhead' /\ StopsAhead' /\ EventsAhead'
  BY <1>1 DEF ActionsDone, ActionsAhead, StopsAhead, EventsAhead, Held
<1>5. QED
  BY <1>3, <1>4

LEMMA ScoreInductive == ASSUME TypeOK, ScoreInv, [Next]_vars PROVE ScoreInv'
<1>1. ASSUME UNCHANGED <<ppqPos, oldppqPos, pc, turn, eplayers, aplayers, history>>
      PROVE  ScoreInv'
  BY <1>1 DEF ScoreInv, Onwards, WaitsForHeld, ActionsDone, ActionsAhead, StopsAhead, EventsAhead, Held,
              eplayers, aplayers, history, Later
<1>2. CASE (Tick \/ TimerStrikes) /\ UNCHANGED <<turn, eplayers, aplayers, history>>
  BY <1>1, <1>2 DEF Tick, TimerStrikes, metro, position
<1>3. CASE UNCHANGED vars
  BY <1>1, <1>3 DEF vars, metro, position
<1>4. QED
  BY <1>2, <1>3, TransportKeepsScore, BeginKeepsScore, ActionKeepsScore, EventKeepsScore, TurnKeepsScore,
     EndKeepsScore DEF Next

LEMMA ScoreAlways == Spec => []ScoreInv
<1>1. ASSUME Init PROVE ScoreInv
  <2>1. Onwards
    BY <1>1, ScoreBeats DEF Init, MetroInit, Onwards
  <2>2. WaitsForHeld /\ ActionsDone /\ ActionsAhead /\ StopsAhead
    BY <1>1 DEF Init, MetroInit, WaitsForHeld, ActionsDone, ActionsAhead, StopsAhead
  <2>3. EventsAhead
    BY <1>1, ScoreBeats DEF Init, MetroInit, EventsAhead
  <2>4. QED
    BY <2>1, <2>2, <2>3 DEF ScoreInv
<1>2. QED
  BY <1>1, ScoreInductive, PlayersTypeCorrect, PTL DEF Spec

\* No event is passed over unless the clock was moved, whatever actions start and stop its player
\* and however many strikes are lost (playersppq.lua:216-246, :289; playerssc.lua:175).
THEOREM NoneIsPassedOver == Spec => NoEventPassedOver
<1>1. ASSUME TypeOK, ScoreInv, NEW p \in EPs, PullEvent(p)
      PROVE  moving
  <2>1. pc = "frame" /\ turn = Len(Actions) + p /\ active[p] = 1 /\ oldppqPos > pos[p]
    BY <1>1 DEF PullEvent, EventTurn, TurnOf, Before
  <2>2. oldppqPos \in Int /\ pos[p] \in Int /\ turn <= Len(Actions) + p
    <3>1. oldppqPos \in Int /\ pos[p] \in Int
      BY <1>1 DEF TypeOK, MetroTypeOK
    <3>2. turn <= Len(Actions) + p
      BY <2>1, Scores
    <3>3. QED
      BY <3>1, <3>2
  <2>3. QED
    BY <1>1, <2>1, <2>2 DEF ScoreInv, EventsAhead
<1>2. TypeOK /\ ScoreInv => [\A p \in EPs : PullEvent(p) => moving]_vars
  BY <1>1
<1>3. QED
  BY <1>2, ScoreAlways, PlayersTypeCorrect, PTL DEF NoEventPassedOver

\* An action is performed in the frame whose window holds its beat, unless the clock was moved,
\* for any score in the order of its beats (playersppq.lua:617-639).
THEOREM ActionsInTheirWindow == Spec => ActionInItsWindow
<1>1. ASSUME TypeOK, ScoreInv, NEW a \in AEPs, RunAction(a), curlist[a] # 0, ~moving
      PROVE  Actions[a][curlist[a]].ppq \in (oldppqPos + 1)..ppqPos
  <2>1. apos[a] = Held(a) /\ apos[a] > oldppqPos
    BY <1>1, ActionPosition
  <2>2. apos[a] <= Later(oldppqPos, ppqPos)
    BY <1>1 DEF RunAction, Due
  <2>3. oldppqPos \in Int /\ ppqPos \in Int /\ apos[a] \in Int
    BY <1>1 DEF TypeOK, MetroTypeOK
  <2>4. QED
    BY <2>1, <2>2, <2>3 DEF Held, Later
<1>2. TypeOK /\ ScoreInv =>
         [\A a \in AEPs : RunAction(a) /\ curlist[a] # 0 /\ ~moving =>
             Actions[a][curlist[a]].ppq \in (oldppqPos + 1)..ppqPos]_vars
  BY <1>1
<1>3. QED
  BY <1>2, ScoreAlways, PlayersTypeCorrect, PTL DEF ActionInItsWindow

\* A STOP at a beat comes before the events of that beat, wherever the clock has been sent, if no
\* action player sends it on after the turn of the STOP (playersppq.lua:457-464, :622).
THEOREM StopsInTime == Spec => StopInTime
<1>1. ASSUME TypeOK, ScoreInv, NEW a \in AEPs, NEW k \in DOMAIN Actions[a], RunAction(a), curlist[a] = k,
             Actions[a][k].verb = "STOP", \A b \in AEPs : b > a => ~Moves(b)
      PROVE  prev[Actions[a][k].arg] < Actions[a][k].ppq
  <2>1. Actions[a][k].arg \in EPs
    BY <1>1, StartStopAssumption
  <2>2. aactive[a] = 1 /\ curlist[a] # 0 /\ LastToMove(a)
    BY <1>1, Scores DEF RunAction, Due, LastToMove
  <2>3. QED
    BY <1>1, <2>1, <2>2 DEF ScoreInv, StopsAhead, Held
<1>2. TypeOK /\ ScoreInv =>
         [\A a \in AEPs : \A k \in DOMAIN Actions[a] :
             /\ RunAction(a) /\ curlist[a] = k /\ Actions[a][k].verb = "STOP"
             /\ \A b \in AEPs : b > a => ~Moves(b)
             => prev[Actions[a][k].arg] < Actions[a][k].ppq]_vars
  BY <1>1
<1>3. QED
  BY <1>2, ScoreAlways, PlayersTypeCorrect, PTL DEF StopInTime
=============================================================================
