----------------------------- MODULE Metronome -----------------------------
(***************************************************************************)
(* theMetro, the clock of a script (sc/MetronomLanes.lua).  While it plays *)
(* a periodic lanes timer sets the key "metronomLanes" in scriptlinda;     *)
(* MsgLoop answers with setMetronomLanes, which moves the position by one  *)
(* frame, [oldppqPos, ppqPos), and lets every player act on it             *)
(* (_onFrameCb).  The key is set, so the strikes a busy script misses      *)
(* collapse into one, and setMetronomLanes makes up for them.              *)
(*                                                                         *)
(* Time is in ticks, positions (ppq) in units such that bps is an integer  *)
(* number of units per tick.  The notification of the IDE is left out.     *)
(***************************************************************************)
EXTENDS Integers

CONSTANTS Period,   \* theMetro.period, in ticks
          Tempos,   \* the values of bps
          Beats,    \* the positions the script or the user may go to
          FirstBeat,\* the position set by theMetro:init
          MaxTime   \* bound on the clock

ASSUME PeriodAssumption == Period \in Nat \ {0}
ASSUME TemposAssumption == Tempos \subseteq Nat \ {0} /\ Tempos # {}
ASSUME BeatsAssumption == Beats \subseteq Int /\ FirstBeat \in Int
ASSUME MaxTimeAssumption == MaxTime \in Nat

Never == MaxTime + Period + 1   \* "the timer is not armed"

VARIABLES
    now,            \* lanes.now_secs()
    playing,        \* theMetro.playing, 0 or 1
    bps,            \* theMetro.bps
    ppqPos,         \* theMetro.ppqPos: end of the window being played
    oldppqPos,      \* theMetro.oldppqPos: its start
    oldtimestamp,   \* theMetro.oldtimestamp: the time of oldppqPos
    timestamp,      \* theMetro.timestamp: the time of the end of the frame
    tms1,           \* the time setMetronomLanes was entered
    timer,          \* when the lanes timer "metronomLanes" strikes next, or Never
    mail,           \* "metronomLanes" messages in scriptlinda: the key is set, so 0 or 1
    pc,             \* the script thread: "idle" in MsgLoop, or inside a "frame"
    ghosts          \* frames begun while stopped since the last start (not in the program)

position == <<ppqPos, oldppqPos>>
clock == <<oldtimestamp, timestamp, tms1, timer, mail>>
metro == <<playing, bps, position, clock, pc, ghosts>>
mvars == <<now, metro>>

frame == bps * Period   \* theMetro.frame

MetroInit ==
    /\ now = 0
    /\ playing = 0
    /\ bps \in Tempos
    /\ ppqPos = FirstBeat
    /\ oldppqPos = FirstBeat
    /\ oldtimestamp = 0 /\ timestamp = 0 /\ tms1 = 0
    /\ timer = Never
    /\ mail = 0
    /\ pc = "idle"
    /\ ghosts = 0

\* Time passes, also while a handler runs.
Tick ==
    /\ now < MaxTime
    /\ now' = now + 1
    /\ UNCHANGED metro

\* The timer lane: the key is set, and of the later strikes those already past are jumped.
TimerStrikes ==
    /\ timer <= now
    /\ mail' = 1
    /\ \E k \in 1..Never :
          /\ timer' = timer + k * Period
          /\ timer' - Period <= now
          /\ now < timer'
    /\ UNCHANGED <<now, playing, bps, position, oldtimestamp, timestamp, tms1, pc, ghosts>>

-----------------------------------------------------------------------------
(* The methods of theMetro, called by MsgLoop and by what runs in a frame. *)

\* Mutant of start: the first strike is asked for at once.
startAtOnce ==
    /\ playing' = 1
    /\ oldtimestamp' = now
    /\ timer' = now
    /\ ghosts' = 0

start ==
    /\ playing' = 1
    /\ oldtimestamp' = now
    /\ timer' = now + Period
    /\ ghosts' = 0

\* Mutant of stop: the timer is left running.
stopTimerRuns == playing' = 0 /\ UNCHANGED <<oldtimestamp, timer, ghosts>>

\* lanes.timer without a time clears the timer; a key already set stays set.
stop ==
    /\ playing' = 0
    /\ timer' = Never
    /\ UNCHANGED <<oldtimestamp, ghosts>>

\* play(bpm, beat): what is given is changed, and the metronome started or stopped again.
play(tempo, beat) ==
    /\ bps' = tempo
    /\ ppqPos' = beat
    /\ IF playing = 1 THEN start ELSE stop

\* What a handler, or a callback inside a frame, may ask of the metronome.
Command ==
    /\ \/ start /\ UNCHANGED <<bps, ppqPos>>
       \/ stop /\ UNCHANGED <<bps, ppqPos>>
       \/ \E tempo \in Tempos : play(tempo, ppqPos)
       \/ \E beat \in Beats : play(bps, beat)
    /\ UNCHANGED <<now, oldppqPos, timestamp, tms1, mail, pc>>

\* MsgLoop executes a "tempo", "play" or "beat". The receive gives "metronomLanes" precedence, but
\* a strike may still come between the receive and the command.
Handler == pc = "idle" /\ Command
InFrame == pc = "frame" /\ Command

-----------------------------------------------------------------------------
(* setMetronomLanes.                                                       *)

\* Mutant of Catchup: a whole frame is added besides the time that was lost.
CatchupFrame(due) ==
    LET lost == now - due
    IN  IF lost >= Period
        THEN timestamp' = now /\ ppqPos' = ppqPos + frame + lost * bps + frame
        ELSE timestamp' = due /\ ppqPos' = ppqPos + frame

\* Mutant of Catchup: the position moves by one frame, however late the message.
CatchupNone(due) == timestamp' = due /\ ppqPos' = ppqPos + frame

\* The frame ends at due, or at the present if that is a period or more past.
Catchup(due) ==
    LET lost == now - due
    IN  IF lost >= Period
        THEN timestamp' = now /\ ppqPos' = ppqPos + frame + lost * bps
        ELSE timestamp' = due /\ ppqPos' = ppqPos + frame

\* The position has been set behind the start of the last frame.
Backwards == oldppqPos > ppqPos

FrameStart ==
    /\ pc = "idle"
    /\ mail = 1
    /\ mail' = 0
    /\ pc' = "frame"
    /\ tms1' = now
    /\ oldppqPos' = ppqPos
    /\ Catchup(oldtimestamp + Period)
    /\ ghosts' = ghosts + 1 - playing
    /\ UNCHANGED <<now, playing, bps, oldtimestamp, timer>>

FrameEnd ==
    /\ pc = "frame"
    /\ pc' = "idle"
    /\ oldtimestamp' = timestamp
    /\ UNCHANGED <<now, playing, bps, position, timestamp, tms1, timer, mail, ghosts>>

MetroNext ==
    \/ Tick
    \/ TimerStrikes
    \/ Handler
    \/ InFrame
    \/ FrameStart
    \/ FrameEnd

MetroSpec == MetroInit /\ [][MetroNext]_mvars

-----------------------------------------------------------------------------
\* The shape of the state.
MetroTypeOK ==
    /\ now \in 0..MaxTime
    /\ playing \in {0, 1}
    /\ bps \in Tempos
    /\ ppqPos \in Int /\ oldppqPos \in Int
    /\ oldtimestamp \in Nat /\ timestamp \in Nat /\ tms1 \in 0..now
    /\ timer \in 0..Never
    /\ mail \in {0, 1}
    /\ pc \in {"idle", "frame"}
    /\ ghosts \in Nat

\* The metronome keeps time (MetronomLanes.lua:173-192): however late or often the timer strikes
\* and whenever it is started, stopped or moved, the end of a frame is less than a period
\* behind the time the frame began and less than two periods ahead of it.  (Being ahead is not
\* corrected: a frame made longer for lost strikes may be followed by a late strike's.)
KeepsTime == pc = "frame" => timestamp - tms1 \in 1 - Period .. 2 * Period - 1

\* Where the next frame is to begin is bounded by when its strike comes: what keeps KeepsTime.
NextFrameInTime ==
    LET end == IF pc = "idle" THEN oldtimestamp ELSE timestamp
    IN  IF mail = 1
        THEN end < timer /\ end < now + Period
        ELSE end < timer + Period \/ end <= now

\* After stop at most one frame is played, for a strike that was already in the linda
\* (MetronomLanes.lua:93-97), until the metronome is started again.
OneGhostFrame == ghosts <= 1

\* A frame moves the position by as many beats as it takes time at the tempo, lost strikes
\* included (MetronomLanes.lua:173-190): ppq2time gives a beat the same time in two frames.
PositionKeepsTime ==
    [][FrameStart => ppqPos' - ppqPos = bps * (timestamp' - oldtimestamp)]_mvars
=============================================================================
