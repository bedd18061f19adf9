------------------------------ MODULE Debugger ------------------------------
(***************************************************************************)
(* The debugger: a script that runs with line hooks stops at breakpoints   *)
(* and steps (sc/debugger.lua), shows itself over idlelinda and waits for  *)
(* commands in debuggerlinda; the IDE lets the user give one only when a   *)
(* stop has been shown (ide/idescriptrun.lua). Scripts are run one after   *)
(* another over the same two lindas and may be cancelled at any moment.    *)
(*                                                                         *)
(* Which line comes next, and whether it is at the level that a step over  *)
(* waits for, is open.                                                     *)
(***************************************************************************)
EXTENDS Naturals, Sequences

CONSTANTS
    Lines,          \* lines that may get a breakpoint
    MaxRuns,        \* bound: scripts run
    MaxWaiting,     \* bound: "break" and "brpoints" messages waiting
    MaxExits        \* bound: presses of Script Exit

ASSUME DebuggerAssumption == MaxRuns \in Nat /\ MaxWaiting \in Nat /\ MaxExits \in Nat

VARIABLES
    markers,        \* the breakpoint markers of the editor
    commandsOn,     \* ID_CONTINUE and the three steps are enabled
    breakOn,        \* ID_BREAK is enabled
    script_lane,    \* the IDE knows of a script
    Debuggerbp,     \* what ScriptRun was sent with: the breakpoints, and whether to debug
    debuggerlinda,  \* of each key with nothing but ones: how many wait
    brpoints,       \* the key "brpoints": <<"add" or "delete", line>>
    shown,          \* the key "debugger" of idlelinda: each message is of a "stop" or an "error"
    lane,           \* the script: none, asked for, running, stopped, over
    hooked,         \* whether it runs with the hook
    breakpoints, step,      \* of Debugger
    runs, exits,
    missed,         \* lines whose markers were changed between ScriptRun and Debugger:init
    answerable      \* no message of another script, and no exit, has come in between

ide == <<markers, commandsOn, breakOn, script_lane, Debuggerbp>>
hook == <<hooked, breakpoints, step>>
dbghistory == <<runs, exits, missed, answerable>>
dbgvars == <<ide, debuggerlinda, brpoints, shown, lane, hook, dbghistory>>

Steps == {"step_into", "step_over", "step_out"}
Commands == {"continue"} \cup Steps
Ones == Commands \cup {"debug_exit", "break"}

DebuggerInit ==
    /\ markers = {} /\ commandsOn = FALSE /\ breakOn = FALSE /\ script_lane = FALSE
    /\ Debuggerbp = [on |-> FALSE, breakpoints |-> {}]
    /\ debuggerlinda = [k \in Ones |-> 0] /\ brpoints = <<>> /\ shown = <<>>
    /\ lane = "none"
    /\ hooked = FALSE /\ breakpoints = {} /\ step = "none"
    /\ runs = 0 /\ exits = 0 /\ missed = {} /\ answerable = TRUE

EnableDebugCommands(flag, flagbreak) == commandsOn' = flag /\ breakOn' = flagbreak

\* A message about a stop waits to be shown.
StopShown == \E i \in DOMAIN shown : shown[i] = "stop"

SendDebugger(key) == debuggerlinda' = [debuggerlinda EXCEPT ![key] = @ + 1]

-----------------------------------------------------------------------------
(* The IDE.                                                                *)

\* ID_RUN and ideScriptRun; the file may not be saved, and then no script is run.
RunDebugged(debugging) ==
    /\ ~script_lane
    /\ EnableDebugCommands(FALSE, debugging)
    /\ \/ /\ runs < MaxRuns
          /\ Debuggerbp' = [on |-> debugging, breakpoints |-> IF debugging THEN markers ELSE {}]
          /\ script_lane' = TRUE /\ lane' = "asked"
          /\ runs' = runs + 1 /\ missed' = {}
       \/ UNCHANGED <<script_lane, Debuggerbp, lane, runs, missed>>
    /\ UNCHANGED <<markers, debuggerlinda, brpoints, shown, hook, exits, answerable>>

\* ID_CONTINUE, ID_STEPINTO, ID_STEPOVER, ID_STEPOUT
Command(key) ==
    /\ commandsOn
    /\ SendDebugger(key)
    /\ EnableDebugCommands(FALSE, TRUE)
    /\ UNCHANGED <<markers, script_lane, Debuggerbp, brpoints, shown, lane, hook, dbghistory>>

\* ID_BREAK
BreakCommand ==
    /\ breakOn /\ debuggerlinda["break"] < MaxWaiting
    /\ SendDebugger("break")
    /\ UNCHANGED <<ide, brpoints, shown, lane, hook, dbghistory>>

\* ID_SCRIPTEXIT; script_exit, sent beside it, is in MainLoop.
ExitCommand ==
    /\ script_lane /\ exits < MaxExits
    /\ SendDebugger("debug_exit")
    /\ exits' = exits + 1
    /\ UNCHANGED <<ide, brpoints, shown, lane, hook, runs, missed, answerable>>

ToggleDebugMarker(line) ==
    /\ Len(brpoints) < MaxWaiting
    /\ IF line \in markers
       THEN markers' = markers \ {line} /\ brpoints' = Append(brpoints, <<"delete", line>>)
       ELSE markers' = markers \cup {line} /\ brpoints' = Append(brpoints, <<"add", line>>)
    /\ missed' = IF lane = "asked" THEN missed \cup {line} ELSE missed
    /\ UNCHANGED <<commandsOn, breakOn, script_lane, Debuggerbp, debuggerlinda, shown, lane, hook,
                   runs, exits, answerable>>

\* Mutant of checkendScript: a script that waits is taken for one that has ended, as CancelScript does.
checkendScriptWaiting ==
    /\ script_lane /\ lane \in {"over", "stopped"}
    /\ EnableDebugCommands(FALSE, FALSE)
    /\ script_lane' = FALSE
    /\ UNCHANGED <<markers, Debuggerbp, debuggerlinda, brpoints, shown, lane, hook, dbghistory>>

\* The idle handler asks main for the script's status and finds that it has ended.
checkendScript ==
    /\ script_lane /\ lane = "over"
    /\ EnableDebugCommands(FALSE, FALSE)
    /\ script_lane' = FALSE
    /\ UNCHANGED <<markers, Debuggerbp, debuggerlinda, brpoints, shown, lane, hook, dbghistory>>

\* The idle handler takes a "debugger" message, of whichever script.
ShowDebugInfo ==
    /\ shown # <<>>
    /\ shown' = Tail(shown)
    /\ IF Head(shown) = "stop"
       THEN EnableDebugCommands(TRUE, FALSE)
       ELSE UNCHANGED <<commandsOn, breakOn>>
    /\ UNCHANGED <<markers, script_lane, Debuggerbp, debuggerlinda, brpoints, lane, hook, dbghistory>>

-----------------------------------------------------------------------------
(* The script.                                                             *)

\* pmain, with Debugger:init when debugging.
StartDebugged ==
    /\ lane = "asked"
    /\ lane' = "running"
    /\ hooked' = Debuggerbp.on /\ step' = "none"
    /\ IF Debuggerbp.on
       THEN /\ breakpoints' = Debuggerbp.breakpoints
            /\ debuggerlinda' = [k \in Ones |-> 0] /\ brpoints' = <<>>
       ELSE /\ breakpoints' = {}
            /\ UNCHANGED <<debuggerlinda, brpoints>>
    /\ answerable' = (~commandsOn /\ ~StopShown)
    /\ UNCHANGED <<ide, shown, runs, exits, missed>>

\* debug_hook finds that it has to stop, and shows it.
StopScript ==
    /\ lane' = "stopped"
    /\ step' = "none"
    /\ shown' = Append(shown, "stop")
    /\ UNCHANGED <<ide, brpoints, hooked, breakpoints, dbghistory>>

\* debug_hook at a line with a breakpoint, or after a step: one step over may go past the line.
StopAtLine(line) ==
    /\ lane = "running" /\ hooked
    /\ line \in breakpoints \/ step # "none"
    /\ StopScript
    /\ UNCHANGED debuggerlinda

\* debug_hook, every 10000 lines, finds "break".
BreakIn ==
    /\ lane = "running" /\ hooked
    /\ debuggerlinda["break"] > 0
    /\ debuggerlinda' = [debuggerlinda EXCEPT !["break"] = @ - 1]
    /\ StopScript

\* The receive of a script that is stopped, by the order of its keys.
WaitKeys == <<"continue", "debug_exit", "step_into", "step_over", "step_out">>
TakesCommand(key) ==
    /\ lane = "stopped"
    /\ \E i \in DOMAIN WaitKeys :
          WaitKeys[i] = key /\ \A j \in 1..(i - 1) : debuggerlinda[WaitKeys[j]] = 0
    /\ debuggerlinda[key] > 0
    /\ debuggerlinda' = [debuggerlinda EXCEPT ![key] = @ - 1]
    /\ lane' = "running"

TakeContinue ==
    /\ TakesCommand("continue")
    /\ UNCHANGED <<ide, brpoints, shown, hook, dbghistory>>

TakeStep ==
    /\ \E key \in Steps : TakesCommand(key) /\ step' = IF key = "step_into" THEN "into" ELSE "over"
    /\ UNCHANGED <<ide, brpoints, shown, hooked, breakpoints, dbghistory>>

\* The hook is removed from the coroutine that is stopped; others may keep theirs.
TakeDebugExit ==
    /\ TakesCommand("debug_exit")
    /\ hooked' \in BOOLEAN
    /\ answerable' = FALSE
    /\ UNCHANGED <<ide, brpoints, shown, breakpoints, step, runs, exits, missed>>

\* What a breakpoint message does to the table of breakpoints.
Changed(bps, msg) == IF msg[1] = "add" THEN bps \cup {msg[2]} ELSE bps \ {msg[2]}

TakeBreakpoint ==
    /\ lane = "stopped"
    /\ \A i \in DOMAIN WaitKeys : debuggerlinda[WaitKeys[i]] = 0
    /\ brpoints # <<>>
    /\ breakpoints' = Changed(breakpoints, Head(brpoints))
    /\ brpoints' = Tail(brpoints)
    /\ UNCHANGED <<ide, debuggerlinda, shown, lane, hooked, step, dbghistory>>

\* The script ends, fails (xpcallerror shows where, to no command), is cancelled or killed.
ScriptEnds ==
    /\ lane \in {"asked", "running", "stopped"}
    /\ lane' = "over"
    /\ shown' \in {shown} \cup (IF lane = "asked" THEN {} ELSE {Append(shown, "error")})
    /\ UNCHANGED <<ide, debuggerlinda, brpoints, hook, dbghistory>>

DebuggerNext ==
    \/ \E debugging \in BOOLEAN : RunDebugged(debugging)
    \/ \E key \in Commands : Command(key)
    \/ BreakCommand \/ ExitCommand
    \/ \E line \in Lines : ToggleDebugMarker(line) \/ StopAtLine(line)
    \/ checkendScript \/ ShowDebugInfo
    \/ StartDebugged \/ BreakIn
    \/ TakeContinue \/ TakeStep \/ TakeDebugExit \/ TakeBreakpoint
    \/ ScriptEnds

DebuggerSpec == DebuggerInit /\ [][DebuggerNext]_dbgvars

-----------------------------------------------------------------------------
DebuggerTypeOK ==
    /\ markers \subseteq Lines /\ breakpoints \subseteq Lines /\ missed \subseteq Lines
    /\ {commandsOn, breakOn, script_lane, hooked, answerable} \subseteq BOOLEAN
    /\ Debuggerbp \in [on : BOOLEAN, breakpoints : SUBSET Lines]
    /\ debuggerlinda \in [Ones -> Nat]
    /\ brpoints \in Seq({"add", "delete"} \X Lines) /\ shown \in Seq({"stop", "error"})
    /\ lane \in {"none", "asked", "running", "stopped", "over"}
    /\ step \in {"none", "into", "over"}

\* A script that is stopped can be let go on: the user may give a command, or a message that will
\* enable the commands, or a command, is on its way (debugger.lua:150, idescriptrun.lua:209-213,
\* ide.lua:172): no order of stops, stale messages and status polls leaves it stopped and the
\* menu disabled.
StopIsAnswerable ==
    lane = "stopped" =>
        \/ commandsOn
        \/ StopShown
        \/ \E key \in Commands \cup {"debug_exit"} : debuggerlinda[key] > 0

\* A command that waits was given for the stop the script is in, and it is the only one: unless a
\* message of an earlier script or a Script Exit has come in between, no command is left over to
\* let the script go from a later stop at once.
CommandMeetsItsStop ==
    answerable /\ lane \in {"running", "stopped"} /\ Debuggerbp.on =>
        LET waiting == {key \in Commands : debuggerlinda[key] > 0}
        IN  /\ waiting # {} => lane = "stopped" /\ ~commandsOn /\ ~StopShown
            /\ \A k1, k2 \in waiting : k1 = k2 /\ debuggerlinda[k1] = 1

\* Whether the script will stop at a line once the messages that wait are taken: the last one
\* about the line decides.
WillBreak(line) ==
    \/ \E i \in DOMAIN brpoints :
          brpoints[i] = <<"add", line>> /\ \A j \in DOMAIN brpoints : j > i => brpoints[j][2] # line
    \/ line \in breakpoints /\ \A i \in DOMAIN brpoints : brpoints[i][2] # line

\* Once the messages that wait are taken, the script stops at the lines that the editor marks,
\* but for lines changed between ScriptRun and Debugger:init, which empties the linda.
BreakpointsCatchUp ==
    lane \in {"running", "stopped"} /\ Debuggerbp.on =>
        \A line \in Lines \ missed : WillBreak(line) <=> line \in markers

\* The protocol of debuggerlinda and idlelinda between a stopped script and the IDE: a stop can
\* always be answered, a command meets the stop it was given for and no later one, and the
\* breakpoints of the script catch up with the markers of the editor (sc/debugger.lua:105-195).
DebuggerSound == DebuggerTypeOK /\ StopIsAnswerable /\ CommandMeetsItsStop /\ BreakpointsCatchUp
=============================================================================
