------------------------------ MODULE MainLoop ------------------------------
(***************************************************************************)
(* The main thread of the program (lua2sc.lua) and the threads around it:  *)
(* the IDE, which asks it to run and cancel scripts, to connect to and     *)
(* leave the sound server and to reopen the MIDI devices; the script       *)
(* lanes; the MIDI lanes.  Requests are messages in mainlinda, one queue   *)
(* per key, and the loop takes the first message of the first key, in the  *)
(* order of its receive.  What the IDE waits for comes back in a linda     *)
(* made for that one request, so that an answer which comes after the IDE  *)
(* has given up is never read.                                             *)
(*                                                                         *)
(* The connection itself is in CommLoop: here the server is open or not.   *)
(* MIDI events, which main only passes on, and the debugger are left out.  *)
(***************************************************************************)
EXTENDS Integers, Sequences

CONSTANTS MaxInits,     \* bound on the connections the user opens
          MaxSends,     \* bound on the messages sent to the server
          MaxScripts,   \* bound on the scripts run
          MaxResets,    \* bound on the resets of MIDI
          MaxPending,   \* bound on the cancel and status requests left in mainlinda
          CancelTries   \* how often CloseWindow cancels the script: 10

ASSUME BoundsAssumption ==
    /\ MaxInits \in Nat /\ MaxSends \in Nat /\ MaxScripts \in Nat /\ MaxResets \in Nat
    /\ MaxPending \in Nat \ {0} /\ CancelTries \in Nat

\* The keys of the receive at lua2sc.lua:180, in their order, without "_midiEventCb".
Keys == <<"sendsc", "initsc", "closesc", "MidiClose", "MidiOpen", "ide_exit", "ScriptRun",
          "CancelScript", "GetScriptLaneStatus">>

Scripts == 1..MaxScripts
Midis == 1..(MaxResets + 1)

VARIABLES
    ide,        \* where the IDE thread is
    ideInited,  \* IDESCSERVER.inited, 0 or 1
    ideScript,  \* its script_lane, 0 or 1
    tries,      \* count_cancel of CloseWindow
    answer,     \* what the linda of the present request holds: {} or one answer
    counts,     \* what the user has asked for so far (not in the program, but for n_scriptrun)
    mainlinda,  \* the messages of each key
    main,       \* where the main thread is
    serving,    \* the cancel request main is serving, or {}
    scOpen,     \* SCSERVER.inited: the number of the connection that is open, or 0
    script_lane,\* the lane of the last script, or 0
    script,     \* the status of each script lane
    script_exit,\* the scripts that were meant by the "script_exit" messages in scriptlinda
    midilane,   \* the lane of the MIDI thread, or 0
    midi,       \* the status of each MIDI lane
    exits,      \* "exit_midi_thread" messages in midilinda
    dones       \* "exit_midi_thread_done" messages in mainlinda

ideVars == <<ide, ideInited, ideScript, tries, counts>>
scriptVars == <<script_lane, script, script_exit>>
midiVars == <<midilane, midi, exits, dones>>
mainVars == <<main, serving, scOpen>>
vars == <<ideVars, answer, mainlinda, mainVars, scriptVars, midiVars>>

Init ==
    /\ ide = "idle" /\ ideInited = 0 /\ ideScript = 0 /\ tries = 0
    /\ answer = {}
    /\ counts = [inits |-> 0, sends |-> 0, scripts |-> 0, resets |-> 0]
    /\ mainlinda = [k \in {Keys[i] : i \in DOMAIN Keys} |-> <<>>]
    /\ main = "loop" /\ serving = {} /\ scOpen = 0
    /\ script_lane = 0
    /\ script = [s \in Scripts |-> "none"]
    /\ script_exit = {}
    /\ midilane = 1
    /\ midi = [m \in Midis |-> IF m = 1 THEN "opening" ELSE "none"]
    /\ exits = 0 /\ dones = 0

\* The program is there: main has not ended, by itself or by an error.
Up == main \notin {"exited", "dead"}

Send(msgs) == mainlinda' = [k \in DOMAIN mainlinda |->
                               IF k \in DOMAIN msgs THEN mainlinda[k] \o msgs[k] ELSE mainlinda[k]]
Count(what) == counts' = [counts EXCEPT ![what] = @ + 1]

-----------------------------------------------------------------------------
(* The IDE and the sound server.                                           *)

\* BootSC and its variants, enabled while the IDE is not connected: ide_server.init.
InitSC ==
    /\ ide = "idle" /\ ideInited = 0 /\ counts.inits < MaxInits
    /\ Send([initsc |-> <<counts.inits + 1>>])
    /\ ideInited' = 1
    /\ Count("inits")
    /\ UNCHANGED <<ide, ideScript, tries, answer, mainVars, scriptVars, midiVars>>

Message == [quit |-> 0]

\* ide_server.send, or a script's: before the first init the IDE has no linda to send to.
SendSC ==
    /\ \/ ide = "idle" /\ counts.inits > 0
       \/ \E s \in Scripts : script[s] = "running"
    /\ counts.sends < MaxSends
    /\ Send([sendsc |-> <<Message>>])
    /\ Count("sends")
    /\ UNCHANGED <<ide, ideInited, ideScript, tries, answer, mainVars, scriptVars, midiVars>>

\* QuitSCifNotAutodetect, whose message is for the connection opened last, and ide_server.close.
Quit == [quit |-> counts.inits]
QuitMessages ==
    IF ideInited = 1
    THEN [sendsc |-> <<Quit>>, closesc |-> <<counts.inits>>]
    ELSE [sendsc |-> <<Quit>>]

QuitSC ==
    /\ ide = "idle" /\ counts.inits > 0 /\ counts.sends < MaxSends
    /\ \/ Send(QuitMessages)
       \/ Send([closesc |-> IF ideInited = 1 THEN <<counts.inits>> ELSE <<>>])
    /\ ideInited' = 0
    /\ Count("sends")
    /\ UNCHANGED <<ide, ideScript, tries, answer, mainVars, scriptVars, midiVars>>

-----------------------------------------------------------------------------
(* The IDE and MIDI: the reset button of the settings.                     *)

ResetMidi ==
    /\ ide = "idle" /\ counts.resets < MaxResets
    /\ Send([MidiClose |-> <<1>>])
    /\ ide' = "reset"
    /\ answer' = {}
    /\ Count("resets")
    /\ UNCHANGED <<ideInited, ideScript, tries, mainVars, scriptVars, midiVars>>

\* MidiClose_done has come.
ReopenMidi ==
    /\ ide = "reset" /\ answer # {}
    /\ Send([MidiOpen |-> <<1>>])
    /\ ide' = "idle"
    /\ UNCHANGED <<ideInited, ideScript, tries, counts, answer, mainVars, scriptVars, midiVars>>

-----------------------------------------------------------------------------
(* The IDE and the scripts.                                                *)

\* ideScriptRun, enabled while the IDE knows of no script.
RunScript ==
    /\ ide = "idle" /\ ideScript = 0 /\ counts.scripts < MaxScripts
    /\ Send([ScriptRun |-> <<1>>])
    /\ ideScript' = 1
    /\ Count("scripts")
    /\ UNCHANGED <<ide, ideInited, tries, answer, mainVars, scriptVars, midiVars>>

\* The menu's script exit (pressed twice for one script it only leaves one message more).
ExitScript ==
    /\ ide = "idle" /\ ideScript = 1
    /\ counts.scripts \notin script_exit
    /\ script_exit' = script_exit \cup {counts.scripts}
    /\ UNCHANGED <<ideVars, answer, mainlinda, mainVars, script_lane, script, midiVars>>

\* A request for the script run last, with a linda for its answer; asker is 0 once the IDE has
\* given up.
Request(forced) == [lane |-> counts.scripts, forced |-> forced, asker |-> 1]

Ask(key, forced) ==
    /\ Len(mainlinda[key]) < MaxPending
    /\ mainlinda' = [mainlinda EXCEPT ![key] = Append(@, Request(forced))]
    /\ answer' = {}

\* checkendScript, called whenever the IDE is idle.
AskStatus ==
    /\ ide = "idle" /\ ideScript = 1
    /\ Ask("GetScriptLaneStatus", 0)
    /\ ide' = "status"
    /\ UNCHANGED <<ideInited, ideScript, tries, counts, mainVars, scriptVars, midiVars>>

\* Mutant of StatusAnswered: a lane that is not running is taken for one that has ended.
StatusAnsweredPending ==
    /\ ide = "status" /\ answer # {}
    /\ ideScript' = IF answer = {"running"} THEN 1 ELSE 0
    /\ ide' = "idle"
    /\ answer' = {}
    /\ UNCHANGED <<ideInited, tries, counts, mainlinda, mainVars, scriptVars, midiVars>>

StatusAnswered ==
    /\ ide = "status" /\ answer # {}
    /\ ideScript' = IF answer = {"ended"} THEN 0 ELSE 1
    /\ ide' = "idle"
    /\ answer' = {}
    /\ UNCHANGED <<ideInited, tries, counts, mainlinda, mainVars, scriptVars, midiVars>>

\* The menu's cancel, or kill if forced; the answer changes nothing in the IDE.
AskCancel(forced) ==
    /\ ide = "idle" /\ ideScript = 1
    /\ Ask("CancelScript", forced)
    /\ ide' = "cancel"
    /\ UNCHANGED <<ideInited, ideScript, tries, counts, mainVars, scriptVars, midiVars>>

CancelAnswered ==
    /\ ide = "cancel" /\ answer # {}
    /\ ide' = "idle"
    /\ answer' = {}
    /\ UNCHANGED <<ideInited, ideScript, tries, counts, mainlinda, mainVars, scriptVars, midiVars>>

Forsaken(r) == [r EXCEPT !.asker = 0]

\* The IDE waits no longer: whatever main answers now, it will not see.
GiveUp ==
    /\ ide \in {"status", "cancel", "lastcancel"} /\ answer = {}
    /\ ide' = IF ide = "lastcancel" THEN "closing" ELSE "idle"
    /\ tries' = IF ide = "lastcancel" THEN tries + 1 ELSE tries
    /\ mainlinda' = [k \in DOMAIN mainlinda |->
                        IF k \in {"CancelScript", "GetScriptLaneStatus"}
                        THEN [i \in DOMAIN mainlinda[k] |-> Forsaken(mainlinda[k][i])]
                        ELSE mainlinda[k]]
    /\ serving' = {Forsaken(r) : r \in serving}
    /\ UNCHANGED <<ideInited, ideScript, counts, answer, main, scOpen, scriptVars, midiVars>>

-----------------------------------------------------------------------------
(* The IDE closes: CloseWindow, and the finalizer of its lane.             *)

CloseWindow ==
    /\ ide = "idle"
    /\ ide' = "closing"
    /\ UNCHANGED <<ideInited, ideScript, tries, counts, answer, mainlinda, mainVars, scriptVars,
                   midiVars>>

LastCancel ==
    /\ ide = "closing" /\ ideScript = 1 /\ tries < CancelTries
    /\ Ask("CancelScript", 0)
    /\ ide' = "lastcancel"
    /\ UNCHANGED <<ideInited, ideScript, tries, counts, mainVars, scriptVars, midiVars>>

LastCancelAnswered ==
    /\ ide = "lastcancel" /\ answer # {}
    /\ ideScript' = IF answer = {"cancelled"} THEN 0 ELSE 1
    /\ tries' = tries + 1
    /\ ide' = "closing"
    /\ answer' = {}
    /\ UNCHANGED <<ideInited, counts, mainlinda, mainVars, scriptVars, midiVars>>

LeaveIDE ==
    /\ ide = "closing" /\ (ideScript = 0 \/ tries >= CancelTries)
    /\ \E quits \in IF ideInited = 1
                    THEN {QuitMessages, [closesc |-> <<counts.inits>>]}
                    ELSE {[closesc |-> <<>>]} :
          mainlinda' = [k \in DOMAIN mainlinda |->
                           IF k \in DOMAIN quits THEN mainlinda[k] \o quits[k]
                           ELSE IF k = "ide_exit" THEN <<1>> ELSE mainlinda[k]]
    /\ ideInited' = 0
    /\ ide' = "gone"
    /\ UNCHANGED <<ideScript, tries, counts, answer, mainVars, scriptVars, midiVars>>

-----------------------------------------------------------------------------
(* The main thread.                                                        *)

\* Mutant of ServedBefore: the status of the script is asked before scripts are run.
ServedBeforeStatus(i, j) == IF 9 \in {i, j} THEN i = 9 /\ j # 9 ELSE i < j

\* Mutant of ServedBefore: connections are opened before messages are sent.
ServedBeforeInit(i, j) == IF {i, j} = {1, 2} THEN i = 2 ELSE i < j

\* The receive tries its keys in the order they are named.
ServedBefore(i, j) == i < j

\* Main takes the message msg of key k.
Takes(k, msg) ==
    /\ main = "loop"
    /\ mainlinda[k] # <<>> /\ msg = Head(mainlinda[k])
    /\ \A i, j \in DOMAIN Keys : Keys[j] = k /\ ServedBefore(i, j) => mainlinda[Keys[i]] = <<>>
    /\ mainlinda' = [mainlinda EXCEPT ![k] = Tail(@)]

Answer(value) == answer' = {value}

\* SCSERVER:send: without a server the message is dropped.
ServeSend(msg) ==
    /\ Takes("sendsc", msg)
    /\ UNCHANGED <<ideVars, answer, mainVars, scriptVars, midiVars>>

\* SCSERVER:init: a second connection fails the assertion, which ends the program; the first
\* may fail to open (tcp, internal).
ServeInit(n) ==
    /\ Takes("initsc", n)
    /\ IF scOpen # 0
       THEN main' = "dead" /\ UNCHANGED scOpen
       ELSE scOpen' \in {0, n} /\ UNCHANGED main
    /\ UNCHANGED <<ideVars, answer, serving, scriptVars, midiVars>>

\* SCSERVER:close.
ServeClose(n) ==
    /\ Takes("closesc", n)
    /\ scOpen' = 0
    /\ UNCHANGED <<ideVars, answer, main, serving, scriptVars, midiVars>>

\* Mutant of MidiClose: it does not wait for the thread.
MidiCloseHasty(wait, done) ==
    /\ exits' = IF midilane # 0 /\ midi[midilane] \in {"opening", "looping"}
                THEN exits + 1 ELSE exits
    /\ main' = done
    /\ midilane' = 0
    /\ UNCHANGED <<midi, dones>>

\* MidiClose up to its wait, or all of it if the thread has ended; main goes on as done says.
MidiClose(wait, done) ==
    /\ IF midilane # 0 /\ midi[midilane] \in {"opening", "looping"}
       THEN exits' = exits + 1 /\ main' = wait /\ UNCHANGED midilane
       ELSE UNCHANGED exits /\ main' = done /\ midilane' = 0
    /\ UNCHANGED <<midi, dones>>

ServeMidiClose ==
    /\ Takes("MidiClose", 1)
    /\ MidiClose("closing", "loop")
    /\ IF main' = "loop" THEN Answer("done") ELSE UNCHANGED answer
    /\ UNCHANGED <<ideVars, serving, scOpen, scriptVars>>

\* Mutant of MidiClosed: main returns to its loop, wherever it came from.
MidiClosedLoops ==
    /\ main \in {"closing", "exiting"}
    /\ dones > 0 /\ dones' = dones - 1
    /\ midilane' = 0
    /\ main' = "loop" /\ Answer("done")
    /\ UNCHANGED <<ideVars, mainlinda, serving, scOpen, scriptVars, midi, exits>>

\* exit_midi_thread_done has come, to the loop or to the end of the program.
MidiClosed ==
    /\ main \in {"closing", "exiting"}
    /\ dones > 0 /\ dones' = dones - 1
    /\ midilane' = 0
    /\ IF main = "closing"
       THEN main' = "loop" /\ Answer("done")
       ELSE main' = "exited" /\ UNCHANGED answer
    /\ UNCHANGED <<ideVars, mainlinda, serving, scOpen, scriptVars, midi, exits>>

\* MidiOpen, and pmidi.gen.
ServeMidiOpen ==
    /\ Takes("MidiOpen", 1)
    /\ \E m \in Midis :
          /\ midi[m] = "none"
          /\ \A l \in Midis : l < m => midi[l] # "none"
          /\ midi' = [midi EXCEPT ![m] = "opening"]
          /\ midilane' = m
    /\ UNCHANGED <<ideVars, answer, mainVars, scriptVars, exits, dones>>

\* The loop is left, and MIDI closed.
ServeExit ==
    /\ Takes("ide_exit", 1)
    /\ MidiClose("exiting", "exited")
    /\ UNCHANGED <<ideVars, answer, serving, scOpen, scriptVars>>

\* ScriptRun: the lane of the script before is forgotten.
ServeScriptRun ==
    /\ Takes("ScriptRun", 1)
    /\ script_lane' = script_lane + 1
    /\ script' = [script EXCEPT ![script_lane + 1] = "pending"]
    /\ UNCHANGED <<ideVars, answer, mainVars, script_exit, midiVars>>

\* CancelScript: lane:cancel asks the lane to end, and main waits for it.  Without a lane it is
\* an error, which ends the program.
ServeCancel(r) ==
    /\ Takes("CancelScript", r)
    /\ IF script_lane = 0
       THEN main' = "dead" /\ UNCHANGED serving
       ELSE main' = "cancelling" /\ serving' = {r}
    /\ UNCHANGED <<ideVars, answer, scOpen, scriptVars, midiVars>>

\* The lane has ended, or the time is over, when a forced request may kill it.  A lane that is not
\* running, but waits in a linda, is taken for one that has ended.
CancelDone(r) ==
    /\ main = "cancelling" /\ serving = {r}
    /\ \/ UNCHANGED script
       \/ r.forced = 1 /\ script' = [script EXCEPT ![script_lane] = "ended"]
    /\ IF r.asker = 1
       THEN \/ Answer("cancelled")
            \/ script'[script_lane] = "running" /\ Answer("running")
       ELSE UNCHANGED answer
    /\ main' = "loop"
    /\ serving' = {}
    /\ UNCHANGED <<ideVars, mainlinda, scOpen, script_lane, script_exit, midiVars>>

\* Without a lane it is an error too.
ServeStatus(r) ==
    /\ Takes("GetScriptLaneStatus", r)
    /\ IF script_lane = 0
       THEN main' = "dead" /\ UNCHANGED answer
       ELSE /\ UNCHANGED main
            /\ IF r.asker = 1 THEN Answer(script[script_lane]) ELSE UNCHANGED answer
    /\ UNCHANGED <<ideVars, serving, scOpen, scriptVars, midiVars>>

-----------------------------------------------------------------------------
(* A script lane.                                                          *)

\* Mutant of StartScript: the linda is not cleared.
StartScriptUncleared(s) ==
    /\ script[s] = "pending"
    /\ script' = [script EXCEPT ![s] = "running"]
    /\ UNCHANGED <<ideVars, answer, mainlinda, mainVars, script_lane, script_exit,
                   midiVars>>

\* pmain clears scriptlinda and runs the script.
StartScript(s) ==
    /\ script[s] = "pending"
    /\ script' = [script EXCEPT ![s] = "running"]
    /\ script_exit' = {}
    /\ UNCHANGED <<ideVars, answer, mainlinda, mainVars, script_lane, midiVars>>

\* MsgLoop receives "script_exit".
TakeExit(s, meant) ==
    /\ script[s] = "running"
    /\ meant \in script_exit
    /\ script_exit' = script_exit \ {meant}
    /\ script' = [script EXCEPT ![s] = "ended"]
    /\ UNCHANGED <<ideVars, answer, mainlinda, mainVars, script_lane, midiVars>>

\* The script comes to its end, fails, or stops at a call that tests for cancellation.
EndScript(s) ==
    /\ script[s] = "running"
    /\ script' = [script EXCEPT ![s] = "ended"]
    /\ UNCHANGED <<ideVars, answer, mainlinda, mainVars, script_lane, script_exit,
                   midiVars>>

-----------------------------------------------------------------------------
(* A MIDI lane: midi_thread.                                               *)

\* The devices are open and the loop is entered.
OpenDevices(m) ==
    /\ midi[m] = "opening"
    /\ midi' = [midi EXCEPT ![m] = "looping"]
    /\ UNCHANGED <<ideVars, answer, mainlinda, mainVars, scriptVars, midilane, exits, dones>>

\* There is no device to open, one is missing, or an input cannot be read.
MidiFails(m) ==
    /\ midi[m] \in {"opening", "looping"}
    /\ midi' = [midi EXCEPT ![m] = "failed"]
    /\ UNCHANGED <<ideVars, answer, mainlinda, mainVars, scriptVars, midilane, exits, dones>>

\* Mutant of TakeMidiExit: the thread ends without a word.
TakeMidiExitSilent(m) ==
    /\ midi[m] = "looping" /\ exits > 0
    /\ exits' = exits - 1
    /\ midi' = [midi EXCEPT ![m] = "ended"]
    /\ UNCHANGED <<ideVars, answer, mainlinda, mainVars, scriptVars, midilane, dones>>

TakeMidiExit(m) ==
    /\ midi[m] = "looping" /\ exits > 0
    /\ exits' = exits - 1 /\ dones' = dones + 1
    /\ midi' = [midi EXCEPT ![m] = "ended"]
    /\ UNCHANGED <<ideVars, answer, mainlinda, mainVars, scriptVars, midilane>>

-----------------------------------------------------------------------------
IDEStep ==
    \/ InitSC \/ SendSC \/ QuitSC
    \/ ResetMidi \/ ReopenMidi
    \/ RunScript \/ ExitScript
    \/ AskStatus \/ StatusAnswered
    \/ \E forced \in {0, 1} : AskCancel(forced)
    \/ CancelAnswered \/ GiveUp
    \/ CloseWindow \/ LastCancel \/ LastCancelAnswered \/ LeaveIDE

Served(k) == IF mainlinda[k] = <<>> THEN {} ELSE {Head(mainlinda[k])}

MainStep ==
    \/ \E msg \in Served("sendsc") : ServeSend(msg)
    \/ \E n \in Served("initsc") : ServeInit(n)
    \/ \E n \in Served("closesc") : ServeClose(n)
    \/ ServeMidiClose \/ MidiClosed \/ ServeMidiOpen
    \/ ServeExit
    \/ ServeScriptRun
    \/ \E r \in Served("CancelScript") : ServeCancel(r)
    \/ \E r \in serving : CancelDone(r)
    \/ \E r \in Served("GetScriptLaneStatus") : ServeStatus(r)

ScriptStep(s) == StartScript(s) \/ EndScript(s) \/ \E meant \in script_exit : TakeExit(s, meant)

Next ==
    /\ Up
    /\ \/ IDEStep
       \/ MainStep
       \/ \E s \in Scripts : ScriptStep(s)
       \/ \E m \in Midis : OpenDevices(m) \/ MidiFails(m) \/ TakeMidiExit(m)

Spec == Init /\ [][Next]_vars

\* Main and the MIDI threads go on, and the IDE once it closes; nothing is asked of the user or of
\* the scripts.
Fairness ==
    /\ WF_vars(Up /\ MainStep)
    /\ WF_vars(Up /\ (LastCancel \/ LastCancelAnswered \/ GiveUp \/ LeaveIDE))
    /\ \A m \in Midis : WF_vars(Up /\ (OpenDevices(m) \/ TakeMidiExit(m)))

FairSpec == Spec /\ Fairness

-----------------------------------------------------------------------------
\* The shape of the state; every "exit_midi_thread" is taken before the next is sent.
TypeOK ==
    /\ ide \in {"idle", "reset", "status", "cancel", "closing", "lastcancel", "gone"}
    /\ ideInited \in {0, 1} /\ ideScript \in {0, 1} /\ tries \in 0..CancelTries
    /\ answer \subseteq {"done", "cancelled", "pending", "running", "ended"}
    /\ main \in {"loop", "closing", "cancelling", "exiting", "exited", "dead"}
    /\ scOpen \in 0..MaxInits
    /\ script_lane \in 0..MaxScripts
    /\ script \in [Scripts -> {"none", "pending", "running", "ended"}]
    /\ script_exit \subseteq Scripts
    /\ midilane \in 0..(MaxResets + 1)
    /\ midi \in [Midis -> {"none", "opening", "looping", "ended", "failed"}]
    /\ exits \in {0, 1} /\ dones \in {0, 1}

\* Only one script is alive (idescriptrun.lua:76, ide.lua:154-176, :1224): the IDE knows only from
\* answers about the lane main holds that it has ended, and may give up waiting for them.
OneScript ==
    \A s, t \in Scripts : {script[s], script[t]} \subseteq {"pending", "running"} => s = t

\* A request to cancel a script or to tell its status meets the script it was made for
\* (lua2sc.lua:180), also one the IDE has given up before it ran the next script.
RequestsMeetTheirScript ==
    [][\A r \in Served("CancelScript") \cup Served("GetScriptLaneStatus") :
          ServeCancel(r) \/ ServeStatus(r) => r.lane = script_lane]_vars

\* A script ends by a "script_exit" that was meant for it (scriptrun.lua:357-361), not by one left
\* by a script that had already ended.
ExitMeetsItsScript ==
    [][\A s \in Scripts, meant \in script_exit : TakeExit(s, meant) => meant = s]_vars

\* /quit never reaches a connection opened after the one it was sent for (ide_server.lua:23-28,
\* :48-52, bootsc.lua:60-68, lua2sc.lua:180), and that one is not closed while it is on its way.
QuitMeetsItsServer ==
    [][/\ \A msg \in Served("sendsc") :
             ServeSend(msg) /\ msg.quit # 0 => scOpen <= msg.quit
       /\ scOpen # 0 /\ scOpen' = 0 =>
             \A i \in DOMAIN mainlinda.sendsc : mainlinda.sendsc[i].quit # scOpen]_vars

\* MidiClose returns, unless the thread it waits for has ended by itself after its status was
\* read (lua2sc.lua:136-150, pmidi.lua:88-165).
MidiCloseReturns == main = "closing" ~> main # "closing" \/ midi[midilane] = "failed"

\* Once the window closes the program ends (ide.lua:1425-1462, lua2sc.lua:208-223), with the same
\* exception.
ShutdownEnds ==
    ide = "closing" ~> ~Up \/ (main \in {"closing", "exiting"} /\ midi[midilane] = "failed")

\* "assert(not self.inited)" of SCCOMMLOOP:init (sc_comm_loop/init.lua:12).
InitWhenClosed == [][\A n \in Served("initsc") : ServeInit(n) => scOpen = 0]_vars
=============================================================================
