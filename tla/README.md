# Lua2SC: a verification project

Lua2SC is a Lua environment for algorithmic composition with SuperCollider. One process holds
several Lua states, each in a thread of its own (a *lane* of the Lanes library), which share
nothing but *lindas*: message boards with one queue per key. `linda:receive(timeout, k1, k2, ...)`
takes the oldest value of the **first** key that has one, `linda:send(k, v)` appends,
`linda:set(k)` empties a key, and `lanes.timer(linda, k, first, period)` sets a key to the time,
once or again and again, the last call for a key replacing the one before.

Most of what is hard in this program follows from that receive: requests are not served in the
order they are sent in but by key, the order of keys differs from call to call, and a queue
outlives the lane that used to read it. The modules here model the lanes, the lindas and their
key orders; data (messages, notes, synth definitions) is reduced to what the properties tell apart.

The repository also holds the source of what scripts run on and talk through: Lua 5.1.5, and the
OSC library oscpack with its binding osclua. These are programs of their own with hazards of their
own (an incremental collector, a one-pass compiler, a packet built from both ends of a buffer), and
they are modelled too. How far the program really uses each is said under *Native code* below.

Paths below are relative to `src/lua2SC/lua/` unless they start with `src/`.

## The system

| part | code | state it keeps | operations | modelled in |
|---|---|---|---|---|
| main loop | `src/lua2SC/lua2sc.lua` | which connection, script lane and MIDI lane there are | serves the keys of `mainlinda` | `MainLoop` |
| script lanes | `scriptrun.lua` | one message loop per script | start (clears `scriptlinda`), `script_exit`, cancel, end | `MainLoop` |
| IDE thread | `ide/ide.lua`, `ide/idescriptrun.lua`, `ide/ide_server.lua`, `ide/bootsc.lua`, `ide/settings.lua` | what it believes of the script and the server | run, exit, cancel, kill, poll, boot, quit, reset MIDI, close | `MainLoop` |
| MIDI lanes | `pmidi.lua` | open devices | open, fail, exit handshake; input and output | `MainLoop` (life cycle) |
| server connection | `sc_comm_loop/init.lua`, `scudp.lua`, `sctcp.lua` | the open connection; per lane a socket and a filter table | init, close, send; connect, greet, receive, serve requests, route, say goodbye | `CommLoop` |
| OSC filters | `sc/oscfunc.lua` | per thread, the functions of each address | newfilter (blocking or not), clearfilters, handle | `CommLoop` (its requests), `Voices` (its lists) |
| transport clock | `sc/MetronomLanes.lua` | position, tempo, timestamps, one repeating timer | start, stop, tempo, move, frame | `Metronome` |
| players | `sc/playersppq.lua` | position and stream of each player | reset, pull, play, actions START, STOP, GOTO | `Players` |
| OSC players | `sc/playerssc.lua`, `sc/sc_comm.lua` | nodes on the server, queues of ends, pedal | start, set, steal, release, Reset, reports of ended nodes | `Voices` |
| delayed actions | `sc/queue_action.lua` (and a copy in `ide/ide.lua:1376`) | a sorted queue, one timer | QueueAction, doQueueAction | `QueueAction` |
| debugger | `sc/debugger.lua`, `ide/idescriptrun.lua` | breakpoints, step mode, enabled menus | stop, step, continue, break, toggle over `debuggerlinda` | `Debugger` |
| OSC packets | `src/osclua/osclua.cpp`, `src/oscpack_1_1_0/osc` | a buffer filled from both ends | toOSC, fromOSC, outbound stream, received elements | `OscPacket` |
| UDP multiplexer | `src/oscpack_1_1_0/ip` | attached sockets and timers | run, break, break from another thread | `UdpMux` |
| collector | `src/lua-5.1.5/src/lgc.c` | colours, gray lists, weak lists, finalizers | mark, atomic, sweep, finalize; barriers, close | `LuaGC` |
| tables | `ltable.c`, `ltm.c` | array and hash part, absent-metamethod cache | get, set, next, length, rehash | `LuaTable`, `LuaMap` |
| calls and coroutines | `ldo.c`, `lbaselib.c` | one C stack, frames of each coroutine | call, pcall, resume, yield, error, hooks | `LuaThreads` |
| compiler | `lparser.c`, `lcode.c` | registers, jump lists, constants | statements and expressions to code | `LuaParser`, `LuaCode` |
| virtual machine | `lvm.c`, `lfunc.c`, `ldebug.c` | stack, frames, open upvalues | instructions, calls, the code checker | `LuaVM`, `LuaEval` |
| string and table libraries | `lstrlib.c`, `ltablib.c` | captures; an array | find, match, gmatch, gsub; insert, remove, concat, sort | `LuaStrings`, `LuaArrays` |
| precompiled chunks | `ldump.c`, `lundump.c`, `lzio.c` | a stream in pieces | dump, load | `LuaChunk` |
| MIDI players | `sc/midi.lua`, `doSchedule` of `playersppq.lua` | sorted queue of events | schedule, flush | no |
| scheduler variant | `*SCH.lua`, `sc/routines.lua` | one schedule of all players | | no |
| named events, buses, buffers, NRT | `sc/named_events.lua`, `ctrl_bus.lua`, `scbuffer.lua`, `nrt.lua` | ids in use, pending events | | no |
| internal server | `sc_comm_loop/scinternal.lua` | a server inside the process | | no: a foreign library's life cycle |
| streams, synth definitions, musical algorithms | `sc/stream.lua`, `synthdefsc.lua`, ... | none that is shared | pure functions | no |
| editor, panels, script windows, settings | `ide/editor.lua`, `ide/scriptgui.lua`, `file_settings.lua`, ... | wxWidgets objects, files | | no: one thread, display and files |
| rest of the native code | `llex.c`, `liolib.c`, `lmathlib.c`, `src/luaportmidi`, ... | none of their own | | no |

How the parts talk:

```
   IDE ----mainlinda----> main ----starts----> script lane --QueueAction, metronomLanes--+
    ^  <--temporary linda--/  |                 ^  ^    ^                                |
    |                         +--starts--> MIDI lane    +-------scriptlinda <--timers----+
    |                         +--starts, exit-> receive lane <--udpsclinda-- script, IDE (filters, sends)
    +------- idlelinda <-- prints, Metro, stops -----+--- replies --> scriptlinda, scriptguilinda, idlelinda
    +------- debuggerlinda --> script lane (commands, breakpoints)
```

### What makes the parts correct

* *Main loop*: at most one script lives; a request that is answered late is about the script it
  was made for; an exit message ends only the script it was meant for; a quit goes to the server
  it was meant for; the handshake with the MIDI thread and the shutdown end.
* *Connection*: a close lets everything sent before it out first; datagrams stay in the session
  they were sent in; a confirmed filter routes, unless the answer overtook a clear (see *Findings*); a
  blocked client goes on; a lane told to exit ends.
* *Clock*: frames stay near real time and positions follow time, however late frames are.
* *Players*: no event is skipped or silenced by timing alone, an action comes before the events
  of its beat, equal beats are equal times; players command the clock only as its methods allow.
* *Voices*: each node that is started gets an end, a poly player keeps its maximum, a string has
  one voice, a node that has ended is not used again.
* *Delayed actions*: with one timer for a queue of actions, each runs, once, in order.
* *Debugger*: a stop can always be answered, a command is for the stop it was given at.
* *Interpreter*: what is reachable is not freed and finalizers run once; a table is a map and a
  traversal meets each field; coroutines agree with the C stack they share; compiled code does what
  the program means.
* *Libraries*: a packet is refused before it would overrun, and read back as it was written; a
  break of the multiplexer is not lost; a match is the first of all matches; what is dumped loads
  as it was.

The hazards, each with its line and the properties that would show it go wrong, are listed in
`PROJECT.json`.

### Native code: what is used how

The shipped program runs its scripts on LuaJIT, a submodule whose sources are not in the
repository. The bundled Lua 5.1.5 is the reference implementation of the language that all Lua
code here relies on, and its headers are what wxLua is built against (`src/CMakeLists.txt:40`). The modules
`Lua*` model that bundled source, not LuaJIT. `src/osclua` and the `osc` half of oscpack are
compiled into the program and used for every message to and from the sound server
(`src/osclua/CMakeLists.txt`). The `ip` half of oscpack, modelled in `UdpMux`, is bundled but not
linked: the program's sockets are those of luasocket.

## The modules

Each module is named after the part it models, keeps the names of the code, and maps every
definition to its lines (`map` in `PROJECT.json`). Definitions that say "Mutant of" are wrong
variants of the definition that follows, kept to show that a property can be broken.

### The program

**`QueueAction`** - `queue` is the list `ActionsQueue`: a call appends to it and sorts it, where
`Sortings` gives every list that the unstable `table.sort` may leave, and `doQueueAction` takes the
last element, whatever it is. `timer` is the strike
time of the one lane timer, `mail` the key in the linda (a timer sets a key, so it holds one
value), `pc` whether the message loop is idle, in `doQueueAction`, in an action it called, or about
to re-arm. `ran` is the history of the calls, with for each action (`before`) how many had been
called when it was queued; the order that the code promises is stated over that history. `QueueAction` may be called by a handler or by the action that runs; the clock may pass
between any two steps, which is what the code's repeated `now_secs()` sees. `Restart` is a new
script: it empties the linda and starts with an empty queue, while a timer of the old one may
still strike.

**`CommLoop`** - `sendQ`, `addQ`, `clearQ`, `exitQ` are the keys of `udpsclinda`; `pc` says where
each receive lane is (connect loop, `notify_and_done`, `receive`, the two `lindaloop`s, routing,
goodbye), and `inner` whether its `lindaloop` is in the outer or in the inner receive, whose key
orders differ. Each key is one action (`PollSend`, `PollAdd`, `PollClear`, `PollExit`,
`PollEmpty`), enabled when the keys before it are empty. `OpenConnection(kind)` is
`SCCOMMLOOP:init`, for udp and tcp; `wire` is what the server has sent to a lane's socket, which
udp may lose. The server is outside the program: it may be up or down, start, stop, and send any
of `Replies`. `stamp`, `sent`, `born`, `asked`, `confirmed`, `overtaken` are history that the properties
need: `confirmed` is what each lane has answered to a blocked client and nobody has asked to clear
after that client asked, `overtaken` the part of it that was answered by the inner receive while an older
request to clear the path still waited.

**`Metronome`** - time and beats are integers; a frame (`setMetronomLanes`) is `FrameStart`, with
its correction for lost strikes, and `FrameEnd`, with time and commands in between, since the
players and actions of the frame run there and may command the clock. `Handler` is a command from
the message loop; a strike may come between its receive and its execution, so that the key order of
`scriptrun.lua:7` keeps no command from running while a frame waits.

**`Players`** extends `Metronome` with the players that run inside a frame: `turn` is the place in
the frame callbacks (action players, then event players), one action performs one scheduled
action, plays or pulls one event, or ends a turn. A stream is the sequence of its durations.
`Metronome` is its abstract specification: `ClockIsMetronome` says that `Players` implements
`MetroSpec`, which forgets the players.

**`Voices`** - one OSC player of any of the six kinds. `voices` is what the server knows of each
node by the messages sent so far, at the times of their bundles. The player's own
memory of nodes is in the variables named after its fields: `node`, `havenode`, `NodeQueue`,
`pianopedal`, `pedalqueue`, `pianofreequeue`, `nodetimetofree`, `OsceventQueue`; `strings` is
`voicenodes` of a voicer and `pianonodes` of a piano. A frame takes the events of its window, schedules and
flushes; START, STOP, jumps and reports of ended nodes come between frames. The report's way through the
run-once filters of `oscfunc.lua`, removed from the list while it is walked, is part of the action.

**`Debugger`** - `markers`, `commandsOn`, `breakOn`, `script_lane` are the IDE's, `Debuggerbp` what
`ScriptRun` carries, `debuggerlinda` the keys of that linda, `shown` the messages on their way to
the IDE. The hook stops a lane at a breakpoint, after a step or a break; a lane that is stopped
waits for a command. Scripts run one after another over the same lindas and may be cancelled at
any moment.

**`MainLoop`** - `mainlinda` holds a queue per key and `Takes` gives the key that the receive of
`lua2sc.lua:180` serves. The IDE thread blocks in temporary lindas (`answer`) and may time out at
any moment (`GiveUp`). Scripts and MIDI lanes are threads with a life cycle; a cancel kills,
or finds a script waiting, or fails. `CommLoop` models the connection that `ServeInit` opens, the
other modules what the script does while it runs.

### Native code

**`LuaGC`** - one action per step of `singlestep`, with the operations of the interpreter (make,
load, store, overwrite, hand to another thread, open and close an upvalue, run a finalizer) between any
two. A step may always be taken: thresholds and debts are abstracted. Colours, the gray, grayagain and
weak lists and the sweep position are the code's; reachability is computed apart, and
`HeapSound` compares the two. `SetsShared` says whether `lua_setupvalue` is called for closures that
share their upvalue. No code of the program does that: it is `FALSE` but in the run `lua_setupvalue`,
which shows what happens then.

**`LuaTable`** implements **`LuaMap`**: nodes with `next` links and `lastfree`, the array part and
the rehash that counts integer keys, against a map with a traversal. A field holds its own key as
its value, so that a value found in the wrong place shows. `ImplementsMap` is that refinement, stated in `MCLuaMachine`.

**`LuaThreads`** - the C stack as a sequence of activations and the setjmp points on it, against
`nCcalls`, `baseCcalls`, `errfunc`, `allowhook` and the frames that each coroutine records.

**`LuaCode`**, **`LuaParser`**, **`LuaVM`** - the code generator takes and returns a record for the
`FuncState`, the parser folds statements over it, and the machine executes one instruction a step.
**`LuaEval`** is the reference: an interpreter of the same trees by the manual's text, with an
environment of variables and no registers. `LuaVM` also runs the checker of precompiled code on
every function it compiles.

**`LuaStrings`** - the matcher as it backtracks over the pattern's text, against the list of all
ways to match that the pattern's items describe, best first. **`LuaArrays`** - quicksort with any
function as order, and the shifting functions on arrays with holes. **`LuaChunk`** - dumping block by
block and reading from pieces of any size.

**`OscPacket`** - the outbound stream over a sequence of bytes, driven by the table of a script as
`toOSC` walks it, and the received elements that `fromOSC` reads. A number is seven bytes of whole part
and one that tells whether there is a fraction, so that the casts do what they do: a whole number of more
than 32 bits becomes `OutOfRange` (C leaves open what), a colour or MIDI message of 2^31 or more is read back without
its sign, a string ends at its first zero. Brackets are written as they come, and `fromOSC` refuses a
message in which not as many arrays end as begin; that and the casts are the limits of `ReadsBack`.
Entries that `toOSC` does not take raise an error. A malformed message inside a bundle is modelled
as refused (`fromOSC` lets another exception out than for a malformed packet). Not among the entries are numerals given
as strings and numbers given where a string is asked for, which Lua converts, negative fractions, and addresses with zeros. **`UdpMux`** - the two forms of
the multiplexer's loop with datagrams, timers and a second thread that breaks it.

### Proofs and instances

`ScriptLaneProofs` (about `QueueAction` and `Debugger`), `PlayersProofs`, `CommLoopProofs`,
`MainLoopProofs`, `VoicesProofs`, `UdpMuxProofs`, `LuaGCProofs` and `LuaThreadsProofs` hold the
theorems, each of the others about the module it is named after; those about the clock,
`Metronome`, are with the players' that rest on them.
The `MC` modules give the constants that a cfg cannot write.
Three of them put units that share no state side by side in one instance, a variable `unit` choosing
which one takes steps while the others rest: `MCQueueAction` (agenda, debugger, voices),
`MCLuaMachine` (heap, tables, threads, code) and `MCLibraries` (packets, sockets, patterns, arrays, chunks).
Nothing is lost by that: the states are the sum of the units' states, not their product, and each
unit's behaviours are those of its own specification.

The order in which the project was built is that of the list above: first what the lanes say to
each other, then what runs inside a script, then the libraries under it.

## The runs

| run | distinct states | what it shows |
|---|---|---|
| `queue_action` | 1.6 million | *agenda*: three actions with delays 0, 1, 3 over 5 ticks, one restart: the timer that every call overwrites loses no wakeup (`NoLostWakeup`), actions run at most once (`RunAtMostOnce`) and over the whole history in the order they are due (`RunInOrder`), and each runs (`EveryActionRuns`); *debugger*: two scripts, `DebuggerSound`; *voices*: six kinds of player, three nodes, one jump, `VoicesSound` |
| `comm` | 3.2 million | two connections of both kinds, two clients, an address and the catch-all, three requests, a server that comes and goes: `SessionIsolation`, `SentBeforeExit`, `ConfirmedIsDelivered` (of the answers that overtook no clear) |
| `comm_live` | 0.5 million | `BlockedReturns`, `LaneEnds`, for both kinds |
| `comm_reopen` | violation | `OneLaneServes`, see *Findings* |
| `comm_overtaken` | violation | `AnsweredIsRegistered`: an answer that overtook a clear, see *Findings* |
| `players` | 1.3 million | a piece in two voices, started, stopped, repeated and halted by two action players: `NoEventPassedOver`, `StopInTime`, `ActionInItsWindow`, `EvenlyTimed`; the clock under it: `KeepsTime`, `NextFrameInTime`, `OneGhostFrame`, and `ClockIsMetronome` |
| `main_requests` | 1.9 million | two scripts and two connections of one IDE: `OneScript`, `RequestsMeetTheirScript`, `ExitMeetsItsScript`, `QuitMeetsItsServer` |
| `main_live` | 159 thousand | two MIDI resets and the closing of the window: `MidiCloseReturns`, `ShutdownEnds` |
| `main_reopen` | violation | `InitWhenClosed`, see *Findings* |
| `lua_setupvalue` | violation | `LiveIsKept` with two closures that share an upvalue, see *Findings* |
| `lua_machine` | 2.0 million | *heap*: eight heaps of weak tables, finalizers, upvalues, threads and prototypes, closing included: `HeapSound`, `FinalizersRun`; *tables, threads, code*: tables over four sets of keys that collide, `TablesSound`, `ImplementsMap`; two coroutines near the limits, `ThreadsSound`; some thousand programs, `RunningCodeSound`, `RunsDoWhatTheyMean` |
| `libraries` | 2.9 million | `PacketsSound`, `SocketsSound`, `PatternsSound`, `ArraysSound`, `ChunksSound` |

Properties whose name ends in `Sound` are conjunctions of named parts of one unit; the parts are stated
and commented in the unit's module. Every property of a passing run has a mutant of the code's
model, listed in `PROJECT.json`, that violates it.

**Bounds.** They are constants named in the modules, and each is the smallest at which the
interesting case happens with one to spare where the state space allows it. Three actions are
needed for a timer to be overwritten twice before it strikes; five ticks let the longest delay begin up to
two ticks after the others, so that entries come in before, at and after those that wait. Two lanes are needed for an old one
to overlap a new one, and three requests for sending, closing and sending again; one message on
the wire suffices because lanes read one at a time and the server may send again at once. Two
clients make a clear of one meet the registration of the other. For the clock, a period of two
units lets a strike be late by less than a period, by one, and by several; the time bound leaves
five to six periods. Two scripts and two connections are what a stale request can confuse; so are
two scripts for a stale stop of the debugger. Three nodes with `poly = 2` let a poly player steal, and
a latency longer than two frames lets an end overtake a begin. In `LuaGC` each heap is one kind of
trouble: an object with a finalizer that a weak table, a weak key or another finalizer reaches, a
string that a weak value or a prototype holds, a closure and its upvalue on and off a stack, two closures
that share one. In
`LuaTable` tables made empty or with room for three, and hashes chosen to collide, make every branch of the insertion and of the rehash
happen. In `OscPacket` the capacity of 48 bytes is one that two nested bundles, a message and a few
arguments fill exactly, overfill by one word, or leave room in. In `LuaThreads` the limits are
three C calls and four frames, so that each is met.

`comm` has a constraint, `OneClientOverTwoLanes`: once a second connection is open only the script
registers filters, and for one address. With one connection both clients and the catch-all are free;
the other combination repeats what each of the two cases shows and is several times as large.
`lua_machine` declares the coroutines symmetric: `LuaThreads` names none of them but the main thread,
so permuting them maps behaviours to behaviours. Bounded counters (`MaxRequests`, `MaxSends`, ...)
limit only how often users and scripts act, never the threads that serve them. Deadlock is not
checked: users may stop acting, and a bounded instance stops at its bound.

**Fairness.** A lane is a thread that the operating system runs, so its steps are weakly fair;
timers are a lane of the library and strike. Nothing is assumed of users, nor of scripts in
`MainLoop`. In `QueueAction` the script's handlers return; in the run `queue_action` only the agenda
is fair, for of the other units nothing is asked but safety. In `CommLoop` a udp lane needs nothing
from the server: its waits end by counting timeouts. A tcp lane does: `notify_and_done` has no
count, so `comm_live` assumes for tcp that the server is started in the end, does not stop, and
answers `/notify`; without that a lane that greets or leaves a silent server stays for ever. In
`MainLoop` main and the MIDI lanes are fair, and the IDE from the moment its window closes;
`MidiCloseReturns` and `ShutdownEnds` except a MIDI thread that ends by itself after its status
was read, for then the code does wait for ever. `FinalizersRun` and the action properties of the other
modules are about steps and need none.

## The theorems

All are proved by TLAPS from the named assumptions on the constants alone, so for every instance,
not only for the sizes above. Most assumptions only say what kind of value a constant is: non-empty
periods and tempos, bounds that are natural numbers, kinds of connection and of player that exist. Those of `Players` say what a score is:
the actions of a list are in the order of their beats, as the code expects of what it fetches one
by one; they come after the beat before the first that `theMetro:init` sets; they start and stop
players that exist; and minus infinity lies before every beat that the clock is sent to. TLC
evaluates them in the run `players`.

*Delayed actions* (`ScriptLaneProofs`). `QueueActionTypeOK` first. `WakeupNeverLost` is inductive
together with it: a call of `QueueAction` outside the loop may replace a timer by a later one, but
never by one later than the action it queues, and a loop that ends with actions left re-arms for
the first of them; that is why the invariant speaks of *some* queued action and not of the
first. `ActionsRunAtMostOnce` follows the disjointness of queued, run and dropped actions.
`ActionsRunInOrder` is about the whole history and inductive only with what the sort promises
(`OrderInv`): the list is sorted whenever the loop looks at its end, and whatever was called since an entry
came in was due no later than it. The first makes the last entry the next one due, the second says
that an entry which came in late or tied is not behind its time. That nothing but this is used of
`table.sort` shows that its being unstable does no harm.

*Clock* (`PlayersProofs`). `KeepsTime` says where a frame's time may lie around real time, which
is not inductive: it depends on where the next strike will find the clock. `ClockInv` joins it
with `NextFrameInTime`, a bound on the end of the last frame by the strike that is on its way;
`start` and `stop` are lemmas of their own (`StartKeepsClock`, `StopKeepsClock`) because handlers,
actions in a frame and every tempo change go through them. `OneGhostFrame` needs `GhostInv`: a
stopped clock has either a message waiting, and then no ghost yet, or none. `PositionKeepsTime` is
a fact of one step, by the arithmetic of the correction.

*Players on the clock* (there too). `ClockOfPlayersIsMetronome` is the refinement: initial
states are initial states of the metronome, and each step is a step of it or a stutter. The one
thing to know about the players is `HeldInv`: an action that a player holds from an earlier frame is one of
its list, so that a GOTO goes to a beat the metronome's environment may ask for. `PlayersKeepTime`
then carries over, by the refinement and the theorems about the clock, that frames keep time
under every score of actions, with the one ghost frame and positions that follow time.

*Events and actions* (there too). All properties of the run `players` are proved.
`PlayersTypeCorrect` comes first. `EventsEvenlyTimed` rests on `OnOneLine`: all events of a stretch in which nobody
commands the clock have the same anchor, which is the one that the present frame's window starts from
and the next frame's will. For the others the state inside a frame matters, so `ScoreInv` says
what is done already and what is still to come *by whose turn it is*: an action player whose turn is over holds an
action behind the window (`ActionsDone`), one whose turn is to come holds one ahead of it
(`ActionsAhead`), and likewise for the next events (`EventsAhead`); no event at or after the beat
of an action has been played before the action (`StopsAhead`). `ScoreAlways` makes it an invariant, and `NoneIsPassedOver`,
`ActionsInTheirWindow` and `StopsInTime` read it off. The attempt showed a case that `StopInTime` had not
told apart: an action player whose turn comes later in the same frame may GOTO past the beat of a STOP whose
player's turn is over, and the events behind it are played in that frame. The property now says so.

*Connection* (`CommLoopProofs`). `SessionIsolation` and `SentBeforeExit` rest on `SessionInv`:
what is in the queue is younger than every lane, because `init` empties it, and every datagram of
the present session is in the queue or sent, because only `init` removes one unsent. `SentBeforeExit`
then needs `LeavesByExit`: among all steps only `PollExit` makes a polling lane leave, and its place
at the end of the key orders means that the queue is empty. The theorem covers any number of lanes
that overlap, the situation of the first finding. `CommTypeCorrect` gives the types of queues, filter tables and
lanes. `RepliesReachConfirmed` rests on `ConfirmedInv`: a filter that a lane has confirmed is in that lane's
table, and no request that waits clears its path, unless the answer overtook one. What is confirmed stops
to be so when a client asks to clear the path, not when a lane serves the request; in between, the
theorem says, nothing takes it out of the table. The exemption is a state of its own (`overtaken`), begun by
`PollAdd` alone when an older clear waits, and without it the statement is false: that is the run
`comm_overtaken`.

*Main thread* (`MainLoopProofs`). All safety properties of `MainLoop` are proved. `OneScriptLives`
rests on the order of keys: `TakesLater` says that a status is told only when no script waits to
be run, so that "ended" is said of the last script (`AliveInv`), and the IDE asks for another only then.
`RequestsMeet` needs more, `RequestsInv`: each queue holds requests for the last script only, a
request whose answer will be read is the last of its queue (`AskersInv`), and since the queue of cancels is
served before that of statuses, nothing is left when "ended" is told (`NoneLeftInv`). That the linda
of an answer is made for one request is what makes this work, also for the answer of `MidiClose`
(`ClosesInv`). `ExitsMeet` follows from the clearing of the linda at the start. `QuitsMeet` uses that messages are
served before connections are opened and closed. `TypeCorrect` shows the handshake's counters to stay
at one.

*Debugger* (there too, `ScriptLaneProofs`). A stop is a token: a message, then an enabled menu, then a command.
`StopsAreAnswerable` says that it is never lost and `CommandsMeetTheirStop` that there is never a
second one; `OneToken` follows it through its places. `DebuggerIsSound` adds the types and the breakpoints: what the
script will stop at, once it has taken the messages that wait, is what the editor marks, but for
lines toggled between `ScriptRun` and `Debugger:init`. Taking a message does not change what the
script *will* stop at, which is why `WillBreak` looks at the last message about a line instead of
applying them one by one.

*Voices* (`VoicesProofs`). `VoicesAreSound` is about all six kinds of player at once. The invariant
`VoicesInv` has a part for each promise and two that they share. `StepKeepsHistory`: what has happened to a voice
stays so, whatever bundles are sent (`HistoryKept`); an end once set may only come earlier. `Earliest` is the
earliest time that a bundle of the player can still be executed at, and `TimeGoesOn` shows it
never to go back but at a `Reset` or a jump, with which `since` begins a new count. `NodesKept`: what the player
remembers are nodes, each once in a list, and none that was reported, since the report has
removed its only entry from the run-once filters, even though `table.remove` inside `ipairs` passes one filter over
(`Received`). `NodesAccounted` strengthens `NoHungVoice` for the mono player, which must also know that it
`havenode`. `PolyKept` says that a recent voice out of the queue is over by `Earliest`; then at any
time before it the open voices are those there were, and from it on they are queued, so at most
`poly` (`AtMostPoly`). `StringsKept` says the same of the voices that their string has lost,
which makes `OneVoicePerString` inductive: a new voice begins at `Earliest`.

*Multiplexer* (`UdpMuxProofs`). `SocketsAreSound` is about both forms, with any sockets, timers,
delays and periods. `BreaksCounted`: the bytes in the pipe are of calls that have set `break_`
before, and one that is between its two steps has no byte yet; since `Run` looks at `break_` after
each wait, before it waits again, none is lost. `InOrder` and `TimersCalled` meet at `index`: the
timers before it have been called, those from it on are still in the order of the last sort, so
when the first of these has not expired none has; after the loop the queue is sorted again only if one was advanced.
`NoticedOrNext` is what win32 needs: the next datagram of a socket sets its event, or the event is
set, or the socket is the one that `Run` reads next, the one whose event the wait has reset;
reading it sets the event again if more is there. `Sortings` stands for `std::sort` by what it
promises, any order of the same entries by time, so that nothing rests on the order of equal ones.

*Finalizers* (`LuaGCProofs`). `FinalizersRunOnce` and `FinalizersRunAsPromised` hold for any heap,
any order of marking and sweeping and any program, `debug.setupvalue` included. In `FinalsInv` each
userdata is once in one of two lists (`Listing`), FINALIZEDBIT and `tmudata` tell whether its
finalizer has been called (`Counted`), and what is left of the last batch keeps its order while other
batches follow (`BatchInOrder`). Of the colours only one thing is needed, `Spared`: a userdata that
waits for its finalizer is never of the condemned white, and not white at all once `AtomicSeparate` has
taken the white ones; so no sweep frees it, whatever else is marked. `Filtered` stands for the loop of
`luaC_separateudata` by what it leaves: the same entries in their order.

*Heap* (there too). `HeapIsSound`: for any heap and program, nothing reachable is freed or condemned
until the state is closed, the lists stay disjoint, no object is black between collections, and a
collection frees what was out of reach when it began. The one hypothesis is `SetsShared = FALSE`, since
the third finding refutes the rest without it. `HeapInv` is the invariant of a collector with three
colours, plus the exceptions of this one. Its centre is `Traced`, that no object which is done
refers to a white one, and what *done* means is the difficulty: threads, open upvalues and weak tables
never turn black, so they are done only from the part of the atomic step on that goes over their
list again, and a userdata that waits for its finalizer is black without having been traced until
`atomic4`. `Owned` is what makes the barrier of a closed upvalue enough: a marked upvalue has a
black closure, so `lua_setupvalue`, given an upvalue that no other closure has, gives the barrier the
right object. `Doomed` is the other direction: what was out of reach when the collection began is
neither marked nor stored anywhere, so the sweep takes it; of what nothing refers to only strings
(which may be found again by their text) and userdata with a finalizer (which are resurrected) are left out.
`SweepGoesOn` says where the objects are that have not the current white after the flip, and `Kept`
carries reachability: what the roots and each reachable object refer to is there and not dead, which is
inductive where `Reach` is not. Each step has its
lemma: first those of the collector, then the sweep, then what Lua code does.

*Calls and coroutines* (`LuaThreadsProofs`). `ThreadsAreSound`: for any number of coroutines and any
limits of C calls and frames, what a coroutine records of itself agrees with the C stack all share.
`ThreadsSound` looks at the present stack only, but an error cuts the stack back to a setjmp point and restores
what was saved there, and a yield takes a coroutine off the stack. So `ThreadsInv` goes *along*
the stack. For each prefix of it there are the entries into `luaV_execute`, the frames, the hooks and the
innermost protected call in it (`Execs`, `Frames`, `HookIn`, `Handled`). `Recorded` says that a
thread's `nCcalls`, `base_ci`, `allowhook` and `errfunc` are right for the prefix that ends with the last of
its activations, `Saved` that what `luaD_pcall` and a hook have kept is right for the prefix
before them, and `Placed` that the frames are those of the activations, in their order. `Pieces` says which activation
calls which: a thread's activations are together and begin with the setjmp point of its resume, so what an error
cuts off is all of the thread that raises it. `Resting` is about threads with nothing on the
stack. A count may exceed the entries while an error handler runs, never fall short of them
(`Counts`); the bound on the C stack follows since the running thread counts for all. `MayYield` is the
argument for `lua_yield`: with `nCcalls` not above `baseCcalls` the thread has one luaV_execute and
one C function above its resume, and nothing else, so cutting off three activations is right.
Every step falls under one of three lemmas: back to an activation of the thread
(`BackKeeps`), off the stack (`OffKeeps`), one activation more (`MoreKeeps`).

*Only model-checked*: the rest of the native code, and everything that is live.
`LuaTable`, `LuaVM`, `LuaStrings`, `OscPacket` and others compute recursively over data, and the theorems that
say what a recursive definition returns take operators as parameters, which the provers cannot
instantiate (`Least` in `LuaThreadsProofs` is as far as a minimal element goes without them); liveness under fairness and statements about `ENABLED` stay with TLC in any case.

## Findings

* **Two lanes on one linda** (`comm_reopen`). `SCUDP:close` sends `exit` and forgets the lane;
  `SCUDP:init` deletes "previous exits" (`scudp.lua:223`). If the lane has not read its exit by
  then (it may be in `socket:receive`, in `lindaloop(1)`, or for two seconds in
  `notify_and_done`), it is never told again, and both lanes serve `udpsclinda`: a request goes to
  whichever comes first, and a filter registered with one does not route what the other receives.
  `assert(SCUDP.tcp==nil,"tcp not closed")` (`scudp.lua:207`) means to exclude it, but nothing
  assigns `SCUDP.tcp`. `SCTCP` has the same code.
* **Boot before close** (`main_reopen`). The IDE sends `closesc` before it lets the user boot
  again, but the main loop receives `"initsc"` before `"closesc"` (`lua2sc.lua:180`). When both are
  waiting, because main is in `MidiClose` or `CancelScript`, `init` runs on the open connection and
  `assert(not self.inited)` (`sc_comm_loop/init.lua:12`) ends the main thread.
* **Barrier on the wrong object** (`lua_setupvalue`). `lua_setupvalue` stores into a closed
  upvalue, which several closures may share, and gives the write barrier the closure
  (`src/lua-5.1.5/src/lapi.c:1083`). If the upvalue is black already, marked through another closure, and
  this closure still white, the new value is freed while both can reach it; the manual says that
  only objects that are no longer accessible are collected. Lua code reaches it through
  `debug.setupvalue`; the program's own calls (`sc/utils.lua:192`, `ide/editor.lua:88`) are on
  functions just loaded, which share no upvalue. The run is one of the bundled source, not of LuaJIT.

* **An answer that overtakes a clear** (`comm_overtaken`). The lane's first receive takes `clearFilter`
  before `addFilter` (`scudp.lua:91`), but once it has served a request it receives in the other order
  (`:114`). If a clear of the path waits, as a reset of the script sends for every path (`sc/oscfunc.lua:70-76`), and a
  blocking `newfilter` comes after it, the filter is added and answered first, `:96`, and the older clear then drops
  it (`:97-102`). The client has been told that its filter is there; `Buffer:query` asks the server
  after that and waits for the reply without a timeout (`sclua/Buffer.lua:92-95`), which is routed nowhere.
  `SCTCP` has the same two receives.

Other behaviour that surprises, modelled as it is but contradicting no statement that a run could
check:

* `#Filters[path]` of a table whose keys are lindas is always 0, so clearing one thread's filter
  clears all threads' filters of that address (`scudp.lua:100`); a message handed over right after
  `initsc` is served first and dropped.
* A clock that runs ahead is never held back; one frame may run after `stop`; an action that was
  pending when the clock went backwards is performed at once (`playersppq.lua:574-600`).
* `MidiClose` waits for ever for a MIDI thread that ended by itself.
* A piano's leftover entry of `pianofreequeue` or of the pedal, from an earlier voice of the same
  frequency, clears `pianonodes[freq]` though another node sounds there (`playerssc.lua:832-836`): that
  voice is never released. A remark in a piece tells of such voices
  (`examples/pieces/breathing/breathing.lua:57`). `Voices` records them in `forgotten` and promises an
  end to all others. A piano does not look at `pulling`, so a jump forwards plays all events it passes.
* `Reset` and `Release` stamp ends with the position before the frame: after a jump forwards and a
  start in one frame the end overtakes the voice's begin, and `g_freeAll`, which acts at once, misses
  voices that are in flight. A node that is set by `n_set` before it exists is warned of, and a
  later `s_new` makes it without an owner.
* `lua_close` calls the finalizers that are left while a collection may be at its marking, and `GCTM`
  makes each userdata white (`lgc.c:457`). If another userdata that waits is marked already and reaches this one,
  and a finalizer lets the collection go on to its end, the first is freed before the
  other's finalizer uses it. `HeapSound` therefore speaks of the heap until `lua_close`.
* Breakpoints toggled between `ScriptRun` and `Debugger:init` are lost; a message about the stop of
  a cancelled script enables the commands for the next one.

## Not modelled, and why

* *Data*: the trace flag, printing and formatting, MIDI bytes and `_midiEventCb`, which main passes
  on unread; parameters and controls of notes; floating point, which appears as integers (time,
  beats) or as opaque bytes (OSC).
* *MIDI players and their queue*: the queue is sorted and flushed as the one of OSC messages in
  `Voices`; what is behind it is a device. *The SCH scheduler* serves the same scripts with one
  schedule for all players and would repeat `Players` and `Voices`. *NRT* has no threads.
* *Named events, buses, buffers*: counters of identifiers, and requests that `CommLoop` carries.
* *Internal server*: a foreign library, which the repository does not hold.
* *Editor, windows, settings, synth definitions, streams, musical algorithms*: code of one thread
  without state in common with another, or pure functions on numbers that TLC cannot enumerate.
* *Debugger variants* that nothing requires; *templates* of OSC filters that match several values.
* *Starvation by key order*, for instance a script that floods `sendsc`, is out of reach of
  instances with bounded sends.
* *Native code*: the lexer, files, arithmetic, the C libraries' conversions and the bindings of
  PortMidi keep no state of their own that steps can disagree about; LuaJIT, Lanes and luasocket are
  not in the repository and appear as what the code uses them for.
