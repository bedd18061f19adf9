------------------------------- MODULE Voices -------------------------------
(***************************************************************************)
(* The voices of an OSC player (sc/playerssc.lua): the nodes it starts on  *)
(* the server, the ways it remembers them, and the messages that end them. *)
(* A plain player schedules the end of each note in OsceventQueue; a mono  *)
(* one holds a node and sets it; a poly one keeps a queue of at most poly  *)
(* nodes and ends the oldest; a voicer and a piano have a node for every   *)
(* voice or frequency (a string here), the piano with a pedal and a queue  *)
(* of its own. Reports of ended nodes come through the filters of          *)
(* sc/oscfunc.lua. Beats and time are counted in the same ticks.           *)
(*                                                                         *)
(* The server executes each message at the time of its bundle, at once if  *)
(* that has passed; what each does to a node is noted when it is sent.     *)
(***************************************************************************)
EXTENDS Integers, Sequences, FiniteSets, Functions

CONSTANTS
    Kinds,          \* the players of the instance: the names in VoicesAssumption
    Poly,           \* poly
    Strings,        \* voices of the voicer, frequencies of the piano
    Deltas, Lengths, Chords,    \* of events: lengths include the legato, chords are numbers of notes
    Frame,          \* ppqVSTFrameLength
    Latency,        \* SERVER_CLOCK_LATENCY
    Beats,          \* beats that the transport is sent to
    MaxFrames, MaxNodes, MaxJumps, MaxStarts      \* bounds

ASSUME VoicesAssumption ==
    /\ Kinds \subseteq {"plain", "mono", "poly", "polyheld", "voicer", "piano"}
    /\ \A set \in {Deltas, Lengths, Chords} : set \subseteq Nat \ {0}
    /\ Beats \subseteq Nat /\ Strings \subseteq Nat \ {0}
    /\ {Poly, Frame} \subseteq Nat \ {0} /\ {Latency, MaxFrames, MaxNodes, MaxJumps, MaxStarts} \subseteq Nat

VARIABLES
    kind,           \* which player it is
    clock,          \* theMetro.oldtimestamp
    oldppq, ppq,    \* theMetro.oldppqPos and ppqPos
    stage,          \* of the frame: idle, actions, free, play, schedule
    pos, musPos, playing,               \* of the EventPlayer
    event,          \* the event being played: its delta, its length and the notes left
    node, havenode, \* self.node or 0, self.havenode
    NodeQueue,      \* of a poly player
    filters,        \* OSCFunc.filters["/n_end"]: the templates, one node each
    strings,        \* voicenodes or pianonodes: of each string its node or 0
    pianopedal, pedalqueue, pianofreequeue, nodetimetofree,
    OsceventQueue,
    voices,         \* the server: of each node the time it begins, its gate closes, ...
    jumps, starts,
    since,          \* the first node since the last Reset or jump (history)
    forgotten       \* nodes whose string was cleared by an entry of another node (history)

transport == <<clock, oldppq, ppq, jumps>>
section == <<pos, musPos, playing>>
pedal == <<pianopedal, pedalqueue, pianofreequeue, nodetimetofree>>
voicevars == <<kind, transport, stage, section, event, node, havenode, NodeQueue, filters, strings, pedal,
               OsceventQueue, voices, starts, since, forgotten>>

Never == -1        \* not a time
NoEvent == <<>>
HasPoly == kind \in {"poly", "polyheld"}

VoicesInit ==
    /\ kind \in Kinds
    /\ clock = 0 /\ oldppq = 0 /\ ppq = 0 /\ stage = "idle" /\ jumps = 0 /\ starts = 0
    /\ pos = 0 /\ musPos = 0 /\ playing = TRUE /\ event = NoEvent
    /\ node = 0 /\ havenode = FALSE /\ NodeQueue = <<>> /\ filters = <<>>
    /\ strings = [s \in Strings |-> 0]
    /\ pianopedal = FALSE /\ pedalqueue = {} /\ pianofreequeue = {} /\ nodetimetofree = <<>>
    /\ OsceventQueue = {} /\ voices = <<>>
    /\ since = 1 /\ forgotten = {}

-----------------------------------------------------------------------------
(* The server.                                                             *)

\* theMetro:ppq2time, and lanes.now_secs() in a frame, which comes one period after the last.
ppq2time(beat) == clock + (beat - oldppq)
now_secs == clock + Frame

\* When the server executes a bundle for this time.
Executed(time) == IF time + Latency > now_secs THEN time + Latency ELSE now_secs

\* A voice has ended at time t.
Over(v, t) == v.ends # Never /\ v.ends <= t

\* s_new
Started(vs, time, string, warned) ==
    Append(vs, [begins |-> Executed(time), ends |-> Never, string |-> string,
                warned |-> warned, overtaken |-> FALSE, told |-> FALSE])

\* The gate of some nodes is closed, or they are freed: a node that is not there yet is not found.
Ended(vs, nodes, at) ==
    [n \in DOMAIN vs |->
        IF n \notin nodes \/ Over(vs[n], at) THEN vs[n]
        ELSE IF vs[n].begins > at THEN [vs[n] EXCEPT !.overtaken = TRUE]
        ELSE [vs[n] EXCEPT !.ends = at]]

\* g_freeAll of the group of instruments, without a time.
Emptied(vs, at) == Ended(vs, {n \in DOMAIN vs : vs[n].begins <= at}, at)

-----------------------------------------------------------------------------
(* The filters.                                                            *)

\* table.remove(list, i): what is behind moves one place forward.
table_remove(list, i) == [k \in 1..(Len(list) - 1) |-> IF k < i THEN list[k] ELSE list[k + 1]]

\* handleOSCReceive with run-once filters: ipairs goes on behind the place that table.remove filled,
\* so that the filter next to one that was removed is passed over.
handleOSCReceive(list, n) ==
    LET removed == CHOOSE R \in SUBSET DOMAIN list :
                      \A i \in DOMAIN list : i \in R <=> list[i] = n /\ i - 1 \notin R
        PlaceOf(i) == i - Cardinality({j \in removed : j < i})
    IN  [k \in 1..(Len(list) - Cardinality(removed)) |->
            list[CHOOSE i \in DOMAIN list \ removed : PlaceOf(i) = k]]

\* The /n_end of a node that has ended, by its gate or by itself, is answered between frames.
NodeEnds(n) ==
    /\ stage = "idle" /\ ~voices[n].told /\ voices[n].begins <= clock
    /\ voices' = [voices EXCEPT ![n].told = TRUE, ![n].ends = IF Over(voices[n], clock) THEN @ ELSE clock]
    /\ filters' = handleOSCReceive(filters, n)
    /\ IF n \in Range(filters)
       THEN /\ NodeQueue' = IF n \in Range(NodeQueue)
                            THEN table_remove(NodeQueue, CHOOSE i \in DOMAIN NodeQueue : NodeQueue[i] = n)
                            ELSE NodeQueue
            /\ strings' = [s \in Strings |-> IF kind = "piano" /\ strings[s] = n THEN 0 ELSE strings[s]]
            /\ pedalqueue' = {e \in pedalqueue : e.node # n}
       ELSE UNCHANGED <<NodeQueue, strings, pedalqueue>>
    /\ UNCHANGED <<kind, transport, stage, section, event, node, havenode, pianopedal, pianofreequeue,
                   nodetimetofree, OsceventQueue, starts, since, forgotten>>

-----------------------------------------------------------------------------
(* The player.                                                             *)

\* The node that Release ends, if any; the voicer's is called without a voice.
ReleasedNodes == IF kind # "voicer" /\ node # 0 THEN {node} ELSE {}
ReleaseNode ==
    IF ReleasedNodes = {} THEN UNCHANGED <<node, havenode>> ELSE node' = 0 /\ havenode' = FALSE

\* OscEventPlayer:Reset: Release, FreeNode, FreeInstrGroup and EventPlayer:Reset.
Reset(beat) ==
    LET freed == CASE HasPoly -> Range(NodeQueue)
                   [] kind = "voicer" -> {strings[s] : s \in Strings} \ {0}
                   [] OTHER -> {}
    IN  /\ voices' = Emptied(Ended(voices, ReleasedNodes \cup freed, Executed(ppq2time(pos))), now_secs)
        /\ ReleaseNode
        /\ NodeQueue' = <<>>
        /\ strings' = IF kind = "voicer" THEN [s \in Strings |-> 0] ELSE strings
        /\ pos' = beat
        /\ since' = Len(voices) + 1
        /\ UNCHANGED <<filters, pedal, OsceventQueue, forgotten>>

\* GOTO, between frames.
Jump(beat) ==
    /\ stage = "idle" /\ jumps < MaxJumps
    /\ ppq' = beat /\ jumps' = jumps + 1 /\ since' = Len(voices) + 1
    /\ UNCHANGED <<kind, clock, oldppq, stage, section, event, node, havenode, NodeQueue, filters, strings,
                   pedal, OsceventQueue, voices, starts, forgotten>>

\* setMetronomLanes up to the callbacks: backwards resets at the old position of the clock.
BeginFrame ==
    /\ stage = "idle" /\ clock < MaxFrames * Frame
    /\ stage' = "actions"
    /\ oldppq' = ppq /\ ppq' = ppq + Frame
    /\ IF oldppq > ppq
       THEN Reset(musPos) /\ playing' = TRUE
       ELSE UNCHANGED <<pos, playing, node, havenode, NodeQueue, filters, strings, pedal, OsceventQueue,
                        voices, since, forgotten>>
    /\ UNCHANGED <<kind, clock, jumps, musPos, event, starts>>

\* An action of the frame: StartPlayer
StartPlayer(beat) ==
    /\ stage = "actions" /\ starts < MaxStarts
    /\ starts' = starts + 1
    /\ musPos' = beat /\ Reset(beat) /\ playing' = TRUE
    /\ UNCHANGED <<kind, transport, stage, event>>

\* An action of the frame: StopPlayer
StopPlayer(beat) ==
    /\ stage = "actions" /\ starts < MaxStarts
    /\ starts' = starts + 1
    /\ voices' = Ended(voices, ReleasedNodes, Executed(ppq2time(beat)))
    /\ ReleaseNode
    /\ playing' = FALSE
    /\ UNCHANGED <<kind, transport, stage, pos, musPos, event, NodeQueue, filters, strings, pedal,
                   OsceventQueue, since, forgotten>>

BeginTurn ==
    /\ stage = "actions"
    /\ stage' = IF kind = "piano" THEN "free" ELSE "play"
    /\ UNCHANGED <<kind, transport, section, event, node, havenode, NodeQueue, filters, strings, pedal,
                   OsceventQueue, voices, starts, since, forgotten>>

-----------------------------------------------------------------------------
(* The queue of the piano.                                                 *)

NextFree(e) == e \in pianofreequeue /\ \A d \in pianofreequeue : e.time <= d.time

\* doFreeQueue, one entry
FreeOne(e) ==
    /\ stage = "free" /\ NextFree(e) /\ e.time <= pos
    /\ pianofreequeue' = pianofreequeue \ {e}
    /\ \/ /\ nodetimetofree[e.node] > pos
          /\ UNCHANGED <<pedalqueue, voices, strings, forgotten>>
       \/ /\ nodetimetofree[e.node] <= pos /\ pianopedal
          /\ pedalqueue' = pedalqueue \cup {[node |-> e.node, freq |-> e.freq]}
          /\ UNCHANGED <<voices, strings, forgotten>>
       \/ /\ nodetimetofree[e.node] <= pos /\ ~pianopedal /\ strings[e.freq] # 0
          /\ voices' = Ended(voices, {e.node}, Executed(ppq2time(nodetimetofree[e.node])))
          /\ strings' = [strings EXCEPT ![e.freq] = 0]
          /\ pedalqueue' = {q \in pedalqueue : q.node # e.node}
          /\ forgotten' = forgotten \cup ({strings[e.freq]} \ {e.node})
       \/ /\ nodetimetofree[e.node] <= pos /\ ~pianopedal /\ strings[e.freq] = 0
          /\ UNCHANGED <<pedalqueue, voices, strings, forgotten>>
    /\ UNCHANGED <<kind, transport, stage, section, event, node, havenode, NodeQueue, filters, pianopedal,
                   nodetimetofree, OsceventQueue, starts, since>>

\* The end of doFreeQueue, with doPedalQueue
FreeRest ==
    /\ stage = "free" /\ \A e \in pianofreequeue : e.time > pos
    /\ stage' = "play"
    /\ IF pianopedal
       THEN UNCHANGED <<pedalqueue, voices, strings, forgotten>>
       ELSE /\ voices' = Ended(voices, {q.node : q \in pedalqueue}, Executed(ppq2time(pos)))
            /\ strings' = [s \in Strings |-> IF \E q \in pedalqueue : q.freq = s THEN 0 ELSE strings[s]]
            /\ forgotten' = forgotten \cup
                  ({strings[q.freq] : q \in pedalqueue} \ ({q.node : q \in pedalqueue} \cup {0}))
            /\ pedalqueue' = {}
    /\ UNCHANGED <<kind, transport, section, event, node, havenode, NodeQueue, filters, pianopedal,
                   pianofreequeue, nodetimetofree, OsceventQueue, starts, since>>

-----------------------------------------------------------------------------
(* Events.                                                                 *)

NoString == 0

\* What one note of an event can be, for the players that read it.
Notes ==
    [rest : BOOLEAN,
     set : IF kind \in {"plain", "mono"} THEN BOOLEAN ELSE {FALSE},
     down : IF kind = "piano" THEN BOOLEAN ELSE {FALSE},
     string : IF kind \in {"voicer", "piano"} THEN Strings ELSE {NoString}]

\* NextVals: Pull plays nothing of the events that lie before the frame, but the piano does.
TakeEvent(delta, length) ==
    /\ stage = "play" /\ playing /\ event = NoEvent /\ pos < ppq
    /\ IF pos < oldppq /\ kind # "piano"
       THEN pos' = pos + delta /\ UNCHANGED event
       ELSE /\ \E k \in Chords : \E notes \in [1..k -> Notes] :
                   event' = [delta |-> delta, length |-> length, notes |-> notes]
            /\ UNCHANGED pos
    /\ UNCHANGED <<kind, transport, stage, musPos, playing, node, havenode, NodeQueue, filters, strings, pedal,
                   OsceventQueue, voices, starts, since, forgotten>>

NewNode == Len(voices) + 1

\* Mutant of Stolen: one more is let in.
StolenLate(queue) == IF Len(queue) > Poly + 1 THEN {Head(queue)} ELSE {}

\* GetNode of a poly player: the oldest, if the queue has become too long.
Stolen(queue) == IF Len(queue) > Poly THEN {Head(queue)} ELSE {}

\* GetNode, and the s_new of the note.
StartVoice(string, warned) ==
    LET queue == Append(NodeQueue, NewNode)
    IN  /\ Len(voices) < MaxNodes
        /\ voices' = IF HasPoly
                     THEN Started(Ended(voices, Stolen(queue), Executed(ppq2time(pos))), ppq2time(pos), string, warned)
                     ELSE Started(voices, ppq2time(pos), string, warned)
        /\ NodeQueue' = IF ~HasPoly THEN NodeQueue ELSE IF Stolen(queue) = {} THEN queue ELSE Tail(queue)
        /\ filters' = IF HasPoly \/ kind = "piano" THEN Append(filters, NewNode) ELSE filters

\* OscEventPlayer:playOneEvent
PlayOscNote(note) ==
    LET set == note.set \/ (kind = "mono" /\ havenode)
        dontfree == \/ kind = "polyheld"
                    \/ (kind = "mono" /\ event.length >= event.delta)
                    \/ (kind = "plain" /\ note.set)
    IN  /\ IF note.rest
           THEN /\ voices' = Ended(voices, ReleasedNodes, Executed(ppq2time(pos)))
                /\ ReleaseNode
                /\ UNCHANGED <<NodeQueue, filters, OsceventQueue>>
           ELSE /\ IF set /\ node # 0
                   THEN UNCHANGED <<voices, NodeQueue, filters, node>>
                   ELSE StartVoice(note.string, set) /\ node' = NewNode
                /\ IF dontfree
                   THEN /\ havenode' = (havenode \/ node' # node)
                        /\ UNCHANGED OsceventQueue
                   ELSE /\ havenode' = FALSE
                        /\ OsceventQueue' = OsceventQueue \cup {[time |-> pos + event.length, node |-> node']}
        /\ UNCHANGED <<strings, pedal>>

\* OscVoicerEventPlayer:playOneEvent; its dontfree is a global that nothing sets.
PlayVoicerNote(note) ==
    /\ \/ /\ note.rest
          /\ voices' = Ended(voices, {strings[note.string]}, Executed(ppq2time(pos)))
          /\ strings' = [strings EXCEPT ![note.string] = 0]
          /\ UNCHANGED <<NodeQueue, filters>>
       \/ /\ ~note.rest /\ strings[note.string] # 0
          /\ UNCHANGED <<voices, strings, NodeQueue, filters>>
       \/ /\ ~note.rest /\ strings[note.string] = 0
          /\ StartVoice(note.string, FALSE)
          /\ strings' = [strings EXCEPT ![note.string] = NewNode]
    /\ UNCHANGED <<node, havenode, pedal, OsceventQueue>>

\* OscPianoEventPlayer:playOneEvent, with setFreeQueue
PlayPianoNote(note) ==
    LET n == IF strings[note.string] # 0 THEN strings[note.string] ELSE NewNode
        due == pos + event.length
    IN  /\ pianopedal' = note.down
        /\ \/ note.rest /\ UNCHANGED <<voices, strings, NodeQueue, filters, pianofreequeue, nodetimetofree>>
           \/ /\ ~note.rest
              /\ IF n = NewNode
                 THEN StartVoice(note.string, FALSE)
                 ELSE UNCHANGED <<voices, NodeQueue, filters>>
              /\ strings' = [strings EXCEPT ![note.string] = n]
              /\ pianofreequeue' = pianofreequeue \cup {[time |-> due, node |-> n, freq |-> note.string]}
              /\ nodetimetofree' = [m \in DOMAIN nodetimetofree \cup {n} |->
                                       IF m = n THEN due ELSE nodetimetofree[m]]
        /\ UNCHANGED <<node, havenode, pedalqueue, OsceventQueue>>

\* playEvent, one note of it; after the last UpdatePos.
PlayNote ==
    /\ stage = "play" /\ event # NoEvent
    /\ LET note == Head(event.notes)
       IN  CASE kind = "voicer" -> PlayVoicerNote(note)
             [] kind = "piano" -> PlayPianoNote(note)
             [] OTHER -> PlayOscNote(note)
    /\ IF Len(event.notes) > 1
       THEN event' = [event EXCEPT !.notes = Tail(@)] /\ UNCHANGED pos
       ELSE event' = NoEvent /\ pos' = pos + event.delta
    /\ UNCHANGED <<kind, transport, stage, musPos, playing, starts, since, forgotten>>

\* NextVals finds no more: only an end in the window resets the player.
StreamEnds ==
    /\ stage = "play" /\ playing /\ event = NoEvent /\ pos < ppq
    /\ playing' = FALSE
    /\ IF pos >= oldppq
       THEN Reset(musPos)
       ELSE UNCHANGED <<pos, node, havenode, NodeQueue, filters, strings, pedal, OsceventQueue, voices, since,
                        forgotten>>
    /\ UNCHANGED <<kind, transport, stage, musPos, event, starts>>

EndTurn ==
    /\ stage = "play" /\ event = NoEvent /\ (playing => pos >= ppq)
    /\ stage' = "schedule"
    /\ UNCHANGED <<kind, transport, section, event, node, havenode, NodeQueue, filters, strings, pedal,
                   OsceventQueue, voices, starts, since, forgotten>>

\* doOscSchedule, one event: an end that lies before the frame is sent for now.
SendScheduled(e) ==
    /\ stage = "schedule"
    /\ e.time < ppq /\ \A d \in OsceventQueue : e.time <= d.time
    /\ OsceventQueue' = OsceventQueue \ {e}
    /\ voices' = Ended(voices, {e.node}, Executed(IF e.time < oldppq THEN now_secs ELSE ppq2time(e.time)))
    /\ UNCHANGED <<kind, transport, stage, section, event, node, havenode, NodeQueue, filters, strings, pedal,
                   starts, since, forgotten>>

EndFrame ==
    /\ stage = "schedule" /\ \A e \in OsceventQueue : e.time >= ppq
    /\ stage' = "idle" /\ clock' = clock + Frame
    /\ UNCHANGED <<kind, oldppq, ppq, jumps, section, event, node, havenode, NodeQueue, filters, strings, pedal,
                   OsceventQueue, voices, starts, since, forgotten>>

VoicesNext ==
    \/ \E n \in DOMAIN voices : NodeEnds(n)
    \/ \E beat \in Beats : Jump(beat)
    \/ BeginFrame \/ BeginTurn
    \/ \E beat \in (oldppq + 1)..ppq : StartPlayer(beat) \/ StopPlayer(beat)
    \/ \E e \in pianofreequeue : FreeOne(e)
    \/ FreeRest
    \/ \E delta \in Deltas, length \in Lengths : TakeEvent(delta, length)
    \/ PlayNote \/ StreamEnds \/ EndTurn
    \/ \E e \in OsceventQueue : SendScheduled(e)
    \/ EndFrame

VoicesSpec == VoicesInit /\ [][VoicesNext]_voicevars

-----------------------------------------------------------------------------
Nodes == DOMAIN voices
Open(n, t) == voices[n].begins <= t /\ ~Over(voices[n], t)

VoicesTypeOK ==
    /\ {node} \cup Range(NodeQueue) \cup Range(filters) \cup Range(strings) \subseteq Nodes \cup {0}
    /\ havenode => node # 0
    /\ \A n \in Nodes : voices[n].ends # Never => voices[n].begins <= voices[n].ends

\* Every voice will be ended: its gate is closed, its end is scheduled, or the player remembers it
\* where it will find it again. Left out are voices that a warning was printed for, that an end
\* overtook before they began, or that the piano has forgotten (playerssc.lua:628-792, 807-859, 978-996).
NoHungVoice ==
    \A n \in Nodes :
        \/ voices[n].ends # Never
        \/ \E e \in OsceventQueue : e.node = n
        \/ kind = "mono" /\ node = n
        \/ n \in Range(NodeQueue) \cup Range(strings)
        \/ voices[n].warned \/ voices[n].overtaken \/ n \in forgotten

\* "poly = 4 sets a maximum polyphony of 4" (examples/pieces/mixolydian_mantra): at no time are
\* more gates open, of the voices since the last Reset or jump (playerssc.lua:646-652).
MaximumPolyphony ==
    HasPoly => \A t \in 0..((MaxFrames + 1) * Frame + Latency) :
                  Cardinality({n \in Nodes : n >= since /\ Open(n, t)}) <= Poly

\* What has been reported to have ended is not used again: no queue and no filter keeps it, and
\* what the queue of a poly player or the strings of a piano hold has its filter.
EndedVoicesLeave ==
    /\ \A n \in Nodes : voices[n].told =>
          n \notin Range(filters) \cup Range(NodeQueue) /\ (kind = "piano" => n \notin Range(strings))
    /\ HasPoly => Range(NodeQueue) \subseteq Range(filters)
    /\ kind = "piano" => Range(strings) \ {0} \subseteq Range(filters)

\* "OscPianoEP sends every freq to the same node" (examples/pieces/breathing): the voices of a
\* string are not open at the same time.
OneVoicePerString ==
    \A n, m \in since..Len(voices) :
        n < m /\ kind \in {"voicer", "piano"} /\ voices[n].string = voices[m].string =>
            \/ Over(voices[n], voices[m].begins)
            \/ voices[n].overtaken \/ n \in forgotten

\* The bookkeeping of the nodes that a player starts on the server: none is left without an end, a
\* poly player keeps its maximum, a string has one voice, and what the server reports to have ended
\* is not used again (sc/playerssc.lua:120-161, 606-792, 807-1009).
VoicesSound == VoicesTypeOK /\ NoHungVoice /\ MaximumPolyphony /\ OneVoicePerString /\ EndedVoicesLeave
=============================================================================
