--------------------------- MODULE MainLoopProofs ---------------------------
(***************************************************************************)
(* Theorems about the main thread and its clients, for any number of       *)
(* scripts, connections, resets and requests. What keeps two scripts from  *)
(* being alive at once is the order of the keys: the status of a script is *)
(* told only when no script waits to be run.                               *)
(***************************************************************************)
EXTENDS MainLoop, TLAPS

Runs == mainlinda["ScriptRun"]
KeyNames == {"sendsc", "initsc", "closesc", "MidiClose", "MidiOpen", "ide_exit", "ScriptRun",
             "CancelScript", "GetScriptLaneStatus"}
Closing == {"closing", "lastcancel", "gone"}

\* No script waits to be run, and the last one is over.
AllOver == Runs = <<>> /\ (script_lane = 0 \/ script[script_lane] = "ended")

\* The scripts that were run are those that main has a lane for, or still waits to start.
LanesInv ==
    /\ mainlinda = [k \in KeyNames |-> mainlinda[k]]
    /\ script_lane \in Nat
    /\ counts \in [{"inits", "sends", "scripts", "resets"} -> Nat]
    /\ script \in [Scripts -> {"none", "pending", "running", "ended"}]
    /\ Runs = <<>> \/ Runs = <<1>>
    /\ counts.scripts = script_lane + Len(Runs)

\* Only the last lane may be alive, and it is over when another is asked for; the IDE takes no
\* script for ended but on such an answer, or when its window closes.
AliveInv ==
    /\ \A s \in Scripts : /\ s < script_lane => script[s] = "ended"
                          /\ script_lane < s => script[s] = "none"
    /\ Runs # <<>> => script_lane = 0 \/ script[script_lane] = "ended"
    /\ ide \notin Closing /\ ideScript = 0 => AllOver
    /\ ide = "status" /\ answer = {"ended"} => AllOver

ScriptInv == LanesInv /\ AliveInv

-----------------------------------------------------------------------------
\* The keys in the order of the receive.
LEMMA KeyOrder == /\ Keys[7] = "ScriptRun" /\ Keys[8] = "CancelScript" /\ Keys[9] = "GetScriptLaneStatus"
                  /\ DOMAIN Keys = 1..9
                  /\ {Keys[i] : i \in DOMAIN Keys} = KeyNames
BY DEF Keys, KeyNames

\* Main tells the status of a script, or begins to cancel it, only when no script waits to be run.
LEMMA TakesLater ==
  ASSUME NEW k, k \in {"CancelScript", "GetScriptLaneStatus"}, NEW msg, Takes(k, msg) PROVE Runs = <<>>
<1>1. PICK j \in 8..9 : Keys[j] = k
  BY KeyOrder
<1>2. 7 \in DOMAIN Keys /\ j \in DOMAIN Keys /\ ServedBefore(7, j)
  BY <1>1, KeyOrder DEF ServedBefore
<1>3. QED
  BY <1>1, <1>2, KeyOrder DEF Takes, Runs

\* Taking a message of another key leaves the scripts that wait.
LEMMA TakesOther ==
  ASSUME LanesInv, NEW k \in KeyNames \ {"ScriptRun"}, NEW msg, Takes(k, msg)
  PROVE  Runs' = Runs /\ mainlinda' = [l \in KeyNames |-> mainlinda'[l]]
BY DEF LanesInv, Takes, Runs, KeyNames

\* Sending messages of other keys leaves them too.
LEMMA SendsOther ==
  ASSUME LanesInv, NEW msgs, "ScriptRun" \notin DOMAIN msgs, Send(msgs)
  PROVE  Runs' = Runs /\ mainlinda' = [l \in KeyNames |-> mainlinda'[l]]
BY DEF LanesInv, Send, Runs, KeyNames

\* A step that leaves the scripts alone, and has the IDE learn nothing, keeps the invariant.
LEMMA Elsewhere ==
  ASSUME ScriptInv, UNCHANGED <<script_lane, script>>, Runs' = Runs,
         mainlinda' = [l \in KeyNames |-> mainlinda'[l]],
         counts' \in [{"inits", "sends", "scripts", "resets"} -> Nat],
         counts'["scripts"] = counts["scripts"],
         ide' \notin Closing /\ ideScript' = 0 => ide \notin Closing /\ ideScript = 0,
         ide' = "status" /\ answer' = {"ended"} => ide = "status" /\ answer = {"ended"}
  PROVE  ScriptInv'
<1>1. AllOver' = AllOver
  BY DEF AllOver
<1>2. LanesInv'
  BY DEF ScriptInv, LanesInv
<1>3. AliveInv'
  BY <1>1 DEF ScriptInv, AliveInv
<1>4. QED
  BY <1>2, <1>3 DEF ScriptInv
\* A step that leaves the lanes, the requests for them and the IDE's knowledge alone.
LEMMA Aside ==
  ASSUME ScriptInv, UNCHANGED <<script_lane, script, ideScript, ide>>, Runs' = Runs,
         mainlinda' = [l \in KeyNames |-> mainlinda'[l]],
         counts' \in [{"inits", "sends", "scripts", "resets"} -> Nat],
         counts'["scripts"] = counts["scripts"],
         answer' = {"ended"} => answer = {"ended"}
  PROVE  ScriptInv'
BY Elsewhere

\* The steps of the IDE that ask for no script.
LEMMA IDESteps ==
  ASSUME ScriptInv, IDEStep, ~RunScript, ~StatusAnswered
  PROVE  ScriptInv'
<1> USE DEF ScriptInv, LanesInv
<1>1. CASE InitSC \/ SendSC \/ QuitSC
  <2>1. Runs' = Runs /\ mainlinda' = [l \in KeyNames |-> mainlinda'[l]]
    BY <1>1, SendsOther DEF InitSC, SendSC, QuitSC, QuitMessages
  <2>2. QED
    BY <1>1, <2>1, Aside DEF InitSC, SendSC, QuitSC, Count, ideVars, scriptVars
<1>2. CASE ResetMidi \/ ReopenMidi
  <2>1. Runs' = Runs /\ mainlinda' = [l \in KeyNames |-> mainlinda'[l]]
    BY <1>2, SendsOther DEF ResetMidi, ReopenMidi
  <2>2. QED
    BY <1>2, <2>1, Elsewhere DEF ResetMidi, ReopenMidi, Count, scriptVars, Closing
<1>3. CASE ExitScript
  BY <1>3, Aside DEF ExitScript, ideVars, Runs
<1>4. CASE AskStatus \/ LastCancel \/ \E forced \in {0, 1} : AskCancel(forced)
  <2>1. Runs' = Runs /\ mainlinda' = [l \in KeyNames |-> mainlinda'[l]] /\ answer' = {}
    BY <1>4 DEF AskStatus, AskCancel, LastCancel, Ask, Runs, KeyNames
  <2>2. QED
    BY <1>4, <2>1, Elsewhere DEF AskStatus, AskCancel, LastCancel, scriptVars, Closing
<1>5. CASE CancelAnswered \/ LastCancelAnswered \/ CloseWindow
  BY <1>5, Elsewhere DEF CancelAnswered, LastCancelAnswered, CloseWindow, scriptVars, Closing, Runs
<1>6. CASE GiveUp
  <2>1. Runs' = Runs /\ mainlinda' = [l \in KeyNames |-> mainlinda'[l]]
    BY <1>6 DEF GiveUp, Runs, KeyNames
  <2>2. QED
    BY <1>6, <2>1, Elsewhere DEF GiveUp, scriptVars, Closing
<1>7. CASE LeaveIDE
  <2>1. Runs' = Runs /\ mainlinda' = [l \in KeyNames |-> mainlinda'[l]]
    BY <1>7 DEF LeaveIDE, Runs, KeyNames, QuitMessages
  <2>2. QED
    BY <1>7, <2>1, Elsewhere DEF LeaveIDE, scriptVars, Closing
<1>8. QED
  BY <1>1, <1>2, <1>3, <1>4, <1>5, <1>6, <1>7 DEF IDEStep

\* The IDE runs a script only when it knows of none.
LEMMA RunScriptKeeps == ASSUME ScriptInv, RunScript PROVE ScriptInv'
<1> USE DEF ScriptInv, LanesInv
<1>1. AllOver
  BY DEF AliveInv, RunScript, Closing
<1>2. Runs' = <<1>> /\ mainlinda' = [l \in KeyNames |-> mainlinda'[l]]
  <2>1. mainlinda' = [k \in KeyNames |-> IF k = "ScriptRun" THEN Runs \o <<1>> ELSE mainlinda[k]]
    BY DEF RunScript, Send, Runs
  <2>2. Runs' = <<>> \o <<1>>
    BY <1>1, <2>1 DEF Runs, KeyNames, AllOver
  <2>3. <<>> \o <<1>> = <<1>>
    OBVIOUS
  <2>4. QED
    BY <2>1, <2>2, <2>3 DEF Runs
<1>3. UNCHANGED <<script_lane, script>> /\ ide' = "idle" /\ ideScript' = 1
      /\ counts' = [counts EXCEPT !.scripts = @ + 1]
  BY DEF RunScript, scriptVars, Count
<1>4. LanesInv'
  BY <1>1, <1>2, <1>3 DEF AllOver
<1>5. AliveInv'
  BY <1>1, <1>2, <1>3 DEF AliveInv, AllOver, Closing
<1>6. QED
  BY <1>4, <1>5

\* It forgets one only when it is told that it is over.
LEMMA StatusAnsweredKeeps == ASSUME ScriptInv, StatusAnswered PROVE ScriptInv'
<1>1. UNCHANGED <<script_lane, script, counts, mainlinda>> /\ ide' = "idle" /\ answer' = {}
      /\ Runs' = Runs /\ AllOver' = AllOver
  BY DEF StatusAnswered, scriptVars, Runs, AllOver
<1>2. LanesInv'
  BY <1>1 DEF ScriptInv, LanesInv
<1>3. ideScript' = 0 => AllOver
  BY DEF StatusAnswered, ScriptInv, AliveInv
<1>4. AliveInv'
  BY <1>1, <1>3 DEF ScriptInv, AliveInv
<1>5. QED
  BY <1>2, <1>4 DEF ScriptInv
\* Main's steps that are about no script.
LEMMA MainAside ==
  ASSUME ScriptInv,
         \/ \E msg : ServeSend(msg)
         \/ \E n : ServeInit(n) \/ ServeClose(n)
         \/ ServeMidiClose \/ MidiClosed \/ ServeMidiOpen \/ ServeExit
  PROVE  ScriptInv'
<1> USE DEF ScriptInv, LanesInv
<1>1. Runs' = Runs /\ mainlinda' = [l \in KeyNames |-> mainlinda'[l]]
  <2>1. CASE \E k \in KeyNames \ {"ScriptRun"} : \E msg : Takes(k, msg)
    BY <2>1, TakesOther
  <2>2. CASE mainlinda' = mainlinda
    BY <2>2 DEF Runs
  <2>3. QED
    BY <2>1, <2>2 DEF ServeSend, ServeInit, ServeClose, ServeMidiClose, MidiClosed, ServeMidiOpen,
                      ServeExit, KeyNames
<1>2. UNCHANGED <<ideVars, script_lane, script>> /\ (answer' = answer \/ answer' = {"done"})
  BY DEF ServeSend, ServeInit, ServeClose, ServeMidiClose, MidiClosed, ServeMidiOpen, ServeExit,
         Answer, ideVars, scriptVars
<1>3. QED
  BY <1>1, <1>2, Aside DEF ideVars

\* Main runs a script: the one before is over.
LEMMA ServeScriptRunKeeps == ASSUME ScriptInv, ServeScriptRun PROVE ScriptInv'
<1> USE DEF ScriptInv, LanesInv
<1>1. Runs = <<1>> /\ Runs' = <<>> /\ mainlinda' = [l \in KeyNames |-> mainlinda'[l]]
  <2>1. mainlinda' = [l \in KeyNames |-> IF l = "ScriptRun" THEN Tail(Runs) ELSE mainlinda[l]]
        /\ Runs # <<>>
    BY DEF ServeScriptRun, Takes, Runs
  <2>2. Tail(<<1>>) = <<>>
    OBVIOUS
  <2>3. Runs' = Tail(Runs) /\ mainlinda' = [l \in KeyNames |-> mainlinda'[l]]
    BY <2>1 DEF Runs, KeyNames
  <2>4. QED
    BY <2>1, <2>2, <2>3
<1>2. /\ script_lane' = script_lane + 1
      /\ script' = [script EXCEPT ![script_lane + 1] = "pending"]
      /\ UNCHANGED <<ide, ideScript, counts, answer>>
  BY DEF ServeScriptRun, ideVars
<1>3. LanesInv'
  <2>1. Len(<<1>>) = 1 /\ Len(<<>>) = 0
    OBVIOUS
  <2>2. script' \in [Scripts -> {"none", "pending", "running", "ended"}]
    BY <1>2
  <2>3. QED
    BY <1>1, <1>2, <2>1, <2>2
<1>4. AliveInv'
  <2>1. ~AllOver
    BY <1>1 DEF AllOver
  <2>2. \A s \in Scripts : (s < script_lane + 1 => script[s] = "ended")
                           /\ (script_lane + 1 < s => script[s] = "none")
    BY <1>1 DEF AliveInv, Scripts
  <2>3. QED
    BY <1>1, <1>2, <2>1, <2>2 DEF AliveInv, Scripts
<1>5. QED
  BY <1>3, <1>4

\* Main cancels a script, or tells its status, when none waits to be run.
LEMMA RequestsKeep ==
  ASSUME ScriptInv, NEW r, ServeCancel(r) \/ CancelDone(r) \/ ServeStatus(r)
  PROVE  ScriptInv'
<1> USE DEF ScriptInv, LanesInv
<1>1. CASE ServeCancel(r)
  <2>1. Runs' = Runs /\ mainlinda' = [l \in KeyNames |-> mainlinda'[l]]
    BY <1>1, TakesOther DEF ServeCancel, KeyNames
  <2>2. QED
    BY <1>1, <2>1, Aside DEF ServeCancel, ideVars, scriptVars
<1>2. CASE CancelDone(r)
  <2>1. /\ UNCHANGED <<ide, ideScript, counts, mainlinda, script_lane>> /\ Runs' = Runs
        /\ script' = script \/ script' = [script EXCEPT ![script_lane] = "ended"]
        /\ answer' \in {answer, {"cancelled"}, {"running"}}
    BY <1>2 DEF CancelDone, ideVars, Answer, Runs
  <2>2. LanesInv'
    BY <2>1
  <2>3. AllOver => AllOver'
    BY <2>1 DEF AllOver
  <2>4. AliveInv'
    BY <2>1, <2>3 DEF AliveInv, Scripts
  <2>5. QED
    BY <2>2, <2>4
<1>3. CASE ServeStatus(r)
  <2>1. Runs = <<>>
    BY <1>3, TakesLater DEF ServeStatus
  <2>2. Runs' = Runs /\ mainlinda' = [l \in KeyNames |-> mainlinda'[l]]
    BY <1>3, TakesOther DEF ServeStatus, KeyNames
  <2>3. UNCHANGED <<ide, ideScript, counts, script_lane, script>>
        /\ (answer' = answer \/ answer' = {script[script_lane]})
    BY <1>3 DEF ServeStatus, ideVars, scriptVars, Answer
  <2>4. LanesInv'
    BY <2>2, <2>3
  <2>5. AliveInv'
    BY <2>1, <2>2, <2>3 DEF AliveInv, AllOver
  <2>6. QED
    BY <2>4, <2>5
<1>4. QED
  BY <1>1, <1>2, <1>3

\* A script that starts or ends is the last one.
LEMMA ScriptSteps ==
  ASSUME ScriptInv, NEW s \in Scripts, ScriptStep(s) PROVE ScriptInv'
<1> USE DEF ScriptInv, LanesInv
<1>1. /\ script[s] \in {"pending", "running"} /\ s \in Nat
      /\ \E now \in {"running", "ended"} : script' = [script EXCEPT ![s] = now]
      /\ UNCHANGED <<ide, ideScript, counts, answer, mainlinda, script_lane>> /\ Runs' = Runs
  BY DEF ScriptStep, StartScript, EndScript, TakeExit, ideVars, Scripts, Runs
<1>2. s = script_lane /\ script_lane # 0
  BY <1>1 DEF AliveInv, Scripts
<1>3. LanesInv'
  BY <1>1
<1>4. AliveInv'
  BY <1>1, <1>2 DEF AliveInv, AllOver, Scripts
<1>5. QED
  BY <1>3, <1>4

-----------------------------------------------------------------------------
(* The requests.                                                           *)

Cancels == mainlinda["CancelScript"]
Statuses == mainlinda["GetScriptLaneStatus"]
Closes == mainlinda["MidiClose"]
Requests == [lane : Nat, forced : {0, 1}, asker : {0, 1}]

OfScript(q) == \A i \in 1..Len(q) : q[i].lane = counts["scripts"]
Asked(q) == \E i \in 1..Len(q) : q[i].asker = 1
OnlyLastAsks(q) == \A i \in 1..Len(q) : i < Len(q) => q[i].asker = 0
ServingAsked == \E r \in serving : r.asker = 1
Waits(states) == ide \in states /\ answer = {}

\* What is left in the queues is about the script run last.
QueuesInv ==
    /\ Cancels \in Seq(Requests) /\ Statuses \in Seq(Requests) /\ serving \subseteq Requests
    /\ OfScript(Cancels) /\ OfScript(Statuses)
    /\ OnlyLastAsks(Cancels) /\ OnlyLastAsks(Statuses)

\* A request whose answer will be read is the last of its queue, and the IDE waits for it.
AskersInv ==
    /\ Waits({"cancel", "lastcancel"}) \/ ~(Asked(Cancels) \/ ServingAsked)
    /\ Waits({"status"}) \/ ~Asked(Statuses)
    /\ ServingAsked => ~Asked(Cancels)

\* So is the request to close MIDI.
ClosesInv ==
    /\ Closes \in {<<>>, <<1>>}
    /\ Waits({"reset"}) \/ (Closes = <<>> /\ main # "closing")
    /\ main = "closing" => Closes = <<>>

\* When the IDE knows that the script is over no request is left.
NoneLeft == Cancels = <<>> /\ Statuses = <<>>
NoneLeftInv ==
    /\ ide \notin Closing /\ ideScript = 0 => NoneLeft
    /\ ide = "status" /\ answer = {"ended"} => NoneLeft

RequestsInv == QueuesInv /\ AskersInv /\ ClosesInv /\ NoneLeftInv

-----------------------------------------------------------------------------
\* What the taking of the first request leaves, and what is known of it.
LEMMA TailOfRequests ==
  ASSUME NEW q \in Seq(Requests), q # <<>>, OfScript(q), OnlyLastAsks(q)
  PROVE  /\ Head(q) \in Requests /\ Tail(q) \in Seq(Requests)
         /\ OfScript(Tail(q)) /\ OnlyLastAsks(Tail(q))
         /\ Head(q).lane = counts["scripts"]
         /\ Asked(Tail(q)) => Asked(q)
         /\ Head(q).asker = 1 => Asked(q) /\ Tail(q) = <<>>
<1>1. /\ Tail(q) \in Seq(Requests) /\ Len(Tail(q)) = Len(q) - 1 /\ Len(q) \in Nat \ {0}
      /\ \A i \in 1..Len(Tail(q)) : Tail(q)[i] = q[i + 1]
      /\ Head(q) = q[1] /\ q[1] \in Requests
  OBVIOUS
<1>2. OfScript(Tail(q)) /\ OnlyLastAsks(Tail(q)) /\ (Asked(Tail(q)) => Asked(q))
  BY <1>1 DEF OfScript, OnlyLastAsks, Asked
<1>3. q[1].lane = counts["scripts"]
  BY <1>1 DEF OfScript
<1>4. q[1].asker = 1 => Asked(q) /\ Len(q) = 1
  BY <1>1 DEF OnlyLastAsks, Asked
<1>5. Len(q) = 1 => Tail(q) = <<>>
  <2>1. ASSUME NEW s \in Seq(Requests), Len(s) = 0 PROVE s = <<>>
    BY <2>1
  <2>2. Len(q) = 1 => Len(Tail(q)) = 0
    BY <1>1
  <2>3. QED
    BY <1>1, <2>1, <2>2
<1>6. QED
  BY <1>1, <1>2, <1>3, <1>4, <1>5

\* A request is added to a queue none of whose answers is awaited.
LEMMA AskedLast ==
  ASSUME NEW q \in Seq(Requests), OfScript(q), ~Asked(q), NEW forced \in {0, 1},
         counts["scripts"] \in Nat
  PROVE  /\ Append(q, Request(forced)) \in Seq(Requests)
         /\ OfScript(Append(q, Request(forced))) /\ OnlyLastAsks(Append(q, Request(forced)))
<1>1. Request(forced) \in Requests /\ Request(forced).lane = counts["scripts"]
  BY DEF Request, Requests
<1>2. /\ Append(q, Request(forced)) \in Seq(Requests)
      /\ Len(Append(q, Request(forced))) = Len(q) + 1
      /\ \A i \in 1..Len(q) : Append(q, Request(forced))[i] = q[i]
      /\ Append(q, Request(forced))[Len(q) + 1] = Request(forced)
  BY <1>1
<1>3. \A i \in 1..Len(q) : q[i] \in Requests
  OBVIOUS
<1>4. QED
  BY <1>1, <1>2, <1>3 DEF OfScript, OnlyLastAsks, Asked, Requests

\* What the queues are once the IDE has given up.
LEMMA ForsakenRequests ==
  ASSUME NEW q \in Seq(Requests), OfScript(q), NEW p, p = [i \in DOMAIN q |-> Forsaken(q[i])]
  PROVE  p \in Seq(Requests) /\ OfScript(p) /\ OnlyLastAsks(p) /\ ~Asked(p) /\ (q = <<>> => p = <<>>)
<1>1. DOMAIN q = 1..Len(q) /\ Len(q) \in Nat /\ \A i \in 1..Len(q) : q[i] \in Requests
  OBVIOUS
<1>2. \A r \in Requests : /\ Forsaken(r) \in Requests
                          /\ Forsaken(r).asker = 0 /\ Forsaken(r).lane = r.lane
  BY DEF Requests, Forsaken
<1>3. p \in Seq(Requests) /\ Len(p) = Len(q)
  BY <1>1, <1>2
<1>4. \A i \in 1..Len(p) : p[i].asker = 0 /\ p[i].lane = q[i].lane
  BY <1>1, <1>2, <1>3
<1>5. OfScript(p) /\ OnlyLastAsks(p) /\ ~Asked(p)
  <2>1. OfScript(p)
    BY <1>3, <1>4 DEF OfScript
  <2>2. OnlyLastAsks(p) /\ ~Asked(p)
    BY <1>4 DEF OnlyLastAsks, Asked
  <2>3. QED
    BY <2>1, <2>2
<1>6. q = <<>> => p = <<>>
  BY <1>1, <1>3
<1>7. QED
  BY <1>3, <1>5, <1>6

-----------------------------------------------------------------------------
\* A step that leaves the requests alone, and has the IDE wait as before and learn nothing.
LEMMA RequestsElsewhere ==
  ASSUME RequestsInv, ClosesInv', UNCHANGED <<Cancels, Statuses, serving>>,
         counts'["scripts"] = counts["scripts"],
         Waits({"cancel", "lastcancel"}) => Waits({"cancel", "lastcancel"})',
         Waits({"status"}) => Waits({"status"})',
         ide' \notin Closing /\ ideScript' = 0 => ide \notin Closing /\ ideScript = 0,
         ide' = "status" /\ answer' = {"ended"} => ide = "status" /\ answer = {"ended"}
  PROVE  RequestsInv'
<1>1. QueuesInv'
  BY DEF RequestsInv, QueuesInv, OfScript, OnlyLastAsks
<1>2. AskersInv'
  BY DEF RequestsInv, AskersInv, Asked, ServingAsked
<1>3. NoneLeftInv'
  BY DEF RequestsInv, NoneLeftInv, NoneLeft
<1>4. QED
  BY <1>1, <1>2, <1>3 DEF RequestsInv

\* The queues a message of another key leaves alone.
LEMMA SendsAside ==
  ASSUME LanesInv, NEW msgs, Send(msgs), NEW k \in KeyNames \ DOMAIN msgs
  PROVE  mainlinda'[k] = mainlinda[k]
BY DEF LanesInv, Send, KeyNames

\* The queues of the other keys when a message is taken.
LEMMA TakesAside ==
  ASSUME LanesInv, NEW msg, NEW k \in KeyNames, Takes(k, msg), NEW l \in KeyNames \ {k}
  PROVE  mainlinda'[l] = mainlinda[l]
BY DEF LanesInv, Takes, KeyNames

\* The requests for the sound server are no requests for a script.
LEMMA IDEToServer ==
  ASSUME LanesInv, RequestsInv, InitSC \/ SendSC \/ QuitSC PROVE RequestsInv'
<1>1. UNCHANGED <<Cancels, Statuses, Closes>>
  BY SendsAside DEF InitSC, SendSC, QuitSC, QuitMessages, Cancels, Statuses, Closes, KeyNames
<1>2. UNCHANGED <<ide, ideScript, answer, main, serving>> /\ counts'["scripts"] = counts["scripts"]
  BY DEF InitSC, SendSC, QuitSC, Count, mainVars, LanesInv
<1>3. ClosesInv'
  BY <1>1, <1>2 DEF RequestsInv, ClosesInv, Waits
<1>4. QED
  BY <1>1, <1>2, <1>3, RequestsElsewhere DEF Waits

\* MIDI is closed only when no close is on its way, and opened after the answer.
LEMMA IDEToMidi ==
  ASSUME LanesInv, RequestsInv, ResetMidi \/ ReopenMidi PROVE RequestsInv'
<1>1. UNCHANGED <<Cancels, Statuses>>
  BY SendsAside DEF ResetMidi, ReopenMidi, Cancels, Statuses, KeyNames
<1>2. UNCHANGED <<ideScript, main, serving>> /\ counts'["scripts"] = counts["scripts"]
  BY DEF ResetMidi, ReopenMidi, Count, mainVars, LanesInv
<1>3. CASE ResetMidi
  <2>1. Closes = <<>> /\ main # "closing" /\ ide' = "reset" /\ answer' = {} /\ ide = "idle"
    BY <1>3 DEF ResetMidi, RequestsInv, ClosesInv, Waits
  <2>2. Closes' = <<>> \o <<1>>
    BY <1>3, <2>1 DEF ResetMidi, Send, LanesInv, Closes, KeyNames
  <2>3. <<>> \o <<1>> = <<1>>
    OBVIOUS
  <2>4. ClosesInv'
    BY <1>2, <2>1, <2>2, <2>3 DEF ClosesInv, Waits
  <2>5. QED
    BY <1>1, <1>2, <2>1, <2>4, RequestsElsewhere DEF Waits, Closing
<1>4. CASE ReopenMidi
  <2>1. Closes' = Closes
    BY <1>4, SendsAside DEF ReopenMidi, Closes, KeyNames
  <2>2. ide = "reset" /\ ide' = "idle" /\ answer # {} /\ UNCHANGED answer
    BY <1>4 DEF ReopenMidi
  <2>3. ClosesInv'
    BY <1>2, <2>1, <2>2 DEF RequestsInv, ClosesInv, Waits
  <2>4. QED
    BY <1>1, <1>2, <2>2, <2>3, RequestsElsewhere DEF Waits, Closing
<1>5. QED
  BY <1>3, <1>4

\* The IDE asks for a script when no request for the one before is left.
LEMMA IDEToScripts ==
  ASSUME LanesInv, RequestsInv, RunScript \/ ExitScript PROVE RequestsInv'
<1>1. CASE RunScript
  <2>1. UNCHANGED <<Cancels, Statuses, Closes>>
    BY <1>1, SendsAside DEF RunScript, Cancels, Statuses, Closes, KeyNames
  <2>2. NoneLeft /\ UNCHANGED <<ide, answer, main, serving>>
    BY <1>1 DEF RunScript, RequestsInv, NoneLeftInv, Closing, mainVars
  <2>3. QueuesInv'
    BY <2>1, <2>2 DEF RequestsInv, QueuesInv, NoneLeft, OfScript, OnlyLastAsks
  <2>4. AskersInv'
    BY <2>1, <2>2 DEF RequestsInv, AskersInv, Waits, Asked, ServingAsked
  <2>5. ClosesInv' /\ NoneLeftInv'
    BY <2>1, <2>2 DEF RequestsInv, ClosesInv, NoneLeftInv, NoneLeft, Waits
  <2>6. QED
    BY <2>3, <2>4, <2>5 DEF RequestsInv
<1>2. CASE ExitScript
  <2>1. UNCHANGED <<Cancels, Statuses, Closes, ide, ideScript, counts, answer, main, serving>>
    BY <1>2 DEF ExitScript, ideVars, mainVars, Cancels, Statuses, Closes
  <2>2. ClosesInv'
    BY <2>1 DEF RequestsInv, ClosesInv, Waits
  <2>3. QED
    BY <2>1, <2>2, RequestsElsewhere DEF Waits
<1>3. QED
  BY <1>1, <1>2

\* The IDE asks when nothing it asked before can still be answered.
LEMMA IDEAsks ==
  ASSUME LanesInv, RequestsInv, AskStatus \/ LastCancel \/ \E forced \in {0, 1} : AskCancel(forced)
  PROVE  RequestsInv'
<1>0. UNCHANGED <<ideScript, counts, main, serving>> /\ ideScript = 1 /\ answer' = {}
      /\ counts["scripts"] \in Nat
  BY DEF AskStatus, LastCancel, AskCancel, Ask, mainVars, LanesInv
<1>1. ide \in {"idle", "closing"}
  BY DEF AskStatus, LastCancel, AskCancel
<1>2. ~Asked(Cancels) /\ ~Asked(Statuses) /\ ~ServingAsked /\ Closes = <<>> /\ main # "closing"
  BY <1>1 DEF RequestsInv, AskersInv, ClosesInv, Waits
<1>3. CASE AskStatus
  <2>1. Statuses' = Append(Statuses, Request(0)) /\ UNCHANGED <<Cancels, Closes>> /\ ide' = "status"
    BY <1>3 DEF AskStatus, Ask, LanesInv, Cancels, Statuses, Closes, KeyNames
  <2>2. QueuesInv'
    BY <1>0, <1>2, <2>1, AskedLast DEF RequestsInv, QueuesInv, OfScript, OnlyLastAsks
  <2>3. AskersInv' /\ ClosesInv'
    BY <1>0, <1>2, <2>1 DEF AskersInv, ClosesInv, Waits, Asked, ServingAsked
  <2>4. NoneLeftInv'
    BY <1>0, <2>1 DEF NoneLeftInv
  <2>5. QED
    BY <2>2, <2>3, <2>4 DEF RequestsInv
<1>4. ASSUME NEW forced \in {0, 1}, Ask("CancelScript", forced), ide' \in {"cancel", "lastcancel"}
      PROVE  RequestsInv'
  <2>1. Cancels' = Append(Cancels, Request(forced)) /\ UNCHANGED <<Statuses, Closes>>
    BY <1>4 DEF Ask, LanesInv, Cancels, Statuses, Closes, KeyNames
  <2>2. QueuesInv'
    BY <1>0, <1>2, <2>1, AskedLast DEF RequestsInv, QueuesInv, OfScript, OnlyLastAsks
  <2>3. AskersInv' /\ ClosesInv'
    BY <1>0, <1>2, <1>4, <2>1 DEF AskersInv, ClosesInv, Waits, Asked, ServingAsked
  <2>4. NoneLeftInv'
    BY <1>0, <1>4 DEF NoneLeftInv
  <2>5. QED
    BY <2>2, <2>3, <2>4 DEF RequestsInv
<1>5. QED
  BY <1>3, <1>4 DEF LastCancel, AskCancel

\* It stops waiting with its answer, or with no request left that would be answered.
LEMMA IDEWaitsNoMore ==
  ASSUME LanesInv, RequestsInv, StatusAnswered \/ CancelAnswered \/ LastCancelAnswered \/ CloseWindow
  PROVE  RequestsInv'
<1>1. /\ UNCHANGED <<Cancels, Statuses, Closes, counts, main, serving>>
      /\ ide' \in {"idle", "closing"} /\ ~Waits({"reset"})
  BY DEF StatusAnswered, CancelAnswered, LastCancelAnswered, CloseWindow, mainVars, Cancels,
         Statuses, Closes, Waits
<1>2. ~Waits({"cancel", "lastcancel"}) /\ ~Waits({"status"})
  BY DEF StatusAnswered, CancelAnswered, LastCancelAnswered, CloseWindow, Waits
<1>3. ClosesInv'
  BY <1>1 DEF RequestsInv, ClosesInv, Waits
<1>4. QueuesInv' /\ AskersInv'
  BY <1>1, <1>2 DEF RequestsInv, QueuesInv, AskersInv, OfScript, OnlyLastAsks, Asked, ServingAsked
<1>5. NoneLeftInv'
  <2>1. NoneLeft' = NoneLeft
    BY <1>1 DEF NoneLeft
  <2>2. CASE StatusAnswered
    BY <2>1, <2>2 DEF StatusAnswered, RequestsInv, NoneLeftInv
  <2>3. CASE CancelAnswered
    BY <2>1, <2>3 DEF CancelAnswered, RequestsInv, NoneLeftInv, Closing
  <2>4. CASE LastCancelAnswered \/ CloseWindow
    BY <2>1, <2>4 DEF LastCancelAnswered, CloseWindow, RequestsInv, NoneLeftInv, Closing
  <2>5. QED
    BY <2>2, <2>3, <2>4
<1>6. QED
  BY <1>3, <1>4, <1>5 DEF RequestsInv

\* Giving up leaves no request that would be answered (the linda of the request is dropped).
LEMMA IDEGivesUp == ASSUME LanesInv, RequestsInv, GiveUp PROVE RequestsInv'
<1>1. /\ Cancels' = [i \in DOMAIN Cancels |-> Forsaken(Cancels[i])]
      /\ Statuses' = [i \in DOMAIN Statuses |-> Forsaken(Statuses[i])]
      /\ Closes' = Closes /\ serving' = {Forsaken(r) : r \in serving}
      /\ UNCHANGED <<ideScript, counts, answer, main>>
      /\ ide' \in {"idle", "closing"} /\ (ide' = "idle" => ide \notin Closing)
      /\ ide \in {"status", "cancel", "lastcancel"}
  BY DEF GiveUp, LanesInv, Cancels, Statuses, Closes, KeyNames, Closing
<1>2. /\ Cancels' \in Seq(Requests) /\ Statuses' \in Seq(Requests)
      /\ OfScript(Cancels') /\ OfScript(Statuses')
      /\ OnlyLastAsks(Cancels') /\ OnlyLastAsks(Statuses')
      /\ ~Asked(Cancels') /\ ~Asked(Statuses')
      /\ NoneLeft => NoneLeft'
  BY <1>1, ForsakenRequests DEF RequestsInv, QueuesInv, NoneLeft
<1>3. \A r \in serving' : r \in Requests /\ r.asker = 0
  BY <1>1 DEF RequestsInv, QueuesInv, Requests, Forsaken
<1>4. QueuesInv'
  BY <1>1, <1>2, <1>3 DEF QueuesInv, OfScript, OnlyLastAsks
<1>5. AskersInv'
  BY <1>2, <1>3 DEF AskersInv, Asked, ServingAsked
<1>6. ClosesInv'
  BY <1>1 DEF RequestsInv, ClosesInv, Waits
<1>7. NoneLeftInv'
  BY <1>1, <1>2 DEF RequestsInv, NoneLeftInv, Closing
<1>8. QED
  BY <1>4, <1>5, <1>6, <1>7 DEF RequestsInv

\* The finalizer of the IDE sends nothing to the scripts.
LEMMA IDELeaves == ASSUME LanesInv, RequestsInv, LeaveIDE PROVE RequestsInv'
<1>1. UNCHANGED <<Cancels, Statuses, Closes>>
  BY DEF LeaveIDE, QuitMessages, LanesInv, Cancels, Statuses, Closes, KeyNames
<1>2. UNCHANGED <<ideScript, counts, answer, main, serving>> /\ ide = "closing" /\ ide' = "gone"
  BY DEF LeaveIDE, mainVars
<1>3. ClosesInv'
  BY <1>1, <1>2 DEF RequestsInv, ClosesInv, Waits
<1>4. QED
  BY <1>1, <1>2, <1>3, RequestsElsewhere DEF Waits, Closing

-----------------------------------------------------------------------------
\* Main serves other requests.
LEMMA MainElsewhere ==
  ASSUME LanesInv, RequestsInv,
         \/ \E msg : ServeSend(msg)
         \/ \E n : ServeInit(n) \/ ServeClose(n)
         \/ ServeMidiOpen \/ ServeExit \/ ServeScriptRun
  PROVE  RequestsInv'
<1>1. UNCHANGED <<Cancels, Statuses, Closes>>
  BY TakesAside DEF ServeSend, ServeInit, ServeClose, ServeMidiOpen, ServeExit, ServeScriptRun,
                    Cancels, Statuses, Closes, KeyNames
<1>2. UNCHANGED <<ideVars, answer, serving>> /\ main' # "closing"
  BY DEF ServeSend, ServeInit, ServeClose, ServeMidiOpen, ServeExit, ServeScriptRun, MidiClose,
         Takes, mainVars
<1>3. ClosesInv'
  BY <1>1, <1>2 DEF RequestsInv, ClosesInv, Waits, ideVars
<1>4. QED
  BY <1>1, <1>2, <1>3, RequestsElsewhere DEF Waits, ideVars

\* The answer to the request to close MIDI comes when the IDE waits for it, and only once.
LEMMA MainClosesMidi ==
  ASSUME LanesInv, RequestsInv, ServeMidiClose \/ MidiClosed PROVE RequestsInv'
<1>1. UNCHANGED <<Cancels, Statuses>>
  BY TakesAside DEF ServeMidiClose, MidiClosed, Cancels, Statuses, KeyNames
<1>2. UNCHANGED <<ideVars, serving>>
  BY DEF ServeMidiClose, MidiClosed
<1>3. CASE ServeMidiClose
  <2>1. Closes # <<>> /\ Closes' = Tail(Closes) /\ Waits({"reset"})
    BY <1>3 DEF ServeMidiClose, Takes, Closes, LanesInv, KeyNames, RequestsInv, ClosesInv
  <2>2. Tail(<<1>>) = <<>>
    OBVIOUS
  <2>3. Closes' = <<>>
    BY <2>1, <2>2 DEF RequestsInv, ClosesInv
  <2>4. \/ main' = "closing" /\ answer' = answer
        \/ main' = "loop" /\ answer' = {"done"}
    BY <1>3 DEF ServeMidiClose, MidiClose, Answer
  <2>5. ClosesInv'
    BY <1>2, <2>1, <2>3, <2>4 DEF ClosesInv, Waits, ideVars
  <2>6. QED
    BY <1>1, <1>2, <2>1, <2>4, <2>5, RequestsElsewhere DEF Waits, ideVars
<1>4. CASE MidiClosed
  <2>1. /\ Closes' = Closes
        /\ \/ main = "closing" /\ main' = "loop" /\ answer' = {"done"}
           \/ main' = "exited" /\ answer' = answer
    BY <1>4 DEF MidiClosed, Answer, Closes
  <2>2. ClosesInv'
    BY <1>2, <2>1 DEF RequestsInv, ClosesInv, Waits, ideVars
  <2>3. main = "closing" => Waits({"reset"})
    BY DEF RequestsInv, ClosesInv
  <2>4. QED
    BY <1>1, <1>2, <2>1, <2>2, <2>3, RequestsElsewhere DEF Waits, ideVars
<1>5. QED
  BY <1>3, <1>4

\* Main takes a request to cancel: if its answer is awaited, no other is in the queue.
LEMMA MainCancels ==
  ASSUME LanesInv, RequestsInv, NEW r, ServeCancel(r) PROVE RequestsInv'
<1>1. /\ Cancels # <<>> /\ r = Head(Cancels) /\ Cancels' = Tail(Cancels)
      /\ UNCHANGED <<Statuses, Closes>> /\ main = "loop"
  BY DEF ServeCancel, Takes, LanesInv, Cancels, Statuses, Closes, KeyNames
<1>2. UNCHANGED <<ideVars, answer>> /\ main' # "closing" /\ serving' \in {serving, {r}}
  BY DEF ServeCancel
<1>3. /\ r \in Requests /\ Cancels' \in Seq(Requests) /\ OfScript(Cancels') /\ OnlyLastAsks(Cancels')
      /\ Asked(Cancels') => Asked(Cancels)
      /\ r.asker = 1 => Asked(Cancels) /\ ~Asked(Cancels')
  <2>1. ~Asked(<<>>)
    BY DEF Asked
  <2>2. QED
    BY <1>1, <2>1, TailOfRequests DEF RequestsInv, QueuesInv
<1>4. QueuesInv'
  BY <1>1, <1>2, <1>3 DEF RequestsInv, QueuesInv, OfScript, OnlyLastAsks, ideVars
<1>5. AskersInv' /\ ClosesInv'
  BY <1>1, <1>2, <1>3 DEF RequestsInv, AskersInv, ClosesInv, Waits, Asked, ServingAsked, ideVars
<1>6. NoneLeftInv'
  BY <1>1, <1>2 DEF RequestsInv, NoneLeftInv, NoneLeft, ideVars
<1>7. QED
  BY <1>4, <1>5, <1>6 DEF RequestsInv

\* The answer to a cancel comes only to the request that is served.
LEMMA MainCancelled ==
  ASSUME LanesInv, RequestsInv, NEW r, CancelDone(r) PROVE RequestsInv'
<1>1. /\ UNCHANGED <<Cancels, Statuses, Closes, ideVars>>
      /\ serving = {r} /\ serving' = {} /\ main' = "loop"
      /\ IF r.asker = 1 THEN answer' \in {{"cancelled"}, {"running"}} ELSE answer' = answer
  BY DEF CancelDone, Answer, Cancels, Statuses, Closes
<1>2. r.asker = 1 => Waits({"cancel", "lastcancel"}) /\ ~Asked(Cancels)
  BY <1>1 DEF RequestsInv, AskersInv, ServingAsked
<1>3. QueuesInv'
  BY <1>1 DEF RequestsInv, QueuesInv, OfScript, OnlyLastAsks, ideVars
<1>4. AskersInv' /\ ClosesInv' /\ NoneLeftInv'
  BY <1>1, <1>2 DEF RequestsInv, AskersInv, ClosesInv, NoneLeftInv, NoneLeft, Waits, Asked,
                    ServingAsked, ideVars
<1>5. QED
  BY <1>3, <1>4 DEF RequestsInv

\* When the status that the IDE waits for is told no request is left: those to cancel are taken
\* first, and this was the last of its queue.
LEMMA MainTellsStatus ==
  ASSUME LanesInv, RequestsInv, NEW r, ServeStatus(r) PROVE RequestsInv'
<1>1. /\ Statuses # <<>> /\ r = Head(Statuses) /\ Statuses' = Tail(Statuses)
      /\ UNCHANGED <<Cancels, Closes>>
  BY DEF ServeStatus, Takes, LanesInv, Cancels, Statuses, Closes, KeyNames
<1>2. Cancels = <<>>
  <2>1. 8 \in DOMAIN Keys /\ 9 \in DOMAIN Keys /\ ServedBefore(8, 9)
    BY KeyOrder DEF ServedBefore
  <2>2. QED
    BY <2>1, KeyOrder DEF ServeStatus, Takes, Cancels
<1>3. /\ UNCHANGED <<ideVars, serving>> /\ main' # "closing"
      /\ answer' = answer \/ r.asker = 1
  BY DEF ServeStatus, Takes, mainVars
<1>4. /\ Statuses' \in Seq(Requests) /\ OfScript(Statuses') /\ OnlyLastAsks(Statuses')
      /\ Asked(Statuses') => Asked(Statuses)
      /\ r.asker = 1 => Asked(Statuses) /\ Statuses' = <<>>
  BY <1>1, TailOfRequests DEF RequestsInv, QueuesInv
<1>5. QueuesInv'
  BY <1>1, <1>3, <1>4 DEF RequestsInv, QueuesInv, OfScript, OnlyLastAsks, ideVars
<1>6. CASE answer' = answer
  <2>1. AskersInv' /\ ClosesInv'
    BY <1>1, <1>3, <1>4, <1>6 DEF RequestsInv, AskersInv, ClosesInv, Waits, Asked, ServingAsked,
                                  ideVars
  <2>2. NoneLeftInv'
    BY <1>1, <1>3, <1>6 DEF RequestsInv, NoneLeftInv, NoneLeft, ideVars
  <2>3. QED
    BY <1>5, <2>1, <2>2 DEF RequestsInv
<1>7. CASE r.asker = 1
  <2>1. Waits({"status"}) /\ ~ServingAsked
    BY <1>4, <1>7 DEF RequestsInv, AskersInv, Waits
  <2>2. ~Asked(<<>>)
    BY DEF Asked
  <2>3. NoneLeft'
    BY <1>1, <1>2, <1>4, <1>7 DEF NoneLeft
  <2>4. AskersInv'
    BY <1>3, <2>1, <2>2, <2>3 DEF AskersInv, NoneLeft, Asked, ServingAsked
  <2>5. ClosesInv'
    BY <1>1, <1>3, <2>1 DEF RequestsInv, ClosesInv, Waits, ideVars
  <2>6. NoneLeftInv'
    BY <2>3 DEF NoneLeftInv
  <2>7. QED
    BY <1>5, <2>4, <2>5, <2>6 DEF RequestsInv
<1>8. QED
  BY <1>3, <1>6, <1>7

\* The other threads make no requests.
LEMMA OthersAside ==
  ASSUME RequestsInv, UNCHANGED <<ideVars, answer, mainlinda, mainVars>> PROVE RequestsInv'
<1>1. UNCHANGED <<Cancels, Statuses, Closes>>
  BY DEF Cancels, Statuses, Closes
<1>2. ClosesInv'
  BY <1>1 DEF RequestsInv, ClosesInv, Waits, ideVars, mainVars
<1>3. QED
  BY <1>1, <1>2, RequestsElsewhere DEF Waits, ideVars, mainVars

\* No request is there at first.
LEMMA RequestsInvInit == Init => RequestsInv
<1> SUFFICES ASSUME Init PROVE RequestsInv
  OBVIOUS
<1>1. mainlinda = [k \in KeyNames |-> <<>>]
  BY KeyOrder DEF Init
<1>2. NoneLeft /\ Closes = <<>> /\ serving = {} /\ main = "loop"
  BY <1>1 DEF Init, NoneLeft, Cancels, Statuses, Closes, KeyNames
<1>3. QED
  BY <1>2 DEF RequestsInv, QueuesInv, AskersInv, ClosesInv, NoneLeftInv, NoneLeft, OfScript,
              OnlyLastAsks, Asked, ServingAsked

\* The requests through all steps.
LEMMA RequestsInvNext == LanesInv /\ RequestsInv /\ [Next]_vars => RequestsInv'
<1> SUFFICES ASSUME LanesInv, RequestsInv, [Next]_vars PROVE RequestsInv'
  OBVIOUS
<1>1. CASE IDEStep
  BY <1>1, IDEToServer, IDEToMidi, IDEToScripts, IDEAsks, IDEWaitsNoMore, IDEGivesUp, IDELeaves
     DEF IDEStep
<1>2. CASE MainStep
  BY <1>2, MainElsewhere, MainClosesMidi, MainCancels, MainCancelled, MainTellsStatus DEF MainStep
<1>3. CASE \E s \in Scripts : ScriptStep(s)
  BY <1>3, OthersAside DEF ScriptStep, StartScript, EndScript, TakeExit
<1>4. CASE \E m \in Midis : OpenDevices(m) \/ MidiFails(m) \/ TakeMidiExit(m)
  BY <1>4, OthersAside DEF OpenDevices, MidiFails, TakeMidiExit
<1>5. CASE UNCHANGED vars
  BY <1>5, OthersAside DEF vars
<1>6. QED
  BY <1>1, <1>2, <1>3, <1>4, <1>5 DEF Next

-----------------------------------------------------------------------------
\* No script is there at first.
LEMMA ScriptInvInit == Init => ScriptInv
<1> SUFFICES ASSUME Init PROVE ScriptInv
  OBVIOUS
<1>1. mainlinda = [k \in KeyNames |-> <<>>]
  BY KeyOrder DEF Init
<1>2. Runs = <<>> /\ mainlinda = [k \in KeyNames |-> mainlinda[k]]
  BY <1>1 DEF Runs, KeyNames
<1>3. LanesInv
  BY <1>2 DEF Init, LanesInv
<1>4. AliveInv
  BY <1>2 DEF Init, AliveInv, AllOver, Closing, Scripts
<1>5. QED
  BY <1>3, <1>4 DEF ScriptInv

\* The scripts through all steps.
LEMMA ScriptInvNext == ScriptInv /\ [Next]_vars => ScriptInv'
<1> SUFFICES ASSUME ScriptInv, [Next]_vars PROVE ScriptInv'
  OBVIOUS
<1>1. CASE IDEStep
  BY <1>1, IDESteps, RunScriptKeeps, StatusAnsweredKeeps
<1>2. CASE MainStep
  BY <1>2, MainAside, ServeScriptRunKeeps, RequestsKeep DEF MainStep
<1>3. CASE \E s \in Scripts : ScriptStep(s)
  BY <1>3, ScriptSteps
<1>4. CASE \E m \in Midis : OpenDevices(m) \/ MidiFails(m) \/ TakeMidiExit(m)
  <2>1. UNCHANGED <<ideVars, answer, mainlinda, script_lane, script>>
    BY <1>4 DEF OpenDevices, MidiFails, TakeMidiExit, scriptVars
  <2>2. QED
    BY <2>1, Aside DEF ideVars, Runs, ScriptInv, LanesInv
<1>5. CASE UNCHANGED vars
  BY <1>5, Aside DEF vars, ideVars, scriptVars, Runs, ScriptInv, LanesInv
<1>6. QED
  BY <1>1, <1>2, <1>3, <1>4, <1>5 DEF Next

\* Two scripts are never alive at once (idescriptrun.lua:76, ide.lua:1224, lua2sc.lua:180): the one
\* before has ended when the IDE is told so, because its status is told after every script that
\* waits has been run.
THEOREM OneScriptLives == Spec => []OneScript
<1>1. ScriptInv => OneScript
  BY DEF ScriptInv, LanesInv, AliveInv, OneScript, Scripts
<1>2. QED
  BY <1>1, ScriptInvInit, ScriptInvNext, PTL DEF Spec
\* A request to cancel a script, or to tell its status, meets the script it was made for
\* (lua2sc.lua:180), whether or not the IDE still waits for its answer.
THEOREM RequestsMeet == Spec => RequestsMeetTheirScript
<1>1. ASSUME ScriptInv, RequestsInv, NEW r \in Served("CancelScript") \cup Served("GetScriptLaneStatus"),
             ServeCancel(r) \/ ServeStatus(r)
      PROVE  r.lane = script_lane
  <2>1. Runs = <<>>
    BY <1>1, TakesLater DEF ServeCancel, ServeStatus
  <2>2. Len(<<>>) = 0
    OBVIOUS
  <2>3. counts["scripts"] = script_lane
    BY <1>1, <2>1, <2>2 DEF ScriptInv, LanesInv
  <2>4. \/ r = Head(Cancels) /\ Cancels # <<>>
        \/ r = Head(Statuses) /\ Statuses # <<>>
    BY <1>1 DEF ServeCancel, ServeStatus, Takes, Cancels, Statuses
  <2>5. r.lane = counts["scripts"]
    BY <1>1, <2>4, TailOfRequests DEF RequestsInv, QueuesInv
  <2>6. QED
    BY <2>3, <2>5
<1>2. ScriptInv /\ RequestsInv /\ [Next]_vars
      => [\A r \in Served("CancelScript") \cup Served("GetScriptLaneStatus") :
             ServeCancel(r) \/ ServeStatus(r) => r.lane = script_lane]_vars
  BY <1>1
<1>3. ScriptInv => LanesInv
  BY DEF ScriptInv
<1>4. QED
  BY <1>2, <1>3, ScriptInvInit, ScriptInvNext, RequestsInvInit, RequestsInvNext, PTL
     DEF Spec, RequestsMeetTheirScript

-----------------------------------------------------------------------------
\* What is in scriptlinda while a script runs was meant for it.
ExitsInv == \A s \in Scripts : script[s] = "running" => script_exit \subseteq {s}

\* scriptlinda through all steps: what a script finds there was sent after it was started.
LEMMA ExitsInvNext == ScriptInv /\ ExitsInv /\ [Next]_vars => ExitsInv'
<1> SUFFICES ASSUME ScriptInv, ExitsInv, [Next]_vars PROVE ExitsInv'
  OBVIOUS
<1>1. CASE ExitScript
  <2>1. ASSUME NEW s \in Scripts, script[s] = "running" PROVE counts["scripts"] = s
    <3>1. s = script_lane /\ Runs = <<>> /\ s \in Nat
      BY <2>1 DEF ScriptInv, LanesInv, AliveInv, Scripts
    <3>2. Len(<<>>) = 0
      OBVIOUS
    <3>3. QED
      BY <3>1, <3>2 DEF ScriptInv, LanesInv
  <2>2. UNCHANGED script /\ script_exit' = script_exit \cup {counts["scripts"]}
    BY <1>1 DEF ExitScript
  <2>3. QED
    BY <2>1, <2>2 DEF ExitsInv
<1>2. CASE \E s \in Scripts : StartScript(s)
  <2>1. script_exit' = {}
    BY <1>2 DEF StartScript
  <2>2. QED
    BY <2>1 DEF ExitsInv
<1>3. ASSUME script_exit' \subseteq script_exit,
             \A s \in Scripts : script'[s] = "running" => script[s] = "running"
      PROVE  ExitsInv'
  BY <1>3 DEF ExitsInv
<1>4. CASE IDEStep /\ ~ExitScript
  <2>1. UNCHANGED scriptVars
    BY <1>4 DEF IDEStep, InitSC, SendSC, QuitSC, ResetMidi, ReopenMidi, RunScript, AskStatus,
                StatusAnswered, AskCancel, CancelAnswered, GiveUp, CloseWindow, LastCancel,
                LastCancelAnswered, LeaveIDE
  <2>2. QED
    BY <1>3, <2>1 DEF scriptVars
<1>5. CASE MainStep
  <2>1. /\ UNCHANGED script_exit
        /\ \/ UNCHANGED script
           \/ script' = [script EXCEPT ![script_lane + 1] = "pending"]
           \/ script' = [script EXCEPT ![script_lane] = "ended"]
    BY <1>5 DEF MainStep, ServeSend, ServeInit, ServeClose, ServeMidiClose, MidiClosed,
                ServeMidiOpen, ServeExit, ServeScriptRun, ServeCancel, CancelDone, ServeStatus,
                scriptVars
  <2>2. QED
    BY <1>3, <2>1 DEF ScriptInv, LanesInv
<1>6. CASE \E s \in Scripts : EndScript(s) \/ \E meant \in script_exit : TakeExit(s, meant)
  <2>1. \E s \in Scripts : script' = [script EXCEPT ![s] = "ended"]
    BY <1>6 DEF EndScript, TakeExit
  <2>2. script_exit' \subseteq script_exit
    BY <1>6 DEF EndScript, TakeExit
  <2>3. QED
    BY <1>3, <2>1, <2>2 DEF ScriptInv, LanesInv
<1>7. CASE UNCHANGED vars \/ \E m \in Midis : OpenDevices(m) \/ MidiFails(m) \/ TakeMidiExit(m)
  <2>1. UNCHANGED scriptVars
    BY <1>7 DEF vars, OpenDevices, MidiFails, TakeMidiExit
  <2>2. QED
    BY <1>3, <2>1 DEF scriptVars
<1>8. QED
  BY <1>1, <1>2, <1>4, <1>5, <1>6, <1>7 DEF Next, ScriptStep

\* A script takes only a "script_exit" that was meant for it (scriptrun.lua:308, :357-361): what
\* was left before it is cleared when it starts.
THEOREM ExitsMeet == Spec => ExitMeetsItsScript
<1>1. Init => ExitsInv
  BY DEF Init, ExitsInv
<1>2. ExitsInv /\ [Next]_vars
      => [\A s \in Scripts, meant \in script_exit : TakeExit(s, meant) => meant = s]_vars
  BY DEF ExitsInv, TakeExit
<1>3. QED
  BY <1>1, <1>2, ExitsInvNext, ScriptInvInit, ScriptInvNext, PTL DEF Spec, ExitMeetsItsScript
-----------------------------------------------------------------------------
(* Types.                                                                  *)

Inits == mainlinda["initsc"]

\* Type correctness asks in parts for more: how often the IDE cancels, that the last lane is one
\* that was made, and that an "exit_midi_thread" or its answer is on its way only while main waits.
IDEType ==
    /\ ide \in {"idle", "reset", "status", "cancel", "closing", "lastcancel", "gone"}
    /\ ideInited \in {0, 1} /\ ideScript \in {0, 1}
    /\ tries \in 0..CancelTries /\ (ide = "lastcancel" => tries < CancelTries)
    /\ counts["inits"] <= MaxInits /\ counts["scripts"] <= MaxScripts
    /\ (ideScript = 1 \/ ide \in {"status", "lastcancel"}) => counts["scripts"] # 0
    /\ script_exit \subseteq Scripts
ServerType == scOpen \in 0..MaxInits /\ Inits \in Seq(1..MaxInits)
LaneType ==
    /\ answer \subseteq {"done", "cancelled", "pending", "running", "ended"}
    /\ script_lane # 0 => script[script_lane] # "none"
MidiType ==
    /\ main \in {"loop", "closing", "cancelling", "exiting", "exited", "dead"}
    /\ midilane \in 0..(MaxResets + 1)
    /\ midi \in [Midis -> {"none", "opening", "looping", "ended", "failed"}]
    /\ <<exits, dones>> \in {<<0, 0>>, <<0, 1>>, <<1, 0>>}
    /\ main \notin {"closing", "exiting"} => exits = 0 /\ dones = 0

\* The state of the IDE keeps its type: only it sets it, and for a script that was run.
LEMMA IDETypeNext == LanesInv /\ IDEType /\ [Next]_vars => IDEType'
<1> SUFFICES ASSUME LanesInv, IDEType, [Next]_vars PROVE IDEType'
  OBVIOUS
<1> USE BoundsAssumption DEF LanesInv, IDEType, Scripts
<1>1. CASE InitSC \/ SendSC \/ QuitSC
  <2>1. /\ UNCHANGED <<ide, ideScript, tries, script_exit>> /\ ideInited' \in {0, 1}
        /\ counts'["scripts"] = counts["scripts"] /\ counts'["inits"] <= MaxInits
    <3>1. CASE InitSC
      BY <1>1, <3>1 DEF InitSC, Count, scriptVars
    <3>2. CASE SendSC
      BY <1>1, <3>2 DEF SendSC, Count, scriptVars
    <3>3. CASE QuitSC
      BY <1>1, <3>3 DEF QuitSC, Count, scriptVars
    <3>4. QED
      BY <1>1, <3>1, <3>2, <3>3
  <2>2. QED
    BY <2>1
<1>2. CASE ResetMidi \/ ReopenMidi
  BY <1>2 DEF ResetMidi, ReopenMidi, Count, scriptVars
<1>3. CASE RunScript
  BY <1>3 DEF RunScript, Count, scriptVars
<1>4. CASE ExitScript
  BY <1>4 DEF ExitScript, ideVars
<1>5. CASE AskStatus \/ StatusAnswered \/ (\E forced \in {0, 1} : AskCancel(forced)) \/ CancelAnswered
  <2>1. /\ UNCHANGED <<ideInited, tries, counts, script_exit>>
        /\ ide' \in {"idle", "status", "cancel"} /\ (ide' = "status" => ideScript = 1)
        /\ \/ ideScript' = ideScript
           \/ ide = "status" /\ ideScript' \in {0, 1}
    BY <1>5 DEF AskStatus, StatusAnswered, AskCancel, CancelAnswered, scriptVars
  <2>2. QED
    BY <2>1
<1>6. CASE GiveUp
  BY SMTT(30), <1>6 DEF GiveUp, scriptVars
<1>7. CASE CloseWindow \/ LastCancel \/ LastCancelAnswered \/ LeaveIDE
  <2>1. CASE CloseWindow \/ LeaveIDE
    BY <2>1 DEF CloseWindow, LeaveIDE, scriptVars
  <2>2. CASE LastCancel
    BY <2>2 DEF LastCancel, scriptVars
  <2>3. CASE LastCancelAnswered
    BY <2>3 DEF LastCancelAnswered, scriptVars
  <2>4. QED
    BY <1>7, <2>1, <2>2, <2>3
<1>8. CASE MainStep
  <2>1. UNCHANGED <<ideVars, script_exit>>
    BY <1>8 DEF MainStep, ServeSend, ServeInit, ServeClose, ServeMidiClose, MidiClosed,
                ServeMidiOpen, ServeExit, ServeScriptRun, ServeCancel, CancelDone, ServeStatus,
                scriptVars
  <2>2. QED
    BY <2>1 DEF ideVars
<1>9. CASE \/ \E s \in Scripts : ScriptStep(s)
           \/ \E m \in Midis : OpenDevices(m) \/ MidiFails(m) \/ TakeMidiExit(m)
           \/ UNCHANGED vars
  <2>1. UNCHANGED ideVars /\ script_exit' \subseteq script_exit
    BY <1>9 DEF ScriptStep, StartScript, EndScript, TakeExit, OpenDevices, MidiFails, TakeMidiExit,
                scriptVars, vars
  <2>2. QED
    BY <2>1 DEF ideVars
<1>10. QED
  BY <1>1, <1>2, <1>3, <1>4, <1>5, <1>6, <1>7, <1>8, <1>9 DEF Next, IDEStep

\* Only the connections that were asked for are opened.
LEMMA ServerTypeNext == LanesInv /\ IDEType /\ ServerType /\ [Next]_vars => ServerType'
<1> SUFFICES ASSUME LanesInv, IDEType, ServerType, [Next]_vars PROVE ServerType'
  OBVIOUS
<1> USE BoundsAssumption DEF ServerType
<1>1. CASE InitSC
  <2>1. counts["inits"] + 1 \in 1..MaxInits
    BY <1>1 DEF InitSC, LanesInv
  <2>2. Inits' = Inits \o <<counts["inits"] + 1>> /\ UNCHANGED scOpen
    BY <1>1 DEF InitSC, Send, LanesInv, Inits, KeyNames, mainVars
  <2>3. QED
    BY <2>1, <2>2
<1>2. CASE \E n : ServeInit(n)
  <2>1. PICK n : ServeInit(n)
    BY <1>2
  <2>2. Inits # <<>> /\ n = Head(Inits) /\ Inits' = Tail(Inits) /\ scOpen' \in {scOpen, 0, n}
    BY <2>1 DEF ServeInit, Takes, LanesInv, Inits, KeyNames
  <2>3. n \in 1..MaxInits /\ Inits' \in Seq(1..MaxInits)
    BY <2>2
  <2>4. QED
    BY <2>2, <2>3
<1>3. CASE UNCHANGED Inits /\ scOpen' \in {scOpen, 0}
  BY <1>3
<1>4. CASE IDEStep /\ ~InitSC
  <2>1. UNCHANGED scOpen
    BY <1>4 DEF IDEStep, SendSC, QuitSC, ResetMidi, ReopenMidi, RunScript, ExitScript, AskStatus,
                StatusAnswered, AskCancel, CancelAnswered, GiveUp, CloseWindow, LastCancel,
                LastCancelAnswered, LeaveIDE, mainVars
  <2>2. CASE SendSC \/ QuitSC \/ ResetMidi \/ ReopenMidi \/ RunScript
    BY <1>3, <2>1, <2>2, SendsAside
       DEF SendSC, QuitSC, QuitMessages, ResetMidi, ReopenMidi, RunScript, Inits, KeyNames
  <2>3. CASE AskStatus \/ LastCancel \/ \E forced \in {0, 1} : AskCancel(forced)
    BY <1>3, <2>1, <2>3 DEF AskStatus, LastCancel, AskCancel, Ask, LanesInv, Inits, KeyNames
  <2>4. CASE GiveUp
    BY <1>3, <2>1, <2>4 DEF GiveUp, LanesInv, Inits, KeyNames
  <2>5. CASE LeaveIDE
    BY <1>3, <2>1, <2>5 DEF LeaveIDE, QuitMessages, LanesInv, Inits, KeyNames
  <2>6. CASE mainlinda' = mainlinda
    BY <1>3, <2>1, <2>6 DEF Inits
  <2>7. QED
    BY <1>4, <2>2, <2>3, <2>4, <2>5, <2>6
       DEF IDEStep, ExitScript, StatusAnswered, CancelAnswered, CloseWindow, LastCancelAnswered
<1>5. CASE MainStep /\ ~\E n : ServeInit(n)
  <2>1. \/ \E k \in KeyNames \ {"initsc"} : \E msg : Takes(k, msg)
        \/ mainlinda' = mainlinda
    BY <1>5 DEF MainStep, ServeSend, ServeClose, ServeMidiClose, MidiClosed, ServeMidiOpen,
                ServeExit, ServeScriptRun, ServeCancel, CancelDone, ServeStatus, KeyNames
  <2>2. UNCHANGED Inits
    BY <2>1, TakesAside DEF Inits, KeyNames
  <2>3. scOpen' \in {scOpen, 0}
    BY <1>5 DEF MainStep, ServeSend, ServeClose, ServeMidiClose, MidiClosed, ServeMidiOpen,
                ServeExit, ServeScriptRun, ServeCancel, CancelDone, ServeStatus, mainVars
  <2>4. QED
    BY <1>3, <2>2, <2>3
<1>6. CASE \/ \E s \in Scripts : ScriptStep(s)
           \/ \E m \in Midis : OpenDevices(m) \/ MidiFails(m) \/ TakeMidiExit(m)
           \/ UNCHANGED vars
  <2>1. UNCHANGED <<mainlinda, mainVars>>
    BY <1>6 DEF ScriptStep, StartScript, EndScript, TakeExit, OpenDevices, MidiFails, TakeMidiExit,
                vars
  <2>2. QED
    BY <1>3, <2>1 DEF Inits, mainVars
<1>7. QED
  BY <1>1, <1>2, <1>4, <1>5, <1>6 DEF Next

\* A lane that main holds was made, so that the status it tells is one of a lane.
LEMMA LaneTypeNext == ScriptInv /\ IDEType /\ LaneType /\ [Next]_vars => LaneType'
<1> SUFFICES ASSUME ScriptInv, IDEType, LaneType, [Next]_vars PROVE LaneType'
  OBVIOUS
<1> USE DEF LaneType
<1>1. CASE UNCHANGED <<script_lane, script>> /\ answer' \in {answer, {}, {"done"}}
  BY <1>1
<1>2. CASE IDEStep
  BY <1>1, <1>2
     DEF IDEStep, InitSC, SendSC, QuitSC, ResetMidi, ReopenMidi, RunScript, ExitScript, AskStatus,
         StatusAnswered, AskCancel, Ask, CancelAnswered, GiveUp, CloseWindow, LastCancel,
         LastCancelAnswered, LeaveIDE, scriptVars
<1>3. CASE ServeScriptRun
  <2>1. Runs = <<1>> /\ Len(<<1>>) = 1
    BY <1>3 DEF ServeScriptRun, Takes, Runs, ScriptInv, LanesInv
  <2>2. script_lane + 1 \in Scripts
    BY <2>1, BoundsAssumption DEF ScriptInv, LanesInv, IDEType, Scripts
  <2>3. QED
    BY <1>3, <2>2 DEF ServeScriptRun, ScriptInv, LanesInv
<1>4. CASE \E r : CancelDone(r)
  BY <1>4 DEF CancelDone, Answer, ScriptInv, LanesInv
<1>5. CASE \E r : ServeStatus(r)
  <2>1. UNCHANGED <<script_lane, script>>
    BY <1>5 DEF ServeStatus, scriptVars
  <2>2. answer' = answer \/ (script_lane # 0 /\ answer' = {script[script_lane]})
    BY <1>5 DEF ServeStatus, Answer
  <2>3. script_lane # 0 => script_lane \in Scripts
    BY BoundsAssumption DEF ScriptInv, LanesInv, IDEType, Scripts
  <2>4. QED
    BY <2>1, <2>2, <2>3 DEF ScriptInv, LanesInv
<1>6. CASE MainStep /\ ~ServeScriptRun /\ ~(\E r : CancelDone(r) \/ ServeStatus(r))
  BY <1>1, <1>6 DEF MainStep, ServeSend, ServeInit, ServeClose, ServeMidiClose, MidiClosed,
                    ServeMidiOpen, ServeExit, ServeCancel, Answer, scriptVars
<1>7. CASE \E s \in Scripts : ScriptStep(s)
  <2>1. /\ \E s \in Scripts, now \in {"running", "ended"} : script' = [script EXCEPT ![s] = now]
        /\ UNCHANGED <<answer, script_lane>>
    BY <1>7 DEF ScriptStep, StartScript, EndScript, TakeExit
  <2>2. QED
    BY <2>1 DEF ScriptInv, LanesInv
<1>8. CASE UNCHANGED vars \/ \E m \in Midis : OpenDevices(m) \/ MidiFails(m) \/ TakeMidiExit(m)
  BY <1>1, <1>8 DEF vars, OpenDevices, MidiFails, TakeMidiExit, scriptVars
<1>9. QED
  BY <1>2, <1>3, <1>4, <1>5, <1>6, <1>7, <1>8 DEF Next

\* The next "exit_midi_thread" is sent only when the one before was taken and answered.
LEMMA MidiTypeNext == MidiType /\ [Next]_vars => MidiType'
<1> SUFFICES ASSUME MidiType, [Next]_vars PROVE MidiType'
  OBVIOUS
<1> USE BoundsAssumption DEF MidiType, Midis
<1>1. CASE IDEStep \/ UNCHANGED vars
  <2>1. UNCHANGED <<main, midiVars>>
    BY <1>1 DEF IDEStep, InitSC, SendSC, QuitSC, ResetMidi, ReopenMidi, RunScript, ExitScript,
                AskStatus, StatusAnswered, AskCancel, CancelAnswered, GiveUp, CloseWindow,
                LastCancel, LastCancelAnswered, LeaveIDE, vars, mainVars
  <2>2. QED
    BY <2>1 DEF midiVars
<1>2. CASE (\E n : ServeSend(n) \/ ServeInit(n) \/ ServeClose(n)) \/ ServeScriptRun
           \/ (\E r : ServeCancel(r) \/ CancelDone(r) \/ ServeStatus(r))
  <2>1. UNCHANGED midiVars /\ main \in {"loop", "cancelling"}
        /\ main' \in {"loop", "dead", "cancelling"}
    BY <1>2 DEF ServeSend, ServeInit, ServeClose, ServeScriptRun, ServeCancel, CancelDone,
                ServeStatus, Takes, mainVars
  <2>2. QED
    BY <2>1 DEF midiVars
<1>3. CASE ServeMidiClose \/ ServeExit
  BY <1>3 DEF ServeMidiClose, ServeExit, MidiClose, Takes
<1>4. CASE MidiClosed
  BY <1>4 DEF MidiClosed
<1>5. CASE ServeMidiOpen
  BY <1>5 DEF ServeMidiOpen, mainVars
<1>6. CASE \E s \in Scripts : ScriptStep(s)
  BY <1>6 DEF ScriptStep, StartScript, EndScript, TakeExit, mainVars, midiVars
<1>7. CASE \E m \in Midis : OpenDevices(m) \/ MidiFails(m) \/ TakeMidiExit(m)
  BY <1>7 DEF OpenDevices, MidiFails, TakeMidiExit, mainVars
<1>8. QED
  BY <1>1, <1>2, <1>3, <1>4, <1>5, <1>6, <1>7 DEF Next, MainStep

\* The types hold at first.
LEMMA TypesInit == Init => IDEType /\ ServerType /\ LaneType /\ MidiType
<1> SUFFICES ASSUME Init PROVE IDEType /\ ServerType /\ LaneType /\ MidiType
  OBVIOUS
<1>1. Inits = <<>>
  BY KeyOrder DEF Init, Inits, KeyNames
<1>2. QED
  BY <1>1, BoundsAssumption DEF Init, IDEType, ServerType, LaneType, MidiType, Midis, Scripts

\* The state keeps its shape; in particular at most one "exit_midi_thread", or its answer, is on
\* its way (lua2sc.lua:136-150).
THEOREM TypeCorrect == Spec => []TypeOK
<1>1. ScriptInv /\ IDEType /\ ServerType /\ LaneType /\ MidiType => TypeOK
  BY SMTT(30), BoundsAssumption
     DEF TypeOK, ScriptInv, LanesInv, IDEType, ServerType, LaneType, MidiType
<1>2. ScriptInv => LanesInv
  BY DEF ScriptInv
<1>3. QED
  BY <1>1, <1>2, TypesInit, IDETypeNext, ServerTypeNext, LaneTypeNext, MidiTypeNext, ScriptInvInit,
     ScriptInvNext, PTL DEF Spec
-----------------------------------------------------------------------------
(* The connection a /quit is for.                                          *)

Sends == mainlinda["sendsc"]

\* Each connection that is open or waits to be has been asked for, and a /quit that waits was sent
\* after the connection it will find.
QuitInv ==
    /\ Sends \in Seq([quit : Nat])
    /\ scOpen <= counts["inits"] /\ \A i \in 1..Len(Inits) : Inits[i] <= counts["inits"]
    /\ \A i \in 1..Len(Sends) : Sends[i].quit # 0 => scOpen <= Sends[i].quit

QuitTypes == LanesInv /\ ServerType

\* The elements of a sequence.
LEMMA Elements ==
  ASSUME NEW S, NEW q \in Seq(S) PROVE Len(q) \in Nat /\ \A i \in 1..Len(q) : q[i] \in S
OBVIOUS

\* A step that touches neither the messages for the server nor the connections.
LEMMA QuitElsewhere ==
  ASSUME QuitInv, UNCHANGED <<Sends, Inits, scOpen>>, counts'["inits"] = counts["inits"]
  PROVE  QuitInv'
BY DEF QuitInv

\* What is appended to the messages for the server.
LEMMA QuitAppended ==
  ASSUME QuitTypes, QuitInv, NEW msg \in {Message, Quit}, Sends' = Sends \o <<msg>>,
         UNCHANGED <<Inits, scOpen>>, counts'["inits"] = counts["inits"]
  PROVE  QuitInv'
<1>1. msg \in [quit : Nat] /\ (msg.quit # 0 => msg.quit = counts["inits"])
  BY DEF Message, Quit, QuitTypes, LanesInv
<1>2. /\ Sends' \in Seq([quit : Nat]) /\ Len(Sends') = Len(Sends) + 1 /\ Len(Sends) \in Nat
      /\ \A i \in 1..Len(Sends) : Sends'[i] = Sends[i]
      /\ Sends'[Len(Sends) + 1] = msg
  BY <1>1 DEF QuitInv
<1>3. \A i \in 1..Len(Sends') : Sends'[i].quit # 0 => scOpen' <= Sends'[i].quit
  BY <1>1, <1>2 DEF QuitInv
<1>4. QED
  BY <1>2, <1>3 DEF QuitInv

\* The IDE sends /quit for the connection it asked for last.
LEMMA QuitInvIDE == QuitTypes /\ QuitInv /\ IDEStep => QuitInv'
<1> SUFFICES ASSUME QuitTypes, QuitInv, IDEStep PROVE QuitInv'
  OBVIOUS
<1> USE DEF QuitTypes
<1>0. UNCHANGED scOpen
  BY DEF IDEStep, InitSC, SendSC, QuitSC, ResetMidi, ReopenMidi, RunScript, ExitScript, AskStatus,
         StatusAnswered, AskCancel, CancelAnswered, GiveUp, CloseWindow, LastCancel,
         LastCancelAnswered, LeaveIDE, mainVars
<1>1. CASE InitSC
  <2>1. counts'["inits"] = counts["inits"] + 1 /\ counts["inits"] \in Nat
    BY <1>1 DEF InitSC, Count, LanesInv
  <2>2. Inits' = Inits \o <<counts["inits"] + 1>> /\ UNCHANGED Sends
    BY <1>1 DEF InitSC, Send, LanesInv, Inits, Sends, KeyNames
  <2>3. /\ Len(Inits') = Len(Inits) + 1 /\ Len(Inits) \in Nat
        /\ \A i \in 1..Len(Inits) : Inits'[i] = Inits[i] /\ Inits[i] \in Nat
        /\ Inits'[Len(Inits) + 1] = counts["inits"] + 1
    <3>0. Inits \in Seq(1..MaxInits)
      BY DEF ServerType
    <3>1. Len(Inits) \in Nat /\ \A i \in 1..Len(Inits) : Inits[i] \in 1..MaxInits
      BY <3>0, Elements, Zenon
    <3>2. Inits \in Seq(Nat)
      BY BoundsAssumption, <3>0, <3>1
    <3>3. QED
      BY <2>1, <2>2, <3>1, <3>2, BoundsAssumption
  <2>4. \A i \in 1..Len(Inits') : Inits'[i] <= counts'["inits"]
    BY <2>1, <2>3 DEF QuitInv
  <2>5. QED
    BY <1>0, <2>1, <2>2, <2>4 DEF QuitInv, ServerType
<1>2. CASE SendSC
  <2>1. Sends' = Sends \o <<Message>> /\ UNCHANGED Inits /\ counts'["inits"] = counts["inits"]
    BY <1>2 DEF SendSC, Send, Count, LanesInv, Inits, Sends, KeyNames
  <2>2. QED
    BY <1>0, <2>1, QuitAppended
<1>3. CASE QuitSC \/ LeaveIDE
  <2>1. /\ Sends' = Sends \o <<Quit>> \/ Sends' = Sends
        /\ UNCHANGED Inits /\ counts'["inits"] = counts["inits"]
    <3>1. counts'["inits"] = counts["inits"]
      BY <1>3 DEF QuitSC, LeaveIDE, Count, LanesInv
    <3>2. PICK msgs : /\ msgs \in {QuitMessages, [closesc |-> <<counts["inits"]>>], [closesc |-> <<>>]}
                      /\ \A k \in {"sendsc", "initsc"} :
                            mainlinda'[k] = IF k \in DOMAIN msgs THEN mainlinda[k] \o msgs[k]
                                            ELSE mainlinda[k]
      <4>1. CASE QuitSC
        BY <4>1 DEF QuitSC, Send, LanesInv, KeyNames
      <4>2. CASE LeaveIDE
        BY <4>2 DEF LeaveIDE, LanesInv, KeyNames
      <4>3. QED
        BY <1>3, <4>1, <4>2
    <3>3. "initsc" \notin DOMAIN msgs /\ ("sendsc" \in DOMAIN msgs => msgs["sendsc"] = <<Quit>>)
      BY <3>2 DEF QuitMessages
    <3>4. QED
      BY <3>1, <3>2, <3>3 DEF Sends, Inits
  <2>2. QED
    BY <1>0, <2>1, QuitAppended, QuitElsewhere
<1>4. CASE ResetMidi \/ ReopenMidi \/ RunScript
  <2>1. UNCHANGED <<Sends, Inits>> /\ counts'["inits"] = counts["inits"]
    <3>1. counts'["inits"] = counts["inits"]
      BY <1>4 DEF ResetMidi, ReopenMidi, RunScript, Count, LanesInv
    <3>2. UNCHANGED <<Sends, Inits>>
      BY <1>4, SendsAside DEF ResetMidi, ReopenMidi, RunScript, Inits, Sends, KeyNames
    <3>3. QED
      BY <3>1, <3>2
  <2>2. QED
    BY <1>0, <2>1, QuitElsewhere
<1>5. CASE AskStatus \/ LastCancel \/ GiveUp \/ \E forced \in {0, 1} : AskCancel(forced)
  <2>1. UNCHANGED <<Sends, Inits, counts>>
    BY <1>5 DEF AskStatus, LastCancel, GiveUp, AskCancel, Ask, LanesInv, Inits, Sends, KeyNames
  <2>2. QED
    BY <1>0, <2>1, QuitElsewhere
<1>6. CASE ExitScript \/ StatusAnswered \/ CancelAnswered \/ CloseWindow \/ LastCancelAnswered
  <2>1. UNCHANGED <<mainlinda, counts>>
    BY <1>6 DEF ExitScript, StatusAnswered, CancelAnswered, CloseWindow, LastCancelAnswered, ideVars
  <2>2. QED
    BY <1>0, <2>1, QuitElsewhere DEF Sends, Inits
<1>7. QED
  BY <1>1, <1>2, <1>3, <1>4, <1>5, <1>6 DEF IDEStep

\* A connection is opened only when no message waits.
LEMMA QuitInvMain == QuitTypes /\ QuitInv /\ MainStep => QuitInv'
<1> SUFFICES ASSUME QuitTypes, QuitInv, MainStep PROVE QuitInv'
  OBVIOUS
<1> USE DEF QuitTypes
<1>0. UNCHANGED counts
  BY DEF MainStep, ServeSend, ServeInit, ServeClose, ServeMidiClose, MidiClosed, ServeMidiOpen,
         ServeExit, ServeScriptRun, ServeCancel, CancelDone, ServeStatus, ideVars
<1>1. CASE \E msg : ServeSend(msg)
  <2>1. Sends # <<>> /\ Sends' = Tail(Sends) /\ UNCHANGED <<Inits, scOpen>>
    BY <1>1 DEF ServeSend, Takes, LanesInv, Inits, Sends, KeyNames, mainVars
  <2>2. /\ Sends' \in Seq([quit : Nat]) /\ Len(Sends') = Len(Sends) - 1 /\ Len(Sends) \in Nat
        /\ \A i \in 1..Len(Sends') : Sends'[i] = Sends[i + 1]
    BY <2>1 DEF QuitInv
  <2>3. QED
    BY <1>0, <2>1, <2>2 DEF QuitInv
<1>2. CASE \E n : ServeInit(n)
  <2>1. PICK n : ServeInit(n)
    BY <1>2
  <2>2. Sends = <<>> /\ Sends' = Sends
    <3>1. 1 \in DOMAIN Keys /\ 2 \in DOMAIN Keys /\ Keys[1] = "sendsc" /\ Keys[2] = "initsc"
          /\ ServedBefore(1, 2)
      BY DEF Keys, ServedBefore
    <3>2. QED
      BY <2>1, <3>1 DEF ServeInit, Takes, LanesInv, Sends, KeyNames
  <2>3. /\ Inits # <<>> /\ n = Inits[1] /\ Inits' = Tail(Inits) /\ scOpen' \in {scOpen, 0, n}
    BY <2>1 DEF ServeInit, Takes, LanesInv, Inits, KeyNames, ServerType
  <2>4. /\ Len(Inits') = Len(Inits) - 1 /\ Len(Inits) \in Nat \ {0}
        /\ \A i \in 1..Len(Inits') : Inits'[i] = Inits[i + 1]
    BY <2>3 DEF ServerType
  <2>5. \A i \in 1..Len(Inits') : Inits'[i] <= counts'["inits"]
    BY <1>0, <2>4 DEF QuitInv
  <2>6. scOpen' <= counts'["inits"]
    BY <1>0, <2>3, <2>4 DEF QuitInv, LanesInv
  <2>7. QED
    BY <2>2, <2>5, <2>6 DEF QuitInv
<1>3. CASE UNCHANGED <<Sends, Inits>> /\ scOpen' \in {scOpen, 0}
  <2>0. \A i \in 1..Len(Sends) : Sends[i] \in [quit : Nat]
    BY Elements, Zenon DEF QuitInv
  <2>1. \A i \in 1..Len(Sends) : Sends[i].quit \in Nat
    BY <2>0
  <2>2. counts["inits"] \in Nat
    BY DEF LanesInv
  <2>3. QED
    BY <1>0, <1>3, <2>1, <2>2 DEF QuitInv
<1>4. CASE ~\E n : ServeSend(n) \/ ServeInit(n)
  <2>1. \/ \E k \in KeyNames \ {"sendsc", "initsc"} : \E msg : Takes(k, msg)
        \/ mainlinda' = mainlinda
    BY <1>4 DEF MainStep, ServeClose, ServeMidiClose, MidiClosed, ServeMidiOpen, ServeExit,
                ServeScriptRun, ServeCancel, CancelDone, ServeStatus, KeyNames
  <2>2. UNCHANGED <<Sends, Inits>>
    BY <2>1, TakesAside DEF Sends, Inits, KeyNames
  <2>3. scOpen' \in {scOpen, 0}
    BY <1>4 DEF MainStep, ServeClose, ServeMidiClose, MidiClosed, ServeMidiOpen, ServeExit,
                ServeScriptRun, ServeCancel, CancelDone, ServeStatus, mainVars
  <2>4. QED
    BY <1>3, <2>2, <2>3
<1>5. QED
  BY <1>1, <1>2, <1>4

\* The connections and their /quit through all steps.
LEMMA QuitInvNext == QuitTypes /\ QuitInv /\ [Next]_vars => QuitInv'
<1> SUFFICES ASSUME QuitTypes, QuitInv, [Next]_vars PROVE QuitInv'
  OBVIOUS
<1>1. CASE IDEStep
  BY <1>1, QuitInvIDE
<1>2. CASE MainStep
  BY <1>2, QuitInvMain
<1>3. CASE \/ \E s \in Scripts : ScriptStep(s)
           \/ \E m \in Midis : OpenDevices(m) \/ MidiFails(m) \/ TakeMidiExit(m)
           \/ UNCHANGED vars
  <2>1. UNCHANGED <<mainlinda, mainVars, ideVars>>
    BY <1>3 DEF ScriptStep, StartScript, EndScript, TakeExit, OpenDevices, MidiFails, TakeMidiExit,
                vars
  <2>2. QED
    BY <2>1, QuitElsewhere DEF Sends, Inits, mainVars, ideVars
<1>4. QED
  BY <1>1, <1>2, <1>3 DEF Next

\* /quit never reaches a connection opened after the one it was sent for, and that one is not
\* closed while it is on its way (ide_server.lua:23-28, bootsc.lua:60-68, lua2sc.lua:180).
THEOREM QuitsMeet == Spec => QuitMeetsItsServer
<1>1. ASSUME QuitInv, NEW msg, ServeSend(msg), msg.quit # 0 PROVE scOpen <= msg.quit
  <2>1. Sends # <<>> /\ msg = Sends[1]
    BY <1>1 DEF ServeSend, Takes, Sends, QuitInv
  <2>2. 1 \in 1..Len(Sends)
    BY <1>1, <2>1 DEF QuitInv
  <2>3. QED
    BY <1>1, <2>1, <2>2 DEF QuitInv
<1>2. ASSUME [Next]_vars, scOpen # 0, scOpen' = 0 PROVE Sends = <<>>
  <2>1. CASE IDEStep
    BY <1>2, <2>1
       DEF IDEStep, InitSC, SendSC, QuitSC, ResetMidi, ReopenMidi, RunScript, ExitScript, AskStatus,
           StatusAnswered, AskCancel, CancelAnswered, GiveUp, CloseWindow, LastCancel,
           LastCancelAnswered, LeaveIDE, mainVars
  <2>2. CASE MainStep
    <3>1. \E n : ServeClose(n)
      BY <1>2, <2>2 DEF MainStep, ServeSend, ServeInit, ServeMidiClose, MidiClosed, ServeMidiOpen,
                        ServeExit, ServeScriptRun, ServeCancel, CancelDone, ServeStatus, mainVars
    <3>2. 1 \in DOMAIN Keys /\ 3 \in DOMAIN Keys /\ Keys[1] = "sendsc" /\ Keys[3] = "closesc"
          /\ ServedBefore(1, 3)
      BY DEF Keys, ServedBefore
    <3>3. QED
      BY <3>1, <3>2 DEF ServeClose, Takes, Sends
  <2>3. CASE \/ \E s \in Scripts : ScriptStep(s)
             \/ \E m \in Midis : OpenDevices(m) \/ MidiFails(m) \/ TakeMidiExit(m)
             \/ UNCHANGED vars
    BY <1>2, <2>3 DEF ScriptStep, StartScript, EndScript, TakeExit, OpenDevices, MidiFails,
                      TakeMidiExit, vars, mainVars
  <2>4. QED
    BY <1>2, <2>1, <2>2, <2>3 DEF Next
<1>3. QuitInv /\ [Next]_vars
      => [/\ \A msg \in Served("sendsc") : ServeSend(msg) /\ msg.quit # 0 => scOpen <= msg.quit
          /\ scOpen # 0 /\ scOpen' = 0 =>
                \A i \in DOMAIN mainlinda.sendsc : mainlinda.sendsc[i].quit # scOpen]_vars
  BY <1>1, <1>2 DEF Sends
<1>4. Init => QuitInv
  <2> SUFFICES ASSUME Init PROVE QuitInv
    OBVIOUS
  <2>1. Sends = <<>> /\ Inits = <<>>
    BY KeyOrder DEF Init, Sends, Inits, KeyNames
  <2>2. QED
    BY <2>1 DEF Init, QuitInv
<1>5. ScriptInv => LanesInv
  BY DEF ScriptInv
<1>6. QED
  BY <1>3, <1>4, <1>5, QuitInvNext, TypesInit, IDETypeNext, ServerTypeNext, ScriptInvInit,
     ScriptInvNext, PTL DEF Spec, QuitMeetsItsServer, QuitTypes
=============================================================================
