----------------------------- MODULE VoicesProofs -----------------------------
(***************************************************************************)
(* Theorems about the voices of an OSC player, for any kind of player, any *)
(* number of nodes, events, jumps and starts. What has happened to a voice *)
(* stays so (HistoryKept), and time goes on for the voices since the last  *)
(* Reset or jump: none begins before Earliest any more. With these, each   *)
(* part of VoicesSound has an invariant of its own.                        *)
(***************************************************************************)
EXTENDS Voices, FiniteSetTheorems, TLAPS

Stages == {"idle", "actions", "free", "play", "schedule"}
Voice ==
    {v \in [begins : Int, ends : Int, string : Nat, warned : BOOLEAN, overtaken : BOOLEAN, told : BOOLEAN] :
        v.ends # Never => v.begins <= v.ends}
Events == [delta : Nat, length : Nat, notes : Seq(Notes) \ {<<>>}]

\* What has happened to a voice stays.
Goes(v, w) ==
    /\ w.begins = v.begins /\ w.string = v.string /\ w.warned = v.warned
    /\ v.told => w.told
    /\ v.overtaken => w.overtaken
    /\ \A t \in Int : Over(v, t) => Over(w, t)
HistoryKept(vs, ws) == \A n \in DOMAIN vs : n \in DOMAIN ws /\ Goes(vs[n], ws[n])

TimesTyped ==
    /\ clock \in Nat /\ oldppq \in Nat /\ ppq \in Nat /\ stage \in Stages
    /\ pos \in Int /\ musPos \in Int
    /\ stage # "idle" => ppq = oldppq + Frame
QueuesTyped ==
    /\ NodeQueue \in Seq(Nat) /\ filters \in Seq(Nat) /\ strings \in [Strings -> Nat]
    /\ pedalqueue \subseteq [node : Nat, freq : Strings]
    /\ pianofreequeue \subseteq [time : Int, node : Nat, freq : Strings]
    /\ nodetimetofree \in [DOMAIN nodetimetofree -> Int]
    /\ \A e \in pianofreequeue : e.node \in DOMAIN nodetimetofree
    /\ OsceventQueue \subseteq [time : Int, node : Nat]
PlayerTyped ==
    /\ kind \in {"plain", "mono", "poly", "polyheld", "voicer", "piano"}
    /\ event \in {NoEvent} \cup Events
    /\ node \in Nat /\ havenode \in BOOLEAN /\ since \in Nat \ {0}
VoicesTyped == TimesTyped /\ QueuesTyped /\ PlayerTyped /\ voices \in Seq(Voice)

\* What the player keeps is nodes, of each one entry, and of ended ones nothing.
NoRepeats(list) == \A i, j \in DOMAIN list : list[i] = list[j] => i = j
NodesKept ==
    /\ node \in Nodes \cup {0} /\ (havenode => node # 0)
    /\ Range(NodeQueue) \cup Range(filters) \subseteq Nodes
    /\ Range(strings) \subseteq Nodes \cup {0}
    /\ NoRepeats(NodeQueue) /\ NoRepeats(filters)
    /\ ~HasPoly => NodeQueue = <<>>
    /\ HasPoly => Range(NodeQueue) \subseteq Range(filters)
    /\ kind = "piano" => Range(strings) \ {0} \subseteq Range(filters)
    /\ \A n \in Nodes : voices[n].told => n \notin Range(filters)

\* A voice has its end, or the player will find it again, but for one that a mono player holds.
Accounted(n) ==
    \/ voices[n].ends # Never
    \/ \E e \in OsceventQueue : e.node = n
    \/ n \in Range(NodeQueue) \cup Range(strings)
    \/ voices[n].warned \/ voices[n].overtaken \/ n \in forgotten
NodesAccounted ==
    \A n \in Nodes : Accounted(n) \/ (kind = "mono" /\ node = n /\ havenode)

\* The earliest time that the next bundle of the player can be executed at.
Offset == IF stage = "idle" THEN clock - ppq ELSE clock - oldppq
Earliest == IF pos + Offset + Latency > clock + Frame THEN pos + Offset + Latency ELSE clock + Frame
Recent == {n \in Nodes : n >= since}

\* The recent voices that a poly player no longer queues are over when another can begin.
PolyKept == HasPoly =>
    /\ Len(NodeQueue) <= Poly
    /\ \A n \in Recent : voices[n].begins <= Earliest /\ (n \in Range(NodeQueue) \/ Over(voices[n], Earliest))

\* And so are those that are no longer the voice of their string.
StringsKept ==
    /\ \A s \in Strings : strings[s] # 0 => voices[strings[s]].string = s
    /\ kind \in {"voicer", "piano"} => \A n \in Recent :
         n \in Range(strings) \/ Over(voices[n], Earliest) \/ voices[n].overtaken \/ n \in forgotten

LEMMA Numbers ==
    /\ Frame \in Nat /\ Frame > 0 /\ Poly \in Nat /\ Poly > 0 /\ Latency \in Nat
    /\ Deltas \subseteq Nat /\ Lengths \subseteq Nat /\ Chords \subseteq Nat \ {0}
    /\ Beats \subseteq Nat /\ Strings \subseteq Nat \ {0}
  BY VoicesAssumption

-----------------------------------------------------------------------------
\* The server: what a bundle does to the voices.
LEMMA GoesOn ==
  /\ \A v \in Voice : Goes(v, v)
  /\ \A u, v, w \in Voice : Goes(u, v) /\ Goes(v, w) => Goes(u, w)
  BY DEF Goes

LEMMA HistoryGoesOn ==
  ASSUME NEW us \in Seq(Voice), NEW vs \in Seq(Voice), NEW ws \in Seq(Voice),
         HistoryKept(us, vs), HistoryKept(vs, ws)
  PROVE  HistoryKept(us, ws)
<1>1. \A n \in DOMAIN us : us[n] \in Voice
  OBVIOUS
<1>2. \A n \in DOMAIN vs : vs[n] \in Voice
  OBVIOUS
<1>3. \A n \in DOMAIN ws : ws[n] \in Voice
  OBVIOUS
<1>4. QED
  BY <1>1, <1>2, <1>3, GoesOn DEF HistoryKept

\* A node's gate is closed: at once, or, if it is not there yet, not at all.
LEMMA EndedVoices ==
  ASSUME NEW vs \in Seq(Voice), NEW nodes, NEW at \in Nat
  PROVE  LET ws == Ended(vs, nodes, at)
         IN  /\ ws \in Seq(Voice) /\ DOMAIN ws = DOMAIN vs /\ Len(ws) = Len(vs)
             /\ HistoryKept(vs, ws)
             /\ \A n \in DOMAIN vs : ws[n].told = vs[n].told
             /\ \A n \in DOMAIN vs : n \in nodes =>
                   /\ Over(ws[n], at) \/ ws[n].overtaken
                   /\ vs[n].begins <= at => Over(ws[n], at)
<1> DEFINE ws == Ended(vs, nodes, at)
<1>1. ASSUME NEW n \in DOMAIN vs
      PROVE  /\ ws[n] \in Voice /\ Goes(vs[n], ws[n]) /\ ws[n].told = vs[n].told
             /\ n \in nodes => /\ Over(ws[n], at) \/ ws[n].overtaken
                               /\ vs[n].begins <= at => Over(ws[n], at)
  <2>0. vs[n] \in Voice
    OBVIOUS
  <2>1. ws[n] = IF n \notin nodes \/ Over(vs[n], at) THEN vs[n]
                ELSE IF vs[n].begins > at THEN [vs[n] EXCEPT !.overtaken = TRUE]
                ELSE [vs[n] EXCEPT !.ends = at]
    BY DEF Ended
  <2>2. CASE n \notin nodes \/ Over(vs[n], at)
    BY <2>0, <2>1, <2>2, GoesOn
  <2>3. CASE ~(n \notin nodes \/ Over(vs[n], at)) /\ vs[n].begins > at
    <3>1. ws[n] = [vs[n] EXCEPT !.overtaken = TRUE]
      BY <2>1, <2>3
    <3>2. ws[n] \in Voice /\ ws[n].overtaken /\ ws[n].told = vs[n].told
      BY <2>0, <3>1 DEF Voice
    <3>3. Goes(vs[n], ws[n])
      BY <2>0, <3>1 DEF Voice, Goes, Over
    <3>4. QED
      BY <2>3, <3>2, <3>3, <2>0 DEF Voice
  <2>4. CASE ~(n \notin nodes \/ Over(vs[n], at)) /\ ~(vs[n].begins > at)
    <3>1. ws[n] = [vs[n] EXCEPT !.ends = at]
      BY <2>1, <2>4
    <3>2. ws[n] \in Voice /\ Over(ws[n], at) /\ ws[n].told = vs[n].told
      <4>1. at \in Int /\ at # Never /\ vs[n].begins <= at
        BY <2>0, <2>4 DEF Never, Voice
      <4>2. /\ ws[n] \in [begins : Int, ends : Int, string : Nat, warned : BOOLEAN, overtaken : BOOLEAN, told : BOOLEAN]
            /\ ws[n].ends = at /\ ws[n].begins = vs[n].begins /\ ws[n].told = vs[n].told
        BY <2>0, <3>1, <4>1 DEF Voice
      <4>3. QED
        BY <4>1, <4>2 DEF Voice, Over
    <3>3. Goes(vs[n], ws[n])
      BY <2>0, <2>4, <3>1 DEF Voice, Goes, Over, Never
    <3>4. QED
      BY <3>2, <3>3
  <2>5. QED
    BY <2>2, <2>3, <2>4
<1>2. ws = [n \in 1..Len(vs) |-> ws[n]] /\ Len(vs) \in Nat
  BY DEF Ended
<1>3. ws \in Seq(Voice) /\ Len(ws) = Len(vs) /\ DOMAIN ws = DOMAIN vs
  <2>1. \A n \in 1..Len(vs) : ws[n] \in Voice
    BY <1>1
  <2> HIDE DEF ws
  <2>2. QED
    BY <1>2, <2>1
<1>4. QED
  BY <1>1, <1>3 DEF HistoryKept

\* The group of instruments is emptied: of what has begun nothing is left, and that is all.
LEMMA EmptiedVoices ==
  ASSUME NEW vs \in Seq(Voice), NEW at \in Nat
  PROVE  LET ws == Emptied(vs, at)
         IN  /\ ws \in Seq(Voice) /\ DOMAIN ws = DOMAIN vs /\ Len(ws) = Len(vs)
             /\ HistoryKept(vs, ws)
             /\ \A n \in DOMAIN vs : ws[n].told = vs[n].told
  BY EndedVoices DEF Emptied

\* A voice is added.
LEMMA AddedVoice ==
  ASSUME NEW vs \in Seq(Voice), NEW new \in Voice
  PROVE  LET ws == Append(vs, new)
             n == Len(vs) + 1
         IN  /\ ws \in Seq(Voice) /\ Len(ws) = n /\ DOMAIN ws = DOMAIN vs \cup {n} /\ n \notin DOMAIN vs
             /\ HistoryKept(vs, ws)
             /\ ws[n] = new /\ \A m \in DOMAIN vs : ws[m] = vs[m]
<1> DEFINE ws == Append(vs, new)
           n == Len(vs) + 1
<1>1. /\ ws \in Seq(Voice) /\ Len(ws) = n /\ DOMAIN ws = DOMAIN vs \cup {n} /\ n \notin DOMAIN vs
      /\ ws[n] = new /\ \A m \in DOMAIN vs : ws[m] = vs[m]
  OBVIOUS
<1>2. \A m \in DOMAIN vs : vs[m] \in Voice
  OBVIOUS
<1>3. QED
  BY <1>1, <1>2, GoesOn DEF HistoryKept

\* No bundle is executed before the period that follows.
LEMMA ExecutedLater ==
  ASSUME VoicesTyped
  PROVE  /\ clock + Frame \in Nat
         /\ \A t \in Int : Executed(t) \in Nat /\ Executed(t) >= clock + Frame
         /\ \A t, u \in Int : t <= u => Executed(t) <= Executed(u)
         /\ \A b \in Int : ppq2time(b) \in Int
         /\ now_secs \in Nat
  BY Numbers DEF VoicesTyped, TimesTyped, Executed, now_secs, ppq2time

\* Reset ends what it finds, keeps what has happened and begins a new count.
LEMMA ResetVoices ==
  ASSUME VoicesTyped, NEW beat, Reset(beat)
  PROVE  /\ voices' \in Seq(Voice) /\ Len(voices') = Len(voices) /\ DOMAIN voices' = DOMAIN voices
         /\ HistoryKept(voices, voices')
         /\ \A n \in DOMAIN voices : voices'[n].told = voices[n].told
         /\ since' = Len(voices) + 1
         /\ \A n \in DOMAIN voices :
               n \in ReleasedNodes \/ (HasPoly /\ n \in Range(NodeQueue)) \/ (kind = "voicer" /\ n \in Range(strings))
                  => voices'[n].ends # Never \/ voices'[n].overtaken
<1> DEFINE freed == CASE HasPoly -> Range(NodeQueue)
                      [] kind = "voicer" -> {strings[s] : s \in Strings} \ {0}
                      [] OTHER -> {}
           at == Executed(ppq2time(pos))
           vs == Ended(voices, ReleasedNodes \cup freed, at)
<1>1. voices \in Seq(Voice) /\ at \in Nat /\ now_secs \in Nat
  BY ExecutedLater DEF VoicesTyped, TimesTyped
<1>2. voices' = Emptied(vs, now_secs) /\ since' = Len(voices) + 1
  BY DEF Reset
<1>3. /\ vs \in Seq(Voice) /\ DOMAIN vs = DOMAIN voices /\ Len(vs) = Len(voices) /\ HistoryKept(voices, vs)
      /\ \A n \in DOMAIN voices : vs[n].told = voices[n].told
      /\ \A n \in DOMAIN voices : n \in ReleasedNodes \cup freed => Over(vs[n], at) \/ vs[n].overtaken
  <2> HIDE DEF freed, at
  <2>1. QED
    BY <1>1, EndedVoices
<1> HIDE DEF vs
<1>4. /\ voices' \in Seq(Voice) /\ DOMAIN voices' = DOMAIN vs /\ Len(voices') = Len(vs) /\ HistoryKept(vs, voices')
      /\ \A n \in DOMAIN vs : voices'[n].told = vs[n].told
  BY <1>1, <1>2, <1>3, EmptiedVoices
<1>5. HistoryKept(voices, voices')
  BY <1>1, <1>3, <1>4, HistoryGoesOn
<1>6. ASSUME NEW n \in DOMAIN voices,
             n \in ReleasedNodes \/ (HasPoly /\ n \in Range(NodeQueue)) \/ (kind = "voicer" /\ n \in Range(strings))
      PROVE  voices'[n].ends # Never \/ voices'[n].overtaken
  <2>1. n \in ReleasedNodes \cup freed
    <3>1. n # 0
      BY <1>1
    <3>2. kind = "voicer" => ~HasPoly
      BY DEF HasPoly
    <3>3. DOMAIN strings = Strings
      BY DEF VoicesTyped, QueuesTyped
    <3>4. CASE n \in ReleasedNodes
      BY <3>4
    <3>5. CASE HasPoly /\ n \in Range(NodeQueue)
      BY <3>2, <3>5
    <3>6. CASE kind = "voicer" /\ n \in Range(strings)
      BY <3>1, <3>2, <3>3, <3>6 DEF Range
    <3>7. QED
      BY <1>6, <3>4, <3>5, <3>6
  <2> HIDE DEF freed
  <2>2. Over(vs[n], at) \/ vs[n].overtaken
    BY <1>3, <2>1
  <2>3. Goes(vs[n], voices'[n])
    BY <1>3, <1>4 DEF HistoryKept
  <2>4. at \in Int
    BY <1>1
  <2> HIDE DEF at
  <2>5. QED
    BY <2>2, <2>3, <2>4 DEF Goes, Over
<1>7. QED
  BY <1>2, <1>3, <1>4, <1>5, <1>6

\* A note may start a voice, at the earliest time there can be; a poly player ends its oldest for it.
LEMMA StartVoiceVoices ==
  ASSUME VoicesTyped, NEW string \in Nat, NEW warned \in BOOLEAN, StartVoice(string, warned)
  PROVE  /\ voices' \in Seq(Voice) /\ Len(voices') = NewNode /\ DOMAIN voices' = DOMAIN voices \cup {NewNode}
         /\ NewNode \notin DOMAIN voices
         /\ HistoryKept(voices, voices')
         /\ \A n \in DOMAIN voices : voices'[n].told = voices[n].told
         /\ voices'[NewNode].begins = Executed(ppq2time(pos)) /\ voices'[NewNode].string = string
         /\ voices'[NewNode].warned = warned /\ ~voices'[NewNode].told
         /\ HasPoly => \A n \in DOMAIN voices : n \in Stolen(Append(NodeQueue, NewNode)) =>
               /\ Over(voices'[n], Executed(ppq2time(pos))) \/ voices'[n].overtaken
               /\ voices[n].begins <= Executed(ppq2time(pos)) => Over(voices'[n], Executed(ppq2time(pos)))
<1> DEFINE at == Executed(ppq2time(pos))
           old == Stolen(Append(NodeQueue, NewNode))
           vs == IF HasPoly THEN Ended(voices, old, at) ELSE voices
<1>1. voices \in Seq(Voice) /\ at \in Nat
  BY ExecutedLater DEF VoicesTyped, TimesTyped
<1>2. voices' = Started(vs, ppq2time(pos), string, warned)
  BY DEF StartVoice
<1>3. /\ vs \in Seq(Voice) /\ DOMAIN vs = DOMAIN voices /\ Len(vs) = Len(voices) /\ HistoryKept(voices, vs)
      /\ \A n \in DOMAIN voices : vs[n].told = voices[n].told
      /\ HasPoly => \A n \in DOMAIN voices : n \in old =>
            (Over(vs[n], at) \/ vs[n].overtaken) /\ (voices[n].begins <= at => Over(vs[n], at))
  <2> HIDE DEF at, old
  <2>1. CASE HasPoly
    BY <1>1, <2>1, EndedVoices
  <2>2. CASE ~HasPoly
    <3>1. vs = voices /\ \A n \in DOMAIN voices : voices[n] \in Voice
      BY <1>1, <2>2
    <3>2. QED
      BY <1>1, <2>2, <3>1, GoesOn DEF HistoryKept
  <2>3. QED
    BY <2>1, <2>2
<1> HIDE DEF vs
<1> DEFINE new == [begins |-> at, ends |-> Never, string |-> string,
                   warned |-> warned, overtaken |-> FALSE, told |-> FALSE]
<1>4. /\ voices' \in Seq(Voice) /\ Len(voices') = Len(vs) + 1 /\ DOMAIN voices' = DOMAIN vs \cup {Len(vs) + 1}
      /\ Len(vs) + 1 \notin DOMAIN vs /\ HistoryKept(vs, voices')
      /\ voices'[Len(vs) + 1] = new /\ \A m \in DOMAIN vs : voices'[m] = vs[m]
  <2>1. new \in Voice
    <3> HIDE DEF at
    <3>1. QED
      BY <1>1 DEF Voice, Never
  <2>2. voices' = Append(vs, new)
    BY <1>2 DEF Started
  <2> HIDE DEF new
  <2>3. QED
    BY <1>3, <2>1, <2>2, AddedVoice
<1>5. HistoryKept(voices, voices')
  BY <1>1, <1>3, <1>4, HistoryGoesOn
<1>6. NewNode = Len(vs) + 1
  BY <1>3 DEF NewNode
<1> HIDE DEF at, old
<1>7. QED
  BY <1>3, <1>4, <1>5, <1>6 DEF at, old, new

\* The note that is played is one of those its player reads.
LEMMA NoteTyped ==
  ASSUME VoicesTyped, event # NoEvent
  PROVE  LET note == Head(event.notes)
         IN  /\ event \in Events /\ note \in Notes
             /\ note.rest \in BOOLEAN /\ note.set \in BOOLEAN /\ note.string \in Nat
             /\ kind \in {"voicer", "piano"} => note.string \in Strings
             /\ kind \notin {"plain", "mono"} => ~note.set
             /\ Len(event.notes) > 1 => Tail(event.notes) \in Seq(Notes) \ {<<>>}
<1> DEFINE note == Head(event.notes)
           T == Notes
<1>1. event \in Events
  BY DEF VoicesTyped, PlayerTyped
<1>2. event.notes \in Seq(T) /\ event.notes # <<>>
  BY <1>1 DEF Events
<1>3. note \in T /\ (Len(event.notes) > 1 => Tail(event.notes) \in Seq(T) \ {<<>>})
  <2> DEFINE s == event.notes
  <2> HIDE DEF T, s
  <2>1. s \in Seq(T) /\ s # <<>>
    BY <1>2 DEF s
  <2>2. Head(s) \in T
    BY <2>1
  <2>3. Tail(s) \in Seq(T) /\ Len(Tail(s)) = Len(s) - 1 /\ Len(s) \in Nat
    BY <2>1
  <2>4. Len(s) > 1 => Tail(s) # <<>>
    <3> DEFINE rest == Tail(s)
    <3>1. Len(rest) = Len(s) - 1 /\ Len(s) \in Nat
      BY <2>3
    <3> HIDE DEF rest
    <3>2. Len(s) > 1 => rest # <<>>
      BY <3>1
    <3>3. QED
      BY <3>2 DEF rest
  <2>5. QED
    BY <2>2, <2>3, <2>4 DEF s
<1>4. note \in Notes
  BY <1>3
<1>5. /\ note.rest \in BOOLEAN /\ note.set \in BOOLEAN /\ (kind \notin {"plain", "mono"} => note.set \in {FALSE})
      /\ note.string \in (IF kind \in {"voicer", "piano"} THEN Strings ELSE {NoString})
  <2> HIDE DEF note
  <2>1. /\ note.rest \in BOOLEAN
        /\ note.set \in (IF kind \in {"plain", "mono"} THEN BOOLEAN ELSE {FALSE})
        /\ note.string \in (IF kind \in {"voicer", "piano"} THEN Strings ELSE {NoString})
    BY <1>4 DEF Notes
  <2>2. QED
    BY <2>1
<1> HIDE DEF note
<1>6. note.string \in Nat
  <2>1. CASE kind \in {"voicer", "piano"}
    <3>1. note.string \in Strings
      BY <1>5, <2>1
    <3>2. QED
      BY <3>1, Numbers
  <2>2. CASE kind \notin {"voicer", "piano"}
    BY <1>5, <2>2 DEF NoString
  <2>3. QED
    BY <2>1, <2>2
<1>7. /\ kind \in {"voicer", "piano"} => note.string \in Strings
      /\ kind \notin {"plain", "mono"} => ~note.set
  BY <1>5
<1>8. QED
  BY <1>1, <1>3, <1>4, <1>5, <1>6, <1>7 DEF note

\* A report of an ended node is noted.
LEMMA ToldVoices ==
  ASSUME VoicesTyped, NEW n \in DOMAIN voices, NodeEnds(n)
  PROVE  /\ voices' \in Seq(Voice) /\ Len(voices') = Len(voices) /\ DOMAIN voices' = DOMAIN voices
         /\ HistoryKept(voices, voices')
         /\ voices'[n].told /\ Over(voices'[n], clock)
         /\ \A m \in DOMAIN voices : m # n => voices'[m] = voices[m]
<1> DEFINE v == voices[n]
           w == [v EXCEPT !.told = TRUE, !.ends = IF Over(v, clock) THEN @ ELSE clock]
<1>1. voices \in Seq(Voice) /\ clock \in Nat /\ v \in Voice /\ v.begins <= clock
  BY DEF VoicesTyped, TimesTyped, NodeEnds
<1>2. voices' = [voices EXCEPT ![n] = w]
  BY DEF NodeEnds
<1>3. w \in Voice /\ Goes(v, w) /\ w.told /\ Over(w, clock)
  <2>1. CASE Over(v, clock)
    <3>1. w = [v EXCEPT !.told = TRUE]
      BY <1>1, <2>1 DEF Voice
    <3>2. QED
      BY <1>1, <2>1, <3>1 DEF Voice, Goes, Over
  <2>2. CASE ~Over(v, clock)
    <3>1. w = [v EXCEPT !.told = TRUE, !.ends = clock]
      BY <2>2
    <3>2. clock \in Int /\ clock # Never
      BY <1>1 DEF Never
    <3>3. /\ w \in [begins : Int, ends : Int, string : Nat, warned : BOOLEAN, overtaken : BOOLEAN, told : BOOLEAN]
          /\ w.ends = clock /\ w.begins = v.begins /\ w.string = v.string /\ w.told
          /\ w.warned = v.warned /\ w.overtaken = v.overtaken
      BY <1>1, <3>1, <3>2 DEF Voice
    <3> HIDE DEF w
    <3>4. w \in Voice /\ Over(w, clock)
      BY <1>1, <3>2, <3>3 DEF Voice, Over
    <3>5. \A t \in Int : Over(v, t) => Over(w, t)
      BY <1>1, <2>2, <3>2, <3>3 DEF Over, Voice
    <3>6. QED
      BY <3>3, <3>4, <3>5 DEF Goes
  <2>3. QED
    BY <2>1, <2>2
<1> HIDE DEF w
<1>4. /\ voices' \in Seq(Voice) /\ Len(voices') = Len(voices) /\ DOMAIN voices' = DOMAIN voices
      /\ voices'[n] = w /\ \A m \in DOMAIN voices : m # n => voices'[m] = voices[m]
  BY <1>1, <1>2, <1>3
<1>5. \A m \in DOMAIN voices : voices[m] \in Voice
  BY <1>1
<1>6. HistoryKept(voices, voices')
  BY <1>3, <1>4, <1>5, GoesOn DEF HistoryKept
<1>7. QED
  BY <1>3, <1>4, <1>6

\* How a note changes the voices: it ends some, or starts one.
LEMMA NoteVoices ==
  ASSUME VoicesTyped, PlayNote
  PROVE  \/ UNCHANGED <<voices, NodeQueue, filters>>
         \/ (\E nodes : \E at \in Nat : voices' = Ended(voices, nodes, at)) /\ UNCHANGED <<NodeQueue, filters>>
         \/ \E string \in Nat, warned \in BOOLEAN : StartVoice(string, warned)
<1> DEFINE note == Head(event.notes)
           at == Executed(ppq2time(pos))
<1>1. event # NoEvent
  BY DEF PlayNote
<1>2. /\ note.rest \in BOOLEAN /\ note.set \in BOOLEAN /\ note.string \in Nat /\ at \in Nat
  BY <1>1, NoteTyped, ExecutedLater DEF VoicesTyped, TimesTyped
<1>3. CASE kind = "voicer"
  <2>1. PlayVoicerNote(note)
    BY <1>3 DEF PlayNote
  <2> HIDE DEF note
  <2>2. QED
    BY <1>2, <2>1 DEF PlayVoicerNote
<1>4. CASE kind = "piano"
  <2>1. PlayPianoNote(note)
    BY <1>4 DEF PlayNote
  <2> HIDE DEF note
  <2>2. QED
    BY <1>2, <2>1 DEF PlayPianoNote
<1>5. CASE kind # "voicer" /\ kind # "piano"
  <2>1. PlayOscNote(note)
    BY <1>5 DEF PlayNote
  <2> HIDE DEF note
  <2> DEFINE set == note.set \/ (kind = "mono" /\ havenode)
  <2>2. set \in BOOLEAN
    OBVIOUS
  <2>3. CASE note.rest
    BY <1>2, <2>1, <2>3 DEF PlayOscNote
  <2>4. CASE ~note.rest
    <3>1. IF set /\ node # 0 THEN UNCHANGED <<voices, NodeQueue, filters, node>>
          ELSE StartVoice(note.string, set) /\ node' = NewNode
      BY <2>1, <2>4 DEF PlayOscNote
    <3> HIDE DEF set
    <3>2. QED
      BY <1>2, <2>2, <3>1
  <2>5. QED
    BY <1>2, <2>3, <2>4
<1>6. QED
  BY <1>3, <1>4, <1>5

\* What has happened to a voice stays, whatever the player and the server do.
LEMMA StepKeepsHistory ==
  ASSUME VoicesTyped, VoicesNext
  PROVE  /\ voices' \in Seq(Voice) /\ HistoryKept(voices, voices')
         /\ Len(voices') >= Len(voices) /\ DOMAIN voices \subseteq DOMAIN voices'
         /\ \A n \in DOMAIN voices' : voices'[n].told =>
               n \in DOMAIN voices /\ (voices[n].told \/ NodeEnds(n))
<1>0. voices \in Seq(Voice) /\ Len(voices) \in Nat /\ DOMAIN voices = 1..Len(voices)
      /\ pos \in Int /\ Executed(ppq2time(pos)) \in Nat
  <2>1. voices \in Seq(Voice) /\ pos \in Int
    BY DEF VoicesTyped, TimesTyped
  <2>2. Executed(ppq2time(pos)) \in Nat
    BY <2>1, ExecutedLater
  <2>3. QED
    BY <2>1, <2>2
<1> DEFINE Kept == /\ voices' \in Seq(Voice) /\ HistoryKept(voices, voices')
                   /\ Len(voices') >= Len(voices) /\ DOMAIN voices \subseteq DOMAIN voices'
                   /\ \A n \in DOMAIN voices' : voices'[n].told =>
                         n \in DOMAIN voices /\ (voices[n].told \/ NodeEnds(n))
<1>1. CASE UNCHANGED voices
  <2>1. \A n \in DOMAIN voices : voices[n] \in Voice
    BY <1>0
  <2>2. QED
    BY <1>0, <1>1, <2>1, GoesOn DEF HistoryKept
<1>2. ASSUME NEW nodes, NEW at \in Nat, voices' = Ended(voices, nodes, at)
      PROVE  Kept
  BY <1>0, <1>2, EndedVoices
<1>3. ASSUME NEW beat, Reset(beat) PROVE Kept
  BY <1>0, <1>3, ResetVoices
<1>4. ASSUME NEW n \in DOMAIN voices, NodeEnds(n) PROVE Kept
  BY <1>0, <1>4, ToldVoices
<1>5. CASE PlayNote
  <2>1. ASSUME NEW string \in Nat, NEW warned \in BOOLEAN, StartVoice(string, warned) PROVE Kept
    <3>1. /\ Len(voices') = Len(voices) + 1 /\ DOMAIN voices' = DOMAIN voices \cup {Len(voices) + 1}
          /\ voices' \in Seq(Voice) /\ HistoryKept(voices, voices')
          /\ \A n \in DOMAIN voices : voices'[n].told = voices[n].told
          /\ ~voices'[Len(voices) + 1].told
      BY <2>1, StartVoiceVoices DEF NewNode
    <3>2. \A n \in DOMAIN voices' : voices'[n].told =>
             n \in DOMAIN voices /\ (voices[n].told \/ NodeEnds(n))
      <4> SUFFICES ASSUME NEW n \in DOMAIN voices', voices'[n].told PROVE n \in DOMAIN voices /\ voices[n].told
        OBVIOUS
      <4>1. n \in DOMAIN voices \/ n = Len(voices) + 1
        BY <3>1
      <4>2. QED
        BY <3>1, <4>1, Zenon
    <3>3. Len(voices') >= Len(voices) /\ DOMAIN voices \subseteq DOMAIN voices'
      BY <1>0, <3>1
    <3>4. QED
      BY <3>1, <3>2, <3>3
  <2> HIDE DEF Kept
  <2>2. QED
    BY <1>1, <1>2, <1>5, <2>1, NoteVoices DEF Kept
<1>6. ASSUME NEW beat \in Int, StartPlayer(beat) \/ StopPlayer(beat) PROVE Kept
  <2>1. CASE StartPlayer(beat)
    BY <1>3, <2>1 DEF StartPlayer
  <2>2. CASE StopPlayer(beat)
    <3>1. Executed(ppq2time(beat)) \in Nat
      BY ExecutedLater
    <3>2. QED
      BY <1>2, <2>2, <3>1 DEF StopPlayer
  <2>3. QED
    BY <1>6, <2>1, <2>2
<1>7. CASE BeginFrame \/ StreamEnds
  BY <1>1, <1>3, <1>7 DEF BeginFrame, StreamEnds
<1>8. ASSUME NEW e \in pianofreequeue, FreeOne(e) PROVE Kept
  <2>1. e.node \in DOMAIN nodetimetofree /\ nodetimetofree[e.node] \in Int
    BY DEF VoicesTyped, QueuesTyped
  <2>2. Executed(ppq2time(nodetimetofree[e.node])) \in Nat
    BY <2>1, ExecutedLater
  <2>3. QED
    BY <1>1, <1>2, <1>8, <2>2 DEF FreeOne
<1>9. CASE FreeRest
  BY <1>0, <1>1, <1>2, <1>9 DEF FreeRest
<1>10. ASSUME NEW e \in OsceventQueue, SendScheduled(e) PROVE Kept
  <2>1. e.time \in Int
    BY DEF VoicesTyped, QueuesTyped
  <2>2. Executed(IF e.time < oldppq THEN now_secs ELSE ppq2time(e.time)) \in Nat
    BY <2>1, ExecutedLater
  <2>3. QED
    BY <1>2, <1>10, <2>2 DEF SendScheduled
<1>11. CASE \/ \E beat \in Beats : Jump(beat)
            \/ \E delta \in Deltas, length \in Lengths : TakeEvent(delta, length)
            \/ BeginTurn \/ EndTurn \/ EndFrame
  BY <1>1, <1>11 DEF Jump, TakeEvent, BeginTurn, EndTurn, EndFrame
<1>12. (oldppq + 1)..ppq \subseteq Int
  BY DEF VoicesTyped, TimesTyped
<1> HIDE DEF Kept
<1>13. Kept
  <2>1. CASE \E beat \in (oldppq + 1)..ppq : StartPlayer(beat) \/ StopPlayer(beat)
    <3>1. PICK beat \in (oldppq + 1)..ppq : StartPlayer(beat) \/ StopPlayer(beat)
      BY <2>1
    <3>2. beat \in Int
      BY <1>12
    <3>3. QED
      BY <1>6, <3>1, <3>2
  <2>2. CASE \E n \in DOMAIN voices : NodeEnds(n)
    BY <1>4, <2>2
  <2>3. CASE \E e \in pianofreequeue : FreeOne(e)
    BY <1>8, <2>3
  <2>4. CASE \E e \in OsceventQueue : SendScheduled(e)
    BY <1>10, <2>4
  <2>5. CASE \E beat \in Beats : Jump(beat)
    BY <1>11, <2>5 DEF Kept
  <2>6. CASE \E delta \in Deltas, length \in Lengths : TakeEvent(delta, length)
    BY <1>11, <2>6 DEF Kept
  <2>7. QED
    BY <1>5, <1>7, <1>9, <1>11, <2>1, <2>2, <2>3, <2>4, <2>5, <2>6 DEF VoicesNext, Kept
<1>14. QED
  BY <1>13 DEF Kept

-----------------------------------------------------------------------------
\* The lists of nodes: one entry is taken out.
LEMMA Removed ==
  ASSUME NEW list \in Seq(Nat), NoRepeats(list), NEW i \in DOMAIN list
  PROVE  LET rest == table_remove(list, i)
         IN  /\ rest \in Seq(Nat) /\ Len(rest) = Len(list) - 1
             /\ NoRepeats(rest) /\ Range(rest) = Range(list) \ {list[i]}
<1> DEFINE rest == table_remove(list, i)
<1>1. /\ Len(list) \in Nat /\ DOMAIN list = 1..Len(list) /\ i \in 1..Len(list)
      /\ \A k \in 1..Len(list) : list[k] \in Nat
  OBVIOUS
<1>2. rest = [k \in 1..(Len(list) - 1) |-> IF k < i THEN list[k] ELSE list[k + 1]]
  BY DEF table_remove
<1> HIDE DEF rest
<1>3. /\ DOMAIN rest = 1..(Len(list) - 1)
      /\ \A k \in DOMAIN rest : rest[k] = list[IF k < i THEN k ELSE k + 1]
                             /\ (IF k < i THEN k ELSE k + 1) \in 1..Len(list) \ {i}
  BY <1>1, <1>2
<1>4. rest \in Seq(Nat) /\ Len(rest) = Len(list) - 1
  <2>1. \A k \in 1..(Len(list) - 1) : rest[k] \in Nat
    BY <1>1, <1>3
  <2>2. Len(list) - 1 \in Nat
    BY <1>1
  <2>3. rest = [k \in 1..(Len(list) - 1) |-> rest[k]]
    BY <1>2
  <2>4. QED
    BY <2>1, <2>2, <2>3
<1>5. NoRepeats(rest)
  <2> SUFFICES ASSUME NEW j \in DOMAIN rest, NEW k \in DOMAIN rest, rest[j] = rest[k] PROVE j = k
    BY DEF NoRepeats
  <2>1. (IF j < i THEN j ELSE j + 1) = (IF k < i THEN k ELSE k + 1)
    BY <1>1, <1>3 DEF NoRepeats
  <2>2. QED
    BY <1>1, <1>3, <2>1
<1>6. Range(rest) \subseteq Range(list) \ {list[i]}
  BY <1>1, <1>3 DEF NoRepeats, Range
<1>7. ASSUME NEW j \in 1..Len(list), j # i PROVE list[j] \in Range(rest)
  <2>1. CASE j < i
    <3>1. j \in DOMAIN rest /\ rest[j] = list[j]
      BY <1>1, <1>3, <2>1
    <3>2. QED
      BY <3>1 DEF Range
  <2>2. CASE j > i
    <3>1. j - 1 \in DOMAIN rest /\ rest[j - 1] = list[j]
      BY <1>1, <1>3, <2>2
    <3>2. QED
      BY <3>1 DEF Range
  <2>3. QED
    BY <1>1, <1>7, <2>1, <2>2
<1>8. Range(list) \ {list[i]} \subseteq Range(rest)
  BY <1>1, <1>7 DEF Range
<1>9. QED
  BY <1>4, <1>5, <1>6, <1>8 DEF rest

\* Of filters that differ, the one that the report is for is removed, and the others stay: nothing
\* is passed over that matters.
LEMMA Received ==
  ASSUME NEW list \in Seq(Nat), NoRepeats(list), NEW n
  PROVE  LET rest == handleOSCReceive(list, n)
         IN  rest \in Seq(Nat) /\ NoRepeats(rest) /\ Range(rest) = Range(list) \ {n}
<1> DEFINE Is(R) == \A i \in DOMAIN list : i \in R <=> list[i] = n /\ i - 1 \notin R
           removed == CHOOSE R \in SUBSET DOMAIN list : Is(R)
           PlaceOf(i) == i - Cardinality({j \in removed : j < i})
           From(k) == CHOOSE i \in DOMAIN list \ removed : PlaceOf(i) = k
           rest == [k \in 1..(Len(list) - Cardinality(removed)) |-> list[From(k)]]
<1>1. rest = handleOSCReceive(list, n)
  BY DEF handleOSCReceive
<1>2. /\ Len(list) \in Nat /\ DOMAIN list = 1..Len(list)
      /\ \A k \in 1..Len(list) : list[k] \in Nat
  OBVIOUS
<1>3. CASE n \notin Range(list)
  <2>1. \A i \in DOMAIN list : list[i] # n
    BY <1>3 DEF Range
  <2>2. Is({})
    BY <2>1
  <2>3. removed \in SUBSET DOMAIN list /\ Is(removed)
    <3> HIDE DEF Is
    <3>1. QED
      BY <2>2
  <2>4. removed = {}
    BY <2>1, <2>3
  <2>5. \A i \in Int : PlaceOf(i) = i
    <3>1. \A i \in Int : {j \in removed : j < i} = {}
      BY <2>4
    <3> HIDE DEF removed
    <3>2. QED
      BY <3>1, FS_EmptySet
  <2>6. Cardinality(removed) = 0
    BY <2>4, FS_EmptySet
  <2>7. \A k \in 1..Len(list) : From(k) = k
    <3> HIDE DEF removed, PlaceOf
    <3>1. QED
      BY <1>2, <2>4, <2>5
  <2>8. rest = [k \in 1..Len(list) |-> list[k]]
    <3> HIDE DEF removed, From
    <3>1. Len(list) - Cardinality(removed) = Len(list)
      BY <1>2, <2>6
    <3>2. QED
      BY <2>7, <3>1
  <2>9. rest = list
    <3> HIDE DEF rest
    <3>1. QED
      BY <1>2, <2>8
  <2> HIDE DEF rest
  <2>10. QED
    BY <1>1, <1>3, <2>9
<1>4. ASSUME NEW i \in DOMAIN list, list[i] = n
      PROVE  rest = table_remove(list, i)
  <2>1. \A k \in DOMAIN list : list[k] = n <=> k = i
    BY <1>4 DEF NoRepeats
  <2>2. i \in Int /\ i - 1 # i /\ Is({i})
    BY <1>2, <2>1
  <2>3. removed \in SUBSET DOMAIN list /\ Is(removed)
    <3> HIDE DEF Is
    <3>1. QED
      BY <2>2
  <2>4. removed = {i}
    <3> HIDE DEF removed
    <3>1. \A k \in removed : k = i
      BY <2>1, <2>3
    <3>2. i - 1 \notin removed
      BY <2>2, <3>1
    <3>3. QED
      BY <2>1, <2>3, <3>1, <3>2
  <2>5. \A k \in Int : PlaceOf(k) = IF k <= i THEN k ELSE k - 1
    <3> SUFFICES ASSUME NEW k \in Int PROVE PlaceOf(k) = IF k <= i THEN k ELSE k - 1
      OBVIOUS
    <3> HIDE DEF removed
    <3>1. CASE k <= i
      <4>1. {j \in removed : j < k} = {}
        BY <2>2, <2>4, <3>1
      <4>2. Cardinality({j \in removed : j < k}) = 0
        BY <4>1, FS_EmptySet
      <4>3. QED
        BY <3>1, <4>2
    <3>2. CASE ~(k <= i)
      <4>1. {j \in removed : j < k} = {i}
        BY <2>2, <2>4, <3>2
      <4>2. Cardinality({j \in removed : j < k}) = 1
        BY <4>1, FS_Singleton
      <4>3. QED
        BY <3>2, <4>2
    <3>3. QED
      BY <3>1, <3>2
  <2>6. Cardinality(removed) = 1
    <3> HIDE DEF removed
    <3>1. QED
      BY <2>4, FS_Singleton
  <2>7. \A k \in 1..(Len(list) - 1) : From(k) = IF k < i THEN k ELSE k + 1
    <3> SUFFICES ASSUME NEW k \in 1..(Len(list) - 1) PROVE From(k) = IF k < i THEN k ELSE k + 1
      OBVIOUS
    <3> HIDE DEF removed, PlaceOf
    <3> DEFINE m == IF k < i THEN k ELSE k + 1
    <3>1. m \in DOMAIN list \ removed /\ PlaceOf(m) = k
      BY <1>2, <2>2, <2>4, <2>5
    <3>2. \A j \in DOMAIN list \ removed : PlaceOf(j) = k => j = m
      BY SMTT(30), <1>2, <2>2, <2>4, <2>5
    <3> HIDE DEF m
    <3>3. From(k) = m
      BY <3>1, <3>2
    <3>4. QED
      BY <3>3 DEF m
  <2> HIDE DEF removed, From
  <2>8. rest = [k \in 1..(Len(list) - 1) |-> list[IF k < i THEN k ELSE k + 1]]
    BY <2>6, <2>7
  <2>9. QED
    BY <2>8 DEF table_remove
<1>5. CASE n \in Range(list)
  <2>1. PICK i \in DOMAIN list : list[i] = n
    BY <1>5 DEF Range
  <2> HIDE DEF rest
  <2>2. QED
    BY <1>1, <1>4, <2>1, Removed
<1> HIDE DEF rest
<1>6. QED
  BY <1>1, <1>3, <1>5

-----------------------------------------------------------------------------
\* Types.
LEMMA ReleaseTyped ==
  ASSUME VoicesTyped, ReleaseNode
  PROVE  /\ node' \in Nat /\ havenode' \in BOOLEAN
         /\ (node' = node /\ havenode' = havenode) \/ (node' = 0 /\ havenode' = FALSE)
<1>1. node \in Nat /\ havenode \in BOOLEAN
  BY DEF VoicesTyped, PlayerTyped
<1>2. (node' = node /\ havenode' = havenode) \/ (node' = 0 /\ havenode' = FALSE)
  BY Zenon DEF ReleaseNode
<1>3. havenode' \in BOOLEAN
  BY <1>1, <1>2, Zenon
<1>4. 0 \in Nat
  OBVIOUS
<1>5. QED
  BY <1>1, <1>2, <1>3, <1>4, Zenon

LEMMA ResetTyped ==
  ASSUME VoicesTyped, NEW beat \in Int, Reset(beat)
  PROVE  QueuesTyped' /\ pos' \in Int /\ node' \in Nat /\ havenode' \in BOOLEAN /\ since' \in Nat \ {0}
<1>1. node' \in Nat /\ havenode' \in BOOLEAN
  BY ReleaseTyped DEF Reset
<1>2. pos' = beat /\ since' = Len(voices) + 1 /\ NodeQueue' = <<>>
      /\ strings' = (IF kind = "voicer" THEN [s \in Strings |-> 0] ELSE strings)
      /\ UNCHANGED <<filters, pedal, OsceventQueue>>
  BY DEF Reset
<1>3. since' \in Nat \ {0}
  BY <1>2 DEF VoicesTyped
<1>4. QueuesTyped'
  BY <1>2 DEF VoicesTyped, QueuesTyped, pedal
<1>5. QED
  BY <1>1, <1>2, <1>3, <1>4

LEMMA StartTyped ==
  ASSUME VoicesTyped, NEW string, NEW warned, StartVoice(string, warned)
  PROVE  /\ NodeQueue' \in Seq(Nat) /\ filters' \in Seq(Nat) /\ NewNode \in Nat
         /\ NewNode \notin Nodes /\ NewNode # 0
<1>1. voices \in Seq(Voice) /\ NodeQueue \in Seq(Nat) /\ filters \in Seq(Nat)
  BY DEF VoicesTyped, QueuesTyped
<1>2. NewNode \in Nat /\ NewNode \notin Nodes /\ NewNode # 0
  BY <1>1 DEF NewNode, Nodes
<1> DEFINE queue == Append(NodeQueue, NewNode)
<1>3. queue \in Seq(Nat) /\ Len(queue) # 0
  BY <1>1, <1>2
<1>4. /\ NodeQueue' = NodeQueue \/ NodeQueue' = queue \/ NodeQueue' = Tail(queue)
      /\ filters' = filters \/ filters' = Append(filters, NewNode)
  BY DEF StartVoice
<1>5. filters' \in Seq(Nat)
  <2>1. Append(filters, NewNode) \in Seq(Nat)
    BY <1>1, <1>2
  <2>2. QED
    BY <1>1, <1>4, <2>1
<1> HIDE DEF queue
<1>6. queue # <<>>
  BY <1>3
<1>7. Tail(queue) \in Seq(Nat)
  BY <1>3, <1>6
<1>8. QED
  BY <1>1, <1>2, <1>4, <1>5, <1>3, <1>7

LEMMA NoteTypes ==
  ASSUME VoicesTyped, PlayNote
  PROVE  /\ QueuesTyped' /\ pos' \in Int /\ pos' >= pos
         /\ node' \in Nat /\ havenode' \in BOOLEAN /\ event' \in {NoEvent} \cup Events
<1> DEFINE note == Head(event.notes)
<1>1. event # NoEvent /\ pos \in Int
  BY DEF PlayNote, VoicesTyped, TimesTyped
<1>2. /\ event \in Events /\ note.string \in Nat /\ note.set \in BOOLEAN /\ note.rest \in BOOLEAN
      /\ kind \in {"voicer", "piano"} => note.string \in Strings
      /\ Len(event.notes) > 1 => Tail(event.notes) \in Seq(Notes) \ {<<>>}
  BY <1>1, NoteTyped
<1>3. event.delta \in Nat /\ event.length \in Nat
  BY <1>2 DEF Events
<1>4. event' \in {NoEvent} \cup Events /\ pos' \in Int /\ pos' >= pos
  <2>1. CASE Len(event.notes) > 1
    <3>1. event' = [event EXCEPT !.notes = Tail(@)] /\ pos' = pos
      BY <2>1 DEF PlayNote
    <3> DEFINE rest == Tail(event.notes)
               T == Seq(Notes) \ {<<>>}
    <3>2. rest \in T /\ event \in [delta : Nat, length : Nat, notes : T]
      BY <1>2, <2>1 DEF Events
    <3>3. event' = [event EXCEPT !.notes = rest]
      BY <3>1
    <3> HIDE DEF rest, T
    <3>4. event' \in [delta : Nat, length : Nat, notes : T]
      BY <3>2, <3>3
    <3>5. QED
      BY <1>1, <3>1, <3>4 DEF Events, T
  <2>2. CASE ~(Len(event.notes) > 1)
    <3>1. event' = NoEvent /\ pos' = pos + event.delta
      BY <2>2 DEF PlayNote
    <3>2. QED
      BY <1>1, <1>3, <3>1
  <2>3. QED
    BY <2>1, <2>2
<1> SUFFICES QueuesTyped' /\ node' \in Nat /\ havenode' \in BOOLEAN
  BY <1>4
<1>5. QueuesTyped /\ node \in Nat /\ havenode \in BOOLEAN /\ NewNode \in Nat
  BY DEF VoicesTyped, PlayerTyped, NewNode
<1>6. ASSUME NEW string, NEW warned, StartVoice(string, warned)
      PROVE  NodeQueue' \in Seq(Nat) /\ filters' \in Seq(Nat)
  BY <1>6, StartTyped
<1>7. CASE kind = "voicer"
  <2>1. PlayVoicerNote(note) /\ note.string \in Strings
    BY <1>2, <1>7 DEF PlayNote
  <2> HIDE DEF note
  <2>2. UNCHANGED <<node, havenode, pedal, OsceventQueue>>
    BY <2>1 DEF PlayVoicerNote
  <2>3. NodeQueue' \in Seq(Nat) /\ filters' \in Seq(Nat)
    BY <1>5, <1>6, <2>1 DEF PlayVoicerNote, QueuesTyped
  <2>4. strings' \in [Strings -> Nat]
    <3>1. \/ strings' = strings
          \/ strings' = [strings EXCEPT ![note.string] = 0]
          \/ strings' = [strings EXCEPT ![note.string] = NewNode]
      BY <2>1 DEF PlayVoicerNote
    <3>2. QED
      BY <1>5, <2>1, <3>1 DEF QueuesTyped
  <2>5. QED
    BY <1>5, <2>2, <2>3, <2>4 DEF QueuesTyped, pedal
<1>8. CASE kind = "piano"
  <2>1. PlayPianoNote(note) /\ note.string \in Strings
    BY <1>2, <1>8 DEF PlayNote
  <2> DEFINE n == IF strings[note.string] # 0 THEN strings[note.string] ELSE NewNode
             due == pos + event.length
  <2> HIDE DEF note
  <2>2. UNCHANGED <<node, havenode, pedalqueue, OsceventQueue>>
    BY <2>1 DEF PlayPianoNote
  <2>3. CASE note.rest
    <3>1. UNCHANGED <<strings, NodeQueue, filters, pianofreequeue, nodetimetofree>>
      BY <2>1, <2>3 DEF PlayPianoNote
    <3>2. QED
      BY <1>5, <2>2, <3>1 DEF QueuesTyped
  <2>4. CASE ~note.rest
    <3>1. /\ strings' = [strings EXCEPT ![note.string] = n]
          /\ pianofreequeue' = pianofreequeue \cup {[time |-> due, node |-> n, freq |-> note.string]}
          /\ nodetimetofree' = [m \in DOMAIN nodetimetofree \cup {n} |->
                                   IF m = n THEN due ELSE nodetimetofree[m]]
          /\ (n = NewNode /\ StartVoice(note.string, FALSE)) \/ (n # NewNode /\ UNCHANGED <<voices, NodeQueue, filters>>)
      BY <2>1, <2>4 DEF PlayPianoNote
    <3>2. NodeQueue' \in Seq(Nat) /\ filters' \in Seq(Nat)
      <4> HIDE DEF n
      <4>1. QED
        BY <1>5, <1>6, <3>1 DEF QueuesTyped
    <3>3. strings[note.string] \in Nat
      BY <1>5, <2>1 DEF QueuesTyped
    <3>4. n \in Nat /\ due \in Int
      BY <1>1, <1>3, <1>5, <3>3
    <3> HIDE DEF n, due
    <3>5. strings' \in [Strings -> Nat]
      BY <1>5, <2>1, <3>1, <3>4 DEF QueuesTyped
    <3>6. pianofreequeue' \subseteq [time : Int, node : Nat, freq : Strings]
      BY <1>5, <2>1, <3>1, <3>4 DEF QueuesTyped
    <3>7. nodetimetofree' \in [DOMAIN nodetimetofree' -> Int]
          /\ \A e \in pianofreequeue' : e.node \in DOMAIN nodetimetofree'
      BY <1>5, <3>1, <3>4 DEF QueuesTyped
    <3>8. QED
      BY <1>5, <2>2, <3>2, <3>5, <3>6, <3>7 DEF QueuesTyped
  <2>5. QED
    BY <2>3, <2>4
<1>9. CASE kind # "voicer" /\ kind # "piano"
  <2>1. PlayOscNote(note)
    BY <1>9 DEF PlayNote
  <2> HIDE DEF note
  <2>2. UNCHANGED <<strings, pedal>>
    BY <2>1 DEF PlayOscNote
  <2>3. CASE note.rest
    <3>1. ReleaseNode /\ UNCHANGED <<NodeQueue, filters, OsceventQueue>>
      BY <2>1, <2>3 DEF PlayOscNote
    <3>2. QED
      BY <1>5, <2>2, <3>1, ReleaseTyped DEF QueuesTyped, pedal
  <2>4. CASE ~note.rest
    <3> DEFINE set == note.set \/ (kind = "mono" /\ havenode)
               dontfree == \/ kind = "polyheld"
                           \/ (kind = "mono" /\ event.length >= event.delta)
                           \/ (kind = "plain" /\ note.set)
    <3>1. /\ IF set /\ node # 0 THEN UNCHANGED <<voices, NodeQueue, filters, node>>
             ELSE StartVoice(note.string, set) /\ node' = NewNode
          /\ IF dontfree THEN havenode' = (havenode \/ node' # node) /\ UNCHANGED OsceventQueue
             ELSE /\ havenode' = FALSE
                  /\ OsceventQueue' = OsceventQueue \cup {[time |-> pos + event.length, node |-> node']}
      BY <2>1, <2>4 DEF PlayOscNote
    <3> HIDE DEF set, dontfree
    <3>2. NodeQueue' \in Seq(Nat) /\ filters' \in Seq(Nat) /\ node' \in Nat
      BY <1>5, <1>6, <3>1 DEF QueuesTyped
    <3>3. pos + event.length \in Int
      BY <1>1, <1>3
    <3>4. OsceventQueue' \subseteq [time : Int, node : Nat]
      BY <1>5, <3>1, <3>2, <3>3 DEF QueuesTyped
    <3>5. havenode' \in BOOLEAN
      BY <3>1
    <3>6. QED
      BY <1>5, <2>2, <3>2, <3>4, <3>5 DEF QueuesTyped, pedal
  <2>5. QED
    BY <1>2, <2>3, <2>4
<1>10. QED
  BY <1>4, <1>7, <1>8, <1>9

\* Whatever happens leaves the types what they are.
LEMMA StepKeepsTypes ==
  ASSUME VoicesTyped, NodesKept, VoicesNext
  PROVE  VoicesTyped'
<1>1. voices' \in Seq(Voice)
  BY StepKeepsHistory
<1>2. kind' = kind
  BY DEF VoicesNext, NodeEnds, Jump, BeginFrame, StartPlayer, StopPlayer, BeginTurn, FreeOne, FreeRest,
         TakeEvent, PlayNote, StreamEnds, EndTurn, SendScheduled, EndFrame
<1>3. Events' = Events
  BY <1>2 DEF Events, Notes
<1>4. TimesTyped /\ QueuesTyped /\ PlayerTyped /\ voices \in Seq(Voice)
  BY DEF VoicesTyped
<1> DEFINE Typed == TimesTyped' /\ QueuesTyped' /\ event' \in {NoEvent} \cup Events
                    /\ node' \in Nat /\ havenode' \in BOOLEAN /\ since' \in Nat \ {0}
<1>5. SUFFICES Typed
  BY <1>1, <1>2, <1>3, <1>4 DEF VoicesTyped, PlayerTyped
<1>6. ASSUME NEW n \in DOMAIN voices, NodeEnds(n) PROVE Typed
  <2>1. UNCHANGED <<transport, stage, section, event, node, havenode, pianofreequeue, nodetimetofree,
                    OsceventQueue, since>>
    BY <1>6 DEF NodeEnds
  <2>2. filters' \in Seq(Nat)
    BY <1>4, <1>6, Received DEF NodesKept, NodeEnds, QueuesTyped
  <2>3. NodeQueue' \in Seq(Nat)
    <3> DEFINE i == CHOOSE i \in DOMAIN NodeQueue : NodeQueue[i] = n
    <3>1. CASE n \in Range(NodeQueue)
      <4>1. i \in DOMAIN NodeQueue
        BY <3>1 DEF Range
      <4> HIDE DEF i
      <4>2. table_remove(NodeQueue, i) \in Seq(Nat)
        BY <1>4, <4>1, Removed DEF NodesKept, QueuesTyped
      <4>3. NodeQueue' = NodeQueue \/ NodeQueue' = table_remove(NodeQueue, i)
        BY <1>6, <3>1 DEF NodeEnds, i
      <4>4. QED
        BY <1>4, <4>2, <4>3 DEF QueuesTyped
    <3>2. CASE n \notin Range(NodeQueue)
      BY <1>4, <1>6, <3>2 DEF NodeEnds, QueuesTyped
    <3>3. QED
      BY <3>1, <3>2
  <2>4. strings' \in [Strings -> Nat]
    <3>1. \/ strings' = strings
          \/ strings' = [s \in Strings |-> IF kind = "piano" /\ strings[s] = n THEN 0 ELSE strings[s]]
      BY <1>6 DEF NodeEnds
    <3>2. strings \in [Strings -> Nat]
      BY <1>4 DEF QueuesTyped
    <3>3. QED
      BY <3>1, <3>2
  <2>5. pedalqueue' \subseteq pedalqueue
    BY <1>6 DEF NodeEnds
  <2>6. QED
    BY <1>4, <2>1, <2>2, <2>3, <2>4, <2>5
       DEF TimesTyped, QueuesTyped, PlayerTyped, transport, section
<1>7. ASSUME NEW beat \in Beats, Jump(beat) PROVE Typed
  <2>1. /\ stage = "idle" /\ ppq' = beat /\ since' = Len(voices) + 1
        /\ UNCHANGED <<clock, oldppq, stage, section, event, node, havenode, NodeQueue, filters, strings,
                       pedal, OsceventQueue>>
    BY <1>7 DEF Jump
  <2>2. beat \in Nat /\ Len(voices) + 1 \in Nat
    BY <1>4, Numbers
  <2>3. TimesTyped'
    BY <1>4, <2>1, <2>2 DEF TimesTyped, section
  <2>4. QED
    BY <1>4, <2>1, <2>2, <2>3 DEF QueuesTyped, PlayerTyped, pedal
<1>8. ASSUME NEW beat \in Int, Reset(beat)
      PROVE  QueuesTyped' /\ pos' \in Int /\ node' \in Nat /\ havenode' \in BOOLEAN /\ since' \in Nat \ {0}
  BY <1>8, ResetTyped
<1>9. CASE BeginFrame
  <2>1. /\ stage' = "actions" /\ oldppq' = ppq /\ ppq' = ppq + Frame
        /\ UNCHANGED <<clock, jumps, musPos, event>>
    BY <1>9 DEF BeginFrame
  <2>2. TimesTyped /\ musPos \in Int
    BY <1>4 DEF TimesTyped
  <2>3. \/ Reset(musPos)
        \/ UNCHANGED <<pos, node, havenode, NodeQueue, filters, strings, pedal, OsceventQueue, since>>
    BY <1>9 DEF BeginFrame
  <2>4. QueuesTyped' /\ pos' \in Int /\ node' \in Nat /\ havenode' \in BOOLEAN /\ since' \in Nat \ {0}
    BY <1>4, <1>8, <2>2, <2>3 DEF TimesTyped, QueuesTyped, PlayerTyped, pedal
  <2>5. TimesTyped'
    BY <2>1, <2>2, <2>4, Numbers DEF TimesTyped, Stages
  <2>6. QED
    BY <1>4, <2>1, <2>4, <2>5 DEF PlayerTyped
<1>10. ASSUME NEW beat \in Int, StartPlayer(beat) PROVE Typed
  <2>1. Reset(beat) /\ musPos' = beat /\ UNCHANGED <<transport, stage, event>>
    BY <1>10 DEF StartPlayer
  <2>2. TimesTyped'
    BY <1>4, <1>8, <2>1 DEF TimesTyped, transport
  <2>3. QED
    BY <1>4, <1>8, <2>1, <2>2 DEF PlayerTyped
<1>11. ASSUME NEW beat \in Int, StopPlayer(beat) PROVE Typed
  <2>1. ReleaseNode /\ UNCHANGED <<transport, stage, pos, musPos, event, NodeQueue, filters, strings, pedal,
                                   OsceventQueue, since>>
    BY <1>11 DEF StopPlayer
  <2>2. node' \in Nat /\ havenode' \in BOOLEAN
    BY <2>1, ReleaseTyped
  <2>3. TimesTyped' /\ QueuesTyped'
    BY <1>4, <2>1 DEF TimesTyped, QueuesTyped, transport, pedal
  <2>4. QED
    BY <1>4, <2>1, <2>2, <2>3 DEF PlayerTyped
<1>12. CASE BeginTurn \/ EndTurn
  BY <1>4, <1>12 DEF BeginTurn, EndTurn, TimesTyped, QueuesTyped, PlayerTyped, transport, section, pedal, Stages
<1>13. ASSUME NEW e \in pianofreequeue, FreeOne(e) PROVE Typed
  <2>1. /\ pianofreequeue' \subseteq pianofreequeue
        /\ UNCHANGED <<transport, stage, section, event, node, havenode, NodeQueue, filters,
                       nodetimetofree, OsceventQueue, since>>
    BY <1>13 DEF FreeOne
  <2>2. e.node \in Nat /\ e.freq \in Strings
    BY <1>4 DEF QueuesTyped
  <2>3. pedalqueue' \subseteq [node : Nat, freq : Strings]
    <3>1. [node |-> e.node, freq |-> e.freq] \in [node : Nat, freq : Strings]
      BY <2>2
    <3>2. pedalqueue' \subseteq pedalqueue \cup {[node |-> e.node, freq |-> e.freq]}
      BY <1>13 DEF FreeOne
    <3>3. QED
      BY <1>4, <3>1, <3>2 DEF QueuesTyped
  <2>4. strings' \in [Strings -> Nat]
    <3>1. strings' = strings \/ strings' = [strings EXCEPT ![e.freq] = 0]
      BY <1>13 DEF FreeOne
    <3>2. QED
      BY <1>4, <2>2, <3>1 DEF QueuesTyped
  <2>5. QED
    BY <1>4, <2>1, <2>3, <2>4 DEF TimesTyped, QueuesTyped, PlayerTyped, transport, section
<1>14. CASE FreeRest
  <2>1. /\ stage' = "play" /\ stage = "free"
        /\ UNCHANGED <<transport, section, event, node, havenode, NodeQueue, filters, pianofreequeue,
                       nodetimetofree, OsceventQueue, since>>
    BY <1>14 DEF FreeRest
  <2>2. pedalqueue' \subseteq pedalqueue
    BY <1>14 DEF FreeRest
  <2>3. strings' \in [Strings -> Nat]
    BY <1>4, <1>14 DEF FreeRest, QueuesTyped
  <2>4. TimesTyped'
    BY <1>4, <2>1 DEF TimesTyped, transport, section, Stages
  <2>5. QED
    BY <1>4, <2>1, <2>2, <2>3, <2>4 DEF QueuesTyped, PlayerTyped
<1>15. ASSUME NEW delta \in Deltas, NEW length \in Lengths, TakeEvent(delta, length) PROVE Typed
  <2>1. /\ pos' = pos \/ pos' = pos + delta
        /\ UNCHANGED <<transport, stage, musPos, node, havenode, NodeQueue, filters, strings, pedal,
                       OsceventQueue, since>>
    BY <1>15 DEF TakeEvent
  <2>2. delta \in Nat /\ length \in Nat
    BY Numbers
  <2>3. event' \in {NoEvent} \cup Events
    <3>1. CASE event' = event
      BY <1>4, <3>1 DEF PlayerTyped
    <3>2. CASE \E k \in Chords : \E notes \in [1..k -> Notes] :
                  event' = [delta |-> delta, length |-> length, notes |-> notes]
      <4> DEFINE T == Notes
      <4>0. PICK k \in Chords : \E notes \in [1..k -> T] :
                event' = [delta |-> delta, length |-> length, notes |-> notes]
        BY <3>2
      <4>1. PICK notes \in [1..k -> T] : event' = [delta |-> delta, length |-> length, notes |-> notes]
        BY <4>0
      <4>2. k \in Nat \ {0}
        BY Numbers
      <4> HIDE DEF T
      <4>3. notes \in Seq(T) \ {<<>>}
        <5>1. notes \in Seq(T) /\ Len(notes) = k
          BY <4>1, <4>2
        <5>2. QED
          BY <4>2, <5>1
      <4>4. event' \in [delta : Nat, length : Nat, notes : Seq(T) \ {<<>>}]
        BY <2>2, <4>1, <4>3
      <4>5. QED
        BY <4>4 DEF Events, T
    <3>3. QED
      BY <1>15, <3>1, <3>2 DEF TakeEvent
  <2>4. TimesTyped'
    BY <1>4, <2>1, <2>2 DEF TimesTyped, transport
  <2>5. QED
    BY <1>4, <2>1, <2>3, <2>4 DEF QueuesTyped, PlayerTyped, pedal
<1>16. CASE PlayNote
  <2>1. UNCHANGED <<transport, stage, musPos, since>>
    BY <1>16 DEF PlayNote
  <2>2. /\ QueuesTyped' /\ pos' \in Int
        /\ node' \in Nat /\ havenode' \in BOOLEAN /\ event' \in {NoEvent} \cup Events
    BY <1>16, NoteTypes
  <2>3. TimesTyped'
    BY <1>4, <2>1, <2>2 DEF TimesTyped, transport
  <2>4. QED
    BY <1>4, <2>1, <2>2, <2>3 DEF PlayerTyped
<1>17. CASE StreamEnds
  <2>1. UNCHANGED <<transport, stage, musPos, event>>
    BY <1>17 DEF StreamEnds
  <2>2. musPos \in Int
    BY <1>4 DEF TimesTyped
  <2>3. \/ Reset(musPos)
        \/ UNCHANGED <<pos, node, havenode, NodeQueue, filters, strings, pedal, OsceventQueue, since>>
    BY <1>17 DEF StreamEnds
  <2>4. QueuesTyped' /\ pos' \in Int /\ node' \in Nat /\ havenode' \in BOOLEAN /\ since' \in Nat \ {0}
    BY <1>4, <1>8, <2>2, <2>3 DEF TimesTyped, QueuesTyped, PlayerTyped, pedal
  <2>5. TimesTyped'
    BY <1>4, <2>1, <2>4 DEF TimesTyped, transport
  <2>6. QED
    BY <1>4, <2>1, <2>4, <2>5 DEF PlayerTyped
<1>18. ASSUME NEW e \in OsceventQueue, SendScheduled(e) PROVE Typed
  <2>1. /\ OsceventQueue' \subseteq OsceventQueue
        /\ UNCHANGED <<transport, stage, section, event, node, havenode, NodeQueue, filters, strings, pedal, since>>
    BY <1>18 DEF SendScheduled
  <2>2. QED
    BY <1>4, <2>1 DEF TimesTyped, QueuesTyped, PlayerTyped, transport, section, pedal
<1>19. CASE EndFrame
  <2>1. /\ stage' = "idle" /\ clock' = clock + Frame
        /\ UNCHANGED <<oldppq, ppq, section, event, node, havenode, NodeQueue, filters, strings, pedal,
                       OsceventQueue, since>>
    BY <1>19 DEF EndFrame
  <2>2. TimesTyped'
    BY <1>4, <2>1, Numbers DEF TimesTyped, section, Stages
  <2>3. QED
    BY <1>4, <2>1, <2>2 DEF QueuesTyped, PlayerTyped, pedal
<1>20. CASE \E beat \in (oldppq + 1)..ppq : StartPlayer(beat) \/ StopPlayer(beat)
  <2>1. PICK beat \in (oldppq + 1)..ppq : StartPlayer(beat) \/ StopPlayer(beat)
    BY <1>20
  <2>2. beat \in Int
    BY <1>4, <2>1 DEF TimesTyped
  <2>3. QED
    BY <1>10, <1>11, <2>1, <2>2
<1> HIDE DEF Typed
<1>21. QED
  BY <1>6, <1>7, <1>9, <1>12, <1>13, <1>14, <1>15, <1>16, <1>17, <1>18, <1>19, <1>20 DEF VoicesNext

-----------------------------------------------------------------------------
\* The nodes that the player keeps.
LEMMA Appended ==
  ASSUME NEW list \in Seq(Nat), NEW x \in Nat
  PROVE  /\ Append(list, x) \in Seq(Nat) /\ Len(Append(list, x)) = Len(list) + 1
         /\ Range(Append(list, x)) = Range(list) \cup {x}
         /\ NoRepeats(list) /\ x \notin Range(list) => NoRepeats(Append(list, x))
<1> DEFINE l == Append(list, x)
<1>1. /\ l \in Seq(Nat) /\ Len(l) = Len(list) + 1 /\ DOMAIN l = DOMAIN list \cup {Len(list) + 1}
      /\ l[Len(list) + 1] = x /\ \A i \in DOMAIN list : l[i] = list[i]
  OBVIOUS
<1> HIDE DEF l
<1>2. Range(l) = Range(list) \cup {x}
  BY <1>1 DEF Range
<1>3. NoRepeats(list) /\ x \notin Range(list) => NoRepeats(l)
  BY <1>1 DEF Range, NoRepeats
<1>4. QED
  BY <1>1, <1>2, <1>3 DEF l

LEMMA HeadTaken ==
  ASSUME NEW list \in Seq(Nat), list # <<>>, NoRepeats(list)
  PROVE  /\ Tail(list) \in Seq(Nat) /\ Len(Tail(list)) = Len(list) - 1
         /\ Range(Tail(list)) = Range(list) \ {Head(list)} /\ NoRepeats(Tail(list))
         /\ Head(list) \in Range(list)
<1>1. /\ Len(list) \in Nat /\ Len(list) > 0 /\ DOMAIN list = 1..Len(list) /\ Head(list) = list[1]
      /\ \A k \in 1..Len(list) : list[k] \in Nat
  OBVIOUS
<1> DEFINE l == Tail(list)
<1>2. /\ l \in Seq(Nat) /\ Len(l) = Len(list) - 1 /\ DOMAIN l = 1..(Len(list) - 1)
      /\ \A k \in 1..(Len(list) - 1) : l[k] = list[k + 1]
  BY <1>1
<1> HIDE DEF l
<1>3. NoRepeats(l)
  <2> SUFFICES ASSUME NEW i \in 1..(Len(list) - 1), NEW j \in 1..(Len(list) - 1), l[i] = l[j] PROVE i = j
    BY <1>2 DEF NoRepeats
  <2>1. list[i + 1] = list[j + 1] /\ i + 1 \in DOMAIN list /\ j + 1 \in DOMAIN list
    BY <1>1, <1>2
  <2>2. i + 1 = j + 1
    BY <2>1 DEF NoRepeats
  <2>3. QED
    BY <2>2
<1>4. Range(l) \subseteq Range(list) \ {list[1]}
  <2> SUFFICES ASSUME NEW k \in 1..(Len(list) - 1) PROVE l[k] \in Range(list) /\ l[k] # list[1]
    BY <1>2 DEF Range
  <2>1. l[k] = list[k + 1] /\ k + 1 \in DOMAIN list /\ 1 \in DOMAIN list /\ k + 1 # 1
    BY <1>1, <1>2
  <2>2. QED
    BY <2>1 DEF NoRepeats, Range
<1>5. ASSUME NEW k \in 1..Len(list), k # 1 PROVE list[k] \in Range(l)
  <2>1. k - 1 \in DOMAIN l /\ l[k - 1] = list[k]
    BY <1>1, <1>2, <1>5
  <2>2. QED
    BY <2>1 DEF Range
<1>6. Range(list) \ {list[1]} \subseteq Range(l) /\ list[1] \in Range(list)
  BY <1>1, <1>5 DEF Range
<1>7. QED
  BY <1>1, <1>2, <1>3, <1>4, <1>6 DEF l

\* A new voice is queued by a poly player, which lets its oldest go, and waited for by a filter.
LEMMA StartNodes ==
  ASSUME VoicesTyped, NodesKept, NEW string \in Nat, NEW warned \in BOOLEAN, StartVoice(string, warned)
  PROVE  /\ Nodes' = Nodes \cup {NewNode} /\ NewNode \notin Nodes /\ NewNode \in Nat \ {0}
         /\ NoRepeats(NodeQueue') /\ NoRepeats(filters')
         /\ ~HasPoly => NodeQueue' = NodeQueue
         /\ HasPoly => /\ Range(NodeQueue') = (Range(NodeQueue) \ Stolen(Append(NodeQueue, NewNode))) \cup {NewNode}
                       /\ Len(NodeQueue) <= Poly => Len(NodeQueue') <= Poly
                       /\ Stolen(Append(NodeQueue, NewNode)) \subseteq Range(NodeQueue)
         /\ HasPoly \/ kind = "piano" => Range(filters') = Range(filters) \cup {NewNode}
         /\ ~(HasPoly \/ kind = "piano") => filters' = filters
<1> DEFINE queue == Append(NodeQueue, NewNode)
<1>1. voices \in Seq(Voice) /\ NodeQueue \in Seq(Nat) /\ filters \in Seq(Nat)
  BY DEF VoicesTyped, QueuesTyped
<1>2. NewNode \in Nat \ {0} /\ NewNode \notin Nodes
  BY <1>1 DEF NewNode, Nodes
<1>3. Nodes' = Nodes \cup {NewNode}
  BY StartVoiceVoices DEF Nodes
<1>4. /\ NoRepeats(NodeQueue) /\ NoRepeats(filters)
      /\ NewNode \notin Range(NodeQueue) /\ NewNode \notin Range(filters)
  BY <1>2 DEF NodesKept
<1>5. /\ queue \in Seq(Nat) /\ Len(queue) = Len(NodeQueue) + 1 /\ NoRepeats(queue)
      /\ Range(queue) = Range(NodeQueue) \cup {NewNode}
  BY <1>1, <1>2, <1>4, Appended
<1>6. /\ NoRepeats(Append(filters, NewNode))
      /\ Range(Append(filters, NewNode)) = Range(filters) \cup {NewNode}
  BY <1>1, <1>2, <1>4, Appended
<1>7. filters' = (IF HasPoly \/ kind = "piano" THEN Append(filters, NewNode) ELSE filters)
  BY DEF StartVoice
<1>8. NodeQueue' = (IF ~HasPoly THEN NodeQueue ELSE IF Stolen(queue) = {} THEN queue ELSE Tail(queue))
  BY DEF StartVoice
<1>9. Len(NodeQueue) \in Nat /\ Poly \in Nat /\ Poly > 0
  BY <1>1, Numbers
<1>10. queue[1] = Head(queue) /\ (Len(NodeQueue) > 0 => Head(queue) = NodeQueue[1] /\ NodeQueue[1] \in Range(NodeQueue))
  BY <1>1, <1>2 DEF Range
<1> HIDE DEF queue
<1>11. CASE HasPoly /\ Len(queue) > Poly
  <2>1. Stolen(queue) = {Head(queue)} /\ NodeQueue' = Tail(queue)
    BY <1>8, <1>11 DEF Stolen
  <2>2. queue # <<>>
    BY <1>5, <1>9
  <2>3. Len(Tail(queue)) = Len(queue) - 1 /\ Range(Tail(queue)) = Range(queue) \ {Head(queue)} /\ NoRepeats(Tail(queue))
    BY <1>5, <2>2, HeadTaken
  <2>4. Head(queue) \in Range(NodeQueue) /\ Head(queue) # NewNode
    BY <1>4, <1>5, <1>9, <1>10, <1>11
  <2>5. Len(NodeQueue) <= Poly => Len(NodeQueue') <= Poly
    BY <1>5, <1>9, <2>1, <2>3
  <2>6. QED
    BY <1>2, <1>3, <1>4, <1>5, <1>6, <1>7, <1>11, <2>1, <2>3, <2>4, <2>5 DEF queue
<1>12. CASE HasPoly /\ ~(Len(queue) > Poly)
  <2>1. Stolen(queue) = {} /\ NodeQueue' = queue
    BY <1>8, <1>12 DEF Stolen
  <2>2. Len(NodeQueue') <= Poly
    BY <1>5, <1>9, <1>12, <2>1
  <2>3. QED
    BY <1>2, <1>3, <1>4, <1>5, <1>6, <1>7, <1>12, <2>1, <2>2 DEF queue
<1>13. CASE ~HasPoly
  BY <1>2, <1>3, <1>4, <1>6, <1>7, <1>8, <1>13
<1>14. QED
  BY <1>11, <1>12, <1>13

\* What a note keeps: a new node, or one of its string.
LEMMA NoteNodes ==
  ASSUME VoicesTyped, NodesKept, PlayNote
  PROVE  /\ node' \in Nodes' \cup {0} /\ (havenode' => node' # 0)
         /\ Range(filters') \subseteq Range(filters) \cup (Nodes' \ Nodes)
         /\ Range(NodeQueue') \subseteq Nodes' /\ Range(strings') \subseteq Nodes' \cup {0}
         /\ NoRepeats(NodeQueue') /\ NoRepeats(filters')
         /\ ~HasPoly => NodeQueue' = <<>>
         /\ HasPoly => Range(NodeQueue') \subseteq Range(filters')
         /\ kind = "piano" => Range(strings') \ {0} \subseteq Range(filters')
<1> DEFINE note == Head(event.notes)
<1>1. event # NoEvent
  BY DEF PlayNote
<1>2. /\ note.string \in Nat /\ note.set \in BOOLEAN /\ note.rest \in BOOLEAN
      /\ kind \in {"voicer", "piano"} => note.string \in Strings
  BY <1>1, NoteTyped
<1>3. Nodes \subseteq Nodes' /\ Nodes \subseteq Nat
  BY StepKeepsHistory DEF Nodes, VoicesNext, VoicesTyped
<1>4. strings \in [Strings -> Nat]
  BY DEF VoicesTyped, QueuesTyped
<1> DEFINE Queues == /\ Range(filters') \subseteq Range(filters) \cup (Nodes' \ Nodes)
                     /\ Range(NodeQueue') \subseteq Nodes'
                     /\ NoRepeats(NodeQueue') /\ NoRepeats(filters')
                     /\ ~HasPoly => NodeQueue' = <<>>
                     /\ HasPoly => Range(NodeQueue') \subseteq Range(filters')
<1>5. ASSUME NEW string \in Nat, NEW warned \in BOOLEAN, StartVoice(string, warned)
      PROVE  /\ Queues /\ Nodes' = Nodes \cup {NewNode} /\ NewNode \notin Nodes /\ NewNode # 0
             /\ kind = "piano" => Range(filters') = Range(filters) \cup {NewNode}
  BY <1>5, StartNodes DEF NodesKept
<1>6. UNCHANGED <<NodeQueue, filters>> => Queues
  BY <1>3 DEF NodesKept
<1>7. CASE kind = "voicer"
  <2>1. PlayVoicerNote(note) /\ note.string \in Strings
    BY <1>2, <1>7 DEF PlayNote
  <2> HIDE DEF note
  <2>2. UNCHANGED <<node, havenode>>
    BY <2>1 DEF PlayVoicerNote
  <2>3. Queues
    BY <1>2, <1>5, <1>6, <2>1 DEF PlayVoicerNote
  <2>4. node' \in Nodes' \cup {0} /\ (havenode' => node' # 0)
    BY <1>3, <2>2 DEF NodesKept
  <2>5. Range(strings') \subseteq Nodes' \cup {0}
    <3>1. \/ strings' = strings
          \/ strings' = [strings EXCEPT ![note.string] = 0]
          \/ strings' = [strings EXCEPT ![note.string] = NewNode] /\ NewNode \in Nodes'
      BY <1>2, <1>5, <2>1 DEF PlayVoicerNote
    <3>2. \A s \in Strings : strings'[s] \in {strings[s], 0} \cup Nodes'
      BY <1>4, <2>1, <3>1
    <3>3. \A s \in Strings : strings[s] \in Nodes \cup {0}
      BY <1>4 DEF NodesKept, Range
    <3>4. DOMAIN strings' = Strings
      BY <1>4, <3>1
    <3>5. QED
      BY <1>3, <3>2, <3>3, <3>4 DEF Range
  <2> HIDE DEF Queues
  <2>6. QED
    BY <1>7, <2>3, <2>4, <2>5 DEF Queues
<1>8. CASE kind = "piano"
  <2>1. PlayPianoNote(note) /\ note.string \in Strings
    BY <1>2, <1>8 DEF PlayNote
  <2> HIDE DEF note
  <2>2. UNCHANGED <<node, havenode>>
    BY <2>1 DEF PlayPianoNote
  <2>3. node' \in Nodes' \cup {0} /\ (havenode' => node' # 0)
    BY <1>3, <2>2 DEF NodesKept
  <2>4. NewNode \notin Nodes /\ NewNode # 0 /\ NewNode \in Nat
    BY DEF NewNode, Nodes, VoicesTyped
  <2>5. \A s \in Strings : strings[s] \in Nodes \cup {0} /\ strings[s] \in Range(strings)
    BY <1>4 DEF NodesKept, Range
  <2> DEFINE n == IF strings[note.string] # 0 THEN strings[note.string] ELSE NewNode
  <2>6. n = NewNode \/ (n = strings[note.string] /\ n # 0)
    OBVIOUS
  <2>7. \/ UNCHANGED <<voices, NodeQueue, filters, strings>>
        \/ /\ strings' = [strings EXCEPT ![note.string] = n]
           /\ IF n = NewNode THEN StartVoice(note.string, FALSE) ELSE UNCHANGED <<voices, NodeQueue, filters>>
    BY <2>1 DEF PlayPianoNote
  <2> HIDE DEF n
  <2>8. Queues
    <3> HIDE DEF Queues
    <3>1. QED
      BY <1>2, <1>5, <1>6, <2>7
  <2>9. Range(strings') \subseteq Nodes' \cup {0} /\ Range(strings') \ {0} \subseteq Range(filters')
    <3>1. CASE UNCHANGED <<voices, NodeQueue, filters, strings>>
      BY <1>3, <1>8, <3>1 DEF NodesKept
    <3>2. CASE /\ strings' = [strings EXCEPT ![note.string] = n]
               /\ IF n = NewNode THEN StartVoice(note.string, FALSE) ELSE UNCHANGED <<voices, NodeQueue, filters>>
      <4>1. DOMAIN strings' = Strings /\ \A s \in Strings : strings'[s] \in {strings[s], n}
        BY <1>4, <2>1, <3>2
      <4>2. Range(filters) \subseteq Range(filters')
        BY <1>2, <1>5, <1>8, <3>2
      <4>3. n \in Nodes' /\ n \in Range(filters')
        <5>1. CASE n = NewNode
          BY <1>2, <1>5, <1>8, <3>2, <5>1
        <5>2. CASE n # NewNode
          <6>1. n \in Nodes /\ n \in Range(strings) \ {0}
            BY <2>1, <2>5, <2>6, <5>2
          <6>2. QED
            BY <1>3, <1>8, <4>2, <6>1 DEF NodesKept
        <5>3. QED
          BY <5>1, <5>2
      <4>4. \A s \in Strings : strings[s] \in Nodes' \cup {0} /\ (strings[s] # 0 => strings[s] \in Range(filters'))
        BY <1>3, <1>8, <2>5, <4>2 DEF NodesKept
      <4>5. QED
        BY <4>1, <4>3, <4>4 DEF Range
    <3>3. QED
      BY <2>7, <3>1, <3>2
  <2> HIDE DEF Queues
  <2>10. QED
    BY <2>3, <2>8, <2>9 DEF Queues
<1>9. CASE kind # "voicer" /\ kind # "piano"
  <2>1. PlayOscNote(note)
    BY <1>9 DEF PlayNote
  <2> HIDE DEF note
  <2>2. UNCHANGED strings
    BY <2>1 DEF PlayOscNote, pedal
  <2>3. Range(strings') \subseteq Nodes' \cup {0}
    BY <1>3, <2>2 DEF NodesKept
  <2>4. CASE note.rest
    <3>1. ReleaseNode /\ UNCHANGED <<NodeQueue, filters>>
      BY <2>1, <2>4 DEF PlayOscNote
    <3>2. node' \in Nodes' \cup {0} /\ (havenode' => node' # 0)
      BY <1>3, <3>1, ReleaseTyped, Zenon DEF NodesKept
    <3> HIDE DEF Queues
    <3>3. QED
      BY <1>6, <1>9, <2>3, <3>1, <3>2 DEF Queues
  <2>5. CASE ~note.rest
    <3> DEFINE set == note.set \/ (kind = "mono" /\ havenode)
    <3>1. IF set /\ node # 0 THEN UNCHANGED <<voices, NodeQueue, filters, node>>
          ELSE StartVoice(note.string, set) /\ node' = NewNode
      BY <2>1, <2>5 DEF PlayOscNote
    <3>2. set \in BOOLEAN
      OBVIOUS
    <3> HIDE DEF set
    <3>3. Queues
      <4> HIDE DEF Queues
      <4>1. QED
        BY <1>2, <1>5, <1>6, <3>1, <3>2
    <3>4. node' \in Nodes' /\ node' # 0
      BY <1>2, <1>3, <1>5, <3>1, <3>2 DEF NodesKept
    <3> HIDE DEF Queues
    <3>5. QED
      BY <1>9, <2>3, <3>3, <3>4 DEF Queues
  <2>6. QED
    BY <1>2, <2>4, <2>5
<1>10. QED
  BY <1>7, <1>8, <1>9

\* The player keeps nodes only, and nothing of one that has been reported to have ended.
LEMMA StepKeepsNodes ==
  ASSUME VoicesTyped, NodesKept, VoicesNext
  PROVE  NodesKept'
<1>1. /\ Nodes \subseteq Nodes' /\ voices' \in Seq(Voice)
      /\ \A n \in Nodes' : voices'[n].told => n \in Nodes /\ (voices[n].told \/ NodeEnds(n))
  BY StepKeepsHistory DEF Nodes
<1>2. kind' = kind /\ HasPoly' = HasPoly
  BY DEF VoicesNext, NodeEnds, Jump, BeginFrame, StartPlayer, StopPlayer, BeginTurn, FreeOne, FreeRest,
         TakeEvent, PlayNote, StreamEnds, EndTurn, SendScheduled, EndFrame, HasPoly
<1>3. /\ NodeQueue \in Seq(Nat) /\ filters \in Seq(Nat) /\ strings \in [Strings -> Nat]
  BY DEF VoicesTyped, QueuesTyped
<1> DEFINE Kept == /\ node' \in Nodes' \cup {0} /\ (havenode' => node' # 0)
                   /\ Range(filters') \subseteq Range(filters) \cup (Nodes' \ Nodes)
                   /\ Range(NodeQueue') \subseteq Nodes' /\ Range(strings') \subseteq Nodes' \cup {0}
                   /\ NoRepeats(NodeQueue') /\ NoRepeats(filters')
                   /\ ~HasPoly => NodeQueue' = <<>>
                   /\ HasPoly => Range(NodeQueue') \subseteq Range(filters')
                   /\ kind = "piano" => Range(strings') \ {0} \subseteq Range(filters')
<1>4. ASSUME UNCHANGED <<NodeQueue, filters, strings>> /\ (UNCHANGED <<node, havenode>> \/ ReleaseNode)
      PROVE  Kept
  <2>1. node' \in Nodes' \cup {0} /\ (havenode' => node' # 0)
    BY <1>1, <1>4, ReleaseTyped, Zenon DEF NodesKept
  <2>2. QED
    BY <1>1, <1>4, <2>1 DEF NodesKept
<1>5. ASSUME NEW beat, Reset(beat) PROVE Kept
  <2>1. ReleaseNode /\ UNCHANGED filters
        /\ NodeQueue' = <<>> /\ strings' = (IF kind = "voicer" THEN [s \in Strings |-> 0] ELSE strings)
    BY <1>5 DEF Reset
  <2>2. node' \in Nodes' \cup {0} /\ (havenode' => node' # 0)
    BY <1>1, <2>1, ReleaseTyped, Zenon DEF NodesKept
  <2>3. Range(NodeQueue') = {} /\ NoRepeats(NodeQueue')
    BY <2>1 DEF Range, NoRepeats
  <2>4. Range(strings') \subseteq Range(strings) \cup {0}
    BY <2>1 DEF Range
  <2>5. QED
    BY <1>1, <2>1, <2>2, <2>3, <2>4 DEF NodesKept
<1>6. ASSUME NEW n \in Nodes, NodeEnds(n) PROVE Kept /\ n \notin Range(filters')
  <2>1. UNCHANGED <<node, havenode>>
    BY <1>6 DEF NodeEnds
  <2>2. Range(filters') = Range(filters) \ {n} /\ NoRepeats(filters')
    BY <1>3, <1>6, Received DEF NodesKept, NodeEnds
  <2>3. node' \in Nodes' \cup {0} /\ (havenode' => node' # 0)
    BY <1>1, <2>1 DEF NodesKept
  <2>4. Range(NodeQueue') = Range(NodeQueue) \ {n} /\ NoRepeats(NodeQueue') /\ (NodeQueue = <<>> => NodeQueue' = <<>>)
    <3>1. CASE n \in Range(filters) /\ n \in Range(NodeQueue)
      <4> DEFINE i == CHOOSE i \in DOMAIN NodeQueue : NodeQueue[i] = n
      <4>1. i \in DOMAIN NodeQueue /\ NodeQueue[i] = n
        BY <3>1 DEF Range
      <4>2. NodeQueue' = table_remove(NodeQueue, i)
        BY <1>6, <3>1 DEF NodeEnds
      <4> HIDE DEF i
      <4>3. NodeQueue # <<>>
        BY <4>1
      <4>4. QED
        BY <1>3, <4>1, <4>2, <4>3, Removed DEF NodesKept
    <3>2. CASE n \in Range(filters) /\ n \notin Range(NodeQueue)
      BY <1>6, <3>2 DEF NodeEnds, NodesKept
    <3>3. CASE n \notin Range(filters)
      <4>1. n \notin Range(NodeQueue)
        BY <3>3 DEF NodesKept, Range
      <4>2. QED
        BY <1>6, <3>3, <4>1 DEF NodeEnds, NodesKept
    <3>4. QED
      BY <3>1, <3>2, <3>3
  <2>5. Range(strings') \subseteq Range(strings) \cup {0} /\ (kind = "piano" => n \notin Range(strings'))
    <3>1. n # 0
      BY <1>6, <1>3 DEF Nodes, VoicesTyped
    <3>2. CASE n \in Range(filters)
      <4>1. strings' = [s \in Strings |-> IF kind = "piano" /\ strings[s] = n THEN 0 ELSE strings[s]]
        BY <1>6, <3>2 DEF NodeEnds
      <4>2. QED
        BY <1>3, <3>1, <4>1 DEF Range
    <3>3. CASE n \notin Range(filters)
      <4>1. strings' = strings
        BY <1>6, <3>3 DEF NodeEnds
      <4>2. QED
        BY <3>1, <3>3, <4>1 DEF NodesKept
    <3>4. QED
      BY <3>2, <3>3
  <2>6. QED
    BY <1>1, <2>2, <2>3, <2>4, <2>5 DEF NodesKept
<1>7. ASSUME PlayNote
      PROVE  Kept
  BY <1>7, NoteNodes
<1>8. ASSUME BeginFrame \/ StreamEnds
      PROVE  Kept
  BY <1>4, <1>5, <1>8 DEF BeginFrame, StreamEnds
<1>9. ASSUME NEW beat, StartPlayer(beat) \/ StopPlayer(beat) PROVE Kept
  BY <1>4, <1>5, <1>9 DEF StartPlayer, StopPlayer
<1>10. ASSUME Range(strings') \subseteq Range(strings) \cup {0}, UNCHANGED <<node, havenode, NodeQueue, filters>>
       PROVE  Kept
  BY <1>1, <1>10 DEF NodesKept
<1>11. ASSUME NEW e \in pianofreequeue, FreeOne(e) PROVE Kept
  <2>1. strings' = strings \/ strings' = [strings EXCEPT ![e.freq] = 0]
    BY <1>11 DEF FreeOne
  <2>2. Range(strings') \subseteq Range(strings) \cup {0}
    BY <1>3, <2>1 DEF Range
  <2>3. QED
    BY <1>10, <1>11, <2>2 DEF FreeOne
<1>12. ASSUME FreeRest
      PROVE  Kept
  <2>1. strings' = strings \/ strings' = [s \in Strings |-> IF \E q \in pedalqueue : q.freq = s THEN 0 ELSE strings[s]]
    BY <1>12 DEF FreeRest
  <2>2. Range(strings') \subseteq Range(strings) \cup {0}
    BY <1>3, <2>1 DEF Range
  <2>3. QED
    BY <1>10, <1>12, <2>2 DEF FreeRest
<1>13. ASSUME \/ \E beat \in Beats : Jump(beat)
              \/ \E delta \in Deltas, length \in Lengths : TakeEvent(delta, length)
              \/ \E e \in OsceventQueue : SendScheduled(e)
              \/ BeginTurn \/ EndTurn \/ EndFrame
       PROVE  Kept
  BY <1>4, <1>13 DEF Jump, TakeEvent, SendScheduled, BeginTurn, EndTurn, EndFrame
<1>14. Kept
  <2>1. CASE \E n \in DOMAIN voices : NodeEnds(n)
    BY <1>6, <2>1 DEF Nodes
  <2> HIDE DEF Kept
  <2>2. CASE \E beat \in (oldppq + 1)..ppq : StartPlayer(beat) \/ StopPlayer(beat)
    BY <1>9, <2>2
  <2>3. QED
    BY <1>7, <1>8, <1>11, <1>12, <1>13, <2>1, <2>2 DEF VoicesNext
<1>15. \A n \in Nodes' : voices'[n].told => n \notin Range(filters')
  <2> SUFFICES ASSUME NEW n \in Nodes', voices'[n].told PROVE n \notin Range(filters')
    OBVIOUS
  <2>1. n \in Nodes /\ (voices[n].told \/ NodeEnds(n))
    BY <1>1
  <2>2. CASE voices[n].told
    BY <1>14, <2>1, <2>2 DEF NodesKept
  <2>3. CASE NodeEnds(n)
    BY <1>6, <2>1, <2>3
  <2>4. QED
    BY <2>1, <2>2, <2>3
<1>16. Range(NodeQueue') \cup Range(filters') \subseteq Nodes'
  BY <1>1, <1>14 DEF NodesKept
<1>17. /\ ~HasPoly' => NodeQueue' = <<>>
       /\ HasPoly' => Range(NodeQueue') \subseteq Range(filters')
  BY <1>2, <1>14
<1>18. kind' = "piano" => Range(strings') \ {0} \subseteq Range(filters')
  BY <1>2, <1>14
<1>19. QED
  BY <1>14, <1>15, <1>16, <1>17, <1>18 DEF NodesKept

-----------------------------------------------------------------------------
\* Every voice has its end, or will be found again.
Done(n) == voices[n].ends # Never \/ voices[n].overtaken

LEMMA EndStays ==
  ASSUME VoicesTyped, VoicesNext, NEW n \in Nodes
  PROVE  /\ n \in Nodes' /\ n \in Nat \ {0} /\ voices[n] \in Voice /\ voices'[n] \in Voice
         /\ Goes(voices[n], voices'[n])
         /\ Done(n) => Done(n)'
         /\ voices[n].ends # Never => voices'[n].ends # Never
         /\ voices[n].warned => voices'[n].warned
<1>1. /\ voices \in Seq(Voice) /\ voices' \in Seq(Voice) /\ HistoryKept(voices, voices')
      /\ Nodes \subseteq Nodes'
  BY StepKeepsHistory DEF VoicesTyped, Nodes
<1>2. n \in Nodes' /\ n \in Nat \ {0} /\ voices[n] \in Voice /\ voices'[n] \in Voice
  BY <1>1 DEF Nodes
<1>3. Goes(voices[n], voices'[n])
  BY <1>1 DEF HistoryKept, Nodes
<1>4. voices[n].ends # Never => voices'[n].ends # Never
  <2>1. voices[n].ends \in Int
    BY <1>2 DEF Voice
  <2>2. voices[n].ends # Never => Over(voices[n], voices[n].ends)
    BY <2>1 DEF Over
  <2>3. QED
    BY <1>3, <2>1, <2>2 DEF Goes, Over
<1>5. voices[n].overtaken => voices'[n].overtaken
  BY <1>3 DEF Goes
<1>6. voices[n].warned => voices'[n].warned
  BY <1>3, Zenon DEF Goes
<1>7. QED
  BY <1>2, <1>3, <1>4, <1>5, <1>6, Zenon DEF Done

\* What a bundle ends is done with.
LEMMA EndedIsDone ==
  ASSUME VoicesTyped, NEW nodes, NEW at \in Nat, voices' = Ended(voices, nodes, at)
  PROVE  \A n \in Nodes : n \in nodes => Done(n)'
<1>1. voices \in Seq(Voice)
  BY DEF VoicesTyped
<1>2. \A n \in DOMAIN voices : n \in nodes => Over(voices'[n], at) \/ voices'[n].overtaken
  BY <1>1, EndedVoices
<1>3. QED
  BY <1>2, Zenon DEF Done, Over, Nodes

\* A step in which the player loses no node that is not done with or forgotten.
LEMMA StillAccounted ==
  ASSUME VoicesTyped, VoicesNext, NodesAccounted,
         kind' = kind, forgotten \subseteq forgotten',
         \A e \in OsceventQueue \ OsceventQueue' : e.node \in Nodes => Done(e.node)',
         \A n \in Range(NodeQueue) \ Range(NodeQueue') : n \in Nodes => Done(n)',
         \A n \in Range(strings) \ Range(strings') : n \in Nodes => Done(n)' \/ n \in forgotten',
         \A n \in Nodes : kind = "mono" /\ havenode /\ node = n =>
            (node' = n /\ havenode') \/ Done(n)' \/ \E e \in OsceventQueue' : e.node = n
  PROVE  \A n \in Nodes : Accounted(n)' \/ (kind' = "mono" /\ node' = n /\ havenode')
<1> SUFFICES ASSUME NEW n \in Nodes
             PROVE  Accounted(n)' \/ (kind' = "mono" /\ node' = n /\ havenode')
  OBVIOUS
<1>1. Done(n)' => Accounted(n)'
  BY DEF Done, Accounted
<1>2. (voices[n].ends # Never \/ voices[n].warned \/ voices[n].overtaken) => Accounted(n)'
  BY EndStays, Zenon DEF Accounted, Done
<1>3. (\E e \in OsceventQueue : e.node = n) => Accounted(n)'
  BY <1>1 DEF Accounted
<1>4. n \in Range(NodeQueue) => Accounted(n)'
  BY <1>1, Zenon DEF Accounted
<1>5. n \in Range(strings) => Accounted(n)'
  BY <1>1, Zenon DEF Accounted
<1>6. n \in forgotten => Accounted(n)'
  BY DEF Accounted
<1>7. kind = "mono" /\ node = n /\ havenode => Accounted(n)' \/ (kind' = "mono" /\ node' = n /\ havenode')
  BY <1>1, Zenon DEF Accounted
<1>8. QED
  BY <1>2, <1>3, <1>4, <1>5, <1>6, <1>7, Zenon DEF NodesAccounted, Accounted

LEMMA NoteAccounts ==
  ASSUME VoicesTyped, NodesKept, NodesAccounted, PlayNote
  PROVE  NodesAccounted'
<1> DEFINE note == Head(event.notes)
           at == Executed(ppq2time(pos))
           Found(n) == Accounted(n)' \/ (kind' = "mono" /\ node' = n /\ havenode')
           Kept == /\ \A e \in OsceventQueue \ OsceventQueue' : e.node \in Nodes => Done(e.node)'
                   /\ \A n \in Range(NodeQueue) \ Range(NodeQueue') : n \in Nodes => Done(n)'
                   /\ \A n \in Range(strings) \ Range(strings') : n \in Nodes => Done(n)' \/ n \in forgotten'
                   /\ \A n \in Nodes : kind = "mono" /\ havenode /\ node = n =>
                         (node' = n /\ havenode') \/ Done(n)' \/ \E e \in OsceventQueue' : e.node = n
           New == \A n \in Nodes' \ Nodes : Found(n)
<1>1. event # NoEvent /\ kind' = kind /\ forgotten' = forgotten /\ VoicesNext
  BY DEF PlayNote, VoicesNext
<1>2. SUFFICES Kept /\ New
  BY <1>1, StillAccounted DEF NodesAccounted
<1>3. /\ note.string \in Nat /\ note.set \in BOOLEAN /\ note.rest \in BOOLEAN
      /\ kind \in {"voicer", "piano"} => note.string \in Strings
  BY <1>1, NoteTyped
<1>4. at \in Nat /\ strings \in [Strings -> Nat] /\ NewNode \notin Nodes /\ NewNode # 0
  <2>1. at \in Nat /\ strings \in [Strings -> Nat] /\ voices \in Seq(Voice)
    BY ExecutedLater DEF VoicesTyped, TimesTyped, QueuesTyped
  <2>2. NewNode \notin Nodes /\ NewNode # 0
    BY <2>1 DEF NewNode, Nodes
  <2>3. QED
    BY <2>1, <2>2
<1>5. UNCHANGED voices => Nodes' = Nodes
  BY DEF Nodes
<1>6. ASSUME NEW nodes, voices' = Ended(voices, nodes, at)
      PROVE  Nodes' = Nodes /\ \A n \in Nodes : n \in nodes => Done(n)'
  <2>1. Nodes' = Nodes
    BY <1>6, <1>4, EndedVoices DEF Nodes, VoicesTyped
  <2> HIDE DEF at
  <2>2. \A n \in Nodes : n \in nodes => Done(n)'
    BY <1>6, <1>4, EndedIsDone
  <2>3. QED
    BY <2>1, <2>2
<1>7. ASSUME NEW string \in Nat, NEW warned \in BOOLEAN, StartVoice(string, warned)
      PROVE  /\ Nodes' \ Nodes = {NewNode}
             /\ \A n \in Nodes' \ Nodes : warned => Accounted(n)'
             /\ HasPoly => NewNode \in Range(NodeQueue')
             /\ \A n \in Range(NodeQueue) \ Range(NodeQueue') : n \in Nodes => Done(n)'
  <2>1. /\ Nodes' \ Nodes = {NewNode} /\ (HasPoly => NewNode \in Range(NodeQueue'))
        /\ ~HasPoly => NodeQueue' = NodeQueue
        /\ HasPoly => Range(NodeQueue) \ Range(NodeQueue') \subseteq Stolen(Append(NodeQueue, NewNode))
    BY <1>7, StartNodes
  <2>2. ASSUME warned, NEW n \in Nodes' \ Nodes PROVE Accounted(n)'
    <3>1. voices'[NewNode].warned /\ n = NewNode
      BY <1>7, <2>1, <2>2, StartVoiceVoices, Zenon
    <3>2. voices'[n].warned
      BY <3>1
    <3>3. QED
      BY <3>2 DEF Accounted
  <2>3. ASSUME NEW n \in Range(NodeQueue) \ Range(NodeQueue'), n \in Nodes PROVE Done(n)'
    <3>1. HasPoly /\ n \in Stolen(Append(NodeQueue, NewNode))
      BY <2>1, <2>3
    <3>2. Over(voices'[n], at) \/ voices'[n].overtaken
      BY <1>7, <2>3, <3>1, StartVoiceVoices DEF Nodes
    <3>3. QED
      BY <3>2, Zenon DEF Done, Over
  <2>4. QED
    BY <2>1, <2>2, <2>3
<1>8. CASE kind = "voicer"
  <2>1. PlayVoicerNote(note) /\ note.string \in Strings
    BY <1>3, <1>8 DEF PlayNote
  <2> HIDE DEF note
  <2>2. UNCHANGED <<node, havenode, OsceventQueue>>
    BY <2>1 DEF PlayVoicerNote
  <2>3. CASE note.rest
    <3>1. /\ voices' = Ended(voices, {strings[note.string]}, at)
          /\ strings' = [strings EXCEPT ![note.string] = 0] /\ NodeQueue' = NodeQueue
      BY <2>1, <2>3 DEF PlayVoicerNote
    <3>2. Nodes' = Nodes /\ \A n \in Nodes : n = strings[note.string] => Done(n)'
      <4> HIDE DEF at
      <4>1. QED
        BY <1>6, <3>1
    <3>3. Range(strings) \ Range(strings') \subseteq {strings[note.string]}
      BY <1>4, <2>1, <3>1 DEF Range
    <3>4. New
      BY <3>2
    <3>5. Kept
      BY <1>8, <2>2, <3>1, <3>2, <3>3
    <3>6. QED
      BY <3>4, <3>5
  <2>4. CASE ~note.rest /\ strings[note.string] # 0
    <3>1. UNCHANGED <<voices, strings, NodeQueue>>
      BY <2>1, <2>4 DEF PlayVoicerNote
    <3>2. QED
      BY <1>5, <1>8, <2>2, <3>1
  <2>5. CASE ~note.rest /\ strings[note.string] = 0
    <3>1. /\ StartVoice(note.string, FALSE) /\ strings' = [strings EXCEPT ![note.string] = NewNode]
      BY <2>1, <2>5 DEF PlayVoicerNote
    <3>2. /\ Nodes' \ Nodes = {NewNode}
          /\ \A n \in Range(NodeQueue) \ Range(NodeQueue') : n \in Nodes => Done(n)'
      BY <1>3, <1>7, <3>1
    <3>3. Range(strings) \ Range(strings') \subseteq {0} /\ NewNode \in Range(strings')
      BY <1>4, <2>1, <2>5, <3>1 DEF Range
    <3>4. New
      BY <3>2, <3>3 DEF Accounted
    <3>5. 0 \notin Nodes
      BY DEF Nodes, VoicesTyped
    <3>6. Kept
      BY <1>8, <2>2, <3>2, <3>3, <3>5
    <3>7. QED
      BY <3>4, <3>6
  <2>6. QED
    BY <1>3, <2>3, <2>4, <2>5
<1>9. CASE kind = "piano"
  <2>1. PlayPianoNote(note) /\ note.string \in Strings
    BY <1>3, <1>9 DEF PlayNote
  <2> HIDE DEF note
  <2>2. UNCHANGED <<node, havenode, OsceventQueue>>
    BY <2>1 DEF PlayPianoNote
  <2>3. strings[note.string] \in Nodes \cup {0}
    BY <1>4, <2>1 DEF NodesKept, Range
  <2>4. CASE ~note.rest /\ strings[note.string] = 0
    <3>1. /\ StartVoice(note.string, FALSE) /\ strings' = [strings EXCEPT ![note.string] = NewNode]
      BY <2>1, <2>4 DEF PlayPianoNote
    <3>2. /\ Nodes' \ Nodes = {NewNode}
          /\ \A n \in Range(NodeQueue) \ Range(NodeQueue') : n \in Nodes => Done(n)'
      BY <1>3, <1>7, <3>1
    <3>3. Range(strings) \ Range(strings') \subseteq {0} /\ NewNode \in Range(strings')
      BY <1>4, <2>1, <2>4, <3>1 DEF Range
    <3>4. New
      BY <3>2, <3>3 DEF Accounted
    <3>5. 0 \notin Nodes
      BY DEF Nodes, VoicesTyped
    <3>6. Kept
      BY <1>9, <2>2, <3>2, <3>3, <3>5
    <3>7. QED
      BY <3>4, <3>6
  <2>5. CASE note.rest \/ strings[note.string] # 0
    <3>1. UNCHANGED <<voices, NodeQueue>> /\ (strings' = strings \/ strings' = [strings EXCEPT ![note.string] = @])
      BY <1>4, <2>1, <2>3, <2>5 DEF PlayPianoNote
    <3>2. strings' = strings
      BY <1>4, <3>1
    <3>3. QED
      BY <1>5, <1>9, <2>2, <3>1, <3>2
  <2>6. QED
    BY <1>3, <2>4, <2>5
<1>10. CASE kind # "voicer" /\ kind # "piano"
  <2>1. PlayOscNote(note)
    BY <1>10 DEF PlayNote
  <2> HIDE DEF note
  <2>2. strings' = strings
    BY <2>1 DEF PlayOscNote
  <2>3. CASE note.rest
    <3>1. voices' = Ended(voices, ReleasedNodes, at) /\ ReleaseNode /\ UNCHANGED <<NodeQueue, OsceventQueue>>
      BY <2>1, <2>3 DEF PlayOscNote
    <3>2. Nodes' = Nodes /\ \A n \in Nodes : n \in ReleasedNodes => Done(n)'
      <4> HIDE DEF at
      <4>1. QED
        BY <1>6, <3>1
    <3>3. ASSUME NEW n \in Nodes, node = n PROVE Done(n)'
      <4>1. n \in ReleasedNodes
        BY <1>10, <3>3 DEF ReleasedNodes, Nodes, VoicesTyped
      <4>2. QED
        BY <3>2, <4>1
    <3>4. QED
      BY <2>2, <3>1, <3>2, <3>3
  <2>4. CASE ~note.rest
    <3> DEFINE set == note.set \/ (kind = "mono" /\ havenode)
               dontfree == \/ kind = "polyheld"
                           \/ (kind = "mono" /\ event.length >= event.delta)
                           \/ (kind = "plain" /\ note.set)
    <3>1. /\ IF set /\ node # 0 THEN UNCHANGED <<voices, NodeQueue, filters, node>>
             ELSE StartVoice(note.string, set) /\ node' = NewNode
          /\ IF dontfree THEN havenode' = (havenode \/ node' # node) /\ UNCHANGED OsceventQueue
             ELSE /\ havenode' = FALSE
                  /\ OsceventQueue' = OsceventQueue \cup {[time |-> pos + event.length, node |-> node']}
      BY <2>1, <2>4 DEF PlayOscNote
    <3>2. set \in BOOLEAN /\ (kind = "mono" /\ havenode => set) /\ (kind = "plain" /\ note.set => set)
      OBVIOUS
    <3>3. dontfree => kind = "polyheld" \/ kind = "mono" \/ (kind = "plain" /\ note.set)
      OBVIOUS
    <3> HIDE DEF set, dontfree
    <3>4. OsceventQueue \subseteq OsceventQueue' /\ (~dontfree => \E e \in OsceventQueue' : e.node = node')
      <4> DEFINE new == [time |-> pos + event.length, node |-> node']
      <4>1. new.node = node'
        OBVIOUS
      <4> HIDE DEF new
      <4>2. IF dontfree THEN OsceventQueue' = OsceventQueue ELSE OsceventQueue' = OsceventQueue \cup {new}
        BY <3>1 DEF new
      <4>3. QED
        BY <4>1, <4>2
    <3>5. kind = "mono" /\ havenode => node # 0
      BY DEF NodesKept
    <3>6. CASE set /\ node # 0
      <4>1. UNCHANGED <<voices, NodeQueue, node>>
        BY <3>1, <3>6
      <4>2. kind = "mono" /\ havenode => havenode' \/ \E e \in OsceventQueue' : e.node = node'
        BY <3>1, <3>4, Zenon
      <4>3. Kept
        BY <2>2, <3>4, <4>1, <4>2
      <4>4. QED
        BY <1>5, <4>1, <4>3
    <3>7. CASE ~(set /\ node # 0)
      <4>1. StartVoice(note.string, set) /\ node' = NewNode
        BY <3>1, <3>7
      <4>2. /\ Nodes' \ Nodes = {NewNode}
            /\ set => \A n \in Nodes' \ Nodes : Accounted(n)'
            /\ HasPoly => NewNode \in Range(NodeQueue')
            /\ \A n \in Range(NodeQueue) \ Range(NodeQueue') : n \in Nodes => Done(n)'
        BY <1>3, <1>7, <3>2, <4>1
      <4>3. Kept
        BY <2>2, <3>2, <3>4, <3>5, <3>7, <4>2
      <4>4. node \notin {NewNode}
        BY <1>4 DEF NodesKept
      <4>5. ASSUME NEW n \in Nodes' \ Nodes PROVE Found(n)
        <5>1. n = NewNode /\ node' = n
          BY <4>1, <4>2
        <5>2. CASE ~dontfree
          BY <3>4, <5>1, <5>2 DEF Accounted
        <5>3. CASE dontfree /\ kind = "polyheld"
          <6>1. n \in Range(NodeQueue')
            BY <4>2, <5>1, <5>3 DEF HasPoly
          <6>2. QED
            BY <6>1 DEF Accounted
        <5>4. CASE dontfree /\ kind = "mono"
          <6>1. havenode' = (havenode \/ node' # node) /\ node' # node
            BY <3>1, <4>1, <4>4, <5>4
          <6>2. havenode'
            BY <6>1, Zenon
          <6>3. QED
            BY <1>1, <5>1, <5>4, <6>2
        <5>5. CASE dontfree /\ kind = "plain" /\ note.set
          BY <3>2, <4>2, <5>5
        <5>6. QED
          BY <3>3, <5>2, <5>3, <5>4, <5>5
      <4> HIDE DEF Kept, Found
      <4>6. QED
        BY <4>3, <4>5
    <3>8. QED
      BY <3>6, <3>7
  <2>5. QED
    BY <1>3, <2>3, <2>4
<1> HIDE DEF Kept, New
<1>11. QED
  BY <1>8, <1>9, <1>10

\* No step of the player or the server leaves a voice to sound for ever.
LEMMA StepAccounts ==
  ASSUME VoicesTyped, NodesKept, NodesAccounted, VoicesNext
  PROVE  NodesAccounted'
<1>1. kind' = kind
  BY DEF VoicesNext, NodeEnds, Jump, BeginFrame, StartPlayer, StopPlayer, BeginTurn, FreeOne, FreeRest,
         TakeEvent, PlayNote, StreamEnds, EndTurn, SendScheduled, EndFrame
<1>2. strings \in [Strings -> Nat] /\ pos \in Int /\ 0 \notin Nodes /\ voices \in Seq(Voice)
  BY DEF VoicesTyped, QueuesTyped, TimesTyped, Nodes
<1>3. CASE PlayNote
  BY <1>3, NoteAccounts
<1> DEFINE Kept == /\ Nodes' = Nodes
                   /\ forgotten \subseteq forgotten'
                   /\ \A e \in OsceventQueue \ OsceventQueue' : e.node \in Nodes => Done(e.node)'
                   /\ \A n \in Range(NodeQueue) \ Range(NodeQueue') : n \in Nodes => Done(n)'
                   /\ \A n \in Range(strings) \ Range(strings') : n \in Nodes => Done(n)' \/ n \in forgotten'
                   /\ \A n \in Nodes : kind = "mono" /\ havenode /\ node = n =>
                         (node' = n /\ havenode') \/ Done(n)' \/ \E e \in OsceventQueue' : e.node = n
<1>4. ASSUME Kept PROVE NodesAccounted'
  BY <1>1, <1>4, StillAccounted DEF NodesAccounted
<1>5. ASSUME UNCHANGED <<NodeQueue, strings, OsceventQueue, node, havenode, forgotten>>, Nodes' = Nodes
      PROVE  Kept
  BY <1>5
<1>6. ASSUME NEW nodes, NEW at \in Nat, voices' = Ended(voices, nodes, at)
      PROVE  Nodes' = Nodes /\ \A n \in Nodes : n \in nodes => Done(n)'
  <2>1. Nodes' = Nodes
    BY <1>6, EndedVoices DEF Nodes, VoicesTyped
  <2>2. \A n \in Nodes : n \in nodes => Done(n)'
    BY <1>6, EndedIsDone
  <2>3. QED
    BY <2>1, <2>2
<1>7. ASSUME ReleaseNode, \A n \in Nodes : n \in ReleasedNodes => Done(n)'
      PROVE  \A n \in Nodes : kind = "mono" /\ havenode /\ node = n => (node' = n /\ havenode') \/ Done(n)'
  <2> SUFFICES ASSUME NEW n \in Nodes, kind = "mono", havenode, node = n PROVE Done(n)'
    OBVIOUS
  <2>1. n \in ReleasedNodes
    BY <1>2 DEF ReleasedNodes
  <2>2. QED
    BY <1>7, <2>1
<1>8. ASSUME NEW beat, Reset(beat) PROVE Kept
  <2>1. /\ ReleaseNode /\ UNCHANGED <<OsceventQueue, forgotten>>
        /\ NodeQueue' = <<>> /\ strings' = (IF kind = "voicer" THEN [s \in Strings |-> 0] ELSE strings)
    BY <1>8 DEF Reset
  <2>2. Nodes' = Nodes
    BY <1>8, ResetVoices DEF Nodes
  <2>3. \A n \in Nodes :
           n \in ReleasedNodes \/ (HasPoly /\ n \in Range(NodeQueue)) \/ (kind = "voicer" /\ n \in Range(strings))
              => Done(n)'
    BY <1>8, ResetVoices DEF Nodes, Done
  <2>4. ~HasPoly => Range(NodeQueue) = {}
    BY DEF NodesKept, Range
  <2>5. \A n \in Range(strings) \ Range(strings') : n \in Nodes => Done(n)'
    BY <2>1, <2>3
  <2>6. \A n \in Range(NodeQueue) \ Range(NodeQueue') : n \in Nodes => Done(n)'
    BY <2>3, <2>4
  <2>7. \A n \in Nodes : kind = "mono" /\ havenode /\ node = n => (node' = n /\ havenode') \/ Done(n)'
    BY <1>7, <2>1, <2>3
  <2>8. QED
    BY <2>1, <2>2, <2>5, <2>6, <2>7
<1>9. ASSUME NEW n \in Nodes, NodeEnds(n) PROVE Kept
  <2>1. UNCHANGED <<node, havenode, OsceventQueue, forgotten>>
    BY <1>9 DEF NodeEnds
  <2>2. Nodes' = Nodes /\ Over(voices'[n], clock)
    BY <1>9, ToldVoices DEF Nodes
  <2>3. Done(n)'
    BY <2>2 DEF Done, Over
  <2>4. Range(NodeQueue) \ Range(NodeQueue') \subseteq {n}
    <3>1. CASE n \in Range(filters) /\ n \in Range(NodeQueue)
      <4> DEFINE i == CHOOSE i \in DOMAIN NodeQueue : NodeQueue[i] = n
      <4>1. i \in DOMAIN NodeQueue /\ NodeQueue[i] = n
        BY <3>1 DEF Range
      <4>2. NodeQueue' = table_remove(NodeQueue, i)
        BY <1>9, <3>1 DEF NodeEnds
      <4> HIDE DEF i
      <4>3. QED
        BY <4>1, <4>2, Removed DEF NodesKept, VoicesTyped, QueuesTyped
    <3>2. CASE ~(n \in Range(filters) /\ n \in Range(NodeQueue))
      <4>1. NodeQueue' = NodeQueue
        BY <1>9, <3>2 DEF NodeEnds
      <4>2. QED
        BY <4>1
    <3>3. QED
      BY <3>1, <3>2
  <2>5. Range(strings) \ Range(strings') \subseteq {n}
    <3>1. \/ strings' = strings
          \/ strings' = [s \in Strings |-> IF kind = "piano" /\ strings[s] = n THEN 0 ELSE strings[s]]
      BY <1>9 DEF NodeEnds
    <3>2. QED
      BY <1>2, <3>1 DEF Range
  <2>6. QED
    BY <2>1, <2>2, <2>3, <2>4, <2>5
<1>10. CASE BeginFrame \/ StreamEnds
  <2>1. (\E beat : Reset(beat)) \/ UNCHANGED <<NodeQueue, strings, OsceventQueue, node, havenode, forgotten, voices>>
    BY <1>10 DEF BeginFrame, StreamEnds
  <2>2. UNCHANGED voices => Nodes' = Nodes
    BY DEF Nodes
  <2> HIDE DEF Kept
  <2>3. QED
    BY <1>4, <1>5, <1>8, <2>1, <2>2
<1>11. ASSUME NEW beat \in Int, StartPlayer(beat) \/ StopPlayer(beat) PROVE NodesAccounted'
  <2>1. CASE StartPlayer(beat)
    <3> HIDE DEF Kept
    <3>1. QED
      BY <1>4, <1>8, <2>1 DEF StartPlayer
  <2>2. CASE StopPlayer(beat)
    <3> DEFINE at == Executed(ppq2time(beat))
    <3>1. at \in Nat
      BY ExecutedLater
    <3>2. /\ voices' = Ended(voices, ReleasedNodes, at) /\ ReleaseNode
          /\ UNCHANGED <<NodeQueue, strings, OsceventQueue, forgotten>>
      BY <2>2 DEF StopPlayer
    <3> HIDE DEF at
    <3>3. Nodes' = Nodes /\ \A n \in Nodes : n \in ReleasedNodes => Done(n)'
      BY <1>6, <3>1, <3>2
    <3>4. \A n \in Nodes : kind = "mono" /\ havenode /\ node = n => (node' = n /\ havenode') \/ Done(n)'
      BY <1>7, <3>2, <3>3
    <3>5. Kept
      BY <3>2, <3>3, <3>4
    <3> HIDE DEF Kept
    <3>6. QED
      BY <1>4, <3>5
  <2>3. QED
    BY <1>11, <2>1, <2>2
<1>12. ASSUME NEW e \in pianofreequeue, FreeOne(e) PROVE Kept
  <2>1. UNCHANGED <<node, havenode, NodeQueue, OsceventQueue>>
    BY <1>12 DEF FreeOne
  <2>2. CASE UNCHANGED <<voices, strings, forgotten>>
    <3>1. Nodes' = Nodes
      BY <2>2 DEF Nodes
    <3>2. QED
      BY <2>1, <2>2, <3>1
  <2>3. CASE ~UNCHANGED <<voices, strings, forgotten>>
    <3> DEFINE at == Executed(ppq2time(nodetimetofree[e.node]))
    <3>1. /\ voices' = Ended(voices, {e.node}, at)
          /\ strings' = [strings EXCEPT ![e.freq] = 0]
          /\ forgotten' = forgotten \cup ({strings[e.freq]} \ {e.node})
      BY <1>12, <2>3 DEF FreeOne
    <3>2. nodetimetofree[e.node] \in Int
      BY DEF VoicesTyped, QueuesTyped
    <3>3. at \in Nat
      BY <3>2, ExecutedLater
    <3> HIDE DEF at
    <3>4. Nodes' = Nodes /\ \A n \in Nodes : n \in {e.node} => Done(n)'
      BY <1>6, <3>1, <3>3
    <3>5. Range(strings) \ Range(strings') \subseteq {strings[e.freq]}
      BY <1>2, <3>1 DEF Range
    <3>6. QED
      BY <2>1, <3>1, <3>4, <3>5
  <2>4. QED
    BY <2>2, <2>3
<1>13. CASE FreeRest
  <2>1. UNCHANGED <<node, havenode, NodeQueue, OsceventQueue>>
    BY <1>13 DEF FreeRest
  <2>2. CASE pianopedal
    <3>1. UNCHANGED <<voices, strings, forgotten>>
      BY <1>13, <2>2 DEF FreeRest
    <3>2. Nodes' = Nodes
      BY <3>1 DEF Nodes
    <3> HIDE DEF Kept
    <3>3. QED
      BY <1>4, <1>5, <2>1, <3>1, <3>2
  <2>3. CASE ~pianopedal
    <3> DEFINE at == Executed(ppq2time(pos))
               held == {q.node : q \in pedalqueue}
    <3>1. /\ voices' = Ended(voices, held, at)
          /\ strings' = [s \in Strings |-> IF \E q \in pedalqueue : q.freq = s THEN 0 ELSE strings[s]]
          /\ forgotten' = forgotten \cup ({strings[q.freq] : q \in pedalqueue} \ (held \cup {0}))
      BY <1>13, <2>3 DEF FreeRest
    <3>2. at \in Nat
      BY <1>2, ExecutedLater
    <3> HIDE DEF at
    <3>3. Nodes' = Nodes /\ \A n \in Nodes : n \in held => Done(n)'
      BY <1>6, <3>1, <3>2
    <3>4. Range(strings) \ Range(strings') \subseteq {strings[q.freq] : q \in pedalqueue}
      BY <1>2, <3>1 DEF Range
    <3> HIDE DEF held
    <3>5. Kept
      BY <1>2, <2>1, <3>1, <3>3, <3>4
    <3> HIDE DEF Kept
    <3>6. QED
      BY <1>4, <3>5
  <2>4. QED
    BY <2>2, <2>3
<1>14. ASSUME NEW e \in OsceventQueue, SendScheduled(e) PROVE Kept
  <2> DEFINE at == Executed(IF e.time < oldppq THEN now_secs ELSE ppq2time(e.time))
  <2>1. /\ voices' = Ended(voices, {e.node}, at) /\ OsceventQueue' = OsceventQueue \ {e}
        /\ UNCHANGED <<node, havenode, NodeQueue, strings, forgotten>>
    BY <1>14 DEF SendScheduled
  <2>2. e.time \in Int
    BY DEF VoicesTyped, QueuesTyped
  <2>3. at \in Nat
    BY <2>2, ExecutedLater
  <2> HIDE DEF at
  <2>4. Nodes' = Nodes /\ \A n \in Nodes : n \in {e.node} => Done(n)'
    BY <1>6, <2>1, <2>3
  <2>5. QED
    BY <2>1, <2>4
<1>15. CASE \/ \E beat \in Beats : Jump(beat)
            \/ \E delta \in Deltas, length \in Lengths : TakeEvent(delta, length)
            \/ BeginTurn \/ EndTurn \/ EndFrame
  <2>1. UNCHANGED <<NodeQueue, strings, OsceventQueue, node, havenode, forgotten, voices>>
    BY <1>15 DEF Jump, TakeEvent, BeginTurn, EndTurn, EndFrame
  <2>2. Nodes' = Nodes
    BY <2>1 DEF Nodes
  <2> HIDE DEF Kept
  <2>3. QED
    BY <1>4, <1>5, <2>1, <2>2
<1> HIDE DEF Kept
<1>16. CASE \E n \in DOMAIN voices : NodeEnds(n)
  BY <1>4, <1>9, <1>16 DEF Nodes
<1>17. CASE \E beat \in (oldppq + 1)..ppq : StartPlayer(beat) \/ StopPlayer(beat)
  <2>1. PICK beat \in (oldppq + 1)..ppq : StartPlayer(beat) \/ StopPlayer(beat)
    BY <1>17
  <2>2. beat \in Int
    BY <2>1 DEF VoicesTyped, TimesTyped
  <2>3. QED
    BY <1>11, <2>1, <2>2
<1>18. CASE \E e \in pianofreequeue : FreeOne(e)
  BY <1>4, <1>12, <1>18
<1>19. CASE \E e \in OsceventQueue : SendScheduled(e)
  BY <1>4, <1>14, <1>19
<1>20. QED
  BY <1>3, <1>10, <1>13, <1>15, <1>16, <1>17, <1>18, <1>19 DEF VoicesNext

-----------------------------------------------------------------------------
\* Time goes on: what is sent now is not executed before what was sent since the last Reset or jump.
LEMMA EarliestTime ==
  ASSUME VoicesTyped
  PROVE  /\ Earliest \in Nat /\ clock \in Nat /\ clock <= Earliest
         /\ stage # "idle" => Executed(ppq2time(pos)) = Earliest
  BY Numbers DEF VoicesTyped, TimesTyped, Earliest, Offset, Executed, ppq2time, now_secs

LEMMA TimeGoesOn ==
  ASSUME VoicesTyped, VoicesNext
  PROVE  \/ since' = Len(voices) + 1 /\ Len(voices') = Len(voices)
         \/ since' = since /\ Earliest' >= Earliest
<1>1. /\ clock \in Nat /\ oldppq \in Nat /\ ppq \in Nat /\ pos \in Int /\ Frame \in Nat /\ Latency \in Nat
      /\ stage # "idle" => ppq = oldppq + Frame
  BY Numbers DEF VoicesTyped, TimesTyped
<1>2. CASE since' = since /\ UNCHANGED <<clock, oldppq, ppq, stage>> /\ pos' \in Int /\ pos' >= pos
  <2>1. Offset' = Offset /\ Offset \in Int /\ clock' = clock
    BY <1>1, <1>2 DEF Offset
  <2>2. pos' \in Int /\ pos' >= pos /\ since' = since
    BY <1>2
  <2>3. Earliest = (IF pos + Offset + Latency > clock + Frame THEN pos + Offset + Latency ELSE clock + Frame)
    BY DEF Earliest
  <2>4. Earliest' = (IF pos' + Offset + Latency > clock + Frame THEN pos' + Offset + Latency ELSE clock + Frame)
    BY <2>1 DEF Earliest
  <2>5. Earliest' >= Earliest
    <3> DEFINE d == Offset + Latency
    <3>1. d \in Int /\ pos + Offset + Latency = pos + d /\ pos' + Offset + Latency = pos' + d
      BY <1>1, <2>1, <2>2
    <3>2. clock + Frame \in Int
      BY <1>1
    <3> HIDE DEF d
    <3>3. pos \in Int /\ pos' \in Int /\ pos' >= pos
      BY <1>1, <2>2
    <3>4. QED
      BY <2>3, <2>4, <3>1, <3>2, <3>3
  <2>6. QED
    BY <2>2, <2>5
<1>3. ASSUME NEW beat, Reset(beat) PROVE since' = Len(voices) + 1 /\ Len(voices') = Len(voices)
  BY <1>3, ResetVoices
<1>4. CASE \E beat \in Beats : Jump(beat)
  BY <1>4 DEF Jump
<1>5. CASE BeginFrame
  <2>1. CASE \E beat : Reset(beat)
    BY <1>3, <2>1
  <2>2. CASE UNCHANGED <<pos, since>>
    BY <1>1, <1>5, <2>2 DEF BeginFrame, Earliest, Offset
  <2>3. QED
    BY <1>5, <2>1, <2>2 DEF BeginFrame
<1>6. CASE EndFrame
  BY <1>1, <1>6 DEF EndFrame, section, Earliest, Offset
<1>7. CASE PlayNote
  BY <1>2, <1>7, NoteTypes DEF PlayNote, transport
<1>8. CASE \E delta \in Deltas, length \in Lengths : TakeEvent(delta, length)
  <2>1. PICK delta \in Deltas, length \in Lengths : TakeEvent(delta, length)
    BY <1>8
  <2>2. pos' = pos \/ pos' = pos + delta
    BY <2>1 DEF TakeEvent
  <2>3. pos' \in Int /\ pos' >= pos
    BY <1>1, <2>2, Numbers
  <2>4. QED
    BY <1>2, <2>1, <2>3 DEF TakeEvent, transport
<1>9. CASE StreamEnds
  <2>1. CASE \E beat : Reset(beat)
    BY <1>3, <2>1
  <2>2. CASE UNCHANGED <<pos, since>>
    BY <1>1, <1>2, <1>9, <2>2 DEF StreamEnds, transport
  <2>3. QED
    BY <1>9, <2>1, <2>2 DEF StreamEnds
<1>10. CASE BeginTurn \/ EndTurn
  <2>1. UNCHANGED <<since, clock, oldppq, ppq, pos>> /\ stage # "idle" /\ stage' # "idle"
    BY <1>10 DEF BeginTurn, EndTurn, transport, section
  <2>2. QED
    BY <1>1, <2>1 DEF Earliest, Offset
<1>11. CASE FreeRest
  <2>1. UNCHANGED <<since, clock, oldppq, ppq, pos>> /\ stage # "idle" /\ stage' # "idle"
    BY <1>11 DEF FreeRest, transport, section
  <2>2. QED
    BY <1>1, <2>1 DEF Earliest, Offset
<1>12. CASE \/ \E n \in DOMAIN voices : NodeEnds(n)
            \/ \E e \in pianofreequeue : FreeOne(e)
            \/ \E e \in OsceventQueue : SendScheduled(e)
  <2>1. UNCHANGED <<since, clock, oldppq, ppq, stage, pos>>
    BY <1>12 DEF NodeEnds, FreeOne, SendScheduled, transport, section
  <2>2. pos' \in Int /\ pos' >= pos
    BY <1>1, <2>1
  <2>3. QED
    BY <1>2, <2>1, <2>2
<1>13. ASSUME NEW beat, StartPlayer(beat) PROVE since' = Len(voices) + 1 /\ Len(voices') = Len(voices)
  BY <1>3, <1>13 DEF StartPlayer
<1>14. ASSUME NEW beat, StopPlayer(beat)
       PROVE  since' = since /\ UNCHANGED <<clock, oldppq, ppq, stage>> /\ pos' \in Int /\ pos' >= pos
  BY <1>1, <1>14 DEF StopPlayer, transport
<1>15. CASE \E beat \in (oldppq + 1)..ppq : StartPlayer(beat) \/ StopPlayer(beat)
  BY <1>2, <1>13, <1>14, <1>15
<1>16. QED
  BY <1>4, <1>5, <1>6, <1>7, <1>8, <1>9, <1>10, <1>11, <1>12, <1>15 DEF VoicesNext

\* Of the voices since the last Reset or jump, those there were stay, and have the history they had.
LEMMA RecentVoices ==
  ASSUME VoicesTyped, VoicesTyped', VoicesNext
  PROVE  \/ Recent' = {}
         \/ /\ since' = since /\ Earliest' >= Earliest /\ Earliest \in Nat /\ Earliest' \in Int
            /\ Recent' \cap Nodes = Recent
            /\ \A n \in Recent : /\ voices'[n].begins = voices[n].begins
                                 /\ voices'[n].string = voices[n].string
                                 /\ voices[n].overtaken => voices'[n].overtaken
                                 /\ \A t \in Int : Over(voices[n], t) => Over(voices'[n], t)
<1>1. /\ voices \in Seq(Voice) /\ voices' \in Seq(Voice) /\ since \in Nat
      /\ Nodes = 1..Len(voices) /\ Nodes' = 1..Len(voices') /\ Nodes \subseteq Nodes'
  BY StepKeepsHistory DEF VoicesTyped, PlayerTyped, Nodes
<1>2. CASE since' = Len(voices) + 1 /\ Len(voices') = Len(voices)
  <2>1. Recent' = {n \in 1..Len(voices) : n >= Len(voices) + 1}
    BY <1>1, <1>2 DEF Recent
  <2>2. Recent' = {}
    BY <1>1, <2>1
  <2>3. QED
    BY <2>2
<1>3. CASE since' = since /\ Earliest' >= Earliest
  <2>1. Recent' \cap Nodes = Recent
    BY <1>1, <1>3 DEF Recent
  <2>2. ASSUME NEW n \in Recent PROVE Goes(voices[n], voices'[n])
    BY EndStays DEF Recent
  <2>3. ASSUME NEW n \in Recent
        PROVE  /\ voices'[n].begins = voices[n].begins
               /\ voices'[n].string = voices[n].string
               /\ voices[n].overtaken => voices'[n].overtaken
               /\ \A t \in Int : Over(voices[n], t) => Over(voices'[n], t)
    BY <2>2, Zenon DEF Goes
  <2>4. Earliest \in Nat /\ Earliest' \in Int
    <3>1. Earliest \in Nat
      BY EarliestTime
    <3>2. Earliest' \in Int
      <4>1. /\ clock' \in Nat /\ oldppq' \in Nat /\ ppq' \in Nat /\ pos' \in Int
            /\ Frame \in Nat /\ Latency \in Nat
        BY Numbers DEF VoicesTyped, TimesTyped
      <4>2. Offset' \in Int
        BY <4>1 DEF Offset
      <4> DEFINE x == pos' + Offset' + Latency
                 y == clock' + Frame
      <4>3. x \in Int /\ y \in Int
        BY <4>1, <4>2
      <4>4. Earliest' = (IF x > y THEN x ELSE y)
        BY DEF Earliest
      <4> HIDE DEF x, y
      <4>5. QED
        BY <4>3, <4>4
    <3>3. QED
      BY <3>1, <3>2
  <2>5. QED
    BY <1>3, <2>1, <2>3, <2>4
<1>4. QED
  BY <1>2, <1>3, TimeGoesOn

-----------------------------------------------------------------------------
\* A poly player keeps its maximum.
AtMostPoly == HasPoly => \A t \in Int : Cardinality({n \in Recent : Open(n, t)}) <= Poly

LEMMA RangeBound ==
  ASSUME NEW list \in Seq(Nat)
  PROVE  IsFiniteSet(Range(list)) /\ Cardinality(Range(list)) <= Len(list)
<1>1. Len(list) \in Nat /\ DOMAIN list = 1..Len(list)
  OBVIOUS
<1>2. list \in Surjection(1..Len(list), Range(list))
  BY <1>1 DEF Surjection, Range
<1>3. IsFiniteSet(1..Len(list)) /\ Cardinality(1..Len(list)) = Len(list)
  BY SMTT(30), <1>1, FS_Interval
<1>4. QED
  BY <1>2, <1>3, FS_Surjection

\* Once over, a voice stays so.
LEMMA OverLater ==
  ASSUME NEW v \in Voice, NEW t \in Int, NEW u \in Int, t <= u, Over(v, t)
  PROVE  Over(v, u)
  BY DEF Voice, Over

\* What the poly player's queue loses is over when the next voice begins, and what begins is queued.
LEMMA QueueLosses ==
  ASSUME VoicesTyped, NodesKept, PolyKept, HasPoly, VoicesNext
  PROVE  /\ Len(NodeQueue') <= Poly
         /\ Recent' = {} \/ \A n \in Range(NodeQueue) \ Range(NodeQueue') : n \in Recent => Over(voices'[n], Earliest)
         /\ \A n \in Nodes' \ Nodes : n \in Range(NodeQueue') /\ voices'[n].begins = Earliest
<1>1. /\ NodeQueue \in Seq(Nat) /\ voices \in Seq(Voice) /\ Len(NodeQueue) <= Poly /\ Poly \in Nat
      /\ Nodes = 1..Len(voices) /\ strings \in [Strings -> Nat] /\ since \in Nat
      /\ Earliest \in Nat /\ clock \in Nat /\ clock <= Earliest
  BY Numbers, EarliestTime DEF VoicesTyped, QueuesTyped, PlayerTyped, PolyKept, Nodes
<1> DEFINE Kept == /\ Len(NodeQueue') <= Poly
                   /\ Recent' = {} \/ \A n \in Range(NodeQueue) \ Range(NodeQueue') : n \in Recent => Over(voices'[n], Earliest)
                   /\ \A n \in Nodes' \ Nodes : n \in Range(NodeQueue') /\ voices'[n].begins = Earliest
<1>2. ASSUME UNCHANGED NodeQueue, Nodes' = Nodes PROVE Kept
  BY <1>1, <1>2
<1>3. ASSUME NEW nodes, NEW at \in Nat, voices' = Ended(voices, nodes, at) PROVE Nodes' = Nodes
  BY <1>1, <1>3, EndedVoices DEF Nodes
<1>4. ASSUME UNCHANGED voices PROVE Nodes' = Nodes
  BY <1>4 DEF Nodes
<1>5. ASSUME NEW beat, Reset(beat) PROVE Kept
  <2>1. NodeQueue' = <<>> /\ Nodes' = Nodes /\ since' = Len(voices) + 1
    BY <1>5, ResetVoices DEF Reset, Nodes
  <2>2. Recent' = {n \in 1..Len(voices) : n >= Len(voices) + 1}
    BY <1>1, <2>1 DEF Recent
  <2>3. Recent' = {} /\ Len(NodeQueue') = 0
    BY <1>1, <2>1, <2>2
  <2>4. QED
    BY <1>1, <2>1, <2>3
<1>6. ASSUME NEW n \in Nodes, NodeEnds(n) PROVE Kept
  <2>1. Nodes' = Nodes /\ Over(voices'[n], clock) /\ voices'[n] \in Voice
    BY <1>6, ToldVoices DEF Nodes
  <2>2. Over(voices'[n], Earliest)
    BY <1>1, <2>1, OverLater
  <2>3. CASE n \in Range(filters) /\ n \in Range(NodeQueue)
    <3> DEFINE i == CHOOSE i \in DOMAIN NodeQueue : NodeQueue[i] = n
    <3>1. i \in DOMAIN NodeQueue /\ NodeQueue[i] = n
      BY <2>3 DEF Range
    <3>2. NodeQueue' = table_remove(NodeQueue, i)
      BY <1>6, <2>3 DEF NodeEnds
    <3> HIDE DEF i
    <3>3. Range(NodeQueue') = Range(NodeQueue) \ {n} /\ Len(NodeQueue') = Len(NodeQueue) - 1
      BY <1>1, <3>1, <3>2, Removed DEF NodesKept
    <3>4. Len(NodeQueue') <= Poly
      BY <1>1, <3>3
    <3>5. QED
      BY <2>1, <2>2, <3>3, <3>4
  <2>4. CASE ~(n \in Range(filters) /\ n \in Range(NodeQueue))
    <3>1. NodeQueue' = NodeQueue
      BY <1>6, <2>4 DEF NodeEnds
    <3>2. QED
      BY <1>2, <2>1, <3>1
  <2>5. QED
    BY <2>3, <2>4
<1>7. ASSUME PlayNote PROVE Kept
  <2>1. ASSUME NEW string \in Nat, NEW warned \in BOOLEAN, StartVoice(string, warned) PROVE Kept
    <3> DEFINE old == Stolen(Append(NodeQueue, NewNode))
    <3>1. /\ Nodes' = Nodes \cup {NewNode} /\ Len(NodeQueue') <= Poly
          /\ Range(NodeQueue') = (Range(NodeQueue) \ old) \cup {NewNode}
      BY <1>1, <2>1, StartNodes
    <3>2. stage # "idle"
      BY <1>7 DEF PlayNote
    <3>3. Executed(ppq2time(pos)) = Earliest
      BY <3>2, EarliestTime
    <3>4. /\ voices'[NewNode].begins = Earliest
          /\ \A n \in Nodes : n \in old => (voices[n].begins <= Earliest => Over(voices'[n], Earliest))
      BY <2>1, <3>3, StartVoiceVoices DEF Nodes
    <3> HIDE DEF old
    <3>5. \A n \in Recent : n \in Nodes /\ voices[n].begins <= Earliest
      BY DEF PolyKept, Recent
    <3>6. QED
      BY <3>1, <3>4, <3>5
  <2> HIDE DEF Kept
  <2>2. QED
    BY <1>2, <1>3, <1>4, <1>7, <2>1, NoteVoices
<1>8. ASSUME BeginFrame \/ StreamEnds PROVE Kept
  <2>1. (\E beat : Reset(beat)) \/ UNCHANGED <<NodeQueue, voices>>
    BY <1>8 DEF BeginFrame, StreamEnds
  <2> HIDE DEF Kept
  <2>2. QED
    BY <1>2, <1>4, <1>5, <2>1
<1>9. ASSUME NEW beat \in Int, StartPlayer(beat) \/ StopPlayer(beat) PROVE Kept
  <2>1. CASE StartPlayer(beat)
    BY <1>5, <2>1 DEF StartPlayer
  <2>2. CASE StopPlayer(beat)
    <3>1. Executed(ppq2time(beat)) \in Nat
      BY ExecutedLater
    <3>2. Nodes' = Nodes /\ NodeQueue' = NodeQueue
      BY <1>3, <2>2, <3>1 DEF StopPlayer
    <3>3. QED
      BY <1>2, <3>2
  <2>3. QED
    BY <1>9, <2>1, <2>2
<1>10. ASSUME NEW e \in OsceventQueue, SendScheduled(e) PROVE Kept
  <2>1. e.time \in Int
    BY DEF VoicesTyped, QueuesTyped
  <2>2. Executed(IF e.time < oldppq THEN now_secs ELSE ppq2time(e.time)) \in Nat
    BY <2>1, ExecutedLater
  <2>3. Nodes' = Nodes /\ NodeQueue' = NodeQueue
    BY <1>3, <1>10, <2>2 DEF SendScheduled
  <2>4. QED
    BY <1>2, <2>3
<1>11. ASSUME \/ \E beat \in Beats : Jump(beat)
              \/ \E delta \in Deltas, length \in Lengths : TakeEvent(delta, length)
              \/ BeginTurn \/ EndTurn \/ EndFrame
       PROVE  Kept
  <2>1. UNCHANGED <<NodeQueue, voices>>
    BY <1>11 DEF Jump, TakeEvent, BeginTurn, EndTurn, EndFrame
  <2>2. QED
    BY <1>2, <1>4, <2>1
<1>12. ASSUME (\E e \in pianofreequeue : FreeOne(e)) \/ FreeRest PROVE Kept
  <2>1. UNCHANGED NodeQueue
    BY <1>12 DEF FreeOne, FreeRest
  <2>2. Nodes' = Nodes
    <3>1. CASE \E e \in pianofreequeue : FreeOne(e)
      <4>1. PICK e \in pianofreequeue : FreeOne(e)
        BY <3>1
      <4>2. nodetimetofree[e.node] \in Int
        BY DEF VoicesTyped, QueuesTyped
      <4>3. Executed(ppq2time(nodetimetofree[e.node])) \in Nat
        BY <4>2, ExecutedLater
      <4>4. QED
        BY <1>3, <1>4, <4>1, <4>3 DEF FreeOne
    <3>2. CASE FreeRest
      <4>1. Executed(ppq2time(pos)) \in Nat
        BY ExecutedLater DEF VoicesTyped, TimesTyped
      <4>2. QED
        BY <1>3, <1>4, <3>2, <4>1 DEF FreeRest
    <3>3. QED
      BY <1>12, <3>1, <3>2
  <2>3. QED
    BY <1>2, <2>1, <2>2
<1> HIDE DEF Kept
<1>13. Kept
  <2>1. CASE \E beat \in (oldppq + 1)..ppq : StartPlayer(beat) \/ StopPlayer(beat)
    <3>1. PICK beat \in (oldppq + 1)..ppq : StartPlayer(beat) \/ StopPlayer(beat)
      BY <2>1
    <3>2. beat \in Int
      BY <3>1 DEF VoicesTyped, TimesTyped
    <3>3. QED
      BY <1>9, <3>1, <3>2
  <2>2. CASE \E n \in DOMAIN voices : NodeEnds(n)
    BY <1>6, <2>2 DEF Nodes
  <2>3. QED
    BY <1>7, <1>8, <1>10, <1>11, <1>12, <2>1, <2>2 DEF VoicesNext
<1>14. QED
  BY <1>13 DEF Kept

LEMMA StepKeepsPoly ==
  ASSUME VoicesTyped, VoicesTyped', NodesKept, PolyKept, AtMostPoly, VoicesNext
  PROVE  PolyKept' /\ AtMostPoly'
<1>1. kind' = kind
  BY DEF VoicesNext, NodeEnds, Jump, BeginFrame, StartPlayer, StopPlayer, BeginTurn, FreeOne, FreeRest,
         TakeEvent, PlayNote, StreamEnds, EndTurn, SendScheduled, EndFrame
<1>2. CASE ~HasPoly
  BY <1>1, <1>2 DEF PolyKept, AtMostPoly, HasPoly
<1>3. CASE HasPoly
  <2>1. /\ Poly \in Nat /\ NodeQueue' \in Seq(Nat) /\ Nodes \subseteq Nodes' /\ Len(NodeQueue') <= Poly
        /\ \A n \in Nodes' : n \in Nat /\ voices'[n] \in Voice
    <3>1. Poly \in Nat /\ Len(NodeQueue') <= Poly
      BY <1>3, Numbers, QueueLosses
    <3>2. NodeQueue' \in Seq(Nat) /\ voices' \in Seq(Voice)
      BY DEF VoicesTyped, QueuesTyped
    <3>3. Nodes \subseteq Nodes'
      BY StepKeepsHistory DEF Nodes
    <3>4. \A n \in Nodes' : n \in Nat /\ voices'[n] \in Voice
      BY <3>2 DEF Nodes
    <3>5. QED
      BY <3>1, <3>2, <3>3, <3>4
  <2>2. CASE Recent' = {}
    <3>1. PolyKept'
      BY <2>1, <2>2 DEF PolyKept
    <3>2. AtMostPoly'
      <4> SUFFICES ASSUME NEW t \in Int PROVE Cardinality({n \in Recent' : Open(n, t)'}) <= Poly
        BY DEF AtMostPoly
      <4>1. {n \in Recent' : Open(n, t)'} = {}
        BY <2>2
      <4>2. Cardinality({n \in Recent' : Open(n, t)'}) = 0
        BY <4>1, FS_EmptySet
      <4>3. QED
        BY <2>1, <4>2
    <3>3. QED
      BY <3>1, <3>2
  <2>3. CASE Recent' # {}
    <3>1. /\ Earliest' >= Earliest /\ Earliest \in Nat /\ Earliest' \in Int
          /\ Recent' \cap Nodes = Recent
          /\ \A n \in Recent : /\ voices'[n].begins = voices[n].begins
                               /\ \A t \in Int : Over(voices[n], t) => Over(voices'[n], t)
      BY <2>3, RecentVoices
    <3>2. ASSUME NEW n \in Recent'
          PROVE  voices'[n].begins <= Earliest /\ (n \in Range(NodeQueue') \/ Over(voices'[n], Earliest))
      <4>1. CASE n \notin Nodes
        <5>1. n \in Nodes' \ Nodes
          BY <4>1 DEF Recent
        <5>2. QED
          BY <1>3, <3>1, <5>1, QueueLosses
      <4>2. CASE n \in Nodes
        <5>1. n \in Recent
          BY <3>1, <4>2
        <5>2. voices[n].begins <= Earliest /\ (n \in Range(NodeQueue) \/ Over(voices[n], Earliest))
          BY <1>3, <5>1 DEF PolyKept
        <5>3. n \in Range(NodeQueue) => n \in Range(NodeQueue') \/ Over(voices'[n], Earliest)
          BY <1>3, <2>3, <5>1, QueueLosses
        <5>4. QED
          BY <3>1, <5>1, <5>2, <5>3
      <4>3. QED
        BY <4>1, <4>2
    <3>3. PolyKept'
      <4> SUFFICES ASSUME NEW n \in Recent'
                   PROVE  voices'[n].begins <= Earliest' /\ (n \in Range(NodeQueue') \/ Over(voices'[n], Earliest'))
        BY <2>1 DEF PolyKept
      <4>1. voices'[n] \in Voice
        BY <2>1 DEF Recent
      <4>2. voices'[n].begins <= Earliest'
        BY <3>1, <3>2, <4>1 DEF Voice
      <4>3. Over(voices'[n], Earliest) => Over(voices'[n], Earliest')
        BY <3>1, <4>1, OverLater
      <4>4. QED
        BY <3>2, <4>2, <4>3
    <3>4. AtMostPoly'
      <4> SUFFICES ASSUME NEW t \in Int PROVE Cardinality({n \in Recent' : Open(n, t)'}) <= Poly
        BY DEF AtMostPoly
      <4> DEFINE Now == {n \in Recent' : Open(n, t)'}
                 Before == {n \in Recent : Open(n, t)}
      <4>1. CASE t < Earliest
        <5>1. Now \subseteq Before
          <6> SUFFICES ASSUME NEW n \in Recent', Open(n, t)' PROVE n \in Before
            OBVIOUS
          <6>1. n \in Nodes' /\ voices'[n].begins <= t /\ ~Over(voices'[n], t)
            BY DEF Recent, Open
          <6>2. n \in Nodes
            BY <1>3, <3>1, <4>1, <6>1, QueueLosses
          <6>3. n \in Recent
            BY <3>1, <6>2
          <6>4. QED
            BY <3>1, <6>1, <6>3 DEF Open
        <5>2. Before \subseteq 1..Len(voices) /\ Len(voices) \in Nat
          BY DEF Recent, Nodes, VoicesTyped
        <5> HIDE DEF Now, Before
        <5>3. IsFiniteSet(Before) /\ Cardinality(Before) \in Nat
          <6>1. IsFiniteSet(1..Len(voices))
            BY <5>2, FS_Interval
          <6>2. QED
            BY <5>2, <6>1, FS_Subset, FS_CardinalityType
        <5>4. Cardinality(Now) <= Cardinality(Before) /\ Cardinality(Now) \in Nat
          BY <5>1, <5>3, FS_Subset, FS_CardinalityType
        <5>5. Cardinality(Before) <= Poly
          BY <1>3 DEF AtMostPoly, Before
        <5>6. QED
          BY <2>1, <5>3, <5>4, <5>5 DEF Now
      <4>2. CASE ~(t < Earliest)
        <5>1. Now \subseteq Range(NodeQueue')
          <6> SUFFICES ASSUME NEW n \in Recent', Open(n, t)' PROVE n \in Range(NodeQueue')
            OBVIOUS
          <6>1. ~Over(voices'[n], t) /\ voices'[n] \in Voice
            BY <2>1 DEF Recent, Open
          <6>2. ~Over(voices'[n], Earliest)
            BY <3>1, <4>2, <6>1, OverLater
          <6>3. QED
            BY <3>2, <6>2
        <5> HIDE DEF Now
        <5>2. IsFiniteSet(Range(NodeQueue')) /\ Cardinality(Range(NodeQueue')) <= Len(NodeQueue')
          BY <2>1, RangeBound
        <5>3. Cardinality(Now) <= Cardinality(Range(NodeQueue')) /\ Cardinality(Now) \in Nat
              /\ Cardinality(Range(NodeQueue')) \in Nat /\ Len(NodeQueue') \in Nat
          BY <2>1, <5>1, <5>2, FS_Subset, FS_CardinalityType
        <5>4. QED
          BY <2>1, <5>2, <5>3 DEF Now
      <4>3. QED
        BY <4>1, <4>2
    <3>5. QED
      BY <3>3, <3>4
  <2>4. QED
    BY <2>2, <2>3
<1>4. QED
  BY <1>2, <1>3

-----------------------------------------------------------------------------
\* A string has one voice.
LEMMA Forgotten ==
  ASSUME VoicesNext
  PROVE  forgotten \subseteq forgotten' /\ kind' = kind
  BY DEF VoicesNext, NodeEnds, Jump, BeginFrame, Reset, StartPlayer, StopPlayer, BeginTurn, FreeOne, FreeRest,
         TakeEvent, PlayNote, StreamEnds, EndTurn, SendScheduled, EndFrame

\* A string is cleared of a voice that is over when the next can begin, or that is forgotten; and it
\* is given a voice of its own.
LEMMA StringLosses ==
  ASSUME VoicesTyped, NodesKept, VoicesNext
  PROVE  /\ \A s \in Strings : \/ strings'[s] \in {strings[s], 0}
                               \/ strings'[s] \in Nodes' /\ voices'[strings'[s]].string = s
         /\ \/ Recent' = {}
            \/ \A n \in (Range(strings) \ Range(strings')) \cap Nodes :
                  Over(voices'[n], Earliest) \/ voices'[n].overtaken \/ n \in forgotten'
         /\ Nodes' \ Nodes \subseteq {NewNode}
         /\ kind \in {"voicer", "piano"} => \A n \in Nodes' \ Nodes :
               /\ voices'[n].begins = Earliest /\ voices'[n].string \in Strings
               /\ strings[voices'[n].string] = 0 /\ n \in Range(strings')
<1>1. /\ voices \in Seq(Voice) /\ since \in Nat /\ pos \in Int
      /\ Nodes = 1..Len(voices) /\ strings \in [Strings -> Nat]
      /\ Earliest \in Nat /\ clock \in Nat /\ clock <= Earliest
  BY EarliestTime DEF VoicesTyped, TimesTyped, QueuesTyped, PlayerTyped, Nodes
<1> DEFINE Given == \A s \in Strings : \/ strings'[s] \in {strings[s], 0}
                                       \/ strings'[s] \in Nodes' /\ voices'[strings'[s]].string = s
           Cleared == \/ Recent' = {}
                      \/ \A n \in (Range(strings) \ Range(strings')) \cap Nodes :
                            Over(voices'[n], Earliest) \/ voices'[n].overtaken \/ n \in forgotten'
           New == /\ Nodes' \ Nodes \subseteq {NewNode}
                  /\ kind \in {"voicer", "piano"} => \A n \in Nodes' \ Nodes :
                        /\ voices'[n].begins = Earliest /\ voices'[n].string \in Strings
                        /\ strings[voices'[n].string] = 0 /\ n \in Range(strings')
           Kept == Given /\ Cleared /\ New
<1>2. ASSUME UNCHANGED strings, Nodes' = Nodes PROVE Kept
  BY <1>1, <1>2
<1>3. ASSUME NEW nodes, NEW at \in Nat, voices' = Ended(voices, nodes, at)
      PROVE  /\ Nodes' = Nodes
             /\ at <= Earliest => \A n \in Nodes : n \in nodes => Over(voices'[n], Earliest) \/ voices'[n].overtaken
  <2>1. /\ Nodes' = Nodes /\ voices' \in Seq(Voice)
        /\ \A n \in Nodes : n \in nodes => Over(voices'[n], at) \/ voices'[n].overtaken
    BY <1>1, <1>3, EndedVoices DEF Nodes
  <2>2. ASSUME at <= Earliest, NEW n \in Nodes, n \in nodes PROVE Over(voices'[n], Earliest) \/ voices'[n].overtaken
    <3>1. voices'[n] \in Voice
      BY <2>1 DEF Nodes
    <3>2. Over(voices'[n], at) => Over(voices'[n], Earliest)
      BY <1>1, <2>2, <3>1, OverLater
    <3>3. QED
      BY <2>1, <2>2, <3>2
  <2>3. QED
    BY <2>1, <2>2
<1>4. ASSUME UNCHANGED voices PROVE Nodes' = Nodes
  BY <1>4 DEF Nodes
<1>5. ASSUME NEW beat, Reset(beat) PROVE Kept
  <2>1. /\ Nodes' = Nodes /\ since' = Len(voices) + 1
        /\ strings' = (IF kind = "voicer" THEN [s \in Strings |-> 0] ELSE strings)
    BY <1>5, ResetVoices DEF Reset, Nodes
  <2>2. Recent' = {n \in 1..Len(voices) : n >= Len(voices) + 1}
    BY <1>1, <2>1 DEF Recent
  <2>3. Recent' = {}
    BY <1>1, <2>2
  <2>4. Given
    BY <1>1, <2>1
  <2>5. QED
    BY <2>1, <2>3, <2>4
<1>6. ASSUME NEW n \in Nodes, NodeEnds(n) PROVE Kept
  <2>1. Nodes' = Nodes /\ Over(voices'[n], clock) /\ voices'[n] \in Voice
    BY <1>6, ToldVoices DEF Nodes
  <2>2. Over(voices'[n], Earliest)
    BY <1>1, <2>1, OverLater
  <2>3. \/ strings' = strings
        \/ strings' = [s \in Strings |-> IF kind = "piano" /\ strings[s] = n THEN 0 ELSE strings[s]]
    BY <1>6 DEF NodeEnds
  <2>4. \A s \in Strings : strings'[s] = strings[s] \/ (strings'[s] = 0 /\ strings[s] = n)
    BY <2>3
  <2>5. DOMAIN strings' = Strings
    BY <1>1, <2>3
  <2>6. Range(strings) \ Range(strings') \subseteq {n}
    BY <1>1, <2>4, <2>5 DEF Range
  <2>7. QED
    BY <2>1, <2>2, <2>4, <2>6
<1>7. ASSUME PlayNote PROVE Kept
  <2> DEFINE note == Head(event.notes)
             at == Executed(ppq2time(pos))
  <2>1. event # NoEvent /\ stage # "idle"
    BY <1>7 DEF PlayNote
  <2>2. at \in Nat /\ at = Earliest
    BY <1>1, <2>1, EarliestTime
  <2>3. /\ note.string \in Nat /\ note.set \in BOOLEAN /\ note.rest \in BOOLEAN
        /\ kind \in {"voicer", "piano"} => note.string \in Strings
    BY <2>1, NoteTyped
  <2>4. ASSUME NEW string \in Nat, NEW warned \in BOOLEAN, StartVoice(string, warned)
        PROVE  /\ Nodes' = Nodes \cup {NewNode} /\ NewNode \in Nat \ {0}
               /\ voices'[NewNode].begins = Earliest /\ voices'[NewNode].string = string
    BY <2>2, <2>4, StartNodes, StartVoiceVoices
  <2>5. ASSUME kind \in {"voicer", "piano"}, StartVoice(note.string, FALSE), strings[note.string] = 0,
               strings' = [strings EXCEPT ![note.string] = NewNode]
        PROVE  Kept
    <3> DEFINE s == note.string
    <3>1. s \in Strings /\ s \in Nat /\ strings[s] = 0 /\ strings' = [strings EXCEPT ![s] = NewNode]
      BY <2>3, <2>5
    <3>2. /\ Nodes' = Nodes \cup {NewNode} /\ NewNode \in Nat \ {0}
          /\ voices'[NewNode].begins = Earliest /\ voices'[NewNode].string = s
      BY <2>3, <2>4, <2>5
    <3> HIDE DEF s
    <3>3. /\ strings'[s] = NewNode /\ \A r \in Strings : r # s => strings'[r] = strings[r]
          /\ DOMAIN strings' = Strings
      BY <1>1, <3>1
    <3>4. NewNode \in Range(strings') /\ Range(strings) \ Range(strings') \subseteq {0}
      BY <1>1, <3>1, <3>3 DEF Range
    <3>5. Given
      BY <3>2, <3>3
    <3>6. 0 \notin Nodes
      BY <1>1
    <3>7. Cleared /\ New
      BY <3>1, <3>2, <3>4, <3>6
    <3>8. QED
      BY <3>5, <3>7
  <2>6. CASE kind = "voicer"
    <3>1. PlayVoicerNote(note) /\ note.string \in Strings
      BY <1>7, <2>3, <2>6 DEF PlayNote
    <3> HIDE DEF note
    <3>2. CASE note.rest
      <4>1. /\ voices' = Ended(voices, {strings[note.string]}, at)
            /\ strings' = [strings EXCEPT ![note.string] = 0]
        BY <3>1, <3>2 DEF PlayVoicerNote
      <4> DEFINE ended == {strings[note.string]}
      <4> HIDE DEF at
      <4>2. Nodes' = Nodes /\ \A n \in Nodes : n \in ended => Over(voices'[n], Earliest) \/ voices'[n].overtaken
        <5>1. voices' = Ended(voices, ended, at) /\ at \in Nat
          BY <2>2, <4>1
        <5>2. at <= Earliest
          BY <1>1, <2>2
        <5> HIDE DEF ended
        <5>3. QED
          BY <1>3, <5>1, <5>2
      <4>3. Range(strings) \ Range(strings') \subseteq {strings[note.string]} /\ Given
        BY <1>1, <3>1, <4>1 DEF Range
      <4>4. QED
        BY <4>2, <4>3
    <3>3. CASE ~note.rest /\ strings[note.string] # 0
      <4>1. UNCHANGED <<voices, strings>>
        BY <3>1, <3>3 DEF PlayVoicerNote
      <4>2. QED
        BY <1>2, <1>4, <4>1
    <3>4. CASE ~note.rest /\ strings[note.string] = 0
      <4>1. StartVoice(note.string, FALSE) /\ strings' = [strings EXCEPT ![note.string] = NewNode]
        BY <3>1, <3>4 DEF PlayVoicerNote
      <4>2. QED
        BY <2>5, <2>6, <3>4, <4>1
    <3>5. QED
      BY <2>3, <3>2, <3>3, <3>4
  <2>7. CASE kind = "piano"
    <3>1. PlayPianoNote(note) /\ note.string \in Strings
      BY <1>7, <2>3, <2>7 DEF PlayNote
    <3> HIDE DEF note
    <3>2. strings[note.string] \in Nodes \cup {0} /\ NewNode \notin Nodes
      BY <1>1, <3>1 DEF NodesKept, Range, NewNode
    <3>3. CASE ~note.rest /\ strings[note.string] = 0
      <4>1. StartVoice(note.string, FALSE) /\ strings' = [strings EXCEPT ![note.string] = NewNode]
        BY <3>1, <3>3 DEF PlayPianoNote
      <4>2. QED
        BY <2>5, <2>7, <3>3, <4>1
    <3>4. CASE note.rest \/ strings[note.string] # 0
      <4>1. UNCHANGED voices /\ (strings' = strings \/ strings' = [strings EXCEPT ![note.string] = @])
        BY <1>1, <3>1, <3>2, <3>4 DEF PlayPianoNote
      <4>2. strings' = strings
        BY <1>1, <4>1
      <4>3. QED
        BY <1>2, <1>4, <4>1, <4>2
    <3>5. QED
      BY <2>3, <3>3, <3>4
  <2>8. CASE kind # "voicer" /\ kind # "piano"
    <3>1. strings' = strings
      BY <1>7, <2>8 DEF PlayNote, PlayOscNote
    <3>2. Given /\ Cleared
      BY <1>1, <3>1
    <3>3. Nodes' \ Nodes \subseteq {NewNode}
      BY <1>3, <1>4, <1>7, <2>4, NoteVoices
    <3>4. QED
      BY <2>8, <3>2, <3>3
  <2>9. QED
    BY <2>6, <2>7, <2>8
<1>8. ASSUME BeginFrame \/ StreamEnds PROVE Kept
  <2>1. (\E beat : Reset(beat)) \/ UNCHANGED <<strings, voices>>
    BY <1>8 DEF BeginFrame, StreamEnds
  <2> HIDE DEF Kept
  <2>2. QED
    BY <1>2, <1>4, <1>5, <2>1
<1>9. ASSUME NEW beat \in Int, StartPlayer(beat) \/ StopPlayer(beat) PROVE Kept
  <2>1. CASE StartPlayer(beat)
    BY <1>5, <2>1 DEF StartPlayer
  <2>2. CASE StopPlayer(beat)
    <3>1. Executed(ppq2time(beat)) \in Nat
      BY ExecutedLater
    <3>2. Nodes' = Nodes /\ strings' = strings
      BY <1>3, <2>2, <3>1 DEF StopPlayer
    <3>3. QED
      BY <1>2, <3>2
  <2>3. QED
    BY <1>9, <2>1, <2>2
<1>10. ASSUME NEW e \in OsceventQueue, SendScheduled(e) PROVE Kept
  <2>1. e.time \in Int
    BY DEF VoicesTyped, QueuesTyped
  <2>2. Executed(IF e.time < oldppq THEN now_secs ELSE ppq2time(e.time)) \in Nat
    BY <2>1, ExecutedLater
  <2>3. Nodes' = Nodes /\ strings' = strings
    BY <1>3, <1>10, <2>2 DEF SendScheduled
  <2>4. QED
    BY <1>2, <2>3
<1>11. ASSUME \/ \E beat \in Beats : Jump(beat)
              \/ \E delta \in Deltas, length \in Lengths : TakeEvent(delta, length)
              \/ BeginTurn \/ EndTurn \/ EndFrame
       PROVE  Kept
  <2>1. UNCHANGED <<strings, voices>>
    BY <1>11 DEF Jump, TakeEvent, BeginTurn, EndTurn, EndFrame
  <2>2. QED
    BY <1>2, <1>4, <2>1
<1>12. ASSUME NEW e \in pianofreequeue, FreeOne(e) PROVE Kept
  <2>1. CASE UNCHANGED <<voices, strings>>
    BY <1>2, <1>4, <2>1
  <2>2. CASE ~UNCHANGED <<voices, strings>>
    <3> DEFINE at == Executed(ppq2time(nodetimetofree[e.node]))
    <3>1. /\ voices' = Ended(voices, {e.node}, at)
          /\ strings' = [strings EXCEPT ![e.freq] = 0]
          /\ forgotten' = forgotten \cup ({strings[e.freq]} \ {e.node})
          /\ nodetimetofree[e.node] <= pos /\ stage = "free"
      BY <1>12, <2>2 DEF FreeOne
    <3>2. nodetimetofree[e.node] \in Int
      BY DEF VoicesTyped, QueuesTyped
    <3>3. at \in Nat /\ Executed(ppq2time(pos)) = Earliest
      BY <3>1, <3>2, ExecutedLater, EarliestTime
    <3>4. at <= Earliest
      <4>1. /\ ppq2time(nodetimetofree[e.node]) \in Int /\ ppq2time(pos) \in Int
            /\ ppq2time(nodetimetofree[e.node]) <= ppq2time(pos)
        BY <1>1, <3>1, <3>2 DEF ppq2time, VoicesTyped, TimesTyped
      <4>2. QED
        BY <3>3, <4>1, ExecutedLater
    <3> HIDE DEF at
    <3>5. Nodes' = Nodes /\ \A n \in Nodes : n \in {e.node} => Over(voices'[n], Earliest) \/ voices'[n].overtaken
      BY <1>3, <3>1, <3>3, <3>4
    <3>6. Range(strings) \ Range(strings') \subseteq {strings[e.freq]} /\ Given
      BY <1>1, <3>1 DEF Range
    <3>7. QED
      BY <3>1, <3>5, <3>6
  <2>3. QED
    BY <2>1, <2>2
<1>13. ASSUME FreeRest PROVE Kept
  <2>1. CASE pianopedal
    <3>1. UNCHANGED <<voices, strings>>
      BY <1>13, <2>1 DEF FreeRest
    <3>2. QED
      BY <1>2, <1>4, <3>1
  <2>2. CASE ~pianopedal
    <3> DEFINE at == Executed(ppq2time(pos))
               held == {q.node : q \in pedalqueue}
    <3>1. /\ voices' = Ended(voices, held, at)
          /\ strings' = [s \in Strings |-> IF \E q \in pedalqueue : q.freq = s THEN 0 ELSE strings[s]]
          /\ forgotten' = forgotten \cup ({strings[q.freq] : q \in pedalqueue} \ (held \cup {0}))
          /\ stage = "free"
      BY <1>13, <2>2 DEF FreeRest
    <3>2. at \in Nat /\ at <= Earliest
      BY <1>1, <3>1, EarliestTime
    <3> HIDE DEF at
    <3>3. Nodes' = Nodes /\ \A n \in Nodes : n \in held => Over(voices'[n], Earliest) \/ voices'[n].overtaken
      BY <1>3, <3>1, <3>2
    <3>4. Range(strings) \ Range(strings') \subseteq {strings[q.freq] : q \in pedalqueue} /\ Given
      BY <1>1, <3>1 DEF Range
    <3>5. 0 \notin Nodes
      BY <1>1
    <3> HIDE DEF held
    <3>6. QED
      BY <3>1, <3>3, <3>4, <3>5
  <2>3. QED
    BY <2>1, <2>2
<1> HIDE DEF Kept
<1>14. Kept
  <2>1. CASE \E beat \in (oldppq + 1)..ppq : StartPlayer(beat) \/ StopPlayer(beat)
    <3>1. PICK beat \in (oldppq + 1)..ppq : StartPlayer(beat) \/ StopPlayer(beat)
      BY <2>1
    <3>2. beat \in Int
      BY <3>1 DEF VoicesTyped, TimesTyped
    <3>3. QED
      BY <1>9, <3>1, <3>2
  <2>2. CASE \E n \in DOMAIN voices : NodeEnds(n)
    BY <1>6, <2>2 DEF Nodes
  <2>3. QED
    BY <1>7, <1>8, <1>10, <1>11, <1>12, <1>13, <2>1, <2>2 DEF VoicesNext
<1>15. QED
  BY <1>14 DEF Kept

\* The recent voices that have lost their string, or never had it, and those that have it.
LEMMA StepKeepsStrings ==
  ASSUME VoicesTyped, VoicesTyped', NodesKept, StringsKept, OneVoicePerString, VoicesNext
  PROVE  StringsKept' /\ OneVoicePerString'
<1> DEFINE Left(n) == Over(voices'[n], Earliest) \/ voices'[n].overtaken \/ n \in forgotten'
<1>1. /\ kind' = kind /\ forgotten \subseteq forgotten'
      /\ Nodes = 1..Len(voices) /\ Nodes' = 1..Len(voices') /\ Nodes \subseteq Nodes'
      /\ Nodes' \ Nodes \subseteq {NewNode} /\ NewNode = Len(voices) + 1 /\ Len(voices) \in Nat /\ Len(voices') \in Nat
      /\ since \in Nat \ {0} /\ since' \in Nat \ {0}
      /\ DOMAIN strings = Strings /\ DOMAIN strings' = Strings
  BY SMTT(30), Forgotten, StringLosses, StepKeepsHistory DEF VoicesTyped, PlayerTyped, QueuesTyped, Nodes, NewNode
<1>2. \A n \in Nodes : /\ Goes(voices[n], voices'[n]) /\ voices'[n].string = voices[n].string
                       /\ voices[n] \in Voice /\ voices'[n] \in Voice
  <2> SUFFICES ASSUME NEW n \in Nodes
               PROVE  /\ Goes(voices[n], voices'[n]) /\ voices'[n].string = voices[n].string
                      /\ voices[n] \in Voice /\ voices'[n] \in Voice
    OBVIOUS
  <2>1. Goes(voices[n], voices'[n]) /\ voices[n] \in Voice /\ voices'[n] \in Voice
    BY EndStays
  <2>2. QED
    BY <2>1, Zenon DEF Goes
<1>3. \A s \in Strings : strings'[s] # 0 => voices'[strings'[s]].string = s
  <2> SUFFICES ASSUME NEW s \in Strings, strings'[s] # 0, strings'[s] = strings[s]
               PROVE  voices'[strings'[s]].string = s
    BY StringLosses
  <2>1. strings[s] \in Nodes
    BY <1>1 DEF NodesKept, Range
  <2>2. voices[strings[s]].string = s
    BY DEF StringsKept
  <2>3. QED
    BY <1>2, <2>1, <2>2
<1>4. CASE kind \notin {"voicer", "piano"}
  BY <1>1, <1>3, <1>4 DEF StringsKept, OneVoicePerString
<1>5. CASE Recent' = {}
  <2>1. \A n \in since'..Len(voices') : n \in Recent'
    BY <1>1 DEF Recent
  <2>2. QED
    BY <1>3, <1>5, <2>1 DEF StringsKept, OneVoicePerString
<1>6. CASE kind \in {"voicer", "piano"} /\ Recent' # {}
  <2>1. /\ since' = since /\ Earliest' >= Earliest /\ Earliest \in Nat /\ Earliest' \in Int
        /\ Recent' \cap Nodes = Recent
        /\ \A n \in Recent : /\ voices'[n].begins = voices[n].begins
                             /\ voices[n].overtaken => voices'[n].overtaken
                             /\ \A t \in Int : Over(voices[n], t) => Over(voices'[n], t)
    BY <1>6, RecentVoices
  <2>2. ASSUME NEW n \in Recent PROVE n \in Range(strings) \/ Left(n)
    <3>1. n \in Range(strings) \/ Over(voices[n], Earliest) \/ voices[n].overtaken \/ n \in forgotten
      BY <1>6 DEF StringsKept
    <3>2. Earliest \in Int
      BY <2>1
    <3>3. QED
      BY <1>1, <2>1, <3>1, <3>2
  <2>3. ASSUME NEW n \in Recent' PROVE n \in Range(strings') \/ Left(n)
    <3>1. CASE n \in Nodes
      <4>1. n \in Recent
        BY <2>1, <3>1
      <4>2. n \in Range(strings) \ Range(strings') => Left(n)
        BY <1>6, <3>1, StringLosses
      <4>3. QED
        BY <2>2, <4>1, <4>2
    <3>2. CASE n \notin Nodes
      BY <1>6, <3>2, StringLosses DEF Recent
    <3>3. QED
      BY <3>1, <3>2
  <2>4. StringsKept'
    <3> SUFFICES ASSUME NEW n \in Recent'
                 PROVE  n \in Range(strings') \/ Over(voices'[n], Earliest') \/ voices'[n].overtaken \/ n \in forgotten'
      BY <1>3 DEF StringsKept
    <3>1. voices'[n] \in Voice
      BY DEF Recent, VoicesTyped, Nodes
    <3>2. Over(voices'[n], Earliest) => Over(voices'[n], Earliest')
      BY <2>1, <3>1, OverLater
    <3>3. QED
      BY <2>3, <3>2
  <2>5. OneVoicePerString'
    <3> SUFFICES ASSUME NEW n \in since'..Len(voices'), NEW m \in since'..Len(voices'),
                        n < m, voices'[n].string = voices'[m].string
                 PROVE  Over(voices'[n], voices'[m].begins) \/ voices'[n].overtaken \/ n \in forgotten'
      BY DEF OneVoicePerString
    <3>1. n \in Nodes' /\ m \in Nodes' /\ n \in Recent' /\ m \in Recent'
      BY <1>1 DEF Recent
    <3>2. n \in Nodes /\ n \in Recent /\ n \in since..Len(voices)
      <4>1. n \in Nodes
        BY <1>1, <3>1
      <4>2. QED
        BY <1>1, <2>1, <3>1, <4>1
    <3>3. CASE m \in Nodes
      <4>1. m \in Recent /\ m \in since..Len(voices)
        BY <1>1, <2>1, <3>1, <3>3
      <4>2. voices[n].string = voices[m].string
        BY <1>2, <3>2, <3>3
      <4>3. Over(voices[n], voices[m].begins) \/ voices[n].overtaken \/ n \in forgotten
        BY <1>6, <3>2, <4>1, <4>2 DEF OneVoicePerString
      <4>4. voices[m].begins \in Int /\ voices'[m].begins = voices[m].begins
        BY <1>2, <2>1, <3>3, <4>1 DEF Voice
      <4>5. QED
        BY <1>1, <2>1, <3>2, <4>3, <4>4
    <3>4. CASE m \notin Nodes
      <4>1. /\ voices'[m].begins = Earliest /\ voices'[m].string \in Strings
            /\ strings[voices'[m].string] = 0
        BY <1>6, <3>1, <3>4, StringLosses
      <4>2. n \notin Range(strings)
        <5> SUFFICES ASSUME NEW s \in Strings, strings[s] = n PROVE FALSE
          BY <1>1 DEF Range
        <5>1. n # 0 /\ voices[n].string = s
          BY <1>1, <3>2 DEF StringsKept
        <5>2. voices'[m].string = s
          BY <1>2, <3>2, <5>1
        <5>3. QED
          BY <4>1, <5>1, <5>2
      <4>3. QED
        BY <2>2, <3>2, <4>1, <4>2
    <3>5. QED
      BY <3>3, <3>4
  <2>6. QED
    BY <2>4, <2>5
<1>7. QED
  BY <1>4, <1>5, <1>6

-----------------------------------------------------------------------------
(* The theorem.                                                            *)

VoicesInv ==
    /\ VoicesTyped /\ NodesKept /\ NodesAccounted
    /\ PolyKept /\ AtMostPoly /\ StringsKept /\ OneVoicePerString

LEMMA VoicesBegin == VoicesInit => VoicesInv
<1> SUFFICES ASSUME VoicesInit PROVE VoicesInv
  OBVIOUS
<1>1. /\ kind \in Kinds /\ clock = 0 /\ oldppq = 0 /\ ppq = 0 /\ stage = "idle" /\ pos = 0 /\ musPos = 0
      /\ event = NoEvent /\ node = 0 /\ havenode = FALSE /\ NodeQueue = <<>> /\ filters = <<>>
      /\ strings = [s \in Strings |-> 0]
      /\ pedalqueue = {} /\ pianofreequeue = {} /\ nodetimetofree = <<>> /\ OsceventQueue = {}
      /\ voices = <<>> /\ since = 1 /\ forgotten = {}
  BY DEF VoicesInit
<1>2. Nodes = {} /\ Recent = {} /\ Len(voices) = 0
  BY <1>1 DEF Nodes, Recent
<1>3. Range(NodeQueue) = {} /\ Range(filters) = {} /\ Range(strings) \subseteq {0}
  BY <1>1 DEF Range
<1>4. VoicesTyped
  <2>1. TimesTyped
    BY <1>1 DEF TimesTyped, Stages
  <2>2. QueuesTyped
    BY <1>1 DEF QueuesTyped
  <2>3. PlayerTyped
    <3>1. kind \in {"plain", "mono", "poly", "polyheld", "voicer", "piano"}
      BY <1>1, VoicesAssumption
    <3>2. event \in {NoEvent} \cup Events
      BY <1>1, Zenon
    <3>3. node \in Nat /\ since \in Nat \ {0}
      BY <1>1
    <3>4. havenode \in BOOLEAN
      BY <1>1, Zenon
    <3>5. QED
      BY <3>1, <3>2, <3>3, <3>4, Zenon DEF PlayerTyped
  <2>4. QED
    BY <1>1, <2>1, <2>2, <2>3 DEF VoicesTyped
<1>5. NodesKept
  BY <1>1, <1>2, <1>3 DEF NodesKept, NoRepeats
<1>6. NodesAccounted
  BY <1>2 DEF NodesAccounted
<1>7. PolyKept
  BY <1>1, <1>2, Numbers DEF PolyKept
<1>8. AtMostPoly
  <2> SUFFICES ASSUME NEW t \in Int PROVE Cardinality({n \in Recent : Open(n, t)}) <= Poly
    BY DEF AtMostPoly
  <2>1. {n \in Recent : Open(n, t)} = {}
    BY <1>2
  <2>2. QED
    BY <2>1, FS_EmptySet, Numbers
<1>9. StringsKept
  BY <1>1, <1>2 DEF StringsKept
<1>10. OneVoicePerString
  BY <1>1, <1>2 DEF OneVoicePerString
<1>11. QED
  BY <1>4, <1>5, <1>6, <1>7, <1>8, <1>9, <1>10 DEF VoicesInv

LEMMA VoicesGoOn == VoicesInv /\ [VoicesNext]_voicevars => VoicesInv'
<1> SUFFICES ASSUME VoicesInv, [VoicesNext]_voicevars PROVE VoicesInv'
  OBVIOUS
<1>1. CASE VoicesNext
  <2>1. VoicesTyped' /\ NodesKept' /\ NodesAccounted'
    BY <1>1, StepKeepsTypes, StepKeepsNodes, StepAccounts DEF VoicesInv
  <2>2. PolyKept' /\ AtMostPoly'
    BY <1>1, <2>1, StepKeepsPoly DEF VoicesInv
  <2>3. StringsKept' /\ OneVoicePerString'
    BY <1>1, <2>1, StepKeepsStrings DEF VoicesInv
  <2>4. QED
    BY <2>1, <2>2, <2>3 DEF VoicesInv
<1>2. CASE UNCHANGED voicevars
  <2> USE <1>2 DEF VoicesInv, voicevars, transport, section, pedal
  <2>1. VoicesTyped'
    BY DEF VoicesTyped, TimesTyped, QueuesTyped, PlayerTyped, Events, Notes
  <2>2. NodesKept' /\ NodesAccounted'
    BY DEF NodesKept, NodesAccounted, Accounted, HasPoly, Nodes
  <2>3. PolyKept' /\ AtMostPoly'
    BY DEF PolyKept, AtMostPoly, HasPoly, Recent, Nodes, Earliest, Offset, Open
  <2>4. StringsKept' /\ OneVoicePerString'
    BY DEF StringsKept, OneVoicePerString, Recent, Nodes, Earliest, Offset, Open
  <2>5. QED
    BY <2>1, <2>2, <2>3, <2>4 DEF VoicesInv
<1>3. QED
  BY <1>1, <1>2

LEMMA VoicesInvSuffices == VoicesInv => VoicesSound
<1> SUFFICES ASSUME VoicesInv PROVE VoicesSound
  OBVIOUS
<1>1. VoicesTyped /\ NodesKept /\ Nodes = 1..Len(voices) /\ \A n \in Nodes : n \in Nat \ {0} /\ voices[n] \in Voice
  BY DEF VoicesInv, VoicesTyped, Nodes
<1>2. VoicesTypeOK
  BY <1>1 DEF VoicesTypeOK, NodesKept, Voice
<1>3. NoHungVoice
  BY DEF VoicesInv, NoHungVoice, NodesAccounted, Accounted
<1>4. MaximumPolyphony
  <2> SUFFICES ASSUME HasPoly, NEW t \in 0..((MaxFrames + 1) * Frame + Latency)
               PROVE  Cardinality({n \in Nodes : n >= since /\ Open(n, t)}) <= Poly
    BY DEF MaximumPolyphony
  <2>1. {n \in Nodes : n >= since /\ Open(n, t)} = {n \in Recent : Open(n, t)}
    BY DEF Recent
  <2>2. t \in Int
    OBVIOUS
  <2>3. QED
    BY <2>1, <2>2 DEF VoicesInv, AtMostPoly
<1>5. EndedVoicesLeave
  <2>1. ASSUME NEW n \in Nodes, voices[n].told
        PROVE  /\ n \notin Range(filters) \cup Range(NodeQueue)
               /\ kind = "piano" => n \notin Range(strings)
    <3>1. n \notin Range(filters) /\ n # 0
      BY <1>1, <2>1 DEF NodesKept
    <3>2. n \notin Range(NodeQueue)
      <4>1. CASE HasPoly
        BY <1>1, <3>1, <4>1 DEF NodesKept
      <4>2. CASE ~HasPoly
        <5>1. NodeQueue = <<>>
          BY <1>1, <4>2 DEF NodesKept
        <5>2. QED
          BY <5>1 DEF Range
      <4>3. QED
        BY <4>1, <4>2
    <3>3. kind = "piano" => n \notin Range(strings)
      BY <1>1, <3>1 DEF NodesKept
    <3>4. QED
      BY <3>1, <3>2, <3>3
  <2>2. QED
    BY <1>1, <2>1 DEF EndedVoicesLeave, NodesKept
<1>6. QED
  BY <1>2, <1>3, <1>4, <1>5 DEF VoicesInv, VoicesSound

\* Whatever the events are, however the transport is sent about and the player started and stopped:
\* each voice an OSC player starts has its end or is found again, a poly player keeps its maximum,
\* a string has one voice, and an ended node is not used again (sc/playerssc.lua:120-161, 606-1009).
THEOREM VoicesAreSound == VoicesSpec => []VoicesSound
<1>1. VoicesInit => VoicesInv
  BY VoicesBegin
<1>2. VoicesInv /\ [VoicesNext]_voicevars => VoicesInv'
  BY VoicesGoOn
<1>3. VoicesInv => VoicesSound
  BY VoicesInvSuffices
<1>4. QED
  BY <1>1, <1>2, <1>3, PTL DEF VoicesSpec
=============================================================================
