------------------------------ MODULE LuaStrings ------------------------------
(***************************************************************************)
(* Patterns of the string library (lstrlib.c): the backtracking matcher,   *)
(* which reads the text of the pattern as it goes and undoes its captures  *)
(* by hand, and find, match, gmatch and gsub on top of it. All four are    *)
(* called in turn on one pattern and one subject, gmatch once per result   *)
(* and gsub once per turn of its loop. What a pattern means is said apart  *)
(* from the code, on its items: the list of all ways to match, best first. *)
(***************************************************************************)
EXTENDS Integers, Sequences, FiniteSets
LOCAL INSTANCE SequencesExt
LOCAL INSTANCE FiniteSetsExt
LOCAL INSTANCE TLC

CONSTANTS
    Ascii,              \* the characters in their order, NUL the first
    Classes,            \* of each class letter: the characters it stands for
    Patterns,           \* as sequences of items
    Subjects, Inits, Replacements, Limits,
    MaxCaptures         \* LUA_MAXCAPTURES

NUL == Ascii[1]
Unfinished == -1        \* CAP_UNFINISHED
Position == -2          \* CAP_POSITION

VARIABLES
    items, pattern,     \* the pattern, and its text
    subject, init, news, max_s,
    stage,
    found,              \* what find returned
    matched,            \* what match returned
    newstart,           \* third upvalue of the closure of gmatch
    gmatched,           \* what gmatch has returned
    src, n, buffer      \* of gsub

stringvars == <<items, pattern, subject, init, news, max_s, stage, found, matched, newstart, gmatched, src, n, buffer>>
input == <<items, pattern, subject, init, news, max_s>>

Text(its) == FlattenSeq([i \in DOMAIN its |-> its[i].text])

------------------------------------------------------------------------------
(* The matcher. A result says how it went, where, and how the captures are left. *)

Yes(ms, e) == [how |-> "yes", at |-> e, ms |-> ms]
No(ms) == [how |-> "no", at |-> 0, ms |-> ms]
Error == [how |-> "error", at |-> 0, ms |-> "none"]
NoCaptures == [level |-> 0, capture |-> [l \in 1..MaxCaptures |-> [init |-> 1, len |-> Unfinished]]]

\* This, or if it fails the alternative, with the captures as they were left.
Or(r, F(_)) == IF r.how = "no" THEN F(r.ms) ELSE r

P(p) == IF p \in DOMAIN pattern THEN pattern[p] ELSE NUL
S(s) == IF s \in DOMAIN subject THEN subject[s] ELSE NUL
SrcEnd == Len(subject) + 1
Code(c) == CHOOSE i \in DOMAIN Ascii : Ascii[i] = c
Digit(c) == CASE c = "0" -> 0 [] c = "1" -> 1 [] c = "2" -> 2 [] OTHER -> -1
Upper == [A |-> "a", D |-> "d", W |-> "w"]

\* Where the item that begins at p ends; 0 for an error.
classend(p) ==
    LET past[q \in 1..(Len(pattern) + 2)] ==
            IF P(q) = NUL THEN 0
            ELSE LET r == IF P(q) = "%" /\ P(q + 1) # NUL THEN q + 2 ELSE q + 1
                 IN  IF P(r) = "]" THEN r + 1 ELSE past[r]
    IN  CASE P(p) = "%" -> IF P(p + 1) = NUL THEN 0 ELSE p + 2
          [] P(p) = "[" -> past[IF P(p + 1) = "^" THEN p + 2 ELSE p + 1]
          [] OTHER -> p + 1

match_class(c, cl) ==
    CASE cl \in DOMAIN Classes -> c \in Classes[cl]
      [] cl \in DOMAIN Upper -> c \notin Classes[Upper[cl]]
      [] OTHER -> c = cl

matchbracketclass(c, p, ec) ==
    LET negated == P(p + 1) = "^"
        among[q \in 1..(Len(pattern) + 3)] ==
            IF q >= ec THEN FALSE
            ELSE CASE P(q) = "%" -> match_class(c, P(q + 1)) \/ among[q + 2]
                   [] P(q) # "%" /\ P(q + 1) = "-" /\ q + 2 < ec ->
                        (Code(P(q)) <= Code(c) /\ Code(c) <= Code(P(q + 2))) \/ among[q + 3]
                   [] OTHER -> P(q) = c \/ among[q + 1]
    IN  among[IF negated THEN p + 2 ELSE p + 1] # negated

singlematch(c, p, ep) ==
    CASE P(p) = "." -> TRUE
      [] P(p) = "%" -> match_class(c, P(p + 1))
      [] P(p) = "[" -> matchbracketclass(c, p, ep - 1)
      [] OTHER -> P(p) = c

\* How many characters from s on match the item.
Run(s, p, ep) ==
    LET from[t \in s..SrcEnd] == IF t < SrcEnd /\ singlematch(S(t), p, ep) THEN 1 + from[t + 1] ELSE 0
    IN  from[s]

\* The position after the balanced string, or 0; -1 for an error.
matchbalance(s, p) ==
    LET past[t \in 1..SrcEnd, cont \in 0..SrcEnd] ==
            IF t = SrcEnd THEN 0
            ELSE CASE S(t) = P(p + 1) -> IF cont = 1 THEN t + 1 ELSE past[t + 1, cont - 1]
                   [] S(t) # P(p + 1) /\ S(t) = P(p) -> past[t + 1, cont + 1]
                   [] OTHER -> past[t + 1, cont]
    IN  IF P(p) = NUL \/ P(p + 1) = NUL THEN -1
        ELSE IF S(s) # P(p) THEN 0 ELSE past[s + 1, 1]

capture_to_close(ms) == Max({0} \cup {l \in 1..ms.level : ms.capture[l].len = Unfinished})
check_capture(ms, l) == l \in 1..ms.level /\ ms.capture[l].len # Unfinished

\* The length is unsigned: that of a position is larger than what is left.
match_capture(ms, s, l) ==
    LET c == ms.capture[l]
    IN  c.len \in 0..(SrcEnd - s) /\ \A k \in 0..(c.len - 1) : S(c.init + k) = S(s + k)

RECURSIVE match(_, _, _), FirstOf(_, _, _)

\* The first of these positions from which the rest of the pattern matches.
FirstOf(ms, positions, p) ==
    IF positions = <<>> THEN No(ms)
    ELSE Or(match(ms, positions[1], p), LAMBDA left : FirstOf(left, Tail(positions), p))
max_expand(ms, s, p, ep) ==
    LET i == Run(s, p, ep) IN FirstOf(ms, [k \in 1..(i + 1) |-> s + i - k + 1], ep + 1)
min_expand(ms, s, p, ep) ==
    LET i == Run(s, p, ep) IN FirstOf(ms, [k \in 1..(i + 1) |-> s + k - 1], ep + 1)

start_capture(ms, s, p, what) ==
    IF ms.level >= MaxCaptures THEN Error
    ELSE Or(match([level |-> ms.level + 1,
                   capture |-> [ms.capture EXCEPT ![ms.level + 1] = [init |-> s, len |-> what]]], s, p),
            LAMBDA left : No([left EXCEPT !.level = @ - 1]))

Closed(ms, s, l) == [ms EXCEPT !.capture[l].len = s - ms.capture[l].init]
end_captureKeepsLength(ms, s, p) ==
    LET l == capture_to_close(ms) IN IF l = 0 THEN Error ELSE match(Closed(ms, s, l), s, p)
end_capture(ms, s, p) ==
    LET l == capture_to_close(ms)
    IN  IF l = 0 THEN Error
        ELSE Or(match(Closed(ms, s, l), s, p), LAMBDA left : No([left EXCEPT !.capture[l].len = Unfinished]))

frontier(ms, s, p) ==
    LET ep == classend(p)
    IN  IF P(p) # "[" \/ ep = 0 THEN Error
        ELSE IF matchbracketclass(S(s - 1), p, ep - 1) \/ ~matchbracketclass(S(s), p, ep - 1) THEN No(ms)
        ELSE match(ms, s, ep)

item(ms, s, p) ==
    LET ep == classend(p)
        m == s < SrcEnd /\ singlematch(S(s), p, ep)
    IN  CASE ep = 0 -> Error
          [] P(ep) = "?" -> FirstOf(ms, (IF m THEN <<s + 1>> ELSE <<>>) \o <<s>>, ep + 1)
          [] P(ep) = "*" -> max_expand(ms, s, p, ep)
          [] P(ep) = "+" -> IF m THEN max_expand(ms, s + 1, p, ep) ELSE No(ms)
          [] P(ep) = "-" -> min_expand(ms, s, p, ep)
          [] OTHER -> IF m THEN match(ms, s + 1, ep) ELSE No(ms)

match(ms, s, p) ==
    CASE P(p) = "(" -> IF P(p + 1) = ")" THEN start_capture(ms, s, p + 2, Position)
                       ELSE start_capture(ms, s, p + 1, Unfinished)
      [] P(p) = ")" -> end_capture(ms, s, p + 1)
      [] P(p) = "%" /\ P(p + 1) = "b" ->
            LET e == matchbalance(s, p + 2)
            IN  IF e = -1 THEN Error ELSE IF e = 0 THEN No(ms) ELSE match(ms, e, p + 4)
      [] P(p) = "%" /\ P(p + 1) = "f" -> frontier(ms, s, p + 2)
      [] P(p) = "%" /\ Digit(P(p + 1)) >= 0 ->
            LET l == Digit(P(p + 1))
            IN  IF ~check_capture(ms, l) THEN Error
                ELSE IF match_capture(ms, s, l) THEN match(ms, s + ms.capture[l].len, p + 2) ELSE No(ms)
      [] P(p) = NUL -> Yes(ms, s)
      [] P(p) = "$" /\ P(p + 1) = NUL -> IF s = SrcEnd THEN Yes(ms, s) ELSE No(ms)
      [] OTHER -> item(ms, s, p)

------------------------------------------------------------------------------
(* What is returned *)

Failed == <<"error">>
\* Capture i, of the whole match from s to e if there is none.
push_onecapture(ms, i, s, e) ==
    IF i > ms.level THEN (IF i = 1 THEN SubSeq(subject, s, e - 1) ELSE Failed)
    ELSE CASE ms.capture[i].len = Unfinished -> Failed
           [] ms.capture[i].len = Position -> <<ToString(ms.capture[i].init)>>
           [] OTHER -> SubSeq(subject, ms.capture[i].init, ms.capture[i].init + ms.capture[i].len - 1)

push_captures(ms, s, e, whole) ==
    [i \in 1..(IF ms.level = 0 /\ whole THEN 1 ELSE ms.level) |-> push_onecapture(ms, i, s, e)]

Returned(captures, F(_)) == IF Failed \in Range(captures) THEN <<Failed>> ELSE F(captures)

posrelat(pos, len) == IF pos >= 0 THEN pos ELSE IF -pos > len THEN 0 ELSE pos + len + 1

lmemfind(from, p) ==
    LET at == {i \in from..(SrcEnd - Len(p)) : SubSeq(subject, i, i + Len(p) - 1) = p}
    IN  IF at = {} THEN 0 ELSE Min(at)

\* The first match from these positions on.
Tried(r, s) == [how |-> r.how, ms |-> r.ms, s |-> s, e |-> r.at]
Search(from, to, p) ==
    LET try[s \in from..to] == Or(Tried(match(NoCaptures, s, p), s), LAMBDA left : IF s < to THEN try[s + 1] ELSE Tried(No(left), s))
    IN  try[from]

\* What find and match return of it: positions and captures.
Answer(first, find) ==
    CASE first.how = "error" -> <<Failed>>
      [] first.how = "no" -> <<>>
      [] OTHER -> Returned(push_captures(first.ms, first.s, first.e, ~find), LAMBDA captures :
                    << IF find THEN <<first.s, first.e - 1>> ELSE <<>>, captures >>)

SPECIALS == {"^", "$", "*", "+", "?", ".", "(", "[", "%", "-"}
str_find_aux(find) ==
    LET from == Max({1, Min({posrelat(init, Len(subject)), SrcEnd})})
        plain == lmemfind(from, pattern)
    IN  IF find /\ \A i \in DOMAIN pattern : pattern[i] \notin SPECIALS
        THEN IF plain = 0 THEN <<>> ELSE << <<plain, plain + Len(pattern) - 1>>, <<>> >>
        ELSE Answer(IF P(1) = "^" THEN Search(from, from, 2) ELSE Search(from, SrcEnd, 1), find)

str_find ==
    /\ stage = "find" /\ stage' = "match"
    /\ found' = str_find_aux(TRUE)
    /\ UNCHANGED <<input, matched, newstart, gmatched, src, n, buffer>>

str_match ==
    /\ stage = "match" /\ stage' = "gmatch"
    /\ matched' = str_find_aux(FALSE)
    /\ newstart' = 1
    /\ UNCHANGED <<input, found, gmatched, src, n, buffer>>

gmatch_aux ==
    /\ stage = "gmatch"
    /\ \E next \in {IF newstart > SrcEnd THEN Tried(No(NoCaptures), newstart) ELSE Search(newstart, SrcEnd, 1)} :
        \E captures \in {IF next.how = "yes" THEN push_captures(next.ms, next.s, next.e, TRUE) ELSE <<>>} :
          CASE next.how = "no" -> stage' = "gsub" /\ UNCHANGED <<gmatched, newstart>>
            [] next.how = "error" \/ Failed \in Range(captures) -> stage' = "failed" /\ UNCHANGED <<gmatched, newstart>>
            [] OTHER -> /\ gmatched' = Append(gmatched, [s |-> next.s, e |-> next.e, captures |-> captures])
                        /\ newstart' = IF next.e = next.s THEN next.e + 1 ELSE next.e
                        /\ UNCHANGED stage
    /\ src' = 1
    /\ UNCHANGED <<input, found, matched, n, buffer>>

\* The replacement string with its escapes.
add_s(ms, s, e) ==
    LET text == news.text
        from[i \in 1..(Len(text) + 2)] ==
            CASE i > Len(text) -> <<>>
              [] i <= Len(text) /\ text[i] # "%" -> <<text[i]>> \o from[i + 1]
              [] OTHER -> (CASE Digit(text[i + 1]) = -1 -> <<text[i + 1]>>
                             [] Digit(text[i + 1]) = 0 -> SubSeq(subject, s, e - 1)
                             [] OTHER -> push_onecapture(ms, Digit(text[i + 1]), s, e)) \o from[i + 2]
    IN  from[1]

\* A string, or the answer of a table or a function; no answer keeps the text.
add_value(ms, s, e) ==
    IF news.type = "string" THEN add_s(ms, s, e)
    ELSE LET key == push_onecapture(ms, 1, s, e)
             answer == IF key = Failed THEN Failed ELSE IF key \in news.keys THEN news.text ELSE <<>>
         IN  IF answer = <<>> THEN SubSeq(subject, s, e - 1) ELSE answer

str_gsub ==
    /\ stage = "gsub"
    /\ \E r \in {match(NoCaptures, src, IF P(1) = "^" THEN 2 ELSE 1)} :
       \E added \in {IF r.how = "yes" THEN add_value(r.ms, src, r.at) ELSE <<>>} :
        LET longer == r.how = "yes" /\ r.at > src
            next == IF longer THEN r.at ELSE src + 1
            copied == IF longer \/ src = SrcEnd THEN <<>> ELSE <<S(src)>>
            last == P(1) = "^" \/ (~longer /\ src = SrcEnd)
        IN  IF n >= max_s
            THEN stage' = "done" /\ buffer' = buffer \o SubSeq(subject, src, Len(subject)) /\ UNCHANGED <<src, n>>
            ELSE IF r.how = "error" \/ Failed[1] \in Range(added) THEN stage' = "failed" /\ UNCHANGED <<src, n, buffer>>
            ELSE /\ n' = IF r.how = "yes" THEN n + 1 ELSE n
                 /\ src' = Min({next, SrcEnd})
                 /\ buffer' = buffer \o added \o copied \o (IF last THEN SubSeq(subject, next, Len(subject)) ELSE <<>>)
                 /\ stage' = IF last THEN "done" ELSE stage
    /\ UNCHANGED <<input, found, matched, newstart, gmatched>>

StringsInit ==
    /\ items \in Patterns /\ pattern = Text(items)
    /\ subject \in Subjects /\ init \in Inits /\ news \in Replacements /\ max_s \in Limits
    /\ stage = "find" /\ found = <<>> /\ matched = <<>>
    /\ newstart = 1 /\ gmatched = <<>> /\ src = 1 /\ n = 0 /\ buffer = <<>>

StringsNext == str_find \/ str_match \/ gmatch_aux \/ str_gsub
StringsSpec == StringsInit /\ [][StringsNext]_stringvars

------------------------------------------------------------------------------
(* What a pattern means (manual, 5.4.1), on its items *)

Anchored == items # <<>> /\ items[1].kind = "anchor"
Reach(s, chars) ==
    LET from[t \in s..SrcEnd] == IF t < SrcEnd /\ S(t) \in chars THEN 1 + from[t + 1] ELSE 0
    IN  from[s]
Counts(it, run) ==
    LET least == IF it.rep \in {"", "+"} THEN 1 ELSE 0
        most == IF it.rep \in {"*", "+", "-"} THEN run ELSE Min({1, run})
    IN  [k \in 1..(most - least + 1) |-> IF it.rep = "-" THEN least + k - 1 ELSE most - k + 1]
Excess(s, t, it) ==
    Cardinality({i \in s..(t - 1) : S(i) = it.left}) - Cardinality({i \in s..(t - 1) : S(i) = it.right})

RECURSIVE Ways(_, _, _)
\* All ways to match from item i and position s on, best first.
Ways(i, s, caps) ==
    IF i > Len(items) THEN <<[e |-> s, caps |-> caps]>>
    ELSE LET it == items[i]
             value == IF it.kind = "back" THEN caps[it.number].text ELSE <<>>
             open == Max({0} \cup {l \in DOMAIN caps : caps[l].open})
         IN  CASE it.kind = "item" ->
                    LET counts == Counts(it, Reach(s, it.chars))
                    IN  FlattenSeq([k \in DOMAIN counts |-> Ways(i + 1, s + counts[k], caps)])
               [] it.kind = "open" -> Ways(i + 1, s, Append(caps, [open |-> TRUE, from |-> s, text |-> <<>>]))
               [] it.kind = "close" ->
                    Ways(i + 1, s, [caps EXCEPT ![open] = [open |-> FALSE, from |-> @.from, text |-> SubSeq(subject, @.from, s - 1)]])
               [] it.kind = "position" -> Ways(i + 1, s, Append(caps, [open |-> FALSE, from |-> s, text |-> <<ToString(s)>>]))
               [] it.kind = "back" ->
                    IF s + Len(value) <= SrcEnd /\ \A k \in DOMAIN value : S(s + k - 1) = value[k] THEN Ways(i + 1, s + Len(value), caps) ELSE <<>>
               [] it.kind = "balance" ->
                    LET ends == {t \in (s + 2)..SrcEnd : Excess(s, t, it) = 0}
                    IN  IF S(s) = it.left /\ ends # {} THEN Ways(i + 1, Min(ends), caps) ELSE <<>>
               [] it.kind = "frontier" ->
                    IF S(s - 1) \notin it.chars /\ S(s) \in it.chars THEN Ways(i + 1, s, caps) ELSE <<>>
               [] it.kind = "end" -> IF s = SrcEnd THEN Ways(i + 1, s, caps) ELSE <<>>
               [] it.kind = "anchor" -> Ways(i + 1, s, caps)

Opens(i) == Cardinality({j \in 1..i : items[j].kind = "open"})
Closes(i) == Cardinality({j \in 1..i : items[j].kind = "close"})
Captures(i) == Cardinality({j \in 1..i : items[j].kind \in {"open", "position"}})
\* Captures nest and are referred to when closed; a position is not referred to.
WellFormed ==
    /\ \A i \in DOMAIN items : Opens(i) >= Closes(i)
    /\ Opens(Len(items)) = Closes(Len(items)) /\ Captures(Len(items)) <= MaxCaptures
    /\ \A i \in DOMAIN items : items[i].kind = "back" =>
            /\ Opens(i) = Closes(i)
            /\ \E j \in 1..i : items[j].kind = "open" /\ Captures(j) = items[i].number

From == IF init > 0 THEN Min({init, SrcEnd}) ELSE IF init = 0 THEN 1 ELSE Max({1, SrcEnd + init})
MatchAt(s) == Ways(1, s, <<>>)
Starts == {s \in (IF Anchored THEN {From} ELSE From..SrcEnd) : MatchAt(s) # <<>>}
Texts(w, s, whole) ==
    IF w.caps = <<>> /\ whole THEN <<SubSeq(subject, s, w.e - 1)>> ELSE [l \in DOMAIN w.caps |-> w.caps[l].text]

\* find and match return the first match, by position and then by the order of the ways to match, with
\* its captures; a pattern that is not well formed is refused or matches nothing.
MatchIsTheFirst ==
    /\ stage # "find" =>
          IF ~WellFormed THEN Len(found) < 2
          ELSE found = IF Starts = {} THEN <<>>
                       ELSE LET s == Min(Starts) w == MatchAt(s)[1]
                            IN  << <<s, w.e - 1>>, Texts(w, s, FALSE) >>
    /\ stage \notin {"find", "match"} /\ WellFormed =>
          matched = IF Starts = {} THEN <<>>
                    ELSE LET s == Min(Starts) IN << <<>>, Texts(MatchAt(s)[1], s, TRUE) >>

Expanded(m) ==
    CASE news.type = "string" ->
            FlattenSeq([i \in DOMAIN news.parts |->
                CASE news.parts[i] = "%0" -> SubSeq(subject, m.s, m.e - 1)
                  [] news.parts[i] = "%1" -> m.captures[1]
                  [] OTHER -> <<news.parts[i]>>])
      [] OTHER -> IF m.captures[1] \in news.keys THEN news.text ELSE SubSeq(subject, m.s, m.e - 1)

\* gsub replaces the matches that gmatch finds, the first max_s of them, and keeps all other text.
GsubReplacesMatches ==
    stage = "done" /\ ~Anchored /\ WellFormed =>
        LET count == Min({max_s, Len(gmatched)})
            Between(k) == SubSeq(subject, IF k = 1 THEN 1 ELSE gmatched[k - 1].e,
                                 IF k > count THEN Len(subject) ELSE gmatched[k].s - 1)
        IN  /\ n = count
            /\ buffer = FlattenSeq([k \in 1..count |-> Between(k) \o Expanded(gmatched[k])]) \o Between(count + 1)

\* gmatch goes on: no two results begin at one place, and none begins before the last one ends.
GmatchAdvances ==
    \A k \in DOMAIN gmatched : k > 1 => gmatched[k].s >= gmatched[k - 1].e /\ gmatched[k].s > gmatched[k - 1].s

=============================================================================
