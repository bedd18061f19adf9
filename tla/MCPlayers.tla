----------------------------- MODULE MCPlayers -----------------------------
\* Instance of Players for TLC: a piece whose sections are started and stopped by actions, with an
\* action player of its own that repeats a section by sending the clock back.
EXTENDS Players

Upbeat == -1

PieceStreams == <<<<1, 2, 0, 3, 1>>, <<2, 2>>>>
PieceActions ==
    <<<<[ppq |-> 1, verb |-> "START", arg |-> 1],
        [ppq |-> 6, verb |-> "GOTO", arg |-> 1]>>,
      <<[ppq |-> 0, verb |-> "STOP", arg |-> 2],
        [ppq |-> 3, verb |-> "START", arg |-> 2],
        [ppq |-> 5, verb |-> "STOP", arg |-> 1],
        [ppq |-> 9, verb |-> "HALT", arg |-> 0]>>>>
=============================================================================
