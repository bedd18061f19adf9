--------------------------- MODULE MCQueueAction ---------------------------
(***************************************************************************)
(* Three parts of a script that share no state: its agenda of delayed      *)
(* actions, its debugger, and the voices of one of its players. Each takes *)
(* all steps of its own; the others rest in their initial states. The      *)
(* fairness is that of the agenda; of the others nothing is asked but      *)
(* safety, so that their steps need none.                                  *)
(***************************************************************************)
EXTENDS QueueAction, Debugger, Voices

VARIABLE unit

ScriptInit ==
    /\ unit \in {"agenda", "debugger", "voices"}
    /\ Init /\ DebuggerInit /\ VoicesInit
    /\ unit # "voices" => kind = "plain"

ScriptNext ==
    /\ UNCHANGED unit
    /\ \/ unit = "agenda" /\ Next /\ UNCHANGED <<dbgvars, voicevars>>
       \/ unit = "debugger" /\ DebuggerNext /\ UNCHANGED <<vars, voicevars>>
       \/ unit = "voices" /\ VoicesNext /\ UNCHANGED <<vars, dbgvars>>

ScriptSpec ==
    /\ ScriptInit /\ [][ScriptNext]_<<unit, vars, dbgvars, voicevars>>
    /\ unit = "agenda" => Fairness
=============================================================================
