----------------------------- MODULE LuaThreads -----------------------------
(***************************************************************************)
(* Calls, errors and coroutines of the bundled Lua (ldo.c, the coroutine   *)
(* part of lbaselib.c): the C stack that all coroutines of a state share,  *)
(* with the activations of luaV_execute, of C functions, hooks and         *)
(* finalizers and the setjmp points on it, against what each coroutine     *)
(* records of itself: its frames, nCcalls, allowhook, errfunc, size_ci.    *)
(***************************************************************************)
EXTENDS Integers, SequencesExt, FiniteSets

CONSTANTS
    Coroutines, MainThread,
    MaxCCalls,      \* LUAI_MAXCCALLS
    MaxCalls,       \* LUAI_MAXCALLS
    BasicCISize     \* BASIC_CI_SIZE

ASSUME ThreadsAssumption ==
    /\ MainThread \notin Coroutines
    /\ MaxCCalls \in Nat \ {0, 1} /\ MaxCalls \in Nat \ {0} /\ BasicCISize \in Nat \ {0, 1}

States == Coroutines \cup {MainThread}

VARIABLES
    cstack,     \* activations on the C stack, innermost last
    base_ci,     \* CallInfo of each thread after the first: "lua" or "c"
    nCcalls, baseCcalls, errfunc, allowhook, size_ci,
    status,     \* of each thread: "ok", "yield", or an error
    fresh       \* coroutines whose function has not been called

threadvars == <<cstack, base_ci, nCcalls, baseCcalls, errfunc, allowhook, size_ci, status, fresh>>

\* Activations. luaV_execute counts the Lua base_ci it runs; handler: luaG_errormsg called it.
Execute(L, n, h) == [k |-> "execute", th |-> L, n |-> n, handler |-> h]
\* A C function; stage: how far it is.
CFunction(L, f) == [k |-> "cfunction", th |-> L, f |-> f, stage |-> "start"]
\* luaD_callhook, GCTM
Hook(L) == [k |-> "hook", th |-> L, ah |-> allowhook[L]]
\* luaD_rawrunprotected, by luaD_pcall with what it saves, or by lua_resume
TryCall(L) == [k |-> "try", th |-> L, by |-> "pcall", calls |-> nCcalls[L], ci |-> Len(base_ci[L]),
               ah |-> allowhook[L], ef |-> errfunc[L]]
TryResume(L) == [k |-> "try", th |-> L, by |-> "resume"]

Top == Last(cstack)
Running == Top.th
Alive == cstack # <<>>
Below(n) == SubSeq(cstack, 1, Len(cstack) - n)
InExecute == Alive /\ Top.k = "execute"
InFunction(f) == Alive /\ Top.k = "cfunction" /\ Top.f = f /\ Top.stage = "start"
AtStage(s, x) == IF s = <<>> THEN s ELSE [s EXCEPT ![Len(s)].stage = x]

------------------------------------------------------------------------------
(* Entering functions and raising errors. Raising calls the error handler, which may raise again;    *)
(* what comes of it is computed from nCcalls (c) and size_ci (s).                                    *)

\* inc_ci: size_ci counts the first CallInfo, base_ci.
HasRoom(L, s) == Len(base_ci[L]) < s - 1

LimitCCalls == MaxCCalls + MaxCCalls \div 8
Outcome(x, c, s) == [out |-> x, c |-> c, s |-> s]

\* nCcalls in a handler that is called at c: the call that reaches MaxCCalls raises an error of its
\* own, and the handler is called for that one.
HandlerCount(c) == IF c + 1 = MaxCCalls THEN c + 2 ELSE c + 1

\* With luaD_call and growCI of the handler. A handler that overflows the frames is called again, for
\* "stack overflow", and finds the room that they have grown by.
luaG_errormsg(L, c, s) ==
    LET a == HandlerCount(c)
        b == HandlerCount(a)
    IN  IF ~errfunc[L] THEN Outcome("ERRRUN", c, s)
        ELSE IF a >= LimitCCalls THEN Outcome("ERRERR", a, s)
        ELSE IF HasRoom(L, s) THEN Outcome("handler", a, s)
        ELSE IF s > MaxCalls THEN Outcome("ERRERR", a, s)
        ELSE IF 2 * s <= MaxCalls THEN Outcome("handler", a, 2 * s)
        ELSE Outcome(IF b >= LimitCCalls THEN "ERRERR" ELSE "handler", b, 2 * s)

growCI(L, c, s) ==
    IF HasRoom(L, s) THEN Outcome("ok", c, s)
    ELSE IF s > MaxCalls THEN Outcome("ERRERR", c, s)
    ELSE IF 2 * s > MaxCalls THEN luaG_errormsg(L, c, 2 * s)
    ELSE Outcome("ok", c, 2 * s)

\* of luaD_call
Calling(L) ==
    LET c == nCcalls[L] + 1
    IN  IF c = MaxCCalls THEN luaG_errormsg(L, c, size_ci[L])
        ELSE IF c >= LimitCCalls THEN Outcome("ERRERR", c, size_ci[L])
        ELSE growCI(L, c, size_ci[L])
Entering(L) == growCI(L, nCcalls[L], size_ci[L])
Raising(L) == luaG_errormsg(L, nCcalls[L], size_ci[L])

\* restore_stack_limit with n base_ci in use
RestoredLimit(s, n) == IF s > MaxCalls /\ n + 1 < MaxCalls THEN MaxCalls ELSE s

\* luaD_throw to the innermost setjmp point of L: the error returns of luaD_pcall and lua_resume.
IsTryOf(L, i) == cstack[i].k = "try" /\ cstack[i].th = L
luaD_throw(L, code, s) ==
    \E j \in DOMAIN cstack :
        /\ IsTryOf(L, j) /\ \A i \in (j + 1)..Len(cstack) : ~IsTryOf(L, i)
        /\ cstack' = AtStage(SubSeq(cstack, 1, j - 1), "failed")
        /\ LET e == cstack[j]
           IN  IF e.by = "pcall"
               THEN /\ base_ci' = [base_ci EXCEPT ![L] = SubSeq(@, 1, e.ci)]
                    /\ nCcalls' = [nCcalls EXCEPT ![L] = e.calls]
                    /\ allowhook' = [allowhook EXCEPT ![L] = e.ah]
                    /\ errfunc' = [errfunc EXCEPT ![L] = e.ef]
                    /\ size_ci' = [size_ci EXCEPT ![L] = RestoredLimit(s, e.ci)]
                    /\ UNCHANGED status
               ELSE /\ status' = [status EXCEPT ![L] = code]
                    /\ nCcalls' = [nCcalls EXCEPT ![L] = @ - 1]
                    /\ size_ci' = [size_ci EXCEPT ![L] = s]
                    /\ UNCHANGED <<base_ci, allowhook, errfunc>>
        /\ UNCHANGED <<baseCcalls, fresh>>

\* A Lua function is entered and the C stack is s then, or what comes of the error.
Enters(L, r, s) ==
    IF r.out \in {"ERRRUN", "ERRERR"} THEN luaD_throw(L, r.out, r.s)
    ELSE /\ cstack' = IF r.out = "handler" THEN Append(cstack, Execute(L, 1, TRUE)) ELSE s
         /\ base_ci' = [base_ci EXCEPT ![L] = Append(@, "lua")]
         /\ nCcalls' = [nCcalls EXCEPT ![L] = r.c]
         /\ size_ci' = [size_ci EXCEPT ![L] = r.s]
         /\ UNCHANGED <<baseCcalls, errfunc, allowhook, status, fresh>>

luaD_call(L) == Enters(L, Calling(L), Append(cstack, Execute(L, 1, FALSE)))

------------------------------------------------------------------------------
(* Instructions of a running Lua function *)

CallLua ==              \* of a Lua function
    /\ InExecute
    /\ Enters(Running, Entering(Running), Append(Below(1), [Top EXCEPT !.n = @ + 1]))

CallC(f) ==             \* of a C function
    /\ InExecute
    /\ LET L == Running
           r == Entering(L)
       IN  IF r.out # "ok" THEN Enters(L, r, cstack)
           ELSE /\ cstack' = Append(cstack, CFunction(L, f))
                /\ base_ci' = [base_ci EXCEPT ![L] = Append(@, "c")]
                /\ size_ci' = [size_ci EXCEPT ![L] = r.s]
                /\ UNCHANGED <<nCcalls, baseCcalls, errfunc, allowhook, status, fresh>>

Metamethod == InExecute /\ luaD_call(Running)       \* callTMres and the like

RunTimeError == InExecute /\ Enters(Running, Raising(Running), cstack)

\* luaD_callhook where hooks are allowed, GCTM anywhere; both forbid hooks meanwhile.
StartHook(isgc) ==
    /\ InExecute /\ (isgc \/ allowhook[Running])
    /\ cstack' = Append(cstack, Hook(Running))
    /\ allowhook' = [allowhook EXCEPT ![Running] = FALSE]
    /\ UNCHANGED <<base_ci, nCcalls, baseCcalls, errfunc, size_ci, status, fresh>>

\* The hook or finalizer calls its Lua function.
HookCalls == Alive /\ Top.k = "hook" /\ luaD_call(Running)

\* luaV_execute returns to luaD_call, and that to its caller.
ExecuteReturns(L, fr) ==
    LET below == cstack[Len(cstack) - 1]
        rest == Below(2)
    IN  /\ base_ci' = [base_ci EXCEPT ![L] = fr]
        /\ nCcalls' = [nCcalls EXCEPT ![L] = @ - 1]
        /\ UNCHANGED <<baseCcalls, size_ci, fresh, status>>
        /\ CASE below.k = "try" ->          \* luaD_pcall or lua_resume ends
                  /\ cstack' = AtStage(rest, "done")
                  /\ errfunc' = IF below.by = "pcall" THEN [errfunc EXCEPT ![L] = below.ef] ELSE errfunc
                  /\ UNCHANGED allowhook
             [] below.k = "hook" ->         \* luaD_callhook or GCTM ends
                  /\ cstack' = rest
                  /\ allowhook' = [allowhook EXCEPT ![L] = below.ah]
                  /\ UNCHANGED errfunc
             [] OTHER ->
                  /\ cstack' = IF below.k = "cfunction" THEN AtStage(Below(1), "done") ELSE Below(1)
                  /\ UNCHANGED <<errfunc, allowhook>>

ReturnLua ==
    /\ InExecute
    /\ LET L == Running
       IN  IF Top.n > 1
           THEN /\ base_ci' = [base_ci EXCEPT ![L] = Front(@)]
                /\ cstack' = Append(Below(1), [Top EXCEPT !.n = @ - 1])
                /\ UNCHANGED <<nCcalls, baseCcalls, errfunc, allowhook, size_ci, status, fresh>>
           ELSE IF Top.handler THEN luaD_throw(L, "ERRRUN", size_ci[L])
           ELSE ExecuteReturns(L, Front(base_ci[L]))

------------------------------------------------------------------------------
(* C functions *)

\* pcall, xpcall: luaD_pcall, and its call
EnterPcall(f) ==
    /\ InFunction(f)
    /\ cstack' = Append(cstack, TryCall(Running))
    /\ errfunc' = [errfunc EXCEPT ![Running] = (f = "xpcall")]
    /\ UNCHANGED <<base_ci, nCcalls, baseCcalls, allowhook, size_ci, status, fresh>>
ProtectedCall == Alive /\ Top.k = "try" /\ Top.by = "pcall" /\ luaD_call(Running)

\* A function such as table.sort or string.gsub, which calls a function it was given
Callback == InFunction("callback") /\ luaD_call(Running)

\* luaD_poscall after a C function
CReturns ==
    /\ Alive /\ Top.k = "cfunction" /\ Top.stage # "start"
    /\ Top.f = "wrap" => Top.stage = "done"
    /\ cstack' = Below(1)
    /\ base_ci' = [base_ci EXCEPT ![Running] = Front(@)]
    /\ UNCHANGED <<nCcalls, baseCcalls, errfunc, allowhook, size_ci, status, fresh>>

\* luaB_auxwrap passes the error on.
WrapRaises ==
    /\ Alive /\ Top.k = "cfunction" /\ Top.f = "wrap" /\ Top.stage = "failed"
    /\ Enters(Running, Raising(Running), cstack)

costatus(L, co) ==
    IF L = co THEN "running"
    ELSE IF status[co] = "yield" THEN "suspended"
    ELSE IF status[co] # "ok" THEN "dead"
    ELSE IF base_ci[co] # <<>> THEN "normal"
    ELSE IF fresh[co] THEN "suspended" ELSE "dead"

lua_resumeOwnLevel(co) ==
    /\ InFunction("resume") \/ InFunction("wrap")
    /\ LET L == Running
       IN  IF costatus(L, co) # "suspended"
           THEN cstack' = AtStage(cstack, "failed") /\ UNCHANGED <<nCcalls, baseCcalls, fresh>>
           ELSE IF nCcalls[L] >= MaxCCalls      \* resume_error; its message takes the place of the function
           THEN /\ cstack' = AtStage(cstack, "failed")
                /\ nCcalls' = [nCcalls EXCEPT ![co] = nCcalls[L]]
                /\ fresh' = [fresh EXCEPT ![co] = FALSE]
                /\ UNCHANGED baseCcalls
           ELSE /\ cstack' = Append(cstack, TryResume(co))
                /\ nCcalls' = [nCcalls EXCEPT ![co] = @ + 1]       \* lua_setlevel
                /\ baseCcalls' = [baseCcalls EXCEPT ![co] = nCcalls[co] + 1]
                /\ UNCHANGED fresh
    /\ UNCHANGED <<base_ci, errfunc, allowhook, size_ci, status>>
\* auxresume and lua_resume up to the setjmp
lua_resume(co) ==
    /\ InFunction("resume") \/ InFunction("wrap")
    /\ LET L == Running
       IN  IF costatus(L, co) # "suspended"
           THEN cstack' = AtStage(cstack, "failed") /\ UNCHANGED <<nCcalls, baseCcalls, fresh>>
           ELSE IF nCcalls[L] >= MaxCCalls      \* resume_error; its message takes the place of the function
           THEN /\ cstack' = AtStage(cstack, "failed")
                /\ nCcalls' = [nCcalls EXCEPT ![co] = nCcalls[L]]
                /\ fresh' = [fresh EXCEPT ![co] = FALSE]
                /\ UNCHANGED baseCcalls
           ELSE /\ cstack' = Append(cstack, TryResume(co))
                /\ nCcalls' = [nCcalls EXCEPT ![co] = nCcalls[L] + 1]       \* lua_setlevel
                /\ baseCcalls' = [baseCcalls EXCEPT ![co] = nCcalls[L] + 1]
                /\ UNCHANGED fresh
    /\ UNCHANGED <<base_ci, errfunc, allowhook, size_ci, status>>

\* resume: the function of the coroutine is called, or the yield returns.
resume ==
    /\ Alive /\ Top.k = "try" /\ Top.by = "resume"
    /\ LET co == Running
           r == Entering(co)
       IN  IF status[co] = "ok"
           THEN IF r.out # "ok" THEN Enters(co, r, cstack)
                ELSE /\ cstack' = Append(cstack, Execute(co, 1, FALSE))
                     /\ base_ci' = [base_ci EXCEPT ![co] = Append(@, "lua")]
                     /\ size_ci' = [size_ci EXCEPT ![co] = r.s]
                     /\ fresh' = [fresh EXCEPT ![co] = FALSE]
                     /\ UNCHANGED <<nCcalls, baseCcalls, errfunc, allowhook, status>>
           ELSE /\ cstack' = Append(cstack, Execute(co, Len(base_ci[co]) - 1, FALSE))
                /\ base_ci' = [base_ci EXCEPT ![co] = Front(@)]
                /\ status' = [status EXCEPT ![co] = "ok"]
                /\ UNCHANGED <<nCcalls, baseCcalls, errfunc, allowhook, size_ci, fresh>>

\* coroutine.yield: it returns -1, so do luaV_execute and resume.
lua_yield ==
    /\ InFunction("yield")
    /\ LET L == Running
       IN  IF nCcalls[L] > baseCcalls[L] THEN Enters(L, Raising(L), cstack)
           ELSE /\ status' = [status EXCEPT ![L] = "yield"]
                /\ cstack' = AtStage(Below(3), "done")
                /\ nCcalls' = [nCcalls EXCEPT ![L] = @ - 1]
                /\ UNCHANGED <<base_ci, baseCcalls, errfunc, allowhook, size_ci, fresh>>

------------------------------------------------------------------------------

\* The main program runs in lua_pcall.
ThreadsInit ==
    /\ cstack = <<[k |-> "try", th |-> MainThread, by |-> "pcall", calls |-> 0, ci |-> 0, ah |-> TRUE,
                   ef |-> FALSE], Execute(MainThread, 1, FALSE)>>
    /\ base_ci = [L \in States |-> IF L = MainThread THEN <<"lua">> ELSE <<>>]
    /\ nCcalls = [L \in States |-> IF L = MainThread THEN 1 ELSE 0]
    /\ baseCcalls = [L \in States |-> 0]
    /\ errfunc = [L \in States |-> FALSE] /\ allowhook = [L \in States |-> TRUE]
    /\ size_ci = [L \in States |-> BasicCISize]
    /\ status = [L \in States |-> "ok"] /\ fresh = [L \in States |-> L \in Coroutines]

Functions == {"pcall", "xpcall", "callback", "resume", "wrap", "yield"}

ThreadsNext ==
    \/ CallLua \/ Metamethod \/ RunTimeError \/ ReturnLua
    \/ \E f \in Functions : CallC(f)
    \/ \E isgc \in BOOLEAN : StartHook(isgc)
    \/ HookCalls \/ ProtectedCall \/ Callback \/ CReturns \/ WrapRaises
    \/ EnterPcall("pcall") \/ EnterPcall("xpcall")
    \/ \E co \in Coroutines : lua_resume(co)
    \/ resume \/ lua_yield

ThreadsSpec == ThreadsInit /\ [][ThreadsNext]_threadvars

------------------------------------------------------------------------------
(* Properties *)

\* Every entry into luaV_execute is counted, and none of those that an error has left.
Executes == Cardinality({i \in DOMAIN cstack : cstack[i].k = "execute"})
OnStack(L) == {i \in DOMAIN cstack : cstack[i].th = L}
Handling == \E i \in DOMAIN cstack : cstack[i].k = "execute" /\ cstack[i].handler

ThreadsTypeOK ==
    /\ \A i \in DOMAIN cstack : cstack[i].th \in States /\ cstack[i].k \in {"execute", "cfunction", "hook", "try"}
    /\ \A L \in States : base_ci[L] \in Seq({"lua", "c"}) /\ Len(base_ci[L]) < size_ci[L]
    /\ nCcalls \in [States -> Nat] /\ baseCcalls \in [States -> Nat]
    /\ errfunc \in [States -> BOOLEAN] /\ allowhook \in [States -> BOOLEAN]
    /\ size_ci \in [States -> Nat] /\ fresh \in [States -> BOOLEAN]
    /\ status \in [States -> {"ok", "yield", "ERRRUN", "ERRERR"}]

\* The C stack is bounded across coroutines: the running one counts what all have on it, through
\* yields and errors (lua_setlevel in auxresume, oldnCcalls in luaD_pcall).
CStackCounted ==
    Alive =>
        LET c == nCcalls[Running]
            entries == Executes + (IF Top.k = "try" /\ Top.by = "resume" THEN 1 ELSE 0)
        IN  /\ c >= entries /\ (~Handling => c = entries)
            /\ Executes <= MaxCCalls + MaxCCalls \div 8

\* The frames that the activations of a coroutine run.
Runs(e) == IF e.k = "execute" THEN e.n ELSE IF e.k = "cfunction" THEN 1 ELSE 0
FramesRun(L) == UNION {{i} \X (1..Runs(cstack[i])) : i \in OnStack(L)}

\* A coroutine has its activations in one piece on the C stack, its status says whether it has any,
\* and its base_ci are those that its activations run.
StacksAgree ==
    \A L \in States :
        LET on == OnStack(L)
        IN  /\ \A i, j \in on : \A m \in i..j : m \in on
            /\ on # {} => status[L] = "ok" \/ Top = TryResume(L)
            /\ status[L] = "yield" /\ on = {} =>
                 Last(base_ci[L]) = "c" /\ \A i \in 1..(Len(base_ci[L]) - 1) : base_ci[L][i] = "lua"
            /\ on # {} /\ status[L] = "ok" => Len(base_ci[L]) = Cardinality(FramesRun(L))

\* Hooks are off exactly while a hook or a finalizer of the thread runs, errors in them included
\* (luaD_callhook, old_allowhooks of luaD_pcall).
HooksRestored ==
    \A L \in States :
        status[L] \in {"ok", "yield"} => (allowhook[L] <=> \A i \in OnStack(L) : cstack[i].k # "hook")

\* The error handler is that of the innermost protected call, again so after it has caught an error
\* (old_errfunc of luaD_pcall, saved by lua_pcall's callers down to the base of the coroutine).
HandlerIsInnermost ==
    \A L \in States :
        LET calls == {i \in OnStack(L) : cstack[i].k = "try" /\ cstack[i].by = "pcall"}
        IN  status[L] \in {"ok", "yield"} =>
                (errfunc[L] <=> \E i \in calls \ {1} : (\A j \in calls : j <= i) /\ cstack[i - 1].f = "xpcall")

\* What each coroutine records of itself (frames, nCcalls, allowhook, errfunc) agrees with the one C
\* stack they share, whatever resumes, yields and errors cross (ldo.c:371-477).
ThreadsSound == ThreadsTypeOK /\ CStackCounted /\ StacksAgree /\ HooksRestored /\ HandlerIsInnermost
=============================================================================
