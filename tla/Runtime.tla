------------------------------ MODULE Runtime ------------------------------
(***************************************************************************)
(* Threads and coroutines: how the main thread starts the stacks and the   *)
(* applications (core.c, runtime_mgt.c), and how a stack and an            *)
(* application that share a core hand it to each other (routine.c,         *)
(* coctx_swap.S).                                                          *)
(*                                                                         *)
(* Every core with a stack or an application has one pthread.  What runs   *)
(* on it is a flow of control: its native one, or that of a coroutine.     *)
(* co_swap saves the flow that runs in the context it is told and goes on  *)
(* with the one it finds in another; nothing checks that they are those of *)
(* the coroutines meant.  An application on the core of a stack is created *)
(* by the main thread and started by the stack, which sees the flag        *)
(* knocked; one with a core of its own is created and resumed there.       *)
(***************************************************************************)
EXTENDS Naturals, Sequences

CONSTANTS
    Stacks,         \* the cores with a stack: its number is that of the core
    Apps,           \* the applications
    Cores, Main,    \* the cores, and the main thread
    Configs,        \* what is started: the applications in their order, and their cores
    Returning,      \* the applications whose function may return
    None

ASSUME RuntimeAssumption ==
    /\ Stacks \subseteq Cores /\ Main \notin Cores
    /\ \A f \in Configs : /\ f.apps \in Seq(Apps) /\ f.apps # <<>>
                          /\ \A i, j \in DOMAIN f.apps : f.apps[i] = f.apps[j] => i = j
                          /\ f.core \in [Apps -> Cores]
    /\ Returning \subseteq Apps

Pthreads == Cores \cup {Main}
(* GetPid takes the thread id modulo ROSTACK_SIZE (204,800).  The threads  *)
(* are created one after the other at the start, and none of them is       *)
(* assumed to be a multiple of that number of ids away from another.       *)
Self(p) == <<"self", p>>
Stack(k) == <<"stack", k>>
App(a) == <<"app", a>>
Coroutines == {Self(p) : p \in Pthreads} \cup {Stack(k) : k \in Stacks}
              \cup {App(a) : a \in Apps}

ASSUME NoneAssumption == None \notin Apps \cup Coroutines

VARIABLES
    conf,           \* the configuration
    rt_thread,      \* the pthreads that were started
    rt_ctx,         \* of every core: its stack, its application, knocked, on_stack
    app_contexts,   \* the applications an event finds
    thread,         \* the coroutines that were created
    cStart,         \* those of them that were started
    pCallStack,     \* the environment of every pthread, <<>>: none yet
    env,            \* the pthread whose environment a coroutine belongs to
    flow,           \* the flow of control that runs on a pthread
    ctx,            \* the flow of control saved in a coroutine's context
    mpc,            \* the main thread: the thread it starts, and how far it is
    early,          \* history: an event for an application that is not ready
    up              \* "yes", or why the process ended

rtVars == <<conf, rt_thread, rt_ctx, app_contexts, thread, cStart, pCallStack, env, flow, ctx,
            mpc, early, up>>

runtime_init == [qstack |-> FALSE, qapp |-> None, knocked |-> FALSE, on_stack |-> FALSE]

(* gctx_init gives every core its context, with a stack on it or not. *)
qcore_init == [c \in Cores |-> runtime_init]

(* gctx_init; the environments are made by the first q_coCreate of a       *)
(* thread.                                                                 *)
RuntimeInit ==
    /\ conf \in Configs
    /\ rt_thread = {Main} /\ rt_ctx = qcore_init /\ app_contexts = {}
    /\ thread = {} /\ cStart = {}
    /\ pCallStack = [p \in Pthreads |-> <<>>]
    /\ env = [c \in Coroutines |-> None]
    /\ flow = [p \in Pthreads |-> IF p = Main THEN Self(Main) ELSE None]
    /\ ctx = [c \in Coroutines |-> None]
    /\ mpc = [step |-> "stacks", app |-> 1]
    /\ early = FALSE /\ up = "yes"

-----------------------------------------------------------------------------
(* routine.c and context.c.  The first coroutine a thread creates gives it *)
(* an environment, whose call stack holds the thread itself.               *)
q_coCreate_env(p, co) == env' = [env EXCEPT ![co] = p] /\ thread' = thread \cup {co}

Env(p) == IF pCallStack[p] = <<>> THEN <<Self(p)>> ELSE pCallStack[p]

q_coCreate(p, co) ==
    pCallStack' = [pCallStack EXCEPT ![p] = Env(p)] /\ q_coCreate_env(p, co)

(* A coroutine that was not started yet starts at its function. *)
coctx_make(co) == IF co \in cStart THEN ctx ELSE [ctx EXCEPT ![co] = co]

\* Slip for ContextsExact: the context that is left is not saved.
coctx_swap_unsaved(p, curr, pending, c) ==
    flow' = [flow EXCEPT ![p] = c[pending]] /\ ctx' = [c EXCEPT ![pending] = None]

(* What runs on p is saved as curr, what is saved as pending goes on. *)
coctx_swap(p, curr, pending, c) ==
    /\ flow' = [flow EXCEPT ![p] = c[pending]]
    /\ ctx' = [c EXCEPT ![curr] = flow[p], ![pending] = None]

(* No coroutine shares its stack with another, so nothing is copied. *)
co_swap(p, curr, pending, c) == coctx_swap(p, curr, pending, c)

q_coYield_to(p, curr, pend) ==
    co_swap(p, curr, pend, coctx_make(pend)) /\ cStart' = cStart \cup {pend}

(* q_coCreate and q_coResume of the first coroutine of a pthread. *)
q_coResume(p, co) ==
    /\ q_coCreate_env(p, co)
    /\ pCallStack' = [pCallStack EXCEPT ![p] = Append(Env(p), co)]
    /\ co_swap(p, Env(p)[Len(Env(p))], co, coctx_make(co)) /\ cStart' = cStart \cup {co}

(* Back to the coroutine below on the call stack of the environment e.  It *)
(* is that of the thread that created the coroutine, which may have none.  *)
q_coYield_env(e) ==
    LET s == pCallStack[e]
    IN  /\ IF Len(s) < 2
           THEN up' = "no caller" /\ UNCHANGED <<pCallStack, flow, ctx>>
           ELSE /\ pCallStack' = [pCallStack EXCEPT ![e] = SubSeq(s, 1, Len(s) - 1)]
                /\ co_swap(e, s[Len(s)], s[Len(s) - 1], ctx)
                /\ up' = up
        /\ UNCHANGED cStart

-----------------------------------------------------------------------------
(* The main thread: qstack_init, then qstack_thread_create for every       *)
(* application.                                                            *)
core_id == conf.core
Cur == conf.apps[mpc.app]
CurCore == core_id[Cur]
MainAt(step) == up = "yes" /\ mpc.step = step
MainTo(step) == mpc' = [mpc EXCEPT !.step = step]

(* The context of a stack is complete, queues and timers included, before  *)
(* its thread starts; its core's runtime context points to it.             *)
stack_context_init(k) == rt_ctx' = [rt_ctx EXCEPT ![k].qstack = TRUE]

qstack_init ==
    /\ MainAt("stacks")
    /\ \E k \in Stacks \ rt_thread :
          /\ stack_context_init(k)
          /\ rt_thread' = rt_thread \cup {k}
          /\ flow' = [flow EXCEPT ![k] = Self(k)]
          /\ MainTo(IF Stacks \subseteq rt_thread' THEN "listen" ELSE "stacks")
    /\ UNCHANGED <<conf, app_contexts, thread, cStart, pCallStack, env, ctx, early, up>>

(* The program listens before it starts its applications. *)
Listening == mpc.step \notin {"stacks", "listen"}

qstack_createListenSock ==
    /\ MainAt("listen") /\ MainTo("app")
    /\ UNCHANGED <<conf, rt_thread, rt_ctx, app_contexts, thread, cStart, pCallStack, env, flow,
                   ctx, early, up>>

(* UNSHARED_APP_MODE: a second application on a core ends the process. *)
create_app_pthread ==
    /\ MainAt("app")
    /\ IF rt_ctx[CurCore].qapp # None
       THEN up' = "core taken" /\ UNCHANGED <<rt_ctx, app_contexts, mpc>>
       ELSE /\ rt_ctx' = [rt_ctx EXCEPT ![CurCore].qapp = Cur]
            /\ app_contexts' = app_contexts \cup {Cur}
            /\ MainTo("create") /\ up' = up
    /\ UNCHANGED <<conf, rt_thread, thread, cStart, pCallStack, env, flow, ctx, early>>

(* qstack_thread_create is done with an application. *)
NextApp == mpc' = IF mpc.app = Len(conf.apps) THEN [step |-> "join", app |-> 1]
                  ELSE [step |-> "app", app |-> mpc.app + 1]

\* Slip for SwitchesToThreads: the stack is knocked before there is a coroutine.
__knock_app_thread ==
    /\ MainAt("create")
    /\ IF CurCore \in rt_thread
       THEN /\ ~ rt_ctx[CurCore].knocked
            /\ rt_ctx' = [rt_ctx EXCEPT ![CurCore].knocked = TRUE]
            /\ UNCHANGED <<rt_thread, flow, mpc>>
       ELSE /\ rt_thread' = rt_thread \cup {CurCore}
            /\ flow' = [flow EXCEPT ![CurCore] = Self(CurCore)]
            /\ NextApp /\ UNCHANGED rt_ctx
    /\ UNCHANGED <<conf, app_contexts, thread, cStart, pCallStack, env, ctx, early, up>>

(* On the core of a stack the application becomes a coroutine; it belongs  *)
(* to the environment of the main thread.                                  *)
__create_app_thread ==
    /\ MainAt("create")
    /\ IF CurCore \in rt_thread
       THEN q_coCreate(Main, App(Cur)) /\ MainTo("knock") /\ UNCHANGED <<rt_thread, flow>>
       ELSE /\ rt_thread' = rt_thread \cup {CurCore}
            /\ flow' = [flow EXCEPT ![CurCore] = Self(CurCore)]
            /\ NextApp /\ UNCHANGED <<pCallStack, env, thread>>
    /\ UNCHANGED <<conf, rt_ctx, app_contexts, cStart, ctx, early, up>>

knock_new_thread ==
    /\ MainAt("knock")
    /\ rt_ctx' = [rt_ctx EXCEPT ![CurCore].knocked = TRUE]
    /\ NextApp
    /\ UNCHANGED <<conf, rt_thread, app_contexts, thread, cStart, pCallStack, env, flow, ctx,
                   early, up>>

-----------------------------------------------------------------------------
(* A new pthread. *)
qstack_thread_start(k) ==
    /\ up = "yes" /\ flow[k] = Self(k) /\ k \in Stacks /\ Stack(k) \notin thread
    /\ q_coResume(k, Stack(k))
    /\ rt_ctx' = [rt_ctx EXCEPT ![k].on_stack = TRUE]
    /\ UNCHANGED <<conf, rt_thread, app_contexts, mpc, early, up>>

app_thread_start(c) ==
    LET co == App(rt_ctx[c].qapp)
    IN  /\ up = "yes" /\ flow[c] = Self(c) /\ c \notin Stacks /\ co \notin thread
        /\ q_coResume(c, co)
        /\ UNCHANGED <<conf, rt_thread, rt_ctx, app_contexts, mpc, early, up>>

Runs(co) == up = "yes" /\ \E p \in Pthreads : flow[p] = co

(* The function of an application ends. *)
CoRoutineFunc(a) ==
    /\ Runs(App(a)) /\ a \in Returning
    /\ q_coYield_env(env[App(a)])
    /\ UNCHANGED <<conf, rt_thread, rt_ctx, app_contexts, thread, env, mpc, early>>

-----------------------------------------------------------------------------
(* A stack raises an event for an application: add_epoll_event after       *)
(* AddTimeEvent.  There may be no such application yet.                    *)
Ready(a) == a \in app_contexts /\ (rt_ctx[core_id[a]].qstack => App(a) \in thread)

wakeup_app_thread(k, a) ==
    /\ Runs(Stack(k))
    /\ early' = (early \/ ~ Ready(a))
    /\ IF a \notin app_contexts THEN up' = "no application" /\ UNCHANGED rt_ctx
       ELSE /\ rt_ctx' = IF rt_ctx[core_id[a]].qstack
                         THEN [rt_ctx EXCEPT ![core_id[a]].knocked = TRUE] ELSE rt_ctx
            /\ up' = up
    /\ UNCHANGED <<conf, rt_thread, app_contexts, thread, cStart, pCallStack, env, flow, ctx, mpc>>

yield_to_qapp(k, co) ==
    rt_ctx' = [rt_ctx EXCEPT ![k].on_stack = FALSE] /\ q_coYield_to(k, Stack(k), co)

(* The main loop of a stack gives the core to an application that was      *)
(* knocked.                                                                *)
wakeup_application(k) ==
    LET co == App(rt_ctx[k].qapp)
    IN  /\ Runs(Stack(k)) /\ rt_ctx[k].knocked
        /\ IF co \notin thread
           THEN up' = "no coroutine" /\ UNCHANGED <<rt_ctx, flow, ctx, cStart>>
           ELSE yield_to_qapp(k, co) /\ up' = up
        /\ UNCHANGED <<conf, rt_thread, app_contexts, thread, pCallStack, env, mpc, early>>

(* The application gives the core back: rt_check when the stack has not    *)
(* run for STACK_PENDING_TIMEOUT, and, with knocked cleared first, when it *)
(* finds no event.                                                         *)
yield_to_stack(a, asleep) ==
    LET c == core_id[a]
    IN  /\ Runs(App(a)) /\ rt_ctx[c].qstack
        /\ rt_ctx' = [rt_ctx EXCEPT ![c].on_stack = TRUE, ![c].knocked = @ /\ ~ asleep]
        /\ q_coYield_to(c, App(rt_ctx[c].qapp), Stack(c))
        /\ UNCHANGED <<conf, rt_thread, app_contexts, thread, pCallStack, env, mpc, early, up>>

-----------------------------------------------------------------------------
(* Every context holds its own coroutine or nothing, no flow of control    *)
(* runs twice or runs and is saved, every one that was started still       *)
(* exists, and on_stack tells which of two coroutines has a core.          *)
ContextsExact ==
    up = "yes" =>
        /\ \A co \in Coroutines : ctx[co] \in {None, co}
        /\ \A p, q \in Pthreads : p # q /\ flow[p] # None => flow[p] # flow[q]
        /\ \A p \in Pthreads : flow[p] # None => ctx[flow[p]] = None
        /\ \A co \in cStart : Runs(co) \/ ctx[co] = co
        /\ \A k \in Stacks : Stack(k) \in cStart => (rt_ctx[k].on_stack <=> flow[k] = Stack(k))

(* A stack never switches to an application that is not there, unless an   *)
(* event was raised for it before it was ready; and only an application    *)
(* that shares the core of a stack returns to nowhere.                     *)
SwitchesToThreads ==
    /\ up \in {"no application", "no coroutine"} => early
    /\ up = "no caller" => \E a \in Returning : core_id[a] \in Stacks
=============================================================================
