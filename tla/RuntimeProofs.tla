--------------------------- MODULE RuntimeProofs ---------------------------
(***************************************************************************)
(* What the runtime guarantees for any number of stacks, applications and  *)
(* cores, whatever the applications do: ContextsExact, SwitchesToThreads.  *)
(*                                                                         *)
(* IInv says, while the process is up, where every core is in its life     *)
(* (StackCore, AppCore), that a context is saved exactly for a coroutine   *)
(* that was started and does not run (Saved), that the tables of the       *)
(* applications agree (Tables), and what the main thread did (Starts).     *)
(* ContextsExact alone is not inductive: that the context to go on with    *)
(* holds something follows only from where the core is.                    *)
(***************************************************************************)
EXTENDS Runtime, TLAPS

(* Zenon proves most leaves; one that needs SMT says so. *)
USE ZenonT(60)

(* A step of the runtime. *)
RuntimeNext ==
    \/ qstack_init \/ qstack_createListenSock \/ create_app_pthread
    \/ __create_app_thread \/ knock_new_thread
    \/ \E c \in Cores : qstack_thread_start(c) \/ app_thread_start(c)
    \/ \E k \in Stacks : wakeup_application(k)
    \/ \E k \in Stacks, a \in Apps : wakeup_app_thread(k, a)
    \/ \E a \in Apps, asleep \in BOOLEAN : yield_to_stack(a, asleep)
    \/ \E a \in Returning : CoRoutineFunc(a)

RuntimeSpec == RuntimeInit /\ [][RuntimeNext]_rtVars

-----------------------------------------------------------------------------
(* The inductive invariant. *)
CtxType == [qstack : BOOLEAN, qapp : Apps \cup {None}, knocked : BOOLEAN, on_stack : BOOLEAN]
Steps == {"stacks", "listen", "app", "create", "knock", "join"}

Types ==
    /\ conf \in Configs
    /\ rt_thread \subseteq Pthreads
    /\ rt_ctx \in [Cores -> CtxType]
    /\ app_contexts \subseteq Apps
    /\ thread \subseteq Coroutines
    /\ cStart \subseteq thread
    /\ DOMAIN pCallStack = Pthreads
    /\ DOMAIN env = Coroutines
    /\ flow \in [Pthreads -> Coroutines \cup {None}]
    /\ ctx \in [Coroutines -> Coroutines \cup {None}]
    /\ mpc \in [step : Steps, app : Nat]
    /\ mpc.app \in 1..Len(conf.apps)
    /\ early \in BOOLEAN

(* A context holds its own coroutine or nothing: nothing while it runs,    *)
(* its own when it was started and does not run.                           *)
Saved ==
    /\ \A co \in Coroutines : ctx[co] \in {None, co}
    /\ \A p \in Pthreads : flow[p] # None => ctx[flow[p]] = None
    /\ \A co \in cStart : (\E p \in Pthreads : flow[p] = co) \/ ctx[co] = co

(* The core of a stack: without a thread, with one that has to create its  *)
(* coroutine, in the stack, or in the application.                         *)
StackCore(k) ==
    \/ /\ k \notin rt_thread /\ flow[k] = None /\ ctx[Self(k)] = None
       /\ Stack(k) \notin thread /\ pCallStack[k] = <<>>
    \/ k \in rt_thread /\ flow[k] = Self(k) /\ Stack(k) \notin thread /\ pCallStack[k] = <<>>
    \/ /\ k \in rt_thread /\ flow[k] = Stack(k) /\ Stack(k) \in cStart
       /\ rt_ctx[k].on_stack
    \/ /\ k \in rt_thread /\ flow[k] = App(rt_ctx[k].qapp) /\ rt_ctx[k].qapp # None
       /\ App(rt_ctx[k].qapp) \in thread
       /\ Stack(k) \in cStart /\ ctx[Stack(k)] = Stack(k)
       /\ ~ rt_ctx[k].on_stack

(* Another core: without a thread, with one that has to create its         *)
(* coroutine, in the application, or back from it.                         *)
AppCore(c) ==
    \/ /\ c \notin rt_thread /\ flow[c] = None /\ ctx[Self(c)] = None
       /\ App(rt_ctx[c].qapp) \notin thread /\ pCallStack[c] = <<>>
    \/ /\ c \in rt_thread /\ flow[c] = Self(c) /\ rt_ctx[c].qapp # None
       /\ App(rt_ctx[c].qapp) \notin thread /\ pCallStack[c] = <<>>
    \/ /\ c \in rt_thread /\ flow[c] = App(rt_ctx[c].qapp) /\ rt_ctx[c].qapp # None
       /\ App(rt_ctx[c].qapp) \in thread
       /\ pCallStack[c] = <<Self(c), App(rt_ctx[c].qapp)>>
       /\ ctx[Self(c)] = Self(c)
    \/ /\ c \in rt_thread /\ flow[c] = Self(c) /\ rt_ctx[c].qapp # None
       /\ App(rt_ctx[c].qapp) \in thread

MainCore ==
    flow[Main] = Self(Main) /\ pCallStack[Main] \in {<<>>, <<Self(Main)>>}

(* The tables of the applications agree.  The coroutine of an application  *)
(* on the core of a stack belongs to the environment of the main thread.   *)
Tables ==
    /\ \A a \in app_contexts : rt_ctx[core_id[a]].qapp = a
    /\ \A c \in Cores : rt_ctx[c].qapp # None =>
          rt_ctx[c].qapp \in app_contexts /\ core_id[rt_ctx[c].qapp] = c
    /\ \A c \in Cores : rt_ctx[c].qstack => c \in Stacks
    /\ \A a \in Apps : App(a) \in thread =>
          /\ a \in app_contexts
          /\ env[App(a)] = IF core_id[a] \in Stacks THEN Main ELSE core_id[a]
    /\ \A p \in Pthreads : Self(p) \notin thread

(* A knock for a coroutine that is not there comes from an early event. *)
Knocks ==
    \A c \in Cores : rt_ctx[c].knocked /\ ~ early => App(rt_ctx[c].qapp) \in thread

Starts ==
    /\ mpc.step # "stacks" => Stacks \subseteq rt_thread
    /\ mpc.step = "create" =>
          /\ rt_ctx[CurCore].qapp = Cur /\ App(Cur) \notin thread
          /\ CurCore \in rt_thread => CurCore \in Stacks
    /\ mpc.step = "knock" =>
          rt_ctx[CurCore].qapp = Cur /\ App(Cur) \in thread /\ CurCore \in Stacks

Body ==
    /\ Types /\ Saved /\ MainCore /\ Tables /\ Knocks /\ Starts
    /\ \A k \in Stacks : StackCore(k)
    /\ \A c \in Cores \ Stacks : AppCore(c)

IInv == (up = "yes" => Body) /\ SwitchesToThreads

-----------------------------------------------------------------------------
(* The names of coroutines are different. *)
LEMMA Names ==
    /\ \A p, q : Self(p) = Self(q) => p = q
    /\ \A p, q : Stack(p) = Stack(q) => p = q
    /\ \A p, q : App(p) = App(q) => p = q
    /\ \A p, q : Self(p) # Stack(q) /\ Self(p) # App(q) /\ Stack(p) # App(q)
BY DEF Self, Stack, App

LEMMA InCoroutines ==
    /\ \A p \in Pthreads : Self(p) \in Coroutines
    /\ \A k \in Stacks : Stack(k) \in Coroutines
    /\ \A a \in Apps : App(a) \in Coroutines
    /\ None \notin Coroutines /\ None \notin Apps
    /\ \A a : App(a) \in Coroutines => a \in Apps
BY NoneAssumption, Names DEF Coroutines

LEMMA InCores ==
    /\ Stacks \subseteq Cores /\ Cores \subseteq Pthreads
    /\ Main \in Pthreads /\ Main \notin Cores
    /\ \A p \in Pthreads : p = Main \/ p \in Cores
BY RuntimeAssumption DEF Pthreads

(* The runtime contexts keep their type. *)
LEMMA CtxUpdates ==
    ASSUME NEW r \in CtxType
    PROVE  /\ [r EXCEPT !.qstack = TRUE] \in CtxType
           /\ \A a \in Apps : [r EXCEPT !.qapp = a] \in CtxType
           /\ \A b \in BOOLEAN : [r EXCEPT !.knocked = b] \in CtxType
           /\ \A b \in BOOLEAN : [r EXCEPT !.on_stack = b] \in CtxType
           /\ \A b, d \in BOOLEAN : [r EXCEPT !.on_stack = b, !.knocked = d] \in CtxType
BY DEF CtxType

(* The application the main thread starts and its core. *)
LEMMA CurTypes ==
    ASSUME Types
    PROVE  Cur \in Apps /\ CurCore \in Cores /\ CurCore = core_id[Cur]
           /\ \A a \in Apps : core_id[a] \in Cores
BY RuntimeAssumption, SMTT(30) DEF Types, Cur, CurCore, core_id

(* What runs on a pthread: an application only on its own core. *)
LEMMA WhereAppsRun ==
    ASSUME Body, NEW a \in Apps, NEW p \in Pthreads, flow[p] = App(a)
    PROVE  p \in Cores /\ p = core_id[a] /\ rt_ctx[p].qapp = a
<1>1. p # Main
  BY Names DEF Body, MainCore
<1>2. p \in Cores
  BY <1>1, InCores
<1>3. rt_ctx[p].qapp = a /\ rt_ctx[p].qapp # None
  <2> App(a) # None /\ App(a) # Self(p) /\ App(a) # Stack(p)
    BY Names, InCoroutines
  <2>1. CASE p \in Stacks
    <3>1. StackCore(p)
      BY <2>1 DEF Body
    <3>2. App(a) = App(rt_ctx[p].qapp) /\ rt_ctx[p].qapp # None
      BY <3>1 DEF StackCore
    <3> QED BY <3>2, Names
  <2>2. CASE p \notin Stacks
    <3>1. AppCore(p)
      BY <1>2, <2>2 DEF Body
    <3>2. App(a) = App(rt_ctx[p].qapp) /\ rt_ctx[p].qapp # None
      BY <3>1 DEF AppCore
    <3> QED BY <3>2, Names
  <2> QED BY <2>1, <2>2
<1> QED
  BY <1>2, <1>3 DEF Body, Tables

LEMMA WhereStacksRun ==
    ASSUME Body, NEW k \in Stacks, NEW p \in Pthreads, flow[p] = Stack(k)
    PROVE  p = k
<1>1. p # Main
  BY Names DEF Body, MainCore
<1>2. p \in Cores
  BY <1>1, InCores
<1> Stack(k) # None /\ Stack(k) # Self(p) /\ Stack(k) # App(rt_ctx[p].qapp)
  BY Names, InCoroutines
<1>3. CASE p \in Stacks
  <2>1. StackCore(p)
    BY <1>3 DEF Body
  <2>2. flow[p] = Stack(p)
    BY <2>1 DEF StackCore
  <2> QED BY <2>2, Names
<1>4. CASE p \notin Stacks
  <2>1. AppCore(p)
    BY <1>2, <1>4 DEF Body
  <2> QED BY <2>1 DEF AppCore
<1> QED BY <1>3, <1>4

LEMMA WhereThreadsRun ==
    ASSUME Body, NEW q \in Pthreads, NEW p \in Pthreads, flow[p] = Self(q)
    PROVE  p = q
<1> Self(q) # None /\ Self(q) # Stack(p) /\ Self(q) # App(rt_ctx[p].qapp)
  BY Names, InCoroutines
<1>1. CASE p = Main
  BY <1>1, Names DEF Body, MainCore
<1>2. CASE p \in Stacks
  <2>1. StackCore(p)
    BY <1>2 DEF Body
  <2>2. flow[p] = Self(p)
    BY <2>1 DEF StackCore
  <2> QED BY <2>2, Names
<1>3. CASE p \in Cores \ Stacks
  <2>1. AppCore(p)
    BY <1>3 DEF Body
  <2>2. flow[p] = Self(p)
    BY <2>1 DEF AppCore
  <2> QED BY <2>2, Names
<1> QED BY <1>1, <1>2, <1>3, InCores

(* No flow of control runs twice. *)
LEMMA RunsOnce ==
    ASSUME Body, NEW p \in Pthreads, NEW q \in Pthreads, p # q, flow[p] # None
    PROVE  flow[p] # flow[q]
<1>1. flow[p] \in Coroutines
  BY DEF Body, Types
<1>2. CASE \E a \in Apps : flow[p] = App(a)
  BY <1>2, WhereAppsRun, SMTT(30)
<1>3. CASE \E k \in Stacks : flow[p] = Stack(k)
  BY <1>3, WhereStacksRun
<1>4. CASE \E r \in Pthreads : flow[p] = Self(r)
  BY <1>4, WhereThreadsRun
<1> QED BY <1>1, <1>2, <1>3, <1>4 DEF Coroutines

(* The invariant implies the property. *)
LEMMA BodyIsExact == Body /\ up = "yes" => ContextsExact
<1> SUFFICES ASSUME Body, up = "yes" PROVE ContextsExact
  OBVIOUS
<1>1. \A co \in cStart : Runs(co) \/ ctx[co] = co
  BY DEF Body, Saved, Runs
<1>2. ASSUME NEW k \in Stacks, Stack(k) \in cStart
      PROVE  rt_ctx[k].on_stack <=> flow[k] = Stack(k)
  BY <1>2, Names DEF Body, StackCore, Types
<1> QED
  BY RunsOnce, <1>1, <1>2 DEF ContextsExact, Body, Saved

-----------------------------------------------------------------------------
(* Switching to a coroutine that does not run: coctx_make gives it its     *)
(* start when it has none, otherwise its context was saved.                *)
LEMMA YieldTo ==
    ASSUME Types, Saved, NEW p \in Pthreads, NEW curr \in Coroutines, NEW pend \in Coroutines,
           flow[p] = curr, curr # pend, \A q \in Pthreads : flow[q] # pend,
           q_coYield_to(p, curr, pend)
    PROVE  /\ flow' = [flow EXCEPT ![p] = pend]
           /\ ctx' = [ctx EXCEPT ![curr] = curr, ![pend] = None]
           /\ cStart' = cStart \cup {pend}
<1> DEFINE c == coctx_make(pend)
<1>1. c[pend] = pend
  BY DEF coctx_make, Types, Saved
<1>2. [c EXCEPT ![curr] = curr, ![pend] = None] = [ctx EXCEPT ![curr] = curr, ![pend] = None]
  BY DEF coctx_make, Types
<1>3. /\ flow' = [flow EXCEPT ![p] = c[pend]]
      /\ ctx' = [c EXCEPT ![curr] = flow[p], ![pend] = None]
      /\ cStart' = cStart \cup {pend}
  BY DEF q_coYield_to, co_swap, coctx_swap
<1> HIDE DEF c
<1> QED BY <1>1, <1>2, <1>3

(* A switch saves what ran and takes what goes on out of its context. *)
LEMMA SwitchSaves ==
    ASSUME Body, NEW p \in Pthreads, NEW curr \in Coroutines, NEW pend \in Coroutines,
           flow[p] = curr, curr # pend, \A q \in Pthreads : flow[q] # pend,
           flow' = [flow EXCEPT ![p] = pend],
           ctx' = [ctx EXCEPT ![curr] = curr, ![pend] = None],
           cStart' \subseteq cStart \cup {pend}
    PROVE  /\ Saved'
           /\ flow' \in [Pthreads -> Coroutines \cup {None}]
           /\ ctx' \in [Coroutines -> Coroutines \cup {None}]
<1> USE InCoroutines
<1>1. \A q \in Pthreads : q # p => flow[q] # curr
  BY RunsOnce
<1>2. \A co \in Coroutines : ctx'[co] \in {None, co}
  BY DEF Body, Types, Saved
<1>3. \A q \in Pthreads : flow'[q] # None => ctx'[flow'[q]] = None
  BY <1>1, SMTT(30) DEF Body, Types, Saved
<1>4. ASSUME NEW co \in cStart'
      PROVE  (\E q \in Pthreads : flow'[q] = co) \/ ctx'[co] = co
  <2>1. CASE co = pend
    BY <2>1 DEF Body, Types
  <2>2. CASE co = curr
    BY <2>2 DEF Body, Types
  <2>3. CASE co # pend /\ co # curr
    <3>1. co \in cStart /\ co \in Coroutines
      BY <2>3 DEF Body, Types
    <3>2. CASE ctx[co] = co
      BY <2>3, <3>1, <3>2 DEF Body, Types
    <3>3. CASE \E q \in Pthreads : flow[q] = co
      BY <2>3, <3>1, <3>3 DEF Body, Types
    <3> QED BY <3>1, <3>2, <3>3 DEF Body, Saved
  <2> QED BY <2>1, <2>2, <2>3
<1> QED
  BY <1>2, <1>3, <1>4 DEF Saved, Body, Types

-----------------------------------------------------------------------------
(* One lemma per action: what it does to the invariant. *)

Kept == (up' = "yes" => Body') /\ SwitchesToThreads'

LEMMA StaysUp == Body' /\ up' = "yes" => Kept
BY DEF Kept, SwitchesToThreads

LEMMA InitKept == RuntimeInit => IInv
<1> SUFFICES ASSUME RuntimeInit PROVE Body /\ SwitchesToThreads
  BY DEF IInv
<1> USE InCores, InCoroutines DEF RuntimeInit
<1>1. Types
  <2>1. conf \in Configs /\ Len(conf.apps) \in Nat /\ Len(conf.apps) > 0
    BY RuntimeAssumption, SMTT(30)
  <2>2. rt_ctx \in [Cores -> CtxType]
    BY DEF qcore_init, runtime_init, CtxType
  <2>3. mpc \in [step : Steps, app : Nat] /\ mpc.app = 1
    BY DEF Steps
  <2>4. /\ flow \in [Pthreads -> Coroutines \cup {None}]
        /\ ctx \in [Coroutines -> Coroutines \cup {None}]
        /\ DOMAIN pCallStack = Pthreads /\ DOMAIN env = Coroutines
    OBVIOUS
  <2>5. mpc.app \in 1..Len(conf.apps)
    BY <2>1, <2>3, SMTT(30)
  <2>6. early \in BOOLEAN /\ rt_thread \subseteq Pthreads /\ app_contexts \subseteq Apps
        /\ thread \subseteq Coroutines /\ cStart \subseteq thread
    OBVIOUS
  <2> HIDE DEF RuntimeInit
  <2> QED BY <2>1, <2>2, <2>3, <2>4, <2>5, <2>6 DEF Types
<1>2. Saved
  BY Names DEF Saved
<1>3. \A c \in Cores : StackCore(c) /\ AppCore(c)
  BY DEF StackCore, AppCore
<1>4. Tables /\ Knocks /\ MainCore
  BY DEF Tables, Knocks, MainCore, qcore_init, runtime_init
<1>5. Starts
  BY DEF Starts
<1> QED
  BY <1>1, <1>2, <1>3, <1>4, <1>5 DEF Body, SwitchesToThreads

LEMMA StackThreadKept ==
    ASSUME Body, up = "yes", qstack_init
    PROVE  Kept
<1> USE InCores, InCoroutines
<1>1. PICK k \in Stacks \ rt_thread :
          /\ rt_ctx' = [rt_ctx EXCEPT ![k].qstack = TRUE]
          /\ rt_thread' = rt_thread \cup {k}
          /\ flow' = [flow EXCEPT ![k] = Self(k)]
          /\ mpc' = [mpc EXCEPT !.step = IF Stacks \subseteq rt_thread' THEN "listen" ELSE "stacks"]
  BY DEF qstack_init, stack_context_init, MainTo
<1>2. /\ mpc.step = "stacks"
      /\ UNCHANGED <<conf, app_contexts, thread, cStart, pCallStack, env, ctx, early, up>>
  BY DEF qstack_init, MainAt
<1>3. Types'
  <2>1. rt_ctx' \in [Cores -> CtxType]
    BY <1>1, CtxUpdates DEF Body, Types
  <2>2. mpc' \in [step : Steps, app : Nat] /\ mpc'.app = mpc.app
    BY <1>1 DEF Body, Types, Steps
  <2> QED BY <1>1, <1>2, <2>1, <2>2, SMTT(30) DEF Body, Types
<1>4. k \in Cores /\ StackCore(k) /\ flow[k] = None /\ ctx[Self(k)] = None
      /\ Stack(k) \notin thread /\ pCallStack[k] = <<>>
  BY <1>1 DEF Body, StackCore
<1>5. \A c \in Cores : /\ rt_ctx'[c].qapp = rt_ctx[c].qapp
                        /\ rt_ctx'[c].knocked = rt_ctx[c].knocked
                        /\ rt_ctx'[c].on_stack = rt_ctx[c].on_stack
                        /\ rt_ctx'[c].qstack => rt_ctx[c].qstack \/ c = k
  BY <1>1 DEF Body, Types, CtxType
<1>6. Saved'
  <2>1. \A p \in Pthreads : flow'[p] = IF p = k THEN Self(k) ELSE flow[p]
    BY <1>1 DEF Body, Types
  <2>2. \A co \in cStart : co \in Coroutines
    BY DEF Body, Types
  <2> QED BY <1>2, <1>4, <2>1, <2>2 DEF Saved, Body
<1>7. MainCore' /\ Tables' /\ Knocks'
  BY <1>1, <1>2, <1>5, SMTT(30) DEF Body, MainCore, Tables, Knocks, Types, core_id
<1>8. Starts'
  BY <1>1, <1>2, <1>3 DEF Starts, Body, Types
<1>9. ASSUME NEW j \in Stacks PROVE StackCore(j)'
  BY <1>1, <1>2, <1>4, <1>5 DEF Body, StackCore, Types
<1>10. ASSUME NEW c \in Cores \ Stacks PROVE AppCore(c)'
  BY <1>1, <1>2, <1>4, <1>5 DEF Body, AppCore, Types
<1>11. Body'
  BY <1>3, <1>6, <1>7, <1>8, <1>9, <1>10 DEF Body
<1> QED BY <1>2, <1>11, StaysUp

LEMMA ListenKept ==
    ASSUME Body, up = "yes", qstack_createListenSock
    PROVE  Kept
<1>1. mpc' = [mpc EXCEPT !.step = "app"] /\ mpc.step = "listen"
  BY DEF qstack_createListenSock, MainAt, MainTo
<1>2. UNCHANGED <<conf, rt_thread, rt_ctx, app_contexts, thread, cStart, pCallStack, env, flow,
                  ctx, early, up>>
  BY DEF qstack_createListenSock
<1>3. Types' /\ Starts'
  BY <1>1, <1>2 DEF Body, Types, Steps, Starts
<1>4. Saved' /\ MainCore' /\ Tables' /\ Knocks'
  BY <1>2 DEF Body, Saved, MainCore, Tables, Knocks, core_id
<1>5. \A k \in Cores : (StackCore(k) => StackCore(k)') /\ (AppCore(k) => AppCore(k)')
  BY <1>2 DEF StackCore, AppCore
<1>6. Body'
  BY <1>3, <1>4, <1>5, InCores DEF Body
<1> QED BY <1>2, <1>6, StaysUp

(* A runtime context that gets its application. *)
LEMMA CreatePthreadKept ==
    ASSUME Body, up = "yes", create_app_pthread
    PROVE  Kept
<1> USE InCores, InCoroutines
<1>1. Cur \in Apps /\ CurCore \in Cores /\ core_id[Cur] = CurCore /\ mpc.step = "app"
  BY CurTypes DEF Body, create_app_pthread, MainAt
<1>2. UNCHANGED <<conf, rt_thread, thread, cStart, pCallStack, env, flow, ctx, early>>
  BY DEF create_app_pthread
<1>3. CASE rt_ctx[CurCore].qapp # None
  <2>1. up' = "core taken"
    BY <1>3 DEF create_app_pthread
  <2> QED BY <2>1 DEF Kept, SwitchesToThreads
<1>4. CASE rt_ctx[CurCore].qapp = None
  <2>1. /\ rt_ctx' = [rt_ctx EXCEPT ![CurCore].qapp = Cur]
        /\ app_contexts' = app_contexts \cup {Cur}
        /\ mpc' = [mpc EXCEPT !.step = "create"] /\ up' = up
    BY <1>4 DEF create_app_pthread, MainTo
  <2>2. Types'
    <3>1. rt_ctx' \in [Cores -> CtxType]
      BY <1>1, <2>1, CtxUpdates DEF Body, Types
    <3>2. mpc' \in [step : Steps, app : Nat] /\ mpc'.app = mpc.app /\ mpc'.step = "create"
      BY <2>1 DEF Body, Types, Steps
    <3> QED BY <1>1, <1>2, <2>1, <3>1, <3>2 DEF Body, Types
  <2>3. /\ rt_ctx'[CurCore].qapp = Cur
        /\ \A c \in Cores : c # CurCore => rt_ctx'[c] = rt_ctx[c]
        /\ \A c \in Cores : /\ rt_ctx'[c].qstack = rt_ctx[c].qstack
                             /\ rt_ctx'[c].knocked = rt_ctx[c].knocked
                             /\ rt_ctx'[c].on_stack = rt_ctx[c].on_stack
    BY <1>1, <2>1, SMTT(30) DEF Body, Types, CtxType
  <2>4. Cur' = Cur /\ CurCore' = CurCore /\ core_id' = core_id /\ mpc'.step = "create"
    BY <1>2, <2>1 DEF Cur, CurCore, core_id, Body, Types
  <2>5. App(Cur) \notin thread /\ Cur \notin app_contexts /\ App(None) \notin thread
    BY <1>1, <1>4 DEF Body, Types, Tables
  <2>6. Saved' /\ MainCore'
    BY <1>2 DEF Body, Saved, MainCore
  <2>7. Tables'
    <3>1. \A a \in app_contexts' : rt_ctx'[core_id'[a]].qapp = a
      <4> TAKE a \in app_contexts'
      <4>1. CASE a = Cur
        BY <4>1, <1>1, <2>3, <2>4
      <4>2. CASE a # Cur
        <5>1. a \in app_contexts /\ rt_ctx[core_id[a]].qapp = a /\ core_id[a] \in Cores /\ a # None
          BY <4>2, <2>1, CurTypes DEF Body, Tables, Types
        <5>2. core_id[a] # CurCore
          BY <5>1, <1>4
        <5> QED BY <5>1, <5>2, <2>3, <2>4
      <4> QED BY <4>1, <4>2
    <3>2. \A c \in Cores : rt_ctx'[c].qapp # None =>
             rt_ctx'[c].qapp \in app_contexts' /\ core_id'[rt_ctx'[c].qapp] = c
      BY <1>1, <2>1, <2>3, <2>4, SMTT(30) DEF Body, Tables
    <3>3. \A c \in Cores : rt_ctx'[c].qstack => c \in Stacks
      BY <2>3 DEF Body, Tables
    <3>4. \A a \in Apps : App(a) \in thread' =>
             /\ a \in app_contexts'
             /\ env'[App(a)] = IF core_id'[a] \in Stacks THEN Main ELSE core_id'[a]
      BY <1>2, <2>1, <2>4 DEF Body, Tables
    <3>5. \A p \in Pthreads : Self(p) \notin thread'
      BY <1>2 DEF Body, Tables
    <3> QED BY <3>1, <3>2, <3>3, <3>4, <3>5 DEF Tables
  <2>8. Knocks'
    <3> SUFFICES ASSUME NEW c \in Cores, rt_ctx'[c].knocked, ~ early'
                 PROVE  App(rt_ctx'[c].qapp) \in thread'
      BY DEF Knocks
    <3>1. App(rt_ctx[c].qapp) \in thread
      BY <1>2, <2>3 DEF Body, Knocks
    <3> QED BY <3>1, <2>3, <2>5, <1>2, <1>4
  <2>9. \A c \in Cores \ Stacks : c \in rt_thread => rt_ctx[c].qapp # None
    BY DEF Body, AppCore
  <2>10. Starts'
    <3>1. Stacks \subseteq rt_thread
      BY <1>1 DEF Body, Starts
    <3> QED BY <3>1, <1>1, <1>2, <1>4, <2>3, <2>4, <2>5, <2>9 DEF Starts
  <2>11. ASSUME NEW k \in Stacks PROVE StackCore(k)'
    <3>1. StackCore(k)
      BY DEF Body
    <3>2. rt_ctx[k].qapp # None => rt_ctx'[k] = rt_ctx[k]
      BY <1>4, <2>3
    <3> QED BY <3>1, <3>2, <1>2, <2>3 DEF StackCore
  <2>12. ASSUME NEW c \in Cores \ Stacks PROVE AppCore(c)'
    <3>1. AppCore(c)
      BY DEF Body
    <3>2. CASE c # CurCore
      BY <3>1, <3>2, <1>2, <2>3 DEF AppCore
    <3>3. CASE c = CurCore
      BY <3>1, <3>3, <1>2, <1>4, <2>3, <2>5 DEF AppCore
    <3> QED BY <3>2, <3>3
  <2>13. Body'
    BY <2>2, <2>6, <2>7, <2>8, <2>10, <2>11, <2>12 DEF Body
  <2> QED BY <2>1, <2>13, StaysUp
<1> QED BY <1>3, <1>4

(* qstack_thread_create goes on to an application of the list, or ends. *)
LEMMA NextAppTypes ==
    ASSUME Types, conf' = conf, NextApp
    PROVE  /\ mpc' \in [step : Steps, app : Nat] /\ mpc'.app \in 1..Len(conf'.apps)
           /\ mpc'.step \in {"app", "join"}
<1>1. Len(conf.apps) \in Nat /\ Len(conf.apps) > 0
  BY RuntimeAssumption, SMTT(30) DEF Types
<1> QED BY <1>1, SMTT(30) DEF Types, NextApp, Steps

(* The coroutine of an application beside a stack, or a thread for it. *)
LEMMA CreateThreadKept ==
    ASSUME Body, up = "yes", __create_app_thread
    PROVE  Kept
<1> USE InCores, InCoroutines
<1>1. /\ Cur \in Apps /\ CurCore \in Cores /\ core_id[Cur] = CurCore /\ mpc.step = "create"
      /\ rt_ctx[CurCore].qapp = Cur /\ App(Cur) \notin thread /\ Cur # None
      /\ Stacks \subseteq rt_thread
      /\ CurCore \in rt_thread => CurCore \in Stacks
  BY CurTypes DEF Body, __create_app_thread, MainAt, Starts
<1>2. UNCHANGED <<conf, rt_ctx, app_contexts, cStart, ctx, early, up>>
  BY DEF __create_app_thread
<1>3. core_id' = core_id
  BY <1>2 DEF core_id
<1>4. Cur \in app_contexts
  BY <1>1, SMTT(30) DEF Body, Tables
<1>5. CASE CurCore \in rt_thread
  <2>1. /\ pCallStack' = [pCallStack EXCEPT ![Main] = Env(Main)]
        /\ env' = [env EXCEPT ![App(Cur)] = Main]
        /\ thread' = thread \cup {App(Cur)}
        /\ mpc' = [mpc EXCEPT !.step = "knock"]
        /\ UNCHANGED <<rt_thread, flow>>
    BY <1>5 DEF __create_app_thread, q_coCreate, q_coCreate_env, MainTo
  <2>2. mpc' \in [step : Steps, app : Nat] /\ mpc'.app = mpc.app /\ mpc'.step = "knock"
    BY <2>1 DEF Body, Types, Steps
  <2>3. Types'
    BY <1>1, <1>2, <2>1, <2>2, SMTT(30) DEF Body, Types
  <2>4. Cur' = Cur /\ CurCore' = CurCore
    BY <1>2, <2>2 DEF Cur, CurCore, core_id
  <2>5. Saved'
    BY <1>2, <2>1 DEF Body, Saved
  <2>6. MainCore'
    BY <2>1 DEF Body, MainCore, Types, Env
  <2>7. Tables'
    <3>1. \A a \in Apps : App(a) \in thread' =>
             /\ a \in app_contexts'
             /\ env'[App(a)] = IF core_id'[a] \in Stacks THEN Main ELSE core_id'[a]
      <4> SUFFICES ASSUME NEW a \in Apps, App(a) \in thread'
                   PROVE  /\ a \in app_contexts
                          /\ env'[App(a)] = IF core_id[a] \in Stacks THEN Main ELSE core_id[a]
        BY <1>2, <1>3
      <4>1. CASE a = Cur
        BY <4>1, <1>1, <1>4, <1>5, <2>1 DEF Body, Types
      <4>2. CASE a # Cur
        <5>1. App(a) # App(Cur)
          BY <4>2, Names
        <5> QED BY <5>1, <2>1 DEF Body, Types, Tables
      <4> QED BY <4>1, <4>2
    <3>2. \A p \in Pthreads : Self(p) \notin thread'
      BY <2>1, Names DEF Body, Tables
    <3> QED BY <3>1, <3>2, <1>2, <1>3 DEF Tables, Body
  <2>8. Knocks'
    BY <1>2, <2>1 DEF Body, Knocks
  <2>9. Starts'
    BY <1>1, <1>2, <1>5, <2>1, <2>2, <2>4 DEF Starts
  <2>10. \A p \in Cores : pCallStack'[p] = pCallStack[p]
    BY <2>1 DEF Body, Types
  <2>11. ASSUME NEW k \in Stacks PROVE StackCore(k)'
    <3>1. StackCore(k) /\ Stack(k) # App(Cur)
      BY Names DEF Body
    <3> QED BY <3>1, <1>2, <2>1, <2>10 DEF StackCore
  <2>12. ASSUME NEW c \in Cores \ Stacks PROVE AppCore(c)'
    <3>1. AppCore(c) /\ c # CurCore
      BY <1>1, <1>5 DEF Body
    <3>2. App(rt_ctx[c].qapp) # App(Cur)
      <4>1. rt_ctx[c].qapp # Cur
        BY <1>1, <3>1 DEF Body, Tables
      <4> QED BY <4>1, Names
    <3> QED BY <3>1, <3>2, <1>2, <2>1, <2>10 DEF AppCore
  <2>13. Body'
    BY <2>3, <2>5, <2>6, <2>7, <2>8, <2>9, <2>11, <2>12 DEF Body
  <2> QED BY <1>2, <2>13, StaysUp
<1>6. CASE CurCore \notin rt_thread
  <2>1. /\ rt_thread' = rt_thread \cup {CurCore}
        /\ flow' = [flow EXCEPT ![CurCore] = Self(CurCore)]
        /\ NextApp /\ UNCHANGED <<pCallStack, env, thread>>
    BY <1>6 DEF __create_app_thread
  <2>2. CurCore \in Cores \ Stacks
    BY <1>1, <1>6
  <2>3. /\ flow[CurCore] = None /\ ctx[Self(CurCore)] = None
        /\ pCallStack[CurCore] = <<>> /\ App(rt_ctx[CurCore].qapp) \notin thread
    BY <1>6, <2>2 DEF Body, AppCore
  <2>4. Types'
    <3>1. /\ mpc' \in [step : Steps, app : Nat] /\ mpc'.app \in 1..Len(conf'.apps)
      BY <1>2, <2>1, NextAppTypes DEF Body
    <3>2. flow' \in [Pthreads -> Coroutines \cup {None}]
      BY <1>1, <2>1 DEF Body, Types
    <3> QED BY <1>1, <1>2, <2>1, <3>1, <3>2, SMTT(30) DEF Body, Types
  <2>5. \A p \in Pthreads : flow'[p] = IF p = CurCore THEN Self(CurCore) ELSE flow[p]
    BY <1>1, <2>1 DEF Body, Types
  <2>6. Saved'
    <3>1. \A co \in Coroutines : ctx'[co] \in {None, co}
      BY <1>2 DEF Body, Saved
    <3>2. \A p \in Pthreads : flow'[p] # None => ctx'[flow'[p]] = None
      BY <1>2, <2>3, <2>5 DEF Body, Saved
    <3>3. \A co \in cStart : co \in Coroutines
      BY DEF Body, Types
    <3>4. \A co \in cStart' : (\E p \in Pthreads : flow'[p] = co) \/ ctx'[co] = co
      BY <1>2, <2>3, <2>5, <3>3 DEF Body, Saved
    <3> QED BY <3>1, <3>2, <3>4 DEF Saved
  <2>7. MainCore'
    BY <1>1, <2>1, <2>5 DEF Body, MainCore
  <2>8. Tables' /\ Knocks'
    BY <1>2, <1>3, <2>1 DEF Body, Tables, Knocks
  <2>9. Starts'
    <3>1. mpc'.step \in {"app", "join"}
      BY <1>2, <2>1, NextAppTypes DEF Body
    <3> QED BY <1>1, <2>1, <3>1 DEF Starts
  <2>10. ASSUME NEW k \in Stacks PROVE StackCore(k)'
    <3>1. StackCore(k) /\ k # CurCore /\ k \in Pthreads
      BY <2>2 DEF Body
    <3> QED BY <3>1, <1>2, <2>1, <2>5 DEF StackCore
  <2>11. ASSUME NEW c \in Cores \ Stacks PROVE AppCore(c)'
    <3>1. AppCore(c) /\ c \in Pthreads
      BY DEF Body
    <3>2. CASE c # CurCore
      BY <3>1, <3>2, <1>2, <2>1, <2>5 DEF AppCore
    <3>3. CASE c = CurCore
      BY <3>1, <3>3, <1>1, <1>2, <2>1, <2>3, <2>5 DEF AppCore
    <3> QED BY <3>2, <3>3
  <2>12. Body'
    BY <2>4, <2>6, <2>7, <2>8, <2>9, <2>10, <2>11 DEF Body
  <2> QED BY <1>2, <2>12, StaysUp
<1> QED BY <1>5, <1>6

LEMMA KnockKept ==
    ASSUME Body, up = "yes", knock_new_thread
    PROVE  Kept
<1> USE InCores, InCoroutines
<1>1. /\ Cur \in Apps /\ CurCore \in Cores
      /\ rt_ctx[CurCore].qapp = Cur /\ App(Cur) \in thread
      /\ Stacks \subseteq rt_thread
  BY CurTypes DEF Body, knock_new_thread, MainAt, Starts
<1>2. /\ rt_ctx' = [rt_ctx EXCEPT ![CurCore].knocked = TRUE] /\ NextApp
      /\ UNCHANGED <<conf, rt_thread, app_contexts, thread, cStart, pCallStack, env, flow, ctx,
                     early, up>>
  BY DEF knock_new_thread
<1>3. /\ mpc' \in [step : Steps, app : Nat] /\ mpc'.app \in 1..Len(conf'.apps)
      /\ mpc'.step \in {"app", "join"}
  BY <1>2, NextAppTypes DEF Body
<1>4. Types'
  <2>1. rt_ctx' \in [Cores -> CtxType]
    BY <1>1, <1>2, CtxUpdates DEF Body, Types
  <2> QED BY <1>2, <1>3, <2>1 DEF Body, Types
<1>5. \A c \in Cores : /\ rt_ctx'[c].qapp = rt_ctx[c].qapp
                        /\ rt_ctx'[c].qstack = rt_ctx[c].qstack
                        /\ rt_ctx'[c].on_stack = rt_ctx[c].on_stack
                        /\ c # CurCore => rt_ctx'[c].knocked = rt_ctx[c].knocked
  BY <1>1, <1>2 DEF Body, Types, CtxType
<1>6. Saved' /\ MainCore'
  BY <1>2 DEF Body, Saved, MainCore
<1>7. Tables'
  <2>1. \A a \in app_contexts : core_id[a] \in Cores
    BY CurTypes DEF Body, Types
  <2> QED BY <1>2, <1>5, <2>1, SMTT(30) DEF Body, Tables, core_id
<1>8. Knocks'
  BY <1>1, <1>2, <1>5, SMTT(30) DEF Body, Knocks
<1>9. Starts'
  BY <1>1, <1>2, <1>3 DEF Starts
<1>10. \A k \in Cores : (StackCore(k) => StackCore(k)') /\ (AppCore(k) => AppCore(k)')
  BY <1>2, <1>5, SMTT(30) DEF StackCore, AppCore
<1>11. Body'
  BY <1>4, <1>6, <1>7, <1>8, <1>9, <1>10 DEF Body
<1> QED BY <1>2, <1>11, StaysUp

(* An event that knocks for an application, or finds none. *)
LEMMA EventKept ==
    ASSUME Body, up = "yes", NEW k \in Stacks, NEW a \in Apps, wakeup_app_thread(k, a)
    PROVE  Kept
<1> USE InCores, InCoroutines
<1>1. /\ early' = (early \/ ~ Ready(a))
      /\ UNCHANGED <<conf, rt_thread, app_contexts, thread, cStart, pCallStack, env, flow, ctx, mpc>>
  BY DEF wakeup_app_thread
<1>2. CASE a \notin app_contexts
  <2>1. early' /\ up' = "no application"
    BY <1>1, <1>2 DEF wakeup_app_thread, Ready
  <2> QED BY <2>1 DEF Kept, SwitchesToThreads
<1>3. CASE a \in app_contexts
  <2> DEFINE c == core_id[a]
  <2>1. c \in Cores /\ rt_ctx[c].qapp = a
    BY <1>3, CurTypes DEF Body, Tables
  <2>2. /\ rt_ctx' = IF rt_ctx[c].qstack THEN [rt_ctx EXCEPT ![c].knocked = TRUE] ELSE rt_ctx
        /\ up' = up
    BY <1>3 DEF wakeup_app_thread
  <2>3. rt_ctx[c].qstack /\ ~ early' => App(a) \in thread
    BY <1>1 DEF Ready
  <2>4. core_id' = core_id /\ Cur' = Cur /\ CurCore' = CurCore
    BY <1>1 DEF core_id, Cur, CurCore
  <2> HIDE DEF c
  <2>5. rt_ctx' \in [Cores -> CtxType]
    BY <2>1, <2>2, CtxUpdates DEF Body, Types
  <2>6. early' \in BOOLEAN /\ (early => early')
    BY <1>1 DEF Body, Types
  <2>7. Types'
    BY <1>1, <2>5, <2>6 DEF Body, Types
  <2>8. \A d \in Cores : /\ rt_ctx'[d].qapp = rt_ctx[d].qapp
                          /\ rt_ctx'[d].qstack = rt_ctx[d].qstack
                          /\ rt_ctx'[d].on_stack = rt_ctx[d].on_stack
    BY <2>1, <2>2, SMTT(30) DEF Body, Types, CtxType
  <2>15. \A d \in Cores : (d # c \/ ~ rt_ctx[c].qstack) => rt_ctx'[d].knocked = rt_ctx[d].knocked
    BY <2>1, <2>2 DEF Body, Types, CtxType
  <2>9. Saved' /\ MainCore'
    BY <1>1 DEF Body, Saved, MainCore
  <2>10. Tables'
    <3>1. \A b \in app_contexts : core_id[b] \in Cores
      BY CurTypes DEF Body, Types
    <3> QED BY <1>1, <2>4, <2>8, <3>1 DEF Body, Tables
  <2>11. Knocks'
    <3> SUFFICES ASSUME NEW d \in Cores, rt_ctx'[d].knocked, ~ early'
                 PROVE  App(rt_ctx[d].qapp) \in thread
      BY <1>1, <2>8 DEF Knocks
    <3>1. CASE d = c /\ rt_ctx[c].qstack
      BY <3>1, <2>1, <2>3
    <3>2. CASE d # c \/ ~ rt_ctx[c].qstack
      <4>1. rt_ctx[d].knocked /\ ~ early
        BY <3>2, <2>6, <2>15
      <4> QED BY <4>1 DEF Body, Knocks
    <3> QED BY <3>1, <3>2
  <2>12. Starts'
    <3>1. CurCore \in Cores
      BY CurTypes DEF Body
    <3> QED BY <1>1, <2>4, <2>8, <3>1 DEF Body, Starts
  <2>13. \A d \in Cores : (StackCore(d) => StackCore(d)') /\ (AppCore(d) => AppCore(d)')
    BY <1>1, <2>8 DEF StackCore, AppCore
  <2>14. Body'
    BY <2>7, <2>9, <2>10, <2>11, <2>12, <2>13 DEF Body
  <2> QED BY <2>2, <2>14, StaysUp
<1> QED BY <1>2, <1>3

(* What every switch leaves alone. *)
Rest ==
    UNCHANGED <<conf, rt_thread, app_contexts, mpc, early>>

(* A switch on a core leaves the other cores where they are. *)
LEMMA OtherCores ==
    ASSUME Body, NEW p \in Cores, NEW curr \in Coroutines, NEW pend \in Coroutines,
           curr \in {Self(p), Stack(p), App(rt_ctx[p].qapp)},
           pend \in {Self(p), Stack(p), App(rt_ctx[p].qapp)},
           flow' = [flow EXCEPT ![p] = pend],
           ctx' = [ctx EXCEPT ![curr] = curr, ![pend] = None],
           cStart' \in {cStart, cStart \cup {pend}}, thread' \in {thread, thread \cup {pend}},
           \A q \in Cores : q # p => pCallStack'[q] = pCallStack[q],
           rt_thread' = rt_thread,
           \A q \in Cores : q # p => rt_ctx'[q] = rt_ctx[q]
    PROVE  /\ \A k \in Stacks : k # p => StackCore(k)'
           /\ \A c \in Cores \ Stacks : c # p => AppCore(c)'
<1> USE InCores, InCoroutines
<1>1. ASSUME NEW q \in Cores, q # p
      PROVE  /\ flow'[q] = flow[q] /\ pCallStack'[q] = pCallStack[q] /\ rt_ctx'[q] = rt_ctx[q]
             /\ Self(q) \notin {curr, pend} /\ Stack(q) \notin {curr, pend}
             /\ ctx'[Self(q)] = ctx[Self(q)]
             /\ App(rt_ctx[q].qapp) # pend
  <2>1. flow'[q] = flow[q]
    BY <1>1 DEF Body, Types
  <2>2. Self(q) \notin {curr, pend} /\ Stack(q) \notin {curr, pend}
    BY <1>1, Names, SMTT(30)
  <2>3. ctx'[Self(q)] = ctx[Self(q)]
    BY <2>2 DEF Body, Types
  <2>4. App(rt_ctx[q].qapp) # pend
    <3> SUFFICES ASSUME App(rt_ctx[q].qapp) = pend PROVE FALSE
      OBVIOUS
    <3>1. rt_ctx[q].qapp = rt_ctx[p].qapp /\ rt_ctx[q].qapp \in Apps
      BY Names
    <3>2. core_id[rt_ctx[q].qapp] = q /\ core_id[rt_ctx[p].qapp] = p
      BY <3>1 DEF Body, Tables
    <3> QED BY <1>1, <3>1, <3>2
  <2> QED BY <1>1, <2>1, <2>2, <2>3, <2>4
<1>2. ASSUME NEW k \in Stacks, k # p PROVE StackCore(k)'
  <2>1. StackCore(k)
    BY DEF Body
  <2>2. /\ flow'[k] = flow[k] /\ pCallStack'[k] = pCallStack[k] /\ rt_ctx'[k] = rt_ctx[k]
        /\ ctx'[Self(k)] = ctx[Self(k)] /\ Stack(k) \notin {curr, pend}
    BY <1>1, <1>2
  <2>3. ctx'[Stack(k)] = ctx[Stack(k)]
    BY <2>2 DEF Body, Types
  <2>4. (Stack(k) \in thread' <=> Stack(k) \in thread) /\ (Stack(k) \in cStart' <=> Stack(k) \in cStart)
    BY <2>2
  <2>5. thread \subseteq thread'
    OBVIOUS
  <2> QED BY <2>1, <2>2, <2>3, <2>4, <2>5 DEF StackCore
<1>3. ASSUME NEW c \in Cores \ Stacks, c # p PROVE AppCore(c)'
  <2>1. AppCore(c)
    BY DEF Body
  <2>2. /\ flow'[c] = flow[c] /\ pCallStack'[c] = pCallStack[c] /\ rt_ctx'[c] = rt_ctx[c]
        /\ ctx'[Self(c)] = ctx[Self(c)] /\ App(rt_ctx[c].qapp) # pend
    BY <1>1, <1>3
  <2>3. App(rt_ctx[c].qapp) \in thread' <=> App(rt_ctx[c].qapp) \in thread
    BY <2>2
  <2> QED BY <2>1, <2>2, <2>3 DEF AppCore
<1> QED BY <1>2, <1>3

(* A thread that creates the coroutine it switches to gives it its own     *)
(* environment.                                                            *)
Created(p, pend) ==
    /\ thread' = thread \cup {pend} /\ env' = [env EXCEPT ![pend] = p]
    /\ pend = Stack(p) \/ (pend = App(rt_ctx[p].qapp) /\ p \notin Stacks)

(* The switch on the core p from one of its coroutines to another. *)
Switches(p, curr, pend) ==
    /\ curr \in {Self(p), Stack(p), App(rt_ctx[p].qapp)}
    /\ pend \in {Self(p), Stack(p), App(rt_ctx[p].qapp)}
    /\ flow[p] = curr /\ curr # pend /\ \A q \in Pthreads : flow[q] # pend
    /\ flow' = [flow EXCEPT ![p] = pend]
    /\ ctx' = [ctx EXCEPT ![curr] = curr, ![pend] = None]
    /\ cStart' \in {cStart, cStart \cup {pend}} /\ cStart' \subseteq thread'
    /\ (thread' = thread /\ env' = env) \/ Created(p, pend)
    /\ DOMAIN pCallStack' = Pthreads
    /\ \A q \in Pthreads : q # p => pCallStack'[q] = pCallStack[q]
    /\ Rest /\ p \in rt_thread
    /\ rt_ctx' \in [Cores -> CtxType]
    /\ \A q \in Cores : q # p => rt_ctx'[q] = rt_ctx[q]
    /\ rt_ctx'[p].qapp = rt_ctx[p].qapp /\ rt_ctx'[p].qstack = rt_ctx[p].qstack
    /\ rt_ctx'[p].knocked => rt_ctx[p].knocked

(* A switch keeps the invariant when the core is again in one of the       *)
(* places of StackCore or AppCore.                                         *)
LEMMA SwitchKept ==
    ASSUME Body, NEW p \in Cores, NEW curr \in Coroutines, NEW pend \in Coroutines,
           Switches(p, curr, pend),
           p \in Stacks => StackCore(p)', p \notin Stacks => AppCore(p)'
    PROVE  Body'
<1> USE InCores, InCoroutines
<1>1. /\ Saved'
      /\ flow' \in [Pthreads -> Coroutines \cup {None}]
      /\ ctx' \in [Coroutines -> Coroutines \cup {None}]
  <2>1. /\ p \in Pthreads /\ flow[p] = curr /\ curr # pend
        /\ \A q \in Pthreads : flow[q] # pend
        /\ flow' = [flow EXCEPT ![p] = pend]
        /\ ctx' = [ctx EXCEPT ![curr] = curr, ![pend] = None]
        /\ cStart' \subseteq cStart \cup {pend}
    BY DEF Switches
  <2> QED BY <2>1, SwitchSaves
<1>2. thread' \subseteq Coroutines /\ DOMAIN env' = Coroutines
  BY DEF Body, Types, Created, Switches
<1>3. Types'
  BY <1>1, <1>2 DEF Body, Types, Rest, Switches
<1>4. MainCore'
  <2>1. flow'[Main] = flow[Main] /\ pCallStack'[Main] = pCallStack[Main]
    BY DEF Body, Types, Switches
  <2> QED BY <2>1 DEF Body, MainCore, Switches
<1>5. core_id' = core_id /\ Cur' = Cur /\ CurCore' = CurCore
  BY DEF core_id, Cur, CurCore, Rest, Switches
<1>6. \A c \in Cores : rt_ctx'[c].qapp = rt_ctx[c].qapp /\ rt_ctx'[c].qstack = rt_ctx[c].qstack
  BY DEF Switches
<1>7. \A c \in Cores : rt_ctx'[c].knocked => rt_ctx[c].knocked
  BY DEF Switches
<1>8. CurCore \in Cores /\ \A a \in app_contexts : core_id[a] \in Cores
  BY CurTypes DEF Body, Types, Switches
<1>9. ASSUME NEW a \in Apps, App(a) \in thread'
      PROVE  /\ a \in app_contexts
             /\ env'[App(a)] = IF core_id[a] \in Stacks THEN Main ELSE core_id[a]
  <2>1. CASE thread' = thread /\ env' = env
    BY <1>9, <2>1 DEF Body, Tables
  <2>2. CASE Created(p, pend) /\ App(a) = pend
    <3>1. App(a) = App(rt_ctx[p].qapp) /\ p \notin Stacks
      BY <2>2, Names DEF Created, Switches
    <3>2. a = rt_ctx[p].qapp
      BY <3>1, Names
    <3>3. a \in app_contexts /\ core_id[a] = p
      BY <3>2 DEF Body, Tables
    <3>4. env'[App(a)] = p
      BY <2>2 DEF Body, Types, Created, Switches
    <3> QED BY <3>1, <3>3, <3>4
  <2>3. CASE Created(p, pend) /\ App(a) # pend
    <3>1. App(a) \in thread /\ env'[App(a)] = env[App(a)]
      BY <1>9, <2>3 DEF Body, Types, Created, Switches
    <3> QED BY <3>1 DEF Body, Tables
  <2> QED BY <2>1, <2>2, <2>3 DEF Switches
<1>10. ASSUME NEW q \in Pthreads PROVE Self(q) \notin thread'
  <2>1. Self(q) \notin thread
    BY DEF Body, Tables
  <2>2. Self(q) # Stack(p) /\ Self(q) # App(rt_ctx[p].qapp)
    BY Names
  <2> QED BY <2>1, <2>2, SMTT(30) DEF Created, Switches
<1>11. Tables'
  BY <1>5, <1>6, <1>8, <1>9, <1>10, SMTT(30) DEF Body, Tables, Rest, Switches
<1>12. thread \subseteq thread'
  BY DEF Created, Switches
<1>13. Knocks'
  BY <1>6, <1>7, <1>12 DEF Body, Knocks, Rest, Switches
<1>14. mpc.step = "create" => App(Cur) \notin thread'
  <2> SUFFICES ASSUME mpc.step = "create", App(Cur) \in thread' PROVE FALSE
    OBVIOUS
  <2>1. rt_ctx[CurCore].qapp = Cur /\ App(Cur) \notin thread /\ (CurCore \in rt_thread => CurCore \in Stacks)
    BY DEF Body, Starts, Switches
  <2>2. Cur = rt_ctx[p].qapp /\ p \notin Stacks
    <3>1. Created(p, pend) /\ App(Cur) = pend
      BY <2>1 DEF Created, Switches
    <3>2. App(Cur) = App(rt_ctx[p].qapp) /\ p \notin Stacks
      BY <3>1, Names DEF Created, Switches
    <3> QED BY <3>2, Names
  <2>3. Cur \in Apps /\ CurCore = core_id[Cur]
    BY CurTypes DEF Body, Switches
  <2>4. core_id[rt_ctx[p].qapp] = p
    BY <2>2, <2>3 DEF Body, Tables
  <2> QED BY <2>1, <2>2, <2>3, <2>4, SMTT(30) DEF Switches
<1>15. Starts'
  BY <1>5, <1>6, <1>8, <1>12, <1>14 DEF Body, Starts, Rest, Switches
<1>16. /\ \A k \in Stacks : k # p => StackCore(k)'
       /\ \A c \in Cores \ Stacks : c # p => AppCore(c)'
  <2>1. thread' \in {thread, thread \cup {pend}} /\ rt_thread' = rt_thread
    BY DEF Rest, Created, Switches
  <2> QED BY <2>1, OtherCores DEF Switches
<1>17. \A k \in Stacks : StackCore(k)'
  BY <1>16
<1>18. \A c \in Cores \ Stacks : AppCore(c)'
  BY <1>16
<1> QED BY <1>1, <1>3, <1>4, <1>11, <1>13, <1>15, <1>17, <1>18 DEF Body, Switches

(* The thread of a stack creates its coroutine and goes on in it. *)
LEMMA StackStartKept ==
    ASSUME Body, up = "yes", NEW k \in Cores, qstack_thread_start(k)
    PROVE  Kept
<1> USE InCores, InCoroutines
<1>1. /\ k \in Stacks /\ flow[k] = Self(k) /\ Stack(k) \notin thread /\ k \in Pthreads
      /\ Rest /\ up' = up
      /\ rt_ctx' = [rt_ctx EXCEPT ![k].on_stack = TRUE]
      /\ q_coResume(k, Stack(k))
  BY DEF qstack_thread_start, Rest
<1>2. k \in rt_thread /\ pCallStack[k] = <<>>
  <2>1. StackCore(k) /\ Self(k) # None /\ Self(k) # Stack(k) /\ Self(k) # App(rt_ctx[k].qapp)
    BY <1>1, Names DEF Body
  <2> QED BY <1>1, <2>1 DEF StackCore
<1>3. Env(k) = <<Self(k)>> /\ Env(k)[Len(Env(k))] = Self(k)
  BY <1>2 DEF Env
<1>4. /\ env' = [env EXCEPT ![Stack(k)] = k] /\ thread' = thread \cup {Stack(k)}
      /\ pCallStack' = [pCallStack EXCEPT ![k] = Append(Env(k), Stack(k))]
      /\ q_coYield_to(k, Self(k), Stack(k))
  BY <1>1, <1>3 DEF q_coResume, q_coCreate_env, q_coYield_to
<1>5. Self(k) # Stack(k) /\ \A q \in Pthreads : flow[q] # Stack(k)
  <2>1. Self(k) # Stack(k)
    BY Names
  <2> QED BY <1>1, <2>1, WhereStacksRun
<1>6. /\ flow' = [flow EXCEPT ![k] = Stack(k)]
      /\ ctx' = [ctx EXCEPT ![Self(k)] = Self(k), ![Stack(k)] = None]
      /\ cStart' = cStart \cup {Stack(k)}
  BY <1>1, <1>4, <1>5, YieldTo DEF Body
<1>7. rt_ctx' \in [Cores -> CtxType]
  BY <1>1, CtxUpdates DEF Body, Types
<1>8. /\ \A c \in Cores : c # k => rt_ctx'[c] = rt_ctx[c]
      /\ rt_ctx'[k].qapp = rt_ctx[k].qapp /\ rt_ctx'[k].qstack = rt_ctx[k].qstack
      /\ rt_ctx'[k].knocked = rt_ctx[k].knocked /\ rt_ctx'[k].on_stack
  BY <1>1, SMTT(30) DEF Body, Types, CtxType
<1>9. /\ cStart' \subseteq thread'
      /\ DOMAIN pCallStack' = Pthreads
      /\ \A q \in Pthreads : q # k => pCallStack'[q] = pCallStack[q]
  BY <1>4, <1>6 DEF Body, Types
<1>10. StackCore(k)'
  <2>1. flow'[k] = Stack(k)
    BY <1>1, <1>6 DEF Body, Types
  <2> QED BY <1>1, <1>2, <1>6, <1>8, <2>1 DEF StackCore, Rest
<1>11. Switches(k, Self(k), Stack(k))
  <2>1. Created(k, Stack(k))
    BY <1>4 DEF Created
  <2> QED BY <1>1, <1>2, <1>5, <1>6, <1>7, <1>8, <1>9, <2>1 DEF Switches
<1>12. Body'
  BY <1>1, <1>10, <1>11, SwitchKept
<1> QED BY <1>1, <1>12, StaysUp

LEMMA Appended == \A x, y : Append(<<x>>, y) = <<x, y>>
<1> SUFFICES ASSUME NEW x, NEW y PROVE Append(<<x>>, y) = <<x, y>>
  OBVIOUS
<1>1. <<x>> \in Seq({x, y}) /\ y \in {x, y} /\ <<x, y>> \in Seq({x, y})
  BY SMTT(30)
<1> DEFINE s == Append(<<x>>, y)
<1>2. s \in Seq({x, y}) /\ Len(s) = 2 /\ s[1] = x /\ s[2] = y
  BY <1>1, SMTT(30)
<1> HIDE DEF s
<1>3. s = <<x, y>>
  BY <1>1, <1>2, SMTT(30)
<1> QED BY <1>3 DEF s

(* The thread of an application with a core of its own does the same. *)
LEMMA AppStartKept ==
    ASSUME Body, up = "yes", NEW c \in Cores, app_thread_start(c)
    PROVE  Kept
<1> USE InCores, InCoroutines
<1> DEFINE co == App(rt_ctx[c].qapp)
<1>1. /\ c \notin Stacks /\ flow[c] = Self(c) /\ co \notin thread /\ c \in Pthreads
      /\ Rest /\ up' = up /\ rt_ctx' = rt_ctx
      /\ q_coResume(c, co)
  BY DEF app_thread_start, Rest
<1>2. c \in rt_thread /\ pCallStack[c] = <<>> /\ rt_ctx[c].qapp # None
  <2>1. AppCore(c) /\ Self(c) # None /\ Self(c) # App(rt_ctx[c].qapp)
    BY <1>1, Names DEF Body
  <2> QED BY <1>1, <2>1 DEF AppCore
<1>3. Env(c) = <<Self(c)>> /\ Env(c)[Len(Env(c))] = Self(c)
      /\ Append(Env(c), co) = <<Self(c), co>>
  <2>1. Env(c) = <<Self(c)>>
    BY <1>2 DEF Env
  <2> QED BY <2>1, Appended, SMTT(30)
<1>4. /\ env' = [env EXCEPT ![co] = c] /\ thread' = thread \cup {co}
      /\ pCallStack' = [pCallStack EXCEPT ![c] = <<Self(c), co>>]
      /\ q_coYield_to(c, Self(c), co)
  BY <1>1, <1>3 DEF q_coResume, q_coCreate_env, q_coYield_to
<1>5. rt_ctx[c].qapp \in Apps /\ co \in Coroutines
  BY <1>2 DEF Body, Types, CtxType
<1>6. Self(c) # co /\ \A q \in Pthreads : flow[q] # co
  <2>1. Self(c) # co
    BY Names
  <2>2. ASSUME NEW q \in Pthreads, flow[q] = co PROVE FALSE
    <3>1. q = core_id[rt_ctx[c].qapp]
      BY <1>5, <2>2, WhereAppsRun, SMTT(30)
    <3>2. core_id[rt_ctx[c].qapp] = c
      BY <1>2 DEF Body, Tables
    <3> QED BY <1>1, <2>1, <2>2, <3>1, <3>2
  <2> QED BY <2>1, <2>2
<1> HIDE DEF co
<1>7. /\ flow' = [flow EXCEPT ![c] = co]
      /\ ctx' = [ctx EXCEPT ![Self(c)] = Self(c), ![co] = None]
      /\ cStart' = cStart \cup {co}
  BY <1>1, <1>4, <1>5, <1>6, YieldTo DEF Body
<1>8. /\ cStart' \subseteq thread'
      /\ DOMAIN pCallStack' = Pthreads
      /\ \A q \in Pthreads : q # c => pCallStack'[q] = pCallStack[q]
  BY <1>4, <1>7 DEF Body, Types
<1>9. AppCore(c)'
  <2>1. flow'[c] = co /\ ctx'[Self(c)] = Self(c) /\ pCallStack'[c] = <<Self(c), co>>
    BY <1>1, <1>4, <1>5, <1>6, <1>7 DEF Body, Types
  <2>2. co \in thread' /\ c \in rt_thread'
    BY <1>1, <1>2, <1>4 DEF Rest
  <2> QED BY <1>1, <1>2, <2>1, <2>2 DEF AppCore, co
<1>10. rt_ctx' \in [Cores -> CtxType]
  BY <1>1 DEF Body, Types
<1>11. co = App(rt_ctx[c].qapp)
  BY DEF co
<1>12. Switches(c, Self(c), co)
  <2>1. Created(c, co)
    BY <1>1, <1>4, <1>11 DEF Created
  <2> QED BY <1>1, <1>2, <1>6, <1>7, <1>8, <1>10, <1>11, <2>1 DEF Switches
<1>13. Body'
  BY <1>1, <1>5, <1>9, <1>12, SwitchKept
<1> QED BY <1>1, <1>13, StaysUp

(* A stack gives its core to the application that was knocked. *)
LEMMA WakeupKept ==
    ASSUME Body, up = "yes", NEW k \in Stacks, wakeup_application(k)
    PROVE  Kept
<1> USE InCores, InCoroutines
<1> DEFINE co == App(rt_ctx[k].qapp)
<1>1. flow[k] = Stack(k) /\ rt_ctx[k].knocked
  BY WhereStacksRun DEF wakeup_application, Runs
<1>2. CASE co \notin thread
  <2>1. up' = "no coroutine" /\ early' = early
    BY <1>2 DEF wakeup_application
  <2>2. early
    BY <1>1, <1>2 DEF Body, Knocks
  <2> QED BY <2>1, <2>2 DEF Kept, SwitchesToThreads
<1>3. CASE co \in thread
  <2>1. /\ rt_ctx' = [rt_ctx EXCEPT ![k].on_stack = FALSE] /\ q_coYield_to(k, Stack(k), co)
        /\ up' = up /\ Rest /\ UNCHANGED <<thread, pCallStack, env>>
    BY <1>3 DEF wakeup_application, yield_to_qapp, Rest
  <2>2. co \in Coroutines /\ rt_ctx[k].qapp \in Apps /\ rt_ctx[k].qapp # None
    BY <1>3 DEF Body, Types
  <2>3. Stack(k) # co /\ Stack(k) # Self(k) /\ Stack(k) # None
    BY Names
  <2>4. ASSUME NEW q \in Pthreads, flow[q] = co PROVE FALSE
    <3>1. q = core_id[rt_ctx[k].qapp]
      BY <2>2, <2>4, WhereAppsRun
    <3>2. core_id[rt_ctx[k].qapp] = k
      BY <2>2 DEF Body, Tables
    <3> QED BY <1>1, <2>3, <2>4, <3>1, <3>2
  <2>5. k \in rt_thread /\ Stack(k) \in cStart
    BY <1>1, <2>3 DEF Body, StackCore
  <2> HIDE DEF co
  <2>6. /\ flow' = [flow EXCEPT ![k] = co]
        /\ ctx' = [ctx EXCEPT ![Stack(k)] = Stack(k), ![co] = None]
        /\ cStart' = cStart \cup {co}
    BY <1>1, <2>1, <2>2, <2>3, <2>4, YieldTo DEF Body
  <2>7. rt_ctx' \in [Cores -> CtxType]
    BY <2>1, CtxUpdates DEF Body, Types
  <2>8. /\ \A c \in Cores : c # k => rt_ctx'[c] = rt_ctx[c]
        /\ rt_ctx'[k].qapp = rt_ctx[k].qapp /\ rt_ctx'[k].qstack = rt_ctx[k].qstack
        /\ rt_ctx'[k].knocked = rt_ctx[k].knocked /\ rt_ctx'[k].on_stack = FALSE
    BY <2>1, SMTT(30) DEF Body, Types, CtxType
  <2>9. cStart' \subseteq thread' /\ DOMAIN pCallStack' = Pthreads
    BY <1>3, <2>1, <2>6 DEF Body, Types
  <2>10. co = App(rt_ctx[k].qapp)
    BY DEF co
  <2>11. StackCore(k)'
    <3>1. flow'[k] = co /\ ctx'[Stack(k)] = Stack(k) /\ Stack(k) \in cStart' /\ k \in rt_thread'
          /\ co \in thread'
      BY <1>3, <2>1, <2>3, <2>5, <2>6 DEF Body, Types, Rest
    <3> QED BY <2>2, <2>8, <2>10, <3>1 DEF StackCore
  <2>12. Switches(k, Stack(k), co)
    BY <1>1, <2>1, <2>3, <2>4, <2>5, <2>6, <2>7, <2>8, <2>9, <2>10 DEF Switches
  <2>13. Body'
    BY <2>2, <2>11, <2>12, SwitchKept
  <2> QED BY <2>1, <2>13, StaysUp
<1> QED BY <1>2, <1>3

(* An application gives the core back to the stack. *)
LEMMA YieldKept ==
    ASSUME Body, up = "yes", NEW a \in Apps, NEW asleep \in BOOLEAN, yield_to_stack(a, asleep)
    PROVE  Kept
<1> USE InCores, InCoroutines
<1>1. PICK c \in Cores : /\ c = core_id[a] /\ flow[c] = App(a)
                         /\ rt_ctx[c].qapp = a /\ rt_ctx[c].qstack
  BY WhereAppsRun DEF yield_to_stack, Runs
<1>2. c \in Stacks
  BY <1>1 DEF Body, Tables
<1>3. /\ rt_ctx' = [rt_ctx EXCEPT ![c].on_stack = TRUE, ![c].knocked = @ /\ ~ asleep]
      /\ q_coYield_to(c, App(a), Stack(c))
      /\ up' = up /\ Rest /\ UNCHANGED <<thread, pCallStack, env>>
  BY <1>1 DEF yield_to_stack, Rest
<1>4. App(a) # Stack(c) /\ App(a) # Self(c) /\ App(a) # None
  BY Names
<1>5. c \in rt_thread /\ Stack(c) \in cStart
  BY <1>1, <1>2, <1>4 DEF Body, StackCore
<1>6. ASSUME NEW q \in Pthreads, flow[q] = Stack(c) PROVE FALSE
  BY <1>1, <1>2, <1>4, <1>6, WhereStacksRun
<1>7. /\ flow' = [flow EXCEPT ![c] = Stack(c)]
      /\ ctx' = [ctx EXCEPT ![App(a)] = App(a), ![Stack(c)] = None]
      /\ cStart' = cStart \cup {Stack(c)}
  BY <1>1, <1>2, <1>3, <1>4, <1>6, YieldTo, SMTT(30) DEF Body
<1>8. rt_ctx' = [rt_ctx EXCEPT ![c] = [rt_ctx[c] EXCEPT !.on_stack = TRUE,
                                                        !.knocked = rt_ctx[c].knocked /\ ~ asleep]]
  BY <1>1, <1>3 DEF Body, Types, CtxType
<1>9. rt_ctx' \in [Cores -> CtxType]
  <2>1. (rt_ctx[c].knocked /\ ~ asleep) \in BOOLEAN /\ rt_ctx[c] \in CtxType
    BY <1>1 DEF Body, Types
  <2>2. [rt_ctx[c] EXCEPT !.on_stack = TRUE, !.knocked = rt_ctx[c].knocked /\ ~ asleep] \in CtxType
    BY <2>1, CtxUpdates
  <2> QED BY <1>8, <2>2 DEF Body, Types
<1>10. /\ \A d \in Cores : d # c => rt_ctx'[d] = rt_ctx[d]
       /\ rt_ctx'[c].qapp = rt_ctx[c].qapp /\ rt_ctx'[c].qstack = rt_ctx[c].qstack
       /\ (rt_ctx'[c].knocked => rt_ctx[c].knocked) /\ rt_ctx'[c].on_stack
  <2>1. rt_ctx[c] \in CtxType /\ DOMAIN rt_ctx = Cores
    BY DEF Body, Types
  <2>2. rt_ctx'[c] = [rt_ctx[c] EXCEPT !.on_stack = TRUE,
                                       !.knocked = rt_ctx[c].knocked /\ ~ asleep]
    BY <1>8, <2>1
  <2>3. rt_ctx'[c].knocked = (rt_ctx[c].knocked /\ ~ asleep)
    BY <2>1, <2>2 DEF CtxType
  <2>4. rt_ctx'[c].knocked => rt_ctx[c].knocked
    BY <2>3
  <2>5. rt_ctx'[c].qapp = rt_ctx[c].qapp /\ rt_ctx'[c].qstack = rt_ctx[c].qstack
        /\ rt_ctx'[c].on_stack
    BY <2>1, <2>2 DEF CtxType
  <2> QED BY <1>8, <2>1, <2>4, <2>5
<1>11. cStart' \subseteq thread' /\ DOMAIN pCallStack' = Pthreads
  BY <1>3, <1>5, <1>7 DEF Body, Types
<1>12. StackCore(c)'
  <2>1. flow'[c] = Stack(c) /\ Stack(c) \in cStart' /\ c \in rt_thread'
    BY <1>1, <1>3, <1>5, <1>7 DEF Body, Types, Rest
  <2> QED BY <1>10, <2>1 DEF StackCore
<1>13. Switches(c, App(a), Stack(c))
  BY <1>1, <1>3, <1>4, <1>5, <1>6, <1>7, <1>9, <1>10, <1>11 DEF Switches
<1>14. Body'
  BY <1>1, <1>2, <1>12, <1>13, SwitchKept
<1> QED BY <1>3, <1>14, StaysUp

(* An application that returns: on the core of a stack there is nothing    *)
(* below it on the call stack of the main thread.                          *)
LEMMA ReturnKept ==
    ASSUME Body, up = "yes", NEW a \in Returning, CoRoutineFunc(a)
    PROVE  Kept
<1> USE InCores, InCoroutines
<1>1. a \in Apps
  BY RuntimeAssumption
<1>2. PICK c \in Cores : c = core_id[a] /\ flow[c] = App(a) /\ rt_ctx[c].qapp = a
  BY <1>1, WhereAppsRun DEF CoRoutineFunc, Runs
<1>3. App(a) # Stack(c) /\ App(a) # Self(c) /\ App(a) # None /\ a # None
  BY <1>1, Names
<1>4. /\ q_coYield_env(env[App(a)]) /\ Rest
      /\ UNCHANGED <<rt_ctx, thread, env>>
  BY DEF CoRoutineFunc, Rest
<1>5. CASE c \in Stacks
  <2>1. App(a) \in thread
    BY <1>2, <1>3, <1>5 DEF Body, StackCore
  <2>2. env[App(a)] = Main
    BY <1>1, <1>2, <1>5, <2>1 DEF Body, Tables
  <2>3. Len(pCallStack[Main]) < 2
    <3>1. CASE pCallStack[Main] = <<>>
      BY <3>1, SMTT(30)
    <3>2. CASE pCallStack[Main] = <<Self(Main)>>
      <4>1. Len(pCallStack[Main]) = 1
        BY <3>2, SMTT(30)
      <4> QED BY <4>1, SMTT(30)
    <3> QED BY <3>1, <3>2 DEF Body, MainCore
  <2>4. up' = "no caller"
    BY <1>4, <2>2, <2>3 DEF q_coYield_env
  <2>5. core_id'[a] \in Stacks
    BY <1>2, <1>4, <1>5 DEF core_id, Rest
  <2> QED BY <2>4, <2>5 DEF Kept, SwitchesToThreads
<1>6. CASE c \notin Stacks
  <2>1. /\ c \in rt_thread /\ App(a) \in thread /\ ctx[Self(c)] = Self(c)
        /\ pCallStack[c] = <<Self(c), App(a)>>
    BY <1>2, <1>3, <1>6 DEF Body, AppCore
  <2>2. env[App(a)] = c
    BY <1>1, <1>2, <1>6, <2>1 DEF Body, Tables
  <2>3. /\ Len(pCallStack[c]) = 2 /\ pCallStack[c][2] = App(a) /\ pCallStack[c][1] = Self(c)
    BY <2>1, SMTT(30)
  <2>4. /\ up' = up /\ cStart' = cStart
        /\ pCallStack' = [pCallStack EXCEPT ![c] = SubSeq(pCallStack[c], 1, 2 - 1)]
        /\ flow' = [flow EXCEPT ![c] = ctx[Self(c)]]
        /\ ctx' = [ctx EXCEPT ![App(a)] = flow[c], ![Self(c)] = None]
    BY <1>4, <2>2, <2>3, SMTT(30) DEF q_coYield_env, co_swap, coctx_swap
  <2>5. ASSUME NEW q \in Pthreads, flow[q] = Self(c) PROVE FALSE
    BY <1>2, <1>3, <2>5, WhereThreadsRun
  <2>6. AppCore(c)'
    <3>1. flow'[c] = Self(c) /\ c \in rt_thread' /\ App(a) \in thread' /\ rt_ctx'[c].qapp = a
      BY <1>2, <1>4, <2>1, <2>4 DEF Body, Types, Rest
    <3> QED BY <1>3, <3>1 DEF AppCore
  <2>7. /\ DOMAIN pCallStack' = Pthreads /\ cStart' \subseteq thread'
        /\ \A q \in Pthreads : q # c => pCallStack'[q] = pCallStack[q]
        /\ rt_ctx' \in [Cores -> CtxType]
    BY <1>4, <2>4 DEF Body, Types
  <2>8. Switches(c, App(a), Self(c))
    BY <1>2, <1>3, <1>4, <2>1, <2>4, <2>5, <2>7 DEF Switches
  <2>9. Body'
    BY <1>1, <1>2, <1>6, <2>6, <2>8, SwitchKept
  <2> QED BY <2>4, <2>9, StaysUp
<1> QED BY <1>5, <1>6

LEMMA StutterKept ==
    ASSUME Body, SwitchesToThreads, up = "yes", UNCHANGED rtVars
    PROVE  Kept
<1> USE DEF rtVars
<1>1. Types' /\ Saved' /\ MainCore' /\ Knocks'
  BY DEF Body, Types, Saved, MainCore, Knocks
<1>2. Tables' /\ Starts'
  BY DEF Body, Tables, Starts, core_id, Cur, CurCore
<1>3. \A k : (StackCore(k) => StackCore(k)') /\ (AppCore(k) => AppCore(k)')
  BY DEF StackCore, AppCore
<1>4. Body'
  BY <1>1, <1>2, <1>3 DEF Body
<1> QED BY <1>4, StaysUp

-----------------------------------------------------------------------------
(* What ends the process stays the reason: nothing runs any more. *)
LEMMA EndKept ==
    ASSUME SwitchesToThreads, up # "yes", [RuntimeNext]_rtVars
    PROVE  up' = up /\ SwitchesToThreads'
<1>1. UNCHANGED rtVars
  BY DEF RuntimeNext, qstack_init, qstack_createListenSock, create_app_pthread,
         __create_app_thread, knock_new_thread, qstack_thread_start, app_thread_start,
         wakeup_application, wakeup_app_thread, yield_to_stack, CoRoutineFunc, MainAt, Runs
<1> QED BY <1>1 DEF rtVars, SwitchesToThreads, core_id

(* IInv is inductive. *)
LEMMA RuntimeInductive == IInv /\ [RuntimeNext]_rtVars => IInv'
<1> SUFFICES ASSUME IInv, [RuntimeNext]_rtVars PROVE IInv'
  OBVIOUS
<1>1. CASE up # "yes"
  BY <1>1, EndKept DEF IInv
<1>2. CASE up = "yes"
  <2>1. Body /\ SwitchesToThreads
    BY <1>2 DEF IInv
  <2>2. CASE UNCHANGED rtVars
    BY <1>2, <2>1, <2>2, StutterKept DEF IInv, Kept
  <2>3. CASE qstack_init
    BY <1>2, <2>1, <2>3, StackThreadKept DEF IInv, Kept
  <2>4. CASE qstack_createListenSock
    BY <1>2, <2>1, <2>4, ListenKept DEF IInv, Kept
  <2>5. CASE create_app_pthread
    BY <1>2, <2>1, <2>5, CreatePthreadKept DEF IInv, Kept
  <2>6. CASE __create_app_thread
    BY <1>2, <2>1, <2>6, CreateThreadKept DEF IInv, Kept
  <2>7. CASE knock_new_thread
    BY <1>2, <2>1, <2>7, KnockKept DEF IInv, Kept
  <2>8. ASSUME NEW c \in Cores, qstack_thread_start(c) PROVE IInv'
    BY <1>2, <2>1, <2>8, StackStartKept DEF IInv, Kept
  <2>9. ASSUME NEW c \in Cores, app_thread_start(c) PROVE IInv'
    BY <1>2, <2>1, <2>9, AppStartKept DEF IInv, Kept
  <2>10. ASSUME NEW k \in Stacks, wakeup_application(k) PROVE IInv'
    BY <1>2, <2>1, <2>10, WakeupKept DEF IInv, Kept
  <2>11. ASSUME NEW k \in Stacks, NEW a \in Apps, wakeup_app_thread(k, a) PROVE IInv'
    BY <1>2, <2>1, <2>11, EventKept DEF IInv, Kept
  <2>12. ASSUME NEW a \in Apps, NEW asleep \in BOOLEAN, yield_to_stack(a, asleep) PROVE IInv'
    BY <1>2, <2>1, <2>12, YieldKept DEF IInv, Kept
  <2>13. ASSUME NEW a \in Returning, CoRoutineFunc(a) PROVE IInv'
    BY <1>2, <2>1, <2>13, ReturnKept DEF IInv, Kept
  <2> QED
    BY <2>2, <2>3, <2>4, <2>5, <2>6, <2>7, <2>8, <2>9, <2>10, <2>11, <2>12, <2>13
    DEF RuntimeNext
<1> QED BY <1>1, <1>2

LEMMA IInvImplies == IInv => ContextsExact /\ SwitchesToThreads
BY BodyIsExact DEF IInv, ContextsExact

(* For any number of stacks, applications and cores, no switch of contexts *)
(* loses or doubles a flow of control, and no stack switches to a          *)
(* coroutine that does not exist unless an event came too early.           *)
THEOREM RuntimeExact == RuntimeSpec => [](ContextsExact /\ SwitchesToThreads)
<1>1. RuntimeInit => IInv
  BY InitKept
<1>2. IInv /\ [RuntimeNext]_rtVars => IInv'
  BY RuntimeInductive
<1>3. IInv => ContextsExact /\ SwitchesToThreads
  BY IInvImplies
<1> QED BY <1>1, <1>2, <1>3, PTL DEF RuntimeSpec
=============================================================================
