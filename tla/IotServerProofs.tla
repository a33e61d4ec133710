-------------------------- MODULE IotServerProofs --------------------------
(***************************************************************************)
(* The IoT server uses the runtime as RuntimeProofs describes it: every    *)
(* step of the server, its workers and the peer is a step of the runtime   *)
(* or leaves it alone.  So what is proved of the runtime holds of the      *)
(* server, for any number of stacks, workers and requests.                 *)
(***************************************************************************)
EXTENDS IotServer, RuntimeProofs

LEMMA ServerIsApp == conf \in Configs => Server \in Apps
BY RuntimeAssumption DEF Server

LEMMA NothingOfTheRuntime ==
    ASSUME NEW w, WorkerStep(w)
    PROVE  UNCHANGED rtVars
BY DEF WorkerStep, StartWorker, process_requests, NoQuery, process_updates, NoUpdate,
       simpQuerytest, q_get_wmbuf, Take

LEMMA ServerUsesRuntime ==
    ASSUME conf \in Configs, ServerStep
    PROVE  [RuntimeNext]_rtVars
<1>1. CASE rt_check
  <2>1. yield_to_stack(Server, FALSE) \/ UNCHANGED rtVars
    BY <1>1 DEF rt_check
  <2> QED BY <2>1, ServerIsApp DEF RuntimeNext
<1>2. CASE fall_asleep
  <2>1. yield_to_stack(Server, TRUE) \/ UNCHANGED rtVars
    BY <1>2 DEF fall_asleep
  <2> QED BY <2>1, ServerIsApp DEF RuntimeNext
<1>3. CASE eventmgt_get \/ qstack_acceptConn \/ qstack_closeConn
           \/ q_recv \/ HandleReadEvent \/ FillCell \/ tailNext_load \/ tailNext
  <2>1. UNCHANGED rtVars
    BY <1>3 DEF eventmgt_get, qstack_acceptConn, qstack_closeConn, q_recv, HandleReadEvent,
                FillCell, tailNext_load, tailNext
  <2> QED BY <2>1
<1> QED BY <1>1, <1>2, <1>3 DEF ServerStep

LEMMA PeerUsesRuntime ==
    ASSUME conf \in Configs, Connect \/ SendRequest \/ Finish
    PROVE  [RuntimeNext]_rtVars
<1>1. (\E k \in Stacks : wakeup_app_thread(k, Server)) \/ UNCHANGED rtVars
  BY DEF Connect, SendRequest, Finish, Raise, EventMissed
<1> QED BY <1>1, ServerIsApp DEF RuntimeNext

LEMMA StackLeavesRuntime ==
    ASSUME NEW w, handle_close_call \/ mbuf_free(w)
    PROVE  UNCHANGED rtVars
BY DEF handle_close_call, mbuf_free

LEMMA StepsOfTheRuntime ==
    ASSUME conf \in Configs, [Next]_vars
    PROVE  [RuntimeNext]_rtVars
<1>1. CASE MainStep
  BY <1>1 DEF MainStep, RuntimeNext
<1>2. CASE Connect \/ SendRequest \/ Finish
  BY <1>2, PeerUsesRuntime
<1>3. CASE ServerStep
  BY <1>3, ServerUsesRuntime
<1>4. CASE Stopped \/ UNCHANGED vars
  <2>1. UNCHANGED rtVars
    BY <1>4 DEF Stopped, vars
  <2> QED BY <2>1
<1>5. ASSUME NEW c \in Cores, StartStep(c) PROVE RuntimeNext
  BY <1>5 DEF StartStep, RuntimeNext
<1>6. ASSUME NEW k \in Stacks, WakeupStep(k) PROVE RuntimeNext
  BY <1>6 DEF WakeupStep, RuntimeNext
<1>7. ASSUME NEW w \in WorkerSet, WorkerStep(w) \/ mbuf_free(w) PROVE UNCHANGED rtVars
  BY <1>7, NothingOfTheRuntime, StackLeavesRuntime
<1>8. ASSUME NEW a \in Returning, CoRoutineFunc(a) PROVE RuntimeNext
  BY <1>8 DEF RuntimeNext
<1>9. CASE handle_close_call
  BY <1>9, StackLeavesRuntime
<1> QED BY <1>1, <1>2, <1>3, <1>4, <1>5, <1>6, <1>7, <1>8, <1>9 DEF Next

LEMMA ConfigurationStays ==
    ASSUME [RuntimeNext]_rtVars
    PROVE  conf' = conf
BY DEF RuntimeNext, rtVars, qstack_init, qstack_createListenSock, create_app_pthread,
       __create_app_thread, knock_new_thread, qstack_thread_start, app_thread_start,
       wakeup_application, wakeup_app_thread, yield_to_stack, CoRoutineFunc

(* The server on top of the runtime is a behaviour of the runtime. *)
THEOREM ServerRunsOnRuntime == Spec => RuntimeSpec
<1> DEFINE C == conf \in Configs
<1>1. Init => RuntimeInit /\ C
  BY DEF Init, RuntimeInit
<1>2. C /\ [Next]_vars => C' /\ [RuntimeNext]_rtVars
  BY StepsOfTheRuntime, ConfigurationStays
<1> HIDE DEF C
<1> QED BY <1>1, <1>2, PTL DEF Spec, RuntimeSpec

(* No flow of control of the server, its workers and the stacks is lost or *)
(* runs twice, and on_stack tells who has the core of a stack: for any     *)
(* number of stacks, cores, applications and requests.                     *)
THEOREM ServerContextsExact == Spec => []ContextsExact
BY ServerRunsOnRuntime, RuntimeExact, PTL

(* The stack switches to the server only when its coroutine exists, unless *)
(* an event came before, and nothing but an application that returns on    *)
(* the core of a stack finds no caller.                                    *)
THEOREM ServerSwitchesToThreads == Spec => []SwitchesToThreads
BY ServerRunsOnRuntime, RuntimeExact, PTL
=============================================================================
