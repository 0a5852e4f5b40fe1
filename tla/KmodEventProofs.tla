--------------------------- MODULE KmodEventProofs ---------------------------
(* Theorems about KmodEvent, for any number of processes, threads and events, *)
(* and any set of calls that may fail.                                        *)
EXTENDS KmodEvent, TLAPS

USE BoundsAssumption, CapacityAssumption, FaultsAssumption, StaleAssumption

UiStep ==
  \/ ModuleStart \/ MenuOpened \/ StartThread
  \/ (\E quit \in BOOLEAN : Stop(quit)) \/ StopIdle
  \/ StopSteps \/ WaitThreadEndFails \/ ShellDies

KmodStep == EmitEvent \/ KmodUnwrap \/ KmodDeleteFlag

\* The steps of a thread that do not touch the wrapped flag.
PlainThreadStep(t) ==
  \/ OnStart(t) \/ CheckFlag(t) \/ Loop(t) \/ WaitReturns(t) \/ WaitTimesOut(t) \/ WaitFails(t)
  \/ FetchNothing(t) \/ FetchEvent(t) \/ FetchOverflow(t) \/ HandleEvent(t)

PastGet == {"loop", "wait", "fetch", "handle", "unwrap"}

LEMMA NextCases ==
  ASSUME [Next]_vars
  PROVE  \/ UiStep
         \/ \E t \in Tids :
              PlainThreadStep(t) \/ GetFlag(t) \/ Cleanup(t) \/ ForgetFlag(t)
         \/ KmodStep
         \/ UNCHANGED vars
BY DEF Next, UiStep, KmodStep, PlainThreadStep, ThreadStep

------------------------------------------------------------------------------
(* Types.                                                                   *)

LEMMA FailsType ==
  ASSUME failed \subseteq {"unwrap", "thread"}, NEW call,
         NEW mark \in SUBSET {"unwrap", "thread"}, Fails(call, mark)
  PROVE  failed' \subseteq {"unwrap", "thread"}
BY DEF Fails

LEMMA UnwrapType ==
  ASSUME TypeOK, kvqmbt_unwrap_event_flag
  PROVE  /\ event_flag_puid' \in Pids \cup {None}
         /\ wrapped' \subseteq Pids
         /\ failed' \subseteq {"unwrap", "thread"}
BY FailsType DEF kvqmbt_unwrap_event_flag, TypeOK

LEMMA TypeInit == Init => TypeOK
<1> SUFFICES ASSUME Init
             PROVE  TypeOK
  OBVIOUS
<1>1. tpc \in [Tids -> Running \cup {"none", "dormant", "dead", "deleted"}]
  BY DEF Init
<1>2. failed \subseteq {"unwrap", "thread"} /\ wrapped \subseteq Pids
  BY DEF Init
<1>3. pending \in 0..(Capacity + 1) /\ emitted \in 0..MaxEvents /\ pid \in Pids
  BY DEF Init, Pids
<1> QED
  BY <1>1, <1>2, <1>3 DEF Init, TypeOK, UiLabels

LEMMA TypeNext == TypeOK /\ [Next]_vars => TypeOK'
<1> SUFFICES ASSUME TypeOK, [Next]_vars
             PROVE  TypeOK'
  OBVIOUS
<1> USE DEF TypeOK, Pids, Tids, None, UiLabels, Running
<1>1. CASE UiStep
  <2>1. CASE ModuleStart
    BY <2>1 DEF ModuleStart, flagvars, ringvars, historyvars
  <2>2. CASE MenuOpened
    BY <2>2 DEF MenuOpened, Fails, flagvars, ringvars, historyvars
  <2>3. CASE StartThread
    BY <2>3 DEF StartThread, Fails, flagvars, ringvars, historyvars
  <2>4. ASSUME NEW quit \in BOOLEAN, Stop(quit)
        PROVE  TypeOK'
    BY <2>4 DEF Stop, flagvars, ringvars, historyvars
  <2>5. CASE StopIdle
    BY <2>5 DEF StopIdle, flagvars, ringvars, historyvars
  <2>6. CASE WaitThreadEnd
    BY <2>6 DEF WaitThreadEnd, flagvars, ringvars, historyvars
  <2>7. CASE DeleteThread
    BY <2>7 DEF DeleteThread, flagvars, ringvars, historyvars
  <2>8. CASE Teardown
    BY <2>8 DEF Teardown, flagvars, ringvars, historyvars
  <2>9. CASE ShellDies
    <3>1. tpc' \in [Tids -> Running \cup {"none", "dormant", "dead", "deleted"}]
      BY <2>9 DEF ShellDies
    <3>2. wrapped' \subseteq Pids /\ pid' \in Pids
      BY <2>9 DEF ShellDies
    <3> QED
      BY <2>9, <3>1, <3>2 DEF ShellDies, ringvars, historyvars
  <2>10. CASE WaitThreadEndFails
    <3>1. left' \subseteq Tids
      BY <2>10 DEF WaitThreadEndFails
    <3>5. failed' = failed
      BY <2>10 DEF WaitThreadEndFails, Fails
    <3>2. upc' = "delete"
      BY <2>10 DEF WaitThreadEndFails
    <3>3. UNCHANGED <<kmod, flagvars, ringvars, pid, quitting, mutex, uid_thread,
                      run_thread, uid_event_flag, tpc, stale_uses>>
      BY <2>10 DEF WaitThreadEndFails
    <3> QED
      BY <3>1, <3>2, <3>3, <3>5 DEF flagvars, ringvars
  <2> QED
    BY <1>1, <2>1, <2>2, <2>3, <2>4, <2>5, <2>6, <2>7, <2>8, <2>9, <2>10
       DEF UiStep, StopSteps
<1>2. ASSUME NEW t \in Tids, PlainThreadStep(t)
      PROVE  TypeOK'
  <2>1. tpc' \in [Tids -> Running \cup {"none", "dormant", "dead", "deleted"}]
    BY <1>2 DEF PlainThreadStep, OnStart, CheckFlag, Loop, WaitReturns, WaitTimesOut, WaitFails,
         FetchNothing, FetchEvent, FetchOverflow, HandleEvent, Goto
  <2>2. pending' \in 0..(Capacity + 1) /\ bit' \in BOOLEAN /\ emitted' \in 0..MaxEvents
    <3>1. /\ \/ pending' \in {pending, 0}
             \/ pending \in 1..Capacity /\ pending' = pending - 1
          /\ bit' \in {bit, FALSE}
          /\ emitted' = emitted
      BY <1>2 DEF PlainThreadStep, OnStart, CheckFlag, Loop, WaitReturns, WaitTimesOut, WaitFails,
           FetchNothing, FetchEvent, FetchOverflow, HandleEvent, ringvars
    <3>2. pending' \in 0..(Capacity + 1) /\ emitted' \in 0..MaxEvents
      BY <3>1
    <3>3. bit' \in BOOLEAN
      BY <3>1
    <3> QED
      BY <3>2, <3>3
  <2>3. failed' \subseteq {"unwrap", "thread"}
    BY <1>2 DEF PlainThreadStep, OnStart, CheckFlag, Loop, WaitReturns, WaitTimesOut,
         WaitFails, FetchNothing, FetchEvent, FetchOverflow, HandleEvent, Fails,
         historyvars
  <2>4. UNCHANGED <<kmod, flagvars, uivars, uid_event_flag, stale_uses, left>>
    BY <1>2 DEF PlainThreadStep, OnStart, CheckFlag, Loop, WaitReturns, WaitTimesOut, WaitFails,
         FetchNothing, FetchEvent, FetchOverflow, HandleEvent, historyvars
  <2> QED
    BY <2>1, <2>2, <2>3, <2>4 DEF flagvars, uivars
<1>3. ASSUME NEW t \in Tids, GetFlag(t)
      PROVE  TypeOK'
  <2>1. tpc' \in [Tids -> Running \cup {"none", "dormant", "dead", "deleted"}]
    BY <1>3 DEF GetFlag, Goto
  <2>2. PICK puid \in Pids \cup {None} :
          /\ kvqmbt_get_wrapped_event_flag(puid)
          /\ uid_event_flag' = puid
          /\ stale_uses' = IF puid \in {None, pid} THEN stale_uses ELSE stale_uses + 1
    BY <1>3 DEF GetFlag
  <2>3. /\ event_flag_uid' \in BOOLEAN
        /\ event_flag_puid' \in Pids \cup {None}
        /\ wrapped' \subseteq Pids
        /\ failed' \subseteq {"unwrap", "thread"}
    BY <2>2, FailsType DEF kvqmbt_get_wrapped_event_flag, flagvars
  <2> QED
    BY <1>3, <2>1, <2>2, <2>3 DEF GetFlag, ringvars, uivars
<1>4. ASSUME NEW t \in Tids, Cleanup(t)
      PROVE  TypeOK'
  <2>1. /\ event_flag_puid' \in Pids \cup {None}
        /\ wrapped' \subseteq Pids
        /\ failed' \subseteq {"unwrap", "thread"}
    BY <1>4, UnwrapType DEF Cleanup
  <2> QED
    BY <1>4, <2>1 DEF Cleanup, Goto, ringvars, uivars
<1>7. ASSUME NEW t \in Tids, ForgetFlag(t)
      PROVE  TypeOK'
  BY <1>7 DEF ForgetFlag, Goto, flagvars, ringvars, uivars, historyvars
<1>5. CASE KmodStep
  <2>1. CASE EmitEvent
    BY <2>1 DEF EmitEvent, flagvars, uivars, historyvars
  <2>2. CASE KmodUnwrap
    <3>1. /\ event_flag_puid' \in Pids \cup {None}
          /\ wrapped' \subseteq Pids
          /\ failed' \subseteq {"unwrap", "thread"}
      BY <2>2, UnwrapType DEF KmodUnwrap
    <3> QED
      BY <2>2, <3>1 DEF KmodUnwrap, ringvars, uivars
  <2>3. CASE KmodDeleteFlag
    BY <2>3, FailsType DEF KmodDeleteFlag, ringvars, uivars
  <2> QED
    BY <1>5, <2>1, <2>2, <2>3 DEF KmodStep
<1>6. CASE UNCHANGED vars
  BY <1>6 DEF vars, flagvars, ringvars, uivars, historyvars
<1> QED
  BY <1>1, <1>2, <1>3, <1>4, <1>5, <1>6, <1>7, NextCases

\* Every variable keeps to its type.
THEOREM TypeCorrect == Spec => []TypeOK
  BY TypeInit, TypeNext, PTL DEF Spec

------------------------------------------------------------------------------
(* The inductive invariant.                                                 *)

\* Past its call of kvqmbt_get_wrapped_event_flag, with a flag to unwrap.
HasFlag(t) ==
  \/ tpc[t] \in PastGet
  \/ tpc[t] = "check" /\ uid_event_flag # None

\* The thread of uid_thread is.
Holds == uid_thread # None /\ HasFlag(uid_thread)

\* A thread not left behind runs between its start and the return of
\* sceKernelWaitThreadEnd, and the mutex exists as long as the module is loaded.
LifeInv ==
  /\ \A t \in Tids \ left : tpc[t] \in Running =>
       t = uid_thread /\ upc \in {"idle", "wait_end"}
  /\ upc # "unloaded" => mutex
  /\ upc \in {"start", "wait_end", "delete"} => uid_thread # None
  /\ upc \in {"unloaded", "teardown"} => uid_thread = None
  /\ upc \in {"start", "idle"} /\ uid_thread # None => run_thread

\* The kernel's record of the wrapping agrees with the process that runs.
RecordInv ==
  /\ event_flag_puid \in 0..pid
  /\ event_flag_puid = pid => pid \in wrapped
  /\ kmod = "running" => event_flag_uid

\* While one thread runs, the record also agrees with what it was given.
GivenInv ==
  left = {} => \A t \in Tids : HasFlag(t) =>
    /\ kmod = "running" => event_flag_puid = uid_event_flag
    /\ uid_event_flag # pid => stale_uses > 0

\* Only a thread holds a wrapping for this process.
CleanInv ==
  event_flag_puid = pid => Holds \/ "unwrap" \in failed \/ left # {}

Trouble ==
  "thread" \in failed \/ kmod # "running" \/ stale_uses > 0 \/ left # {}

\* The thread of uid_thread is on its way to serve events.
Serves ==
  /\ tpc[uid_thread] \in Running \ {"unwrap", "forget"}
  /\ tpc[uid_thread] = "check" => uid_event_flag # None

ServedInv == upc = "idle" /\ uid_thread # None /\ ~Serves => Trouble

\* A second use of a stale wrapping would need the first to have kept it.
StaleInv ==
  StaleDeletable =>
    \/ "unwrap" \in failed
    \/ left # {}
    \/ stale_uses = 0
    \/ stale_uses = 1 /\ (event_flag_puid \in {None, pid} \/ Holds)

IInv ==
  /\ TypeOK /\ LifeInv /\ RecordInv /\ GivenInv
  /\ CleanInv /\ ServedInv /\ StaleInv

\* What a step of a thread that leaves the wrapped flag alone does.
PlainMove(t) ==
  /\ tpc' = [tpc EXCEPT ![t] = tpc'[t]]
  /\ \/ tpc[t] = "on_start" /\ tpc'[t] = "get"
     \/ tpc[t] = "check" /\ uid_event_flag = None /\ tpc'[t] = "dead"
     \/ tpc[t] = "check" /\ uid_event_flag # None /\ tpc'[t] = "loop"
     \/ tpc[t] \in PastGet \ {"unwrap"} /\ tpc'[t] \in PastGet
  /\ tpc'[t] = "unwrap" => ~run_thread \/ "thread" \in failed' \/ ~FlagUsable
  /\ failed \subseteq failed'
  /\ UNCHANGED <<kmod, event_flag_uid, event_flag_puid, wrapped, pid, upc, mutex,
                 uid_thread, run_thread, uid_event_flag, stale_uses, left>>

LEMMA PlainMoves ==
  ASSUME TypeOK, NEW t \in Tids, PlainThreadStep(t)
  PROVE  PlainMove(t)
<1>1. tpc \in [Tids -> Running \cup {"none", "dormant", "dead", "deleted"}]
  BY DEF TypeOK
<1>2. CASE OnStart(t)
  BY <1>1, <1>2 DEF OnStart, PlainMove, Goto, flagvars, uivars, historyvars
<1>8. CASE CheckFlag(t)
  BY <1>1, <1>8 DEF CheckFlag, PlainMove, Goto, flagvars, uivars, historyvars
<1>3. CASE Loop(t)
  BY <1>1, <1>3 DEF Loop, PlainMove, PastGet, Goto, flagvars, uivars, historyvars
<1>4. CASE WaitReturns(t) \/ WaitTimesOut(t)
  BY <1>1, <1>4 DEF WaitReturns, WaitTimesOut, PlainMove, PastGet, Goto, flagvars, uivars, historyvars
<1>5. CASE WaitFails(t)
  BY <1>1, <1>5 DEF WaitFails, Fails, PlainMove, PastGet, Goto, flagvars, uivars, historyvars
<1>6. CASE FetchNothing(t) \/ FetchEvent(t) \/ FetchOverflow(t)
  BY <1>1, <1>6 DEF FetchNothing, FetchEvent, FetchOverflow, Fails, PlainMove, PastGet,
       Goto, flagvars, uivars, historyvars
<1>7. CASE HandleEvent(t)
  BY <1>1, <1>7 DEF HandleEvent, PlainMove, PastGet, Goto, flagvars, uivars, historyvars
<1> QED
  BY <1>2, <1>3, <1>4, <1>5, <1>6, <1>7, <1>8 DEF PlainThreadStep

\* What kvqmbt_get_wrapped_event_flag gives a thread.
GetMove(t, puid) ==
  /\ tpc[t] = "get"
  /\ tpc' = [tpc EXCEPT ![t] = "check"]
  /\ \/ /\ puid = None
        /\ "thread" \in failed' \/ ~event_flag_uid
        /\ UNCHANGED <<event_flag_puid, wrapped>>
     \/ /\ puid # None /\ puid = event_flag_puid
        /\ UNCHANGED <<event_flag_puid, wrapped>>
     \/ /\ puid = pid
        /\ event_flag_puid' = pid /\ wrapped' = wrapped \cup {pid}
  /\ uid_event_flag' = puid
  /\ stale_uses' = IF puid \in {None, pid} THEN stale_uses ELSE stale_uses + 1
  /\ failed \subseteq failed'
  /\ UNCHANGED <<kmod, event_flag_uid, pid, upc, mutex, uid_thread, run_thread, left>>

LEMMA GetMoves ==
  ASSUME NEW t \in Tids, GetFlag(t)
  PROVE  \E puid \in Pids \cup {None} : GetMove(t, puid)
BY DEF GetFlag, GetMove, kvqmbt_get_wrapped_event_flag, Fails, Goto, flagvars, uivars

\* What kvqmbt_unwrap_event_flag does.
UnwrapMove ==
  /\ \/ UNCHANGED <<event_flag_puid, wrapped>>
     \/ event_flag_puid' = None /\ wrapped' = wrapped \ {event_flag_puid}
  /\ \/ event_flag_puid' = None
     \/ "unwrap" \in failed'
     \/ event_flag_puid \notin wrapped /\ ~StaleDeletable
  /\ failed \subseteq failed'

LEMMA UnwrapMoves ==
  ASSUME kvqmbt_unwrap_event_flag
  PROVE  UnwrapMove
<1>1. CASE event_flag_puid = None /\ UNCHANGED <<event_flag_puid, wrapped, failed>>
  BY <1>1 DEF UnwrapMove
<1>2. CASE /\ event_flag_puid # None
           /\ event_flag_puid' = None /\ wrapped' = wrapped \ {event_flag_puid}
           /\ UNCHANGED failed
  BY <1>2 DEF UnwrapMove
<1>3. CASE Fails("unwrap", {"unwrap"}) /\ UNCHANGED <<event_flag_puid, wrapped>>
  BY <1>3 DEF UnwrapMove, Fails
<1>4. CASE /\ event_flag_puid \notin wrapped /\ ~StaleDeletable /\ UNCHANGED failed
           /\ UNCHANGED <<event_flag_puid, wrapped>>
  BY <1>4 DEF UnwrapMove
<1> QED
  BY <1>1, <1>2, <1>3, <1>4 DEF kvqmbt_unwrap_event_flag

\* The steps of the UI thread that leave the threads and the flag alone.
QuietStep ==
  \/ ModuleStart \/ (\E quit \in BOOLEAN : Stop(quit)) \/ StopIdle
  \/ WaitThreadEnd \/ WaitThreadEndFails

LEMMA QuietMoves ==
  ASSUME QuietStep
  PROVE  /\ UNCHANGED <<kmod, event_flag_uid, event_flag_puid, wrapped, pid,
                        uid_thread, uid_event_flag, tpc, failed, stale_uses>>
         /\ left \subseteq left'
<1>1. CASE ModuleStart
  BY <1>1 DEF ModuleStart, flagvars, historyvars
<1>2. ASSUME NEW quit \in BOOLEAN, Stop(quit)
      PROVE  /\ UNCHANGED <<kmod, event_flag_uid, event_flag_puid, wrapped, pid,
                            uid_thread, uid_event_flag, tpc, failed, stale_uses>>
             /\ left \subseteq left'
  BY <1>2 DEF Stop, flagvars, historyvars
<1>3. CASE StopIdle \/ WaitThreadEnd
  BY <1>3 DEF StopIdle, WaitThreadEnd, flagvars, historyvars
<1>4. CASE WaitThreadEndFails
  BY <1>4 DEF WaitThreadEndFails, Fails, flagvars
<1> QED
  BY <1>1, <1>2, <1>3, <1>4 DEF QuietStep

LEMMA UiCases ==
  ASSUME UiStep
  PROVE  QuietStep \/ MenuOpened \/ StartThread \/ DeleteThread \/ Teardown \/ ShellDies
BY DEF UiStep, StopSteps, QuietStep

\* Threads are left behind until the shell dies.
LEMMA LeftGrows ==
  ASSUME [Next]_vars, ~ShellDies
  PROVE  left \subseteq left'
<1>1. CASE UiStep
  <2>1. CASE QuietStep
    BY <2>1, QuietMoves
  <2>2. CASE MenuOpened \/ StartThread \/ DeleteThread \/ Teardown
    BY <2>2 DEF MenuOpened, StartThread, DeleteThread, Teardown, historyvars
  <2> QED
    BY <1>1, <2>1, <2>2, UiCases
<1>2. ASSUME NEW t \in Tids, PlainThreadStep(t)
      PROVE  left \subseteq left'
  BY <1>2 DEF PlainThreadStep, OnStart, CheckFlag, Loop, WaitReturns, WaitTimesOut,
       WaitFails, FetchNothing, FetchEvent, FetchOverflow, HandleEvent, historyvars
<1>3. ASSUME NEW t \in Tids, GetFlag(t) \/ Cleanup(t) \/ ForgetFlag(t)
      PROVE  left \subseteq left'
  BY <1>3 DEF GetFlag, Cleanup, ForgetFlag, historyvars
<1>4. CASE KmodStep
  BY <1>4 DEF KmodStep, EmitEvent, KmodUnwrap, KmodDeleteFlag, historyvars
<1> QED
  BY <1>1, <1>2, <1>3, <1>4, NextCases DEF vars, historyvars

\* If none was left behind, the thread that runs is the one of uid_thread.
LEMMA TheThread ==
  ASSUME LifeInv, left = {}, NEW t \in Tids, tpc[t] \in Running
  PROVE  t = uid_thread /\ upc \in {"idle", "wait_end"}
BY DEF LifeInv

LEMMA HasFlagRuns ==
  ASSUME NEW t, HasFlag(t)
  PROVE  tpc[t] \in Running
BY DEF HasFlag, PastGet, Running

LEMMA LifeNext == TypeOK /\ LifeInv /\ [Next]_vars => LifeInv'
<1> SUFFICES ASSUME TypeOK, LifeInv, [Next]_vars
             PROVE  LifeInv'
  OBVIOUS
<1>0. /\ tpc \in [Tids -> Running \cup {"none", "dormant", "dead", "deleted"}]
      /\ uid_thread \in Tids \cup {None}
      /\ run_thread \in BOOLEAN /\ mutex \in BOOLEAN
      /\ \A t \in Tids : t # None
  BY DEF TypeOK, Tids, None
<1>1. CASE UiStep
  <2>1. CASE ModuleStart
    BY <2>1, <1>0 DEF ModuleStart, LifeInv, historyvars
  <2>2. CASE MenuOpened
    BY <2>2, <1>0 DEF MenuOpened, LifeInv, Running
  <2>3. CASE StartThread
    BY <2>3, <1>0 DEF StartThread, LifeInv, Running
  <2>4. ASSUME NEW quit \in BOOLEAN, Stop(quit)
        PROVE  LifeInv'
    BY <2>4, <1>0 DEF Stop, LifeInv, historyvars
  <2>5. CASE StopIdle
    BY <2>5, <1>0 DEF StopIdle, LifeInv, historyvars
  <2>6. CASE WaitThreadEnd
    BY <2>6, <1>0 DEF WaitThreadEnd, LifeInv, Running, historyvars
  <2>7. CASE WaitThreadEndFails
    <3>1. \A t \in Tids \ left' : tpc[t] \in Running => FALSE
      BY <2>7, <1>0 DEF WaitThreadEndFails, LifeInv
    <3> QED
      BY <2>7, <3>1 DEF WaitThreadEndFails, LifeInv
  <2>8. CASE DeleteThread
    BY <2>8, <1>0 DEF DeleteThread, LifeInv, Running
  <2>9. CASE Teardown
    BY <2>9, <1>0 DEF Teardown, LifeInv, historyvars
  <2>10. CASE ShellDies
    BY <2>10, <1>0 DEF ShellDies, LifeInv, Running
  <2> QED
    BY <1>1, <2>1, <2>2, <2>3, <2>4, <2>5, <2>6, <2>7, <2>8, <2>9, <2>10
       DEF UiStep, StopSteps
<1>2. ASSUME NEW t \in Tids, PlainThreadStep(t)
      PROVE  LifeInv'
  <2>1. PlainMove(t)
    BY <1>2, PlainMoves
  <2> QED
    BY <2>1, <1>0 DEF PlainMove, PastGet, LifeInv, Running
<1>3. ASSUME NEW t \in Tids, GetFlag(t)
      PROVE  LifeInv'
  <2>1. PICK puid \in Pids \cup {None} : GetMove(t, puid)
    BY <1>3, GetMoves
  <2> QED
    BY <2>1, <1>0 DEF GetMove, LifeInv, Running
<1>4. ASSUME NEW t \in Tids, Cleanup(t) \/ ForgetFlag(t)
      PROVE  LifeInv'
  <2>1. /\ tpc[t] \in {"unwrap", "forget"}
        /\ tpc' \in {[tpc EXCEPT ![t] = "forget"], [tpc EXCEPT ![t] = "dead"]}
        /\ UNCHANGED <<upc, mutex, uid_thread, run_thread, left>>
    BY <1>4 DEF Cleanup, ForgetFlag, Goto, uivars, historyvars
  <2> QED
    BY <2>1, <1>0 DEF LifeInv, Running
<1>5. CASE KmodStep
  BY <1>5, <1>0 DEF KmodStep, EmitEvent, KmodUnwrap, KmodDeleteFlag, LifeInv, uivars,
       historyvars
<1>6. CASE UNCHANGED vars
  BY <1>6, <1>0 DEF vars, uivars, LifeInv, historyvars
<1> QED
  BY <1>1, <1>2, <1>3, <1>4, <1>5, <1>6, NextCases

LEMMA RecordNext == TypeOK /\ RecordInv /\ [Next]_vars => RecordInv'
<1> SUFFICES ASSUME TypeOK, RecordInv, [Next]_vars
             PROVE  RecordInv'
  OBVIOUS
<1>0. pid \in Nat \ {0} /\ None = 0 /\ event_flag_puid \in Nat
  BY DEF TypeOK, Pids, None
<1>1. CASE UiStep
  <2>1. CASE QuietStep
    BY <2>1, QuietMoves DEF RecordInv
  <2>2. CASE MenuOpened \/ StartThread \/ DeleteThread \/ Teardown
    BY <2>2 DEF MenuOpened, StartThread, DeleteThread, Teardown, RecordInv, flagvars
  <2>3. CASE ShellDies
    BY <2>3, <1>0 DEF ShellDies, RecordInv
  <2> QED
    BY <1>1, <2>1, <2>2, <2>3, UiCases
<1>2. ASSUME NEW t \in Tids, PlainThreadStep(t)
      PROVE  RecordInv'
  <2>1. PlainMove(t)
    BY <1>2, PlainMoves
  <2> QED
    BY <2>1 DEF PlainMove, RecordInv
<1>3. ASSUME NEW t \in Tids, GetFlag(t)
      PROVE  RecordInv'
  <2>1. PICK puid \in Pids \cup {None} : GetMove(t, puid)
    BY <1>3, GetMoves
  <2> QED
    BY <2>1, <1>0 DEF GetMove, RecordInv
<1>4. ASSUME NEW t \in Tids, Cleanup(t)
      PROVE  RecordInv'
  <2>1. UnwrapMove /\ UNCHANGED <<kmod, event_flag_uid, pid>>
    BY <1>4, UnwrapMoves DEF Cleanup, uivars
  <2> QED
    BY <2>1, <1>0 DEF UnwrapMove, RecordInv
<1>5. ASSUME NEW t \in Tids, ForgetFlag(t)
      PROVE  RecordInv'
  BY <1>5 DEF ForgetFlag, RecordInv, flagvars, uivars
<1>6. CASE KmodStep
  <2>1. CASE EmitEvent
    BY <2>1 DEF EmitEvent, RecordInv, flagvars, uivars
  <2>2. CASE KmodUnwrap
    <3>1. UnwrapMove /\ kmod' # "running" /\ pid' = pid
      BY <2>2, UnwrapMoves DEF KmodUnwrap, uivars
    <3> QED
      BY <3>1, <1>0 DEF UnwrapMove, RecordInv
  <2>3. CASE KmodDeleteFlag
    BY <2>3 DEF KmodDeleteFlag, RecordInv, uivars
  <2> QED
    BY <1>6, <2>1, <2>2, <2>3 DEF KmodStep
<1>7. CASE UNCHANGED vars
  BY <1>7 DEF vars, flagvars, uivars, RecordInv
<1> QED
  BY <1>1, <1>2, <1>3, <1>4, <1>5, <1>6, <1>7, NextCases

LEMMA GivenNext == TypeOK /\ LifeInv /\ GivenInv /\ [Next]_vars => GivenInv'
<1> SUFFICES ASSUME TypeOK, LifeInv, GivenInv, [Next]_vars, left' = {},
                    NEW u \in Tids, HasFlag(u)'
             PROVE  /\ kmod' = "running" => event_flag_puid' = uid_event_flag'
                    /\ uid_event_flag' # pid' => stale_uses' > 0
  BY DEF GivenInv
<1> DEFINE Goal == /\ kmod' = "running" => event_flag_puid' = uid_event_flag'
                   /\ uid_event_flag' # pid' => stale_uses' > 0
<1>0. /\ tpc \in [Tids -> Running \cup {"none", "dormant", "dead", "deleted"}]
      /\ pid \in Nat \ {0} /\ stale_uses \in Nat /\ None = 0
      /\ uid_thread \in Tids \cup {None} /\ \A t \in Tids : t # None
  BY DEF TypeOK, Pids, Tids, None
<1>a. ~ShellDies
  BY DEF ShellDies, HasFlag, PastGet
<1>b. left = {}
  BY <1>a, LeftGrows
<1>c. HasFlag(u) => /\ kmod = "running" => event_flag_puid = uid_event_flag
                    /\ uid_event_flag # pid => stale_uses > 0
  BY <1>b DEF GivenInv
<1>1. CASE UiStep
  <2>1. CASE QuietStep
    <3>1. HasFlag(u)
      BY <2>1, QuietMoves DEF HasFlag
    <3> QED
      BY <2>1, <3>1, <1>c, QuietMoves
  <2>2. CASE MenuOpened \/ StartThread \/ DeleteThread
    <3>1. /\ tpc'[u] \in {tpc[u], "dormant", "on_start", "deleted"}
          /\ UNCHANGED <<kmod, event_flag_puid, uid_event_flag, pid, stale_uses>>
      BY <2>2, <1>0 DEF MenuOpened, StartThread, DeleteThread, LifeInv, flagvars
    <3>2. HasFlag(u)
      BY <3>1 DEF HasFlag, PastGet
    <3> QED
      BY <3>1, <3>2, <1>c
  <2>3. CASE Teardown
    <3>1. HasFlag(u) \/ tpc[u] = "check"
      BY <2>3 DEF Teardown, HasFlag
    <3>2. tpc[u] \in Running
      BY <3>1, HasFlagRuns DEF Running
    <3> QED
      BY <2>3, <3>2, <1>b, TheThread DEF Teardown
  <2> QED
    BY <1>1, <1>a, <2>1, <2>2, <2>3, UiCases
<1>2. ASSUME NEW t \in Tids, PlainThreadStep(t)
      PROVE  Goal
  <2>1. PlainMove(t)
    BY <1>2, PlainMoves
  <2>2. HasFlag(u)
    BY <2>1, <1>0 DEF PlainMove, PastGet, HasFlag
  <2> QED
    BY <2>1, <2>2, <1>c DEF PlainMove
<1>3. ASSUME NEW t \in Tids, GetFlag(t)
      PROVE  Goal
  <2>1. PICK puid \in Pids \cup {None} : GetMove(t, puid)
    BY <1>3, GetMoves
  <2>2. t = uid_thread
    BY <2>1, <1>b, TheThread DEF GetMove, Running
  <2>3. u = t
    <3>1. SUFFICES ASSUME u # t
                   PROVE  FALSE
      OBVIOUS
    <3>2. tpc[u] \in Running
      BY <2>1, <3>1, <1>0 DEF GetMove, HasFlag, PastGet, Running
    <3> QED
      BY <3>1, <3>2, <2>2, <1>b, TheThread
  <2>4. puid # None
    BY <2>1, <2>3, <1>0 DEF GetMove, HasFlag, PastGet
  <2>5. event_flag_puid' = puid /\ uid_event_flag' = puid
    BY <2>1, <2>4 DEF GetMove
  <2>6. puid # pid' => stale_uses' > 0
    BY <2>1, <2>4, <1>0 DEF GetMove
  <2> QED
    BY <2>5, <2>6
<1>4. ASSUME NEW t \in Tids, Cleanup(t) \/ ForgetFlag(t)
      PROVE  Goal
  <2>1. /\ tpc[t] \in {"unwrap", "forget"} /\ tpc'[t] \in {"forget", "dead"}
        /\ \A x \in Tids : x # t => tpc'[x] = tpc[x]
    BY <1>4, <1>0 DEF Cleanup, ForgetFlag, Goto
  <2>2. u # t /\ tpc[u] \in Running
    BY <2>1 DEF HasFlag, PastGet, Running
  <2>3. t = uid_thread
    BY <2>1, <1>b, TheThread DEF Running
  <2> QED
    BY <2>2, <2>3, <1>b, TheThread
<1>5. CASE KmodStep
  <2>1. /\ UNCHANGED <<tpc, uid_event_flag, pid, stale_uses>>
        /\ kmod' = "running" => kmod = "running" /\ event_flag_puid' = event_flag_puid
    BY <1>5 DEF KmodStep, EmitEvent, KmodUnwrap, KmodDeleteFlag, flagvars, uivars,
         historyvars
  <2>2. HasFlag(u)
    BY <2>1 DEF HasFlag
  <2> QED
    BY <2>1, <2>2, <1>c
<1>6. CASE UNCHANGED vars
  <2>1. UNCHANGED <<tpc, uid_event_flag, pid, stale_uses, kmod, event_flag_puid>>
    BY <1>6 DEF vars, flagvars, uivars, historyvars
  <2>2. HasFlag(u)
    BY <2>1 DEF HasFlag
  <2> QED
    BY <2>1, <2>2, <1>c
<1> QED
  BY <1>1, <1>2, <1>3, <1>4, <1>5, <1>6, NextCases

\* A thread that gets the flag on its own holds it from then on.
LEMMA GetHolds ==
  ASSUME TypeOK, LifeInv, left = {}, NEW t \in Tids, NEW puid \in Pids \cup {None},
         GetMove(t, puid)
  PROVE  t = uid_thread /\ ~Holds /\ (puid # None => Holds')
<1>0. /\ tpc \in [Tids -> Running \cup {"none", "dormant", "dead", "deleted"}]
      /\ \A x \in Tids : x # None
  BY DEF TypeOK, Tids, None
<1>1. t = uid_thread
  BY TheThread DEF GetMove, Running
<1>2. ~Holds
  BY <1>1 DEF GetMove, Holds, HasFlag, PastGet
<1>3. puid # None => Holds'
  BY <1>0, <1>1 DEF GetMove, Holds, HasFlag, PastGet
<1> QED
  BY <1>1, <1>2, <1>3

\* What a step that is not the death of the shell does to a thread that holds
\* the flag: it goes on holding it, or it unwraps it.
LEMMA HoldsOn ==
  ASSUME TypeOK, LifeInv, [Next]_vars, left' = {}, ~ShellDies, Holds,
         \A t \in Tids : ~Cleanup(t)
  PROVE  Holds'
<1>0. /\ tpc \in [Tids -> Running \cup {"none", "dormant", "dead", "deleted"}]
      /\ uid_thread \in Tids \cup {None} /\ \A t \in Tids : t # None
  BY DEF TypeOK, Tids, None
<1>a. left = {}
  BY LeftGrows
<1>b. /\ uid_thread \in Tids /\ HasFlag(uid_thread) /\ tpc[uid_thread] \in Running
      /\ upc \in {"idle", "wait_end"}
  BY <1>0, <1>a, HasFlagRuns, TheThread DEF Holds
<1>1. CASE UiStep
  <2>1. CASE QuietStep
    BY <2>1, QuietMoves DEF Holds, HasFlag
  <2>2. CASE MenuOpened \/ StartThread \/ DeleteThread \/ Teardown
    BY <2>2, <1>0, <1>b DEF MenuOpened, StartThread, DeleteThread, Teardown
  <2> QED
    BY <1>1, <2>1, <2>2, UiCases
<1>2. ASSUME NEW t \in Tids, PlainThreadStep(t)
      PROVE  Holds'
  <2>1. PlainMove(t)
    BY <1>2, PlainMoves
  <2>2. t = uid_thread
    BY <2>1, <1>a, TheThread DEF PlainMove, PastGet, Running
  <2> QED
    BY <2>1, <2>2, <1>0, <1>b DEF PlainMove, PastGet, Holds, HasFlag
<1>3. ASSUME NEW t \in Tids, GetFlag(t)
      PROVE  Holds'
  BY <1>3, <1>a, GetMoves, GetHolds
<1>4. ASSUME NEW t \in Tids, ForgetFlag(t)
      PROVE  Holds'
  <2>1. tpc[t] = "forget"
    BY <1>4 DEF ForgetFlag, Goto
  <2>2. t = uid_thread
    BY <2>1, <1>a, TheThread DEF Running
  <2> QED
    BY <2>1, <2>2, <1>b DEF HasFlag, PastGet
<1>5. CASE KmodStep
  BY <1>5 DEF KmodStep, EmitEvent, KmodUnwrap, KmodDeleteFlag, Holds, HasFlag, uivars
<1>6. CASE UNCHANGED vars
  BY <1>6 DEF vars, uivars, Holds, HasFlag
<1> QED
  BY <1>1, <1>2, <1>3, <1>4, <1>5, <1>6, NextCases

\* What a step that is neither the death of the shell nor a thread getting or
\* deleting the flag does to the record of it.
LEMMA RecordKept ==
  ASSUME TypeOK, [Next]_vars, ~ShellDies, \A t \in Tids : ~GetFlag(t)
  PROVE  /\ pid' = pid /\ stale_uses' = stale_uses
         /\ event_flag_puid' \in {event_flag_puid, None}
         /\ "unwrap" \in failed => "unwrap" \in failed'
<1>1. CASE UiStep
  <2>1. CASE QuietStep
    BY <2>1, QuietMoves
  <2>2. CASE MenuOpened \/ StartThread \/ DeleteThread \/ Teardown
    BY <2>2 DEF MenuOpened, StartThread, DeleteThread, Teardown, Fails, flagvars,
         historyvars
  <2> QED
    BY <1>1, <2>1, <2>2, UiCases
<1>2. ASSUME NEW t \in Tids, PlainThreadStep(t)
      PROVE  /\ pid' = pid /\ stale_uses' = stale_uses
             /\ event_flag_puid' \in {event_flag_puid, None}
             /\ "unwrap" \in failed => "unwrap" \in failed'
  BY <1>2, PlainMoves DEF PlainMove
<1>3. ASSUME NEW t \in Tids, Cleanup(t)
      PROVE  /\ pid' = pid /\ stale_uses' = stale_uses
             /\ event_flag_puid' \in {event_flag_puid, None}
             /\ "unwrap" \in failed => "unwrap" \in failed'
  BY <1>3, UnwrapMoves DEF Cleanup, UnwrapMove, uivars
<1>4. ASSUME NEW t \in Tids, ForgetFlag(t)
      PROVE  /\ pid' = pid /\ stale_uses' = stale_uses
             /\ event_flag_puid' \in {event_flag_puid, None}
             /\ "unwrap" \in failed => "unwrap" \in failed'
  BY <1>4 DEF ForgetFlag, flagvars, uivars, historyvars
<1>5. CASE KmodStep
  <2>1. CASE EmitEvent
    BY <2>1 DEF EmitEvent, flagvars, uivars, historyvars
  <2>2. CASE KmodUnwrap
    BY <2>2, UnwrapMoves DEF KmodUnwrap, UnwrapMove, uivars
  <2>3. CASE KmodDeleteFlag
    BY <2>3 DEF KmodDeleteFlag, Fails, uivars
  <2> QED
    BY <1>5, <2>1, <2>2, <2>3 DEF KmodStep
<1>6. CASE UNCHANGED vars
  BY <1>6 DEF vars, flagvars, uivars, historyvars
<1> QED
  BY <1>1, <1>2, <1>3, <1>4, <1>5, <1>6, NextCases

LEMMA CleanNext ==
  TypeOK /\ LifeInv /\ RecordInv /\ CleanInv /\ [Next]_vars => CleanInv'
<1> SUFFICES ASSUME TypeOK, LifeInv, RecordInv, CleanInv, [Next]_vars,
                    event_flag_puid' = pid', left' = {}
             PROVE  Holds' \/ "unwrap" \in failed'
  BY DEF CleanInv
<1>0. pid \in Nat \ {0} /\ None = 0
  BY DEF TypeOK, Pids, None
<1>1. CASE ShellDies
  BY <1>0, <1>1 DEF ShellDies, RecordInv
<1>2. ASSUME ~ShellDies, NEW t \in Tids, Cleanup(t)
      PROVE  Holds' \/ "unwrap" \in failed'
  <2>1. UnwrapMove /\ pid' = pid
    BY <1>2, UnwrapMoves DEF Cleanup, uivars
  <2> QED
    BY <2>1, <1>0 DEF UnwrapMove, RecordInv
<1>3. ASSUME ~ShellDies, NEW t \in Tids, GetFlag(t)
      PROVE  Holds' \/ "unwrap" \in failed'
  <2>1. PICK puid \in Pids \cup {None} : GetMove(t, puid)
    BY <1>3, GetMoves
  <2>2. left = {}
    BY <1>3, LeftGrows
  <2>3. ~Holds /\ (puid # None => Holds')
    BY <2>1, <2>2, GetHolds
  <2> QED
    BY <2>1, <2>2, <2>3, <1>0 DEF GetMove, CleanInv
<1>4. CASE ~ShellDies /\ \A t \in Tids : ~Cleanup(t) /\ ~GetFlag(t)
  <2>1. event_flag_puid = pid
    BY <1>0, <1>4, RecordKept
  <2>2. left = {}
    BY <1>4, LeftGrows
  <2> QED
    BY <2>1, <2>2, <1>4, RecordKept, HoldsOn DEF CleanInv
<1> QED
  BY <1>1, <1>2, <1>3, <1>4

LEMMA StaleNext == TypeOK /\ LifeInv /\ StaleInv /\ [Next]_vars => StaleInv'
<1> DEFINE Kept == \/ "unwrap" \in failed
                   \/ stale_uses = 0
                   \/ stale_uses = 1 /\ (event_flag_puid \in {None, pid} \/ Holds)
<1> SUFFICES ASSUME TypeOK, LifeInv, StaleInv, [Next]_vars, StaleDeletable, left' = {}
             PROVE  Kept'
  BY DEF StaleInv
<1>0. None = 0 /\ stale_uses \in Nat /\ left \subseteq Tids
  BY DEF TypeOK, None
<1>1. CASE ShellDies
  BY <1>1 DEF ShellDies
<1>a. ~ShellDies => Kept
  BY LeftGrows DEF StaleInv
<1>2. ASSUME ~ShellDies, NEW t \in Tids, Cleanup(t)
      PROVE  Kept'
  <2>1. UnwrapMove /\ UNCHANGED <<pid, stale_uses>>
    BY <1>2, UnwrapMoves DEF Cleanup, uivars
  <2>2. event_flag_puid' = None \/ "unwrap" \in failed'
    BY <2>1 DEF UnwrapMove
  <2> QED
    BY <2>1, <2>2, <1>2, <1>a DEF UnwrapMove
<1>3. ASSUME ~ShellDies, NEW t \in Tids, GetFlag(t)
      PROVE  Kept'
  <2>1. PICK puid \in Pids \cup {None} : GetMove(t, puid)
    BY <1>3, GetMoves
  <2>2. left = {}
    BY <1>3, LeftGrows
  <2>3. ~Holds /\ (puid # None => Holds')
    BY <2>1, <2>2, GetHolds
  <2> HIDE DEF Holds
  <2> QED
    BY <2>1, <2>3, <1>0, <1>3, <1>a DEF GetMove
<1>4. CASE ~ShellDies /\ \A t \in Tids : ~Cleanup(t) /\ ~GetFlag(t)
  <2>1. Holds => Holds'
    BY <1>4, HoldsOn
  <2> QED
    BY <2>1, <1>4, <1>a, RecordKept
<1> QED
  BY <1>1, <1>2, <1>3, <1>4

LEMMA ServedNext ==
  TypeOK /\ LifeInv /\ RecordInv /\ GivenInv /\ ServedInv /\ [Next]_vars => ServedInv'
<1> SUFFICES ASSUME TypeOK, LifeInv, RecordInv, GivenInv, ServedInv, [Next]_vars,
                    upc' = "idle", uid_thread' # None, ~Serves', left' = {}
             PROVE  Trouble'
  BY DEF ServedInv, Trouble
<1>0. /\ tpc \in [Tids -> Running \cup {"none", "dormant", "dead", "deleted"}]
      /\ kmod \in {"running", "unwrapped", "stopped"}
      /\ pid \in Nat \ {0} /\ stale_uses \in Nat
      /\ uid_thread \in Tids \cup {None}
  BY DEF TypeOK, Pids
<1>1. CASE UiStep
  <2>1. CASE StartThread
    BY <2>1, <1>0 DEF StartThread, Fails, LifeInv, Running, Serves, Trouble
  <2>2. CASE MenuOpened
    BY <2>2 DEF MenuOpened
  <2>3. CASE ModuleStart
    BY <2>3 DEF ModuleStart, LifeInv
  <2>4. CASE \/ (\E quit \in BOOLEAN : Stop(quit)) \/ StopIdle \/ WaitThreadEnd
             \/ WaitThreadEndFails \/ Teardown \/ DeleteThread \/ ShellDies
    BY <2>4 DEF Stop, StopIdle, WaitThreadEnd, WaitThreadEndFails, Teardown,
         DeleteThread, ShellDies
  <2> QED
    BY <1>1, <2>1, <2>2, <2>3, <2>4 DEF UiStep, StopSteps
<1>a. ~UiStep => ~ShellDies /\ left = {}
  BY LeftGrows DEF UiStep
<1>b. Serves \/ Trouble \/ upc # "idle" \/ uid_thread = None
  BY DEF ServedInv
<1>2. ASSUME ~UiStep, NEW t \in Tids, PlainThreadStep(t)
      PROVE  Trouble'
  <2>1. PlainMove(t)
    BY <1>2, PlainMoves
  <2>2. t = uid_thread
    BY <1>2, <1>a, <2>1, TheThread DEF PlainMove, PastGet, Running
  <2>3. Trouble => Trouble'
    BY <2>1 DEF PlainMove, Trouble
  <2>4. CASE Serves
    <3>1. tpc'[t] = "unwrap" /\ run_thread
      BY <2>1, <2>2, <2>4, <1>0 DEF PlainMove, LifeInv, PastGet, Running, Serves
    <3>2. "thread" \in failed' \/ ~FlagUsable
      BY <2>1, <3>1 DEF PlainMove
    <3>5. tpc[t] \in PastGet
      BY <2>1, <3>1 DEF PlainMove
    <3>3. HasFlag(t)
      BY <3>5 DEF HasFlag
    <3>4. ~FlagUsable => kmod # "running" \/ stale_uses > 0
      BY <1>2, <1>a, <3>3 DEF FlagUsable, RecordInv, GivenInv
    <3> QED
      BY <2>1, <3>2, <3>4 DEF PlainMove, Trouble
  <2> QED
    BY <2>1, <2>3, <2>4, <1>b DEF PlainMove
<1>3. ASSUME ~UiStep, NEW t \in Tids, GetFlag(t)
      PROVE  Trouble'
  <2>1. PICK puid \in Pids \cup {None} : GetMove(t, puid)
    BY <1>3, GetMoves
  <2>2. t = uid_thread
    BY <1>3, <1>a, <2>1, TheThread DEF GetMove, Running
  <2>3. puid = None
    BY <2>1, <2>2, <1>0 DEF GetMove, Running, Serves
  <2>4. "thread" \in failed' \/ ~event_flag_uid
    BY <2>1, <2>3, <1>0 DEF GetMove, None
  <2>5. kmod' = kmod
    BY <2>1 DEF GetMove
  <2> QED
    BY <2>4, <2>5 DEF RecordInv, Trouble
<1>4. ASSUME ~UiStep, NEW t \in Tids, Cleanup(t) \/ ForgetFlag(t)
      PROVE  Trouble'
  <2>1. /\ failed \subseteq failed' /\ tpc[t] \in {"unwrap", "forget"}
        /\ UNCHANGED <<kmod, stale_uses, left, upc, uid_thread>>
    BY <1>4, UnwrapMoves DEF Cleanup, ForgetFlag, UnwrapMove, Goto, uivars, historyvars
  <2>2. t = uid_thread
    BY <1>4, <1>a, <2>1, TheThread DEF Running
  <2>3. Trouble
    BY <2>1, <2>2, <1>b DEF Serves
  <2> QED
    BY <2>1, <2>3 DEF Trouble
<1>5. CASE KmodStep
  <2>1. CASE EmitEvent
    <3>1. UNCHANGED <<kmod, stale_uses, left, upc, uid_thread, tpc, uid_event_flag, failed>>
      BY <2>1 DEF EmitEvent, uivars, historyvars
    <3> QED
      BY <3>1, <1>b DEF Trouble, Serves
  <2>2. CASE KmodUnwrap \/ KmodDeleteFlag
    BY <2>2 DEF KmodUnwrap, KmodDeleteFlag, Trouble
  <2> QED
    BY <1>5, <2>1, <2>2 DEF KmodStep
<1>6. CASE UNCHANGED vars
  BY <1>6, <1>b DEF vars, uivars, historyvars, Trouble, Serves
<1> QED
  BY <1>1, <1>2, <1>3, <1>4, <1>5, <1>6, NextCases

LEMMA IInvInit == Init => IInv
<1>1. Init => LifeInv
  BY DEF Init, LifeInv, Running
<1>2. Init => RecordInv /\ GivenInv
  BY DEF Init, RecordInv, GivenInv, HasFlag, PastGet, None
<1>3. Init => CleanInv /\ ServedInv /\ StaleInv
  BY DEF Init, CleanInv, ServedInv, StaleInv, None
<1> QED
  BY <1>1, <1>2, <1>3, TypeInit DEF IInv

LEMMA IInvAlways == Spec => []IInv
<1>1. IInv /\ [Next]_vars => IInv'
  BY TypeNext, LifeNext, RecordNext, GivenNext, CleanNext, ServedNext, StaleNext
     DEF IInv
<1> QED
  BY <1>1, IInvInit, PTL DEF Spec

------------------------------------------------------------------------------
(* The properties.                                                          *)

\* At most one event thread runs, besides those whose end could not be waited
\* for, in all processes of the shell: the ring has a single reader.
THEOREM ThreadIsAlone == Spec => []OneThread
<1>1. IInv => OneThread
  BY DEF IInv, LifeInv, OneThread
<1> QED
  BY <1>1, IInvAlways, PTL

\* No thread updates the buttons without the mutex of qm_state, unless its end
\* could not be waited for.
THEOREM MutexIsThere == Spec => []MutexOutlivesThread
<1>1. IInv => MutexOutlivesThread
  BY DEF IInv, LifeInv, MutexOutlivesThread, Running
<1> QED
  BY <1>1, IInvAlways, PTL

\* The flag a thread waits on is not unwrapped under it, except by a kernel
\* module that stops or a thread left behind.
THEOREM FlagStaysWrapped == Spec => []FlagNotPulled
<1>1. ASSUME IInv, NEW t \in Tids, tpc[t] = "wait", kmod = "running", left = {},
             uid_event_flag = pid
      PROVE  pid \in wrapped
  <2>1. HasFlag(t)
    BY <1>1 DEF HasFlag, PastGet
  <2>2. event_flag_puid = uid_event_flag
    BY <1>1, <2>1 DEF IInv, GivenInv
  <2> QED
    BY <1>1, <2>2 DEF IInv, RecordInv
<1>2. IInv => FlagNotPulled
  BY <1>1 DEF FlagNotPulled
<1> QED
  BY <1>2, IInvAlways, PTL

\* The thread of an open menu ends early only if a call it needs failed, the
\* kernel module stopped, the flag is that of a dead process or a thread left
\* behind took it.
THEOREM OpenMenuIsServed == Spec => []ServedWhileOpen
<1>1. IInv => ServedWhileOpen
  BY DEF IInv, ServedInv, ServedWhileOpen, Serves, Trouble
<1> QED
  BY <1>1, IInvAlways, PTL

\* A closed menu leaves no wrapping of this process behind, unless deleting it
\* failed or a thread was left running.
THEOREM ClosedMenuIsClean == Spec => []CleanAfterClose
<1>1. IInv => CleanAfterClose
  BY DEF IInv, CleanInv, CleanAfterClose, Holds
<1> QED
  BY <1>1, IInvAlways, PTL

\* A stale wrapping that can be deleted fails one opening of the menu at most,
\* unless deleting it failed or a thread was left running.
THEOREM StaleFlagIsRepaired == Spec => []StaleAtMostOnce
<1>1. IInv => StaleAtMostOnce
  BY DEF IInv, StaleInv, StaleAtMostOnce
<1> QED
  BY <1>1, IInvAlways, PTL

==============================================================================
