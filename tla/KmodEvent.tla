------------------------------ MODULE KmodEvent ------------------------------
(****************************************************************************)
(* Life of the user module's event thread (module_user/src/kmod_event.c),   *)
(* of the event flag the kernel module wraps for it (module_kernel/src/     *)
(* umod_callback.c) and of the menu and module handlers that start and stop *)
(* them (quickmenu.c, both main.c).                                         *)
(*                                                                          *)
(* The statics of the user module die with the shell's process, those of    *)
(* the kernel module survive it.  A wrapped uid is named by the process it  *)
(* was made for and means nothing to another one.  The events waiting are   *)
(* counted only: UmodRing and EventStream say what the ring does with them. *)
(*                                                                          *)
(* quickmenu_stop and the closed menu wait for the thread, but a wait that  *)
(* fails is only logged: the thread is left behind, with its uid forgotten. *)
(* Two threads may then share the statics, and one may outlive its module,  *)
(* which is undefined: it goes on here, or takes the shell with it.         *)
(****************************************************************************)
EXTENDS Naturals, FiniteSets

CONSTANTS
  MaxPids,        \* bound: processes the shell runs in, one after the other
  MaxThreads,     \* bound: event threads created
  MaxLeft,        \* bound: threads a process leaves running
  MaxEvents,      \* bound: events emitted
  Capacity,       \* RING_BUFFER_SIZE
  Faults,         \* calls that may fail
  StaleDeletable  \* ksceKernelDeleteUserUid accepts the uid of a dead process

Calls == {"create_thread", "start_thread", "get_pid", "wrap", "unwrap",
          "wait", "read", "wait_end", "delete_flag"}

ASSUME BoundsAssumption ==
  /\ MaxPids \in Nat \ {0} /\ MaxThreads \in Nat \ {0}
  /\ MaxLeft \in Nat /\ MaxEvents \in Nat
ASSUME CapacityAssumption == Capacity \in Nat \ {0}
ASSUME FaultsAssumption == Faults \subseteq Calls
ASSUME StaleAssumption == StaleDeletable \in BOOLEAN

Pids == 1..MaxPids
Tids == 1..MaxThreads
None == 0  \* a negative uid

VARIABLES
  \* Kernel side.
  kmod,             \* "running", "unwrapped" half way through module_stop, "stopped"
  event_flag_uid,   \* the event flag exists
  event_flag_puid,  \* None, or the process the wrapping was made for
  wrapped,          \* processes in which a wrapping of the flag is alive
  pending,          \* events in the ring the reader is not past
  bit,              \* the event flag is set
  emitted,          \* events emitted so far
  \* Shell side.
  pid,              \* the shell's process
  upc,              \* where its UI thread is
  quitting,         \* it runs module_stop, not the handler of a closed menu
  mutex,            \* qm_state's mutex exists
  uid_thread,
  run_thread,
  uid_event_flag,
  tpc,              \* where each event thread is
  \* History.
  failed,           \* "unwrap" has failed; what the "thread" of this menu needs has
  stale_uses,       \* times this process was given the flag of a dead one
  left              \* its threads that ran on when waiting for their end failed

historyvars == <<failed, stale_uses, left>>
flagvars == <<event_flag_uid, event_flag_puid, wrapped>>
ringvars == <<pending, bit, emitted>>
uivars == <<pid, upc, quitting, mutex, uid_thread, run_thread>>
vars == <<kmod, flagvars, ringvars, uivars, uid_event_flag, tpc, historyvars>>

Running == {"on_start", "get", "check", "loop", "wait", "fetch", "handle",
            "unwrap", "forget"}

Init ==
  /\ kmod = "running" /\ event_flag_uid = TRUE
  /\ event_flag_puid = None /\ wrapped = {}
  /\ pending = 0 /\ bit = FALSE /\ emitted = 0
  /\ pid = 1 /\ upc = "unloaded" /\ quitting = FALSE /\ mutex = FALSE
  /\ uid_thread = None /\ run_thread = FALSE /\ uid_event_flag = None
  /\ tpc = [t \in Tids |-> "none"]
  /\ failed = {} /\ stale_uses = 0 /\ left = {}

Fails(call, mark) == call \in Faults /\ failed' = failed \cup mark

------------------------------------------------------------------------------
(* The UI thread: the handlers of the menu and of the module.               *)

ModuleStart ==
  /\ upc = "unloaded" /\ upc' = "idle"
  /\ mutex' = TRUE
  /\ UNCHANGED <<kmod, flagvars, ringvars, pid, quitting, uid_thread, run_thread,
                 uid_event_flag, tpc, historyvars>>

\* Mutant: run_thread is left as the last stop set it.
MenuOpened_FlagNotSet ==
  /\ upc = "idle" /\ uid_thread = None
  /\ UNCHANGED run_thread
  /\ \/ \E t \in Tids :
          /\ tpc[t] = "none"
          /\ \A u \in 1..(t - 1) : tpc[u] # "none"
          /\ uid_thread' = t
          /\ tpc' = [tpc EXCEPT ![t] = "dormant"]
          /\ upc' = "start"
          /\ UNCHANGED failed
     \/ Fails("create_thread", {}) /\ UNCHANGED <<uid_thread, tpc, upc>>
  /\ UNCHANGED <<kmod, flagvars, ringvars, pid, quitting, mutex, uid_event_flag,
                 stale_uses, left>>

\* kmod_event_start, up to sceKernelCreateThread.
MenuOpened ==
  /\ upc = "idle" /\ uid_thread = None
  /\ run_thread' = TRUE
  /\ \/ \E t \in Tids :
          /\ tpc[t] = "none"
          /\ \A u \in 1..(t - 1) : tpc[u] # "none"
          /\ uid_thread' = t
          /\ tpc' = [tpc EXCEPT ![t] = "dormant"]
          /\ upc' = "start"
          /\ UNCHANGED failed
     \/ Fails("create_thread", {}) /\ UNCHANGED <<uid_thread, tpc, upc>>
  /\ UNCHANGED <<kmod, flagvars, ringvars, pid, quitting, mutex, uid_event_flag,
                 stale_uses, left>>

\* A failure is only logged.
StartThread ==
  /\ upc = "start" /\ upc' = "idle"
  /\ \/ tpc' = [tpc EXCEPT ![uid_thread] = "on_start"] /\ UNCHANGED failed
     \/ Fails("start_thread", {"thread"}) /\ UNCHANGED tpc
  /\ UNCHANGED <<kmod, flagvars, ringvars, pid, quitting, mutex, uid_thread,
                 run_thread, uid_event_flag, stale_uses, left>>

\* Mutant: quickmenu_stop deletes the mutex first.
Stop_MutexFirst(quit) ==
  /\ upc = "idle" /\ uid_thread # None
  /\ run_thread' = FALSE
  /\ upc' = "wait_end" /\ quitting' = quit
  /\ mutex' = (mutex /\ ~quit)
  /\ UNCHANGED <<kmod, flagvars, ringvars, pid, uid_thread, uid_event_flag,
                 tpc, historyvars>>

\* Mutant: the thread is not told to stop.
Stop_FlagKept(quit) ==
  /\ upc = "idle" /\ uid_thread # None
  /\ UNCHANGED run_thread
  /\ upc' = "wait_end" /\ quitting' = quit
  /\ UNCHANGED <<kmod, flagvars, ringvars, pid, mutex, uid_thread, uid_event_flag,
                 tpc, historyvars>>

\* kmod_event_stop with a thread, from the handler of the closed menu or from
\* quickmenu_stop.
Stop(quit) ==
  /\ upc = "idle" /\ uid_thread # None
  /\ run_thread' = FALSE
  /\ upc' = "wait_end" /\ quitting' = quit
  /\ UNCHANGED <<kmod, flagvars, ringvars, pid, mutex, uid_thread, uid_event_flag,
                 tpc, historyvars>>

\* Mutant: nobody waits for the thread.
WaitThreadEnd_Skipped ==
  /\ upc = "wait_end" /\ upc' = "delete"
  /\ UNCHANGED <<kmod, flagvars, ringvars, pid, quitting, mutex, uid_thread,
                 run_thread, uid_event_flag, tpc, historyvars>>

\* A thread that was never started does not keep anybody waiting.
WaitThreadEnd ==
  /\ upc = "wait_end" /\ upc' = "delete"
  /\ tpc[uid_thread] \in {"dormant", "dead"}
  /\ UNCHANGED <<kmod, flagvars, ringvars, pid, quitting, mutex, uid_thread,
                 run_thread, uid_event_flag, tpc, historyvars>>

\* A failure is only logged, and the thread left running.
WaitThreadEndFails ==
  /\ upc = "wait_end" /\ upc' = "delete"
  /\ Fails("wait_end", {}) /\ Cardinality(left) < MaxLeft
  /\ left' = left \cup {t \in Tids : t = uid_thread /\ tpc[t] \in Running}
  /\ UNCHANGED <<kmod, flagvars, ringvars, pid, quitting, mutex, uid_thread,
                 run_thread, uid_event_flag, tpc, stale_uses>>

\* Only a thread that does not run can be deleted; the uid is forgotten anyway,
\* so nothing depends on whether deleting succeeds.
DeleteThread ==
  /\ upc = "delete"
  /\ upc' = IF quitting THEN "teardown" ELSE "idle"
  /\ tpc' = IF tpc[uid_thread] \in Running
            THEN tpc
            ELSE [tpc EXCEPT ![uid_thread] = "deleted"]
  /\ uid_thread' = None
  /\ failed' = failed \ {"thread"}
  /\ UNCHANGED <<kmod, flagvars, ringvars, pid, quitting, mutex, run_thread,
                 uid_event_flag, stale_uses, left>>

\* quickmenu_stop without a thread.
StopIdle ==
  /\ upc = "idle" /\ uid_thread = None
  /\ upc' = "teardown" /\ quitting' = TRUE
  /\ UNCHANGED <<kmod, flagvars, ringvars, pid, mutex, uid_thread, run_thread,
                 uid_event_flag, tpc, historyvars>>

\* The rest of quickmenu_stop; the module is unloaded, with its statics.
Teardown ==
  /\ upc = "teardown" /\ upc' = "unloaded"
  /\ quitting' = FALSE /\ mutex' = FALSE
  /\ run_thread' = FALSE /\ uid_event_flag' = None
  /\ UNCHANGED <<kmod, flagvars, ringvars, pid, uid_thread, tpc, historyvars>>

\* The shell is killed, with its threads, its mutex and its table of uids, and
\* runs again.
ShellDies ==
  /\ upc # "unloaded" \/ \E t \in Tids : tpc[t] \in Running
  /\ pid < MaxPids
  /\ pid' = pid + 1
  /\ upc' = "unloaded" /\ quitting' = FALSE /\ mutex' = FALSE
  /\ uid_thread' = None /\ run_thread' = FALSE /\ uid_event_flag' = None
  /\ tpc' = [t \in Tids |-> IF tpc[t] = "none" THEN "none" ELSE "deleted"]
  /\ wrapped' = wrapped \ {pid}
  /\ stale_uses' = 0 /\ left' = {} /\ failed' = failed \ {"thread"}
  /\ UNCHANGED <<kmod, event_flag_uid, event_flag_puid, ringvars>>

------------------------------------------------------------------------------
(* The wrapped event flag.                                                  *)

\* kvqmbt_get_wrapped_event_flag returns puid, None standing for an error.
kvqmbt_get_wrapped_event_flag(puid) ==
  \/ /\ ~event_flag_uid /\ puid = None
     /\ UNCHANGED <<flagvars, failed>>
  \/ /\ event_flag_uid /\ event_flag_puid # None
     /\ puid = event_flag_puid
     /\ UNCHANGED <<flagvars, failed>>
  \/ /\ event_flag_uid /\ event_flag_puid = None
     /\ \/ /\ puid = pid
           /\ event_flag_puid' = pid /\ wrapped' = wrapped \cup {pid}
           /\ UNCHANGED <<event_flag_uid, failed>>
        \/ /\ puid = None
           /\ Fails("get_pid", {"thread"}) \/ Fails("wrap", {"thread"})
           /\ UNCHANGED flagvars

\* Mutant: the uid is deleted and not forgotten.
kvqmbt_unwrap_event_flag_Uncleared ==
  \/ event_flag_puid = None /\ UNCHANGED <<event_flag_puid, wrapped, failed>>
  \/ /\ event_flag_puid # None
     /\ event_flag_puid \in wrapped \/ StaleDeletable
     /\ UNCHANGED event_flag_puid /\ wrapped' = wrapped \ {event_flag_puid}
     /\ UNCHANGED failed
  \/ /\ event_flag_puid # None
     /\ \/ Fails("unwrap", {"unwrap"})
        \/ event_flag_puid \notin wrapped /\ ~StaleDeletable /\ UNCHANGED failed
     /\ UNCHANGED <<event_flag_puid, wrapped>>

\* A wrapping that cannot be deleted is kept.
kvqmbt_unwrap_event_flag ==
  \/ event_flag_puid = None /\ UNCHANGED <<event_flag_puid, wrapped, failed>>
  \/ /\ event_flag_puid # None
     /\ event_flag_puid \in wrapped \/ StaleDeletable
     /\ event_flag_puid' = None /\ wrapped' = wrapped \ {event_flag_puid}
     /\ UNCHANGED failed
  \/ /\ event_flag_puid # None
     /\ \/ Fails("unwrap", {"unwrap"})
        \/ event_flag_puid \notin wrapped /\ ~StaleDeletable /\ UNCHANGED failed
     /\ UNCHANGED <<event_flag_puid, wrapped>>

------------------------------------------------------------------------------
(* The event thread.                                                        *)

Goto(t, from, to) == tpc[t] = from /\ tpc' = [tpc EXCEPT ![t] = to]

\* on_start is reset(): it flushes the ring and updates the buttons.
OnStart(t) ==
  /\ Goto(t, "on_start", "get")
  /\ pending' = 0
  /\ UNCHANGED <<kmod, flagvars, bit, emitted, uivars, uid_event_flag, historyvars>>

GetFlag(t) ==
  \E puid \in Pids \cup {None} :
    /\ kvqmbt_get_wrapped_event_flag(puid)
    /\ uid_event_flag' = puid
    /\ Goto(t, "get", "check")
    /\ stale_uses' = IF puid \in {None, pid} THEN stale_uses ELSE stale_uses + 1
    /\ UNCHANGED <<kmod, ringvars, uivars, left>>

\* The static is read again, after it was logged.
CheckFlag(t) ==
  /\ Goto(t, "check", IF uid_event_flag = None THEN "dead" ELSE "loop")
  /\ UNCHANGED <<kmod, flagvars, ringvars, uivars, uid_event_flag, historyvars>>

\* Mutant: a thread told to stop returns at once.
Loop_NoCleanup(t) ==
  /\ Goto(t, "loop", IF run_thread THEN "wait" ELSE "dead")
  /\ UNCHANGED <<kmod, flagvars, ringvars, uivars, uid_event_flag, historyvars>>

Loop(t) ==
  /\ Goto(t, "loop", IF run_thread THEN "wait" ELSE "unwrap")
  /\ UNCHANGED <<kmod, flagvars, ringvars, uivars, uid_event_flag, historyvars>>

FlagUsable == event_flag_uid /\ uid_event_flag = pid /\ pid \in wrapped

WaitReturns(t) ==
  /\ Goto(t, "wait", "fetch")
  /\ FlagUsable /\ bit
  /\ bit' = FALSE
  /\ UNCHANGED <<kmod, flagvars, pending, emitted, uivars, uid_event_flag, historyvars>>

\* The wait may have begun before the kernel module took the flag away.
WaitTimesOut(t) ==
  /\ Goto(t, "wait", "fetch")
  /\ \/ FlagUsable /\ ~bit
     \/ uid_event_flag = pid /\ kmod # "running"
  /\ UNCHANGED <<kmod, flagvars, ringvars, uivars, uid_event_flag, historyvars>>

\* Mutant: a failed wait returns from the thread.
WaitFails_NoCleanup(t) ==
  /\ Goto(t, "wait", "dead")
  /\ \/ ~FlagUsable /\ UNCHANGED failed
     \/ Fails("wait", {"thread"})
  /\ UNCHANGED <<kmod, flagvars, ringvars, uivars, uid_event_flag, stale_uses, left>>

WaitFails(t) ==
  /\ Goto(t, "wait", "unwrap")
  /\ \/ ~FlagUsable /\ UNCHANGED failed
     \/ Fails("wait", {"thread"})
  /\ UNCHANGED <<kmod, flagvars, ringvars, uivars, uid_event_flag, stale_uses, left>>

FetchNothing(t) ==
  /\ Goto(t, "fetch", "loop")
  /\ pending = 0
  /\ UNCHANGED <<kmod, flagvars, ringvars, uivars, uid_event_flag, historyvars>>

\* Mutant: the return value 0 is taken for an event.
FetchEvent_WhenEmpty(t) ==
  /\ pending \in 0..Capacity
  /\ pending' = pending - 1
  /\ \/ Goto(t, "fetch", "handle") /\ UNCHANGED failed
     \/ Goto(t, "fetch", "loop") /\ Fails("read", {})
  /\ UNCHANGED <<kmod, flagvars, bit, emitted, uivars, uid_event_flag, stale_uses, left>>

\* An event that cannot be copied to the thread is lost and ends the fetching.
FetchEvent(t) ==
  /\ pending \in 1..Capacity
  /\ pending' = pending - 1
  /\ \/ Goto(t, "fetch", "handle") /\ UNCHANGED failed
     \/ Goto(t, "fetch", "loop") /\ Fails("read", {})
  /\ UNCHANGED <<kmod, flagvars, bit, emitted, uivars, uid_event_flag, stale_uses, left>>

FetchOverflow(t) ==
  /\ Goto(t, "fetch", "handle")
  /\ pending > Capacity
  /\ pending' = 0
  /\ UNCHANGED <<kmod, flagvars, bit, emitted, uivars, uid_event_flag, historyvars>>

\* cb_on_event or cb_on_event_dropped: some calls flush the ring, all of them
\* update the buttons.
HandleEvent(t) ==
  /\ Goto(t, "handle", "fetch")
  /\ pending' \in {pending, 0}
  /\ UNCHANGED <<kmod, flagvars, bit, emitted, uivars, uid_event_flag, historyvars>>

Cleanup(t) ==
  /\ Goto(t, "unwrap", "forget")
  /\ kvqmbt_unwrap_event_flag
  /\ UNCHANGED <<kmod, event_flag_uid, ringvars, uivars, uid_event_flag, stale_uses,
                 left>>

ForgetFlag(t) ==
  /\ Goto(t, "forget", "dead")
  /\ uid_event_flag' = None
  /\ UNCHANGED <<kmod, flagvars, ringvars, uivars, historyvars>>

------------------------------------------------------------------------------
(* The kernel module.                                                       *)

\* More than Capacity events waiting are all alike.  Only a thread that the
\* kernel module could not wait for emits while it stops (BtEvent).
EmitEvent ==
  /\ kmod = "running" \/ "wait_end" \in Faults
  /\ emitted < MaxEvents
  /\ emitted' = emitted + 1
  /\ pending' = IF pending > Capacity THEN pending ELSE pending + 1
  /\ bit' = event_flag_uid
  /\ UNCHANGED <<kmod, flagvars, uivars, uid_event_flag, tpc, historyvars>>

\* module_stop: bt_event_stop ends the emitting thread, then umod_cb_stop.
KmodUnwrap ==
  /\ kmod = "running" /\ kmod' = "unwrapped"
  /\ kvqmbt_unwrap_event_flag
  /\ UNCHANGED <<event_flag_uid, ringvars, uivars, uid_event_flag, tpc, stale_uses, left>>

KmodDeleteFlag ==
  /\ kmod = "unwrapped" /\ kmod' = "stopped"
  /\ \/ event_flag_uid' = FALSE /\ UNCHANGED failed
     \/ Fails("delete_flag", {}) /\ UNCHANGED event_flag_uid
  /\ UNCHANGED <<event_flag_puid, wrapped, ringvars, uivars, uid_event_flag, tpc,
                 stale_uses, left>>

------------------------------------------------------------------------------
StopSteps == WaitThreadEnd \/ DeleteThread \/ Teardown

ThreadStep(t) ==
  \/ OnStart(t) \/ GetFlag(t) \/ CheckFlag(t) \/ Loop(t)
  \/ WaitReturns(t) \/ WaitTimesOut(t) \/ WaitFails(t)
  \/ FetchNothing(t) \/ FetchEvent(t) \/ FetchOverflow(t)
  \/ HandleEvent(t) \/ Cleanup(t) \/ ForgetFlag(t)

Next ==
  \/ ModuleStart \/ MenuOpened \/ StartThread
  \/ (\E quit \in BOOLEAN : Stop(quit)) \/ StopIdle
  \/ StopSteps \/ WaitThreadEndFails
  \/ ShellDies
  \/ \E t \in Tids : ThreadStep(t)
  \/ EmitEvent \/ KmodUnwrap \/ KmodDeleteFlag

Spec == Init /\ [][Next]_vars

\* Both threads run on; nobody has to open or close the menu, and no stop counts
\* on a wait that fails.
FairSpec == Spec /\ WF_vars(StartThread) /\ WF_vars(StopSteps)
                 /\ \A t \in Tids : WF_vars(ThreadStep(t))

------------------------------------------------------------------------------
(* Properties.                                                              *)

UiLabels == {"unloaded", "idle", "start", "wait_end", "delete", "teardown"}

\* The number of events read never exceeds the number emitted, and uids are
\* what the kernel hands out.
TypeOK ==
  /\ kmod \in {"running", "unwrapped", "stopped"}
  /\ event_flag_uid \in BOOLEAN
  /\ event_flag_puid \in Pids \cup {None} /\ wrapped \subseteq Pids
  /\ pending \in 0..(Capacity + 1) /\ bit \in BOOLEAN /\ emitted \in 0..MaxEvents
  /\ pid \in Pids /\ upc \in UiLabels
  /\ quitting \in BOOLEAN /\ mutex \in BOOLEAN
  /\ uid_thread \in Tids \cup {None} /\ run_thread \in BOOLEAN
  /\ uid_event_flag \in Pids \cup {None}
  /\ tpc \in [Tids -> Running \cup {"none", "dormant", "dead", "deleted"}]
  /\ failed \subseteq {"unwrap", "thread"} /\ stale_uses \in Nat /\ left \subseteq Tids

\* However fast the menu is closed and opened, no two event threads run: the
\* ring has one reader and the statics of kmod_event.c one user.  Only a thread
\* whose end could not be waited for runs beside another one.
OneThread ==
  \A t, u \in Tids \ left : tpc[t] \in Running /\ tpc[u] \in Running => t = u

\* The mutex of qm_state outlives every thread that may update the buttons:
\* quickmenu_stop ends the thread before it deletes the mutex.  It gives up on a
\* thread whose end it could not wait for.
MutexOutlivesThread ==
  \A t \in Tids \ left : tpc[t] \in {"on_start", "handle"} => mutex

\* A wrapping made for this process is alive as long as its thread waits on it,
\* unless the kernel module is being stopped or a thread left behind took it.
FlagNotPulled ==
  \A t \in Tids :
    tpc[t] = "wait" /\ kmod = "running" /\ left = {} /\ uid_event_flag = pid =>
      pid \in wrapped

\* While the menu is open and the kernel module runs, events are served: the
\* thread only ends early after a call it needs failed, on the flag of a dead
\* process, or when a thread left behind takes the flag.
ServedWhileOpen ==
  upc = "idle" /\ uid_thread # None /\ tpc[uid_thread] \notin Running =>
    \/ "thread" \in failed \/ kmod # "running" \/ stale_uses > 0
    \/ left # {}

\* A closed menu leaves no wrapping for this process behind, unless deleting it
\* failed or a thread was left running.
CleanAfterClose ==
  upc = "idle" /\ uid_thread = None =>
    event_flag_puid # pid \/ "unwrap" \in failed \/ left # {}

\* If the kernel lets go of a dead process's uid, one failed wait repairs the
\* flag for a new shell: the next time the menu is opened it is served.  This
\* needs the unwrapping not to fail and the thread not to be left running.
StaleAtMostOnce ==
  StaleDeletable => stale_uses <= 1 \/ "unwrap" \in failed \/ left # {}

\* Closing the menu does not block the UI thread forever, once events stop
\* coming in: the thread notices within one wait.
StopReturns == upc = "wait_end" ~> upc \in {"idle", "unloaded"}

\* "Wrap the kernel-context event flag UID into a UID accessible from the user
\* module's context" (umod_callback.c): the thread waits on a uid of its own
\* process.
WrappedFlagIsAccessible ==
  \A t \in Tids : tpc[t] = "wait" => uid_event_flag = pid

==============================================================================
