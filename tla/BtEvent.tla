------------------------------- MODULE BtEvent -------------------------------
(****************************************************************************)
(* module_kernel/src/bt_event.c: the thread that listens to the bluetooth   *)
(* subsystem, and the start and stop of the kernel module around it         *)
(* (module_kernel/src/main.c).                                              *)
(*                                                                          *)
(* The subsystem keeps a bounded queue for a registered callback and only   *)
(* notifies it; the callback runs on the thread, inside its delay, and      *)
(* reads the queue until it is empty.  An overflow of that queue is told by *)
(* the return code of a read.  The events a full queue loses are numbered   *)
(* like all others, so that a loss nobody is told of is visible.            *)
(*                                                                          *)
(* A read that fails is taken to leave the queue as it is.  A thread whose  *)
(* end could not be waited for may outlive the module's code, which is      *)
(* undefined: it goes on here.                                              *)
(****************************************************************************)
EXTENDS VqmbtEvents, Sequences

CONSTANTS
  BtEvents,   \* events the subsystem announces
  QueueSize,  \* events it keeps for a callback
  MaxEvents,  \* bound: events announced
  Faults      \* calls that may fail

Calls == {"create_flag", "create_thread", "start_thread", "create_callback",
          "register", "read", "unregister", "delete_callback", "wait_end",
          "delete_flag"}

ASSUME BtEventsAssumption == BtEvents \subseteq SceBtEvents
ASSUME QueueAssumption == QueueSize \in Nat \ {0} /\ MaxEvents \in Nat
ASSUME FaultsAssumption == Faults \subseteq Calls

Numbers == 1..MaxEvents
Numbered == [n : Numbers, e : BtEvents]

VARIABLES
  mpc,           \* where module_start and module_stop are
  event_flag_uid,  \* the event flag emitted events are signalled on exists
  uid_thread,    \* a uid is kept
  run_thread,
  tpc,           \* where the event thread is
  uid_callback,  \* a uid is kept
  \* The subsystem, as the callback sees it.
  registered,    \* it has the callback
  notified,      \* the callback is to run
  queue,         \* events kept for it
  lost,          \* some could not be kept and no read has told so
  cur,           \* local of event_callback: the event read
  \* History.
  announced,     \* events announced so far
  unserved,      \* those of consequence neither emitted nor covered by a later
                 \* DROPPED_EVENTS
  cut_short,     \* a failed read ended the callback's last run
  failed         \* calls that failed, reads excepted

modvars == <<mpc, event_flag_uid, uid_thread, run_thread>>
subvars == <<registered, notified, queue, lost>>
evvars == <<announced, unserved, cut_short>>
vars == <<modvars, tpc, uid_callback, subvars, cur, evvars, failed>>

NoCur == <<>>

Init ==
  /\ mpc = "unloaded" /\ event_flag_uid = FALSE
  /\ uid_thread = FALSE /\ run_thread = FALSE
  /\ tpc = "none" /\ uid_callback = FALSE
  /\ registered = FALSE /\ notified = FALSE /\ queue = <<>> /\ lost = FALSE
  /\ cur = NoCur
  /\ announced = 0 /\ unserved = {} /\ cut_short = FALSE /\ failed = {}

\* ok if the call succeeds; a failure is only logged.
Try(call, ok, otherwise) ==
  \/ ok /\ UNCHANGED failed
  \/ call \in Faults /\ failed' = failed \cup {call} /\ otherwise

------------------------------------------------------------------------------
(* module_start and module_stop.                                            *)

UmodCbStart ==
  /\ mpc = "unloaded"
  /\ Try("create_flag",
         mpc' = "flag_made" /\ event_flag_uid' = TRUE,
         mpc' = "stopped" /\ UNCHANGED event_flag_uid)
  /\ UNCHANGED <<uid_thread, run_thread, tpc, uid_callback, subvars, cur, evvars>>

\* bt_event_start up to ksceKernelCreateThread; without a thread module_start
\* takes the event flag back and fails.
CreateThread ==
  /\ mpc = "flag_made"
  /\ run_thread' = TRUE
  /\ Try("create_thread",
         mpc' = "start" /\ uid_thread' = TRUE /\ tpc' = "dormant",
         mpc' = "umod_stop" /\ UNCHANGED <<uid_thread, tpc>>)
  /\ UNCHANGED <<event_flag_uid, uid_callback, subvars, cur, evvars>>

StartThread ==
  /\ mpc = "start" /\ mpc' = "running"
  /\ Try("start_thread", tpc' = "create", UNCHANGED tpc)
  /\ UNCHANGED <<event_flag_uid, uid_thread, run_thread, uid_callback, subvars, cur,
                 evvars>>

\* Mutant: the thread is not told to stop.
TellThreadToStop_Forgotten ==
  /\ mpc = "running" /\ mpc' = "wait_end"
  /\ UNCHANGED <<event_flag_uid, uid_thread, run_thread, tpc, uid_callback, subvars,
                 cur, evvars, failed>>

\* bt_event_stop; a module that is running has a thread.
TellThreadToStop ==
  /\ mpc = "running" /\ mpc' = "wait_end"
  /\ run_thread' = FALSE
  /\ UNCHANGED <<event_flag_uid, uid_thread, tpc, uid_callback, subvars, cur,
                 evvars, failed>>

\* Mutant: nobody waits for the thread.
WaitThreadEnd_Skipped ==
  /\ mpc = "wait_end" /\ mpc' = "delete"
  /\ UNCHANGED <<event_flag_uid, uid_thread, run_thread, tpc, uid_callback, subvars,
                 cur, evvars, failed>>

\* A thread that was never started does not keep anybody waiting.
WaitThreadEnd ==
  /\ mpc = "wait_end" /\ mpc' = "delete"
  /\ tpc \in {"dormant", "dead"}
  /\ UNCHANGED <<event_flag_uid, uid_thread, run_thread, tpc, uid_callback, subvars,
                 cur, evvars, failed>>

\* A failure is only logged, and the thread left running.
WaitThreadEndFails ==
  /\ mpc = "wait_end" /\ mpc' = "delete"
  /\ "wait_end" \in Faults /\ failed' = failed \cup {"wait_end"}
  /\ UNCHANGED <<event_flag_uid, uid_thread, run_thread, tpc, uid_callback, subvars,
                 cur, evvars>>

Running == {"create", "register", "loop", "delay", "read", "handle", "dropped",
            "unregister", "delete_callback"}

\* Only a thread that does not run can be deleted; the uid is forgotten anyway,
\* so nothing depends on whether deleting succeeds.
DeleteThread ==
  /\ mpc = "delete" /\ mpc' = "umod_stop"
  /\ tpc' = IF tpc \in Running THEN tpc ELSE "deleted"
  /\ uid_thread' = FALSE
  /\ UNCHANGED <<event_flag_uid, run_thread, uid_callback, subvars, cur, evvars, failed>>

\* umod_cb_stop; the module's code is unloaded after it.
UmodCbStop ==
  /\ mpc = "umod_stop" /\ mpc' = "stopped"
  /\ Try("delete_flag", event_flag_uid' = FALSE, UNCHANGED event_flag_uid)
  /\ UNCHANGED <<uid_thread, run_thread, tpc, uid_callback, subvars, cur, evvars>>

------------------------------------------------------------------------------
(* event_thread.                                                            *)

Goto(from, to) == tpc = from /\ tpc' = to

CreateCallback ==
  /\ Goto("create", "register")
  /\ Try("create_callback", uid_callback' = TRUE, UNCHANGED uid_callback)
  /\ UNCHANGED <<modvars, subvars, cur, evvars>>

\* Without a callback there is nothing to register; the thread goes on.
RegisterCallback ==
  /\ Goto("register", "loop")
  /\ IF uid_callback
     THEN Try("register", registered' = TRUE, UNCHANGED registered)
     ELSE UNCHANGED <<registered, failed>>
  /\ UNCHANGED <<modvars, uid_callback, notified, queue, lost, cur, evvars>>

\* Mutant: a thread told to stop returns at once.
Loop_NoCleanup ==
  /\ Goto("loop", IF run_thread THEN "delay" ELSE "dead")
  /\ UNCHANGED <<modvars, uid_callback, subvars, cur, evvars, failed>>

Loop ==
  /\ Goto("loop", IF run_thread THEN "delay" ELSE "unregister")
  /\ UNCHANGED <<modvars, uid_callback, subvars, cur, evvars, failed>>

DelayEnds ==
  /\ Goto("delay", "loop")
  /\ ~notified
  /\ UNCHANGED <<modvars, uid_callback, subvars, cur, evvars, failed>>

\* Mutant: the thread waits with ksceKernelDelayThread, which runs no callback.
CallbackRuns_Never ==
  /\ Goto("delay", "loop")
  /\ notified
  /\ UNCHANGED <<modvars, uid_callback, subvars, cur, evvars, failed>>

\* ksceKernelDelayThreadCB runs event_callback.
CallbackRuns ==
  /\ Goto("delay", "read")
  /\ notified
  /\ notified' = FALSE /\ cut_short' = FALSE
  /\ UNCHANGED <<modvars, uid_callback, registered, queue, lost, cur, announced,
                 unserved, failed>>

Unregister ==
  /\ Goto("unregister", "delete_callback")
  /\ Try("unregister", registered' = FALSE, UNCHANGED registered)
  /\ UNCHANGED <<modvars, uid_callback, notified, queue, lost, cur, evvars>>

DeleteCallback ==
  /\ Goto("delete_callback", "dead")
  /\ uid_callback' = FALSE
  /\ Try("delete_callback", TRUE, TRUE)
  /\ UNCHANGED <<modvars, subvars, cur, evvars>>

------------------------------------------------------------------------------
(* event_callback.                                                          *)

\* Mutant: an overflow ends the loop like any other error.
ReadOverflow_Ends ==
  /\ Goto("read", "delay")
  /\ lost /\ lost' = FALSE
  /\ UNCHANGED <<modvars, uid_callback, registered, notified, queue, cur, evvars, failed>>

\* SCE_BT_ERROR_CB_OVERFLOW.
ReadOverflow ==
  /\ Goto("read", "dropped")
  /\ lost /\ lost' = FALSE
  /\ UNCHANGED <<modvars, uid_callback, registered, notified, queue, cur, evvars, failed>>

\* Any other error ends the callback, until it is notified of another event.
ReadFails ==
  /\ Goto("read", "delay")
  /\ "read" \in Faults /\ cut_short' = TRUE
  /\ UNCHANGED <<modvars, uid_callback, subvars, cur, announced, unserved, failed>>

ReadNothing ==
  /\ Goto("read", "delay")
  /\ queue = <<>> /\ ~lost
  /\ UNCHANGED <<modvars, uid_callback, subvars, cur, evvars, failed>>

ReadEvent ==
  /\ Goto("read", "handle")
  /\ queue # <<>>
  /\ cur' = Head(queue) /\ queue' = Tail(queue)
  /\ UNCHANGED <<modvars, uid_callback, registered, notified, lost, evvars, failed>>

\* handle_event, which emits an event of consequence.
HandleEvent ==
  /\ Goto("handle", "read")
  /\ unserved' = unserved \ {cur.n} /\ cur' = NoCur
  /\ UNCHANGED <<modvars, uid_callback, subvars, announced, cut_short, failed>>

Kept == {queue[i].n : i \in DOMAIN queue}

\* Mutant: no continue after an overflow, so that no event is handled as one.
HandleDropped_FallsThrough ==
  /\ Goto("dropped", "handle")
  /\ unserved' = unserved \cap Kept
  /\ UNCHANGED <<modvars, uid_callback, subvars, cur, announced, cut_short, failed>>

\* handle_event_dropped: DROPPED_EVENTS makes up for every event lost so far.
HandleDropped ==
  /\ Goto("dropped", "read")
  /\ unserved' = unserved \cap Kept
  /\ UNCHANGED <<modvars, uid_callback, subvars, cur, announced, cut_short, failed>>

------------------------------------------------------------------------------
\* The subsystem announces e.  Which event a full queue loses is not known.
Announce(e) ==
  LET numbered == [n |-> announced + 1, e |-> e] IN
  /\ registered /\ announced < MaxEvents
  /\ announced' = announced + 1
  /\ unserved' = IF bt_handle_event(e) = NoVqmbtEvent
                 THEN unserved
                 ELSE unserved \cup {announced + 1}
  /\ \/ e.id \in Masked /\ UNCHANGED <<notified, queue, lost>>
     \/ /\ e.id \notin Masked
        /\ notified' = TRUE
        /\ \/ /\ Len(queue) < QueueSize
              /\ queue' = Append(queue, numbered) /\ UNCHANGED lost
           \/ /\ Len(queue) >= QueueSize
              /\ queue' \in {queue, Append(Tail(queue), numbered)} /\ lost' = TRUE
  /\ UNCHANGED <<modvars, tpc, uid_callback, registered, cur, cut_short, failed>>

ThreadStep ==
  \/ CreateCallback \/ RegisterCallback \/ Loop \/ DelayEnds \/ CallbackRuns
  \/ ReadOverflow \/ ReadFails \/ ReadNothing \/ ReadEvent
  \/ HandleEvent \/ HandleDropped \/ Unregister \/ DeleteCallback

StopSteps == WaitThreadEnd \/ DeleteThread \/ UmodCbStop

Next ==
  \/ UmodCbStart \/ CreateThread \/ StartThread \/ TellThreadToStop \/ StopSteps
  \/ WaitThreadEndFails \/ ThreadStep
  \/ \E e \in BtEvents : Announce(e)

Spec == Init /\ [][Next]_vars

\* The thread runs, and a stop that has begun goes on without counting on a wait
\* that fails.  Nobody has to announce an event or stop the module.
FairSpec == Spec /\ WF_vars(ThreadStep) /\ WF_vars(StopSteps)

------------------------------------------------------------------------------
(* Properties.                                                              *)

\* Variables hold what the code can put there; the queue is never longer than
\* the subsystem keeps it.
TypeOK ==
  /\ mpc \in {"unloaded", "flag_made", "start", "running", "wait_end", "delete",
              "umod_stop", "stopped"}
  /\ event_flag_uid \in BOOLEAN /\ uid_thread \in BOOLEAN /\ run_thread \in BOOLEAN
  /\ tpc \in Running \cup {"none", "dormant", "dead", "deleted"}
  /\ uid_callback \in BOOLEAN
  /\ registered \in BOOLEAN /\ notified \in BOOLEAN /\ lost \in BOOLEAN
  /\ queue \in Seq(Numbered) /\ Len(queue) <= QueueSize
  /\ cur \in Numbered \cup {NoCur} /\ (tpc = "handle" => cur \in Numbered)
  /\ announced \in 0..MaxEvents /\ unserved \subseteq Numbers
  /\ cut_short \in BOOLEAN /\ failed \subseteq Calls

\* Whenever the callback has nothing to do, every event of consequence since it
\* was registered has been passed on, or a DROPPED_EVENTS was emitted after it
\* was lost: the mask leaves out no event the handler knows, an overflow does
\* not end the loop, and an event that comes while the callback runs is read.
\* A failed read only postpones: the next run that ends normally has made up.
NothingLostSilently ==
  tpc \in {"loop", "delay"} /\ ~notified => unserved = {} \/ cut_short

\* Every event of consequence is eventually passed on, or its loss is, unless
\* the module is stopped or a failed read ends the callback.
AllServed ==
  \A n \in Numbers :
    n \in unserved ~> n \notin unserved \/ mpc # "running" \/ cut_short

\* Events are only emitted while the event flag exists: module_start makes it
\* before the thread, module_stop ends the thread before it deletes the flag.
\* It gives up on a thread whose end it could not wait for.
EmitsWhileFlagExists ==
  tpc \in {"handle", "dropped"} => event_flag_uid \/ "wait_end" \in failed

\* When the module's code is unloaded no thread is in it, the subsystem has no
\* callback into it and the event flag is gone, unless the call that waits for
\* the thread or takes the callback or the flag back failed.
LeavesNothingBehind ==
  mpc = "stopped" =>
    /\ tpc \in Running => "wait_end" \in failed
    /\ registered => "unregister" \in failed \/ tpc \in Running
    /\ event_flag_uid => "delete_flag" \in failed

\* Stopping the module returns, once events stop coming in.
StopReturns == mpc = "wait_end" ~> mpc = "stopped"

==============================================================================
