---------------------------- MODULE BtEventProofs -----------------------------
(* Theorems about BtEvent, for any events, any size of the subsystem's queue *)
(* and any set of calls that may fail.                                       *)
EXTENDS BtEvent, TLAPS

USE QueueAssumption, FaultsAssumption

ModStep ==
  \/ UmodCbStart \/ CreateThread \/ StartThread \/ TellThreadToStop \/ StopSteps
  \/ WaitThreadEndFails

\* The steps of the thread that touch neither the queue nor what was lost.
PlainStep ==
  CreateCallback \/ RegisterCallback \/ Loop \/ DelayEnds \/ Unregister \/ DeleteCallback

CallbackStep ==
  \/ CallbackRuns \/ ReadOverflow \/ ReadFails \/ ReadNothing \/ ReadEvent
  \/ HandleEvent \/ HandleDropped

LEMMA NextCases ==
  ASSUME [Next]_vars
  PROVE  \/ ModStep \/ PlainStep \/ CallbackStep
         \/ \E e \in BtEvents : Announce(e)
         \/ UNCHANGED vars
BY DEF Next, ThreadStep, ModStep, PlainStep, CallbackStep

------------------------------------------------------------------------------
(* Types.                                                                   *)

LEMMA TypeInit == Init => TypeOK
<1> SUFFICES ASSUME Init
             PROVE  TypeOK
  OBVIOUS
<1>1. queue \in Seq(Numbered) /\ Len(queue) <= QueueSize
  BY DEF Init
<1>2. announced \in 0..MaxEvents /\ unserved \subseteq Numbers /\ failed \subseteq Calls
  BY DEF Init
<1> QED
  BY <1>1, <1>2 DEF Init, TypeOK, Running

LEMMA TypeNext == TypeOK /\ [Next]_vars => TypeOK'
<1> SUFFICES ASSUME TypeOK, [Next]_vars
             PROVE  TypeOK'
  OBVIOUS
<1> USE DEF TypeOK, Running, Calls
<1>1. CASE ModStep
  <2>1. failed' \subseteq Calls
    BY <1>1 DEF ModStep, UmodCbStart, CreateThread, StartThread, TellThreadToStop,
         StopSteps, WaitThreadEnd, WaitThreadEndFails, DeleteThread, UmodCbStop, Try
  <2>2. mpc' \in {"unloaded", "flag_made", "start", "running", "wait_end", "delete",
                  "umod_stop", "stopped"}
    BY <1>1 DEF ModStep, UmodCbStart, CreateThread, StartThread, TellThreadToStop,
         StopSteps, WaitThreadEnd, WaitThreadEndFails, DeleteThread, UmodCbStop, Try
  <2>3. event_flag_uid' \in BOOLEAN /\ uid_thread' \in BOOLEAN /\ run_thread' \in BOOLEAN
    BY <1>1 DEF ModStep, UmodCbStart, CreateThread, StartThread, TellThreadToStop,
         StopSteps, WaitThreadEnd, WaitThreadEndFails, DeleteThread, UmodCbStop, Try
  <2>4. /\ tpc' \in Running \cup {"none", "dormant", "dead", "deleted"}
        /\ tpc' = "handle" => tpc = "handle"
    BY <1>1 DEF ModStep, UmodCbStart, CreateThread, StartThread, TellThreadToStop,
         StopSteps, WaitThreadEnd, WaitThreadEndFails, DeleteThread, UmodCbStop, Try
  <2>5. UNCHANGED <<uid_callback, subvars, cur, evvars>>
    BY <1>1 DEF ModStep, UmodCbStart, CreateThread, StartThread, TellThreadToStop,
         StopSteps, WaitThreadEnd, WaitThreadEndFails, DeleteThread, UmodCbStop
  <2> QED
    BY <2>1, <2>2, <2>3, <2>4, <2>5 DEF subvars, evvars
<1>2. CASE PlainStep
  <2>1. failed' \subseteq Calls
    BY <1>2 DEF PlainStep, CreateCallback, RegisterCallback, Loop, DelayEnds,
         Unregister, DeleteCallback, Try
  <2>2. uid_callback' \in BOOLEAN /\ registered' \in BOOLEAN
    BY <1>2 DEF PlainStep, CreateCallback, RegisterCallback, Loop, DelayEnds,
         Unregister, DeleteCallback, Try, subvars
  <2>3. tpc' \in Running \cup {"dead"} /\ tpc' # "handle"
    BY <1>2 DEF PlainStep, CreateCallback, RegisterCallback, Loop, DelayEnds,
         Unregister, DeleteCallback, Goto
  <2>4. UNCHANGED <<modvars, notified, queue, lost, cur, evvars>>
    BY <1>2 DEF PlainStep, CreateCallback, RegisterCallback, Loop, DelayEnds,
         Unregister, DeleteCallback, subvars
  <2> QED
    BY <2>1, <2>2, <2>3, <2>4 DEF modvars, evvars
<1>3. CASE CallbackStep
  <2>1. CASE ReadEvent
    <3>1. Head(queue) \in Numbered /\ Tail(queue) \in Seq(Numbered)
          /\ Len(Tail(queue)) = Len(queue) - 1
      BY <2>1 DEF ReadEvent
    <3>2. queue' \in Seq(Numbered) /\ Len(queue') <= QueueSize /\ cur' \in Numbered
      BY <2>1, <3>1 DEF ReadEvent
    <3> QED
      BY <2>1, <3>2 DEF ReadEvent, Goto, modvars, evvars
  <2>2. CASE ReadFails
    BY <2>2 DEF ReadFails, Goto, modvars, subvars
  <2>3. CASE HandleEvent \/ HandleDropped
    <3>1. unserved' \subseteq unserved
      BY <2>3 DEF HandleEvent, HandleDropped
    <3>2. cur' \in {cur, NoCur} /\ tpc' = "read"
      BY <2>3 DEF HandleEvent, HandleDropped, Goto
    <3> HIDE DEF NoCur
    <3>3. UNCHANGED <<modvars, uid_callback, subvars, announced, cut_short, failed>>
      BY <2>3 DEF HandleEvent, HandleDropped
    <3> QED
      BY <3>1, <3>2, <3>3 DEF modvars, subvars
  <2>4. CASE CallbackRuns \/ ReadOverflow \/ ReadNothing
    <3>1. /\ notified' \in BOOLEAN /\ lost' \in BOOLEAN /\ cut_short' \in BOOLEAN
          /\ tpc' \in {"read", "dropped", "delay"}
      BY <2>4 DEF CallbackRuns, ReadOverflow, ReadNothing, Goto, subvars, evvars
    <3>2. UNCHANGED <<modvars, uid_callback, registered, queue, cur, announced,
                      unserved, failed>>
      BY <2>4 DEF CallbackRuns, ReadOverflow, ReadNothing, subvars, evvars
    <3> QED
      BY <3>1, <3>2 DEF modvars
  <2> QED
    BY <1>3, <2>1, <2>2, <2>3, <2>4 DEF CallbackStep
<1>4. ASSUME NEW e \in BtEvents, Announce(e)
      PROVE  TypeOK'
  <2> DEFINE new == [n |-> announced + 1, e |-> e]
  <2>1. announced + 1 \in Numbers /\ new \in Numbered
    BY <1>4 DEF Announce, Numbers, Numbered
  <2>2. announced' \in 0..MaxEvents /\ unserved' \subseteq Numbers
    BY <1>4, <2>1 DEF Announce, Numbers
  <2>3. queue' \in Seq(Numbered) /\ Len(queue') <= QueueSize
    <3>1. CASE queue' = queue
      BY <3>1
    <3>2. CASE queue' = Append(queue, new) /\ Len(queue) < QueueSize
      BY <2>1, <3>2
    <3>3. CASE queue' = Append(Tail(queue), new) /\ Len(queue) >= QueueSize
      <4>1. queue # <<>>
        BY <3>3
      <4>2. Tail(queue) \in Seq(Numbered) /\ Len(Tail(queue)) = Len(queue) - 1
        BY <4>1
      <4> QED
        BY <2>1, <3>3, <4>2
    <3> QED
      BY <1>4, <3>1, <3>2, <3>3 DEF Announce
  <2>4. notified' \in BOOLEAN /\ lost' \in BOOLEAN
    BY <1>4 DEF Announce
  <2>5. /\ UNCHANGED <<modvars, tpc, uid_callback, registered, cur, failed>>
        /\ cut_short' \in BOOLEAN
    BY <1>4 DEF Announce
  <2>6. cur' \in Numbered \cup {NoCur} /\ (tpc' = "handle" => cur' \in Numbered)
    BY <2>5
  <2> QED
    BY <2>2, <2>3, <2>4, <2>5, <2>6 DEF modvars
<1>5. CASE UNCHANGED vars
  BY <1>5 DEF vars, modvars, subvars, evvars
<1> QED
  BY <1>1, <1>2, <1>3, <1>4, <1>5, NextCases

\* Variables keep their types and the queue its bound.
THEOREM TypeCorrect == Spec => []TypeOK
<1> QED
  BY TypeInit, TypeNext, PTL DEF Spec

------------------------------------------------------------------------------
(* Life of the thread, its callback and the event flag.                     *)

\* A thread past the wait for its end that still runs, or that ended since.
LeftBehind == tpc \in Running \cup {"dead"} /\ "wait_end" \in failed

\* How far module_start and module_stop are decides what the thread can be, and
\* whether the event flag exists.
LifeInv ==
  /\ mpc \in {"unloaded", "flag_made"} => tpc = "none"
  /\ mpc = "start" => tpc = "dormant"
  /\ mpc \in {"running", "wait_end"} => tpc \in Running \cup {"dormant", "dead"}
  /\ mpc = "delete" => tpc \in {"dormant", "dead"} \/ LeftBehind
  /\ mpc \in {"umod_stop", "stopped"} => tpc \in {"none", "deleted"} \/ LeftBehind
  /\ mpc \in {"flag_made", "start", "running", "wait_end", "delete", "umod_stop"} =>
       event_flag_uid
  /\ mpc = "unloaded" => ~event_flag_uid
  /\ mpc = "stopped" /\ event_flag_uid => "delete_flag" \in failed

\* A callback is registered from its registration to the end of the thread, or
\* unregistering it failed.
RegisteredInv ==
  registered =>
    \/ tpc \in {"loop", "delay", "read", "handle", "dropped", "unregister"}
    \/ "unregister" \in failed

LEMMA FailedGrows ==
  ASSUME [Next]_vars
  PROVE  failed \subseteq failed'
<1>1. CASE ModStep
  BY <1>1 DEF ModStep, UmodCbStart, CreateThread, StartThread, TellThreadToStop,
       StopSteps, WaitThreadEnd, WaitThreadEndFails, DeleteThread, UmodCbStop, Try
<1>2. CASE PlainStep
  BY <1>2 DEF PlainStep, CreateCallback, RegisterCallback, Loop, DelayEnds,
       Unregister, DeleteCallback, Try
<1>3. CASE CallbackStep
  BY <1>3 DEF CallbackStep, CallbackRuns, ReadOverflow, ReadFails, ReadNothing,
       ReadEvent, HandleEvent, HandleDropped
<1>4. ASSUME NEW e \in BtEvents, Announce(e)
      PROVE  failed \subseteq failed'
  BY <1>4 DEF Announce
<1> QED
  BY <1>1, <1>2, <1>3, <1>4, NextCases DEF vars

\* What a step of the thread does to mpc, tpc and the flag.
LEMMA ThreadMoves ==
  ASSUME PlainStep \/ CallbackStep
  PROVE  /\ tpc \in Running /\ tpc' \in Running \cup {"dead"}
         /\ UNCHANGED <<mpc, event_flag_uid>>
<1>1. CASE PlainStep
  BY <1>1 DEF PlainStep, CreateCallback, RegisterCallback, Loop, DelayEnds,
       Unregister, DeleteCallback, Goto, Running, modvars
<1>2. CASE CallbackStep
  BY <1>2 DEF CallbackStep, CallbackRuns, ReadOverflow, ReadFails, ReadNothing,
       ReadEvent, HandleEvent, HandleDropped, Goto, Running, modvars
<1> QED
  BY <1>1, <1>2

LEMMA LifeNext == TypeOK /\ LifeInv /\ [Next]_vars => LifeInv'
<1> SUFFICES ASSUME TypeOK, LifeInv, [Next]_vars
             PROVE  LifeInv'
  OBVIOUS
<1> USE DEF LifeInv, LeftBehind
<1>1. CASE ModStep
  <2>1. CASE UmodCbStart
    BY <2>1 DEF UmodCbStart, Try
  <2>2. CASE CreateThread
    BY <2>2 DEF CreateThread, Try
  <2>3. CASE StartThread
    <3>1. tpc' \in Running \cup {"dormant"}
      BY <2>3 DEF StartThread, Try, Running
    <3> QED
      BY <2>3, <3>1 DEF StartThread
  <2>4. CASE TellThreadToStop \/ WaitThreadEnd
    BY <2>4 DEF TellThreadToStop, WaitThreadEnd, Running
  <2>5. CASE DeleteThread
    BY <2>5 DEF DeleteThread, Running
  <2>6. CASE UmodCbStop
    BY <2>6 DEF UmodCbStop, Try
  <2>7. CASE WaitThreadEndFails
    BY <2>7 DEF WaitThreadEndFails
  <2> QED
    BY <1>1, <2>1, <2>2, <2>3, <2>4, <2>5, <2>6, <2>7 DEF ModStep, StopSteps
<1>2. CASE PlainStep \/ CallbackStep
  <2>1. tpc \in Running /\ tpc' \in Running \cup {"dead"}
    BY <1>2, ThreadMoves
  <2>2. \/ mpc \in {"running", "wait_end"}
        \/ mpc \in {"delete", "umod_stop", "stopped"} /\ "wait_end" \in failed
    BY <2>1 DEF TypeOK, Running
  <2>3. UNCHANGED <<mpc, event_flag_uid>> /\ failed \subseteq failed'
    BY <1>2, ThreadMoves, FailedGrows
  <2> QED
    BY <2>1, <2>2, <2>3
<1>3. ASSUME NEW e \in BtEvents, Announce(e)
      PROVE  LifeInv'
  BY <1>3 DEF Announce, modvars
<1>4. CASE UNCHANGED vars
  BY <1>4 DEF vars, modvars
<1> QED
  BY <1>1, <1>2, <1>3, <1>4, NextCases

\* module_start and module_stop move the thread only while it does not run.
LEMMA ModMoves ==
  ASSUME LifeInv, ModStep
  PROVE  /\ \/ tpc' = tpc
            \/ tpc \in {"none", "dormant", "dead"} /\ tpc' \in {"dormant", "create", "deleted"}
         /\ UNCHANGED <<subvars, cur, evvars>>
<1>1. UNCHANGED <<subvars, cur, evvars>>
  BY DEF ModStep, UmodCbStart, CreateThread, StartThread, TellThreadToStop,
       StopSteps, WaitThreadEnd, WaitThreadEndFails, DeleteThread, UmodCbStop
<1>2. CASE CreateThread
  BY <1>2 DEF CreateThread, LifeInv, Try
<1>3. CASE StartThread
  BY <1>3 DEF StartThread, LifeInv, Try
<1>4. CASE DeleteThread
  BY <1>4 DEF DeleteThread, LifeInv, LeftBehind
<1>5. CASE \/ UmodCbStart \/ TellThreadToStop \/ WaitThreadEnd
           \/ WaitThreadEndFails \/ UmodCbStop
  BY <1>5 DEF UmodCbStart, TellThreadToStop, WaitThreadEnd, WaitThreadEndFails,
       UmodCbStop
<1> QED
  BY <1>1, <1>2, <1>3, <1>4, <1>5 DEF ModStep, StopSteps

LEMMA RegisteredNext ==
  TypeOK /\ LifeInv /\ RegisteredInv /\ [Next]_vars => RegisteredInv'
<1> SUFFICES ASSUME TypeOK, LifeInv, RegisteredInv, [Next]_vars
             PROVE  RegisteredInv'
  OBVIOUS
<1> USE DEF RegisteredInv
<1>1. CASE ModStep
  <2>1. /\ registered' = registered
        /\ tpc' = tpc \/ tpc \in {"none", "dormant", "dead"}
    BY <1>1, ModMoves DEF subvars
  <2> QED
    BY <2>1, FailedGrows
<1>2. CASE PlainStep
  BY <1>2, FailedGrows DEF PlainStep, CreateCallback, RegisterCallback, Loop,
       DelayEnds, Unregister, DeleteCallback, Goto, Try, subvars
<1>3. CASE CallbackStep
  BY <1>3, FailedGrows DEF CallbackStep, CallbackRuns, ReadOverflow, ReadFails,
       ReadNothing, ReadEvent, HandleEvent, HandleDropped, Goto, subvars
<1>4. ASSUME NEW e \in BtEvents, Announce(e)
      PROVE  RegisteredInv'
  BY <1>4 DEF Announce
<1>5. CASE UNCHANGED vars
  BY <1>5 DEF vars, subvars
<1> QED
  BY <1>1, <1>2, <1>3, <1>4, <1>5, NextCases

------------------------------------------------------------------------------
(* What becomes of an event.                                                *)

CurNumbers == IF tpc = "handle" THEN {cur.n} ELSE {}

\* An event not served is still in the queue, or being handled, unless a loss is
\* still to be told.
AccountedInv == ~lost /\ tpc # "dropped" => unserved \subseteq Kept \cup CurNumbers

\* While something is left to read the callback runs or is about to.
NotifiedInv ==
  queue # <<>> \/ lost =>
    notified \/ tpc \in {"read", "handle", "dropped"} \/ cut_short

\* The mask leaves out only events the handler ignores.
LEMMA MaskedAreIgnored ==
  ASSUME NEW e, e.id \in Masked
  PROVE  bt_handle_event(e) = NoVqmbtEvent
BY DEF Masked, bt_handle_event

LEMMA KeptOfTail ==
  ASSUME queue \in Seq(Numbered), queue # <<>>, queue' = Tail(queue)
  PROVE  Kept \subseteq Kept' \cup {Head(queue).n}
<1>1. SUFFICES ASSUME NEW i \in DOMAIN queue, i # 1
               PROVE  queue[i].n \in Kept'
  BY DEF Kept
<1>2. i - 1 \in DOMAIN queue' /\ queue'[i - 1] = queue[i]
  BY <1>1
<1> QED
  BY <1>2 DEF Kept

LEMMA KeptOfAppend ==
  ASSUME queue \in Seq(Numbered), NEW x \in Numbered, queue' = Append(queue, x)
  PROVE  Kept \cup {x.n} \subseteq Kept'
<1>1. \A i \in DOMAIN queue : i \in DOMAIN queue' /\ queue'[i] = queue[i]
  OBVIOUS
<1>2. Len(queue) + 1 \in DOMAIN queue' /\ queue'[Len(queue) + 1] = x
  OBVIOUS
<1> QED
  BY <1>1, <1>2 DEF Kept

LEMMA AccountedNext == TypeOK /\ LifeInv /\ AccountedInv /\ [Next]_vars => AccountedInv'
<1> SUFFICES ASSUME TypeOK, LifeInv, AccountedInv, [Next]_vars, ~lost', tpc' # "dropped"
             PROVE  unserved' \subseteq Kept' \cup CurNumbers'
  BY DEF AccountedInv
<1> USE DEF AccountedInv, CurNumbers
<1>1. CASE ModStep
  <2>1. /\ UNCHANGED <<queue, lost, cur, unserved>>
        /\ tpc = "handle" <=> tpc' = "handle"
        /\ tpc = "dropped" <=> tpc' = "dropped"
    BY <1>1, ModMoves DEF subvars, evvars
  <2> QED
    BY <2>1 DEF Kept
<1>2. CASE PlainStep
  <2>1. /\ UNCHANGED <<queue, lost, cur, unserved>>
        /\ tpc \notin {"handle", "dropped"} /\ tpc' \notin {"handle", "dropped"}
    BY <1>2 DEF PlainStep, CreateCallback, RegisterCallback, Loop, DelayEnds,
         Unregister, DeleteCallback, Goto, subvars, evvars
  <2> QED
    BY <2>1 DEF Kept
<1>3. CASE CallbackRuns \/ ReadFails \/ ReadNothing
  <2>1. /\ UNCHANGED <<queue, lost, cur, unserved>>
        /\ tpc \notin {"handle", "dropped"} /\ tpc' \notin {"handle", "dropped"}
    BY <1>3 DEF CallbackRuns, ReadFails, ReadNothing, Goto, subvars, evvars
  <2> QED
    BY <2>1 DEF Kept
<1>4. CASE ReadOverflow
  BY <1>4 DEF ReadOverflow, Goto
<1>5. CASE ReadEvent
  <2>1. unserved \subseteq Kept
    BY <1>5 DEF ReadEvent, Goto
  <2>2. Kept \subseteq Kept' \cup {Head(queue).n}
    BY <1>5, KeptOfTail DEF ReadEvent, TypeOK
  <2> QED
    BY <1>5, <2>1, <2>2 DEF ReadEvent, Goto, evvars
<1>6. CASE HandleEvent
  BY <1>6 DEF HandleEvent, Goto, subvars, Kept
<1>7. CASE HandleDropped
  BY <1>7 DEF HandleDropped, Goto, subvars, Kept
<1>8. ASSUME NEW e \in BtEvents, Announce(e)
      PROVE  unserved' \subseteq Kept' \cup CurNumbers'
  <2>1. ~lost /\ tpc # "dropped" /\ UNCHANGED <<tpc, cur>>
    BY <1>8 DEF Announce
  <2>2. CASE e.id \in Masked
    <3>1. unserved' = unserved /\ queue' = queue
      BY <1>8, <2>2, MaskedAreIgnored DEF Announce
    <3> QED
      BY <2>1, <3>1 DEF Kept
  <2>3. CASE e.id \notin Masked
    <3> DEFINE new == [n |-> announced + 1, e |-> e]
    <3>1. queue' = Append(queue, new)
      BY <1>8, <2>1, <2>3 DEF Announce
    <3>2. new \in Numbered
      BY <1>8 DEF Announce, Numbered, Numbers, TypeOK
    <3>3. Kept \cup {announced + 1} \subseteq Kept'
      BY <3>1, <3>2, KeptOfAppend DEF TypeOK
    <3>4. unserved' \subseteq unserved \cup {announced + 1}
      BY <1>8 DEF Announce
    <3> QED
      BY <2>1, <3>3, <3>4
  <2> QED
    BY <2>2, <2>3
<1>9. CASE UNCHANGED vars
  BY <1>9 DEF vars, subvars, evvars, Kept
<1> QED
  BY <1>1, <1>2, <1>3, <1>4, <1>5, <1>6, <1>7, <1>8, <1>9, NextCases DEF CallbackStep

LEMMA NotifiedNext == TypeOK /\ LifeInv /\ NotifiedInv /\ [Next]_vars => NotifiedInv'
<1> SUFFICES ASSUME TypeOK, LifeInv, NotifiedInv, [Next]_vars
             PROVE  NotifiedInv'
  OBVIOUS
<1> USE DEF NotifiedInv
<1>1. CASE ModStep
  <2>1. /\ UNCHANGED <<queue, lost, notified, cut_short>>
        /\ tpc \in {"read", "handle", "dropped"} => tpc' = tpc
    BY <1>1, ModMoves DEF subvars, evvars
  <2> QED
    BY <2>1
<1>2. CASE PlainStep
  <2>1. /\ UNCHANGED <<queue, lost, notified, cut_short>>
        /\ tpc \notin {"read", "handle", "dropped"}
    BY <1>2 DEF PlainStep, CreateCallback, RegisterCallback, Loop, DelayEnds,
         Unregister, DeleteCallback, Goto, subvars, evvars
  <2> QED
    BY <2>1
<1>3. CASE CallbackStep
  BY <1>3 DEF CallbackStep, CallbackRuns, ReadOverflow, ReadFails,
       ReadNothing, ReadEvent, HandleEvent, HandleDropped, Goto, subvars, evvars
<1>4. ASSUME NEW e \in BtEvents, Announce(e)
      PROVE  NotifiedInv'
  BY <1>4 DEF Announce
<1>5. CASE UNCHANGED vars
  BY <1>5 DEF vars, subvars, evvars
<1> QED
  BY <1>1, <1>2, <1>3, <1>4, <1>5, NextCases

------------------------------------------------------------------------------
(* Theorems.                                                                *)

IInv == TypeOK /\ LifeInv /\ RegisteredInv /\ AccountedInv /\ NotifiedInv

LEMMA InvInit == Init => IInv
BY TypeInit DEF Init, IInv, LifeInv, RegisteredInv, AccountedInv, NotifiedInv

LEMMA InvNext == IInv /\ [Next]_vars => IInv'
BY TypeNext, LifeNext, RegisteredNext, AccountedNext, NotifiedNext DEF IInv

LEMMA InvAlways == Spec => []IInv
BY InvInit, InvNext, PTL DEF Spec

\* Events are only emitted while the event flag exists, as long as the end of
\* the thread could be waited for.
THEOREM EmitsSafely == Spec => []EmitsWhileFlagExists
<1>1. IInv => EmitsWhileFlagExists
  BY DEF IInv, TypeOK, LifeInv, LeftBehind, EmitsWhileFlagExists
<1> QED
  BY <1>1, InvAlways, PTL

\* An unloaded module leaves no thread, callback or flag, unless the very call
\* that waits for it or takes it back failed.
THEOREM UnloadsCleanly == Spec => []LeavesNothingBehind
<1>1. IInv => LeavesNothingBehind
  BY DEF IInv, LifeInv, LeftBehind, RegisteredInv, Running, LeavesNothingBehind
<1> QED
  BY <1>1, InvAlways, PTL

\* No event of consequence is lost without a DROPPED_EVENTS after it, and what a
\* failed read leaves behind the next run of the callback makes up for.
THEOREM LossesAreTold == Spec => []NothingLostSilently
<1>1. IInv => NothingLostSilently
  <2> SUFFICES ASSUME IInv, tpc \in {"loop", "delay"}, ~notified, ~cut_short
               PROVE  unserved = {}
    BY DEF NothingLostSilently
  <2>1. queue = <<>> /\ ~lost
    BY DEF IInv, NotifiedInv
  <2>2. Kept = {}
    BY <2>1 DEF Kept
  <2> QED
    BY <2>1, <2>2 DEF IInv, AccountedInv, CurNumbers
<1> QED
  BY <1>1, InvAlways, PTL

==============================================================================
