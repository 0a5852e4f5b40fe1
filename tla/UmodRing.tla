------------------------------- MODULE UmodRing ------------------------------
(****************************************************************************)
(* module_kernel/src/umod_callback.c: the ring buffer of events between the *)
(* kernel's bluetooth callback, which writes it, and the event thread of    *)
(* module_user/src/kmod_event.c, which reads it through a system call.      *)
(*                                                                          *)
(* There is no lock.  The writer never waits: it may overwrite a slot that  *)
(* is being read, and the reader finds out by comparing two free running    *)
(* indices, before and after the copy.  The words of an event are stored    *)
(* and loaded one by one, in any order.                                     *)
(*                                                                          *)
(* Event number n carries n in every word; 0 is a word never written.       *)
(****************************************************************************)
EXTENDS Naturals

CONSTANTS
  Size,          \* RING_BUFFER_SIZE
  IdxMod,        \* number of values of an index, 2^32
  Words,         \* words of a VqmbtEvent
  LoadsMaySink,  \* plain loads may be performed after the acquire load that
                 \* follows them in program order (C11 and the ARM allow it)
  MaxEvents,     \* bound: events emitted
  MaxLag         \* bound: events waiting, below one turn of the indices

ASSUME SizeAssumption == Size \in Nat \ {0}
ASSUME IdxModAssumption == IdxMod \in Nat \ {0} /\ IdxMod % Size = 0
ASSUME WordsAssumption == Words # {}
ASSUME SinkAssumption == LoadsMaySink \in BOOLEAN
ASSUME BoundsAssumption == MaxEvents \in Nat /\ MaxLag \in Size..(IdxMod - 1)

SlotNos == 0..(Size - 1)

\* Return values of kvqmbt_read_event: 0 for a flush or without an event, 1,
\* VQMBT_ERROR_CB_OVERFLOW and VQMBT_ERROR_KERNEL_SIDE.
Results == {"FLUSHED", "EMPTY", "EVENT", "OVERFLOW", "FAULT"}

Event == [Words -> 0..MaxEvents]
NoEvent == [w \in Words |-> 0]

VARIABLES
  ring,       \* ring_buffer
  write_idx,  \* ring_buffer_write_idx
  read_idx,   \* ring_buffer_read_idx
  flag,       \* the event flag's bit, as sceKernelWaitEventFlag sees it
  ppc,        \* writer: "store" into a slot, or "signal" the flag
  stored,     \* writer: words of the current event stored so far
  pc,         \* reader
  copy,       \* reader: event_from_buffer
  loaded,     \* reader: words loaded so far
  event,      \* reader: the event handed to user space last
  result,     \* reader: what kvqmbt_read_event returned last
  signalled,  \* history: the last attempt to set the flag succeeded
  W,          \* history: events emitted
  R           \* history: events the reader is past

producer == <<ring, write_idx, ppc, stored, signalled, W>>
consumer == <<read_idx, pc, copy, loaded, event, result, R>>
vars == <<producer, consumer, flag>>

Init ==
  /\ ring = [s \in SlotNos |-> NoEvent]
  /\ write_idx = 0 /\ read_idx = 0
  /\ flag = FALSE
  /\ ppc = "store" /\ stored = {}
  /\ pc = "off"
  /\ copy = NoEvent /\ loaded = {} /\ event = NoEvent
  /\ result = "EMPTY"
  /\ signalled = TRUE
  /\ W = 0 /\ R = 0

------------------------------------------------------------------------------
(* umod_cb_emit_event.                                                      *)

StoreWord(w) ==
  /\ ppc = "store"
  /\ W < MaxEvents /\ W - R < MaxLag
  /\ w \notin stored
  /\ stored' = stored \cup {w}
  /\ ring' = [ring EXCEPT ![write_idx % Size][w] = W + 1]
  /\ UNCHANGED <<write_idx, ppc, signalled, W, consumer, flag>>

\* Mutant: the index is compared with an unwrapped one.
Publish_Unwrapped ==
  /\ ppc = "store" /\ stored = Words
  /\ write_idx' = write_idx + 1
  /\ W' = W + 1
  /\ stored' = {}
  /\ ppc' = "signal"
  /\ UNCHANGED <<ring, signalled, consumer, flag>>

Publish ==
  /\ ppc = "store" /\ stored = Words
  /\ write_idx' = (write_idx + 1) % IdxMod
  /\ W' = W + 1
  /\ stored' = {}
  /\ ppc' = "signal"
  /\ UNCHANGED <<ring, signalled, consumer, flag>>

\* Mutant: the signal only reaches a reader that is already waiting.
SetFlag_NotLatched ==
  /\ ppc = "signal"
  /\ ppc' = "store"
  /\ flag' = (pc = "wait") /\ signalled' = TRUE
  /\ UNCHANGED <<ring, write_idx, stored, W, consumer>>

\* ksceKernelSetEventFlag; a failure is only logged.
SetFlag ==
  /\ ppc = "signal"
  /\ ppc' = "store"
  /\ \/ flag' = TRUE /\ signalled' = TRUE
     \/ flag' = flag /\ signalled' = FALSE
  /\ UNCHANGED <<ring, write_idx, stored, W, consumer>>

------------------------------------------------------------------------------
(* kvqmbt_read_event.  Only the reader writes read_idx and nobody else reads *)
(* it, so what happens between two accesses of write_idx or of the ring is   *)
(* one step.                                                                 *)

\* write_idx - read_idx in unsigned arithmetic.
Delta == (write_idx + IdxMod - read_idx) % IdxMod

JumpToWriter ==
  /\ read_idx' = write_idx
  /\ R' = W

\* num_events = 0.
FlushTo(from, to) ==
  /\ pc = from /\ pc' = to
  /\ JumpToWriter
  /\ result' = "FLUSHED"
  /\ UNCHANGED <<producer, copy, loaded, event, flag>>

ReadNothing ==
  /\ pc = "fetch" /\ pc' = "top"
  /\ read_idx = write_idx
  /\ result' = "EMPTY"
  /\ UNCHANGED <<producer, read_idx, copy, loaded, event, R, flag>>

\* Mutant: a full buffer is taken for an overrun one.
Overrun_WhenFull(n) == n >= Size

Overrun(n) == n > Size

\* Either check finds an overrun: VQMBT_ERROR_CB_OVERFLOW.
ReadOverrun ==
  /\ pc \in {"fetch", "copy"} /\ pc' = "reset"
  /\ pc = "copy" => loaded = Words \/ LoadsMaySink
  /\ Overrun(Delta)
  /\ JumpToWriter
  /\ result' = "OVERFLOW"
  /\ loaded' = {}
  /\ UNCHANGED <<producer, copy, event, flag>>

ReadBegin ==
  /\ pc = "fetch" /\ pc' = "copy"
  /\ read_idx # write_idx /\ ~Overrun(Delta)
  /\ loaded' = {}
  /\ UNCHANGED <<producer, read_idx, copy, event, result, R, flag>>

LoadWord(w) ==
  /\ pc \in {"copy", "commit"}
  /\ w \notin loaded
  /\ loaded' = loaded \cup {w}
  /\ copy' = [copy EXCEPT ![w] = ring[read_idx % Size][w]]
  /\ UNCHANGED <<producer, read_idx, pc, event, result, R, flag>>

\* Mutant: the buffer is not checked again.
Recheck_Skipped ==
  /\ pc = "copy" /\ pc' = "commit"
  /\ loaded = Words \/ LoadsMaySink
  /\ UNCHANGED <<producer, read_idx, copy, loaded, event, result, R, flag>>

\* The second check.
Recheck ==
  /\ pc = "copy" /\ pc' = "commit"
  /\ loaded = Words \/ LoadsMaySink
  /\ ~Overrun(Delta)
  /\ UNCHANGED <<producer, read_idx, copy, loaded, event, result, R, flag>>

\* The slot is consumed before the event is copied to user space.
Commit ==
  /\ pc = "commit" /\ loaded = Words
  /\ read_idx' = (read_idx + 1) % IdxMod
  /\ R' = R + 1
  /\ \/ pc' = "handle" /\ event' = copy /\ result' = "EVENT"
     \/ pc' = "top" /\ event' = event /\ result' = "FAULT"
  /\ UNCHANGED <<producer, copy, loaded, flag>>

------------------------------------------------------------------------------
(* The event thread.                                                        *)

\* The Quick Menu opens: the thread starts with a flush (reset).
Open ==
  /\ pc = "off" /\ pc' = "start"
  /\ UNCHANGED <<producer, read_idx, copy, loaded, event, result, R, flag>>

StartFlush == FlushTo("start", "top")

\* Head of the loop: the menu may have been closed meanwhile.
LoopTop ==
  /\ pc = "top" /\ pc' \in {"wait", "off"}
  /\ UNCHANGED <<producer, read_idx, copy, loaded, event, result, R, flag>>

WaitReturns ==
  /\ pc = "wait" /\ pc' = "fetch"
  /\ flag
  /\ flag' = FALSE
  /\ UNCHANGED <<producer, read_idx, copy, loaded, event, result, R>>

\* Mutant: the thread waits without a timeout.
WaitTimesOut_Never == FALSE /\ UNCHANGED vars

WaitTimesOut ==
  /\ pc = "wait" /\ pc' = "fetch"
  /\ ~flag
  /\ UNCHANGED <<producer, read_idx, copy, loaded, event, result, R, flag>>

WaitFails ==
  /\ pc = "wait" /\ pc' = "off"
  /\ UNCHANGED <<producer, read_idx, copy, loaded, event, result, R, flag>>

\* cb_on_event: some events make it call reset().
HandleEvent ==
  /\ pc = "handle" /\ pc' \in {"fetch", "reset"}
  /\ UNCHANGED <<producer, read_idx, copy, loaded, event, result, R, flag>>

\* The flush in reset(), from an event or from cb_on_event_dropped.
ResetFlush == FlushTo("reset", "fetch")

Producer == (\E w \in Words : StoreWord(w)) \/ Publish \/ SetFlag

Thread ==
  \/ StartFlush \/ LoopTop \/ WaitReturns \/ WaitTimesOut
  \/ ReadNothing \/ ReadOverrun \/ ReadBegin
  \/ (\E w \in Words : LoadWord(w)) \/ Recheck \/ Commit
  \/ HandleEvent \/ ResetFlush

Next == Producer \/ Open \/ Thread \/ WaitFails

Spec == Init /\ [][Next]_vars

\* A thread that exists gets to run.  Nothing is assumed of the writer, of the
\* user who opens the menu, or of the wait failing.
FairSpec == Spec /\ WF_vars(Thread)

------------------------------------------------------------------------------
(* Properties.                                                              *)

PcLabels == {"off", "start", "top", "wait", "fetch", "copy", "commit",
             "handle", "reset"}

\* The indices stay within an unsigned int and slots within the buffer.
TypeOK ==
  /\ ring \in [SlotNos -> Event]
  /\ write_idx \in 0..(IdxMod - 1) /\ read_idx \in 0..(IdxMod - 1)
  /\ flag \in BOOLEAN /\ signalled \in BOOLEAN /\ result \in Results
  /\ ppc \in {"store", "signal"} /\ stored \subseteq Words
  /\ pc \in PcLabels
  /\ copy \in Event /\ loaded \subseteq Words /\ event \in Event
  /\ W \in Nat /\ R \in Nat

\* The buffer behaves as the stream of EventStream: in spite of the wrap around
\* of the indices, of torn copies and of the order of the loads, events are
\* handed over in order and once, skipped only on a reported overflow of more
\* than Size events, on a flush or on a failed copy, and are intact while fewer
\* than Size events wait.
Abstract == INSTANCE EventStream
              WITH Capacity <- Size, Payloads <- Event,
                   published <- W, next <- R, last <- event
RefinesStream == Abstract!Stream

\* The second check limits the damage of an overrun: when it lets a copy through
\* whose words were all loaded before it, each word is that of the event to be
\* read, or belongs to the one event emitted Size events later.
AtMostOneLap ==
  [][pc = "copy" /\ pc' = "commit" /\ loaded = Words
       => \A w \in Words : copy[w] \in {R + 1, R + 1 + Size}]_vars

\* The reader never waits on a clear flag while events are there, except for
\* the moment before the writer sets the flag, if setting it failed, or if a
\* failed copy made it stop early: the writer publishes before it sets the flag
\* and the reader clears the flag before it fetches.
NoLostWakeup ==
  pc = "wait" /\ R # W /\ ~flag => ppc = "signal" \/ ~signalled \/ result = "FAULT"

\* Every event is eventually handed over or skipped, unless the menu is closed,
\* even when the flag cannot be set: the wait has a timeout.
Drained == \A n \in 1..MaxEvents : W >= n ~> (R >= n \/ pc = "off")

\* "Read event from buffer, then check again if buffer was overrun during the
\* read" (umod_callback.c): a read that the check lets through was not overrun,
\* so the event handed over is the one emitted.
CheckedReadIsIntact ==
  pc = "handle" => \A w \in Words : event[w] = R

==============================================================================
