----------------------------- MODULE EventStream -----------------------------
(****************************************************************************)
(* What the ring buffer of module_kernel/src/umod_callback.c promises to    *)
(* its only reader: events come in the order they were emitted, one by one; *)
(* events are skipped only when the reader asks for it (a flush), when more *)
(* than Capacity of them were waiting (an overflow, which is reported), or  *)
(* when one cannot be copied to the reader; and what is handed over is the  *)
(* event itself as long as fewer than Capacity events are waiting.          *)
(****************************************************************************)
EXTENDS Naturals

CONSTANTS
  Capacity,  \* RING_BUFFER_SIZE, at least 1
  Payloads   \* what the reader may be handed; event n is n, of any word

VARIABLES
  published,  \* number of events emitted
  next,       \* number of events the reader is past
  last,       \* what was handed to the reader last
  result      \* what the reader was told last

svars == <<published, next, last, result>>

SInit == published = 0 /\ next = 0 /\ last \in Payloads /\ result = "EMPTY"

\* Event n is n in every word.
IsEvent(payload, n) == \A w \in DOMAIN payload : payload[w] = n

Publish ==
  /\ published' = published + 1
  /\ UNCHANGED <<next, last, result>>

Deliver ==
  /\ next < published
  /\ next' = next + 1
  /\ last' \in Payloads
  /\ published - next < Capacity => IsEvent(last', next')
  /\ result' = "EVENT"
  /\ UNCHANGED published

\* The copy to the reader's memory failed.
Fault ==
  /\ next < published
  /\ next' = next + 1
  /\ result' = "FAULT"
  /\ UNCHANGED <<published, last>>

Overflow ==
  /\ published - next > Capacity
  /\ next' = published
  /\ result' = "OVERFLOW"
  /\ UNCHANGED <<published, last>>

Flush ==
  /\ next' = published
  /\ result' = "FLUSHED"
  /\ UNCHANGED <<published, last>>

\* The reader is told that there is no event.
Idle ==
  /\ next = published
  /\ result' = "EMPTY"
  /\ UNCHANGED <<published, next, last>>

SNext == Publish \/ Deliver \/ Fault \/ Overflow \/ Flush \/ Idle

Stream == SInit /\ [][SNext]_svars
==============================================================================
