-------------------------- MODULE ConvergenceProofs --------------------------
(****************************************************************************)
(* The proof that the buttons converge to what the subsystem says, for any  *)
(* number of devices and buttons and any sizes of the buffers.              *)
(*                                                                          *)
(* Whatever a button, or what reset() has read so far, says wrongly is yet  *)
(* to be put right by an event that waits: one about the same device, one   *)
(* about the power, or one that makes the thread run reset().  For that to  *)
(* be worth anything the waiting events must not lie themselves: each is    *)
(* true (Good), or a later one about the same matter waits behind it.  When *)
(* nothing waits, nothing is wrong.                                         *)
(****************************************************************************)
EXTENDS VitaQmBluetoothProofs

\* What an event is about.
Resets(ev) == ev.id \in {"DROPPED_EVENTS", "DEVICE_ADDED_REMOVED_CONNECTING"}
Powers(ev) == ev.id \in {"BLUETOOTH_ENABLED", "BLUETOOTH_DISABLED"}
Succeeds(ev) == ev.id = "DEVICE_CONNECT_SUCCESS"
Fails(ev) == ev.id \in {"DEVICE_DISCONNECTED", "DEVICE_CONNECT_FAILED",
                        "DEVICE_CONNECT_ABORTED", "DEVICE_CONNECT_CANCELLED"}
About(ev, m) == (Succeeds(ev) \/ Fails(ev)) /\ ev.mac = m

\* An event that makes what ev says obsolete when it is handled after it.
Obsoletes(later, ev) ==
  \/ Resets(later)
  \/ Powers(later) /\ Powers(ev)
  \/ (Succeeds(ev) \/ Fails(ev)) /\ About(later, ev.mac)

\* What the buttons do for an event is right in the state of now.
Settled(m) == link[m] \in {"DISCONNECTED", "CONNECTED"}
Good(ev) ==
  /\ ev.id = "BLUETOOTH_ENABLED" => power = On /\ \A m \in Macs : link[m] = "DISCONNECTED"
  /\ ev.id = "BLUETOOTH_DISABLED" => power # On
  /\ Succeeds(ev) /\ ev.mac \in Macs => link[ev.mac] # "DISCONNECTED"
  /\ Fails(ev) /\ ev.mac \in Macs => link[ev.mac] # "CONNECTED"

\* The events that wait, as the user module will see them.
Seen == VqmbtEventRecords \cup {NoVqmbtEvent}
SeenAs(q) == [k \in 1..Len(q) |-> bt_handle_event(q[k])]
In(s) == {s[k] : k \in 1..Len(s)}
Waiting == {cur} \cup In(ring) \cup In(SeenAs(queue))

\* reset() is going to run again, or an event about the power or device m comes.
ResetDue == lost \/ overrun \/ \E ev \in Waiting : Resets(ev)
PowerDue == \E ev \in Waiting : Powers(ev)
DeviceDue(m) == \E ev \in Waiting : About(ev, m)

------------------------------------------------------------------------------
(* The invariant.                                                           *)

\* Every event that waits is good, or one behind it makes it obsolete.
Fit(s, good, behind) ==
  \A k \in 1..Len(s) :
    \/ s[k] \in good
    \/ \E l \in (k + 1)..Len(s) : Obsoletes(s[l], s[k])
    \/ \E ev \in behind : Obsoletes(ev, s[k])
GoodEvents == {ev \in Seen : Good(ev)}
QueueFit == (lost => LosesOldest) => Fit(SeenAs(queue), GoodEvents, {})
RingFit == lost \/ Fit(ring, GoodEvents, In(SeenAs(queue)))
CurFit == lost \/ overrun \/ Fit(<<cur>>, GoodEvents, In(ring) \cup In(SeenAs(queue)))
EventsInv == QueueFit /\ RingFit /\ CurFit

\* The subsystem has no connections while bluetooth is not on yet, and an overrun
\* ring is empty.
LinksInv == power \in {Off, TurningOn} => \A m \in Macs : link[m] = "DISCONNECTED"
OverrunInv == overrun => ring = <<>>

\* An error button shows the error of a press.
ErrorInv == \A i \in Slots :
  buttons[i].btn_state = "ERROR_DISABLED" => buttons[i].error_message = "OTHER"

\* What reset() has read is right, or an event about it waits.
OnRight == PowerDue \/ on = (power = On)
ListRight == list.macs = paired
StatesRight ==
  \A j \in 1..Len(list.states) :
    \/ DeviceDue(list.macs[j]) \/ ~Settled(list.macs[j])
    \/ list.states[j] = link[list.macs[j]]
ReadInv ==
  /\ tpc \in {"list", "states"} => ResetDue \/ OnRight
  /\ tpc = "states" => ResetDue \/ (ListRight /\ StatesRight)

\* What button b says of slot i is right, or an event about it waits.
PowerRight(i, b) ==
  \/ PowerDue \/ (i \in restored /\ power = On)
  \/ (b.btn_state = "BT_OFF_DISABLED") = (power # On)
DeviceRight(i, b) ==
  \/ i \in restored \/ PowerDue \/ b.btn_state = "BT_OFF_DISABLED"
  \/ b.device.mac \in ZeroWordMacs \/ DeviceDue(b.device.mac) \/ ~Settled(b.device.mac)
  \/ b.btn_state = link[b.device.mac] \/ b.btn_state = "ERROR_DISABLED"
ButtonRight(i, b) ==
  /\ b.device.mac = TrueMac(i)
  /\ i <= Len(paired) => PowerRight(i, b) /\ DeviceRight(i, b)
ButtonsInv ==
  tpc \in {"fetch", "handle"} /\ ~missed =>
    ResetDue \/ \A i \in Slots : ButtonRight(i, buttons[i])

TruthInv ==
  EventsInv /\ LinksInv /\ OverrunInv /\ ErrorInv /\ ReadInv /\ ButtonsInv

------------------------------------------------------------------------------
(* The events of the subsystem's changes, and what stays good.              *)

\* No change of the subsystem is masked, and what the user module sees of each.
LEMMA Announced ==
  /\ \A p : Toggled(p).id \notin Masked
  /\ ListChanged.id \notin Masked
  /\ \A m, s : Disconnected(m).id \notin Masked /\ Result(m, s).id \notin Masked
BY DEF Toggled, ListChanged, Disconnected, Result, SceBtEvent, Masked

LEMMA SeenOfChanges ==
  /\ bt_handle_event(Toggled(On)).id = "BLUETOOTH_ENABLED"
  /\ bt_handle_event(Toggled(TurningOff)).id = "BLUETOOTH_DISABLED"
  /\ bt_handle_event(Toggled(TurningOn)) = NoVqmbtEvent
  /\ bt_handle_event(Toggled(Off)) = NoVqmbtEvent
  /\ bt_handle_event(ListChanged).id = "DEVICE_ADDED_REMOVED_CONNECTING"
  /\ \A m : /\ bt_handle_event(Disconnected(m)) = [id |-> "DEVICE_DISCONNECTED", mac |-> m]
            /\ bt_handle_event(Result(m, 0)) = [id |-> "DEVICE_CONNECT_SUCCESS", mac |-> m]
            /\ bt_handle_event(Result(m, 4)) = [id |-> "DEVICE_CONNECT_FAILED", mac |-> m]
BY DEF bt_handle_event, Toggled, ListChanged, Disconnected, Result, SceBtEvent,
       connect_result, Off, TurningOn, On, TurningOff

\* No event says nothing.
LEMMA NothingIsGood ==
  /\ Good(NoVqmbtEvent) /\ ~Resets(NoVqmbtEvent) /\ ~Powers(NoVqmbtEvent)
  /\ \A m : ~About(NoVqmbtEvent, m)
BY DEF NoVqmbtEvent, Good, Resets, Powers, About, Succeeds, Fails

\* The user module sees what the handler emits.
LEMMA SeenTypes ==
  ASSUME NEW q \in Seq(SceBtEvents)
  PROVE  SeenAs(q) \in Seq(Seen) /\ Len(SeenAs(q)) = Len(q)
<1>1. Len(q) \in Nat /\ \A k \in 1..Len(q) : q[k] \in SceBtEvents
  OBVIOUS
<1>2. \A k \in 1..Len(q) : bt_handle_event(q[k]) \in Seen
  BY <1>1, HandlerEmits DEF Seen
<1> QED
  BY <1>1, <1>2 DEF SeenAs

LEMMA SeenAppend ==
  ASSUME NEW q \in Seq(SceBtEvents), NEW e \in SceBtEvents
  PROVE  SeenAs(Append(q, e)) = Append(SeenAs(q), bt_handle_event(e))
<1> DEFINE t == Append(q, e)
           u == Append(SeenAs(q), bt_handle_event(e))
<1>1. /\ SeenAs(q) \in Seq(Seen) /\ Len(SeenAs(q)) = Len(q)
      /\ bt_handle_event(e) \in Seen
  BY SeenTypes, HandlerEmits DEF Seen
<1>2. /\ t \in Seq(SceBtEvents) /\ Len(t) = Len(q) + 1
      /\ \A k \in 1..Len(t) : t[k] = IF k <= Len(q) THEN q[k] ELSE e
  OBVIOUS
<1>3. /\ u \in Seq(Seen) /\ Len(u) = Len(q) + 1
      /\ \A k \in 1..Len(u) : u[k] = IF k <= Len(q) THEN SeenAs(q)[k] ELSE bt_handle_event(e)
  BY <1>1
<1>4. SeenAs(t) \in Seq(Seen) /\ Len(SeenAs(t)) = Len(u)
  BY <1>2, <1>3, SeenTypes
<1>5. ASSUME NEW k \in 1..Len(u) PROVE SeenAs(t)[k] = u[k]
  BY <1>2, <1>3 DEF SeenAs
<1> HIDE DEF t, u
<1>6. SeenAs(t) = u
  BY <1>3, <1>4, <1>5
<1> QED
  BY <1>6 DEF t, u

LEMMA SeenTail ==
  ASSUME NEW q \in Seq(SceBtEvents), q # <<>>
  PROVE  /\ SeenAs(q) # <<>> /\ SeenAs(Tail(q)) = Tail(SeenAs(q))
         /\ Head(SeenAs(q)) = bt_handle_event(Head(q))
<1> DEFINE t == Tail(q)
           u == Tail(SeenAs(q))
<1>1. /\ SeenAs(q) \in Seq(Seen) /\ Len(SeenAs(q)) = Len(q)
      /\ Len(q) \in Nat \ {0}
  BY SeenTypes
<1>2. /\ t \in Seq(SceBtEvents) /\ Len(t) = Len(q) - 1
      /\ \A k \in 1..Len(t) : t[k] = q[k + 1]
  OBVIOUS
<1>3. SeenAs(q) # <<>>
  BY <1>1
<1>4. /\ u \in Seq(Seen) /\ Len(u) = Len(q) - 1
      /\ \A k \in 1..Len(u) : u[k] = SeenAs(q)[k + 1]
  BY <1>1, <1>3
<1>5. SeenAs(t) \in Seq(Seen) /\ Len(SeenAs(t)) = Len(u)
  BY <1>2, <1>4, SeenTypes
<1>6. ASSUME NEW k \in 1..Len(u) PROVE SeenAs(t)[k] = u[k]
  <2>1. k + 1 \in 1..Len(q) /\ k \in 1..Len(t)
    BY <1>1, <1>2, <1>4
  <2> QED
    BY <1>2, <1>4, <2>1 DEF SeenAs
<1>7. Head(SeenAs(q)) = bt_handle_event(Head(q))
  BY <1>1, <1>3 DEF SeenAs
<1> HIDE DEF t, u
<1>8. SeenAs(t) = u
  BY <1>4, <1>5, <1>6
<1> QED
  BY <1>3, <1>7, <1>8 DEF t, u

\* What is in a sequence when it grows and shrinks.
LEMMA InAppend ==
  ASSUME NEW S, NEW s \in Seq(S), NEW e \in S
  PROVE  In(Append(s, e)) = In(s) \cup {e}
<1> DEFINE t == Append(s, e)
<1>1. /\ Len(s) \in Nat /\ Len(t) = Len(s) + 1 /\ t[Len(s) + 1] = e
      /\ \A k \in 1..Len(s) : t[k] = s[k]
  OBVIOUS
<1> HIDE DEF t
<1>2. 1..Len(t) = (1..Len(s)) \cup {Len(s) + 1}
  BY <1>1
<1>3. In(t) = In(s) \cup {e}
  BY <1>1, <1>2 DEF In
<1> QED
  BY <1>3 DEF t

LEMMA InTail ==
  ASSUME NEW S, NEW s \in Seq(S), s # <<>>
  PROVE  In(s) = {Head(s)} \cup In(Tail(s))
<1> DEFINE t == Tail(s)
<1>1. /\ Len(s) \in Nat \ {0} /\ Head(s) = s[1]
      /\ Len(t) = Len(s) - 1 /\ \A k \in 1..Len(t) : t[k] = s[k + 1]
  OBVIOUS
<1> HIDE DEF t
<1>2. ASSUME NEW k \in 1..Len(s) PROVE s[k] \in {Head(s)} \cup In(t)
  <2>1. CASE k = 1
    BY <1>1, <2>1
  <2>2. CASE k # 1
    <3>1. k - 1 \in 1..Len(t) /\ t[k - 1] = s[k]
      BY <1>1, <2>2
    <3> QED
      BY <3>1 DEF In
  <2> QED
    BY <2>1, <2>2
<1>3. ASSUME NEW k \in 1..Len(t) PROVE t[k] \in In(s)
  <2>1. k + 1 \in 1..Len(s) /\ t[k] = s[k + 1]
    BY <1>1
  <2> QED
    BY <2>1 DEF In
<1>4. Head(s) \in In(s)
  <2>1. 1 \in 1..Len(s)
    BY <1>1
  <2> QED
    BY <1>1, <2>1 DEF In
<1>5. In(s) = {Head(s)} \cup In(t)
  BY <1>2, <1>3, <1>4 DEF In
<1> QED
  BY <1>5 DEF t

------------------------------------------------------------------------------
(* Sequences of events that fit.                                            *)

LEMMA FitsLess ==
  ASSUME NEW s, NEW good, NEW more, NEW behind, NEW further,
         Fit(s, good, behind), good \subseteq more,
         \A k \in 1..Len(s) : \A ev \in behind :
           Obsoletes(ev, s[k]) => \E w \in further : Obsoletes(w, s[k])
  PROVE  Fit(s, more, further)
BY DEF Fit

\* A new event, good after a change, makes obsolete what the change makes wrong.
LEMMA FitAppend ==
  ASSUME NEW s \in Seq(Seen), NEW e \in Seen, NEW good, NEW now, NEW behind,
         Fit(s, good, behind), e \in now,
         \A ev \in good : ev \in now \/ Obsoletes(e, ev)
  PROVE  Fit(Append(s, e), now, behind)
<1> DEFINE t == Append(s, e)
<1>1. /\ Len(s) \in Nat /\ Len(t) = Len(s) + 1 /\ t[Len(s) + 1] = e
      /\ \A k \in 1..Len(s) : t[k] = s[k]
  OBVIOUS
<1> HIDE DEF t
<1> SUFFICES ASSUME NEW k \in 1..Len(t)
             PROVE  \/ t[k] \in now
                    \/ \E l \in (k + 1)..Len(t) : Obsoletes(t[l], t[k])
                    \/ \E ev \in behind : Obsoletes(ev, t[k])
  BY DEF Fit, t
<1>2. CASE k = Len(s) + 1
  BY <1>1, <1>2
<1>3. CASE k \in 1..Len(s)
  <2>1. t[k] = s[k] /\ Len(t) \in (k + 1)..Len(t) /\ t[Len(t)] = e
    BY <1>1, <1>3
  <2>2. CASE s[k] \in good
    BY <2>1, <2>2
  <2>3. ASSUME NEW l \in (k + 1)..Len(s), Obsoletes(s[l], s[k])
        PROVE  l \in (k + 1)..Len(t) /\ Obsoletes(t[l], t[k])
    BY <1>1, <1>3, <2>1, <2>3
  <2> QED
    BY <1>3, <2>1, <2>2, <2>3 DEF Fit
<1> QED
  BY <1>1, <1>2, <1>3

LEMMA FitTail ==
  ASSUME NEW s \in Seq(Seen), s # <<>>, NEW good, NEW behind, Fit(s, good, behind)
  PROVE  /\ Fit(Tail(s), good, behind)
         /\ Fit(<<Head(s)>>, good, In(Tail(s)) \cup behind)
<1> DEFINE t == Tail(s)
<1>1. /\ Len(s) \in Nat \ {0} /\ Head(s) = s[1]
      /\ Len(t) = Len(s) - 1 /\ \A k \in 1..Len(t) : t[k] = s[k + 1]
  OBVIOUS
<1> HIDE DEF t
<1>2. ASSUME NEW k \in 1..Len(s), NEW l \in (k + 1)..Len(s)
      PROVE  l - 1 \in 1..Len(t) /\ t[l - 1] = s[l] /\ l - 1 \in k..Len(t)
  BY <1>1
<1>3. Fit(t, good, behind)
  <2> SUFFICES ASSUME NEW k \in 1..Len(t)
               PROVE  \/ t[k] \in good
                      \/ \E l \in (k + 1)..Len(t) : Obsoletes(t[l], t[k])
                      \/ \E ev \in behind : Obsoletes(ev, t[k])
    BY DEF Fit
  <2>1. k + 1 \in 1..Len(s) /\ t[k] = s[k + 1]
    BY <1>1
  <2>2. ASSUME NEW l \in (k + 2)..Len(s), Obsoletes(s[l], t[k])
        PROVE  l - 1 \in (k + 1)..Len(t) /\ Obsoletes(t[l - 1], t[k])
    BY <1>1, <2>1, <2>2
  <2>3. (k + 1) + 1 = k + 2
    OBVIOUS
  <2>4. \/ s[k + 1] \in good
        \/ \E l \in (k + 2)..Len(s) : Obsoletes(s[l], s[k + 1])
        \/ \E ev \in behind : Obsoletes(ev, s[k + 1])
    BY <2>1, <2>3 DEF Fit
  <2> QED
    BY <2>1, <2>2, <2>4
<1>4. Fit(<<Head(s)>>, good, In(t) \cup behind)
  <2> DEFINE h == <<Head(s)>>
  <2>1. Len(h) = 1 /\ h[1] = s[1]
    BY <1>1
  <2> HIDE DEF h
  <2>2. 1 \in 1..Len(s) /\ 1 + 1 = 2
    BY <1>1
  <2>3. ASSUME NEW l \in 2..Len(s) PROVE s[l] \in In(t)
    BY <1>1, <1>2, <2>2 DEF In
  <2>4. \/ s[1] \in good
        \/ \E l \in 2..Len(s) : Obsoletes(s[l], s[1])
        \/ \E ev \in behind : Obsoletes(ev, s[1])
    BY <2>2 DEF Fit
  <2>5. \A k \in 1..Len(h) : k = 1
    BY <2>1
  <2>6. Fit(h, good, In(t) \cup behind)
    BY <2>1, <2>3, <2>4, <2>5 DEF Fit
  <2> QED
    BY <2>6 DEF h
<1> QED
  BY <1>3, <1>4 DEF t

LEMMA FitOne ==
  ASSUME NEW ev, NEW good, NEW behind
  PROVE  Fit(<<ev>>, good, behind)
           <=> ev \in good \/ \E w \in behind : Obsoletes(w, ev)
<1> DEFINE s == <<ev>>
<1>1. Len(s) = 1 /\ s[1] = ev
  OBVIOUS
<1> HIDE DEF s
<1>2. 1..Len(s) = {1} /\ \A k \in {1} : (k + 1)..Len(s) = {}
  BY <1>1
<1>3. Fit(s, good, behind) <=> ev \in good \/ \E w \in behind : Obsoletes(w, ev)
  BY <1>1, <1>2 DEF Fit
<1> QED
  BY <1>3 DEF s

LEMMA FitEmpty ==
  ASSUME NEW good, NEW behind PROVE Fit(<<>>, good, behind)
<1>1. \A k \in 1..Len(<<>>) : FALSE
  OBVIOUS
<1> QED
  BY <1>1 DEF Fit

\* The first of the events behind becomes the last of the sequence.
LEMMA FitMove ==
  ASSUME NEW s \in Seq(Seen), NEW h \in Seen, NEW good, NEW behind,
         Fit(s, good, {h} \cup behind), Fit(<<h>>, good, behind)
  PROVE  Fit(Append(s, h), good, behind)
<1> DEFINE t == Append(s, h)
<1>1. /\ Len(s) \in Nat /\ Len(t) = Len(s) + 1 /\ t[Len(s) + 1] = h
      /\ \A k \in 1..Len(s) : t[k] = s[k]
  OBVIOUS
<1> HIDE DEF t
<1>2. h \in good \/ \E ev \in behind : Obsoletes(ev, h)
  BY FitOne
<1>3. ASSUME NEW k \in 1..Len(s)
      PROVE  \/ t[k] \in good
             \/ \E l \in (k + 1)..Len(t) : Obsoletes(t[l], t[k])
             \/ \E ev \in behind : Obsoletes(ev, t[k])
  <2>1. t[k] = s[k] /\ Len(t) \in (k + 1)..Len(t) /\ t[Len(t)] = h
    BY <1>1
  <2>2. ASSUME NEW l \in (k + 1)..Len(s), Obsoletes(s[l], s[k])
        PROVE  l \in (k + 1)..Len(t) /\ Obsoletes(t[l], t[k])
    BY <1>1, <2>1, <2>2
  <2> QED
    BY <2>1, <2>2 DEF Fit
<1>4. \A k \in 1..Len(t) : k \in 1..Len(s) \/ k = Len(s) + 1
  BY <1>1
<1>5. Fit(t, good, behind)
  BY <1>1, <1>2, <1>3, <1>4 DEF Fit
<1> QED
  BY <1>5 DEF t

\* Behind an event that makes the thread run reset(), every sequence fits.
LEMMA FitReset ==
  ASSUME NEW s \in Seq(Seen), NEW r \in Seen, Resets(r), NEW good, r \in good, NEW behind
  PROVE  Fit(Append(s, r), good, behind)
<1>1. \A ev \in Seen : Obsoletes(r, ev)
  BY DEF Obsoletes
<1>2. Fit(s, Seen, behind)
  BY DEF Fit
<1> QED
  BY <1>1, <1>2, FitAppend

------------------------------------------------------------------------------
(* The events that wait stay good.                                          *)

LEMMA WaitingTypes ==
  ASSUME DataInv
  PROVE  /\ queue \in Seq(SceBtEvents) /\ SeenAs(queue) \in Seq(Seen)
         /\ ring \in Seq(Seen) /\ ring \in Seq(VqmbtEventRecords) /\ cur \in Seen
         /\ lost \in BOOLEAN /\ overrun \in BOOLEAN
BY SeenTypes DEF DataInv, QueueInv, RingInv, ThreadInv, Seen

\* What a change announces waits, behind the events before it, or is lost.
LEMMA AnnounceAdds ==
  ASSUME DataInv, NEW e \in SceBtEvents, e.id \notin Masked, Announce(e)
  PROVE  /\ lost => lost'
         /\ \/ lost' /\ ~LosesOldest
            \/ lost' /\ queue # <<>> /\ SeenAs(queue)' = Append(Tail(SeenAs(queue)), bt_handle_event(e))
            \/ lost' = lost /\ SeenAs(queue)' = Append(SeenAs(queue), bt_handle_event(e))
<1>1. queue \in Seq(SceBtEvents) /\ lost \in BOOLEAN /\ Len(queue) \in Nat
  BY WaitingTypes
<1>2. QueueSize \in Nat \ {0}
  BY SizesAssumption
<1>3. CASE Len(queue) < QueueSize
  <2>1. queue' = Append(queue, e)
    BY <1>3 DEF Announce
  <2>2. ~(Len(queue) >= QueueSize)
    BY <1>1, <1>2, <1>3
  <2>3. lost' = lost
    BY <1>1, <2>2 DEF Announce
  <2> QED
    BY <1>1, <2>1, <2>3, SeenAppend
<1>4. CASE Len(queue) >= QueueSize /\ LosesOldest
  <2>1. /\ ~(Len(queue) < QueueSize) /\ Len(queue) # 0
        /\ lost' = (lost \/ Len(queue) >= QueueSize)
    BY <1>1, <1>2, <1>4 DEF Announce
  <2>2. queue # <<>> /\ lost' = TRUE
    <3>1. Len(<<>>) = 0
      OBVIOUS
    <3>2. lost' = TRUE
      BY <1>4, <2>1
    <3> QED
      BY <2>1, <3>1, <3>2
  <2>3. queue' = Append(Tail(queue), e)
    BY <1>4, <2>1 DEF Announce
  <2>4. Tail(queue) \in Seq(SceBtEvents)
    BY <1>1, <2>2
  <2>5. SeenAs(Append(Tail(queue), e)) = Append(SeenAs(Tail(queue)), bt_handle_event(e))
    BY <2>4, SeenAppend
  <2>6. SeenAs(queue)' = Append(Tail(SeenAs(queue)), bt_handle_event(e))
    BY <1>1, <2>2, <2>3, <2>5, SeenTail
  <2>7. lost'
    BY <2>2
  <2> QED
    BY <2>2, <2>6, <2>7
<1>5. CASE Len(queue) >= QueueSize /\ ~LosesOldest
  BY <1>1, <1>5 DEF Announce
<1> QED
  BY <1>1, <1>2, <1>3, <1>4, <1>5

\* An announced change: the new event is good, and what the change makes wrong it
\* makes obsolete.
LEMMA AnnounceFits ==
  ASSUME DataInv, EventsInv, NEW e \in SceBtEvents, e.id \notin Masked, Announce(e),
         UNCHANGED <<ring, overrun, cur>>,
         bt_handle_event(e) \in GoodEvents',
         \A ev \in GoodEvents : ev \in GoodEvents' \/ Obsoletes(bt_handle_event(e), ev)
  PROVE  EventsInv'
<1> DEFINE new == bt_handle_event(e)
           q == SeenAs(queue)
           good == GoodEvents
           now == GoodEvents'
<1>1. QueueFit /\ RingFit /\ CurFit
  BY DEF EventsInv
<1>2. /\ new \in Seen /\ new \in now /\ \A ev \in good : ev \in now \/ Obsoletes(new, ev)
      /\ q \in Seq(Seen) /\ ring \in Seq(Seen)
  BY WaitingTypes, HandlerEmits DEF Seen
<1>3. CASE lost' /\ ~LosesOldest
  BY <1>3 DEF EventsInv, QueueFit, RingFit, CurFit
<1>4. CASE lost' /\ queue # <<>> /\ q' = Append(Tail(q), new)
  <2>1. CASE LosesOldest
    <3>1. Fit(q, good, {})
      BY <1>1, <2>1 DEF QueueFit
    <3>2. q # <<>> /\ Tail(q) \in Seq(Seen)
      BY <1>2, <1>4, WaitingTypes, SeenTail
    <3> HIDE DEF new, q, good, now
    <3>3. Fit(Tail(q), good, {})
      BY <1>2, <3>1, <3>2, FitTail
    <3>4. Fit(q', now, {})
      BY <1>2, <1>4, <3>2, <3>3, FitAppend
    <3> QED
      BY <1>4, <3>4 DEF EventsInv, QueueFit, RingFit, CurFit, q, now
  <2> QED
    BY <1>3, <1>4, <2>1
<1>5. CASE lost' = lost /\ q' = Append(q, new)
  <2>1. In(q') = In(q) \cup {new}
    <3> HIDE DEF new, q
    <3> QED
      BY <1>2, <1>5, InAppend
  <2>2. QueueFit'
    <3>1. CASE lost => LosesOldest
      <4>1. Fit(q, good, {})
        BY <1>1, <3>1 DEF QueueFit
      <4> HIDE DEF new, q, good, now
      <4>2. Fit(q', now, {})
        BY <1>2, <1>5, <4>1, FitAppend
      <4> QED
        BY <4>2 DEF QueueFit, q, now
    <3> QED
      BY <1>5, <3>1 DEF QueueFit
  <2>3. ASSUME NEW s \in Seq(Seen), NEW behind, Fit(s, good, behind \cup In(q))
        PROVE  Fit(s, now, behind \cup In(q'))
    <3> HIDE DEF new, q, good, now
    <3>1. \A k \in 1..Len(s) : s[k] \in good => s[k] \in now \/ Obsoletes(new, s[k])
      BY <1>2
    <3> QED
      BY <2>1, <2>3, <3>1 DEF Fit
  <2>4. RingFit'
    <3>1. Fit(ring, good, {} \cup In(q)) => Fit(ring, now, {} \cup In(q'))
      BY <1>2, <2>3
    <3> QED
      BY <1>1, <1>5, <3>1 DEF RingFit
  <2>5. CurFit'
    <3>1. <<cur>> \in Seq(Seen)
      BY WaitingTypes
    <3>2. Fit(<<cur>>, good, In(ring) \cup In(q)) => Fit(<<cur>>, now, In(ring) \cup In(q'))
      BY <2>3, <3>1
    <3> QED
      BY <1>1, <1>5, <3>2 DEF CurFit
  <2> QED
    BY <2>2, <2>4, <2>5 DEF EventsInv
<1> QED
  BY <1>3, <1>4, <1>5, AnnounceAdds
LEMMA SameGood ==
  ASSUME UNCHANGED <<power, link>> PROVE GoodEvents' = GoodEvents
<1>1. \A ev : Good(ev)' <=> Good(ev)
  BY DEF Good
<1> QED
  BY <1>1 DEF GoodEvents

LEMMA NothingInGood ==
  /\ NoVqmbtEvent \in GoodEvents /\ \A ev : ~Obsoletes(NoVqmbtEvent, ev)
  /\ DroppedEvents \in GoodEvents /\ Resets(DroppedEvents)
  /\ DroppedEvents \in VqmbtEventRecords
<1>1. DroppedEvents \in VqmbtEventRecords
  BY DEF DroppedEvents, VqmbtEventRecords, VqmbtEventIds
<1>2. Good(DroppedEvents) /\ Resets(DroppedEvents)
  BY DEF DroppedEvents, Good, Resets, Succeeds, Fails
<1> QED
  BY <1>1, <1>2, NothingIsGood DEF GoodEvents, Seen, Obsoletes

\* The callback appends the event, or the ring overruns.
LEMMA EmitAdds ==
  ASSUME DataInv, OverrunInv, NEW ev, Emit(ev)
  PROVE  /\ overrun => overrun'
         /\ overrun' => ring' = <<>>
         /\ \/ overrun'
            \/ ev = NoVqmbtEvent /\ ring' = ring
            \/ ring' = Append(ring, ev)
<1>1. overrun \in BOOLEAN
  BY WaitingTypes
<1>2. CASE ev = NoVqmbtEvent
  BY <1>1, <1>2 DEF Emit, ringvars, OverrunInv
<1>3. CASE ev # NoVqmbtEvent /\ (overrun \/ Len(ring) >= Capacity)
  BY <1>3 DEF Emit
<1>4. CASE ev # NoVqmbtEvent /\ ~(overrun \/ Len(ring) >= Capacity)
  BY <1>4 DEF Emit
<1> QED
  BY <1>2, <1>3, <1>4

LEMMA KernelEventFits ==
  ASSUME DataInv, EventsInv, OverrunInv, KernelEvent
  PROVE  EventsInv'
<1> DEFINE q == SeenAs(queue)
           h == Head(q)
           good == GoodEvents
<1>1. QueueFit /\ RingFit /\ CurFit
  BY DEF EventsInv
<1>2. /\ queue # <<>> /\ queue' = Tail(queue) /\ Emit(bt_handle_event(Head(queue)))
      /\ UNCHANGED <<power, link, lost, cur>>
  BY DEF KernelEvent, threadvars
<1>3. GoodEvents' = good
  BY <1>2, SameGood
<1>4. q # <<>> /\ q' = Tail(q) /\ h = bt_handle_event(Head(queue)) /\ q \in Seq(Seen)
      /\ ring \in Seq(Seen)
  BY <1>2, WaitingTypes, SeenTail
<1>5. h \in Seen /\ In(q) = {h} \cup In(q')
  <2> HIDE DEF q
  <2> QED
    BY <1>4, InTail
<1>6. \/ overrun' /\ ring' = <<>>
      \/ h = NoVqmbtEvent /\ ring' = ring /\ (overrun => overrun')
      \/ ring' = Append(ring, h) /\ (overrun => overrun')
  BY <1>2, <1>4, EmitAdds
<1>7. QueueFit'
  <2>1. CASE lost => LosesOldest
    <3>1. Fit(q, good, {})
      BY <1>1, <2>1 DEF QueueFit
    <3> HIDE DEF q, good
    <3>2. Fit(q', good, {})
      BY <1>4, <3>1, FitTail
    <3> QED
      BY <1>3, <3>2 DEF QueueFit, q
  <2> QED
    BY <1>2, <2>1 DEF QueueFit
<1>8. RingFit'
  <2>1. CASE lost
    BY <1>2, <2>1 DEF RingFit
  <2>2. CASE ~lost
    <3>1. Fit(ring, good, In(q)) /\ Fit(q, good, {})
      BY <1>1, <2>2 DEF RingFit, QueueFit
    <3> HIDE DEF q, good
    <3>2. Fit(<<h>>, good, In(q'))
      <4>1. Fit(<<h>>, good, In(Tail(q)) \cup {})
        BY <1>4, <3>1, FitTail
      <4> QED
        BY <1>4, <4>1
    <3>3. Fit(ring', good, In(q'))
      <4> HIDE DEF h
      <4>1. CASE ring' = <<>>
        BY <4>1, FitEmpty
      <4>2. CASE h = NoVqmbtEvent /\ ring' = ring
        <5>1. \A x, ev : ev \in In(q) /\ Obsoletes(ev, x) => ev \in In(q')
          BY <1>5, <4>2, NothingInGood
        <5> QED
          BY <3>1, <4>2, <5>1, FitsLess
      <4>3. CASE ring' = Append(ring, h)
        BY <1>4, <1>5, <3>1, <3>2, <4>3, FitMove
      <4> QED
        BY <1>6, <4>1, <4>2, <4>3
    <3> QED
      BY <1>3, <3>3 DEF RingFit, q
  <2> QED
    BY <2>1, <2>2
<1>9. CurFit'
  <2>1. CASE lost \/ overrun'
    BY <1>2, <2>1 DEF CurFit
  <2>2. CASE ~lost /\ ~overrun'
    <3>1. Fit(<<cur>>, good, In(ring) \cup In(q))
      BY <1>1, <1>6, <2>2 DEF CurFit
    <3> HIDE DEF q, good
    <3>2. \A x, ev : ev \in In(ring) \cup In(q) /\ Obsoletes(ev, x) => ev \in In(ring') \cup In(q')
      <4> HIDE DEF h
      <4>1. CASE h = NoVqmbtEvent /\ ring' = ring
        BY <1>5, <4>1, NothingInGood
      <4>2. CASE ring' = Append(ring, h)
        <5>1. In(ring') = In(ring) \cup {h}
          BY <1>4, <1>5, <4>2, InAppend
        <5> QED
          BY <1>5, <5>1
      <4> QED
        BY <1>6, <2>2, <4>1, <4>2
    <3>3. Fit(<<cur>>, good, In(ring') \cup In(q'))
      BY <3>1, <3>2, FitsLess
    <3> QED
      BY <1>2, <1>3, <3>3 DEF CurFit, q
  <2> QED
    BY <2>1, <2>2
<1> QED
  BY <1>7, <1>8, <1>9 DEF EventsInv

LEMMA KernelDroppedFits ==
  ASSUME DataInv, EventsInv, OverrunInv, KernelDropped
  PROVE  EventsInv'
<1> DEFINE q == SeenAs(queue)
           good == GoodEvents
<1>1. QueueFit
  BY DEF EventsInv
<1>2. /\ lost /\ (LosesOldest \/ queue = <<>>) /\ Emit(DroppedEvents)
      /\ UNCHANGED <<power, link, queue, cur>>
  BY DEF KernelDropped, threadvars
<1>3. GoodEvents' = good /\ q' = q
  BY <1>2, SameGood
<1>4. \/ overrun' /\ ring' = <<>>
      \/ ring' = Append(ring, DroppedEvents)
  <2>1. DroppedEvents # NoVqmbtEvent
    BY DEF DroppedEvents, NoVqmbtEvent
  <2> QED
    BY <1>2, <2>1, EmitAdds
<1>5. /\ DroppedEvents \in good /\ DroppedEvents \in Seen /\ Resets(DroppedEvents)
      /\ ring \in Seq(Seen) /\ <<cur>> \in Seq(Seen) /\ cur \in Seen
  BY NothingInGood, WaitingTypes DEF Seen
<1>6. QueueFit'
  <2>1. Fit(q, good, {})
    <3>1. CASE LosesOldest
      BY <1>1, <3>1 DEF QueueFit
    <3>2. CASE queue = <<>>
      <4>1. Len(queue) = 0
        BY <3>2
      <4>2. q = <<>>
        BY <4>1 DEF SeenAs
      <4> HIDE DEF q
      <4> QED
        BY <4>2, FitEmpty
    <3> QED
      BY <1>2, <3>1, <3>2
  <2> QED
    BY <1>3, <2>1 DEF QueueFit
<1>7. RingFit'
  <2> HIDE DEF good
  <2>1. Fit(ring', good, In(q'))
    <3> HIDE DEF q
    <3> QED
      BY <1>4, <1>5, FitEmpty, FitReset
  <2> QED
    BY <1>3, <2>1 DEF RingFit
<1>8. CurFit'
  <2>1. CASE overrun'
    BY <2>1 DEF CurFit
  <2>2. CASE ring' = Append(ring, DroppedEvents)
    <3> HIDE DEF good
    <3>1. DroppedEvents \in In(ring') /\ Obsoletes(DroppedEvents, cur)
      BY <1>5, <2>2, InAppend DEF Obsoletes
    <3>2. Fit(<<cur>>, good, In(ring') \cup In(q'))
      BY <3>1, FitOne
    <3> QED
      BY <1>2, <1>3, <3>2 DEF CurFit
  <2> QED
    BY <1>4, <2>1, <2>2
<1> QED
  BY <1>6, <1>7, <1>8 DEF EventsInv

LEMMA FetchFits ==
  ASSUME DataInv, EventsInv, Fetch
  PROVE  EventsInv'
<1> DEFINE q == SeenAs(queue)
           good == GoodEvents
<1>1. QueueFit /\ RingFit
  BY DEF EventsInv
<1>2. /\ ring # <<>> /\ ring' = Tail(ring) /\ cur' = Head(ring) /\ ring \in Seq(Seen)
      /\ UNCHANGED <<power, link, queue, lost, overrun>>
  BY WaitingTypes DEF Fetch, subvars
<1>3. GoodEvents' = good /\ q' = q
  BY <1>2, SameGood
<1>4. CASE lost
  BY <1>1, <1>2, <1>3, <1>4 DEF EventsInv, QueueFit, RingFit, CurFit
<1>5. CASE ~lost
  <2>1. Fit(ring, good, In(q))
    BY <1>1, <1>5 DEF RingFit
  <2> HIDE DEF q, good
  <2>2. Fit(ring', good, In(q')) /\ Fit(<<cur'>>, good, In(ring') \cup In(q'))
    BY <1>2, <1>3, <2>1, FitTail
  <2> QED
    BY <1>1, <1>2, <1>3, <2>2 DEF EventsInv, QueueFit, RingFit, CurFit, q, good
<1> QED
  BY <1>4, <1>5

\* An event that could not be copied is gone from the ring.
LEMMA FetchFailsFits ==
  ASSUME DataInv, EventsInv, FetchFails
  PROVE  EventsInv'
<1> DEFINE q == SeenAs(queue)
           good == GoodEvents
<1>1. QueueFit /\ RingFit
  BY DEF EventsInv
<1>2. /\ ring # <<>> /\ ring' = Tail(ring) /\ ring \in Seq(Seen)
      /\ UNCHANGED <<power, link, queue, lost, overrun>>
  BY WaitingTypes DEF FetchFails, subvars
<1>3. cur' = NoVqmbtEvent
  BY DEF FetchFails, threadvars, DataInv, ThreadInv
<1>4. GoodEvents' = good /\ q' = q
  BY <1>2, SameGood
<1>5. QueueFit'
  BY <1>1, <1>2, <1>4 DEF QueueFit
<1>6. RingFit'
  <2>1. CASE lost
    BY <1>2, <2>1 DEF RingFit
  <2>2. CASE ~lost
    <3>1. Fit(ring, good, In(q))
      BY <1>1, <2>2 DEF RingFit
    <3> HIDE DEF q, good
    <3>2. Fit(ring', good, In(q'))
      BY <1>2, <1>4, <3>1, FitTail
    <3> QED
      BY <1>4, <3>2 DEF RingFit, q
  <2> QED
    BY <2>1, <2>2
<1>7. CurFit'
  <2>1. Fit(<<cur'>>, GoodEvents', In(ring') \cup In(SeenAs(queue)'))
    BY <1>3, <1>4, NothingInGood, FitOne
  <2> QED
    BY <2>1 DEF CurFit
<1> QED
  BY <1>5, <1>6, <1>7 DEF EventsInv

\* Steps that empty the ring, or have handled the event, or do nothing of the kind.
LEMMA OtherStepsFit ==
  ASSUME EventsInv, UNCHANGED <<power, link, queue, lost>>,
         ring' \in {ring, <<>>}, cur' = NoVqmbtEvent \/ UNCHANGED <<cur, ring, overrun>>
  PROVE  EventsInv'
<1>1. GoodEvents' = GoodEvents
  BY SameGood
<1>2. QueueFit' /\ RingFit'
  BY <1>1, FitEmpty DEF EventsInv, QueueFit, RingFit
<1>3. CASE cur' = NoVqmbtEvent
  <2>1. Fit(<<cur'>>, GoodEvents', In(ring') \cup In(SeenAs(queue)'))
    BY <1>1, <1>3, NothingInGood, FitOne
  <2> QED
    BY <1>2, <2>1 DEF EventsInv, CurFit
<1>4. CASE UNCHANGED <<cur, ring, overrun>>
  BY <1>1, <1>2, <1>4 DEF EventsInv, CurFit
<1> QED
  BY <1>3, <1>4
------------------------------------------------------------------------------
(* What the subsystem announces.                                            *)

\* The event tells what the step changed: about the power, about a settled
\* connection, or by calling for reset().
Tells(e) ==
  LET new == bt_handle_event(e) IN
  /\ e \in SceBtEvents /\ e.id \notin Masked /\ Announce(e)
  /\ new \in GoodEvents'
  /\ \A ev \in GoodEvents : ev \in GoodEvents' \/ Obsoletes(new, ev)
  /\ \/ Resets(new)
     \/ /\ paired' = paired
        /\ (power' = On) = (power = On) \/ Powers(new)
        /\ \A m \in Macs : link'[m] = link[m] \/ ~Settled(m)' \/ About(new, m)

LEMMA ToggleTells ==
  ASSUME LinksInv, NEW from, NEW to, Toggle(from, to),
         <<from, to>> \in {<<Off, TurningOn>>, <<TurningOn, On>>, <<On, TurningOff>>,
                           <<TurningOff, Off>>}
  PROVE  Tells(Toggled(to))
<1> DEFINE new == bt_handle_event(Toggled(to))
<1>1. /\ power = from /\ power' = to /\ UNCHANGED <<paired, link>>
      /\ Announce(Toggled(to)) /\ Toggled(to).id \notin Masked /\ Toggled(to) \in SceBtEvents
  BY EventTypes, Announced DEF Toggle
<1>2. /\ Off # On /\ TurningOff # On /\ TurningOn # On
      /\ TurningOff # Off /\ TurningOff # TurningOn
  BY DEF Off, On, TurningOff, TurningOn
<1>3. new \in Seen
  BY <1>1, HandlerEmits DEF Seen
<1>4. Good(new)'
  <2>1. CASE to \in {Off, TurningOn}
    BY <2>1, SeenOfChanges DEF Good, NoVqmbtEvent, Succeeds, Fails
  <2>2. CASE to = On
    <3>1. power = TurningOn
      BY <1>1, <1>2, <2>2
    <3>2. power' = On /\ \A m \in Macs : link'[m] = "DISCONNECTED"
      BY <1>1, <2>2, <3>1 DEF LinksInv
    <3> QED
      BY <2>2, <3>2, SeenOfChanges DEF Good, Succeeds, Fails
  <2>3. CASE to = TurningOff
    BY <1>1, <1>2, <2>3, SeenOfChanges DEF Good, Succeeds, Fails
  <2> QED
    BY <2>1, <2>2, <2>3
<1>5. ASSUME NEW ev \in Seen, Good(ev)
      PROVE  Good(ev)' \/ Obsoletes(new, ev)
  <2>1. CASE to \in {Off, TurningOn}
    <3>1. power # On /\ power' # On
      BY <1>1, <1>2, <2>1
    <3> QED
      BY <1>1, <1>5, <3>1 DEF Good
  <2>2. CASE to \in {On, TurningOff}
    <3>1. Powers(new)
      BY <2>2, SeenOfChanges DEF Powers
    <3>2. CASE Powers(ev)
      BY <3>1, <3>2 DEF Obsoletes
    <3>3. CASE ~Powers(ev)
      BY <1>1, <1>5, <3>3 DEF Good, Powers
    <3> QED
      BY <3>2, <3>3
  <2> QED
    BY <2>1, <2>2
<1>6. (power' = On) = (power = On) \/ Powers(new)
  BY <1>1, <1>2, SeenOfChanges DEF Powers
<1> HIDE DEF new
<1>7. new \in GoodEvents' /\ \A ev \in GoodEvents : ev \in GoodEvents' \/ Obsoletes(new, ev)
  BY <1>3, <1>4, <1>5 DEF GoodEvents
<1> QED
  BY <1>1, <1>6, <1>7 DEF Tells, new

\* Whatever the step changed, the thread will run reset().
LEMMA ListChangedTells ==
  ASSUME Announce(ListChanged)
  PROVE  Tells(ListChanged)
<1> DEFINE new == bt_handle_event(ListChanged)
<1>1. new \in Seen /\ new.id = "DEVICE_ADDED_REMOVED_CONNECTING"
  BY EventTypes, HandlerEmits, SeenOfChanges DEF Seen
<1> HIDE DEF new
<1>2. Resets(new) /\ Good(new)'
  BY <1>1 DEF Resets, Good, Succeeds, Fails
<1>3. new \in GoodEvents' /\ \A ev : Obsoletes(new, ev)
  BY <1>1, <1>2 DEF GoodEvents, Obsoletes
<1> QED
  BY <1>2, <1>3, EventTypes, Announced DEF Tells, new

\* The end of a connection or of an attempt to connect.
LEMMA LinkEndTells ==
  ASSUME TypeInv, NEW m \in Macs,
         NEW from \in {"CONNECTING", "CONNECTED", "DISCONNECTING"},
         SetLink(m, from, "DISCONNECTED"),
         NEW e \in {Disconnected(m), Result(m, 4)}, Announce(e)
  PROVE  Tells(e)
<1> DEFINE new == bt_handle_event(e)
<1>1. /\ link[m] = from /\ UNCHANGED <<power, paired>> /\ link'[m] = "DISCONNECTED"
      /\ \A n \in Macs \ {m} : link'[n] = link[n]
  BY DEF SetLink, TypeInv
<1>2. e \in SceBtEvents /\ e.id \notin Masked /\ new \in Seen
  BY EventTypes, Announced, HandlerEmits DEF Seen
<1>3. Fails(new) /\ new.mac = m /\ ~Succeeds(new) /\ ~Powers(new)
  BY SeenOfChanges DEF Fails, Succeeds, Powers
<1> HIDE DEF new
<1>4. Good(new)'
  BY <1>1, <1>3 DEF Good, Powers
<1>5. ASSUME NEW ev \in Seen, Good(ev)
      PROVE  Good(ev)' \/ Obsoletes(new, ev)
  <2>1. CASE (Succeeds(ev) \/ Fails(ev)) /\ ev.mac = m
    BY <1>3, <2>1 DEF Obsoletes, About
  <2>2. CASE ~((Succeeds(ev) \/ Fails(ev)) /\ ev.mac = m)
    <3>1. ev.id # "BLUETOOTH_ENABLED"
      BY <1>1, <1>5 DEF Good
    <3>2. ev.id = "BLUETOOTH_DISABLED" => power' # On
      BY <1>1, <1>5 DEF Good
    <3> QED
      BY <1>1, <1>5, <2>2, <3>1, <3>2 DEF Good
  <2> QED
    BY <2>1, <2>2
<1>6. new \in GoodEvents' /\ \A ev \in GoodEvents : ev \in GoodEvents' \/ Obsoletes(new, ev)
  BY <1>2, <1>4, <1>5 DEF GoodEvents
<1>7. \A n \in Macs : link'[n] = link[n] \/ About(new, n)
  BY <1>1, <1>3 DEF About
<1> QED
  BY <1>1, <1>2, <1>6, <1>7 DEF Tells, new

LEMMA ConnectedTells ==
  ASSUME TypeInv, NEW m \in Macs, SetLink(m, "CONNECTING", "CONNECTED"),
         Announce(Result(m, 0))
  PROVE  Tells(Result(m, 0))
<1> DEFINE new == bt_handle_event(Result(m, 0))
<1>1. /\ link[m] = "CONNECTING" /\ UNCHANGED <<power, paired>> /\ link'[m] = "CONNECTED"
      /\ \A n \in Macs \ {m} : link'[n] = link[n]
  BY DEF SetLink, TypeInv
<1>2. /\ Result(m, 0) \in SceBtEvents /\ Result(m, 0).id \notin Masked /\ new \in Seen
  BY EventTypes, Announced, HandlerEmits DEF Seen
<1>3. Succeeds(new) /\ new.mac = m /\ ~Fails(new) /\ ~Powers(new)
  BY SeenOfChanges DEF Fails, Succeeds, Powers
<1> HIDE DEF new
<1>4. Good(new)'
  BY <1>1, <1>3 DEF Good, Powers
<1>5. ASSUME NEW ev \in Seen, Good(ev)
      PROVE  Good(ev)' \/ Obsoletes(new, ev)
  <2>1. CASE (Succeeds(ev) \/ Fails(ev)) /\ ev.mac = m
    BY <1>3, <2>1 DEF Obsoletes, About
  <2>2. CASE ~((Succeeds(ev) \/ Fails(ev)) /\ ev.mac = m)
    <3>1. ev.id # "BLUETOOTH_ENABLED"
      BY <1>1, <1>5 DEF Good
    <3>2. ev.id = "BLUETOOTH_DISABLED" => power' # On
      BY <1>1, <1>5 DEF Good
    <3> QED
      BY <1>1, <1>5, <2>2, <3>1, <3>2 DEF Good
  <2> QED
    BY <2>1, <2>2
<1>6. new \in GoodEvents' /\ \A ev \in GoodEvents : ev \in GoodEvents' \/ Obsoletes(new, ev)
  BY <1>2, <1>4, <1>5 DEF GoodEvents
<1>7. \A n \in Macs : link'[n] = link[n] \/ About(new, n)
  BY <1>1, <1>3 DEF About
<1> QED
  BY <1>1, <1>2, <1>6, <1>7 DEF Tells, new

\* Every change of the subsystem is told, by the event it announces.
LEMMA SubsystemTells ==
  ASSUME TypeInv, LinksInv, SubsystemChanges \/ SubsystemEnds
  PROVE  (\E e \in SceBtEvents : Tells(e)) /\ LinksInv'
<1>0. /\ \A p \in {Off, TurningOn, On, TurningOff} : Toggled(p) \in SceBtEvents
      /\ ListChanged \in SceBtEvents
      /\ \A m \in Macs : /\ Disconnected(m) \in SceBtEvents
                         /\ Result(m, 0) \in SceBtEvents /\ Result(m, 4) \in SceBtEvents
      /\ Off # On /\ TurningOff # On /\ TurningOn # On
      /\ TurningOff # Off /\ TurningOff # TurningOn
  BY EventTypes DEF Off, On, TurningOff, TurningOn
<1>1. CASE TurnOff
  <2>1. Toggle(On, TurningOff)
    BY <1>1 DEF TurnOff
  <2> QED
    BY <1>0, <2>1, ToggleTells DEF LinksInv, Toggle
<1>2. CASE TurnOn
  <2>1. Toggle(Off, TurningOn)
    BY <1>2 DEF TurnOn
  <2> QED
    BY <1>0, <2>1, ToggleTells DEF LinksInv, Toggle
<1>3. CASE TurnedOn
  <2>1. Toggle(TurningOn, On)
    BY <1>3 DEF TurnedOn
  <2> QED
    BY <1>0, <2>1, ToggleTells DEF LinksInv, Toggle
<1>4. CASE TurnedOff
  <2>1. Toggle(TurningOff, Off) /\ \A m \in Macs : link[m] = "DISCONNECTED"
    BY <1>4 DEF TurnedOff
  <2> QED
    BY <1>0, <2>1, ToggleTells DEF LinksInv, Toggle
<1>5. ASSUME NEW m \in Macs, ConnectElsewhere(m) \/ Pair(m) \/ Unpair(m)
      PROVE  (\E e \in SceBtEvents : Tells(e)) /\ LinksInv'
  <2>1. power = On /\ power' = On /\ Announce(ListChanged)
    BY <1>5 DEF ConnectElsewhere, Pair, Unpair, SetLink
  <2> QED
    BY <1>0, <2>1, ListChangedTells DEF LinksInv
<1>6. ASSUME NEW m \in Macs, NEW from \in {"CONNECTING", "CONNECTED", "DISCONNECTING"},
             SetLink(m, from, "DISCONNECTED"),
             NEW e \in {Disconnected(m), Result(m, 4)}, Announce(e)
      PROVE  (\E f \in SceBtEvents : Tells(f)) /\ LinksInv'
  <2>1. Tells(e)
    BY <1>6, LinkEndTells
  <2>2. LinksInv'
    BY <1>6 DEF LinksInv, SetLink, TypeInv
  <2> QED
    BY <1>0, <2>1, <2>2
<1>7. ASSUME NEW m \in Macs, DisconnectElsewhere(m)
      PROVE  (\E e \in SceBtEvents : Tells(e)) /\ LinksInv'
  BY <1>6, <1>7 DEF DisconnectElsewhere
<1>8. ASSUME NEW m \in Macs, ConnectEnds(m)
      PROVE  (\E e \in SceBtEvents : Tells(e)) /\ LinksInv'
  <2>1. CASE SetLink(m, "CONNECTING", "CONNECTED") /\ Announce(Result(m, 0))
    <3>1. LinksInv'
      BY <1>0, <1>8, <2>1 DEF ConnectEnds, SetLink, LinksInv
    <3> QED
      BY <1>0, <2>1, <3>1, ConnectedTells
  <2>2. CASE SetLink(m, "CONNECTING", "DISCONNECTED")
             /\ (Announce(Result(m, 4)) \/ Announce(Disconnected(m)))
    BY <1>6, <2>2
  <2> QED
    BY <1>8, <2>1, <2>2 DEF ConnectEnds
<1>9. ASSUME NEW m \in Macs, DisconnectEnds(m)
      PROVE  (\E e \in SceBtEvents : Tells(e)) /\ LinksInv'
  BY <1>6, <1>9 DEF DisconnectEnds
<1>10. ASSUME NEW m \in Macs, DroppedByOff(m)
       PROVE  (\E e \in SceBtEvents : Tells(e)) /\ LinksInv'
  BY <1>6, <1>10 DEF DroppedByOff
<1>11. CASE SubsystemChanges
  BY <1>1, <1>2, <1>5, <1>7, <1>11 DEF SubsystemChanges
<1>12. CASE SubsystemEnds
  BY <1>3, <1>4, <1>8, <1>9, <1>10, <1>12 DEF SubsystemEnds
<1> QED
  BY <1>11, <1>12
------------------------------------------------------------------------------
(* What is known to be wrong stays known.                                   *)

\* No event that waits is forgotten, unless reset() is going to run.
Remembers ==
  /\ ResetDue => ResetDue'
  /\ \A ev \in Waiting : ev \in Waiting' \/ ev = NoVqmbtEvent \/ ResetDue'

\* What changed in the subsystem waits to be told.
Heard ==
  \/ ResetDue'
  \/ /\ paired' = paired
     /\ (power' = On) = (power = On) \/ PowerDue'
     /\ \A m \in Macs : link'[m] = link[m] \/ ~Settled(m)' \/ DeviceDue(m)'

LEMMA RememberedDue ==
  ASSUME Remembers, ~ResetDue'
  PROVE  /\ ~ResetDue /\ (PowerDue => PowerDue')
         /\ \A m : DeviceDue(m) => DeviceDue(m)'
<1>1. \A ev \in Waiting : ev \in Waiting' \/ ev = NoVqmbtEvent
  BY DEF Remembers
<1>2. PowerDue => PowerDue'
  BY <1>1, NothingIsGood DEF PowerDue
<1>3. ASSUME NEW m, DeviceDue(m) PROVE DeviceDue(m)'
  <2>1. PICK ev \in Waiting : About(ev, m)
    BY <1>3 DEF DeviceDue
  <2>2. ev \in Waiting'
    BY <1>1, <2>1, NothingIsGood
  <2> QED
    BY <2>1, <2>2 DEF DeviceDue
<1> QED
  BY <1>2, <1>3 DEF Remembers

\* Steps that leave what was read alone, and buttons.
LEMMA StillRight ==
  ASSUME IInv, ReadInv, ButtonsInv, Remembers, Heard,
         UNCHANGED <<on, list, restored, missed>>,
         tpc' = tpc \/ (tpc = "fetch" /\ tpc' = "handle") \/ tpc' \in {"off", "flush"}
  PROVE  /\ ReadInv'
         /\ tpc' \in {"fetch", "handle"} /\ ~missed' /\ ~ResetDue' =>
              \A i \in Slots : /\ ButtonRight(i, buttons[i])
                               /\ buttons'[i] = buttons[i] => ButtonRight(i, buttons[i])'
<1>1. CASE ResetDue'
  BY <1>1 DEF ReadInv
<1>2. CASE ~ResetDue'
  <2>1. /\ ~ResetDue /\ (PowerDue => PowerDue')
        /\ \A m : DeviceDue(m) => DeviceDue(m)'
    BY <1>2, RememberedDue
  <2>2. /\ paired' = paired
        /\ (power' = On) = (power = On) \/ PowerDue'
        /\ \A m \in Macs : link'[m] = link[m] \/ ~Settled(m)' \/ DeviceDue(m)'
    BY <1>2 DEF Heard
  <2>3. /\ list.macs \in Seq(Macs) /\ Len(list.states) <= Len(list.macs)
        /\ list.states \in Seq(Links) /\ paired \in Seq(Macs)
    BY DEF IInv, TypeInv, DeviceLists
  <2>4. OnRight => OnRight'
    BY <2>1, <2>2 DEF OnRight
  <2>5. ListRight => ListRight'
    BY <2>2 DEF ListRight
  <2>6. StatesRight => StatesRight'
    <3> SUFFICES ASSUME StatesRight, NEW j \in 1..Len(list.states)
                 PROVE  \/ DeviceDue(list.macs[j])' \/ ~Settled(list.macs[j])'
                        \/ list.states[j] = link'[list.macs[j]]
      BY DEF StatesRight
    <3>1. list.macs[j] \in Macs /\ list' = list
      BY <2>3
    <3>2. DeviceDue(list.macs[j]) \/ ~Settled(list.macs[j]) \/ list.states[j] = link[list.macs[j]]
      BY DEF StatesRight
    <3>3. \/ link'[list.macs[j]] = link[list.macs[j]]
          \/ ~Settled(list.macs[j])' \/ DeviceDue(list.macs[j])'
      BY <2>2, <3>1
    <3> QED
      BY <2>1, <3>1, <3>2, <3>3 DEF Settled
  <2>7. ReadInv'
    <3>1. CASE tpc' = tpc
      BY <2>1, <2>4, <2>5, <2>6, <3>1 DEF ReadInv
    <3>2. CASE tpc' \in {"handle", "off", "flush"}
      BY <3>2 DEF ReadInv
    <3> QED
      BY <3>1, <3>2
  <2>8. ASSUME NEW i \in Slots, ButtonRight(i, buttons[i]), buttons'[i] = buttons[i]
        PROVE  ButtonRight(i, buttons[i])'
    <3>1. buttons[i].device.mac = TrueMac(i)'
      BY <2>2, <2>8 DEF ButtonRight, TrueMac
    <3>2. CASE i <= Len(paired)
      <4>1. buttons[i].device.mac \in Macs
        BY <2>3, <2>8, <3>2 DEF ButtonRight, TrueMac, Slots
      <4>2. PowerRight(i, buttons[i])'
        BY <2>1, <2>2, <2>8, <3>2 DEF ButtonRight, PowerRight
      <4>3. DeviceRight(i, buttons[i])'
        <5>0. PICK m \in Macs : m = buttons[i].device.mac /\ m = buttons'[i].device.mac
          BY <2>8, <4>1
        <5>1. link'[m] = link[m] \/ ~Settled(m)' \/ DeviceDue(m)'
          BY <2>2
        <5>2. DeviceRight(i, buttons[i])
          BY <2>8, <3>2 DEF ButtonRight
        <5>3. \/ i \in restored \/ PowerDue \/ buttons[i].btn_state = "BT_OFF_DISABLED"
              \/ m \in ZeroWordMacs \/ DeviceDue(m) \/ ~Settled(m)
              \/ buttons[i].btn_state = link[m] \/ buttons[i].btn_state = "ERROR_DISABLED"
          BY <5>0, <5>2 DEF DeviceRight
        <5>4. ~Settled(m) => ~Settled(m)' \/ DeviceDue(m)'
          BY <5>1 DEF Settled
        <5>5. \/ i \in restored \/ PowerDue' \/ buttons[i].btn_state = "BT_OFF_DISABLED"
              \/ m \in ZeroWordMacs \/ DeviceDue(m)' \/ ~Settled(m)'
              \/ buttons[i].btn_state = link'[m] \/ buttons[i].btn_state = "ERROR_DISABLED"
          BY <2>1, <5>1, <5>3, <5>4
        <5> QED
          BY <2>8, <5>0, <5>5 DEF DeviceRight
      <4> QED
        BY <2>8, <3>1, <4>2, <4>3 DEF ButtonRight
    <3>3. CASE ~(i <= Len(paired))
      BY <2>2, <2>8, <3>1, <3>3 DEF ButtonRight
    <3> QED
      BY <3>2, <3>3
  <2>9. tpc' \in {"fetch", "handle"} /\ ~missed' =>
          \A i \in Slots : ButtonRight(i, buttons[i])
    BY <2>1 DEF ButtonsInv
  <2> QED
    BY <2>7, <2>8, <2>9
<1> QED
  BY <1>1, <1>2

LEMMA ButtonsStillRight ==
  ASSUME IInv, ReadInv, ButtonsInv, Remembers, Heard,
         UNCHANGED <<on, list, buttons, restored, missed>>,
         tpc' = tpc \/ (tpc = "fetch" /\ tpc' = "handle") \/ tpc' \in {"off", "flush"}
  PROVE  ReadInv' /\ ButtonsInv'
BY StillRight DEF ButtonsInv

\* What is told is remembered and heard.
LEMMA ToldIsHeard ==
  ASSUME DataInv, NEW e, Tells(e), UNCHANGED <<ring, overrun, cur>>
  PROVE  Remembers /\ Heard /\ (Resets(bt_handle_event(e)) => ResetDue')
<1> DEFINE new == bt_handle_event(e)
           q == SeenAs(queue)
<1>1. e \in SceBtEvents /\ e.id \notin Masked /\ Announce(e)
  BY DEF Tells
<1>2. CASE lost'
  BY <1>2 DEF Remembers, Heard, ResetDue
<1>3. CASE lost' = lost /\ q' = Append(q, new)
  <2>1. q \in Seq(Seen) /\ new \in Seen
    BY <1>1, WaitingTypes, HandlerEmits DEF Seen
  <2> HIDE DEF new, q
  <2>2. In(q') = In(q) \cup {new}
    BY <1>3, <2>1, InAppend
  <2>3. Waiting' = Waiting \cup {new}
    BY <2>2 DEF Waiting, q
  <2>4. ResetDue => ResetDue'
    BY <1>3, <2>3 DEF ResetDue
  <2>5. Resets(new) => ResetDue'
    BY <2>3 DEF ResetDue
  <2>6. Powers(new) => PowerDue'
    BY <2>3 DEF PowerDue
  <2>7. \A m : About(new, m) => DeviceDue(m)'
    BY <2>3 DEF DeviceDue
  <2>8. \/ Resets(new)
        \/ /\ paired' = paired
           /\ (power' = On) = (power = On) \/ Powers(new)
           /\ \A m \in Macs : link'[m] = link[m] \/ ~Settled(m)' \/ About(new, m)
    BY DEF Tells, new
  <2>9. Remembers
    BY <2>3, <2>4 DEF Remembers
  <2>10. Heard
    BY <2>5, <2>6, <2>7, <2>8 DEF Heard
  <2> QED
    BY <2>5, <2>9, <2>10 DEF new
<1> QED
  BY <1>1, <1>2, <1>3, AnnounceAdds

\* Steps of the buffers.
LEMMA BuffersRemember ==
  ASSUME DataInv, OverrunInv, KernelEvent \/ KernelDropped \/ Fetch
  PROVE  Remembers /\ OverrunInv'
<1> DEFINE q == SeenAs(queue)
<1>1. CASE KernelEvent
  <2>1. /\ queue # <<>> /\ queue' = Tail(queue) /\ Emit(bt_handle_event(Head(queue)))
        /\ lost' = lost /\ cur' = cur
    BY <1>1 DEF KernelEvent, threadvars
  <2>2. q # <<>> /\ q' = Tail(q) /\ Head(q) = bt_handle_event(Head(queue)) /\ q \in Seq(Seen)
        /\ ring \in Seq(Seen)
    BY <2>1, WaitingTypes, SeenTail
  <2>3. In(q) = {Head(q)} \cup In(q') /\ Head(q) \in Seen
    <3> HIDE DEF q
    <3> QED
      BY <2>2, InTail
  <2>4. /\ overrun => overrun'
        /\ overrun' => ring' = <<>>
        /\ \/ overrun'
           \/ Head(q) = NoVqmbtEvent /\ ring' = ring
           \/ ring' = Append(ring, Head(q))
    BY <2>1, <2>2, EmitAdds
  <2>5. CASE overrun'
    BY <2>4, <2>5 DEF Remembers, ResetDue, OverrunInv
  <2>6. CASE ~overrun'
    <3>1. In(ring) \subseteq In(ring') /\ (Head(q) = NoVqmbtEvent \/ Head(q) \in In(ring'))
      <4> DEFINE h == Head(q)
      <4> HIDE DEF h
      <4>1. CASE h = NoVqmbtEvent /\ ring' = ring
        BY <4>1 DEF h
      <4>2. CASE ring' = Append(ring, h)
        BY <2>2, <2>3, <4>2, InAppend DEF h
      <4> QED
        BY <2>4, <2>6, <4>1, <4>2 DEF h
    <3>2. \A ev \in Waiting : ev \in Waiting' \/ ev = NoVqmbtEvent
      BY <2>1, <2>3, <3>1 DEF Waiting
    <3>3. ResetDue => ResetDue'
      BY <2>1, <2>4, <3>2, NothingIsGood DEF ResetDue
    <3> QED
      BY <2>6, <3>2, <3>3 DEF Remembers, OverrunInv
  <2> QED
    BY <2>5, <2>6
<1>2. CASE KernelDropped
  <2>1. Emit(DroppedEvents) /\ ring \in Seq(Seen)
    BY <1>2, WaitingTypes DEF KernelDropped
  <2>2. /\ overrun' => ring' = <<>>
        /\ overrun' \/ ring' = Append(ring, DroppedEvents)
    <3>1. DroppedEvents # NoVqmbtEvent
      BY DEF DroppedEvents, NoVqmbtEvent
    <3> QED
      BY <2>1, <3>1, EmitAdds
  <2>3. CASE ring' = Append(ring, DroppedEvents)
    <3>1. DroppedEvents \in In(ring') /\ Resets(DroppedEvents)
      BY <2>1, <2>3, NothingInGood, InAppend DEF Seen
    <3> QED
      BY <2>2, <3>1 DEF Remembers, ResetDue, Waiting, OverrunInv
  <2> QED
    BY <2>2, <2>3 DEF Remembers, ResetDue, OverrunInv
<1>3. CASE Fetch
  <2>1. /\ ring # <<>> /\ ring' = Tail(ring) /\ cur' = Head(ring) /\ ring \in Seq(Seen)
        /\ UNCHANGED <<queue, lost, overrun>> /\ tpc = "fetch"
    BY <1>3, WaitingTypes DEF Fetch, subvars
  <2>2. In(ring) = {cur'} \cup In(ring')
    BY <2>1, InTail
  <2>3. cur = NoVqmbtEvent
    BY <2>1 DEF DataInv, ThreadInv
  <2>4. \A ev \in Waiting : ev \in Waiting' \/ ev = NoVqmbtEvent
    BY <2>1, <2>2, <2>3 DEF Waiting
  <2>5. ResetDue => ResetDue'
    BY <2>1, <2>4, NothingIsGood DEF ResetDue
  <2> QED
    BY <2>1, <2>4, <2>5 DEF Remembers, OverrunInv
<1> QED
  BY <1>1, <1>2, <1>3
------------------------------------------------------------------------------
(* What the buttons show.                                                   *)

\* The state of a button that shows a connection state.
Shows(state) ==
  CASE state = "DISCONNECTED" -> "DISCONNECTED"
    [] state = "CONNECTED" -> "CONNECTED"
    [] state = "CONNECTING" -> "CONNECTING_DISABLED"
    [] state = "DISCONNECTING" -> "DISCONNECTING_DISABLED"

LEMMA ShowReportedShows ==
  ASSUME NEW b \in QmButton, NEW state \in Links
  PROVE  ShowReported(b, state).button.btn_state = Shows(state)
<1> USE DEF ShowReported, Shows
<1>1. CASE state = "DISCONNECTED"
  BY <1>1, DisconnectedTransition
<1>2. CASE state = "CONNECTED"
  BY <1>2, ConnectedTransition
<1>3. CASE state = "CONNECTING"
  BY <1>3, BusyTransition
<1>4. CASE state = "DISCONNECTING"
  BY <1>4, BusyTransition
<1> QED
  BY <1>1, <1>2, <1>3, <1>4 DEF Links

\* A bulk update shows the state it brings, or that bluetooth is off.
LEMMA BulkUpdateShows ==
  ASSUME NEW b \in QmButton, SlotConsistent(b), NEW r, NEW i \in Slots,
         r.num_devices \in Nat, i <= r.num_devices,
         r.devices[i] \in DeviceInfo, r.devices[i].mac \in Macs, r.devices[i].state \in Links
  PROVE  bulk_update(b, r, i).button.btn_state =
           IF r.bluetooth_on THEN Shows(r.devices[i].state) ELSE "BT_OFF_DISABLED"
<1> DEFINE new == r.devices[i]
           other == new.mac # b.device.mac
           base == IF other THEN [b EXCEPT !.device = new, !.btn_state = "DISCONNECTED"]
                            ELSE b
           told == IF r.bluetooth_on THEN ShowReported(base, new.state)
                                      ELSE transition_state_bt_off(base)
           out == bulk_update(b, r, i)
<1>1. out = [told EXCEPT !.changed = @ \/ other]
  <2>1. ~(i > r.num_devices)
    BY DEF Slots
  <2> QED
    BY <2>1 DEF bulk_update
<1>2. new.state \in Links /\ new.state \in SceStates /\ new.mac \in Macs
  BY DEF Links, SceStates
<1>3. base \in QmButton
  BY DEF QmButton, BtnStates
<1>4. base.btn_state # "SLOT_EMPTY_DISABLED"
  BY <1>2, MacsAssumption DEF QmButton, SlotConsistent
<1>5. Transition(base, told)
  BY <1>2, <1>3, ShowReportedTransition, BtOffTransition
<1> HIDE DEF base, new, other
<1>6. told.button.btn_state = IF r.bluetooth_on THEN Shows(new.state) ELSE "BT_OFF_DISABLED"
  BY <1>2, <1>3, <1>4, ShowReportedShows, BtOffTransition
<1>7. out.button = told.button
  BY <1>1, <1>5 DEF Transition, Outcome
<1> QED
  BY <1>6, <1>7 DEF new
------------------------------------------------------------------------------
(* reset().                                                                 *)

\* A read tells what is so now.
LEMMA ReadStepsRight ==
  ASSUME IInv, ReadInv, ReadPower \/ ReadList \/ ReadState
  PROVE  ReadInv' /\ ButtonsInv'
<1>1. UNCHANGED <<power, paired, link, queue, lost, ring, overrun, cur>>
      /\ tpc' \notin {"fetch", "handle"}
  BY DEF ReadPower, ReadList, ReadState, subvars, ringvars
<1>2. (ResetDue' <=> ResetDue) /\ (PowerDue' <=> PowerDue)
      /\ \A m : DeviceDue(m)' <=> DeviceDue(m)
  BY <1>1 DEF ResetDue, PowerDue, DeviceDue, Waiting
<1>3. ButtonsInv'
  BY <1>1 DEF ButtonsInv
<1>4. CASE ReadPower
  <2>1. tpc' = "list" /\ on' = (power = On)
    BY <1>4 DEF ReadPower
  <2> QED
    BY <1>1, <1>3, <2>1 DEF ReadInv, OnRight
<1>5. CASE ReadList
  <2>1. /\ tpc = "list" /\ list'.macs = paired /\ on' = on
        /\ Len(list'.states) = 0
    BY <1>5 DEF ReadList
  <2>2. ListRight' /\ StatesRight'
    BY <1>1, <2>1 DEF ListRight, StatesRight
  <2> QED
    BY <1>1, <1>2, <1>3, <2>1, <2>2 DEF ReadInv, OnRight
<1>6. CASE ReadState
  <2> DEFINE next == Len(list.states) + 1
             st == link[list.macs[next]]
  <2>1. /\ tpc = "states" /\ tpc' = tpc /\ on' = on
        /\ list' = [list EXCEPT !.states = Append(list.states, st)]
    BY <1>6 DEF ReadState
  <2>2. list \in DeviceLists
    BY DEF IInv, TypeInv
  <2> HIDE DEF st
  <2>3. list'.macs = list.macs /\ list'.states = Append(list.states, st)
    BY <2>1, <2>2 DEF DeviceLists
  <2>4. /\ Len(list.states) \in Nat /\ Len(list'.states) = next /\ list'.states[next] = st
        /\ \A j \in 1..Len(list.states) : list'.states[j] = list.states[j]
    <3> DEFINE t == Append(list.states, st)
    <3>1. /\ Len(list.states) \in Nat /\ Len(t) = next /\ t[next] = st
          /\ \A j \in 1..Len(list.states) : t[j] = list.states[j]
      BY <2>2 DEF DeviceLists
    <3> HIDE DEF t
    <3> QED
      BY <2>3, <3>1 DEF t
  <2>5. StatesRight => StatesRight'
    <3> SUFFICES ASSUME StatesRight, NEW j \in 1..next
                 PROVE  \/ DeviceDue(list.macs[j])' \/ ~Settled(list.macs[j])'
                        \/ list'.states[j] = link'[list'.macs[j]]
      BY <2>4 DEF StatesRight
    <3>1. CASE j = next
      BY <1>1, <2>3, <2>4, <3>1 DEF st
    <3>2. CASE j \in 1..Len(list.states)
      BY <1>1, <1>2, <2>3, <2>4, <3>2 DEF StatesRight, Settled, DeviceDue, Waiting
    <3> QED
      BY <2>4, <3>1, <3>2
  <2>6. ListRight => ListRight'
    BY <1>1, <2>3 DEF ListRight
  <2> QED
    BY <1>1, <1>2, <1>3, <2>1, <2>5, <2>6 DEF ReadInv, OnRight
<1> QED
  BY <1>4, <1>5, <1>6

\* The bulk update shows what was read.
LEMMA UpdateRight ==
  ASSUME IInv, DataInv, ReadInv, ErrorInv, Update
  PROVE  ReadInv' /\ ButtonsInv' /\ ErrorInv'
<1> DEFINE r == BulkUpdate
           n == Len(list.macs)
<1>1. /\ tpc = "states" /\ tpc' = "fetch" /\ Len(list.states) = n
      /\ buttons' = [i \in Slots |-> bulk_update(buttons[i], r, i).button]
      /\ UNCHANGED <<power, paired, link, queue, lost, ring, overrun, cur>>
  BY DEF Update, subvars, ringvars
<1>2. (ResetDue' <=> ResetDue) /\ (PowerDue' <=> PowerDue)
      /\ \A m : DeviceDue(m)' <=> DeviceDue(m)
  BY <1>1 DEF ResetDue, PowerDue, DeviceDue, Waiting
<1>3. /\ list.macs \in Seq(Macs) /\ list.states \in Seq(Links) /\ n \in Nat
      /\ \A i \in Slots : buttons[i] \in QmButton /\ SlotConsistent(buttons[i])
  BY DEF IInv, TypeInv, SlotInv, DeviceLists
<1>4. r.num_devices = n /\ r.bluetooth_on = on
  BY DEF BulkUpdate
<1>5. \A i \in Slots : r.devices[i] = IF i <= n
                                      THEN [mac |-> list.macs[i], state |-> list.states[i]]
                                      ELSE ZeroDevice
  BY DEF BulkUpdate
<1> HIDE DEF r
<1>6. ASSUME NEW i \in Slots, i <= n
      PROVE  /\ buttons'[i].device.mac = list.macs[i] /\ list.macs[i] \in Macs
             /\ list.states[i] \in Links
             /\ buttons'[i].btn_state = IF on THEN Shows(list.states[i]) ELSE "BT_OFF_DISABLED"
  <2>1. i \in 1..n
    BY <1>3, <1>6 DEF Slots
  <2>2. list.macs[i] \in Macs /\ list.states[i] \in Links /\ list.states[i] \in SceStates
    BY <1>1, <1>3, <2>1 DEF Links, SceStates
  <2>3. r.devices[i] = [mac |-> list.macs[i], state |-> list.states[i]]
    BY <1>5, <1>6
  <2>4. r.devices[i] \in DeviceInfo /\ r.devices[i].mac = list.macs[i]
        /\ r.devices[i].state = list.states[i]
    BY <2>2, <2>3 DEF DeviceInfo
  <2>5. ~(i > r.num_devices) /\ i <= r.num_devices /\ r.num_devices \in Nat
    BY <1>3, <1>4, <1>6 DEF Slots
  <2>6. bulk_update(buttons[i], r, i).button.device.mac = list.macs[i]
    BY <1>3, <2>2, <2>4, <2>5, BulkUpdateSlot
  <2>7. bulk_update(buttons[i], r, i).button.btn_state =
          IF on THEN Shows(list.states[i]) ELSE "BT_OFF_DISABLED"
    BY <1>3, <1>4, <2>2, <2>4, <2>5, BulkUpdateShows
  <2> QED
    BY <1>1, <2>2, <2>6, <2>7
<1>7. ASSUME NEW i \in Slots, ~(i <= n)
      PROVE  buttons'[i].device.mac = NoMac /\ buttons'[i].btn_state = "SLOT_EMPTY_DISABLED"
  <2>1. i > r.num_devices
    BY <1>3, <1>4, <1>7 DEF Slots
  <2>2. bulk_update(buttons[i], r, i) = bulk_updated_remove_device(buttons[i])
    BY <2>1 DEF bulk_update
  <2> QED
    BY <1>1, <1>3, <2>2, RemoveDevice
<1>8. ErrorInv'
  <2> SUFFICES ASSUME NEW i \in Slots PROVE buttons'[i].btn_state # "ERROR_DISABLED"
    BY DEF ErrorInv
  <2> QED
    BY <1>6, <1>7 DEF Shows, Links
<1>9. ReadInv'
  BY <1>1 DEF ReadInv
<1>10. ButtonsInv'
  <2> SUFFICES ASSUME ~ResetDue, NEW i \in Slots PROVE ButtonRight(i, buttons[i])'
    BY <1>2 DEF ButtonsInv
  <2>1. OnRight /\ ListRight /\ StatesRight
    BY <1>1 DEF ReadInv
  <2>2. list.macs = paired /\ paired' = paired
    BY <1>1, <2>1 DEF ListRight
  <2>3. CASE i <= n
    <3>1. buttons'[i].device.mac = TrueMac(i)'
      BY <1>6, <2>2, <2>3 DEF TrueMac
    <3>2. CASE PowerDue
      BY <1>2, <3>1, <3>2 DEF ButtonRight, PowerRight, DeviceRight
    <3>3. CASE ~PowerDue
      <4>1. on = (power = On)
        BY <2>1, <3>3 DEF OnRight
      <4>2. list.states[i] \in Links /\ Shows(list.states[i]) # "BT_OFF_DISABLED"
        BY <1>6, <2>3 DEF Links, Shows
      <4>3. (buttons'[i].btn_state = "BT_OFF_DISABLED") = (power' # On)
        BY <1>1, <1>6, <2>3, <4>1, <4>2
      <4>4. PowerRight(i, buttons[i])'
        BY <4>3 DEF PowerRight
      <4>5. DeviceRight(i, buttons[i])'
        <5>0. i \in 1..n
          BY <1>3, <2>3 DEF Slots
        <5>1. PICK m \in Macs : m = list.macs[i] /\ m = buttons'[i].device.mac
          BY <1>6, <2>3
        <5>2. DeviceDue(m) \/ ~Settled(m) \/ list.states[i] = link[m]
          BY <1>1, <2>1, <5>0, <5>1 DEF StatesRight
        <5>3. Settled(m)' <=> Settled(m)
          BY <1>1 DEF Settled
        <5>4. CASE buttons'[i].btn_state = "BT_OFF_DISABLED"
          BY <5>4 DEF DeviceRight
        <5>5. CASE buttons'[i].btn_state = Shows(list.states[i])
          <6>1. Settled(m) /\ list.states[i] = link[m] => Shows(list.states[i]) = link[m]
            BY DEF Settled, Shows
          <6> QED
            BY <1>1, <1>2, <5>1, <5>2, <5>3, <5>5, <6>1 DEF DeviceRight
        <5> QED
          BY <1>6, <2>3, <5>4, <5>5
      <4> QED
        BY <3>1, <4>4, <4>5 DEF ButtonRight
    <3> QED
      BY <3>2, <3>3
  <2>4. CASE ~(i <= n)
    <3>1. buttons'[i].device.mac = TrueMac(i)' /\ ~(i <= Len(paired'))
      BY <1>7, <2>2, <2>4 DEF TrueMac
    <3> QED
      BY <3>1 DEF ButtonRight
  <2> QED
    BY <2>3, <2>4
<1> QED
  BY <1>8, <1>9, <1>10
------------------------------------------------------------------------------
(* Handled events and presses.                                              *)

\* What an event does to a button that shows a device.
LEMMA EventShows ==
  ASSUME NEW b \in QmButton, b.btn_state # "SLOT_EMPTY_DISABLED"
  PROVE  /\ b.device.state = "DISCONNECTED" =>
              transition_state_bt_on(b).button.btn_state = "DISCONNECTED"
         /\ transition_state_bt_on(b).button.btn_state # "ERROR_DISABLED"
         /\ transition_state_bt_off(b).button.btn_state = "BT_OFF_DISABLED"
         /\ transition_state_connected(b, FALSE).button.btn_state =
              IF b.btn_state = "BT_OFF_DISABLED" THEN "BT_OFF_DISABLED" ELSE "CONNECTED"
         /\ transition_state_disconnected(b, FALSE).button.btn_state =
              IF b.btn_state = "BT_OFF_DISABLED" THEN "BT_OFF_DISABLED" ELSE "DISCONNECTED"
<1>1. b.device.state \in SceStates
  BY DEF QmButton, DeviceInfo
<1>2. /\ transition_state_connected(b, FALSE).button.btn_state =
              IF b.btn_state = "BT_OFF_DISABLED" THEN "BT_OFF_DISABLED" ELSE "CONNECTED"
      /\ transition_state_disconnected(b, FALSE).button.btn_state =
              IF b.btn_state = "BT_OFF_DISABLED" THEN "BT_OFF_DISABLED" ELSE "DISCONNECTED"
      /\ transition_state_disconnected(b, TRUE).button.btn_state = "DISCONNECTED"
      /\ transition_state_busy_connecting(b).button.btn_state = "CONNECTING_DISABLED"
      /\ transition_state_busy_disconnecting(b).button.btn_state = "DISCONNECTING_DISABLED"
  BY ConnectedTransition, DisconnectedTransition, BusyTransition
<1>3. \/ /\ b.device.state = "DISCONNECTED"
         /\ transition_state_bt_on(b) = transition_state_disconnected(b, TRUE)
      \/ /\ b.device.state # "DISCONNECTED"
         /\ transition_state_bt_on(b) \in
              {transition_state_busy_connecting(b), transition_state_busy_disconnecting(b),
               transition_state_connected(b, FALSE), transition_state_disconnected(b, FALSE)}
  BY <1>1 DEF transition_state_bt_on, SceStates
<1>4. transition_state_bt_off(b).button.btn_state = "BT_OFF_DISABLED"
  BY BtOffTransition
<1> QED
  BY <1>2, <1>3, <1>4

LEMMA EmptyStaysEmpty ==
  ASSUME NEW b \in QmButton, b.btn_state = "SLOT_EMPTY_DISABLED"
  PROVE  /\ transition_state_bt_on(b).button = b
         /\ transition_state_bt_off(b).button = b
BY DEF transition_state_bt_on, transition_state_bt_off, Kept

\* The search for the device of a right button ends at that button.
LEMMA DeviceFound ==
  ASSUME DataInv, NEW i \in Slots, i <= Len(paired),
         \A j \in Slots : buttons[j].device.mac = TrueMac(j),
         paired[i] \notin ZeroWordMacs
  PROVE  mac_to_idx(buttons, paired[i], i)
<1>1. /\ paired \in Seq(Macs) /\ Len(paired) \in Nat
      /\ \A j, k \in 1..Len(paired) : paired[j] = paired[k] => j = k
  BY ListsAre DEF DataInv, PairedInv
<1>2. i \in 1..Len(paired) /\ paired[i] \in Macs /\ buttons[i].device.mac = paired[i]
  BY <1>1 DEF Slots, TrueMac
<1>3. ASSUME NEW j \in 1..(i - 1) PROVE buttons[j].device.mac # paired[i]
  <2>1. j \in 1..Len(paired) /\ j \in Slots /\ j # i /\ j <= Len(paired)
    BY <1>1, <1>2, MaxDevicesAssumption DEF Slots
  <2> QED
    BY <1>1, <1>2, <2>1 DEF TrueMac
<1> QED
  BY <1>2, <1>3, MacsAssumption DEF mac_to_idx

\* The power event that is handled is true, or another one comes.
LEMMA PowerEventRight ==
  ASSUME IInv, DataInv, HandleEvent, Powers(cur), Good(cur) \/ PowerDue',
         NEW i \in Slots, ButtonRight(i, buttons[i])
  PROVE  ButtonRight(i, buttons[i])'
<1> DEFINE b == buttons[i]
           c == buttons'[i]
<1>1. /\ UNCHANGED <<power, paired, link>>
      /\ b \in QmButton /\ SlotConsistent(b) /\ c.device = b.device
  BY HandleEventKeeps DEF HandleEvent, subvars, IInv, TypeInv, SlotInv, Keeps, SameDevices
<1>2. c.device.mac = TrueMac(i)'
  BY <1>1 DEF ButtonRight, TrueMac
<1>3. CASE PowerDue'
  BY <1>2, <1>3 DEF ButtonRight, PowerRight, DeviceRight
<1>4. CASE Good(cur) /\ i <= Len(paired)
  <2>1. b.device.mac = paired[i] /\ b.device.mac \in Macs
    BY <1>4 DEF ButtonRight, TrueMac, IInv, TypeInv, Slots
  <2>2. b.btn_state # "SLOT_EMPTY_DISABLED"
    BY <1>1, <2>1, MacsAssumption DEF SlotConsistent
  <2>3. CASE cur.id = "BLUETOOTH_ENABLED"
    <3>1. qm_handle_event(cur) = [id |-> "BLUETOOTH_ON"]
      BY <2>3 DEF qm_handle_event
    <3>2. /\ c = transition_state_bt_on(b).button
          /\ restored' = restored \cup
               {j \in Slots : /\ buttons[j].btn_state # "SLOT_EMPTY_DISABLED"
                              /\ buttons[j].device.state # "DISCONNECTED"}
      BY <3>1 DEF HandleEvent
    <3>3. power' = On /\ link'[b.device.mac] = "DISCONNECTED"
      BY <1>1, <1>4, <2>1, <2>3 DEF Good
    <3>4. CASE b.device.state # "DISCONNECTED"
      <4>1. i \in restored'
        BY <2>2, <3>2, <3>4
      <4> QED
        BY <1>1, <1>2, <3>3, <4>1 DEF ButtonRight, PowerRight, DeviceRight
    <3>5. CASE b.device.state = "DISCONNECTED"
      <4>1. c.btn_state = "DISCONNECTED"
        BY <1>1, <2>2, <3>2, <3>5, EventShows
      <4> QED
        BY <1>1, <1>2, <3>3, <4>1 DEF ButtonRight, PowerRight, DeviceRight
    <3> QED
      BY <3>4, <3>5
  <2>4. CASE cur.id = "BLUETOOTH_DISABLED"
    <3>1. qm_handle_event(cur) = [id |-> "BLUETOOTH_OFF"]
      BY <2>4 DEF qm_handle_event
    <3>2. c = transition_state_bt_off(b).button
      BY <3>1 DEF HandleEvent
    <3>3. power' # On /\ c.btn_state = "BT_OFF_DISABLED"
      BY <1>1, <1>4, <2>2, <2>4, <3>2, EventShows DEF Good
    <3> QED
      BY <1>2, <3>3 DEF ButtonRight, PowerRight, DeviceRight
  <2> QED
    BY <2>3, <2>4 DEF Powers
<1>5. CASE ~(i <= Len(paired))
  BY <1>1, <1>2, <1>5 DEF ButtonRight
<1> QED
  BY <1>3, <1>4, <1>5

\* The device event that is handled is true, or another one about the device comes.
LEMMA DeviceEventRight ==
  ASSUME IInv, DataInv, HandleEvent, Succeeds(cur) \/ Fails(cur),
         \A m : m = cur.mac => Good(cur) \/ DeviceDue(m)',
         PowerDue => PowerDue',
         \A m : DeviceDue(m) /\ m # cur.mac => DeviceDue(m)',
         \A j \in Slots : ButtonRight(j, buttons[j]), NEW i \in Slots
  PROVE  ButtonRight(i, buttons[i])'
<1> DEFINE b == buttons[i]
           c == buttons'[i]
<1>1. /\ UNCHANGED <<power, paired, link>> /\ restored' = restored
      /\ b \in QmButton /\ SlotConsistent(b) /\ c.device = b.device
  <2>1. UNCHANGED <<power, paired, link>>
    BY DEF HandleEvent, subvars
  <2>2. restored' = restored
    BY DEF HandleEvent, qm_handle_event, Succeeds, Fails
  <2> QED
    BY <2>1, <2>2, HandleEventKeeps DEF IInv, TypeInv, SlotInv, Keeps, SameDevices
<1>2. c.device.mac = TrueMac(i)' /\ ButtonRight(i, b)
  BY <1>1 DEF ButtonRight, TrueMac
<1>3. CASE ~(i <= Len(paired))
  BY <1>1, <1>2, <1>3 DEF ButtonRight
<1>4. CASE i <= Len(paired)
  <2>1. PICK m \in Macs : m = b.device.mac /\ m = c.device.mac /\ m = paired[i]
    BY <1>1, <1>2, <1>4 DEF ButtonRight, TrueMac, IInv, TypeInv, Slots
  <2>2. b.btn_state # "SLOT_EMPTY_DISABLED"
    BY <1>1, <2>1, MacsAssumption DEF SlotConsistent
  <2>3. c = IF mac_to_idx(buttons, cur.mac, i)
            THEN IF Succeeds(cur) THEN transition_state_connected(b, FALSE).button
                                  ELSE transition_state_disconnected(b, FALSE).button
            ELSE b
    <3>1. CASE Succeeds(cur)
      <4>1. qm_handle_event(cur).id = "DEVICE_CONNECTED" /\ qm_handle_event(cur).mac = cur.mac
        BY <3>1 DEF qm_handle_event, Succeeds
      <4>2. buttons' = [j \in Slots |-> IF mac_to_idx(buttons, cur.mac, j)
                                        THEN transition_state_connected(buttons[j], FALSE).button
                                        ELSE buttons[j]]
        BY <4>1 DEF HandleEvent
      <4> QED
        BY <3>1, <4>2
    <3>2. CASE Fails(cur)
      <4>1. qm_handle_event(cur).id = "DEVICE_DISCONNECTED" /\ qm_handle_event(cur).mac = cur.mac
        BY <3>2 DEF qm_handle_event, Fails
      <4>2. buttons' = [j \in Slots |-> IF mac_to_idx(buttons, cur.mac, j)
                                        THEN transition_state_disconnected(buttons[j], FALSE).button
                                        ELSE buttons[j]]
        BY <4>1 DEF HandleEvent
      <4>3. ~Succeeds(cur)
        BY <3>2 DEF Succeeds, Fails
      <4> QED
        BY <4>2, <4>3
    <3> QED
      BY <3>1, <3>2
  <2>4. (c.btn_state = "BT_OFF_DISABLED") = (b.btn_state = "BT_OFF_DISABLED")
    BY <1>1, <2>2, <2>3, EventShows
  <2>5. PowerRight(i, buttons[i])'
    <3>1. PowerRight(i, b)
      BY <1>2, <1>4 DEF ButtonRight
    <3> QED
      BY <1>1, <2>4, <3>1 DEF PowerRight
  <2>6. DeviceRight(i, buttons[i])'
    <3>1. CASE m # cur.mac
      <4>1. c = b
        BY <2>1, <2>3, <3>1 DEF mac_to_idx
      <4>2. DeviceRight(i, b)
        BY <1>2, <1>4 DEF ButtonRight
      <4> QED
        BY <1>1, <2>1, <3>1, <4>1, <4>2 DEF DeviceRight, Settled
    <3>2. CASE m = cur.mac /\ m \in ZeroWordMacs
      BY <2>1, <3>2 DEF DeviceRight
    <3>3. CASE DeviceDue(m)'
      BY <2>1, <3>3 DEF DeviceRight
    <3>4. CASE m = cur.mac /\ m \notin ZeroWordMacs /\ Good(cur)
      <4>1. mac_to_idx(buttons, cur.mac, i)
        BY <1>4, <2>1, <3>4, DeviceFound DEF ButtonRight
      <4>2. CASE b.btn_state = "BT_OFF_DISABLED"
        BY <2>4, <4>2 DEF DeviceRight
      <4>3. CASE b.btn_state # "BT_OFF_DISABLED" /\ Succeeds(cur)
        <5>1. c.btn_state = "CONNECTED"
          BY <1>1, <2>2, <2>3, <4>1, <4>3, EventShows
        <5>2. link[m] # "DISCONNECTED"
          BY <3>4, <4>3 DEF Good
        <5>3. ~Settled(m)' \/ c.btn_state = link'[m]
          BY <1>1, <5>1, <5>2 DEF Settled
        <5> QED
          BY <2>1, <5>3 DEF DeviceRight
      <4>4. CASE b.btn_state # "BT_OFF_DISABLED" /\ ~Succeeds(cur)
        <5>1. c.btn_state = "DISCONNECTED"
          BY <1>1, <2>2, <2>3, <4>1, <4>4, EventShows
        <5>2. link[m] # "CONNECTED"
          BY <3>4, <4>4 DEF Good
        <5>3. ~Settled(m)' \/ c.btn_state = link'[m]
          BY <1>1, <5>1, <5>2 DEF Settled
        <5> QED
          BY <2>1, <5>3 DEF DeviceRight
      <4> QED
        BY <4>2, <4>3, <4>4
    <3> QED
      BY <3>1, <3>2, <3>3, <3>4
  <2> QED
    BY <1>2, <2>5, <2>6 DEF ButtonRight
<1> QED
  BY <1>3, <1>4

\* An event is handled.
LEMMA HandleEventRight ==
  ASSUME IInv, DataInv, EventsInv, ReadInv, ButtonsInv, HandleEvent
  PROVE  ReadInv' /\ ButtonsInv'
<1> DEFINE rest == In(ring) \cup In(SeenAs(queue))
<1>1. /\ tpc = "handle" /\ cur' = NoVqmbtEvent /\ cur \in VqmbtEventRecords
      /\ tpc' = IF qm_handle_event(cur).id = "RESET" THEN "flush" ELSE "fetch"
      /\ UNCHANGED <<power, paired, link, queue, lost, ring, overrun, missed>>
  BY DEF HandleEvent, subvars, ringvars, DataInv, ThreadInv
<1>2. ReadInv'
  BY <1>1 DEF ReadInv
<1>3. ButtonsInv'
  <2> SUFFICES ASSUME tpc' = "fetch", ~missed, ~ResetDue', NEW i \in Slots
               PROVE  ButtonRight(i, buttons[i])'
    BY <1>1 DEF ButtonsInv
  <2>1. Waiting = {cur} \cup rest /\ Waiting' = {NoVqmbtEvent} \cup rest
    BY <1>1 DEF Waiting
  <2> HIDE DEF rest
  <2>2. ~Resets(cur)
    <3>1. Resets(cur) => qm_handle_event(cur).id = "RESET"
      BY DEF Resets, qm_handle_event
    <3> QED
      BY <1>1, <3>1
  <2>3. ~ResetDue /\ ~lost /\ ~overrun /\ \A ev \in rest : ~Resets(ev)
    BY <1>1, <2>1, <2>2 DEF ResetDue
  <2>4. \A j \in Slots : ButtonRight(j, buttons[j])
    BY <1>1, <2>3 DEF ButtonsInv
  <2>5. Good(cur) \/ \E ev \in rest : Obsoletes(ev, cur)
    <3>1. Fit(<<cur>>, GoodEvents, rest)
      BY <2>3 DEF EventsInv, CurFit, rest
    <3> QED
      BY <3>1, FitOne DEF GoodEvents
  <2>6. \/ Good(cur)
        \/ \E ev \in rest : \/ Powers(ev) /\ Powers(cur)
                            \/ (Succeeds(cur) \/ Fails(cur)) /\ About(ev, cur.mac)
    BY <2>3, <2>5 DEF Obsoletes
  <2>7. CASE Powers(cur)
    <3>1. ~Succeeds(cur) /\ ~Fails(cur)
      BY <2>7 DEF Powers, Succeeds, Fails
    <3>2. Good(cur) \/ PowerDue'
      BY <2>1, <2>6, <3>1 DEF PowerDue
    <3> QED
      BY <2>4, <2>7, <3>2, PowerEventRight
  <2>8. CASE Succeeds(cur) \/ Fails(cur)
    <3>1. ~Powers(cur)
      BY <2>8 DEF Powers, Succeeds, Fails
    <3>2. \A m : m = cur.mac => Good(cur) \/ DeviceDue(m)'
      BY <2>1, <2>6, <3>1 DEF DeviceDue
    <3>3. PowerDue => PowerDue'
      BY <2>1, <3>1 DEF PowerDue
    <3>4. \A m : DeviceDue(m) /\ m # cur.mac => DeviceDue(m)'
      BY <2>1 DEF DeviceDue, About
    <3> QED
      BY <2>4, <2>8, <3>2, <3>3, <3>4, DeviceEventRight
  <2>9. Resets(cur) \/ Powers(cur) \/ Succeeds(cur) \/ Fails(cur)
    BY <1>1 DEF VqmbtEventRecords, VqmbtEventIds, Resets, Powers, Succeeds, Fails
  <2> QED
    BY <2>2, <2>7, <2>8, <2>9
<1> QED
  BY <1>2, <1>3

LEMMA HandleEventErrors ==
  ASSUME IInv, ErrorInv, HandleEvent
  PROVE  ErrorInv'
<1> SUFFICES ASSUME NEW i \in Slots, buttons'[i].btn_state = "ERROR_DISABLED"
             PROVE  buttons'[i] = buttons[i]
  BY DEF ErrorInv
<1>1. buttons[i] \in QmButton /\ SlotConsistent(buttons[i])
  BY DEF IInv, TypeInv, SlotInv
<1>2. \/ buttons'[i] = buttons[i]
      \/ buttons'[i] = transition_state_bt_on(buttons[i]).button
      \/ buttons'[i] = transition_state_bt_off(buttons[i]).button
      \/ /\ mac_to_idx(buttons, qm_handle_event(cur).mac, i)
         /\ buttons'[i] \in {transition_state_connected(buttons[i], FALSE).button,
                             transition_state_disconnected(buttons[i], FALSE).button}
  BY DEF HandleEvent
<1>3. CASE buttons[i].btn_state = "SLOT_EMPTY_DISABLED"
  <2>1. ~mac_to_idx(buttons, qm_handle_event(cur).mac, i)
    BY <1>1, <1>3 DEF mac_to_idx, SlotConsistent
  <2> QED
    BY <1>1, <1>2, <1>3, <2>1, EmptyStaysEmpty
<1>4. CASE buttons[i].btn_state # "SLOT_EMPTY_DISABLED"
  BY <1>1, <1>2, <1>4, EventShows
<1> QED
  BY <1>3, <1>4

\* A press that began a connection has the thread run reset(); one that ends a
\* connection makes it unsettled; a refused one shows an error.
LEMMA PressRight ==
  ASSUME IInv, DataInv, EventsInv, LinksInv, ErrorInv, ReadInv, ButtonsInv, Press
  PROVE  EventsInv' /\ LinksInv' /\ ErrorInv' /\ ReadInv' /\ ButtonsInv'
<1> DEFINE i == touched.slot
           b == buttons[i]
           m == b.device.mac
<1>1. /\ UNCHANGED <<ring, overrun, tpc, cur, on, list, restored, missed>>
      /\ i \in Slots /\ b \in QmButton /\ SlotConsistent(b)
      /\ buttons \in [Slots -> QmButton] /\ link \in [Macs -> Links]
  BY DEF Press, ringvars, threadvars, history, IInv, TypeInv, SlotInv
<1>2. \A j \in Slots : buttons'[j].device = buttons[j].device
  BY PressKeeps DEF Keeps, SameDevices
<1>3. CASE Announce(ListChanged) /\ power = On /\ power' = On
           /\ buttons' = [buttons EXCEPT ![i] = transition_state_busy_connecting(b).button]
  <2>1. ListChanged \in SceBtEvents /\ ListChanged.id \notin Masked
    BY EventTypes, Announced
  <2>2. Tells(ListChanged)
    BY <1>3, ListChangedTells
  <2>3. EventsInv'
    BY <1>1, <1>3, <2>1, <2>2, AnnounceFits DEF Tells
  <2>4. ResetDue'
    BY <1>1, <2>2, ToldIsHeard, SeenOfChanges DEF Resets
  <2>5. LinksInv'
    BY <1>3 DEF LinksInv, On, Off, TurningOn
  <2>6. transition_state_busy_connecting(b).button.btn_state # "ERROR_DISABLED"
    BY <1>1, BusyTransition
  <2>7. ErrorInv'
    BY <1>1, <1>3, <2>6 DEF ErrorInv
  <2> QED
    BY <2>3, <2>4, <2>5, <2>7 DEF ReadInv, ButtonsInv
<1>4. ASSUME UNCHANGED <<power, paired, queue, lost>>,
             link' = link \/ (/\ power = On /\ m \in Macs /\ link[m] = "CONNECTED"
                              /\ link' = [link EXCEPT ![m] = "DISCONNECTING"]),
             NEW c \in QmButton, buttons' = [buttons EXCEPT ![i] = c],
             \/ c = b /\ link' = link
             \/ /\ b.btn_state # "BT_OFF_DISABLED" /\ c.btn_state # "BT_OFF_DISABLED"
                /\ \/ c.btn_state = "ERROR_DISABLED" /\ c.error_message = "OTHER"
                   \/ c.btn_state = "DISCONNECTING_DISABLED" /\ link' # link
      PROVE  EventsInv' /\ LinksInv' /\ ErrorInv' /\ ReadInv' /\ ButtonsInv'
  <2>1. /\ buttons'[i] = c /\ c.device = b.device
        /\ \A j \in Slots \ {i} : buttons'[j] = buttons[j]
    BY <1>1, <1>2, <1>4
  <2>2. GoodEvents \subseteq GoodEvents'
    <3> SUFFICES ASSUME NEW ev, Good(ev) PROVE Good(ev)'
      BY DEF GoodEvents
    <3> QED
      BY <1>1, <1>4 DEF Good
  <2>3. EventsInv'
    <3>1. \A s, behind : Fit(s, GoodEvents, behind) => Fit(s, GoodEvents', behind)
      BY <2>2 DEF Fit
    <3> QED
      BY <1>1, <1>4, <3>1 DEF EventsInv, QueueFit, RingFit, CurFit
  <2>4. LinksInv'
    BY <1>4 DEF LinksInv, On, Off, TurningOn
  <2>5. ErrorInv'
    BY <1>1, <1>4, <2>1 DEF ErrorInv
  <2>6. Remembers /\ Heard
    <3>1. Waiting' = Waiting
      BY <1>1, <1>4 DEF Waiting
    <3>2. \A n \in Macs : link'[n] = link[n] \/ ~Settled(n)'
      BY <1>1, <1>4 DEF Settled
    <3> QED
      BY <1>1, <1>4, <3>1, <3>2 DEF Remembers, Heard, ResetDue
  <2>7. /\ ReadInv'
        /\ tpc' \in {"fetch", "handle"} /\ ~missed' /\ ~ResetDue' =>
             \A j \in Slots : /\ ButtonRight(j, buttons[j])
                              /\ buttons'[j] = buttons[j] => ButtonRight(j, buttons[j])'
    BY <1>1, <2>6, StillRight
  <2>8. ButtonsInv'
    <3> SUFFICES ASSUME tpc' \in {"fetch", "handle"}, ~missed', ~ResetDue', NEW j \in Slots
                 PROVE  ButtonRight(j, buttons[j])'
      BY DEF ButtonsInv
    <3>1. CASE buttons'[j] = buttons[j]
      BY <2>7, <3>1
    <3>2. CASE buttons'[j] # buttons[j]
      <4>1. j = i /\ c # b
        BY <2>1, <3>2
      <4>2. ButtonRight(i, b)
        BY <1>1, <2>7
      <4>3. /\ buttons'[j] = c /\ c.device.mac = TrueMac(j)'
            /\ j <= Len(paired') => PowerRight(j, b)
        BY <1>4, <2>1, <4>1, <4>2 DEF ButtonRight, TrueMac
      <4>4. PowerDue' <=> PowerDue
        BY <1>1, <1>4 DEF PowerDue, Waiting
      <4>5. j <= Len(paired') => PowerRight(j, buttons[j])'
        BY <1>1, <1>4, <4>1, <4>3, <4>4 DEF PowerRight
      <4>6. DeviceRight(j, buttons[j])'
        <5>1. CASE c.btn_state = "ERROR_DISABLED"
          BY <4>3, <5>1 DEF DeviceRight
        <5>2. CASE link' # link
          <6>1. PICK n \in Macs : n = m /\ n = buttons'[j].device.mac
                                  /\ link'[n] = "DISCONNECTING"
            BY <1>1, <1>4, <2>1, <4>1, <5>2
          <6> QED
            BY <6>1 DEF DeviceRight, Settled
        <5> QED
          BY <1>4, <4>1, <5>1, <5>2
      <4> QED
        BY <4>3, <4>5, <4>6 DEF ButtonRight
    <3> QED
      BY <3>1, <3>2
  <2> QED
    BY <2>3, <2>4, <2>5, <2>7, <2>8
<1>5. CASE ~Render(b).enabled /\ UNCHANGED <<subvars, buttons>>
  <2>1. buttons' = [buttons EXCEPT ![i] = b]
    BY <1>1, <1>5
  <2> QED
    BY <1>1, <1>4, <1>5, <2>1 DEF subvars
<1>6. CASE /\ b.btn_state = "CONNECTED" /\ Accepts(m, "CONNECTED")
           /\ SetLink(m, "CONNECTED", "DISCONNECTING")
           /\ UNCHANGED <<queue, lost, cut_short>>
           /\ buttons' = [buttons EXCEPT ![i] = transition_state_busy_disconnecting(b).button]
  <2>1. /\ transition_state_busy_disconnecting(b).button \in QmButton
        /\ transition_state_busy_disconnecting(b).button.btn_state = "DISCONNECTING_DISABLED"
    BY <1>1, BusyTransition DEF Transition, Outcome
  <2>2. m \in Macs
    BY <1>1, <1>6, MacsAssumption DEF QmButton, DeviceInfo, SlotConsistent
  <2>3. power = On /\ link[m] = "CONNECTED" /\ link' = [link EXCEPT ![m] = "DISCONNECTING"]
        /\ UNCHANGED <<power, paired>> /\ link' # link
    BY <1>1, <1>6, <2>2 DEF Accepts, SetLink
  <2> QED
    BY <1>1, <1>4, <1>6, <2>1, <2>2, <2>3
<1>7. CASE /\ Render(b).enabled /\ UNCHANGED subvars
           /\ buttons' = [buttons EXCEPT ![i] = transition_state_error(b, "OTHER").button]
  <2>1. b.btn_state \in {"DISCONNECTED", "CONNECTED"}
    BY <1>7 DEF Render
  <2>2. /\ transition_state_error(b, "OTHER").button \in QmButton
        /\ transition_state_error(b, "OTHER").button.btn_state = "ERROR_DISABLED"
        /\ transition_state_error(b, "OTHER").button.error_message = "OTHER"
    BY <1>1, <2>1, ErrorTransition DEF Transition, Outcome, transition_state_error, QmButton, Errors
  <2> QED
    BY <1>1, <1>4, <1>7, <2>1, <2>2 DEF subvars
<1> QED
  BY <1>3, <1>5, <1>6, <1>7 DEF Press, Accepts, SetLink
------------------------------------------------------------------------------
(* The whole.                                                               *)

LEMMA InitTruth == Init => TruthInv
<1> SUFFICES ASSUME Init PROVE TruthInv
  OBVIOUS
<1>1. /\ queue = <<>> /\ ring = <<>> /\ cur = NoVqmbtEvent /\ ~lost /\ ~overrun
      /\ tpc = "off" /\ buttons = [i \in Slots |-> ZeroButton]
  BY DEF Init
<1>2. EventsInv
  <2>1. SeenAs(queue) = <<>>
    <3>1. Len(queue) = 0
      BY <1>1
    <3>2. SeenAs(queue) \in Seq(Seen) /\ Len(SeenAs(queue)) = 0
      <4>1. queue \in Seq(SceBtEvents)
        BY <1>1
      <4> QED
        BY <3>1, <4>1, SeenTypes
    <3> QED
      BY <3>2
  <2>2. Fit(<<cur>>, GoodEvents, In(ring) \cup In(SeenAs(queue)))
    BY <1>1, NothingInGood, FitOne
  <2> QED
    BY <1>1, <2>1, <2>2, FitEmpty DEF EventsInv, QueueFit, RingFit, CurFit
<1>3. LinksInv
  <2> SUFFICES ASSUME power \in {Off, TurningOn}, NEW m \in Macs
               PROVE  link[m] = "DISCONNECTED"
    BY DEF LinksInv
  <2>1. link[m] \in {"DISCONNECTED", "CONNECTED"} /\ (link[m] = "CONNECTED" => power = On)
    BY DEF Init
  <2> QED
    BY <2>1 DEF Off, TurningOn, On
<1>4. OverrunInv /\ ErrorInv
  BY <1>1 DEF OverrunInv, ErrorInv, ZeroButton
<1>5. ReadInv /\ ButtonsInv
  BY <1>1 DEF ReadInv, ButtonsInv
<1> QED
  BY <1>2, <1>3, <1>4, <1>5 DEF TruthInv

\* A change of the subsystem is announced by an event that tells of it.
LEMMA SubsystemTruth ==
  ASSUME IInv, DataInv, TruthInv, SubsystemChanges \/ SubsystemEnds
  PROVE  TruthInv'
<1>1. /\ UNCHANGED <<ring, overrun, tpc, cur, on, list, buttons, restored, missed>>
  BY DEF SubsystemChanges, SubsystemEnds, ringvars, threadvars, history
<1>2. LinksInv' /\ \E e \in SceBtEvents : Tells(e)
  BY SubsystemTells DEF IInv, TruthInv
<1>3. PICK e \in SceBtEvents : Tells(e)
  BY <1>2
<1>4. EventsInv'
  BY <1>1, <1>3, AnnounceFits DEF Tells, TruthInv
<1>5. Remembers /\ Heard
  BY <1>1, <1>3, ToldIsHeard
<1>6. ReadInv' /\ ButtonsInv'
  BY <1>1, <1>5, ButtonsStillRight DEF TruthInv
<1>7. OverrunInv' /\ ErrorInv'
  BY <1>1 DEF TruthInv, OverrunInv, ErrorInv
<1> QED
  BY <1>2, <1>4, <1>6, <1>7 DEF TruthInv

\* An event moves from one buffer to the next, or to the thread.
LEMMA BuffersTruth ==
  ASSUME IInv, DataInv, TruthInv, KernelEvent \/ KernelDropped \/ Fetch
  PROVE  TruthInv'
<1>1. /\ UNCHANGED <<power, paired, link, on, list, buttons, restored, missed>>
      /\ tpc' = tpc \/ (tpc = "fetch" /\ tpc' = "handle")
  BY DEF KernelEvent, KernelDropped, Fetch, subvars, threadvars, history
<1>2. EventsInv'
  BY KernelEventFits, KernelDroppedFits, FetchFits DEF TruthInv
<1>3. Remembers /\ OverrunInv'
  BY BuffersRemember DEF TruthInv
<1>4. Heard
  BY <1>1 DEF Heard
<1>5. ReadInv' /\ ButtonsInv'
  BY <1>1, <1>3, <1>4, ButtonsStillRight DEF TruthInv
<1>6. LinksInv' /\ ErrorInv'
  BY <1>1 DEF TruthInv, LinksInv, ErrorInv
<1> QED
  BY <1>2, <1>3, <1>5, <1>6 DEF TruthInv

\* Nothing makes up for an event that could not be copied, but reset().
LEMMA FetchFailsTruth ==
  ASSUME DataInv, TruthInv, FetchFails
  PROVE  TruthInv'
<1>1. /\ UNCHANGED <<power, link, buttons, overrun>> /\ ring # <<>>
      /\ tpc' = "fetch" /\ missed'
  BY DEF FetchFails, subvars, threadvars
<1>2. EventsInv'
  BY FetchFailsFits DEF TruthInv
<1>3. LinksInv' /\ ErrorInv'
  BY <1>1 DEF TruthInv, LinksInv, ErrorInv
<1>4. OverrunInv'
  BY <1>1 DEF TruthInv, OverrunInv
<1>5. ReadInv' /\ ButtonsInv'
  BY <1>1 DEF ReadInv, ButtonsInv
<1> QED
  BY <1>2, <1>3, <1>4, <1>5 DEF TruthInv

\* Steps after which the buttons need not be right: the menu is closed, reset() is
\* about to run or has failed, or nothing has happened to them.
LEMMA IdleTruth ==
  ASSUME IInv, DataInv, TruthInv,
         \/ MenuOpened \/ MenuClosed \/ Flush \/ FetchOverrun \/ ListFails
         \/ KernelReadFails \/ UNCHANGED vars \/ \E i \in Slots : Touch(i)
  PROVE  TruthInv'
<1>1. /\ UNCHANGED <<power, paired, link, queue, lost, cur, on, buttons, restored>>
      /\ ring' \in {ring, <<>>}
  BY DEF MenuOpened, MenuClosed, Flush, FetchOverrun, ListFails, Touch, KernelReadFails,
         vars, subvars, ringvars, threadvars, history
<1>2. cur = NoVqmbtEvent \/ UNCHANGED <<ring, overrun>>
  BY DEF MenuOpened, MenuClosed, Flush, FetchOverrun, ListFails, Touch, KernelReadFails,
         vars, ringvars, DataInv, ThreadInv
<1>3. EventsInv'
  BY <1>1, <1>2, OtherStepsFit DEF TruthInv
<1>4. LinksInv' /\ ErrorInv'
  BY <1>1 DEF TruthInv, LinksInv, ErrorInv
<1>5. OverrunInv'
  BY DEF MenuOpened, MenuClosed, Flush, FetchOverrun, ListFails, Touch, KernelReadFails,
         vars, ringvars, TruthInv, OverrunInv
<1>6. ReadInv' /\ ButtonsInv'
  <2>1. CASE tpc' \in {"off", "flush", "power"}
    BY <2>1 DEF ReadInv, ButtonsInv
  <2>2. CASE ListFails
    BY <2>2 DEF ListFails, ReadInv, ButtonsInv
  <2>3. CASE KernelReadFails \/ UNCHANGED vars \/ \E i \in Slots : Touch(i)
    <3>1. UNCHANGED <<power, paired, link, queue, lost, ring, overrun, tpc, cur, on, list,
                      buttons, restored, missed>>
      BY <2>3 DEF KernelReadFails, Touch, vars, subvars, ringvars, threadvars, history
    <3>2. Remembers /\ Heard
      BY <3>1 DEF Remembers, Heard, ResetDue, Waiting
    <3> QED
      BY <3>1, <3>2, ButtonsStillRight DEF TruthInv
  <2>4. tpc' \in {"off", "flush", "power"} \/ ListFails \/ KernelReadFails
        \/ UNCHANGED vars \/ \E i \in Slots : Touch(i)
    BY DEF MenuOpened, MenuClosed, Flush, FetchOverrun
  <2> QED
    BY <2>1, <2>2, <2>3, <2>4
<1> QED
  BY <1>3, <1>4, <1>5, <1>6 DEF TruthInv

\* reset() reads, and shows what it has read.
LEMMA ResetTruth ==
  ASSUME IInv, DataInv, TruthInv, ReadPower \/ ReadList \/ ReadState \/ Update
  PROVE  TruthInv'
<1>1. UNCHANGED <<power, link, queue, lost, ring, overrun, cur>>
  BY DEF ReadPower, ReadList, ReadState, Update, subvars, ringvars
<1>2. EventsInv'
  BY <1>1, OtherStepsFit DEF TruthInv
<1>3. LinksInv' /\ OverrunInv'
  BY <1>1 DEF TruthInv, LinksInv, OverrunInv
<1>4. CASE Update
  BY <1>2, <1>3, <1>4, UpdateRight DEF TruthInv
<1>5. CASE ReadPower \/ ReadList \/ ReadState
  <2>1. buttons' = buttons
    BY <1>5 DEF ReadPower, ReadList, ReadState
  <2>2. ErrorInv'
    BY <2>1 DEF TruthInv, ErrorInv
  <2> QED
    BY <1>2, <1>3, <1>5, <2>2, ReadStepsRight DEF TruthInv
<1> QED
  BY <1>4, <1>5

LEMMA HandleEventTruth ==
  ASSUME IInv, DataInv, TruthInv, HandleEvent
  PROVE  TruthInv'
<1>1. UNCHANGED <<power, link, queue, lost, ring, overrun>> /\ cur' = NoVqmbtEvent
  BY DEF HandleEvent, subvars, ringvars
<1>2. EventsInv'
  BY <1>1, OtherStepsFit DEF TruthInv
<1>3. LinksInv' /\ OverrunInv'
  BY <1>1 DEF TruthInv, LinksInv, OverrunInv
<1> QED
  BY <1>2, <1>3, HandleEventRight, HandleEventErrors DEF TruthInv

LEMMA PressTruth ==
  ASSUME IInv, DataInv, TruthInv, Press
  PROVE  TruthInv'
<1>1. OverrunInv'
  BY DEF Press, ringvars, TruthInv, OverrunInv
<1> QED
  BY <1>1, PressRight DEF TruthInv

LEMMA NextTruth == IInv /\ DataInv /\ TruthInv /\ [Next]_vars => TruthInv'
<1> SUFFICES ASSUME IInv, DataInv, TruthInv, [Next]_vars PROVE TruthInv'
  OBVIOUS
<1> QED
  BY SubsystemTruth, BuffersTruth, FetchFailsTruth, IdleTruth, ResetTruth, HandleEventTruth,
     PressTruth DEF Next, ThreadStep

\* When nothing waits, nothing is due.
LEMMA QuietShowsTruth ==
  ASSUME IInv, DataInv, TruthInv, Quiet, ~missed, NEW i \in Slots
  PROVE  ShowsTruth(i)
<1> DEFINE b == buttons[i]
<1>1. Waiting = {NoVqmbtEvent} /\ ~lost /\ ~overrun
  <2>1. queue = <<>> /\ ring = <<>> /\ ~lost /\ ~overrun /\ cur = NoVqmbtEvent
    BY DEF Quiet, DataInv, ThreadInv
  <2>2. Len(SeenAs(queue)) = 0 /\ Len(ring) = 0
    <3>1. queue \in Seq(SceBtEvents) /\ Len(queue) = 0 /\ Len(ring) = 0
      BY <2>1
    <3> QED
      BY <3>1, SeenTypes
  <2>3. In(ring) = {} /\ In(SeenAs(queue)) = {}
    BY <2>2 DEF In
  <2> QED
    BY <2>1, <2>3 DEF Waiting
<1>2. ~ResetDue /\ ~PowerDue /\ \A m : ~DeviceDue(m)
  BY <1>1, NothingIsGood DEF ResetDue, PowerDue, DeviceDue
<1>3. ButtonRight(i, b)
  BY <1>2 DEF TruthInv, ButtonsInv, Quiet
<1>4. b \in QmButton /\ SlotConsistent(b) /\ b.device.mac = TrueMac(i)
  BY <1>3 DEF IInv, TypeInv, SlotInv, ButtonRight
<1>5. i \in Nat /\ Len(paired) \in Nat
  BY MaxDevicesAssumption DEF Slots, IInv, TypeInv
<1>6. CASE i > Len(paired)
  <2>1. TrueMac(i) = NoMac /\ TrueState(i) = "SLOT_EMPTY_DISABLED"
    BY <1>5, <1>6 DEF TrueMac, TrueState
  <2> QED
    BY <1>4, <2>1 DEF SlotConsistent, ShowsTruth
<1>7. CASE i <= Len(paired) /\ power # On
  <2>1. b.btn_state = "BT_OFF_DISABLED"
    BY <1>2, <1>3, <1>7 DEF ButtonRight, PowerRight
  <2>2. TrueState(i) = "BT_OFF_DISABLED"
    BY <1>5, <1>7 DEF TrueState
  <2> QED
    BY <1>4, <2>1, <2>2 DEF ShowsTruth
<1>8. CASE i <= Len(paired) /\ power = On /\ i \notin restored
  <2>1. PICK m \in Macs : m = paired[i] /\ m = TrueMac(i) /\ m = b.device.mac
    BY <1>4, <1>5, <1>8 DEF TrueMac, IInv, TypeInv, Slots
  <2>2. b.btn_state # "BT_OFF_DISABLED"
    BY <1>2, <1>3, <1>8 DEF ButtonRight, PowerRight
  <2>3. CASE m \in ZeroWordMacs
    BY <1>4, <1>8, <2>1, <2>2, <2>3 DEF ShowsTruth
  <2>4. CASE m \notin ZeroWordMacs
    <3>1. TrueState(i) = link[m]
      BY <1>5, <1>8, <2>1 DEF TrueState
    <3>2. b.btn_state = link[m] \/ b.btn_state = "ERROR_DISABLED"
      <4>1. Settled(m)
        BY DEF Quiet, Settled
      <4>2. DeviceRight(i, b)
        BY <1>3, <1>8 DEF ButtonRight
      <4> QED
        BY <1>2, <1>8, <2>1, <2>2, <2>4, <4>1, <4>2 DEF DeviceRight
    <3>3. CASE b.btn_state = link[m]
      BY <1>4, <3>1, <3>3 DEF ShowsTruth
    <3>4. CASE b.btn_state = "ERROR_DISABLED"
      <4>1. Render(b).about = "OTHER"
        BY <3>4 DEF Render, Busy, TruthInv, ErrorInv
      <4> QED
        BY <1>4, <1>8, <3>4, <4>1 DEF ShowsTruth
    <3> QED
      BY <3>2, <3>3, <3>4
  <2> QED
    BY <2>3, <2>4
<1>9. CASE i <= Len(paired) /\ power = On /\ i \in restored
  BY <1>4, <1>9 DEF ShowsTruth
<1> QED
  BY <1>5, <1>6, <1>7, <1>8, <1>9

\* When nothing is under way each button shows its device and the state that
\* device is in, for any number of devices and buttons, any sizes of the two
\* buffers and any run of changes, overflows, failed reads of the callback, resets
\* and presses before.  Converged names the exemptions: since a reset() that failed
\* after its flush or an event that could not be copied, no reset() has succeeded;
\* a state restored from the cache; a device that events do not find.
THEOREM ButtonsConverge == Spec => []Converged
<1>1. IInv /\ DataInv /\ TruthInv => Converged
  BY QuietShowsTruth DEF Converged
<1> QED
  BY <1>1, InitIInv, NextIInv, InitData, NextData, InitTruth, NextTruth, PTL DEF Spec
==============================================================================
