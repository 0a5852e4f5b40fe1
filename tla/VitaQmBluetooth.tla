--------------------------- MODULE VitaQmBluetooth ---------------------------
(****************************************************************************)
(* The system end to end: a change in the bluetooth subsystem, the event    *)
(* about it, the two buffers it waits in, and the button that shows it,     *)
(* with the presses that cause changes themselves.                          *)
(*                                                                          *)
(* The details of each stage are in modules of their own (BtEvent,          *)
(* UmodRing, KmodEvent, QmState).  Here the callback reads and emits in one *)
(* step, the ring is the stream it implements, and a call of                *)
(* qm_state_update_ui is one step, since the mutex serialises the calls and *)
(* the widgets show the buttons after each.  What stays apart are the reads *)
(* of reset() in quickmenu.c and kvqmbt_get_paired_devices in bluetooth.c,  *)
(* which the subsystem and a press may change anything between.             *)
(****************************************************************************)
EXTENDS QmButtons, SequencesExt

CONSTANTS
  QueueSize,    \* raw events the subsystem keeps for the callback
  LosesOldest,  \* a full queue loses its oldest event, and the next read tells;
                \* otherwise it loses the new one, and the read after the last
                \* kept one tells
  Capacity,     \* events the ring keeps
  MaxChanges,   \* bound: things that happen by themselves or by the user
  Faults        \* calls that may fail: reading the device "list", reading a raw
                \* event in the callback ("read") and the "copy" of an event to
                \* the user module

INSTANCE VqmbtEvents WITH Devices <- Macs, NoDevice <- NoMac

ASSUME SizesAssumption ==
  /\ QueueSize \in Nat \ {0} /\ Capacity \in Nat \ {0} /\ MaxChanges \in Nat
  /\ LosesOldest \in BOOLEAN /\ Faults \subseteq {"list", "read", "copy"}

VARIABLES
  \* The subsystem.
  power,     \* what ksceBtGetConfiguration returns
  paired,    \* the registered devices, in the order of the list
  link,      \* connection state of each device
  queue,     \* raw events kept for the callback
  lost,      \* it has lost some, and has not told yet
  \* The kernel module.
  cut_short, \* its callback ended on a failed read and was not notified since
  ring,      \* events the user module has not read
  overrun,   \* more came than the ring keeps
  \* The user module.
  tpc,       \* where the event thread is; "off" while the menu is closed
  cur,       \* the event it handles
  on,        \* local bluetooth_on of reset
  list,      \* the device list, as far as it has been read
  buttons,   \* qm_state.buttons, which the widgets show
  touched,   \* the button the user is about to press, and what it showed
  \* History.
  changes,   \* changes so far
  pairings,  \* devices added or removed so far
  shown,     \* pairings when the list the buttons show was read
  missed,    \* a reset failed, or the copy of an event, since the last reset that
             \* did not fail
  restored   \* slots whose state was restored from the cache, after it was taken
             \* in a connection

subvars == <<power, paired, link, queue, lost, cut_short>>
ringvars == <<ring, overrun>>
threadvars == <<tpc, cur, on, list>>
history == <<pairings, shown, missed, restored>>
vars == <<subvars, ringvars, threadvars, buttons, touched, changes, history>>

NoList == [macs |-> <<>>, states |-> <<>>, pairings |-> 0]
NoTouch == [slot |-> 0, mac |-> NoMac, pairings |-> 0]

Off == 0
TurningOff == 32
TurningOn == 25
On == 9
Links == {"DISCONNECTED", "CONNECTING", "CONNECTED", "DISCONNECTING"}
Lists == {s \in BoundedSeq(Macs, MAX_DEVICES) : IsInjective(s)}

Init ==
  /\ power \in {Off, On} /\ paired \in Lists
  /\ link \in [Macs -> {"DISCONNECTED", "CONNECTED"}]
  /\ \A m \in Macs : link[m] = "CONNECTED" => power = On /\ m \in ToSet(paired)
  /\ queue = <<>> /\ lost = FALSE /\ cut_short = FALSE /\ ring = <<>> /\ overrun = FALSE
  /\ tpc = "off" /\ cur = NoVqmbtEvent /\ on = FALSE /\ list = NoList
  /\ buttons = [i \in Slots |-> ZeroButton] /\ touched = NoTouch
  /\ changes = 0 /\ pairings = 0 /\ shown = 0 /\ missed = FALSE /\ restored = {}

------------------------------------------------------------------------------
(* The subsystem.  Each change is announced, in the order of the changes,   *)
(* and notifies the callback.                                               *)

Change == changes < MaxChanges /\ changes' = changes + 1

SceBtEvent(id, unk1, unk3, mac) ==
  [id |-> id, unk1 |-> unk1, unk3 |-> unk3, mac |-> mac]
Toggled(state) == SceBtEvent("TOGGLE_BLUETOOTH", 0, state, NoMac)
ListChanged == SceBtEvent("ADD_REMOVE_CONNECTING_DEVICE", 0, 0, NoMac)
Result(m, status) == SceBtEvent("CONNECT_RESULT", status, 0, m)
Disconnected(m) == SceBtEvent("DISCONNECT", 22, 0, m)

Announce(e) ==
  IF e.id \in Masked
  THEN UNCHANGED <<queue, lost, cut_short>>
  ELSE /\ cut_short' = FALSE
       /\ queue' = IF Len(queue) < QueueSize THEN Append(queue, e)
                   ELSE IF LosesOldest THEN Append(Tail(queue), e) ELSE queue
       /\ lost' = (lost \/ Len(queue) >= QueueSize)

Toggle(from, to) ==
  /\ power = from /\ power' = to
  /\ Announce(Toggled(to))
  /\ UNCHANGED <<paired, link>>

SetLink(m, from, to) ==
  /\ link[m] = from /\ link' = [link EXCEPT ![m] = to]
  /\ UNCHANGED <<power, paired>>

\* What the user does in Settings, and devices do by themselves.
TurnOff == Change /\ Toggle(On, TurningOff) /\ UNCHANGED pairings
TurnOn == Change /\ Toggle(Off, TurningOn) /\ UNCHANGED pairings
ConnectElsewhere(m) ==
  /\ Change /\ power = On /\ m \in ToSet(paired)
  /\ SetLink(m, "DISCONNECTED", "CONNECTING")
  /\ Announce(ListChanged)
  /\ UNCHANGED pairings
DisconnectElsewhere(m) ==
  /\ Change /\ power = On
  /\ SetLink(m, "CONNECTED", "DISCONNECTED")
  /\ Announce(Disconnected(m))
  /\ UNCHANGED pairings
Pair(m) ==
  /\ Change /\ power = On
  /\ m \notin ToSet(paired) /\ Len(paired) < MAX_DEVICES
  /\ \E i \in 1..(Len(paired) + 1) : paired' = InsertAt(paired, i, m)
  /\ pairings' = pairings + 1
  /\ Announce(ListChanged)
  /\ UNCHANGED <<power, link>>
Unpair(m) ==
  /\ Change /\ power = On
  /\ link[m] = "DISCONNECTED"
  /\ \E i \in DOMAIN paired : paired[i] = m /\ paired' = RemoveAt(paired, i)
  /\ pairings' = pairings + 1
  /\ Announce(ListChanged)
  /\ UNCHANGED <<power, link>>

SubsystemChanges ==
  /\ \/ TurnOff \/ TurnOn
     \/ \E m \in Macs : \/ ConnectElsewhere(m) \/ DisconnectElsewhere(m)
                        \/ Pair(m) \/ Unpair(m)
  /\ UNCHANGED <<ringvars, threadvars, buttons, touched, shown, missed, restored>>

\* What it has begun comes to an end.
TurnedOn == Toggle(TurningOn, On)
TurnedOff ==
  /\ \A m \in Macs : link[m] = "DISCONNECTED"
  /\ Toggle(TurningOff, Off)
ConnectEnds(m) ==
  /\ power = On
  /\ \/ SetLink(m, "CONNECTING", "CONNECTED") /\ Announce(Result(m, 0))
     \/ /\ SetLink(m, "CONNECTING", "DISCONNECTED")
        /\ Announce(Result(m, 4)) \/ Announce(Disconnected(m))
DisconnectEnds(m) ==
  /\ SetLink(m, "DISCONNECTING", "DISCONNECTED")
  /\ Announce(Disconnected(m))
DroppedByOff(m) ==
  /\ power = TurningOff
  /\ \E from \in {"CONNECTING", "CONNECTED"} : SetLink(m, from, "DISCONNECTED")
  /\ Announce(Disconnected(m))

SubsystemEnds ==
  /\ \/ TurnedOn \/ TurnedOff
     \/ \E m \in Macs : ConnectEnds(m) \/ DisconnectEnds(m) \/ DroppedByOff(m)
  /\ UNCHANGED <<ringvars, threadvars, buttons, touched, changes, history>>

------------------------------------------------------------------------------
(* The kernel module: event_callback and umod_cb_emit_event.                *)

\* Mutant: nobody looks how many events wait.
Emit_Unbounded(ev) ==
  IF ev = NoVqmbtEvent
  THEN UNCHANGED ringvars
  ELSE ring' = Append(ring, ev) /\ UNCHANGED overrun

Emit(ev) ==
  IF ev = NoVqmbtEvent
  THEN UNCHANGED ringvars
  ELSE LET full == overrun \/ Len(ring) >= Capacity IN
       ring' = (IF full THEN <<>> ELSE Append(ring, ev)) /\ overrun' = full

KernelEvent ==
  /\ ~cut_short
  /\ queue # <<>> /\ (LosesOldest => ~lost)
  /\ queue' = Tail(queue)
  /\ Emit(bt_handle_event(Head(queue)))
  /\ UNCHANGED <<power, paired, link, lost, cut_short, threadvars, buttons, touched,
                 changes, history>>

\* Mutant: an overflow is only logged.
KernelDropped_OnlyLogged ==
  /\ ~cut_short
  /\ lost /\ (LosesOldest \/ queue = <<>>)
  /\ lost' = FALSE
  /\ UNCHANGED <<power, paired, link, queue, cut_short, ringvars, threadvars, buttons,
                 touched, changes, history>>

KernelDropped ==
  /\ ~cut_short
  /\ lost /\ (LosesOldest \/ queue = <<>>)
  /\ lost' = FALSE
  /\ Emit(DroppedEvents)
  /\ UNCHANGED <<power, paired, link, queue, cut_short, threadvars, buttons, touched,
                 changes, history>>

\* The callback ends and leaves what waits to its next run.
KernelReadFails ==
  /\ "read" \in Faults
  /\ ~cut_short /\ cut_short' = TRUE
  /\ queue # <<>> \/ lost
  /\ UNCHANGED <<power, paired, link, queue, lost, ringvars, threadvars, buttons,
                 touched, changes, history>>

------------------------------------------------------------------------------
(* The user module's event thread.                                          *)

MenuOpened ==
  /\ Change
  /\ tpc = "off" /\ tpc' = "flush"
  /\ UNCHANGED <<subvars, ringvars, cur, on, list, buttons, touched, history>>

\* Closing the menu waits for the thread to come back to its loop.
MenuClosed ==
  /\ Change
  /\ tpc = "fetch" /\ tpc' = "off"
  /\ touched' = NoTouch
  /\ UNCHANGED <<subvars, ringvars, cur, on, list, buttons, history>>

\* reset() starts by emptying the ring.
Flush ==
  /\ tpc = "flush" /\ tpc' = "power"
  /\ ring' = <<>> /\ overrun' = FALSE
  /\ UNCHANGED <<subvars, cur, on, list, buttons, touched, changes, history>>

\* kvqmbt_bluetooth_state.
ReadPower ==
  /\ tpc = "power" /\ tpc' = "list"
  /\ on' = (power = On)
  /\ UNCHANGED <<subvars, ringvars, cur, list, buttons, touched, changes, history>>

\* Mutant: connected devices come first.
ReadList_ConnectedFirst ==
  /\ tpc = "list" /\ tpc' = "states"
  /\ list' = [macs |-> SelectSeq(paired, LAMBDA m : link[m] = "CONNECTED")
                       \o SelectSeq(paired, LAMBDA m : link[m] # "CONNECTED"),
              states |-> <<>>, pairings |-> pairings]
  /\ UNCHANGED <<subvars, ringvars, cur, on, buttons, touched, changes, history>>

\* kvqmbt_get_paired_devices: the list, then the state of one device at a time.
ReadList ==
  /\ tpc = "list" /\ tpc' = "states"
  /\ list' = [macs |-> paired, states |-> <<>>, pairings |-> pairings]
  /\ UNCHANGED <<subvars, ringvars, cur, on, buttons, touched, changes, history>>

ReadState ==
  LET next == Len(list.states) + 1 IN
  /\ tpc = "states" /\ next <= Len(list.macs)
  /\ list' = [list EXCEPT !.states = Append(@, link[list.macs[next]])]
  /\ UNCHANGED <<subvars, ringvars, tpc, cur, on, buttons, touched, changes, history>>

\* reset() gives up; what it flushed is gone.
ListFails ==
  /\ "list" \in Faults
  /\ tpc \in {"list", "states"} /\ tpc' = "fetch"
  /\ list' = NoList /\ missed' = TRUE
  /\ UNCHANGED <<subvars, ringvars, cur, on, buttons, touched, changes, pairings,
                 shown, restored>>

BulkUpdate ==
  [id |-> "BULK_UPDATE", bluetooth_on |-> on, num_devices |-> Len(list.macs),
   devices |-> [i \in Slots |-> IF i <= Len(list.macs)
                                THEN [mac |-> list.macs[i], state |-> list.states[i]]
                                ELSE ZeroDevice]]

\* Mutant: the ring is emptied last, so that no event is handled twice.
Update_FlushesLast ==
  /\ tpc = "states" /\ Len(list.states) = Len(list.macs) /\ tpc' = "fetch"
  /\ buttons' = [i \in Slots |-> bulk_update(buttons[i], BulkUpdate, i).button]
  /\ list' = NoList /\ shown' = list.pairings /\ missed' = FALSE /\ restored' = {}
  /\ ring' = <<>> /\ overrun' = FALSE
  /\ UNCHANGED <<subvars, cur, on, touched, changes, pairings>>

Update ==
  /\ tpc = "states" /\ Len(list.states) = Len(list.macs) /\ tpc' = "fetch"
  /\ buttons' = [i \in Slots |-> bulk_update(buttons[i], BulkUpdate, i).button]
  /\ list' = NoList /\ shown' = list.pairings /\ missed' = FALSE /\ restored' = {}
  /\ UNCHANGED <<subvars, ringvars, cur, on, touched, changes, pairings>>

\* kmod_event.c fetches: a reported overrun runs reset().
FetchOverrun ==
  /\ tpc = "fetch" /\ overrun
  /\ tpc' = "flush" /\ overrun' = FALSE
  /\ UNCHANGED <<subvars, ring, cur, on, list, buttons, touched, changes, history>>

Fetch ==
  /\ tpc = "fetch" /\ ring # <<>>
  /\ tpc' = "handle" /\ cur' = Head(ring) /\ ring' = Tail(ring)
  /\ UNCHANGED <<subvars, overrun, on, list, buttons, touched, changes, history>>

\* The ring is past the event, which nobody handles.
FetchFails ==
  /\ "copy" \in Faults
  /\ tpc = "fetch" /\ ring # <<>>
  /\ ring' = Tail(ring) /\ missed' = TRUE
  /\ UNCHANGED <<subvars, overrun, threadvars, buttons, touched, changes, pairings,
                 shown, restored>>

\* handle_event of quickmenu.c, and the request it makes.
HandleEvent ==
  LET r == qm_handle_event(cur)
      stale == {i \in Slots : /\ buttons[i].btn_state # "SLOT_EMPTY_DISABLED"
                              /\ buttons[i].device.state # "DISCONNECTED"}
  IN
  /\ tpc = "handle" /\ cur' = NoVqmbtEvent
  /\ tpc' = IF r.id = "RESET" THEN "flush" ELSE "fetch"
  /\ \/ r.id = "RESET" /\ UNCHANGED <<buttons, restored>>
     \/ /\ r.id = "BLUETOOTH_ON" /\ restored' = restored \cup stale
        /\ buttons' = [i \in Slots |-> transition_state_bt_on(buttons[i]).button]
     \/ /\ r.id = "BLUETOOTH_OFF" /\ restored' = {}
        /\ buttons' = [i \in Slots |-> transition_state_bt_off(buttons[i]).button]
     \/ /\ r.id = "DEVICE_CONNECTED" /\ UNCHANGED restored
        /\ buttons' = [i \in Slots |-> IF mac_to_idx(buttons, r.mac, i)
                                       THEN transition_state_connected(buttons[i], FALSE).button
                                       ELSE buttons[i]]
     \/ /\ r.id = "DEVICE_DISCONNECTED" /\ UNCHANGED restored
        /\ buttons' = [i \in Slots |-> IF mac_to_idx(buttons, r.mac, i)
                                       THEN transition_state_disconnected(buttons[i], FALSE).button
                                       ELSE buttons[i]]
  /\ UNCHANGED <<subvars, ringvars, on, list, touched, changes, pairings, shown, missed>>

ThreadStep ==
  \/ Flush \/ ReadPower \/ ReadList \/ ReadState \/ ListFails \/ Update
  \/ FetchOverrun \/ Fetch \/ FetchFails \/ HandleEvent

------------------------------------------------------------------------------
(* The user.                                                                *)

\* A finger goes down on an enabled button; it is released at some later time.
Touch(i) ==
  /\ Change
  /\ tpc # "off" /\ touched = NoTouch /\ Render(buttons[i]).enabled
  /\ touched' = [slot |-> i, mac |-> buttons[i].device.mac, pairings |-> shown]
  /\ UNCHANGED <<subvars, ringvars, threadvars, buttons, history>>

\* The subsystem may accept a call that its state allows.
Accepts(m, from) == power = On /\ m \in ToSet(paired) /\ link[m] = from

\* quickmenu_on_press, with button_pressed.
Press ==
  LET i == touched.slot
      b == buttons[i]
      m == b.device.mac
      Becomes(out) == buttons' = [buttons EXCEPT ![i] = out.button]
  IN
  /\ touched # NoTouch /\ touched' = NoTouch
  /\ \/ ~Render(b).enabled /\ UNCHANGED <<subvars, buttons>>
     \/ /\ b.btn_state = "DISCONNECTED" /\ Accepts(m, "DISCONNECTED")
        /\ SetLink(m, "DISCONNECTED", "CONNECTING") /\ Announce(ListChanged)
        /\ Becomes(transition_state_busy_connecting(b))
     \/ /\ b.btn_state = "CONNECTED" /\ Accepts(m, "CONNECTED")
        /\ SetLink(m, "CONNECTED", "DISCONNECTING")
        /\ Becomes(transition_state_busy_disconnecting(b))
        /\ UNCHANGED <<queue, lost, cut_short>>
     \/ /\ Render(b).enabled /\ UNCHANGED subvars
        /\ Becomes(transition_state_error(b, "OTHER"))
  /\ UNCHANGED <<ringvars, threadvars, changes, history>>

Next ==
  \/ SubsystemChanges \/ SubsystemEnds
  \/ KernelEvent \/ KernelDropped \/ KernelReadFails
  \/ MenuOpened \/ MenuClosed \/ ThreadStep
  \/ Press \/ \E i \in Slots : Touch(i)

Spec == Init /\ [][Next]_vars

\* Both event threads run and the subsystem brings to an end what it has begun.
\* No read is counted on to fail.
FairSpec ==
  /\ Spec
  /\ WF_vars(KernelEvent \/ KernelDropped)
  /\ WF_vars(ThreadStep)
  /\ WF_vars(SubsystemEnds)

------------------------------------------------------------------------------
(* Properties.                                                              *)

\* Variables hold what the code can put there, and the buffers are bounded.
TypeOK ==
  /\ power \in {Off, TurningOn, On, TurningOff} /\ paired \in Lists
  /\ link \in [Macs -> Links]
  /\ queue \in Seq(SceBtEvents) /\ Len(queue) <= QueueSize /\ lost \in BOOLEAN
  /\ cut_short \in BOOLEAN
  /\ ring \in Seq(VqmbtEventRecords) /\ Len(ring) <= Capacity /\ overrun \in BOOLEAN
  /\ tpc \in {"off", "flush", "power", "list", "states", "fetch", "handle"}
  /\ cur \in VqmbtEventRecords \cup {NoVqmbtEvent} /\ on \in BOOLEAN
  /\ (tpc = "handle") = (cur # NoVqmbtEvent)
  /\ list.macs \in Lists /\ Len(list.states) <= Len(list.macs)
  /\ buttons \in [Slots -> QmButton] /\ restored \subseteq Slots
  /\ touched # NoTouch => touched.slot \in Slots /\ touched.mac \in Macs

\* Nothing is under way: the subsystem is settled, every buffer is empty and the
\* event thread waits for the next event.
Quiet ==
  /\ power \in {Off, On} /\ \A m \in Macs : link[m] \in {"DISCONNECTED", "CONNECTED"}
  /\ queue = <<>> /\ ~lost /\ ring = <<>> /\ ~overrun
  /\ tpc = "fetch"

\* What the buttons are to show of slot i.
TrueMac(i) == IF i <= Len(paired) THEN paired[i] ELSE NoMac
TrueState(i) ==
  CASE i > Len(paired) -> "SLOT_EMPTY_DISABLED"
    [] i <= Len(paired) /\ power # On -> "BT_OFF_DISABLED"
    [] i <= Len(paired) /\ power = On -> link[paired[i]]

\* An error message stays until the next event about the device.  While bluetooth
\* is on, a state restored from the cache may be any, and that of a device that
\* events do not find any but "off".
ShowsTruth(i) ==
  /\ buttons[i].device.mac = TrueMac(i)
  /\ \/ buttons[i].btn_state = TrueState(i)
     \/ /\ i <= Len(paired) /\ power = On
        /\ \/ /\ buttons[i].btn_state = "ERROR_DISABLED"
              /\ Render(buttons[i]).about = "OTHER"
           \/ i \in restored
           \/ TrueMac(i) \in ZeroWordMacs /\ buttons[i].btn_state # "BT_OFF_DISABLED"

\* When nothing is under way each button shows its device and the state that
\* device is in: whatever happened between the reads of reset(), whatever either
\* buffer had no room for, however often a read of the callback failed and whatever
\* was pressed meanwhile has been made up for.  Exempt are, until the next reset()
\* that succeeds, a reset() that failed after its flush and an event whose copy to
\* the user module failed; a state bluetooth-on restored from the cache of a device
\* that was not disconnected then; and a device that mac_to_idx does not find
\* because a word of its address is zero.
Converged == Quiet /\ ~missed => \A i \in Slots : ShowsTruth(i)

\* A press acts on the device the touched button showed, unless devices were added
\* or removed since the list it showed was read.
TouchedDeviceIsPressed ==
  touched # NoTouch /\ touched.pairings = pairings =>
    buttons[touched.slot].device.mac = touched.mac

\* Once changes stop, an open menu ends up showing the truth for good, with the
\* exemptions of Converged and unless the callback's last run ended on a failed
\* read: nothing makes it run again.
EventuallyShown ==
  <>[](tpc = "off" \/ missed \/ cut_short \/ \A i \in Slots : ShowsTruth(i))

==============================================================================
