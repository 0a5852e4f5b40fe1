------------------------------- MODULE QmState -------------------------------
(****************************************************************************)
(* module_user/src/qm_state.c: the state of the Quick Menu buttons.         *)
(*                                                                          *)
(* Two threads call qm_state_update_ui: the UI thread, for a press on a     *)
(* button, and the event thread of kmod_event.c, for everything the kernel  *)
(* module reports.  A call takes the mutex, runs the handler of its request *)
(* on the shared button array, refreshes the widgets one by one if it has   *)
(* to, and releases the mutex.  The system call a press makes is a step of  *)
(* its own, because the bluetooth subsystem answers concurrently.           *)
(****************************************************************************)
EXTENDS QmButtons

Threads == {"ui", "event"}
Free == "free"

\* The UI thread only forwards presses (quickmenu_on_press), the event thread
\* everything else (reset and handle_event in quickmenu.c).
RequestsOf(t) ==
  IF t = "ui" THEN PressRequests
              ELSE BulkRequests \cup PowerRequests \cup DeviceRequests

------------------------------------------------------------------------------
VARIABLES
  mutex,      \* Free, or the thread that owns the mutex
  first_run,  \* no handler without a change has refreshed the widgets yet
  buttons,    \* qm_state.buttons
  ui,         \* what each widget shows
  pc,         \* where each thread is in qm_state_update_ui
  req,        \* the request each thread passed
  changed,    \* each thread's local of that name
  ret,        \* local of button_pressed: what the system call returned
  rix,        \* loop index of refresh_ui
  answered    \* history: devices whose answer came after the last press on them

vars == <<mutex, first_run, buttons, ui, pc, req, changed, ret, rix, answered>>

PcLabels == {"idle", "lock", "handle", "connect_return", "disconnect_return",
             "decide", "refresh", "unlock"}

Init ==
  /\ mutex = Free
  /\ first_run = TRUE
  /\ buttons = [i \in Slots |-> ZeroButton]
  /\ ui = [i \in Slots |-> Unset]
  /\ pc = [t \in Threads |-> "idle"]
  /\ req = [t \in Threads |-> NoRequest]
  /\ changed = [t \in Threads |-> FALSE]
  /\ ret = "OK"
  /\ rix = 1
  /\ answered = {}

Goto(t, from, to) == pc[t] = from /\ pc' = [pc EXCEPT ![t] = to]

\* qm_state_update_ui is called; the request was put together before, without
\* the mutex.
Call(t) ==
  /\ Goto(t, "idle", "lock")
  /\ \E r \in RequestsOf(t) : req' = [req EXCEPT ![t] = r]
  /\ UNCHANGED <<mutex, first_run, buttons, ui, changed, ret, rix, answered>>

\* Mutant: the two threads are not serialised.
Lock_Unserialised(t) ==
  /\ Goto(t, "lock", "handle")
  /\ mutex' = t
  /\ changed' = [changed EXCEPT ![t] = FALSE]
  /\ UNCHANGED <<first_run, buttons, ui, req, ret, rix, answered>>

Lock(t) ==
  /\ Goto(t, "lock", "handle")
  /\ mutex = Free
  /\ mutex' = t
  /\ changed' = [changed EXCEPT ![t] = FALSE]
  /\ UNCHANGED <<first_run, buttons, ui, req, ret, rix, answered>>

------------------------------------------------------------------------------
(* Handlers.  Nothing but the owner of the mutex accesses the array, so the *)
(* loop of a handler is one step.                                           *)

\* The handler of request id replaces button i by out[i].
Handle(t, id, out) ==
  /\ req[t].id = id
  /\ Goto(t, "handle", "decide")
  /\ buttons' = [i \in Slots |-> out[i].button]
  /\ changed' = [changed EXCEPT ![t] = \E i \in Slots : out[i].changed]
  /\ UNCHANGED <<mutex, first_run, ui, req, ret, rix>>

HandleBulkUpdate(t) ==
  /\ Handle(t, "BULK_UPDATE", [i \in Slots |-> bulk_update(buttons[i], req[t], i)])
  /\ answered' = {}

HandleBluetoothOn(t) ==
  /\ Handle(t, "BLUETOOTH_ON", [i \in Slots |-> transition_state_bt_on(buttons[i])])
  /\ answered' = {}

HandleBluetoothOff(t) ==
  /\ Handle(t, "BLUETOOTH_OFF", [i \in Slots |-> transition_state_bt_off(buttons[i])])
  /\ UNCHANGED answered

\* The device has a button, whose state becomes the answer to the last press.
Answer(t) ==
  answered' = IF \E i \in Slots : mac_to_idx(buttons, req[t].mac, i)
              THEN answered \cup {req[t].mac}
              ELSE answered

HandleDisconnected(t) ==
  /\ Handle(t, "DEVICE_DISCONNECTED",
            [i \in Slots |-> IF mac_to_idx(buttons, req[t].mac, i)
                             THEN transition_state_disconnected(buttons[i], FALSE)
                             ELSE Kept(buttons[i])])
  /\ Answer(t)

HandleConnected(t) ==
  /\ Handle(t, "DEVICE_CONNECTED",
            [i \in Slots |-> IF mac_to_idx(buttons, req[t].mac, i)
                             THEN transition_state_connected(buttons[i], FALSE)
                             ELSE Kept(buttons[i])])
  /\ Answer(t)

\* button_pressed: a disabled button ignores the press.
PressIgnored(t) ==
  /\ req[t].id = "BUTTON_PRESSED"
  /\ Goto(t, "handle", "decide")
  /\ buttons[req[t].idx].btn_state \notin {"DISCONNECTED", "CONNECTED"}
  /\ UNCHANGED <<mutex, first_run, buttons, ui, req, changed, ret, rix, answered>>

\* Mutant: the mutex is released for the time of the system call.
PressCall_Unlocked(t, from, to, codes) ==
  /\ req[t].id = "BUTTON_PRESSED"
  /\ Goto(t, "handle", to)
  /\ buttons[req[t].idx].btn_state = from
  /\ ret' \in codes
  /\ answered' = answered \ {buttons[req[t].idx].device.mac}
  /\ mutex' = Free
  /\ UNCHANGED <<first_run, buttons, ui, req, changed, rix>>

\* kvqmbt_connect_device or kvqmbt_disconnect_device: from this step on the
\* subsystem may answer.  Only a connection is refused with the named codes.
PressCall(t, from, to, codes) ==
  /\ req[t].id = "BUTTON_PRESSED"
  /\ Goto(t, "handle", to)
  /\ buttons[req[t].idx].btn_state = from
  /\ ret' \in codes
  /\ answered' = answered \ {buttons[req[t].idx].device.mac}
  /\ UNCHANGED <<mutex, first_run, buttons, ui, req, changed, rix>>

PressConnect(t) ==
  PressCall(t, "DISCONNECTED", "connect_return", Errors \cup {"OK"})
PressDisconnect(t) ==
  PressCall(t, "CONNECTED", "disconnect_return", {"OTHER", "OK"})

\* The rest of button_pressed: busy is the outcome for a call that succeeded.
PressReturn(t, from, busy) ==
  LET out == IF ret = "OK"
             THEN busy
             ELSE transition_state_error(buttons[req[t].idx], ret)
  IN  /\ Goto(t, from, "decide")
      /\ buttons' = [buttons EXCEPT ![req[t].idx] = out.button]
      /\ changed' = [changed EXCEPT ![t] = out.changed]
      /\ ret' = "OK"
      /\ UNCHANGED <<mutex, first_run, ui, req, rix, answered>>

PressConnectReturn(t) ==
  PressReturn(t, "connect_return",
              transition_state_busy_connecting(buttons[req[t].idx]))
PressDisconnectReturn(t) ==
  PressReturn(t, "disconnect_return",
              transition_state_busy_disconnecting(buttons[req[t].idx]))

------------------------------------------------------------------------------
(* The rest of qm_state_update_ui.                                          *)

Decide(t) ==
  /\ Goto(t, "decide", IF changed[t] \/ first_run THEN "refresh" ELSE "unlock")
  /\ UNCHANGED <<mutex, first_run, buttons, ui, req, changed, ret, rix, answered>>

\* Mutant: the loop runs to idx <= VQMBT_MAX_DEVICES.
RefreshButton_PastEnd(t) ==
  LET last == rix > MAX_DEVICES IN
  /\ Goto(t, "refresh", IF last THEN "unlock" ELSE "refresh")
  /\ ui' = [ui EXCEPT ![rix] = Render(buttons[rix])]
  /\ rix' = IF last THEN 1 ELSE rix + 1
  /\ first_run' = (first_run /\ (last => changed[t]))
  /\ UNCHANGED <<mutex, buttons, req, changed, ret, answered>>

\* One iteration of refresh_ui; after the last one, a first run is over unless
\* the refresh was due to a change.
RefreshButton(t) ==
  LET last == rix = MAX_DEVICES IN
  /\ Goto(t, "refresh", IF last THEN "unlock" ELSE "refresh")
  /\ ui' = [ui EXCEPT ![rix] = Render(buttons[rix])]
  /\ rix' = IF last THEN 1 ELSE rix + 1
  /\ first_run' = (first_run /\ (last => changed[t]))
  /\ UNCHANGED <<mutex, buttons, req, changed, ret, answered>>

\* Mutant: an early return, when there is nothing to show, keeps the mutex.
Unlock_Leaked(t) ==
  /\ Goto(t, "unlock", "idle")
  /\ mutex' = IF changed[t] THEN Free ELSE mutex
  /\ req' = [req EXCEPT ![t] = NoRequest]
  /\ changed' = [changed EXCEPT ![t] = FALSE]
  /\ UNCHANGED <<first_run, buttons, ui, ret, rix, answered>>

Unlock(t) ==
  /\ Goto(t, "unlock", "idle")
  /\ mutex' = Free
  /\ req' = [req EXCEPT ![t] = NoRequest]
  /\ changed' = [changed EXCEPT ![t] = FALSE]
  /\ UNCHANGED <<first_run, buttons, ui, ret, rix, answered>>

Step(t) ==
  \/ HandleBulkUpdate(t) \/ HandleBluetoothOn(t) \/ HandleBluetoothOff(t)
  \/ HandleDisconnected(t) \/ HandleConnected(t)
  \/ PressIgnored(t) \/ PressConnect(t) \/ PressDisconnect(t)
  \/ PressConnectReturn(t) \/ PressDisconnectReturn(t)
  \/ Decide(t) \/ RefreshButton(t) \/ Unlock(t)

Next == \E t \in Threads : Call(t) \/ Lock(t) \/ Step(t)

Spec == Init /\ [][Next]_vars

\* The mutex is created with attribute 0, first come first served: a waiting
\* thread is not passed over forever.  Nobody has to call.
Fairness == \A t \in Threads : SF_vars(Lock(t)) /\ WF_vars(Step(t))
FairSpec == Spec /\ Fairness

------------------------------------------------------------------------------
(* Properties.                                                              *)

\* Every variable holds a value of its C type; refresh_ui indexes inside the
\* array.
TypeOK ==
  /\ mutex \in Threads \cup {Free}
  /\ first_run \in BOOLEAN
  /\ buttons \in [Slots -> QmButton]
  /\ ui \in [Slots -> {Unset} \cup Widget]
  /\ pc \in [Threads -> PcLabels]
  /\ req \in [Threads -> {NoRequest} \cup Requests]
  /\ changed \in [Threads -> BOOLEAN]
  /\ ret \in Errors \cup {"OK"}
  /\ rix \in Slots
  /\ answered \subseteq Macs

\* A slot shows "no device" exactly when it holds none, and no device has two
\* slots: bulk_updated_remove_device clears the record it empties, so that the
\* next bulk update recognises a device that comes back as new.
SlotsConsistent ==
  /\ \A i \in Slots :
       buttons[i].btn_state = "SLOT_EMPTY_DISABLED" <=> buttons[i].device.mac = NoMac
  /\ \A i, j \in Slots :
       buttons[i].device.mac = buttons[j].device.mac /\ i # j =>
         buttons[i].device.mac = NoMac

\* Whenever nobody is inside qm_state_update_ui's critical section, every widget
\* shows the state of its button: each handler reports the changes it makes
\* through its out parameter, and the first call refreshes without one.  Before
\* the first call nothing has been shown.
UiMatchesState ==
  mutex = Free =>
    \/ \A i \in Slots : ui[i] = Render(buttons[i])
    \/ \A i \in Slots : ui[i] = Unset /\ buttons[i] = ZeroButton

\* An answer of the subsystem is never overwritten by the press it answers: once
\* the result for a device has been handled, its button is not busy until the
\* next press or bulk update, although the press marks the button busy only
\* after the system call that starts the operation.
NoResultLost ==
  \A i \in Slots : buttons[i].device.mac \in answered =>
                     buttons[i].btn_state \notin Busy

\* A button that says bluetooth is off only stops saying so when bluetooth is
\* turned on or a bulk update sets the true state: neither the disconnect event
\* that follows the bluetooth-off event nor a press in progress does it.
BtOffStep ==
  \A i \in Slots :
    buttons[i].btn_state = "BT_OFF_DISABLED"
      /\ buttons'[i].btn_state # "BT_OFF_DISABLED" =>
        \E t \in Threads : /\ pc[t] = "handle"
                           /\ req[t].id \in {"BULK_UPDATE", "BLUETOOTH_ON"}
BtOffIsSticky == [][BtOffStep]_vars

\* A press starts an operation only on the device, and only in the direction,
\* that the widget shows at that moment.
PressStep ==
  \A t \in Threads :
    pc[t] = "handle" /\ pc'[t] \in {"connect_return", "disconnect_return"} =>
      ui[req[t].idx] =
        [state   |-> IF pc'[t] = "connect_return" THEN "DISCONNECTED" ELSE "CONNECTED",
         about   |-> buttons[req[t].idx].device.mac,
         enabled |-> TRUE]
PressActsAsShown == [][PressStep]_vars

\* Every call of qm_state_update_ui returns, whatever the other thread does.
CallReturns == \A t \in Threads : pc[t] = "lock" ~> pc[t] = "idle"

\* The place of a thread in its call, for a caller that sees no mutex and no
\* system call, and the calls as QmCalls promises them.
Status(t) ==
  CASE pc[t] = "idle" -> "idle"
    [] pc[t] \in {"lock", "handle", "connect_return", "disconnect_return"} -> "called"
    [] pc[t] \in {"decide", "refresh", "unlock"} -> "done"

Abstract == INSTANCE QmCalls
              WITH Callers <- Threads, UnfoundMacs <- ZeroWordMacs,
                   widgets <- ui, request <- req,
                   status <- [t \in Threads |-> Status(t)],
                   told <- [t \in Threads |-> Status(t) = "done" /\ changed[t]]

\* "Forces serialization of threaded events", "True if anything was changed"
\* (qm_state.c, comment of qm_state_update_ui): whatever the other thread does, a
\* call takes effect at one moment, a press with its system call included, returns
\* whether it changed a button, and leaves no widget behind.
RefinesCalls == Abstract!Calls

\* "Transition all non-empty buttons out of BTNSTATE_BT_OFF_DISABLED"
\* (qm_state.c, comment of transition_state_bt_on).
BtOnLeavesBtOff ==
  [][\A t \in Threads :
       pc[t] = "handle" /\ req[t].id = "BLUETOOTH_ON" /\ pc'[t] = "decide" =>
         \A i \in Slots : buttons'[i].btn_state # "BT_OFF_DISABLED"]_vars

\* "Get the index of the button for the device with the given MAC address"
\* (qm_state.c, comment of mac_to_idx): the event of a device with a button is
\* not taken for an unknown device's.
ListedDeviceIsFound ==
  \A t \in Threads :
    pc[t] = "handle" /\ req[t].id \in {"DEVICE_CONNECTED", "DEVICE_DISCONNECTED"}
      /\ (\E i \in Slots : buttons[i].device.mac = req[t].mac) =>
        \E i \in Slots : mac_to_idx(buttons, req[t].mac, i)

==============================================================================
