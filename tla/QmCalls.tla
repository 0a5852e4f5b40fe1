------------------------------- MODULE QmCalls -------------------------------
(****************************************************************************)
(* What qm_state_update_ui promises the threads that call it at the same    *)
(* time: a call takes effect on all buttons at one moment between its start *)
(* and its return, it returns whether it changed anything, and then the     *)
(* widgets show the buttons.  There is no mutex here, no refresh that may   *)
(* be left out and no system call in the middle of a press; what a request  *)
(* makes of a button is said by where the button ends.                      *)
(****************************************************************************)
CONSTANTS
  Callers,          \* threads
  RequestsOf(_),    \* what each thread asks for
  NoRequest,
  Slots,            \* the buttons
  ZeroButton,       \* each at the start
  UnfoundMacs,      \* addresses no button is found for
  NoMac,            \* address of an empty slot
  RefusalCodes,     \* errors of a refused connection, besides "OTHER"
  Unset,            \* a widget before the first call returns
  Render(_)         \* what a widget shows for a button

VARIABLES
  buttons, widgets,
  status,           \* of each thread's call: "idle", "called" or "done"
  request,          \* what the thread has asked for
  told              \* the call of the thread will return TRUE

cvars == <<buttons, widgets, status, request, told>>

CInit ==
  /\ buttons = [i \in Slots |-> ZeroButton] /\ widgets = [i \in Slots |-> Unset]
  /\ status = [t \in Callers |-> "idle"]
  /\ request = [t \in Callers |-> NoRequest] /\ told = [t \in Callers |-> FALSE]

Advance(t, from, to) == status[t] = from /\ status' = [status EXCEPT ![t] = to]

Call(t) ==
  /\ Advance(t, "idle", "called")
  /\ request'[t] \in RequestsOf(t)
  /\ request' = [request EXCEPT ![t] = request'[t]]
  /\ UNCHANGED <<buttons, widgets, told>>

\* The state a button has for a connection state of its device, and the states
\* that bluetooth-on does not restore over "bluetooth is off".
StateFor(link) ==
  CASE link = "CONNECTING" -> "CONNECTING_DISABLED"
    [] link = "DISCONNECTING" -> "DISCONNECTING_DISABLED"
    [] link \in {"CONNECTED", "CONNECTED_HID", "REGISTERING"} -> "CONNECTED"
    [] link \in {"DISCONNECTED", "UNKNOWN0"} -> "DISCONNECTED"
Unforced == {"CONNECTED", "CONNECTED_HID", "REGISTERING", "UNKNOWN0"}

\* The device in slot i and the state of its button b after a request that is no
\* press.  A device that stays keeps its record.
DeviceAfter(b, r, i) ==
  IF r.id = "BULK_UPDATE" /\ r.devices[i].mac # b.device.mac
  THEN r.devices[i] ELSE b.device
Finds(r, b) == r.mac = b.device.mac /\ r.mac # NoMac /\ r.mac \notin UnfoundMacs
StateAfter(b, r, i) ==
  CASE r.id = "BULK_UPDATE" ->
         IF r.devices[i].mac = NoMac THEN "SLOT_EMPTY_DISABLED"
         ELSE IF r.bluetooth_on THEN StateFor(r.devices[i].state) ELSE "BT_OFF_DISABLED"
    [] r.id = "BLUETOOTH_ON" ->
         IF \/ b.btn_state = "SLOT_EMPTY_DISABLED"
            \/ b.btn_state = "BT_OFF_DISABLED" /\ b.device.state \in Unforced
         THEN b.btn_state ELSE StateFor(b.device.state)
    [] r.id = "BLUETOOTH_OFF" ->
         IF b.btn_state = "SLOT_EMPTY_DISABLED" THEN b.btn_state ELSE "BT_OFF_DISABLED"
    [] r.id \in {"DEVICE_CONNECTED", "DEVICE_DISCONNECTED"} ->
         IF ~Finds(r, b) \/ b.btn_state = "BT_OFF_DISABLED" THEN b.btn_state
         ELSE IF r.id = "DEVICE_CONNECTED" THEN "CONNECTED" ELSE "DISCONNECTED"

Request(r) ==
  /\ r.id # "BUTTON_PRESSED"
  /\ buttons' = [i \in Slots |->
                   [buttons[i] EXCEPT !.device = DeviceAfter(buttons[i], r, i),
                                      !.btn_state = StateAfter(buttons[i], r, i)]]

\* A press on an enabled button starts an operation or shows why it could not.
Outcomes(b) ==
  LET failed(e) == [b EXCEPT !.btn_state = "ERROR_DISABLED", !.error_message = e] IN
  CASE b.btn_state = "DISCONNECTED" ->
         {[b EXCEPT !.btn_state = "CONNECTING_DISABLED"]}
           \cup {failed(e) : e \in RefusalCodes \cup {"OTHER"}}
    [] b.btn_state = "CONNECTED" ->
         {[b EXCEPT !.btn_state = "DISCONNECTING_DISABLED"], failed("OTHER")}
    [] b.btn_state \notin {"DISCONNECTED", "CONNECTED"} -> {b}
Press(r) ==
  /\ r.id = "BUTTON_PRESSED"
  /\ \E b \in Outcomes(buttons[r.idx]) : buttons' = [buttons EXCEPT ![r.idx] = b]

TakeEffect(t) ==
  /\ Advance(t, "called", "done")
  /\ Request(request[t]) \/ Press(request[t])
  /\ told' = [told EXCEPT ![t] = (buttons' # buttons)]
  /\ UNCHANGED <<widgets, request>>

Show(i) ==
  /\ \E t \in Callers : status[t] = "done"
  /\ widgets' = [widgets EXCEPT ![i] = Render(buttons[i])]
  /\ UNCHANGED <<buttons, status, request, told>>

Return(t) ==
  /\ Advance(t, "done", "idle")
  /\ \A i \in Slots : widgets[i] = Render(buttons[i])
  /\ request' = [request EXCEPT ![t] = NoRequest]
  /\ told' = [told EXCEPT ![t] = FALSE]
  /\ UNCHANGED <<buttons, widgets>>

CNext ==
  \/ \E t \in Callers : Call(t) \/ TakeEffect(t) \/ Return(t)
  \/ \E i \in Slots : Show(i)

Calls == CInit /\ [][CNext]_cvars
==============================================================================
