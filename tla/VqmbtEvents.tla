----------------------------- MODULE VqmbtEvents -----------------------------
(****************************************************************************)
(* What the events mean on their way from the bluetooth subsystem to the    *)
(* buttons: handle_event of module_kernel/src/bt_event.c turns an event of  *)
(* the subsystem into one for the user module, and handle_event of          *)
(* module_user/src/quickmenu.c turns that into a request for the buttons.   *)
(****************************************************************************)
EXTENDS Naturals

CONSTANTS
  Devices,  \* addresses in events
  NoDevice  \* mac0 = mac1 = 0: an event about no device

ASSUME NoDeviceAssumption == NoDevice \notin Devices

\* SceBtEvent; unk1 is the status of a result, unk3 the state of a toggle.
SceBtEvents == [id : {"INQUIRY_RESULT", "INQUIRY_STOP", "PAIRING_REQUEST",
                      "CONNECT_RESULT", "DISCONNECT",
                      "ADD_REMOVE_CONNECTING_DEVICE", "CONNECT_REQUESTED",
                      "CONNECT_UNPAIRED", "BUTTON_PRESSED", "UNKNOWN0A",
                      "UNKNOWN0B", "UNKNOWN0C", "UNKNOWN0E", "UNKNOWN10",
                      "UNKNOWN11", "TOGGLE_BLUETOOTH", "UNKNOWN1C", "OTHER"},
                unk1 : 0..255, unk3 : Nat, mac : Devices \cup {NoDevice}]

\* The ids left out of the mask the callback is registered with.
Masked ==
  {"INQUIRY_RESULT", "INQUIRY_STOP", "PAIRING_REQUEST", "CONNECT_REQUESTED",
   "CONNECT_UNPAIRED", "BUTTON_PRESSED", "UNKNOWN0A", "UNKNOWN0B", "UNKNOWN0C",
   "UNKNOWN0E", "UNKNOWN10", "UNKNOWN11", "UNKNOWN1C"}

\* Events for the user module (VqmbtEvent).
VqmbtEventIds == {"DROPPED_EVENTS", "BLUETOOTH_ENABLED", "BLUETOOTH_DISABLED",
                  "DEVICE_ADDED_REMOVED_CONNECTING", "DEVICE_DISCONNECTED",
                  "DEVICE_CONNECT_SUCCESS", "DEVICE_CONNECT_FAILED",
                  "DEVICE_CONNECT_ABORTED", "DEVICE_CONNECT_CANCELLED"}
VqmbtEventRecords == [id : VqmbtEventIds, mac : Devices \cup {NoDevice}]
NoVqmbtEvent == [id |-> "NONE", mac |-> NoDevice]

DroppedEvents == [id |-> "DROPPED_EVENTS", mac |-> NoDevice]

\* Status 4, 8 and every unknown one count as a failure.
connect_result(unk1) ==
  CASE unk1 = 0 -> "DEVICE_CONNECT_SUCCESS"
    [] unk1 = 2 -> "DEVICE_CONNECT_ABORTED"
    [] unk1 = 5 -> "DEVICE_CONNECT_CANCELLED"
    [] unk1 \notin {0, 2, 5} -> "DEVICE_CONNECT_FAILED"

\* The event handle_event of bt_event.c emits, NoVqmbtEvent for none.
bt_handle_event(e) ==
  CASE e.id = "CONNECT_RESULT" -> [id |-> connect_result(e.unk1), mac |-> e.mac]
    [] e.id = "DISCONNECT" -> [id |-> "DEVICE_DISCONNECTED", mac |-> e.mac]
    [] e.id = "ADD_REMOVE_CONNECTING_DEVICE" ->
         [id |-> "DEVICE_ADDED_REMOVED_CONNECTING", mac |-> e.mac]
    [] e.id = "TOGGLE_BLUETOOTH" /\ e.unk3 = 9 ->
         [id |-> "BLUETOOTH_ENABLED", mac |-> NoDevice]
    [] e.id = "TOGGLE_BLUETOOTH" /\ e.unk3 = 32 ->
         [id |-> "BLUETOOTH_DISABLED", mac |-> NoDevice]
    [] OTHER -> NoVqmbtEvent

\* What handle_event of quickmenu.c asks for: a request of qm_state, or reset().
qm_handle_event(ev) ==
  CASE ev.id \in {"DROPPED_EVENTS", "DEVICE_ADDED_REMOVED_CONNECTING"} ->
         [id |-> "RESET"]
    [] ev.id = "BLUETOOTH_ENABLED" -> [id |-> "BLUETOOTH_ON"]
    [] ev.id = "BLUETOOTH_DISABLED" -> [id |-> "BLUETOOTH_OFF"]
    [] ev.id = "DEVICE_CONNECT_SUCCESS" -> [id |-> "DEVICE_CONNECTED", mac |-> ev.mac]
    [] ev.id \in {"DEVICE_DISCONNECTED", "DEVICE_CONNECT_FAILED",
                  "DEVICE_CONNECT_ABORTED", "DEVICE_CONNECT_CANCELLED"} ->
         [id |-> "DEVICE_DISCONNECTED", mac |-> ev.mac]
==============================================================================
