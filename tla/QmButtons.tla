------------------------------ MODULE QmButtons ------------------------------
(****************************************************************************)
(* The data of module_user/src/qm_state.c and what the code computes from   *)
(* it: the requests, the state machine of one button, and what a widget     *)
(* shows.  QmState and VitaQmBluetooth run it.                              *)
(*                                                                          *)
(* Slots are numbered from 1 here and from 0 in the code.  A device name is *)
(* abstracted to the device's MAC.                                          *)
(****************************************************************************)
EXTENDS Naturals

CONSTANTS
  MAX_DEVICES,      \* number of buttons, VQMBT_MAX_DEVICES
  Macs,             \* MAC addresses of devices
  ZeroWordMacs,     \* those of Macs with mac0 = 0 or mac1 = 0
  NoMac,            \* mac0 = mac1 = 0: an empty slot
  ReportedStates,   \* connection states the kernel side may report
  RefusalCodes      \* error codes with a message of their own

\* Values ksceBtGetConnectingInfo returns (enum VqmbtInferredDevState).
SceStates == {"UNKNOWN0", "DISCONNECTED", "CONNECTING", "CONNECTED_HID",
              "DISCONNECTING", "CONNECTED", "REGISTERING"}

ASSUME MaxDevicesAssumption == MAX_DEVICES \in Nat \ {0}
ASSUME MacsAssumption == NoMac \notin Macs /\ ZeroWordMacs \subseteq Macs
ASSUME ReportedAssumption == ReportedStates \subseteq SceStates
ASSUME RefusalAssumption == RefusalCodes \subseteq {"NOT_CONNECTABLE", "BUSY"}

Slots == 1..MAX_DEVICES

DeviceInfo == [mac : Macs \cup {NoMac}, state : SceStates]
ZeroDevice == [mac |-> NoMac, state |-> "UNKNOWN0"]

BtnStates == {"SLOT_EMPTY_DISABLED", "BT_OFF_DISABLED", "DISCONNECTED",
              "DISCONNECTING_DISABLED", "CONNECTED",
              "CONNECTING_DISABLED", "ERROR_DISABLED"}
Busy == {"CONNECTING_DISABLED", "DISCONNECTING_DISABLED"}

\* Negative return codes as transition_state_error tells them apart, and
\* the message of a button that never failed.
Errors == RefusalCodes \cup {"OTHER"}
NoError == "NONE"

QmButton == [device : DeviceInfo, btn_state : BtnStates,
             error_message : Errors \cup {NoError}]

ZeroButton == [device |-> ZeroDevice, btn_state |-> "SLOT_EMPTY_DISABLED",
               error_message |-> NoError]

------------------------------------------------------------------------------
(* Requests (QmsRequest).                                                   *)

\* What reset() in quickmenu.c passes on: n records of distinct devices, the
\* rest of the array still zero.
IsPairedList(devices, n) ==
  /\ \A i \in 1..n : devices[i].mac \in Macs /\ devices[i].state \in ReportedStates
  /\ \A i, j \in 1..n : i # j => devices[i].mac # devices[j].mac
  /\ \A i \in Slots \ (1..n) : devices[i] = ZeroDevice

BulkRequests ==
  {r \in [id : {"BULK_UPDATE"}, bluetooth_on : BOOLEAN,
          num_devices : 0..MAX_DEVICES, devices : [Slots -> DeviceInfo]] :
     IsPairedList(r.devices, r.num_devices)}

PressRequests == [id : {"BUTTON_PRESSED"}, idx : Slots]
PowerRequests == [id : {"BLUETOOTH_ON", "BLUETOOTH_OFF"}]
DeviceRequests == [id : {"DEVICE_DISCONNECTED", "DEVICE_CONNECTED"}, mac : Macs]
Requests == BulkRequests \cup PressRequests \cup PowerRequests \cup DeviceRequests
NoRequest == [id |-> "NONE"]

------------------------------------------------------------------------------
(* Transitions of one button.  Each returns the button and whether the code *)
(* reported a change through its out parameter.                             *)

Kept(b) == [button |-> b, changed |-> FALSE]
Moved(b, s) == [button |-> [b EXCEPT !.btn_state = s], changed |-> TRUE]
MoveIfNotIn(b, s) == IF b.btn_state = s THEN Kept(b) ELSE Moved(b, s)

transition_state_bt_off(b) ==
  IF b.btn_state \in {"BT_OFF_DISABLED", "SLOT_EMPTY_DISABLED"}
  THEN Kept(b)
  ELSE Moved(b, "BT_OFF_DISABLED")

\* Mutant: the disconnect event that follows the bluetooth-off event counts.
transition_state_disconnected_Unguarded(b, force) ==
  MoveIfNotIn(b, "DISCONNECTED")

transition_state_disconnected(b, force) ==
  IF b.btn_state = "BT_OFF_DISABLED" /\ ~force
  THEN Kept(b)
  ELSE MoveIfNotIn(b, "DISCONNECTED")

transition_state_connected(b, force) ==
  IF b.btn_state = "BT_OFF_DISABLED" /\ ~force
  THEN Kept(b)
  ELSE MoveIfNotIn(b, "CONNECTED")

transition_state_busy_disconnecting(b) == MoveIfNotIn(b, "DISCONNECTING_DISABLED")
transition_state_busy_connecting(b) == MoveIfNotIn(b, "CONNECTING_DISABLED")

\* Mutant: the out parameter is not set.
transition_state_error_Unreported(b, error) ==
  Kept([b EXCEPT !.btn_state = "ERROR_DISABLED", !.error_message = error])

transition_state_error(b, error) ==
  IF b.btn_state = "ERROR_DISABLED"
  THEN Kept(b)
  ELSE [button  |-> [b EXCEPT !.btn_state = "ERROR_DISABLED",
                              !.error_message = error],
        changed |-> TRUE]

\* One iteration of the loop in transition_state_bt_on.  The state restored is
\* the one cached when the slot got its device.
transition_state_bt_on(b) ==
  LET state == b.device.state IN
  IF b.btn_state = "SLOT_EMPTY_DISABLED"
  THEN Kept(b)
  ELSE CASE state = "DISCONNECTED" -> transition_state_disconnected(b, TRUE)
         [] state = "CONNECTING" -> transition_state_busy_connecting(b)
         [] state = "DISCONNECTING" -> transition_state_busy_disconnecting(b)
         [] state \in {"CONNECTED_HID", "CONNECTED", "REGISTERING"} ->
              transition_state_connected(b, FALSE)
         [] state = "UNKNOWN0" -> transition_state_disconnected(b, FALSE)

\* Mutant: the device record is not cleared.
bulk_updated_remove_device_Uncleared(b) == MoveIfNotIn(b, "SLOT_EMPTY_DISABLED")

bulk_updated_remove_device(b) ==
  IF b.btn_state = "SLOT_EMPTY_DISABLED"
  THEN Kept(b)
  ELSE Moved([b EXCEPT !.device = ZeroDevice], "SLOT_EMPTY_DISABLED")

\* The switch at the end of an iteration of bulk_update.
ShowReported(b, state) ==
  CASE state = "CONNECTING" -> transition_state_busy_connecting(b)
    [] state = "DISCONNECTING" -> transition_state_busy_disconnecting(b)
    [] state \in {"CONNECTED_HID", "CONNECTED", "REGISTERING"} ->
         transition_state_connected(b, TRUE)
    [] state \in {"DISCONNECTED", "UNKNOWN0"} -> transition_state_disconnected(b, TRUE)

\* Mutant: only the state of a button counts as a change, not its device.
bulk_update_DeviceUnreported(b, request, i) ==
  LET new == request.devices[i]
      base == IF new.mac # b.device.mac
              THEN [b EXCEPT !.device = new]
              ELSE b
  IN  IF i > request.num_devices THEN bulk_updated_remove_device(b)
      ELSE IF request.bluetooth_on THEN ShowReported(base, new.state)
      ELSE transition_state_bt_off(base)

\* One iteration of bulk_update: slot i, holding b.  The device record is
\* copied only when the slot gets another MAC; the connection state cached in
\* it is not refreshed otherwise.
bulk_update(b, request, i) ==
  LET new == request.devices[i]
      other == new.mac # b.device.mac
      base == IF other
              THEN [b EXCEPT !.device = new, !.btn_state = "DISCONNECTED"]
              ELSE b
      shown == IF request.bluetooth_on
               THEN ShowReported(base, new.state)
               ELSE transition_state_bt_off(base)
  IN  IF i > request.num_devices
      THEN bulk_updated_remove_device(b)
      ELSE [shown EXCEPT !.changed = @ \/ other]

\* Slot i is the one the search for mac stops at.  Both words of the address
\* must be non-zero.
mac_to_idx(bs, mac, i) ==
  /\ mac \notin ZeroWordMacs \cup {NoMac}
  /\ bs[i].device.mac = mac
  /\ \A j \in 1..(i - 1) : bs[j].device.mac # mac

\* What refresh_ui shows for a button: which label, about which device or
\* error, and the colour of an enabled or a disabled button.
Render(b) ==
  [state   |-> b.btn_state,
   about   |-> CASE b.btn_state \in {"DISCONNECTED", "CONNECTED"} \cup Busy -> b.device.mac
                 [] b.btn_state = "ERROR_DISABLED" -> b.error_message
                 [] b.btn_state \in {"SLOT_EMPTY_DISABLED", "BT_OFF_DISABLED"} -> NoMac,
   enabled |-> b.btn_state \in {"DISCONNECTED", "CONNECTED"}]

Widget == [state : BtnStates, about : Macs \cup {NoMac, NoError} \cup Errors,
           enabled : BOOLEAN]

\* A button as quickmenu_start registers it: no label, colour of an enabled one.
Unset == [state |-> "UNSET", about |-> NoMac, enabled |-> TRUE]
==============================================================================
