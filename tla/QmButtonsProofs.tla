--------------------------- MODULE QmButtonsProofs ---------------------------
(* What the transitions of a button keep, which the proofs about QmState and *)
(* VitaQmBluetooth rest on.                                                  *)
EXTENDS QmButtons, TLAPS

USE MaxDevicesAssumption, MacsAssumption, ReportedAssumption, RefusalAssumption

Outcome == [button : QmButton, changed : BOOLEAN]

\* A transition of button b that keeps its device and, unless it reports a
\* change, all of it.
Transition(b, out) ==
  /\ out \in Outcome
  /\ out.button.device = b.device
  /\ ~out.changed => out.button = b

\* The handlers are built from two kinds of outcomes.
LEMMA KeptIsTransition ==
  ASSUME NEW b \in QmButton
  PROVE  Transition(b, Kept(b))
BY DEF Transition, Outcome, Kept

LEMMA MoveIfNotInIsTransition ==
  ASSUME NEW b \in QmButton, NEW s \in BtnStates
  PROVE  /\ Transition(b, MoveIfNotIn(b, s))
         /\ MoveIfNotIn(b, s).button.btn_state = s
BY DEF Transition, Outcome, Kept, Moved, MoveIfNotIn, QmButton

LEMMA BtOffTransition ==
  ASSUME NEW b \in QmButton
  PROVE  LET out == transition_state_bt_off(b) IN
         /\ Transition(b, out)
         /\ out.button.btn_state =
              IF b.btn_state = "SLOT_EMPTY_DISABLED"
              THEN "SLOT_EMPTY_DISABLED" ELSE "BT_OFF_DISABLED"
BY DEF Transition, Outcome, Kept, Moved, transition_state_bt_off, QmButton, BtnStates

LEMMA DisconnectedTransition ==
  ASSUME NEW b \in QmButton, NEW force \in BOOLEAN
  PROVE  LET out == transition_state_disconnected(b, force) IN
         /\ Transition(b, out)
         /\ out.button.btn_state =
              IF b.btn_state = "BT_OFF_DISABLED" /\ ~force
              THEN "BT_OFF_DISABLED" ELSE "DISCONNECTED"
BY KeptIsTransition, MoveIfNotInIsTransition
   DEF transition_state_disconnected, BtnStates, Kept

LEMMA ConnectedTransition ==
  ASSUME NEW b \in QmButton, NEW force \in BOOLEAN
  PROVE  LET out == transition_state_connected(b, force) IN
         /\ Transition(b, out)
         /\ out.button.btn_state =
              IF b.btn_state = "BT_OFF_DISABLED" /\ ~force
              THEN "BT_OFF_DISABLED" ELSE "CONNECTED"
BY KeptIsTransition, MoveIfNotInIsTransition
   DEF transition_state_connected, BtnStates, Kept

LEMMA BusyTransition ==
  ASSUME NEW b \in QmButton
  PROVE  /\ Transition(b, transition_state_busy_connecting(b))
         /\ transition_state_busy_connecting(b).button.btn_state = "CONNECTING_DISABLED"
         /\ Transition(b, transition_state_busy_disconnecting(b))
         /\ transition_state_busy_disconnecting(b).button.btn_state = "DISCONNECTING_DISABLED"
BY MoveIfNotInIsTransition
   DEF transition_state_busy_connecting, transition_state_busy_disconnecting, BtnStates

LEMMA ErrorTransition ==
  ASSUME NEW b \in QmButton, NEW error \in Errors
  PROVE  /\ Transition(b, transition_state_error(b, error))
         /\ transition_state_error(b, error).button.btn_state = "ERROR_DISABLED"
BY DEF Transition, Outcome, Kept, transition_state_error, QmButton, BtnStates

LEMMA BtOnTransition ==
  ASSUME NEW b \in QmButton
  PROVE  LET out == transition_state_bt_on(b) IN
         /\ Transition(b, out)
         /\ out.button.btn_state = "SLOT_EMPTY_DISABLED"
              <=> b.btn_state = "SLOT_EMPTY_DISABLED"
<1>1. CASE b.btn_state = "SLOT_EMPTY_DISABLED"
  BY <1>1, KeptIsTransition DEF transition_state_bt_on, Kept
<1>2. CASE b.btn_state # "SLOT_EMPTY_DISABLED"
  <2>1. b.device.state \in SceStates
    BY DEF QmButton, DeviceInfo
  <2>2. \/ transition_state_bt_on(b) = transition_state_disconnected(b, TRUE)
        \/ transition_state_bt_on(b) = transition_state_busy_connecting(b)
        \/ transition_state_bt_on(b) = transition_state_busy_disconnecting(b)
        \/ transition_state_bt_on(b) = transition_state_connected(b, FALSE)
        \/ transition_state_bt_on(b) = transition_state_disconnected(b, FALSE)
    BY <1>2, <2>1 DEF transition_state_bt_on, SceStates
  <2> QED
    BY <1>2, <2>2, BusyTransition, DisconnectedTransition, ConnectedTransition
<1> QED
  BY <1>1, <1>2

\* A slot is consistent on its own: no device, no button.
SlotConsistent(b) == b.btn_state = "SLOT_EMPTY_DISABLED" <=> b.device.mac = NoMac

LEMMA RemoveDevice ==
  ASSUME NEW b \in QmButton
  PROVE  LET out == bulk_updated_remove_device(b) IN
         /\ out \in Outcome
         /\ ~out.changed => out.button = b
         /\ out.button.btn_state = "SLOT_EMPTY_DISABLED"
         /\ SlotConsistent(b) => out.button.device.mac = NoMac
BY DEF bulk_updated_remove_device, Kept, Moved, Outcome, QmButton, BtnStates,
       DeviceInfo, ZeroDevice, SceStates, SlotConsistent

LEMMA ShowReportedTransition ==
  ASSUME NEW b \in QmButton, NEW state \in SceStates
  PROVE  /\ Transition(b, ShowReported(b, state))
         /\ ShowReported(b, state).button.btn_state # "SLOT_EMPTY_DISABLED"
<1>1. \/ ShowReported(b, state) = transition_state_busy_connecting(b)
      \/ ShowReported(b, state) = transition_state_busy_disconnecting(b)
      \/ ShowReported(b, state) = transition_state_connected(b, TRUE)
      \/ ShowReported(b, state) = transition_state_disconnected(b, TRUE)
  BY DEF ShowReported, SceStates
<1> QED
  BY <1>1, BusyTransition, ConnectedTransition, DisconnectedTransition

\* One iteration of a bulk update: whether it replaces the device, updates the
\* state of the one there or empties the slot, the change is reported and the
\* slot ends with the device of the list.
LEMMA BulkUpdateSlot ==
  ASSUME NEW b \in QmButton, NEW r, NEW i \in Slots,
         r.num_devices \in Nat, r.devices[i] \in DeviceInfo,
         i <= r.num_devices => r.devices[i].mac \in Macs,
         i > r.num_devices => r.devices[i] = ZeroDevice
  PROVE  LET out == bulk_update(b, r, i) IN
         /\ out \in Outcome
         /\ ~out.changed => out.button = b
         /\ SlotConsistent(b) => /\ SlotConsistent(out.button)
                                 /\ out.button.device.mac = r.devices[i].mac
<1> DEFINE out == bulk_update(b, r, i)
           new == r.devices[i]
           other == new.mac # b.device.mac
           base == IF other THEN [b EXCEPT !.device = new, !.btn_state = "DISCONNECTED"]
                            ELSE b
           shown == IF r.bluetooth_on THEN ShowReported(base, new.state)
                                      ELSE transition_state_bt_off(base)
<1>1. new \in DeviceInfo /\ new.state \in SceStates
  BY DEF DeviceInfo
<1>2. CASE i > r.num_devices
  <2>1. out = bulk_updated_remove_device(b)
    BY <1>2 DEF bulk_update
  <2>2. new = ZeroDevice
    BY <1>2
  <2> QED
    BY <2>1, <2>2, RemoveDevice DEF SlotConsistent, ZeroDevice
<1>3. CASE ~(i > r.num_devices)
  <2>1. out = [shown EXCEPT !.changed = @ \/ other]
    BY <1>3 DEF bulk_update
  <2>2. base \in QmButton
    BY <1>1 DEF QmButton, BtnStates
  <2>3. base.device.mac = new.mac
    BY DEF QmButton
  <2>4. Transition(base, shown)
    BY <1>1, <2>2, ShowReportedTransition, BtOffTransition
  <2>5. /\ out \in Outcome
        /\ out.button = shown.button
        /\ out.changed <=> shown.changed \/ other
    BY <2>1, <2>4 DEF Transition, Outcome
  <2>6. ~out.changed => out.button = b
    BY <2>4, <2>5 DEF Transition
  <2>7. out.button.device.mac = new.mac
    BY <2>3, <2>4, <2>5 DEF Transition
  <2>8. new.mac \in Macs
    BY <1>3 DEF Slots
  <2>9. SlotConsistent(b) => out.button.btn_state # "SLOT_EMPTY_DISABLED"
    <3> SUFFICES ASSUME SlotConsistent(b)
                 PROVE  shown.button.btn_state # "SLOT_EMPTY_DISABLED"
      BY <2>5
    <3>1. base.btn_state # "SLOT_EMPTY_DISABLED"
      BY <2>8 DEF SlotConsistent, QmButton
    <3> QED
      BY <1>1, <2>2, <3>1, ShowReportedTransition, BtOffTransition
  <2> QED
    BY <2>5, <2>6, <2>7, <2>8, <2>9 DEF SlotConsistent
<1> QED
  BY <1>2, <1>3
==============================================================================
