------------------------ MODULE VitaQmBluetoothProofs ------------------------
(****************************************************************************)
(* Proofs that a press acts on the device the user touched and that the     *)
(* composition is type correct, for any number of devices and buttons and   *)
(* any sizes of the buffers.                                                *)
(*                                                                          *)
(* The counter of device list changes orders what was read: the list being  *)
(* read is not older than the one the buttons show, which is not older than *)
(* the one the user saw.  If the user saw the list of now, all are equal.   *)
(****************************************************************************)
EXTENDS VitaQmBluetooth, QmButtonsProofs

DeviceLists == [macs : Seq(Macs), states : Seq(Links), pairings : Nat]
Touches == [slot : Nat, mac : Macs \cup {NoMac}, pairings : Nat]

\* As much of the types as the argument needs.
TypeInv ==
  /\ paired \in Seq(Macs) /\ link \in [Macs -> Links]
  /\ list \in DeviceLists /\ Len(list.states) <= Len(list.macs)
  /\ buttons \in [Slots -> QmButton]
  /\ touched \in Touches /\ (touched # NoTouch => touched.slot \in Slots)
  /\ pairings \in Nat /\ shown \in Nat

\* A button is empty exactly when it has no device.
SlotInv == \A i \in Slots : SlotConsistent(buttons[i])

OrderInv ==
  /\ touched.pairings <= shown /\ shown <= pairings
  /\ tpc = "states" => shown <= list.pairings /\ list.pairings <= pairings

\* The list being read, the buttons and the touch agree with the list of the
\* subsystem as long as that has not changed.
ListInv == tpc = "states" /\ list.pairings = pairings => list.macs = paired
Listed(bs, macs) ==
  \A i \in Slots : bs[i].device.mac # NoMac =>
    i \in 1..Len(macs) /\ bs[i].device.mac = macs[i]
ShownInv == shown = pairings => Listed(buttons, paired)
TouchInv ==
  touched # NoTouch /\ touched.pairings = pairings =>
    /\ touched.slot \in 1..Len(paired)
    /\ touched.mac = paired[touched.slot]
    /\ buttons[touched.slot].device.mac = touched.mac

IInv == TypeInv /\ SlotInv /\ OrderInv /\ ListInv /\ ShownInv /\ TouchInv

------------------------------------------------------------------------------
(* What steps do to the variables of the invariant.                         *)

\* Steps that leave everything the invariant is about, except that buttons may
\* change in anything but their devices and whether they are empty, and a touch
\* may end.
SameDevices ==
  /\ buttons' \in [Slots -> QmButton]
  /\ \A i \in Slots : /\ buttons'[i].device = buttons[i].device
                      /\ buttons'[i].btn_state = "SLOT_EMPTY_DISABLED"
                           <=> buttons[i].btn_state = "SLOT_EMPTY_DISABLED"
Keeps ==
  /\ UNCHANGED <<paired, pairings, shown>> /\ link' \in [Macs -> Links]
  /\ list' \in {list, NoList} /\ (tpc' = "states" => tpc = "states" /\ list' = list)
  /\ touched' \in {touched, NoTouch}
  /\ SameDevices

\* Steps that leave the buttons alone.
LEMMA SameButtons == TypeInv /\ buttons' = buttons => SameDevices
BY DEF TypeInv, SameDevices

LEMMA NoListType == NoList \in DeviceLists /\ Len(NoList.states) <= Len(NoList.macs)
BY DEF NoList, DeviceLists

\* Such steps keep the invariant.
LEMMA KeepsIInv == IInv /\ Keeps => IInv'
<1> SUFFICES ASSUME IInv, Keeps PROVE IInv'
  OBVIOUS
<1>1. TypeInv /\ SlotInv /\ OrderInv /\ ListInv /\ ShownInv /\ TouchInv
  BY DEF IInv
<1>2. touched' = touched \/ touched' = NoTouch
  BY DEF Keeps
<1>3. NoTouch \in Touches /\ NoTouch.pairings = 0
  BY DEF NoTouch, Touches
<1>4. TypeInv'
  <2>1. list' \in DeviceLists /\ Len(list'.states) <= Len(list'.macs)
    BY <1>1, NoListType DEF Keeps, TypeInv
  <2>2. touched' \in Touches /\ (touched' # NoTouch => touched'.slot \in Slots)
    BY <1>1, <1>2, <1>3 DEF TypeInv
  <2> QED
    BY <1>1, <2>1, <2>2 DEF TypeInv, Keeps, SameDevices
<1>5. SlotInv'
  BY <1>1 DEF SlotInv, SlotConsistent, Keeps, SameDevices
<1>6. OrderInv'
  BY <1>1, <1>2, <1>3 DEF OrderInv, Keeps, TypeInv
<1>7. ListInv'
  BY <1>1 DEF ListInv, Keeps
<1>8. ShownInv'
  BY <1>1 DEF ShownInv, Listed, Keeps, SameDevices
<1>9. TouchInv'
  <2>1. CASE touched' = NoTouch
    BY <2>1 DEF TouchInv
  <2>2. CASE touched' = touched /\ touched # NoTouch
    BY <1>1, <2>2 DEF TouchInv, TypeInv, Keeps, SameDevices
  <2> QED
    BY <1>2, <2>1, <2>2
<1> QED
  BY <1>4, <1>5, <1>6, <1>7, <1>8, <1>9 DEF IInv

\* A change of the device list leaves all that was read before it behind.
LEMMA PairingChangeIInv ==
  ASSUME IInv, paired' \in Seq(Macs), pairings' = pairings + 1,
         UNCHANGED <<link, list, tpc, buttons, touched, shown>>
  PROVE  IInv'
<1>1. TypeInv /\ SlotInv /\ OrderInv
  BY DEF IInv
<1>2. TypeInv' /\ SlotInv'
  BY <1>1 DEF TypeInv, SlotInv
<1>3. OrderInv'
  BY <1>1 DEF OrderInv, TypeInv, DeviceLists
<1>4. pairings' # shown' /\ pairings' # touched'.pairings
      /\ (tpc' = "states" => pairings' # list'.pairings)
  BY <1>1 DEF OrderInv, TypeInv, DeviceLists, Touches
<1>5. ListInv' /\ ShownInv' /\ TouchInv'
  BY <1>4 DEF ListInv, ShownInv, TouchInv
<1> QED
  BY <1>2, <1>3, <1>5 DEF IInv

\* Reading the list takes the one of now.
LEMMA ReadListIInv == ASSUME IInv, ReadList PROVE IInv'
<1>1. TypeInv /\ SlotInv /\ OrderInv /\ ShownInv /\ TouchInv
  BY DEF IInv
<1>2. list' = [macs |-> paired, states |-> <<>>, pairings |-> pairings]
      /\ UNCHANGED <<paired, link, buttons, touched, pairings, shown>>
  BY DEF ReadList, subvars, history
<1>3. list' \in DeviceLists /\ Len(list'.states) <= Len(list'.macs)
  BY <1>1, <1>2 DEF DeviceLists, TypeInv
<1>4. TypeInv' /\ SlotInv'
  BY <1>1, <1>2, <1>3 DEF TypeInv, SlotInv
<1>5. OrderInv' /\ ListInv'
  BY <1>1, <1>2 DEF OrderInv, ListInv, TypeInv
<1>6. ShownInv' /\ TouchInv'
  BY <1>1, <1>2 DEF ShownInv, TouchInv
<1> QED
  BY <1>4, <1>5, <1>6 DEF IInv

LEMMA ReadStateIInv == ASSUME IInv, ReadState PROVE IInv'
<1>1. TypeInv /\ SlotInv /\ OrderInv /\ ListInv /\ ShownInv /\ TouchInv
  BY DEF IInv
<1> DEFINE next == Len(list.states) + 1
           st == link[list.macs[next]]
<1>2. list' = [list EXCEPT !.states = Append(list.states, st)] /\ next <= Len(list.macs)
      /\ UNCHANGED <<paired, link, tpc, buttons, touched, pairings, shown>>
  BY DEF ReadState, subvars, history
<1>3. list.macs \in Seq(Macs) /\ list.states \in Seq(Links) /\ list.pairings \in Nat
  BY <1>1 DEF TypeInv, DeviceLists
<1>4. st \in Links
  <2>1. next \in 1..Len(list.macs)
    BY <1>2, <1>3
  <2>2. list.macs[next] \in Macs
    BY <1>3, <2>1
  <2> QED
    BY <1>1, <2>2 DEF TypeInv
<1> HIDE DEF st
<1>5. /\ list'.macs = list.macs /\ list'.pairings = list.pairings
      /\ list'.states = Append(list.states, st)
  BY <1>1, <1>2 DEF TypeInv, DeviceLists
<1>6. Append(list.states, st) \in Seq(Links) /\ Len(Append(list.states, st)) = next
  BY <1>3, <1>4
<1>7. list' \in DeviceLists
  BY <1>1, <1>2, <1>6 DEF TypeInv, DeviceLists
<1>8. TypeInv' /\ SlotInv'
  BY <1>1, <1>2, <1>5, <1>6, <1>7 DEF TypeInv, SlotInv
<1>9. OrderInv' /\ ListInv' /\ ShownInv' /\ TouchInv'
  BY <1>1, <1>2, <1>5 DEF OrderInv, ListInv, ShownInv, TouchInv
<1> QED
  BY <1>8, <1>9 DEF IInv

\* A finger touches a button that shows a device.
LEMMA TouchIInv == ASSUME IInv, NEW i \in Slots, Touch(i) PROVE IInv'
<1>1. TypeInv /\ SlotInv /\ OrderInv /\ ListInv /\ ShownInv
  BY DEF IInv
<1>2. touched' = [slot |-> i, mac |-> buttons[i].device.mac, pairings |-> shown]
      /\ UNCHANGED <<paired, link, list, tpc, buttons, pairings, shown>>
  BY DEF Touch, subvars, threadvars, history
<1>3. buttons[i] \in QmButton /\ buttons[i].device.mac \in Macs \cup {NoMac}
  BY <1>1 DEF TypeInv, QmButton, DeviceInfo
<1>4. buttons[i].device.mac # NoMac
  <2>1. buttons[i].btn_state \in {"DISCONNECTED", "CONNECTED"}
    BY DEF Touch, Render
  <2> QED
    BY <1>1, <2>1 DEF SlotInv, SlotConsistent
<1>5. touched' \in Touches /\ touched'.slot \in Slots
  BY <1>1, <1>2, <1>3, MaxDevicesAssumption DEF Touches, TypeInv, Slots
<1>6. TypeInv' /\ SlotInv'
  BY <1>1, <1>2, <1>5 DEF TypeInv, SlotInv
<1>7. OrderInv' /\ ListInv' /\ ShownInv'
  BY <1>1, <1>2 DEF OrderInv, ListInv, ShownInv, TypeInv
<1>8. TouchInv'
  BY <1>1, <1>2, <1>4 DEF TouchInv, ShownInv, Listed
<1> QED
  BY <1>6, <1>7, <1>8 DEF IInv

\* The bulk update puts the list on the buttons.
LEMMA UpdateIInv == ASSUME IInv, Update PROVE IInv'
<1>1. TypeInv /\ SlotInv /\ OrderInv /\ ListInv /\ TouchInv
  BY DEF IInv
<1> DEFINE r == BulkUpdate
<1>2. /\ tpc = "states" /\ tpc' = "fetch" /\ Len(list.states) = Len(list.macs)
      /\ buttons' = [i \in Slots |-> bulk_update(buttons[i], r, i).button]
      /\ list' = NoList /\ shown' = list.pairings
      /\ UNCHANGED <<paired, link, touched, pairings>>
  BY DEF Update, subvars
<1>3. /\ list.macs \in Seq(Macs) /\ list.states \in Seq(Links) /\ list.pairings \in Nat
      /\ Len(list.macs) \in Nat
  BY <1>1 DEF TypeInv, DeviceLists
<1>4. \A i \in Slots : i <= Len(list.macs) =>
        list.macs[i] \in Macs /\ list.states[i] \in SceStates
  <2> SUFFICES ASSUME NEW i \in Slots, i <= Len(list.macs)
               PROVE  list.macs[i] \in Macs /\ list.states[i] \in SceStates
    OBVIOUS
  <2>1. i \in 1..Len(list.macs)
    BY <1>3 DEF Slots
  <2>2. list.macs[i] \in Macs /\ list.states[i] \in Links
    BY <1>2, <1>3, <2>1
  <2> QED
    BY <2>2 DEF Links, SceStates
<1>5. r.num_devices = Len(list.macs)
  BY DEF BulkUpdate
<1>6. \A i \in Slots : r.devices[i] = IF i <= Len(list.macs)
                                      THEN [mac |-> list.macs[i], state |-> list.states[i]]
                                      ELSE ZeroDevice
  BY DEF BulkUpdate
<1> HIDE DEF r
<1>7. ASSUME NEW i \in Slots
      PROVE  /\ buttons'[i] \in QmButton /\ SlotConsistent(buttons'[i])
             /\ buttons'[i].device.mac = IF i <= Len(list.macs) THEN list.macs[i] ELSE NoMac
  <2>1. buttons[i] \in QmButton /\ SlotConsistent(buttons[i])
    BY <1>1 DEF TypeInv, SlotInv
  <2>0. r.devices[i] = IF i <= Len(list.macs)
                       THEN [mac |-> list.macs[i], state |-> list.states[i]]
                       ELSE ZeroDevice
    BY <1>6
  <2> ZeroDevice \in DeviceInfo /\ ZeroDevice.mac = NoMac
    BY DEF DeviceInfo, ZeroDevice, SceStates
  <2>2. r.devices[i] \in DeviceInfo
    BY <1>4, <2>0 DEF DeviceInfo
  <2>3. i <= r.num_devices => r.devices[i].mac \in Macs
    BY <1>4, <1>5, <2>0
  <2>4. i > r.num_devices => r.devices[i] = ZeroDevice
    BY <1>3, <1>5, <2>0 DEF Slots
  <2>5. LET out == bulk_update(buttons[i], r, i) IN
        /\ out \in Outcome /\ SlotConsistent(out.button)
        /\ out.button.device.mac = r.devices[i].mac
    BY <1>3, <1>5, <2>1, <2>2, <2>3, <2>4, BulkUpdateSlot
  <2>6. buttons'[i] = bulk_update(buttons[i], r, i).button
    BY <1>2
  <2>7. r.devices[i].mac = IF i <= Len(list.macs) THEN list.macs[i] ELSE NoMac
    BY <2>0
  <2> QED
    BY <2>5, <2>6, <2>7 DEF Outcome
<1>8. SlotInv'
  BY <1>7 DEF SlotInv
<1>9. buttons' \in [Slots -> QmButton]
  BY <1>2, <1>7
<1>10. TypeInv'
  BY <1>1, <1>2, <1>3, <1>9, NoListType DEF TypeInv
<1>11. OrderInv'
  BY <1>1, <1>2, <1>3 DEF OrderInv, TypeInv, Touches
<1>12. Listed(buttons', list.macs)
  <2> SUFFICES ASSUME NEW i \in Slots, buttons'[i].device.mac # NoMac
               PROVE  i \in 1..Len(list.macs) /\ buttons'[i].device.mac = list.macs[i]
    BY DEF Listed
  <2>1. i <= Len(list.macs)
    BY <1>7
  <2> QED
    BY <1>3, <1>7, <2>1 DEF Slots
<1>13. list.pairings = pairings => list.macs = paired
  BY <1>1, <1>2 DEF ListInv
<1>14. ListInv'
  BY <1>2 DEF ListInv
<1>15. ShownInv'
  BY <1>2, <1>12, <1>13 DEF ShownInv
<1>16. TouchInv'
  <2> SUFFICES ASSUME touched # NoTouch, touched.pairings = pairings
               PROVE  /\ touched.slot \in 1..Len(paired)
                      /\ touched.mac = paired[touched.slot]
                      /\ buttons'[touched.slot].device.mac = touched.mac
    BY <1>2 DEF TouchInv
  <2>1. touched.slot \in 1..Len(paired) /\ touched.mac = paired[touched.slot]
    BY <1>1 DEF TouchInv
  <2>2. list.pairings = pairings
    BY <1>1, <1>2 DEF OrderInv, TypeInv, DeviceLists, Touches
  <2>3. list.macs = paired
    BY <1>13, <2>2
  <2>4. touched.slot \in Slots
    BY <1>1 DEF TypeInv
  <2> QED
    BY <1>3, <1>7, <2>1, <2>3, <2>4
<1> QED
  BY <1>8, <1>10, <1>11, <1>14, <1>15, <1>16 DEF IInv

------------------------------------------------------------------------------
(* Which action is which kind of step.                                      *)

LEMMA LinkChange ==
  ASSUME TypeInv, NEW m \in Macs, NEW from, NEW to \in Links, SetLink(m, from, to)
  PROVE  link' \in [Macs -> Links] /\ UNCHANGED paired
BY DEF TypeInv, SetLink

LEMMA SubsystemKeepsOrPairs ==
  ASSUME IInv, SubsystemChanges \/ SubsystemEnds
  PROVE  Keeps \/ (/\ paired' \in Seq(Macs) /\ pairings' = pairings + 1
                   /\ UNCHANGED <<link, list, tpc, buttons, touched, shown>>)
<1>1. TypeInv
  BY DEF IInv
<1>2. UNCHANGED <<list, tpc, buttons, touched, shown>> /\ SameDevices
  BY <1>1, SameButtons DEF SubsystemChanges, SubsystemEnds, threadvars, history
<1>3. ASSUME UNCHANGED <<paired, pairings>>, link' \in [Macs -> Links] PROVE Keeps
  BY <1>2, <1>3 DEF Keeps
<1> "DISCONNECTED" \in Links /\ "CONNECTING" \in Links /\ "CONNECTED" \in Links
  BY DEF Links
<1>4. CASE TurnOff \/ TurnOn
  BY <1>1, <1>3, <1>4 DEF TurnOff, TurnOn, Toggle, TypeInv
<1>5. ASSUME NEW m \in Macs, ConnectElsewhere(m) \/ DisconnectElsewhere(m) PROVE Keeps
  BY <1>1, <1>3, <1>5, LinkChange DEF ConnectElsewhere, DisconnectElsewhere
<1>6. ASSUME NEW m \in Macs, Pair(m)
      PROVE  paired' \in Seq(Macs) /\ pairings' = pairings + 1 /\ UNCHANGED link
  <2>1. PICK i \in 1..(Len(paired) + 1) : paired' = InsertAt(paired, i, m)
    BY <1>6 DEF Pair
  <2>2. paired \in Seq(Macs)
    BY <1>1 DEF TypeInv
  <2>3. SubSeq(paired, 1, i - 1) \in Seq(Macs) /\ SubSeq(paired, i, Len(paired)) \in Seq(Macs)
    BY <2>2
  <2>4. InsertAt(paired, i, m) \in Seq(Macs)
    BY <2>3 DEF InsertAt
  <2> QED
    BY <1>6, <2>1, <2>4 DEF Pair
<1>7. ASSUME NEW m \in Macs, Unpair(m)
      PROVE  paired' \in Seq(Macs) /\ pairings' = pairings + 1 /\ UNCHANGED link
  <2>1. PICK i \in DOMAIN paired : paired' = RemoveAt(paired, i)
    BY <1>7 DEF Unpair
  <2>2. paired \in Seq(Macs) /\ i \in 1..Len(paired)
    BY <1>1, <2>1 DEF TypeInv
  <2>3. SubSeq(paired, 1, i - 1) \in Seq(Macs) /\ SubSeq(paired, i + 1, Len(paired)) \in Seq(Macs)
    BY <2>2
  <2>4. RemoveAt(paired, i) \in Seq(Macs)
    BY <2>3 DEF RemoveAt
  <2> QED
    BY <1>7, <2>1, <2>4 DEF Unpair
<1>8. CASE SubsystemChanges
  BY <1>2, <1>4, <1>5, <1>6, <1>7, <1>8 DEF SubsystemChanges
<1>9. CASE SubsystemEnds
  <2>1. UNCHANGED pairings
    BY <1>9 DEF SubsystemEnds, history
  <2>2. CASE TurnedOn \/ TurnedOff
    BY <1>1, <1>3, <2>1, <2>2 DEF TurnedOn, TurnedOff, Toggle, TypeInv
  <2>3. ASSUME NEW m \in Macs, ConnectEnds(m) PROVE Keeps
    BY <1>1, <1>3, <2>1, <2>3, LinkChange DEF ConnectEnds
  <2>4. ASSUME NEW m \in Macs, DisconnectEnds(m) \/ DroppedByOff(m) PROVE Keeps
    BY <1>1, <1>3, <2>1, <2>4, LinkChange DEF DisconnectEnds, DroppedByOff
  <2> QED
    BY <1>9, <2>2, <2>3, <2>4 DEF SubsystemEnds
<1> QED
  BY <1>8, <1>9

\* The handled event moves buttons between states that keep their devices.
LEMMA HandleEventKeeps == ASSUME IInv, HandleEvent PROVE Keeps
<1>1. TypeInv /\ SlotInv
  BY DEF IInv
<1>2. UNCHANGED <<paired, link, list, touched, pairings, shown>> /\ tpc' # "states"
  BY DEF HandleEvent, subvars
<1>3. SameDevices
  <2> DEFINE r == qm_handle_event(cur)
             Same(b, c) == /\ c \in QmButton /\ c.device = b.device
                           /\ c.btn_state = "SLOT_EMPTY_DISABLED"
                                <=> b.btn_state = "SLOT_EMPTY_DISABLED"
  <2>1. ASSUME NEW i \in Slots PROVE buttons[i] \in QmButton /\ SlotConsistent(buttons[i])
    BY <1>1 DEF TypeInv, SlotInv
  <2>2. ASSUME NEW i \in Slots
        PROVE  /\ Same(buttons[i], transition_state_bt_on(buttons[i]).button)
               /\ Same(buttons[i], transition_state_bt_off(buttons[i]).button)
    BY <2>1, BtOnTransition, BtOffTransition DEF Transition, Outcome
  <2>3. ASSUME NEW i \in Slots, mac_to_idx(buttons, r.mac, i)
        PROVE  /\ Same(buttons[i], transition_state_connected(buttons[i], FALSE).button)
               /\ Same(buttons[i], transition_state_disconnected(buttons[i], FALSE).button)
    <3>1. buttons[i].btn_state # "SLOT_EMPTY_DISABLED"
      BY <2>1, <2>3 DEF mac_to_idx, SlotConsistent
    <3> QED
      BY <2>1, <3>1, ConnectedTransition, DisconnectedTransition DEF Transition, Outcome
  <2>4. \/ buttons' = buttons
        \/ buttons' = [i \in Slots |-> transition_state_bt_on(buttons[i]).button]
        \/ buttons' = [i \in Slots |-> transition_state_bt_off(buttons[i]).button]
        \/ buttons' = [i \in Slots |-> IF mac_to_idx(buttons, r.mac, i)
                                       THEN transition_state_connected(buttons[i], FALSE).button
                                       ELSE buttons[i]]
        \/ buttons' = [i \in Slots |-> IF mac_to_idx(buttons, r.mac, i)
                                       THEN transition_state_disconnected(buttons[i], FALSE).button
                                       ELSE buttons[i]]
    BY DEF HandleEvent
  <2> HIDE DEF r
  <2>5. ASSUME NEW i \in Slots PROVE Same(buttons[i], buttons'[i])
    BY <2>1, <2>2, <2>3, <2>4, <2>5
  <2>6. buttons' = [i \in Slots |-> buttons'[i]]
    BY <1>1, <2>4 DEF TypeInv
  <2> QED
    BY <2>5, <2>6 DEF SameDevices
<1> QED
  BY <1>1, <1>2, <1>3 DEF Keeps, TypeInv

\* A press moves the touched button, which shows a device.
LEMMA PressKeeps == ASSUME IInv, Press PROVE Keeps
<1>1. TypeInv /\ SlotInv
  BY DEF IInv
<1> DEFINE i == touched.slot
           b == buttons[i]
<1>2. /\ UNCHANGED <<list, tpc, pairings, shown>>
      /\ touched # NoTouch /\ touched' = NoTouch
  BY DEF Press, threadvars, history
<1>3. i \in Slots /\ b \in QmButton /\ SlotConsistent(b)
  BY <1>1, <1>2 DEF TypeInv, SlotInv
<1>4. UNCHANGED <<paired, link>> \/ \E to \in Links : SetLink(b.device.mac, link[b.device.mac], to)
  BY DEF Press, SetLink, subvars, Links
<1>5. link' \in [Macs -> Links] /\ UNCHANGED paired
  BY <1>1, <1>4 DEF SetLink, TypeInv
<1>6. SameDevices
  <2>1. CASE ~Render(b).enabled
    BY <1>1, <2>1, SameButtons DEF Press, Render
  <2>2. CASE Render(b).enabled
    <3>1. b.btn_state # "SLOT_EMPTY_DISABLED"
      BY <2>2 DEF Render
    <3>2. PICK c : /\ buttons' = [buttons EXCEPT ![i] = c]
                   /\ c \in {transition_state_busy_connecting(b).button,
                             transition_state_busy_disconnecting(b).button,
                             transition_state_error(b, "OTHER").button}
      BY <2>2 DEF Press
    <3>3. /\ c \in QmButton /\ c.device = b.device
          /\ c.btn_state # "SLOT_EMPTY_DISABLED"
      <4>1. "OTHER" \in Errors
        BY DEF Errors
      <4> QED
        BY <1>3, <3>2, <4>1, BusyTransition, ErrorTransition DEF Transition, Outcome
    <3> QED
      BY <1>1, <1>3, <3>1, <3>2, <3>3 DEF SameDevices, TypeInv
  <2> QED
    BY <2>1, <2>2
<1> QED
  BY <1>2, <1>5, <1>6 DEF Keeps

\* The other actions leave buttons, list and pairings alone.
LEMMA OthersKeep ==
  ASSUME IInv,
         \/ KernelEvent \/ KernelDropped \/ KernelReadFails \/ MenuOpened \/ MenuClosed
         \/ Flush \/ ReadPower \/ ListFails \/ FetchOverrun \/ Fetch \/ FetchFails
         \/ UNCHANGED vars
  PROVE  Keeps
<1>1. TypeInv
  BY DEF IInv
<1>2. UNCHANGED <<paired, link, buttons, pairings, shown>>
  BY DEF KernelEvent, KernelDropped, KernelReadFails, MenuOpened, MenuClosed, Flush,
     ReadPower, ListFails, FetchOverrun, Fetch, FetchFails, subvars, history, vars
<1>3. list' \in {list, NoList} /\ (tpc' = "states" => tpc = "states" /\ list' = list)
  BY DEF KernelEvent, KernelDropped, KernelReadFails, MenuOpened, MenuClosed, Flush,
     ReadPower, ListFails, FetchOverrun, Fetch, FetchFails, threadvars, vars
<1>4. touched' \in {touched, NoTouch}
  BY DEF KernelEvent, KernelDropped, KernelReadFails, MenuOpened, MenuClosed, Flush,
     ReadPower, ListFails, FetchOverrun, Fetch, FetchFails, vars
<1> QED
  BY <1>1, <1>2, <1>3, <1>4, SameButtons DEF Keeps, TypeInv

------------------------------------------------------------------------------
LEMMA InitIInv == Init => IInv
<1> SUFFICES ASSUME Init PROVE IInv
  OBVIOUS
<1>1. paired \in Seq(Macs)
  BY DEF Init, Lists, BoundedSeq, SeqOf
<1>2. link \in [Macs -> Links]
  BY DEF Init, Links
<1>3. ZeroButton \in QmButton /\ ZeroButton.device.mac = NoMac
      /\ ZeroButton.btn_state = "SLOT_EMPTY_DISABLED"
  BY DEF ZeroButton, QmButton, ZeroDevice, DeviceInfo, SceStates, BtnStates
<1>4. touched = NoTouch /\ NoTouch \in Touches /\ NoTouch.pairings = 0
  BY DEF Init, NoTouch, Touches
<1>5. pairings = 0 /\ shown = 0 /\ list = NoList /\ tpc = "off"
      /\ buttons = [i \in Slots |-> ZeroButton]
  BY DEF Init
<1>6. TypeInv
  BY <1>1, <1>2, <1>3, <1>4, <1>5, NoListType DEF TypeInv
<1>7. SlotInv
  BY <1>3, <1>5 DEF SlotInv, SlotConsistent
<1>8. OrderInv /\ ListInv /\ TouchInv
  BY <1>4, <1>5 DEF OrderInv, ListInv, TouchInv
<1>9. ShownInv
  BY <1>3, <1>5 DEF ShownInv, Listed
<1> QED
  BY <1>6, <1>7, <1>8, <1>9 DEF IInv

LEMMA NextIInv == IInv /\ [Next]_vars => IInv'
<1> SUFFICES ASSUME IInv, [Next]_vars PROVE IInv'
  OBVIOUS
<1>1. CASE SubsystemChanges \/ SubsystemEnds
  BY <1>1, SubsystemKeepsOrPairs, KeepsIInv, PairingChangeIInv
<1>2. CASE \/ KernelEvent \/ KernelDropped \/ KernelReadFails \/ MenuOpened \/ MenuClosed
           \/ Flush \/ ReadPower \/ ListFails \/ FetchOverrun \/ Fetch \/ FetchFails
           \/ UNCHANGED vars
  BY <1>2, OthersKeep, KeepsIInv
<1>3. CASE ReadList
  BY <1>3, ReadListIInv
<1>4. CASE ReadState
  BY <1>4, ReadStateIInv
<1>5. CASE Update
  BY <1>5, UpdateIInv
<1>6. CASE HandleEvent
  BY <1>6, HandleEventKeeps, KeepsIInv
<1>7. CASE Press
  BY <1>7, PressKeeps, KeepsIInv
<1>8. ASSUME NEW i \in Slots, Touch(i) PROVE IInv'
  BY <1>8, TouchIInv
<1> QED
  BY <1>1, <1>2, <1>3, <1>4, <1>5, <1>6, <1>7, <1>8 DEF Next, ThreadStep

\* A press acts on the device that the touched button showed when the finger went
\* down, however many events, bulk updates and failed resets came between, unless
\* devices were added or removed since the list it showed was read.
THEOREM PressesActOnTheTouched == Spec => []TouchedDeviceIsPressed
<1>1. IInv => TouchedDeviceIsPressed
  BY DEF IInv, TouchInv, TouchedDeviceIsPressed
<1> QED
  BY <1>1, InitIInv, NextIInv, PTL DEF Spec

------------------------------------------------------------------------------
(* Type correctness: what IInv leaves out.                                  *)

PowerInv == power \in {Off, TurningOn, On, TurningOff}
QueueInv ==
  /\ queue \in Seq(SceBtEvents) /\ Len(queue) <= QueueSize
  /\ lost \in BOOLEAN /\ cut_short \in BOOLEAN
RingInv ==
  ring \in Seq(VqmbtEventRecords) /\ Len(ring) <= Capacity /\ overrun \in BOOLEAN
ThreadInv ==
  /\ tpc \in {"off", "flush", "power", "list", "states", "fetch", "handle"}
  /\ on \in BOOLEAN /\ restored \subseteq Slots
  /\ IF tpc = "handle" THEN cur \in VqmbtEventRecords ELSE cur = NoVqmbtEvent
PairedInv == paired \in Lists /\ list.macs \in Lists
TouchedInv == touched # NoTouch => touched.mac \in Macs

DataInv ==
  PowerInv /\ QueueInv /\ RingInv /\ ThreadInv /\ PairedInv /\ TouchedInv

LEMMA ListsAre ==
  ASSUME NEW s
  PROVE  s \in Lists <=> s \in Seq(Macs) /\ Len(s) <= MAX_DEVICES
                         /\ \A i, j \in 1..Len(s) : s[i] = s[j] => i = j
<1>1. s \in BoundedSeq(Macs, MAX_DEVICES)
        <=> s \in Seq(Macs) /\ Len(s) <= MAX_DEVICES
  <2>1. ASSUME NEW n \in 0..MAX_DEVICES, s \in [1..n -> Macs]
        PROVE  s \in Seq(Macs) /\ Len(s) <= MAX_DEVICES
    <3>1. n \in Nat /\ n <= MAX_DEVICES
      BY MaxDevicesAssumption
    <3>2. s \in Seq(Macs) /\ Len(s) = n
      BY <2>1, <3>1
    <3> QED
      BY <3>1, <3>2
  <2>2. ASSUME s \in Seq(Macs), Len(s) <= MAX_DEVICES
        PROVE  \E n \in 0..MAX_DEVICES : s \in [1..n -> Macs]
    <3>1. Len(s) \in 0..MAX_DEVICES /\ s \in [1..Len(s) -> Macs]
      BY <2>2, MaxDevicesAssumption
    <3> QED
      BY <3>1
  <2> QED
    BY <2>1, <2>2 DEF BoundedSeq, SeqOf
<1>2. s \in Seq(Macs) => DOMAIN s = 1..Len(s)
  OBVIOUS
<1> QED
  BY <1>1, <1>2 DEF Lists, IsInjective

LEMMA NoListIsOne == NoList.macs \in Lists
<1>1. <<>> \in Seq(Macs) /\ Len(<<>>) = 0
  OBVIOUS
<1>2. \A i, j \in 1..Len(<<>>) : <<>>[i] = <<>>[j] => i = j
  BY <1>1
<1>3. Len(<<>>) <= MAX_DEVICES
  BY <1>1, MaxDevicesAssumption
<1>4. <<>> \in Lists
  BY <1>1, <1>2, <1>3, ListsAre
<1> QED
  BY <1>4 DEF NoList

LEMMA Joined ==
  ASSUME NEW a \in Seq(Macs), NEW b \in Seq(Macs)
  PROVE  /\ a \o b \in Seq(Macs) /\ Len(a \o b) = Len(a) + Len(b)
         /\ \A j \in 1..Len(a) : (a \o b)[j] = a[j]
         /\ \A j \in (Len(a) + 1)..(Len(a) + Len(b)) : (a \o b)[j] = b[j - Len(a)]
OBVIOUS

LEMMA InsertKeepsLists ==
  ASSUME NEW s \in Lists, NEW m \in Macs, m \notin ToSet(s), Len(s) < MAX_DEVICES,
         NEW i \in 1..(Len(s) + 1)
  PROVE  InsertAt(s, i, m) \in Lists
<1> DEFINE t == InsertAt(s, i, m)
<1>1. /\ s \in Seq(Macs) /\ Len(s) \in Nat
      /\ \A j, k \in 1..Len(s) : s[j] = s[k] => j = k
  BY ListsAre
<1>2. \A j \in 1..Len(s) : s[j] \in Macs /\ s[j] # m
  BY <1>1 DEF ToSet
<1>3. /\ SubSeq(s, 1, i - 1) \in Seq(Macs) /\ Len(SubSeq(s, 1, i - 1)) = i - 1
      /\ \A j \in 1..(i - 1) : SubSeq(s, 1, i - 1)[j] = s[j]
  BY <1>1
<1>4. /\ SubSeq(s, i, Len(s)) \in Seq(Macs)
      /\ Len(SubSeq(s, i, Len(s))) = Len(s) + 1 - i
      /\ \A j \in 1..(Len(s) + 1 - i) : SubSeq(s, i, Len(s))[j] = s[j + i - 1]
  BY <1>1
<1>5. /\ t \in Seq(Macs) /\ Len(t) = Len(s) + 1
      /\ \A j \in 1..Len(t) :
           t[j] = IF j < i THEN s[j] ELSE IF j = i THEN m ELSE s[j - 1]
  <2> DEFINE a == SubSeq(s, 1, i - 1)
             c == a \o <<m>>
             b == SubSeq(s, i, Len(s))
  <2>1. t = c \o b
    BY DEF InsertAt
  <2>2. <<m>> \in Seq(Macs) /\ Len(<<m>>) = 1 /\ <<m>>[1] = m
    OBVIOUS
  <2> HIDE DEF t, a, b
  <2>3. /\ c \in Seq(Macs) /\ Len(c) = i
        /\ \A j \in 1..(i - 1) : c[j] = s[j]
        /\ c[i] = m
    <3>1. /\ a \in Seq(Macs) /\ Len(a) = i - 1
          /\ \A j \in 1..(i - 1) : a[j] = s[j]
      BY <1>3 DEF a
    <3>2. /\ c \in Seq(Macs) /\ Len(c) = i
          /\ \A j \in 1..(i - 1) : c[j] = a[j]
          /\ \A j \in i..i : c[j] = <<m>>[j - (i - 1)]
      BY <3>1, <2>2, Joined, Z3
    <3>3. i \in i..i /\ i - (i - 1) = 1
      OBVIOUS
    <3>4. c[i] = m
      BY <2>2, <3>2, <3>3
    <3> QED
      BY <3>1, <3>2, <3>4
  <2>4. /\ b \in Seq(Macs) /\ Len(b) = Len(s) + 1 - i
        /\ \A j \in 1..(Len(s) + 1 - i) : b[j] = s[j + i - 1]
    BY <1>4 DEF b
  <2> HIDE DEF c
  <2>5. /\ t \in Seq(Macs) /\ Len(t) = Len(s) + 1
        /\ \A j \in 1..i : t[j] = c[j]
        /\ \A j \in (i + 1)..(Len(s) + 1) : t[j] = b[j - i]
    BY <1>1, <2>1, <2>3, <2>4, Joined
  <2>6. ASSUME NEW j \in (i + 1)..(Len(s) + 1)
        PROVE  t[j] = s[j - 1]
    <3>1. j - i \in 1..(Len(s) + 1 - i) /\ (j - i) + i - 1 = j - 1
      BY <1>1
    <3> QED
      BY <2>4, <2>5, <3>1
  <2>7. ASSUME NEW j \in 1..(i - 1)
        PROVE  t[j] = s[j]
    <3>1. j \in 1..i /\ t[j] = c[j] /\ c[j] = s[j]
      BY <2>3, <2>5
    <3> QED
      BY <3>1
  <2>8. i \in 1..i /\ t[i] = m
    BY <2>3, <2>5
  <2>9. ASSUME NEW j \in 1..(Len(s) + 1)
        PROVE  t[j] = IF j < i THEN s[j] ELSE IF j = i THEN m ELSE s[j - 1]
    <3>1. j < i => j \in 1..(i - 1)
      OBVIOUS
    <3>2. j > i => j \in (i + 1)..(Len(s) + 1)
      BY <1>1
    <3>3. CASE j < i
      BY <2>7, <3>1, <3>3
    <3>4. CASE j = i
      BY <2>8, <3>4
    <3>5. CASE j > i
      BY <2>6, <3>2, <3>5
    <3> QED
      BY <3>3, <3>4, <3>5
  <2> QED
    BY <2>5, <2>9
<1> HIDE DEF t
<1>6. ASSUME NEW j \in 1..Len(t), NEW k \in 1..Len(t), t[j] = t[k]
      PROVE  j = k
  <2> DEFINE old(x) == IF x < i THEN x ELSE x - 1
  <2>1. \A x \in 1..Len(t) : x # i => old(x) \in 1..Len(s) /\ t[x] = s[old(x)]
    BY <1>1, <1>5
  <2>2. t[i] = m /\ i \in 1..Len(t)
    BY <1>1, <1>5
  <2>3. CASE j = i \/ k = i
    BY <1>2, <1>6, <2>1, <2>2, <2>3
  <2>4. CASE j # i /\ k # i
    <3>1. old(j) = old(k)
      BY <1>1, <1>6, <2>1, <2>4
    <3> QED
      BY <1>1, <1>5, <2>4, <3>1
  <2> QED
    BY <2>3, <2>4
<1>7. Len(t) <= MAX_DEVICES
  BY <1>1, <1>5, MaxDevicesAssumption
<1>8. t \in Lists
  BY <1>5, <1>6, <1>7, ListsAre
<1> QED
  BY <1>8 DEF t

LEMMA RemoveKeepsLists ==
  ASSUME NEW s \in Lists, NEW i \in DOMAIN s
  PROVE  RemoveAt(s, i) \in Lists
<1> DEFINE t == RemoveAt(s, i)
<1>1. /\ s \in Seq(Macs) /\ Len(s) \in Nat /\ Len(s) <= MAX_DEVICES
      /\ \A j, k \in 1..Len(s) : s[j] = s[k] => j = k
      /\ i \in 1..Len(s)
  BY ListsAre
<1>3. /\ SubSeq(s, 1, i - 1) \in Seq(Macs) /\ Len(SubSeq(s, 1, i - 1)) = i - 1
      /\ \A j \in 1..(i - 1) : SubSeq(s, 1, i - 1)[j] = s[j]
  BY <1>1
<1>4. /\ SubSeq(s, i + 1, Len(s)) \in Seq(Macs)
      /\ Len(SubSeq(s, i + 1, Len(s))) = Len(s) - i
      /\ \A j \in 1..(Len(s) - i) : SubSeq(s, i + 1, Len(s))[j] = s[j + i]
  BY <1>1
<1>5. /\ t \in Seq(Macs) /\ Len(t) = Len(s) - 1
      /\ \A j \in 1..Len(t) : t[j] = IF j < i THEN s[j] ELSE s[j + 1]
  <2> DEFINE a == SubSeq(s, 1, i - 1)
             b == SubSeq(s, i + 1, Len(s))
  <2>1. t = a \o b
    BY DEF RemoveAt
  <2>2. /\ a \in Seq(Macs) /\ Len(a) = i - 1
        /\ \A j \in 1..(i - 1) : a[j] = s[j]
    BY <1>3
  <2>3. /\ b \in Seq(Macs) /\ Len(b) = Len(s) - i
        /\ \A j \in 1..(Len(s) - i) : b[j] = s[j + i]
    BY <1>4
  <2> HIDE DEF t, a, b
  <2>4. /\ t \in Seq(Macs) /\ Len(t) = Len(s) - 1
        /\ \A j \in 1..(i - 1) : t[j] = a[j]
        /\ \A j \in i..(Len(s) - 1) : t[j] = b[j - (i - 1)]
    <3>1. /\ t \in Seq(Macs) /\ Len(t) = Len(a) + Len(b)
          /\ \A j \in 1..Len(a) : t[j] = a[j]
          /\ \A j \in (Len(a) + 1)..(Len(a) + Len(b)) : t[j] = b[j - Len(a)]
      BY <2>1, <2>2, <2>3, Joined
    <3>2. Len(a) + 1 = i /\ Len(a) + Len(b) = Len(s) - 1
      BY <1>1, <2>2, <2>3
    <3> QED
      BY <2>2, <3>1, <3>2
  <2>5. ASSUME NEW j \in i..(Len(s) - 1)
        PROVE  t[j] = s[j + 1]
    <3>1. j - (i - 1) \in 1..(Len(s) - i) /\ (j - (i - 1)) + i = j + 1
      BY <1>1
    <3> QED
      BY <2>3, <2>4, <3>1
  <2>6. ASSUME NEW j \in 1..(i - 1)
        PROVE  t[j] = s[j]
    BY <2>2, <2>4
  <2>7. ASSUME NEW j \in 1..(Len(s) - 1)
        PROVE  t[j] = IF j < i THEN s[j] ELSE s[j + 1]
    <3>1. CASE j < i
      <4>1. j \in 1..(i - 1)
        BY <3>1
      <4> QED
        BY <2>6, <3>1, <4>1
    <3>2. CASE ~(j < i)
      <4>1. j \in i..(Len(s) - 1)
        BY <1>1, <3>2
      <4> QED
        BY <2>5, <3>2, <4>1
    <3> QED
      BY <3>1, <3>2
  <2> QED
    BY <2>4, <2>7
<1> HIDE DEF t
<1>6. \A j, k \in 1..Len(t) : t[j] = t[k] => j = k
  BY <1>1, <1>5
<1>7. Len(t) <= MAX_DEVICES
  BY <1>1, <1>5, MaxDevicesAssumption
<1>8. t \in Lists
  BY <1>5, <1>6, <1>7, ListsAre
<1> QED
  BY <1>8 DEF t

LEMMA AnnounceKeepsQueue ==
  ASSUME QueueInv, NEW e \in SceBtEvents, Announce(e)
  PROVE  QueueInv'
<1>1. QueueSize \in Nat \ {0}
  BY SizesAssumption
<1>2. CASE e.id \in Masked
  BY <1>2 DEF QueueInv, Announce
<1>3. CASE e.id \notin Masked
  <2>1. lost' \in BOOLEAN /\ cut_short' \in BOOLEAN
    BY <1>3 DEF QueueInv, Announce
  <2>2. CASE Len(queue) < QueueSize
    <3>1. queue' = Append(queue, e)
      BY <1>3, <2>2 DEF Announce
    <3> QED
      BY <1>1, <2>1, <2>2, <3>1 DEF QueueInv
  <2>3. CASE ~(Len(queue) < QueueSize) /\ LosesOldest
    <3>1. queue' = Append(Tail(queue), e)
      BY <1>3, <2>3 DEF Announce
    <3>2. queue \in Seq(SceBtEvents) /\ Len(queue) = QueueSize /\ queue # <<>>
      BY <1>1, <2>3 DEF QueueInv
    <3>3. Tail(queue) \in Seq(SceBtEvents) /\ Len(Tail(queue)) = QueueSize - 1
      BY <3>2
    <3>4. queue' \in Seq(SceBtEvents) /\ Len(queue') = QueueSize
      BY <1>1, <3>1, <3>3
    <3> QED
      BY <1>1, <2>1, <3>4 DEF QueueInv
  <2>4. CASE ~(Len(queue) < QueueSize) /\ ~LosesOldest
    <3>1. queue' = queue
      BY <1>3, <2>4 DEF Announce
    <3> QED
      BY <2>1, <3>1 DEF QueueInv
  <2> QED
    BY <2>2, <2>3, <2>4
<1> QED
  BY <1>2, <1>3

LEMMA EmitKeepsRing ==
  ASSUME RingInv, NEW ev \in VqmbtEventRecords \cup {NoVqmbtEvent}, Emit(ev)
  PROVE  RingInv'
<1>1. Capacity \in Nat \ {0}
  BY SizesAssumption
<1>2. CASE ev = NoVqmbtEvent
  BY <1>2 DEF Emit, RingInv, ringvars
<1>3. CASE ev # NoVqmbtEvent
  <2>1. ev \in VqmbtEventRecords
    BY <1>3
  <2>2. CASE overrun \/ Len(ring) >= Capacity
    <3>1. ring' = <<>> /\ overrun' = TRUE
      BY <1>3, <2>2 DEF Emit, RingInv
    <3> QED
      BY <1>1, <3>1 DEF RingInv
  <2>3. CASE ~overrun /\ ~(Len(ring) >= Capacity)
    <3>1. ring' = Append(ring, ev)
      BY <1>3, <2>3 DEF Emit
    <3>2. overrun' \in BOOLEAN
      BY <1>3, <2>3 DEF Emit
    <3>3. ring \in Seq(VqmbtEventRecords) /\ Len(ring) \in Nat /\ Len(ring) < Capacity
      BY <1>1, <2>3 DEF RingInv
    <3>4. ring' \in Seq(VqmbtEventRecords) /\ Len(ring') <= Capacity
      BY <1>1, <2>1, <3>1, <3>3
    <3> QED
      BY <3>2, <3>4 DEF RingInv
  <2> QED
    BY <2>2, <2>3
<1> QED
  BY <1>2, <1>3

LEMMA HandlerEmits ==
  ASSUME NEW e \in SceBtEvents
  PROVE  bt_handle_event(e) \in VqmbtEventRecords \cup {NoVqmbtEvent}
<1>1. connect_result(e.unk1) \in VqmbtEventIds /\ e.mac \in Macs \cup {NoMac}
  BY DEF connect_result, VqmbtEventIds, SceBtEvents
<1> QED
  BY <1>1 DEF bt_handle_event, VqmbtEventRecords, VqmbtEventIds

\* The events of the subsystem's changes.
LEMMA EventTypes ==
  /\ \A p \in {Off, TurningOn, On, TurningOff} : Toggled(p) \in SceBtEvents
  /\ ListChanged \in SceBtEvents
  /\ \A m \in Macs : /\ Disconnected(m) \in SceBtEvents
                     /\ Result(m, 0) \in SceBtEvents /\ Result(m, 4) \in SceBtEvents
BY DEF Toggled, ListChanged, Disconnected, Result, SceBtEvent, SceBtEvents,
       Off, TurningOn, On, TurningOff

\* The actions of Next that do not announce a change.
ThreadOrUser ==
  \/ KernelEvent \/ KernelDropped \/ KernelReadFails \/ MenuOpened \/ MenuClosed
  \/ ThreadStep \/ \E i \in Slots : Touch(i)

LEMMA PowerNext == DataInv /\ [Next]_vars => PowerInv'
<1> SUFFICES ASSUME PowerInv, [Next]_vars PROVE PowerInv'
  BY DEF DataInv
<1> USE DEF PowerInv
<1>1. CASE SubsystemChanges
  BY <1>1 DEF SubsystemChanges, TurnOff, TurnOn, ConnectElsewhere, DisconnectElsewhere,
     Pair, Unpair, Toggle, SetLink
<1>2. CASE SubsystemEnds
  BY <1>2 DEF SubsystemEnds, TurnedOn, TurnedOff, ConnectEnds, DisconnectEnds,
     DroppedByOff, Toggle, SetLink
<1>3. CASE ThreadOrUser
  BY <1>3 DEF ThreadOrUser, KernelEvent, KernelDropped, KernelReadFails, MenuOpened,
     MenuClosed, ThreadStep, Flush, ReadPower, ReadList, ReadState, ListFails, Update,
     FetchOverrun, Fetch, FetchFails, HandleEvent, Touch, subvars
<1>4. CASE Press
  BY <1>4 DEF Press, SetLink, subvars
<1>5. CASE UNCHANGED vars
  BY <1>5 DEF vars, subvars
<1> QED
  BY <1>1, <1>2, <1>3, <1>4, <1>5 DEF Next, ThreadOrUser

LEMMA QueueNext == DataInv /\ [Next]_vars => QueueInv'
<1> SUFFICES ASSUME DataInv, [Next]_vars PROVE QueueInv'
  OBVIOUS
<1>0. QueueInv
  BY DEF DataInv
<1>1. CASE SubsystemChanges
  <2>1. PICK e \in SceBtEvents : Announce(e)
    BY <1>1, EventTypes DEF SubsystemChanges, TurnOff, TurnOn, ConnectElsewhere,
       DisconnectElsewhere, Pair, Unpair, Toggle
  <2> QED
    BY <1>0, <2>1, AnnounceKeepsQueue
<1>2. CASE SubsystemEnds
  <2>1. PICK e \in SceBtEvents : Announce(e)
    BY <1>2, EventTypes DEF SubsystemEnds, TurnedOn, TurnedOff, ConnectEnds,
       DisconnectEnds, DroppedByOff, Toggle
  <2> QED
    BY <1>0, <2>1, AnnounceKeepsQueue
<1>3. CASE KernelEvent
  <2>1. /\ queue \in Seq(SceBtEvents) /\ queue # <<>> /\ queue' = Tail(queue)
        /\ lost' = lost /\ cut_short' = cut_short
    BY <1>0, <1>3 DEF KernelEvent, QueueInv
  <2>2. queue' \in Seq(SceBtEvents) /\ Len(queue') = Len(queue) - 1
    BY <2>1
  <2>3. Len(queue) \in Nat /\ QueueSize \in Nat
    BY <2>1, SizesAssumption
  <2>4. Len(queue') <= QueueSize
    BY <1>0, <2>2, <2>3 DEF QueueInv
  <2> QED
    BY <1>0, <2>1, <2>2, <2>4 DEF QueueInv
<1>4. CASE KernelDropped \/ KernelReadFails
  BY <1>0, <1>4 DEF KernelDropped, KernelReadFails, QueueInv
<1>5. CASE \/ MenuOpened \/ MenuClosed \/ ThreadStep \/ \E i \in Slots : Touch(i)
  BY <1>0, <1>5 DEF MenuOpened, MenuClosed,
     ThreadStep, Flush, ReadPower, ReadList, ReadState, ListFails, Update,
     FetchOverrun, Fetch, FetchFails, HandleEvent, Touch, subvars, QueueInv
<1>6. CASE Press
  <2>1. Announce(ListChanged) \/ UNCHANGED <<queue, lost, cut_short>>
    BY <1>6 DEF Press, subvars
  <2> QED
    BY <1>0, <2>1, EventTypes, AnnounceKeepsQueue DEF QueueInv
<1>7. CASE UNCHANGED vars
  BY <1>0, <1>7 DEF vars, subvars, QueueInv
<1> QED
  BY <1>1, <1>2, <1>3, <1>4, <1>5, <1>6, <1>7 DEF Next

LEMMA RingNext == DataInv /\ [Next]_vars => RingInv'
<1> SUFFICES ASSUME DataInv, [Next]_vars PROVE RingInv'
  OBVIOUS
<1>0. RingInv /\ QueueInv
  BY DEF DataInv
<1>1. CASE SubsystemChanges \/ SubsystemEnds
  BY <1>0, <1>1 DEF SubsystemChanges, SubsystemEnds, ringvars, RingInv
<1>2. CASE KernelEvent
  <2>1. Head(queue) \in SceBtEvents
    BY <1>0, <1>2 DEF KernelEvent, QueueInv
  <2>2. Emit(bt_handle_event(Head(queue)))
    BY <1>2 DEF KernelEvent
  <2> QED
    BY <1>0, <2>1, <2>2, HandlerEmits, EmitKeepsRing
<1>3. CASE KernelDropped
  <2>1. DroppedEvents \in VqmbtEventRecords
    BY DEF DroppedEvents, VqmbtEventRecords, VqmbtEventIds
  <2> QED
    BY <1>0, <1>3, <2>1, EmitKeepsRing DEF KernelDropped
<1>4. CASE Flush
  <2>1. Capacity \in Nat
    BY SizesAssumption
  <2>2. ring' = <<>> /\ overrun' \in BOOLEAN
    BY <1>4 DEF Flush
  <2>3. ring' \in Seq(VqmbtEventRecords) /\ Len(ring') <= Capacity
    BY <2>1, <2>2
  <2> QED
    BY <2>2, <2>3 DEF RingInv
<1>5. CASE FetchOverrun
  BY <1>0, <1>5 DEF FetchOverrun, RingInv
<1>6. CASE Fetch \/ FetchFails
  <2>1. /\ ring \in Seq(VqmbtEventRecords) /\ ring # <<>> /\ ring' = Tail(ring)
        /\ overrun' = overrun
    BY <1>0, <1>6 DEF Fetch, FetchFails, RingInv
  <2>2. ring' \in Seq(VqmbtEventRecords) /\ Len(ring') = Len(ring) - 1
    BY <2>1
  <2>3. Len(ring) \in Nat /\ Capacity \in Nat
    BY <2>1, SizesAssumption
  <2>4. Len(ring') <= Capacity
    BY <1>0, <2>2, <2>3 DEF RingInv
  <2> QED
    BY <1>0, <2>1, <2>2, <2>4 DEF RingInv
<1>7. CASE \/ MenuOpened \/ MenuClosed \/ ReadPower \/ ReadList \/ ReadState
           \/ ListFails \/ Update \/ HandleEvent \/ Press \/ \E i \in Slots : Touch(i)
           \/ KernelReadFails
  BY <1>0, <1>7 DEF KernelReadFails, MenuOpened, MenuClosed, ReadPower, ReadList,
     ReadState, ListFails, Update, HandleEvent, Press, Touch, ringvars, RingInv
<1>8. CASE UNCHANGED vars
  BY <1>0, <1>8 DEF vars, ringvars, RingInv
<1> QED
  BY <1>1, <1>2, <1>3, <1>4, <1>5, <1>6, <1>7, <1>8 DEF Next, ThreadStep

LEMMA ThreadNext == DataInv /\ [Next]_vars => ThreadInv'
<1> SUFFICES ASSUME DataInv, [Next]_vars PROVE ThreadInv'
  OBVIOUS
<1>0. ThreadInv /\ RingInv
  BY DEF DataInv
<1>1. CASE SubsystemChanges \/ SubsystemEnds
  BY <1>0, <1>1 DEF SubsystemChanges, SubsystemEnds, threadvars, history, ThreadInv
<1>2. CASE \/ KernelEvent \/ KernelDropped \/ KernelReadFails
           \/ Press \/ \E i \in Slots : Touch(i)
  BY <1>0, <1>2 DEF KernelEvent, KernelDropped, KernelReadFails, Press, Touch,
     threadvars, history, ThreadInv
<1>3. CASE \/ MenuOpened \/ MenuClosed \/ Flush \/ ReadPower \/ ReadList \/ ReadState
           \/ ListFails \/ FetchOverrun \/ FetchFails
  BY <1>0, <1>3 DEF MenuOpened, MenuClosed, Flush, ReadPower, ReadList, ReadState,
     ListFails, FetchOverrun, FetchFails, threadvars, history, ThreadInv
<1>4. CASE Update
  BY <1>0, <1>4 DEF Update, ThreadInv
<1>5. CASE Fetch
  <2>1. Head(ring) \in VqmbtEventRecords
    BY <1>0, <1>5 DEF Fetch, RingInv
  <2> QED
    BY <1>0, <1>5, <2>1 DEF Fetch, history, ThreadInv
<1>6. CASE HandleEvent
  <2>1. tpc' \in {"flush", "fetch"} /\ cur' = NoVqmbtEvent /\ on' = on
    BY <1>6 DEF HandleEvent
  <2>2. restored' \subseteq Slots
    BY <1>0, <1>6 DEF HandleEvent, ThreadInv
  <2> QED
    BY <1>0, <2>1, <2>2 DEF ThreadInv
<1>7. CASE UNCHANGED vars
  BY <1>0, <1>7 DEF vars, threadvars, history, ThreadInv
<1> QED
  BY <1>1, <1>2, <1>3, <1>4, <1>5, <1>6, <1>7 DEF Next, ThreadStep

LEMMA PairedNext == DataInv /\ [Next]_vars => PairedInv'
<1> SUFFICES ASSUME DataInv, [Next]_vars PROVE PairedInv'
  OBVIOUS
<1>0. PairedInv
  BY DEF DataInv
<1>1. CASE SubsystemChanges
  <2>1. list' = list
    BY <1>1 DEF SubsystemChanges, threadvars
  <2>2. ASSUME NEW m \in Macs, Pair(m)
        PROVE  paired' \in Lists
    <3>1. /\ m \notin ToSet(paired) /\ Len(paired) < MAX_DEVICES
          /\ \E i \in 1..(Len(paired) + 1) : paired' = InsertAt(paired, i, m)
      BY <2>2 DEF Pair
    <3> QED
      BY <1>0, <3>1, InsertKeepsLists DEF PairedInv
  <2>3. ASSUME NEW m \in Macs, Unpair(m)
        PROVE  paired' \in Lists
    BY <1>0, <2>3, RemoveKeepsLists DEF Unpair, PairedInv
  <2>4. \/ paired' = paired \/ \E m \in Macs : Pair(m) \/ Unpair(m)
    BY <1>1 DEF SubsystemChanges, TurnOff, TurnOn, ConnectElsewhere,
       DisconnectElsewhere, Toggle, SetLink
  <2> QED
    BY <1>0, <2>1, <2>2, <2>3, <2>4 DEF PairedInv
<1>2. CASE SubsystemEnds
  BY <1>0, <1>2 DEF SubsystemEnds, TurnedOn, TurnedOff, ConnectEnds, DisconnectEnds,
     DroppedByOff, Toggle, SetLink, threadvars, PairedInv
<1>3. CASE ReadState
  <2>1. paired' = paired /\ list'.macs = list.macs
    BY <1>3 DEF ReadState, subvars
  <2> QED
    BY <1>0, <2>1 DEF PairedInv
<1>4. CASE ReadList
  BY <1>0, <1>4 DEF ReadList, subvars, PairedInv
<1>5. CASE ListFails \/ Update
  BY <1>0, <1>5, NoListIsOne DEF ListFails, Update, subvars, PairedInv
<1>6. CASE \/ KernelEvent \/ KernelDropped \/ KernelReadFails \/ MenuOpened \/ MenuClosed
           \/ Flush \/ ReadPower \/ FetchOverrun \/ Fetch \/ FetchFails
           \/ HandleEvent \/ \E i \in Slots : Touch(i)
  BY <1>0, <1>6 DEF KernelEvent, KernelDropped, KernelReadFails, MenuOpened,
     MenuClosed, Flush, ReadPower, FetchOverrun, Fetch, FetchFails, HandleEvent,
     Touch, subvars, threadvars, PairedInv
<1>7. CASE Press
  BY <1>0, <1>7 DEF Press, SetLink, subvars, threadvars, PairedInv
<1>8. CASE UNCHANGED vars
  BY <1>0, <1>8 DEF vars, subvars, threadvars, PairedInv
<1> QED
  BY <1>1, <1>2, <1>3, <1>4, <1>5, <1>6, <1>7, <1>8 DEF Next, ThreadStep

LEMMA TouchedNext == IInv /\ DataInv /\ [Next]_vars => TouchedInv'
<1> SUFFICES ASSUME IInv, DataInv, [Next]_vars PROVE TouchedInv'
  OBVIOUS
<1>0. TouchedInv
  BY DEF DataInv
<1>1. ASSUME NEW i \in Slots, Touch(i)
      PROVE  TouchedInv'
  <2>1. buttons[i] \in QmButton /\ SlotConsistent(buttons[i])
        /\ Render(buttons[i]).enabled
        /\ touched' = [slot |-> i, mac |-> buttons[i].device.mac, pairings |-> shown]
    BY <1>1 DEF Touch, IInv, TypeInv, SlotInv
  <2>2. buttons[i].device.mac \in Macs
    BY <2>1 DEF SlotConsistent, Render, QmButton, DeviceInfo
  <2> QED
    BY <2>1, <2>2 DEF TouchedInv
<1>2. touched' = touched => TouchedInv'
  BY <1>0 DEF TouchedInv
<1>3. touched' = NoTouch => TouchedInv'
  BY DEF TouchedInv
<1>4. CASE \/ SubsystemChanges \/ SubsystemEnds
           \/ KernelEvent \/ KernelDropped \/ KernelReadFails
  BY <1>2, <1>4 DEF SubsystemChanges, SubsystemEnds, KernelEvent, KernelDropped,
     KernelReadFails
<1>5. CASE MenuClosed \/ Press
  BY <1>3, <1>5 DEF MenuClosed, Press
<1>6. CASE MenuOpened \/ ThreadStep
  BY <1>2, <1>6 DEF MenuOpened, ThreadStep, Flush, ReadPower, ReadList, ReadState,
     ListFails, Update, FetchOverrun, Fetch, FetchFails, HandleEvent
<1>7. CASE UNCHANGED vars
  BY <1>2, <1>7 DEF vars
<1> QED
  BY <1>1, <1>4, <1>5, <1>6, <1>7 DEF Next

LEMMA InitData == Init => DataInv
<1> SUFFICES ASSUME Init PROVE DataInv
  OBVIOUS
<1>1. NoList.macs \in Lists
  BY NoListIsOne
<1>2. PairedInv /\ PowerInv /\ TouchedInv
  BY <1>1 DEF Init, PairedInv, PowerInv, TouchedInv
<1>3. QueueInv /\ RingInv
  <2>1. /\ QueueSize \in Nat /\ Capacity \in Nat
        /\ queue = <<>> /\ ring = <<>>
    BY SizesAssumption DEF Init
  <2>2. /\ queue \in Seq(SceBtEvents) /\ Len(queue) <= QueueSize
        /\ ring \in Seq(VqmbtEventRecords) /\ Len(ring) <= Capacity
    BY <2>1
  <2>3. lost \in BOOLEAN /\ cut_short \in BOOLEAN /\ overrun \in BOOLEAN
    BY DEF Init
  <2> QED
    BY <2>2, <2>3 DEF QueueInv, RingInv
<1>4. ThreadInv
  BY DEF Init, ThreadInv
<1> QED
  BY <1>2, <1>3, <1>4 DEF DataInv

LEMMA NextData == IInv /\ DataInv /\ [Next]_vars => DataInv'
BY PowerNext, QueueNext, RingNext, ThreadNext, PairedNext, TouchedNext DEF DataInv

\* Every variable holds what the code can put there: the queue and the ring never
\* exceed their sizes, the device list has no device twice and fits the buttons.
THEOREM TypeCorrect == Spec => []TypeOK
<1>1. IInv /\ DataInv => TypeOK
  <2> SUFFICES ASSUME IInv, DataInv PROVE TypeOK
    OBVIOUS
  <2>1. NoVqmbtEvent \notin VqmbtEventRecords
    BY DEF NoVqmbtEvent, VqmbtEventRecords, VqmbtEventIds
  <2>2. (tpc = "handle") = (cur # NoVqmbtEvent)
        /\ cur \in VqmbtEventRecords \cup {NoVqmbtEvent}
    BY <2>1 DEF DataInv, ThreadInv
  <2> QED
    BY <2>2 DEF IInv, DataInv, TypeInv, PowerInv, QueueInv, RingInv, ThreadInv,
       PairedInv, TouchedInv, TypeOK
<1> QED
  BY <1>1, InitIInv, NextIInv, InitData, NextData, PTL DEF Spec

==============================================================================
