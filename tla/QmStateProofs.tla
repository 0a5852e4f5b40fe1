---------------------------- MODULE QmStateProofs ----------------------------
(* Theorems about QmState, for every number of buttons and set of devices.  *)
EXTENDS QmState, QmButtonsProofs

USE MaxDevicesAssumption, MacsAssumption, ReportedAssumption, RefusalAssumption

\* The same for the requests reset() makes.
LEMMA BulkRequestSlot ==
  ASSUME NEW b \in QmButton, NEW r \in BulkRequests, NEW i \in Slots
  PROVE  LET out == bulk_update(b, r, i) IN
         /\ out \in Outcome
         /\ ~out.changed => out.button = b
         /\ SlotConsistent(b) => /\ SlotConsistent(out.button)
                                 /\ out.button.device.mac = r.devices[i].mac
<1>1. /\ r.devices \in [Slots -> DeviceInfo]
      /\ r.num_devices \in 0..MAX_DEVICES
      /\ IsPairedList(r.devices, r.num_devices)
  BY DEF BulkRequests
<1>2. r.num_devices \in Nat /\ r.devices[i] \in DeviceInfo
  BY <1>1
<1>3. i <= r.num_devices => r.devices[i].mac \in Macs
  <2> SUFFICES ASSUME i <= r.num_devices PROVE r.devices[i].mac \in Macs
    OBVIOUS
  <2>1. i \in 1..r.num_devices
    BY <1>2 DEF Slots
  <2> QED
    BY <1>1, <2>1 DEF IsPairedList
<1>4. i > r.num_devices => r.devices[i] = ZeroDevice
  BY <1>1 DEF IsPairedList, Slots
<1> QED
  BY <1>2, <1>3, <1>4, BulkUpdateSlot

------------------------------------------------------------------------------
(* Type correctness.                                                        *)

\* A thread that made a press's system call still has the press as its request.
PressPending ==
  \A t \in Threads : pc[t] \in {"connect_return", "disconnect_return"} =>
                       req[t] \in PressRequests

TypeInv == TypeOK /\ PressPending

LEMMA RequestById ==
  ASSUME NEW r \in {NoRequest} \cup Requests
  PROVE  /\ r.id = "BULK_UPDATE" => r \in BulkRequests
         /\ r.id = "BUTTON_PRESSED" => r \in PressRequests
         /\ r.id \in {"DEVICE_CONNECTED", "DEVICE_DISCONNECTED"} => r \in DeviceRequests
BY DEF Requests, NoRequest, BulkRequests, PressRequests, PowerRequests, DeviceRequests

LEMMA RenderIsWidget ==
  ASSUME NEW b \in QmButton
  PROVE  Render(b) \in Widget
BY DEF Render, Widget, QmButton, DeviceInfo, BtnStates, Busy

\* What a handler's step does to the variables other than answered.
LEMMA HandleType ==
  ASSUME TypeInv, NEW t \in Threads, NEW id, NEW out \in [Slots -> Outcome],
         Handle(t, id, out), answered' \subseteq Macs
  PROVE  TypeInv'
<1>1. buttons' \in [Slots -> QmButton]
  BY DEF Handle, Outcome
<1>2. changed' \in [Threads -> BOOLEAN]
  BY DEF TypeInv, TypeOK, Handle
<1>3. pc' \in [Threads -> PcLabels]
  BY DEF TypeInv, TypeOK, Handle, Goto, PcLabels
<1>4. TypeOK'
  BY <1>1, <1>2, <1>3 DEF TypeInv, TypeOK, Handle
<1>5. PressPending'
  BY DEF TypeInv, TypeOK, PressPending, Handle, Goto
<1> QED
  BY <1>4, <1>5 DEF TypeInv

\* The outcomes of each handler, for any button of the array.
LEMMA HandlerOutcomes ==
  ASSUME TypeInv, NEW t \in Threads, NEW i \in Slots
  PROVE  /\ req[t].id = "BULK_UPDATE" => bulk_update(buttons[i], req[t], i) \in Outcome
         /\ transition_state_bt_on(buttons[i]) \in Outcome
         /\ transition_state_bt_off(buttons[i]) \in Outcome
         /\ transition_state_disconnected(buttons[i], FALSE) \in Outcome
         /\ transition_state_connected(buttons[i], FALSE) \in Outcome
         /\ Kept(buttons[i]) \in Outcome
<1>1. buttons[i] \in QmButton /\ req[t] \in {NoRequest} \cup Requests
  BY DEF TypeInv, TypeOK
<1>2. req[t].id = "BULK_UPDATE" => bulk_update(buttons[i], req[t], i) \in Outcome
  BY <1>1, RequestById, BulkRequestSlot
<1> QED
  BY <1>1, <1>2, BtOnTransition, BtOffTransition, DisconnectedTransition,
     ConnectedTransition, KeptIsTransition DEF Transition

\* What the rest of a press does, for either call.
Returned(t, out) ==
  /\ pc[t] \in {"connect_return", "disconnect_return"}
  /\ pc' = [pc EXCEPT ![t] = "decide"]
  /\ req[t].idx \in Slots
  /\ out \in Outcome
  /\ Transition(buttons[req[t].idx], out)
  /\ out.button.btn_state \in Busy \cup {"ERROR_DISABLED"}
  /\ buttons' = [buttons EXCEPT ![req[t].idx] = out.button]
  /\ changed' = [changed EXCEPT ![t] = out.changed]
  /\ ret' = "OK"
  /\ UNCHANGED <<mutex, first_run, ui, req, rix, answered>>

LEMMA PressReturns ==
  ASSUME TypeInv, NEW t \in Threads,
         PressConnectReturn(t) \/ PressDisconnectReturn(t)
  PROVE  \E out : Returned(t, out)
<1> DEFINE b == buttons[req[t].idx]
<1>1. pc[t] \in {"connect_return", "disconnect_return"}
  BY DEF PressConnectReturn, PressDisconnectReturn, PressReturn, Goto
<1>2. req[t].idx \in Slots
  BY <1>1 DEF TypeInv, PressPending, PressRequests
<1>3. b \in QmButton /\ ret \in Errors \cup {"OK"}
  BY <1>2 DEF TypeInv, TypeOK
<1>4. ASSUME NEW out,
             \/ out = transition_state_busy_connecting(b)
             \/ out = transition_state_busy_disconnecting(b)
             \/ ret # "OK" /\ out = transition_state_error(b, ret)
      PROVE  /\ Transition(b, out)
             /\ out.button.btn_state \in Busy \cup {"ERROR_DISABLED"}
  BY <1>3, <1>4, BusyTransition, ErrorTransition DEF Busy
<1>5. PICK out :
        /\ \/ out = transition_state_busy_connecting(b)
           \/ out = transition_state_busy_disconnecting(b)
           \/ ret # "OK" /\ out = transition_state_error(b, ret)
        /\ buttons' = [buttons EXCEPT ![req[t].idx] = out.button]
        /\ changed' = [changed EXCEPT ![t] = out.changed]
        /\ pc' = [pc EXCEPT ![t] = "decide"]
        /\ ret' = "OK"
        /\ UNCHANGED <<mutex, first_run, ui, req, rix, answered>>
  BY DEF PressConnectReturn, PressDisconnectReturn, PressReturn, Goto
<1> QED
  <2>1. Transition(b, out) /\ out.button.btn_state \in Busy \cup {"ERROR_DISABLED"}
    BY <1>4, <1>5
  <2>2. out \in Outcome
    BY <2>1 DEF Transition
  <2>3. Returned(t, out)
    BY <1>1, <1>2, <1>5, <2>1, <2>2 DEF Returned
  <2> QED
    BY <2>3

LEMMA InitType == Init => TypeInv
BY DEF Init, TypeInv, TypeOK, PressPending, Threads, Free, PcLabels, Slots, QmButton,
       ZeroButton, ZeroDevice, DeviceInfo, SceStates, BtnStates

LEMMA NextType == TypeInv /\ [Next]_vars => TypeInv'
<1> SUFFICES ASSUME TypeInv, [Next]_vars
             PROVE  TypeInv'
  OBVIOUS
<1> USE DEF TypeInv, TypeOK, PressPending
<1>1. ASSUME NEW t \in Threads, Call(t)
      PROVE  TypeInv'
  BY <1>1 DEF Call, Goto, RequestsOf, Requests, PcLabels
<1>2. ASSUME NEW t \in Threads, Lock(t)
      PROVE  TypeInv'
  BY <1>2 DEF Lock, Goto, PcLabels
<1>3. ASSUME NEW t \in Threads, HandleBulkUpdate(t)
      PROVE  TypeInv'
  <2> DEFINE out == [i \in Slots |-> bulk_update(buttons[i], req[t], i)]
  <2>1. out \in [Slots -> Outcome]
    BY <1>3, HandlerOutcomes DEF HandleBulkUpdate, Handle
  <2> QED
    BY <1>3, <2>1, HandleType DEF HandleBulkUpdate
<1>4. ASSUME NEW t \in Threads, HandleBluetoothOn(t)
      PROVE  TypeInv'
  <2> DEFINE out == [i \in Slots |-> transition_state_bt_on(buttons[i])]
  <2>1. out \in [Slots -> Outcome]
    BY HandlerOutcomes
  <2> QED
    BY <1>4, <2>1, HandleType DEF HandleBluetoothOn
<1>5. ASSUME NEW t \in Threads, HandleBluetoothOff(t)
      PROVE  TypeInv'
  <2> DEFINE out == [i \in Slots |-> transition_state_bt_off(buttons[i])]
  <2>1. out \in [Slots -> Outcome]
    BY HandlerOutcomes
  <2> QED
    BY <1>5, <2>1, HandleType DEF HandleBluetoothOff
<1>6. ASSUME NEW t \in Threads,
             req[t].id \in {"DEVICE_CONNECTED", "DEVICE_DISCONNECTED"}, Answer(t)
      PROVE  answered' \subseteq Macs
  BY <1>6, RequestById DEF Answer, DeviceRequests
<1>7. ASSUME NEW t \in Threads, HandleDisconnected(t)
      PROVE  TypeInv'
  <2> DEFINE out == [i \in Slots |->
                       IF mac_to_idx(buttons, req[t].mac, i)
                       THEN transition_state_disconnected(buttons[i], FALSE)
                       ELSE Kept(buttons[i])]
  <2>1. out \in [Slots -> Outcome]
    BY HandlerOutcomes
  <2>2. answered' \subseteq Macs
    BY <1>6, <1>7 DEF HandleDisconnected, Handle
  <2> QED
    BY <1>7, <2>1, <2>2, HandleType DEF HandleDisconnected
<1>8. ASSUME NEW t \in Threads, HandleConnected(t)
      PROVE  TypeInv'
  <2> DEFINE out == [i \in Slots |->
                       IF mac_to_idx(buttons, req[t].mac, i)
                       THEN transition_state_connected(buttons[i], FALSE)
                       ELSE Kept(buttons[i])]
  <2>1. out \in [Slots -> Outcome]
    BY HandlerOutcomes
  <2>2. answered' \subseteq Macs
    BY <1>6, <1>8 DEF HandleConnected, Handle
  <2> QED
    BY <1>8, <2>1, <2>2, HandleType DEF HandleConnected
<1>9. ASSUME NEW t \in Threads, PressIgnored(t)
      PROVE  TypeInv'
  BY <1>9 DEF PressIgnored, Goto, PcLabels
<1>10. ASSUME NEW t \in Threads, PressConnect(t) \/ PressDisconnect(t)
       PROVE  TypeInv'
  BY <1>10, RequestById DEF PressConnect, PressDisconnect, PressCall, Goto, PcLabels, Errors
<1>11. ASSUME NEW t \in Threads, PressConnectReturn(t) \/ PressDisconnectReturn(t)
       PROVE  TypeInv'
  <2>1. PICK out : Returned(t, out)
    BY <1>11, PressReturns
  <2> QED
    BY <2>1 DEF Returned, Outcome, PcLabels
<1>12. ASSUME NEW t \in Threads, Decide(t)
       PROVE  TypeInv'
  BY <1>12 DEF Decide, Goto, PcLabels
<1>13. ASSUME NEW t \in Threads, RefreshButton(t)
       PROVE  TypeInv'
  <2>1. ui' \in [Slots -> {Unset} \cup Widget]
    BY <1>13, RenderIsWidget DEF RefreshButton
  <2>2. rix' \in Slots
    BY <1>13 DEF RefreshButton, Slots
  <2> QED
    BY <1>13, <2>1, <2>2 DEF RefreshButton, Goto, PcLabels
<1>14. ASSUME NEW t \in Threads, Unlock(t)
       PROVE  TypeInv'
  BY <1>14 DEF Unlock, Goto, PcLabels
<1>15. CASE UNCHANGED vars
  BY <1>15 DEF vars
<1> QED
  BY <1>1, <1>2, <1>3, <1>4, <1>5, <1>7, <1>8, <1>9, <1>10, <1>11, <1>12, <1>13,
     <1>14, <1>15 DEF Next, Step

\* Every variable keeps to its type: in particular refresh_ui and a press stay
\* inside the button array, and an error message is that of an error.
THEOREM TypeCorrect == Spec => []TypeOK
<1>1. TypeInv => TypeOK
  BY DEF TypeInv
<1> QED
  BY <1>1, InitType, NextType, PTL DEF Spec

------------------------------------------------------------------------------
(* The steps of Next, grouped by what they do.                              *)

\* A handler other than a press replaces every button by its outcome: what
\* changes is reported, consistent slots stay so, and the devices stay or
\* become those of the request's list.
Handled(t, out) ==
  /\ pc[t] = "handle"
  /\ pc' = [pc EXCEPT ![t] = "decide"]
  /\ out \in [Slots -> Outcome]
  /\ buttons' = [i \in Slots |-> out[i].button]
  /\ changed' = [changed EXCEPT ![t] = \E i \in Slots : out[i].changed]
  /\ \A i \in Slots : ~out[i].changed => out[i].button = buttons[i]
  /\ \A i \in Slots : SlotConsistent(buttons[i]) => SlotConsistent(out[i].button)
  /\ \/ \A i \in Slots : out[i].button.device = buttons[i].device
     \/ /\ req[t] \in BulkRequests
        /\ \A i \in Slots : SlotConsistent(buttons[i]) =>
                               out[i].button.device.mac = req[t].devices[i].mac
  /\ UNCHANGED <<mutex, first_run, ui, req, ret, rix>>

Handler(t) ==
  \/ HandleBulkUpdate(t) \/ HandleBluetoothOn(t) \/ HandleBluetoothOff(t)
  \/ HandleDisconnected(t) \/ HandleConnected(t)

LEMMA HandlersHandle ==
  ASSUME TypeInv, NEW t \in Threads, Handler(t)
  PROVE  \E out : Handled(t, out)
<1>1. \A i \in Slots : buttons[i] \in QmButton
  BY DEF TypeInv, TypeOK
<1>2. CASE HandleBulkUpdate(t)
  <2> DEFINE out == [i \in Slots |-> bulk_update(buttons[i], req[t], i)]
  <2>1. req[t] \in BulkRequests
    BY <1>2, RequestById DEF HandleBulkUpdate, Handle, TypeInv, TypeOK
  <2>2. \A i \in Slots :
          /\ out[i] \in Outcome
          /\ ~out[i].changed => out[i].button = buttons[i]
          /\ SlotConsistent(buttons[i]) =>
               /\ SlotConsistent(out[i].button)
               /\ out[i].button.device.mac = req[t].devices[i].mac
    BY <1>1, <2>1, BulkRequestSlot
  <2>3. Handle(t, "BULK_UPDATE", out)
    BY <1>2 DEF HandleBulkUpdate
  <2>4. Handled(t, out)
    BY <2>1, <2>2, <2>3 DEF Handle, Handled, Goto
  <2> QED
    BY <2>4
<1>3. ASSUME NEW out \in [Slots -> Outcome], NEW id, Handle(t, id, out),
             \A i \in Slots : Transition(buttons[i], out[i])
                              /\ (SlotConsistent(buttons[i]) => SlotConsistent(out[i].button))
      PROVE  \E o : Handled(t, o)
  <2>1. Handled(t, out)
    BY <1>3 DEF Handle, Handled, Goto, Transition
  <2> QED
    BY <2>1
<1>4. CASE HandleBluetoothOn(t)
  <2> DEFINE out == [i \in Slots |-> transition_state_bt_on(buttons[i])]
  <2>1. \A i \in Slots : Transition(buttons[i], out[i])
                         /\ (SlotConsistent(buttons[i]) => SlotConsistent(out[i].button))
    BY <1>1, BtOnTransition DEF Transition, SlotConsistent
  <2>2. out \in [Slots -> Outcome]
    BY <2>1 DEF Transition
  <2> QED
    BY <1>3, <1>4, <2>1, <2>2 DEF HandleBluetoothOn
<1>5. CASE HandleBluetoothOff(t)
  <2> DEFINE out == [i \in Slots |-> transition_state_bt_off(buttons[i])]
  <2>1. \A i \in Slots : Transition(buttons[i], out[i])
                         /\ (SlotConsistent(buttons[i]) => SlotConsistent(out[i].button))
    BY <1>1, BtOffTransition DEF Transition, SlotConsistent
  <2>2. out \in [Slots -> Outcome]
    BY <2>1 DEF Transition
  <2> QED
    BY <1>3, <1>5, <2>1, <2>2 DEF HandleBluetoothOff
<1>6. ASSUME NEW i \in Slots, mac_to_idx(buttons, req[t].mac, i),
             req[t].id \in {"DEVICE_CONNECTED", "DEVICE_DISCONNECTED"}
      PROVE  buttons[i].device.mac # NoMac
  BY <1>6, RequestById DEF mac_to_idx, DeviceRequests, TypeInv, TypeOK
<1>7. CASE HandleDisconnected(t)
  <2> DEFINE out == [i \in Slots |->
                       IF mac_to_idx(buttons, req[t].mac, i)
                       THEN transition_state_disconnected(buttons[i], FALSE)
                       ELSE Kept(buttons[i])]
  <2>1. \A i \in Slots : Transition(buttons[i], out[i])
                         /\ (SlotConsistent(buttons[i]) => SlotConsistent(out[i].button))
    BY <1>1, <1>6, <1>7, DisconnectedTransition, KeptIsTransition
       DEF Transition, SlotConsistent, Kept, HandleDisconnected, Handle
  <2>2. out \in [Slots -> Outcome]
    BY <2>1 DEF Transition
  <2> QED
    BY <1>3, <1>7, <2>1, <2>2 DEF HandleDisconnected
<1>8. CASE HandleConnected(t)
  <2> DEFINE out == [i \in Slots |->
                       IF mac_to_idx(buttons, req[t].mac, i)
                       THEN transition_state_connected(buttons[i], FALSE)
                       ELSE Kept(buttons[i])]
  <2>1. \A i \in Slots : Transition(buttons[i], out[i])
                         /\ (SlotConsistent(buttons[i]) => SlotConsistent(out[i].button))
    BY <1>1, <1>6, <1>8, ConnectedTransition, KeptIsTransition
       DEF Transition, SlotConsistent, Kept, HandleConnected, Handle
  <2>2. out \in [Slots -> Outcome]
    BY <2>1 DEF Transition
  <2> QED
    BY <1>3, <1>8, <2>1, <2>2 DEF HandleConnected
<1> QED
  BY <1>2, <1>4, <1>5, <1>7, <1>8 DEF Handler

------------------------------------------------------------------------------
(* Mutual exclusion.                                                        *)

InCritical(t) == pc[t] \notin {"idle", "lock"}

\* The owner of the mutex is the thread inside qm_state_update_ui.
MutexInv == \A t \in Threads : InCritical(t) <=> mutex = t

LEMMA NextMutex == TypeInv /\ MutexInv /\ [Next]_vars => MutexInv'
<1> SUFFICES ASSUME TypeInv, MutexInv, [Next]_vars
             PROVE  MutexInv'
  OBVIOUS
<1> USE DEF MutexInv, InCritical
<1>1. pc \in [Threads -> PcLabels] /\ Free \notin Threads
  BY DEF TypeInv, TypeOK, Threads, Free
<1>2. ASSUME NEW t \in Threads, Call(t)
      PROVE  MutexInv'
  BY <1>1, <1>2 DEF Call, Goto
<1>3. ASSUME NEW t \in Threads, Lock(t)
      PROVE  MutexInv'
  BY <1>1, <1>3 DEF Lock, Goto
<1>4. ASSUME NEW t \in Threads, NEW to \in PcLabels \ {"idle", "lock"},
             InCritical(t), pc' = [pc EXCEPT ![t] = to], mutex' = mutex
      PROVE  MutexInv'
  BY <1>1, <1>4
<1>5. ASSUME NEW t \in Threads, Handler(t)
      PROVE  MutexInv'
  <2> PICK out : Handled(t, out)
    BY <1>5, HandlersHandle
  <2> QED
    BY <1>4 DEF Handled, PcLabels
<1>6. ASSUME NEW t \in Threads, PressConnectReturn(t) \/ PressDisconnectReturn(t)
      PROVE  MutexInv'
  <2> PICK out : Returned(t, out)
    BY <1>6, PressReturns
  <2> QED
    BY <1>4 DEF Returned, PcLabels
<1>7. ASSUME NEW t \in Threads,
             PressIgnored(t) \/ PressConnect(t) \/ PressDisconnect(t)
      PROVE  MutexInv'
  BY <1>4, <1>7 DEF PressIgnored, PressConnect, PressDisconnect, PressCall, Goto, PcLabels
<1>8. ASSUME NEW t \in Threads, Decide(t) \/ RefreshButton(t)
      PROVE  MutexInv'
  BY <1>4, <1>8 DEF Decide, RefreshButton, Goto, PcLabels
<1>9. ASSUME NEW t \in Threads, Unlock(t)
      PROVE  MutexInv'
  BY <1>1, <1>9 DEF Unlock, Goto
<1>10. CASE UNCHANGED vars
  BY <1>10 DEF vars
<1> QED
  BY <1>2, <1>3, <1>5, <1>6, <1>7, <1>8, <1>9, <1>10 DEF Next, Step, Handler

\* The button of a pending press still waits for it: enabled, and not answered.
PressTarget ==
  \A t \in Threads : pc[t] \in {"connect_return", "disconnect_return"} =>
    /\ buttons[req[t].idx].btn_state \in {"DISCONNECTED", "CONNECTED"}
    /\ buttons[req[t].idx].device.mac \notin answered

------------------------------------------------------------------------------
(* One device, one slot.                                                    *)

LEMMA NextSlots == TypeInv /\ PressTarget /\ SlotsConsistent /\ [Next]_vars
                     => SlotsConsistent'
<1> SUFFICES ASSUME TypeInv, PressTarget, SlotsConsistent, [Next]_vars
             PROVE  SlotsConsistent'
  OBVIOUS
<1>1. \A i \in Slots : buttons[i] \in QmButton /\ SlotConsistent(buttons[i])
  BY DEF SlotsConsistent, SlotConsistent, TypeInv, TypeOK
<1>2. ASSUME NEW t \in Threads, Handler(t)
      PROVE  SlotsConsistent'
  <2> PICK out : Handled(t, out)
    BY <1>2, HandlersHandle
  <2>1. \A i \in Slots : SlotConsistent(buttons'[i])
    BY <1>1 DEF Handled
  <2>2. CASE \A i \in Slots : out[i].button.device = buttons[i].device
    BY <2>1, <2>2 DEF Handled, SlotsConsistent, SlotConsistent
  <2>3. CASE /\ req[t] \in BulkRequests
             /\ \A i \in Slots : out[i].button.device.mac = req[t].devices[i].mac
    <3>1. \A i \in Slots : buttons'[i].device.mac = req[t].devices[i].mac
      BY <2>3 DEF Handled
    <3>2. ASSUME NEW i \in Slots, NEW j \in Slots, i # j,
                 req[t].devices[i].mac = req[t].devices[j].mac
          PROVE  req[t].devices[i].mac = NoMac
      BY <2>3, <3>2 DEF BulkRequests, IsPairedList, ZeroDevice, Slots
    <3> QED
      BY <2>1, <3>1, <3>2 DEF SlotsConsistent, SlotConsistent
  <2> QED
    BY <1>1, <2>2, <2>3 DEF Handled
<1>3. ASSUME NEW t \in Threads, PressConnectReturn(t) \/ PressDisconnectReturn(t)
      PROVE  SlotsConsistent'
  <2> PICK out : Returned(t, out)
    BY <1>3, PressReturns
  <2>1. buttons[req[t].idx].btn_state # "SLOT_EMPTY_DISABLED"
    BY DEF Returned, PressTarget
  <2>2. \A i \in Slots : buttons'[i].device = buttons[i].device
    BY <1>1 DEF Returned, Transition
  <2>3. \A i \in Slots : SlotConsistent(buttons'[i])
    BY <1>1, <2>1 DEF Returned, Transition, SlotConsistent, Busy
  <2> QED
    BY <2>2, <2>3 DEF SlotsConsistent, SlotConsistent
<1>4. CASE UNCHANGED buttons
  BY <1>4 DEF SlotsConsistent
<1>5. ASSUME NEW t \in Threads,
             \/ Call(t) \/ Lock(t) \/ PressIgnored(t) \/ PressConnect(t)
             \/ PressDisconnect(t) \/ Decide(t) \/ RefreshButton(t) \/ Unlock(t)
      PROVE  UNCHANGED buttons
  BY <1>5 DEF Call, Lock, PressIgnored, PressConnect, PressDisconnect, PressCall,
              Decide, RefreshButton, Unlock
<1>6. UNCHANGED vars => UNCHANGED buttons
  BY DEF vars
<1> QED
  BY <1>2, <1>3, <1>4, <1>5, <1>6 DEF Next, Step, Handler

------------------------------------------------------------------------------
(* An answer is never overwritten by the press it answers.                  *)

AnswerInv == PressTarget /\ NoResultLost

\* Inside the critical section no other thread waits for a system call.
LEMMA PressTargetOfOwner ==
  ASSUME TypeInv, MutexInv, NEW t \in Threads, InCritical(t),
         NEW to \in PcLabels, pc' = [pc EXCEPT ![t] = to], req' = req,
         to \in {"connect_return", "disconnect_return"} =>
           /\ buttons'[req[t].idx].btn_state \in {"DISCONNECTED", "CONNECTED"}
           /\ buttons'[req[t].idx].device.mac \notin answered'
  PROVE  PressTarget'
<1>1. ASSUME NEW u \in Threads, pc'[u] \in {"connect_return", "disconnect_return"}
      PROVE  u = t
  BY <1>1 DEF MutexInv, InCritical, TypeInv, TypeOK
<1> QED
  BY <1>1 DEF PressTarget, TypeInv, TypeOK

\* A connect or disconnect event about device req[t].mac shows on its button.
LEMMA DeviceEventAnswers ==
  ASSUME TypeInv, SlotsConsistent, NoResultLost, NEW t \in Threads,
         HandleDisconnected(t) \/ HandleConnected(t)
  PROVE  NoResultLost'
<1>1. \A i \in Slots : buttons[i] \in QmButton
  BY DEF TypeInv, TypeOK
<1>2. req[t].mac \in Macs
  <2>1. req[t].id \in {"DEVICE_CONNECTED", "DEVICE_DISCONNECTED"}
    BY DEF HandleDisconnected, HandleConnected, Handle
  <2>2. req[t] \in {NoRequest} \cup Requests
    BY DEF TypeInv, TypeOK
  <2> QED
    BY <2>1, <2>2, RequestById DEF DeviceRequests
<1> SUFFICES ASSUME NEW i \in Slots, buttons'[i].device.mac \in answered'
             PROVE  buttons'[i].btn_state \notin Busy
  BY DEF NoResultLost
<1>3. CASE mac_to_idx(buttons, req[t].mac, i)
  <2>1. buttons'[i] \in {transition_state_disconnected(buttons[i], FALSE).button,
                         transition_state_connected(buttons[i], FALSE).button}
    BY <1>3 DEF HandleDisconnected, HandleConnected, Handle
  <2> QED
    BY <1>1, <2>1, DisconnectedTransition, ConnectedTransition DEF Busy
<1>4. CASE ~mac_to_idx(buttons, req[t].mac, i)
  <2>1. buttons'[i] = buttons[i]
    BY <1>4 DEF HandleDisconnected, HandleConnected, Handle, Kept
  <2>2. CASE buttons[i].device.mac \in answered
    BY <2>1, <2>2 DEF NoResultLost
  <2>3. CASE buttons[i].device.mac \notin answered
    <3>1. PICK j \in Slots : mac_to_idx(buttons, req[t].mac, j)
      BY <2>1, <2>3 DEF HandleDisconnected, HandleConnected, Answer
    <3>2. buttons[i].device.mac = req[t].mac
      BY <2>1, <2>3 DEF HandleDisconnected, HandleConnected, Answer
    <3>3. i = j
      BY <1>2, <3>1, <3>2 DEF mac_to_idx, SlotsConsistent
    <3> QED
      BY <1>4, <3>1, <3>3
  <2> QED
    BY <2>2, <2>3
<1> QED
  BY <1>3, <1>4

LEMMA NextAnswer == TypeInv /\ MutexInv /\ SlotsConsistent /\ AnswerInv /\ [Next]_vars
                      => AnswerInv'
<1> SUFFICES ASSUME TypeInv, MutexInv, SlotsConsistent, PressTarget, NoResultLost,
                    [Next]_vars
             PROVE  AnswerInv'
  BY DEF AnswerInv
<1>1. \A i \in Slots : buttons[i] \in QmButton
  BY DEF TypeInv, TypeOK
<1>2. ASSUME NEW t \in Threads, Handler(t)
      PROVE  AnswerInv'
  <2>1. PressTarget'
    <3> PICK out : Handled(t, out)
      BY <1>2, HandlersHandle
    <3> QED
      BY PressTargetOfOwner DEF Handled, InCritical, PcLabels
  <2>2. CASE HandleBulkUpdate(t) \/ HandleBluetoothOn(t)
    BY <2>1, <2>2 DEF HandleBulkUpdate, HandleBluetoothOn, AnswerInv, NoResultLost
  <2>3. CASE HandleBluetoothOff(t)
    <3>1. \A i \in Slots : buttons'[i].btn_state \notin Busy
      BY <1>1, <2>3, BtOffTransition DEF HandleBluetoothOff, Handle, Busy
    <3> QED
      BY <2>1, <3>1 DEF AnswerInv, NoResultLost
  <2>4. CASE HandleDisconnected(t) \/ HandleConnected(t)
    BY <2>1, <2>4, DeviceEventAnswers DEF AnswerInv
  <2> QED
    BY <1>2, <2>2, <2>3, <2>4 DEF Handler
<1>3. ASSUME NEW t \in Threads, PressConnectReturn(t) \/ PressDisconnectReturn(t)
      PROVE  AnswerInv'
  <2> PICK out : Returned(t, out)
    BY <1>3, PressReturns
  <2>1. PressTarget'
    BY PressTargetOfOwner DEF Returned, InCritical, PcLabels
  <2>2. ASSUME NEW i \in Slots, buttons'[i].device.mac \in answered'
        PROVE  buttons'[i].btn_state \notin Busy
    <3>1. i # req[t].idx
      BY <1>1, <2>2 DEF Returned, Transition, PressTarget, TypeInv, TypeOK
    <3> QED
      BY <1>1, <2>2, <3>1 DEF Returned, NoResultLost, TypeInv, TypeOK
  <2> QED
    BY <2>1, <2>2 DEF AnswerInv, NoResultLost
<1>4. ASSUME NEW t \in Threads, PressConnect(t) \/ PressDisconnect(t)
      PROVE  AnswerInv'
  <2>1. PressTarget'
    BY <1>4, PressTargetOfOwner
       DEF PressConnect, PressDisconnect, PressCall, Goto, InCritical, PcLabels
  <2>2. answered' \subseteq answered /\ buttons' = buttons
    BY <1>4 DEF PressConnect, PressDisconnect, PressCall
  <2> QED
    BY <2>1, <2>2 DEF AnswerInv, NoResultLost
<1>5. ASSUME NEW t \in Threads,
             PressIgnored(t) \/ Decide(t) \/ RefreshButton(t)
      PROVE  AnswerInv'
  <2>1. PressTarget'
    BY <1>5, PressTargetOfOwner
       DEF PressIgnored, Decide, RefreshButton, Goto, InCritical, PcLabels
  <2>2. answered' = answered /\ buttons' = buttons
    BY <1>5 DEF PressIgnored, Decide, RefreshButton
  <2> QED
    BY <2>1, <2>2 DEF AnswerInv, NoResultLost
<1>6. ASSUME NEW t \in Threads, Call(t) \/ Lock(t) \/ Unlock(t)
      PROVE  AnswerInv'
  <2>1. answered' = answered /\ buttons' = buttons
    BY <1>6 DEF Call, Lock, Unlock
  <2>2. \A u \in Threads : pc'[u] \in {"connect_return", "disconnect_return"} =>
          pc[u] = pc'[u] /\ req'[u] = req[u]
    BY <1>6 DEF Call, Lock, Unlock, Goto, TypeInv, TypeOK
  <2> QED
    BY <2>1, <2>2 DEF AnswerInv, NoResultLost, PressTarget
<1>7. CASE UNCHANGED vars
  BY <1>7 DEF vars, AnswerInv, NoResultLost, PressTarget
<1> QED
  BY <1>2, <1>3, <1>4, <1>5, <1>6, <1>7 DEF Next, Step, Handler

------------------------------------------------------------------------------
(* The widgets.                                                             *)

Shown == \A i \in Slots : ui[i] = Render(buttons[i])
NothingYet == first_run /\ \A i \in Slots : ui[i] = Unset /\ buttons[i] = ZeroButton

\* Where the widgets stand, for each place the owner of the mutex can be at: up
\* to date before the handler, or a refresh is due, or one is under way.
WidgetInv ==
  /\ mutex = Free => Shown \/ NothingYet
  /\ \A t \in Threads :
       /\ pc[t] \in {"handle", "connect_return", "disconnect_return"} =>
            ~changed[t] /\ (Shown \/ NothingYet)
       /\ pc[t] = "decide" => changed[t] \/ first_run \/ Shown
       /\ pc[t] = "refresh" => \A i \in 1..(rix - 1) : ui[i] = Render(buttons[i])
       /\ pc[t] = "unlock" => Shown
  /\ (\A t \in Threads : pc[t] # "refresh") => rix = 1

\* While thread t owns the mutex only its own part of WidgetInv matters.
LEMMA WidgetInvOfOwner ==
  ASSUME TypeInv, MutexInv, NEW t \in Threads, InCritical(t), mutex' = mutex,
         NEW to \in PcLabels \ {"idle", "lock"}, pc' = [pc EXCEPT ![t] = to],
         /\ to \in {"handle", "connect_return", "disconnect_return"} =>
              ~changed'[t] /\ (Shown \/ NothingYet)'
         /\ to = "decide" => changed'[t] \/ first_run' \/ Shown'
         /\ to = "refresh" => \A i \in 1..(rix' - 1) : ui'[i] = Render(buttons'[i])
         /\ to = "unlock" => Shown'
         /\ to # "refresh" => rix' = 1
  PROVE  WidgetInv'
<1>1. \A u \in Threads : u # t => pc'[u] \in {"idle", "lock"}
  BY DEF MutexInv, InCritical, TypeInv, TypeOK
<1>2. pc'[t] = to
  BY DEF TypeInv, TypeOK
<1>3. mutex' # Free
  BY DEF MutexInv, Threads, Free
<1> QED
  BY <1>1, <1>2, <1>3 DEF WidgetInv

LEMMA NextWidget == TypeInv /\ MutexInv /\ WidgetInv /\ [Next]_vars => WidgetInv'
<1> SUFFICES ASSUME TypeInv, MutexInv, WidgetInv, [Next]_vars
             PROVE  WidgetInv'
  OBVIOUS
<1>1. ASSUME NEW t \in Threads, InCritical(t), pc[t] # "refresh"
      PROVE  rix = 1
  BY <1>1 DEF WidgetInv, MutexInv, InCritical
<1>2. ASSUME NEW t \in Threads, Handler(t)
      PROVE  WidgetInv'
  <2> PICK out : Handled(t, out)
    BY <1>2, HandlersHandle
  <2>1. ~changed[t] /\ (Shown \/ NothingYet)
    BY DEF Handled, WidgetInv
  <2>2. changed'[t] \/ \A i \in Slots : buttons'[i] = buttons[i]
    BY DEF Handled, TypeInv, TypeOK
  <2>3. changed'[t] \/ first_run' \/ Shown'
    BY <2>1, <2>2 DEF Handled, Shown, NothingYet
  <2>4. rix' = 1
    BY <1>1 DEF Handled, InCritical
  <2> QED
    BY <2>3, <2>4, WidgetInvOfOwner DEF Handled, InCritical, PcLabels
<1>3. ASSUME NEW t \in Threads, PressConnectReturn(t) \/ PressDisconnectReturn(t)
      PROVE  WidgetInv'
  <2> PICK out : Returned(t, out)
    BY <1>3, PressReturns
  <2>1. Shown \/ NothingYet
    BY DEF Returned, WidgetInv
  <2>2. changed'[t] \/ buttons' = buttons
    BY DEF Returned, Transition, TypeInv, TypeOK
  <2>3. changed'[t] \/ first_run' \/ Shown'
    BY <2>1, <2>2 DEF Returned, Shown, NothingYet
  <2>4. rix' = 1
    BY <1>1 DEF Returned, InCritical
  <2> QED
    BY <2>3, <2>4, WidgetInvOfOwner DEF Returned, InCritical, PcLabels
<1>4. ASSUME NEW t \in Threads, PressConnect(t) \/ PressDisconnect(t)
      PROVE  WidgetInv'
  <2>1. /\ ~changed'[t] /\ (Shown \/ NothingYet)'
        /\ rix' = 1 /\ mutex' = mutex /\ InCritical(t)
    BY <1>1, <1>4 DEF PressConnect, PressDisconnect, PressCall, Goto, InCritical,
                      WidgetInv, Shown, NothingYet
  <2>2. PICK to \in {"connect_return", "disconnect_return"} :
          pc' = [pc EXCEPT ![t] = to]
    BY <1>4 DEF PressConnect, PressDisconnect, PressCall, Goto
  <2> QED
    BY <2>1, <2>2, WidgetInvOfOwner DEF PcLabels
<1>5. ASSUME NEW t \in Threads, PressIgnored(t)
      PROVE  WidgetInv'
  <2>1. /\ changed'[t] \/ first_run' \/ Shown'
        /\ rix' = 1 /\ mutex' = mutex /\ InCritical(t)
    BY <1>1, <1>5 DEF PressIgnored, Goto, InCritical, WidgetInv, Shown, NothingYet
  <2> QED
    BY <1>5, <2>1, WidgetInvOfOwner DEF PressIgnored, Goto, PcLabels
<1>6. ASSUME NEW t \in Threads, Decide(t)
      PROVE  WidgetInv'
  <2>1. rix' = 1 /\ mutex' = mutex /\ InCritical(t)
    BY <1>1, <1>6 DEF Decide, Goto, InCritical
  <2>2. CASE changed[t] \/ first_run
    <3>1. pc' = [pc EXCEPT ![t] = "refresh"]
      BY <1>6, <2>2 DEF Decide, Goto
    <3>2. \A i \in 1..(rix' - 1) : ui'[i] = Render(buttons'[i])
      BY <2>1
    <3> QED
      BY <2>1, <3>1, <3>2, WidgetInvOfOwner DEF PcLabels
  <2>3. CASE ~(changed[t] \/ first_run)
    <3>1. Shown' /\ pc' = [pc EXCEPT ![t] = "unlock"]
      BY <1>6, <2>3 DEF Decide, Goto, WidgetInv, Shown
    <3> QED
      BY <2>1, <3>1, WidgetInvOfOwner DEF PcLabels
  <2> QED
    BY <2>2, <2>3
<1>7. ASSUME NEW t \in Threads, RefreshButton(t)
      PROVE  WidgetInv'
  <2> DEFINE to == IF rix = MAX_DEVICES THEN "unlock" ELSE "refresh"
  <2>1. /\ mutex' = mutex /\ InCritical(t)
        /\ pc' = [pc EXCEPT ![t] = to]
    BY <1>7 DEF RefreshButton, Goto, InCritical
  <2>2. rix \in Slots /\ ui \in [Slots -> {Unset} \cup Widget]
    BY DEF TypeInv, TypeOK
  <2>3. \A i \in 1..rix : ui'[i] = Render(buttons'[i])
    BY <1>7, <2>2 DEF RefreshButton, Goto, WidgetInv, Slots
  <2>4. CASE rix = MAX_DEVICES
    <3>1. Shown' /\ rix' = 1 /\ to = "unlock"
      BY <1>7, <2>3, <2>4 DEF RefreshButton, Shown, Slots
    <3> QED
      BY <2>1, <3>1, WidgetInvOfOwner DEF PcLabels
  <2>5. CASE rix # MAX_DEVICES
    <3>1. rix' = rix + 1 /\ rix' - 1 = rix /\ to = "refresh"
      BY <1>7, <2>2, <2>5 DEF RefreshButton, Slots
    <3> QED
      BY <2>1, <2>3, <3>1, WidgetInvOfOwner DEF PcLabels
  <2> QED
    BY <2>4, <2>5
<1>8. ASSUME NEW t \in Threads, Call(t)
      PROVE  WidgetInv'
  BY <1>8 DEF Call, Goto, WidgetInv, Shown, NothingYet, TypeInv, TypeOK
<1>9. ASSUME NEW t \in Threads, Lock(t)
      PROVE  WidgetInv'
  <2>1. \A u \in Threads : u # t => pc'[u] \in {"idle", "lock"}
    BY <1>9 DEF Lock, Goto, MutexInv, InCritical, TypeInv, TypeOK, Threads, Free
  <2>2. pc'[t] = "handle" /\ ~changed'[t] /\ mutex' # Free
    BY <1>9 DEF Lock, Goto, TypeInv, TypeOK, Threads, Free
  <2>3. (Shown \/ NothingYet)'
    BY <1>9 DEF Lock, WidgetInv, Shown, NothingYet
  <2>4. rix' = 1
    BY <1>9 DEF Lock, WidgetInv, MutexInv, InCritical, Threads, Free
  <2> QED
    BY <2>1, <2>2, <2>3, <2>4 DEF WidgetInv
<1>10. ASSUME NEW t \in Threads, Unlock(t)
       PROVE  WidgetInv'
  <2>1. \A u \in Threads : pc'[u] \in {"idle", "lock"}
    BY <1>10 DEF Unlock, Goto, MutexInv, InCritical, TypeInv, TypeOK
  <2>2. Shown'
    BY <1>10 DEF Unlock, Goto, WidgetInv, Shown
  <2>3. rix' = 1
    BY <1>1, <1>10 DEF Unlock, Goto, InCritical
  <2> QED
    BY <2>1, <2>2, <2>3 DEF WidgetInv
<1>11. CASE UNCHANGED vars
  BY <1>11 DEF vars, WidgetInv, Shown, NothingYet
<1> QED
  BY <1>2, <1>3, <1>4, <1>5, <1>6, <1>7, <1>8, <1>9, <1>10, <1>11
     DEF Next, Step, Handler

------------------------------------------------------------------------------
(* The inductive invariant and the theorems.                                *)

IInv == TypeInv /\ MutexInv /\ SlotsConsistent /\ AnswerInv /\ WidgetInv

LEMMA InitIInv == Init => IInv
<1> SUFFICES ASSUME Init
             PROVE  IInv
  OBVIOUS
<1>1. TypeInv
  BY InitType
<1>2. MutexInv /\ PressTarget
  BY DEF Init, MutexInv, InCritical, PressTarget, Threads, Free
<1>3. SlotsConsistent
  BY DEF Init, SlotsConsistent, ZeroButton, ZeroDevice
<1>4. NoResultLost
  BY DEF Init, NoResultLost
<1>5. WidgetInv
  BY DEF Init, WidgetInv, NothingYet, Threads, Free
<1> QED
  BY <1>1, <1>2, <1>3, <1>4, <1>5 DEF IInv, AnswerInv

LEMMA NextIInv == IInv /\ [Next]_vars => IInv'
BY NextType, NextMutex, NextSlots, NextAnswer, NextWidget DEF IInv, AnswerInv

LEMMA Invariant == Spec => []IInv
BY InitIInv, NextIInv, PTL DEF Spec

\* The two threads are never inside qm_state_update_ui's critical section at
\* once.
THEOREM MutualExclusion ==
  Spec => [](\A t, u \in Threads : InCritical(t) /\ InCritical(u) => t = u)
<1>1. IInv => \A t, u \in Threads : InCritical(t) /\ InCritical(u) => t = u
  BY DEF IInv, MutexInv
<1> QED
  BY <1>1, Invariant, PTL

\* A slot is empty exactly when its button says so, and no device has two
\* slots, whatever lists the kernel module reports.
THEOREM SlotsStayConsistent == Spec => []SlotsConsistent
<1>1. IInv => SlotsConsistent
  BY DEF IInv
<1> QED
  BY <1>1, Invariant, PTL

\* The result of an operation that comes while the press that started it is
\* still being handled is not overwritten by the busy state of that press.
THEOREM ResultsSurvivePresses == Spec => []NoResultLost
<1>1. IInv => NoResultLost
  BY DEF IInv, AnswerInv
<1> QED
  BY <1>1, Invariant, PTL

\* Between two calls of qm_state_update_ui every widget shows its button.
THEOREM WidgetsMatchState == Spec => []UiMatchesState
<1>1. IInv => UiMatchesState
  BY DEF IInv, WidgetInv, UiMatchesState, Shown, NothingYet
<1> QED
  BY <1>1, Invariant, PTL

\* Only bluetooth coming on or a bulk update takes a button out of the state
\* that says bluetooth is off.
THEOREM BtOffStaysUntilOn == Spec => BtOffIsSticky
<1>1. ASSUME IInv, Next
      PROVE  BtOffStep
  <2>1. TypeInv /\ PressTarget /\ \A i \in Slots : buttons[i] \in QmButton
    BY <1>1 DEF IInv, AnswerInv, TypeInv, TypeOK
  <2>2. ASSUME NEW t \in Threads, HandleBulkUpdate(t) \/ HandleBluetoothOn(t)
        PROVE  BtOffStep
    BY <2>2 DEF HandleBulkUpdate, HandleBluetoothOn, Handle, Goto, BtOffStep
  <2>3. ASSUME NEW t \in Threads, HandleBluetoothOff(t)
        PROVE  BtOffStep
    BY <2>1, <2>3, BtOffTransition DEF HandleBluetoothOff, Handle, BtOffStep
  <2>4. ASSUME NEW t \in Threads, HandleDisconnected(t) \/ HandleConnected(t)
        PROVE  BtOffStep
    BY <2>1, <2>4, DisconnectedTransition, ConnectedTransition
       DEF HandleDisconnected, HandleConnected, Handle, Kept, BtOffStep
  <2>5. ASSUME NEW t \in Threads, PressConnectReturn(t) \/ PressDisconnectReturn(t)
        PROVE  BtOffStep
    <3> PICK out : Returned(t, out)
      BY <2>1, <2>5, PressReturns
    <3> QED
      BY <2>1 DEF Returned, PressTarget, BtOffStep
  <2>6. ASSUME NEW t \in Threads,
               \/ Call(t) \/ Lock(t) \/ PressIgnored(t) \/ PressConnect(t)
               \/ PressDisconnect(t) \/ Decide(t) \/ RefreshButton(t) \/ Unlock(t)
        PROVE  BtOffStep
    BY <2>6 DEF Call, Lock, PressIgnored, PressConnect, PressDisconnect, PressCall,
                Decide, RefreshButton, Unlock, BtOffStep
  <2> QED
    BY <1>1, <2>2, <2>3, <2>4, <2>5, <2>6 DEF Next, Step
<1> QED
  BY <1>1, Invariant, PTL DEF Spec, BtOffIsSticky

\* The user gets what the widget offers: a press never connects or disconnects
\* a device other than the one whose label is on the button.
THEOREM PressesActAsShown == Spec => PressActsAsShown
<1>1. ASSUME IInv, Next
      PROVE  PressStep
  <2> SUFFICES ASSUME NEW t \in Threads, pc[t] = "handle",
                      pc'[t] \in {"connect_return", "disconnect_return"}
               PROVE  ui[req[t].idx] =
                        [state   |-> IF pc'[t] = "connect_return"
                                     THEN "DISCONNECTED" ELSE "CONNECTED",
                         about   |-> buttons[req[t].idx].device.mac,
                         enabled |-> TRUE]
    BY DEF PressStep
  <2>1. TypeInv /\ (Shown \/ NothingYet)
    BY <1>1 DEF IInv, WidgetInv
  <2>2. \/ PressConnect(t) /\ pc'[t] = "connect_return"
        \/ PressDisconnect(t) /\ pc'[t] = "disconnect_return"
    <3>1. pc \in [Threads -> PcLabels]
      BY <2>1 DEF TypeInv, TypeOK
    <3>2. PICK u \in Threads : Call(u) \/ Lock(u) \/ Step(u)
      BY <1>1 DEF Next
    <3>3. u = t
      BY <3>1, <3>2 DEF Call, Lock, Step, HandleBulkUpdate, HandleBluetoothOn,
           HandleBluetoothOff, HandleDisconnected, HandleConnected, Handle, PressIgnored,
           PressConnect, PressDisconnect, PressCall, PressConnectReturn,
           PressDisconnectReturn, PressReturn, Decide, RefreshButton, Unlock, Goto
    <3> QED
      BY <3>1, <3>2, <3>3 DEF Call, Lock, Step, HandleBulkUpdate, HandleBluetoothOn,
           HandleBluetoothOff, HandleDisconnected, HandleConnected, Handle, PressIgnored,
           PressConnect, PressDisconnect, PressCall, PressConnectReturn,
           PressDisconnectReturn, PressReturn, Decide, RefreshButton, Unlock, Goto
  <2>3. /\ req[t].idx \in Slots
        /\ buttons[req[t].idx].btn_state =
             IF pc'[t] = "connect_return" THEN "DISCONNECTED" ELSE "CONNECTED"
    BY <2>1, <2>2, RequestById
       DEF PressConnect, PressDisconnect, PressCall, PressRequests, TypeInv, TypeOK
  <2>4. ui[req[t].idx] = Render(buttons[req[t].idx])
    BY <2>1, <2>3 DEF Shown, NothingYet, ZeroButton
  <2> QED
    BY <2>3, <2>4 DEF Render
<1> QED
  BY <1>1, Invariant, PTL DEF Spec, PressActsAsShown

------------------------------------------------------------------------------
(* Calls are atomic: every step is one of QmCalls or none.                  *)

\* A transition to a state, whether or not the button is in it already.
LEMMA MovesTo ==
  ASSUME NEW b \in QmButton, NEW s \in BtnStates
  PROVE  /\ MoveIfNotIn(b, s).button = [b EXCEPT !.btn_state = s]
         /\ MoveIfNotIn(b, s).changed <=> b.btn_state # s
BY DEF MoveIfNotIn, Kept, Moved, QmButton

LEMMA ReportedStateFor ==
  ASSUME NEW b \in QmButton, NEW state \in SceStates
  PROVE  /\ Abstract!StateFor(state) \in BtnStates \ {"SLOT_EMPTY_DISABLED", "BT_OFF_DISABLED"}
         /\ ShowReported(b, state) = MoveIfNotIn(b, Abstract!StateFor(state))
BY DEF ShowReported, SceStates, BtnStates, Abstract!StateFor, transition_state_busy_connecting,
       transition_state_busy_disconnecting, transition_state_connected,
       transition_state_disconnected

\* A handler makes of a button what is promised, and reports it if that is new.
After(b, r, i) ==
  [b EXCEPT !.device = Abstract!DeviceAfter(b, r, i),
            !.btn_state = Abstract!StateAfter(b, r, i)]
Promised(b, out, r, i) ==
  out.button = After(b, r, i) /\ (out.changed <=> out.button # b)

LEMMA PromisedMove ==
  ASSUME NEW b \in QmButton, NEW s \in BtnStates, NEW r, NEW i,
         Abstract!DeviceAfter(b, r, i) = b.device, Abstract!StateAfter(b, r, i) = s,
         NEW out, \/ out = MoveIfNotIn(b, s)
                  \/ out = Kept(b) /\ b.btn_state = s
                  \/ out = Moved(b, s) /\ b.btn_state # s
  PROVE  Promised(b, out, r, i)
<1>1. out = MoveIfNotIn(b, s)
  BY DEF MoveIfNotIn
<1>2. out.button = [b EXCEPT !.btn_state = s] /\ (out.changed <=> b.btn_state # s)
  BY <1>1, MovesTo
<1>3. out.button = After(b, r, i)
  BY <1>2 DEF After, QmButton
<1>4. out.button # b <=> b.btn_state # s
  BY <1>2 DEF QmButton
<1> QED
  BY <1>2, <1>3, <1>4 DEF Promised

LEMMA PowerPromised ==
  ASSUME NEW b \in QmButton, NEW r, NEW i
  PROVE  /\ r.id = "BLUETOOTH_ON" => Promised(b, transition_state_bt_on(b), r, i)
         /\ r.id = "BLUETOOTH_OFF" => Promised(b, transition_state_bt_off(b), r, i)
<1>1. ASSUME r.id = "BLUETOOTH_ON" PROVE Promised(b, transition_state_bt_on(b), r, i)
  <2> DEFINE state == b.device.state
  <2>1. state \in SceStates /\ Abstract!DeviceAfter(b, r, i) = b.device /\ b.btn_state \in BtnStates
    BY <1>1 DEF QmButton, DeviceInfo, Abstract!DeviceAfter
  <2>2. CASE b.btn_state = "SLOT_EMPTY_DISABLED"
    <3>1. transition_state_bt_on(b) = Kept(b) /\ Abstract!StateAfter(b, r, i) = b.btn_state
      BY <1>1, <2>2 DEF transition_state_bt_on, Abstract!StateAfter
    <3> QED
      BY <2>1, <3>1, PromisedMove
  <2>3. CASE b.btn_state = "BT_OFF_DISABLED" /\ state \in Abstract!Unforced
    <3>1. transition_state_bt_on(b) = Kept(b) /\ Abstract!StateAfter(b, r, i) = b.btn_state
      BY <1>1, <2>3 DEF transition_state_bt_on, Abstract!StateAfter, Abstract!Unforced,
         transition_state_connected, transition_state_disconnected
    <3> QED
      BY <2>1, <3>1, PromisedMove
  <2>4. CASE /\ b.btn_state # "SLOT_EMPTY_DISABLED"
             /\ ~(b.btn_state = "BT_OFF_DISABLED" /\ state \in Abstract!Unforced)
    <3>1. Abstract!StateAfter(b, r, i) = Abstract!StateFor(state)
      BY <1>1, <2>4 DEF Abstract!StateAfter
    <3>2. transition_state_bt_on(b) = ShowReported(b, state)
      BY <2>1, <2>4 DEF transition_state_bt_on, ShowReported, SceStates, Abstract!Unforced,
         transition_state_connected, transition_state_disconnected
    <3> QED
      BY <2>1, <3>1, <3>2, ReportedStateFor, PromisedMove
  <2> QED
    BY <2>2, <2>3, <2>4
<1>2. ASSUME r.id = "BLUETOOTH_OFF" PROVE Promised(b, transition_state_bt_off(b), r, i)
  <2>1. Abstract!DeviceAfter(b, r, i) = b.device /\ b.btn_state \in BtnStates
        /\ "BT_OFF_DISABLED" \in BtnStates
    BY <1>2 DEF QmButton, BtnStates, Abstract!DeviceAfter
  <2>2. Abstract!StateAfter(b, r, i) =
          IF b.btn_state = "SLOT_EMPTY_DISABLED" THEN b.btn_state ELSE "BT_OFF_DISABLED"
    BY <1>2 DEF Abstract!StateAfter
  <2> QED
    BY <2>1, <2>2, PromisedMove DEF transition_state_bt_off
<1> QED
  BY <1>1, <1>2

\* found: the search of mac_to_idx stops at the button.
LEMMA DevicePromised ==
  ASSUME NEW b \in QmButton, NEW r, NEW i, NEW found \in BOOLEAN,
         found = Abstract!Finds(r, b),
         NEW out
  PROVE  /\ r.id = "DEVICE_CONNECTED"
              /\ out = (IF found THEN transition_state_connected(b, FALSE) ELSE Kept(b))
              => Promised(b, out, r, i)
         /\ r.id = "DEVICE_DISCONNECTED"
              /\ out = (IF found THEN transition_state_disconnected(b, FALSE) ELSE Kept(b))
              => Promised(b, out, r, i)
<1>0. b.btn_state \in BtnStates /\ "CONNECTED" \in BtnStates /\ "DISCONNECTED" \in BtnStates
  BY DEF QmButton, BtnStates
<1>1. ASSUME r.id = "DEVICE_CONNECTED",
             out = (IF found THEN transition_state_connected(b, FALSE) ELSE Kept(b))
      PROVE  Promised(b, out, r, i)
  <2>1. /\ Abstract!DeviceAfter(b, r, i) = b.device
        /\ Abstract!StateAfter(b, r, i) =
             IF ~found \/ b.btn_state = "BT_OFF_DISABLED" THEN b.btn_state ELSE "CONNECTED"
    BY <1>1 DEF Abstract!DeviceAfter, Abstract!StateAfter
  <2>2. out = IF ~found \/ b.btn_state = "BT_OFF_DISABLED"
              THEN Kept(b) ELSE MoveIfNotIn(b, "CONNECTED")
    BY <1>1 DEF transition_state_connected
  <2> QED
    BY <1>0, <2>1, <2>2, PromisedMove
<1>2. ASSUME r.id = "DEVICE_DISCONNECTED",
             out = (IF found THEN transition_state_disconnected(b, FALSE) ELSE Kept(b))
      PROVE  Promised(b, out, r, i)
  <2>1. /\ Abstract!DeviceAfter(b, r, i) = b.device
        /\ Abstract!StateAfter(b, r, i) =
             IF ~found \/ b.btn_state = "BT_OFF_DISABLED" THEN b.btn_state ELSE "DISCONNECTED"
    BY <1>2 DEF Abstract!DeviceAfter, Abstract!StateAfter
  <2>2. out = IF ~found \/ b.btn_state = "BT_OFF_DISABLED"
              THEN Kept(b) ELSE MoveIfNotIn(b, "DISCONNECTED")
    BY <1>2 DEF transition_state_disconnected
  <2> QED
    BY <1>0, <2>1, <2>2, PromisedMove
<1> QED
  BY <1>1, <1>2

LEMMA BulkPromised ==
  ASSUME NEW b \in QmButton, SlotConsistent(b), NEW r \in BulkRequests, NEW i \in Slots
  PROVE  Promised(b, bulk_update(b, r, i), r, i)
<1> DEFINE new == r.devices[i]
           out == bulk_update(b, r, i)
           other == new.mac # b.device.mac
           base == IF other THEN [b EXCEPT !.device = new, !.btn_state = "DISCONNECTED"]
                            ELSE b
           s == IF r.bluetooth_on THEN Abstract!StateFor(new.state) ELSE "BT_OFF_DISABLED"
<1>1. /\ r.id = "BULK_UPDATE" /\ r.bluetooth_on \in BOOLEAN
      /\ r.devices \in [Slots -> DeviceInfo] /\ r.num_devices \in 0..MAX_DEVICES
      /\ IsPairedList(r.devices, r.num_devices)
  BY DEF BulkRequests
<1>2. /\ new \in DeviceInfo /\ new.state \in SceStates
      /\ IF i <= r.num_devices THEN new.mac \in Macs /\ new.mac # NoMac ELSE new = ZeroDevice
      /\ ~(i <= r.num_devices) <=> i > r.num_devices
  BY <1>1 DEF IsPairedList, Slots, DeviceInfo
<1>3. Abstract!DeviceAfter(b, r, i) = (IF other THEN new ELSE b.device)
  BY <1>1 DEF Abstract!DeviceAfter
<1>4. CASE i > r.num_devices
  <2>1. out = bulk_updated_remove_device(b) /\ new.mac = NoMac
    BY <1>2, <1>4 DEF bulk_update, ZeroDevice
  <2>2. Abstract!StateAfter(b, r, i) = "SLOT_EMPTY_DISABLED"
    BY <1>1, <2>1 DEF Abstract!StateAfter
  <2>3. CASE b.btn_state = "SLOT_EMPTY_DISABLED"
    <3>1. out = Kept(b) /\ Abstract!DeviceAfter(b, r, i) = b.device
      BY <1>3, <2>1, <2>3 DEF bulk_updated_remove_device, SlotConsistent
    <3> QED
      BY <2>2, <2>3, <3>1, PromisedMove DEF BtnStates
  <2>4. CASE b.btn_state # "SLOT_EMPTY_DISABLED"
    <3>1. other /\ new = ZeroDevice
      BY <1>2, <1>4, <2>1, <2>4 DEF SlotConsistent
    <3>2. /\ out.button = [b EXCEPT !.device = ZeroDevice, !.btn_state = "SLOT_EMPTY_DISABLED"]
          /\ out.changed
      BY <2>1, <2>4 DEF bulk_updated_remove_device, Moved, QmButton
    <3>3. out.button = After(b, r, i)
      BY <1>3, <2>2, <3>1, <3>2 DEF After
    <3>4. out.button # b
      BY <2>4, <3>2 DEF QmButton
    <3> QED
      BY <3>2, <3>3, <3>4 DEF Promised
  <2> QED
    BY <2>3, <2>4
<1>5. CASE i <= r.num_devices
  <2> DEFINE told == IF r.bluetooth_on THEN ShowReported(base, new.state)
                                       ELSE transition_state_bt_off(base)
  <2>1. out = [told EXCEPT !.changed = @ \/ other]
    BY <1>2, <1>5 DEF bulk_update
  <2>2. Abstract!StateAfter(b, r, i) = s /\ s \in BtnStates
    BY <1>1, <1>2, <1>5, ReportedStateFor DEF Abstract!StateAfter, BtnStates
  <2>3. base \in QmButton /\ base.device = (IF other THEN new ELSE b.device)
    BY <1>2 DEF QmButton, BtnStates
  <2>4. base.btn_state # "SLOT_EMPTY_DISABLED"
    BY <1>2, <1>5 DEF QmButton, SlotConsistent
  <2>5. told = MoveIfNotIn(base, s)
    <3>1. CASE r.bluetooth_on
      BY <1>2, <2>3, <3>1, ReportedStateFor
    <3>2. CASE ~r.bluetooth_on
      BY <2>4, <3>2 DEF transition_state_bt_off, MoveIfNotIn
    <3> QED
      BY <3>1, <3>2
  <2> HIDE DEF base, s
  <2>6. told.button = [base EXCEPT !.btn_state = s] /\ (told.changed <=> base.btn_state # s)
    BY <2>2, <2>3, <2>5, MovesTo
  <2>7. told = [button |-> told.button, changed |-> told.changed]
    BY <2>5 DEF MoveIfNotIn, Kept, Moved
  <2>8. out.button = told.button /\ (out.changed <=> told.changed \/ other)
    BY <2>1, <2>7
  <2>9. out.button = After(b, r, i)
    <3>1. out.button = [b EXCEPT !.device = IF other THEN new ELSE b.device, !.btn_state = s]
      BY <2>6, <2>8 DEF base, QmButton
    <3> QED
      BY <1>3, <2>2, <3>1 DEF After
  <2>10. out.changed <=> out.button # b
    <3>1. CASE other
      <4>1. out.button.device = new
        BY <2>3, <2>6, <2>8, <3>1 DEF QmButton
      <4> QED
        BY <2>8, <3>1, <4>1
    <3>2. CASE ~other
      BY <2>6, <2>8, <3>2 DEF base, QmButton
    <3> QED
      BY <3>1, <3>2
  <2> QED
    BY <2>9, <2>10 DEF Promised
<1> QED
  BY <1>2, <1>4, <1>5

\* What a press waits for: the operation fits the state of its button, and only a
\* connection is refused with the named codes.
PressFrom ==
  \A t \in Threads :
    /\ pc[t] = "connect_return" => buttons[req[t].idx].btn_state = "DISCONNECTED"
    /\ pc[t] = "disconnect_return" =>
         buttons[req[t].idx].btn_state = "CONNECTED" /\ ret \in {"OTHER", "OK"}

LEMMA NextPressFrom ==
  ASSUME IInv, PressFrom, [Next]_vars
  PROVE  PressFrom'
<1>1. TypeInv /\ MutexInv /\ pc \in [Threads -> PcLabels]
  BY DEF IInv, TypeInv, TypeOK
<1>2. ASSUME NEW t \in Threads, InCritical(t),
             NEW to \in {"decide", "refresh", "unlock", "idle"}, pc' = [pc EXCEPT ![t] = to]
      PROVE  PressFrom'
  BY <1>1, <1>2 DEF PressFrom, MutexInv, InCritical
<1>3. ASSUME NEW t \in Threads, Handler(t)
      PROVE  PressFrom'
  <2> PICK out : Handled(t, out)
    BY <1>1, <1>3, HandlersHandle
  <2>1. InCritical(t) /\ pc' = [pc EXCEPT ![t] = "decide"]
    BY DEF Handled, InCritical
  <2> QED
    BY <1>2, <2>1
<1>4. ASSUME NEW t \in Threads, PressConnectReturn(t) \/ PressDisconnectReturn(t)
      PROVE  PressFrom'
  <2> PICK out : Returned(t, out)
    BY <1>1, <1>4, PressReturns
  <2>1. InCritical(t) /\ pc' = [pc EXCEPT ![t] = "decide"]
    BY DEF Returned, InCritical
  <2> QED
    BY <1>2, <2>1
<1>5. ASSUME NEW t \in Threads, PressConnect(t) \/ PressDisconnect(t)
      PROVE  PressFrom'
  <2>1. \A u \in Threads : u # t => pc'[u] \in {"idle", "lock"}
    BY <1>1, <1>5 DEF PressConnect, PressDisconnect, PressCall, Goto, MutexInv, InCritical
  <2>2. buttons' = buttons /\ req' = req
    BY <1>5 DEF PressConnect, PressDisconnect, PressCall
  <2>3. \/ pc'[t] = "connect_return" /\ buttons[req[t].idx].btn_state = "DISCONNECTED"
        \/ /\ pc'[t] = "disconnect_return" /\ buttons[req[t].idx].btn_state = "CONNECTED"
           /\ ret' \in {"OTHER", "OK"}
    BY <1>1, <1>5 DEF PressConnect, PressDisconnect, PressCall, Goto
  <2>4. ASSUME NEW u \in Threads, pc'[u] \in {"connect_return", "disconnect_return"}
        PROVE  u = t
    BY <2>1, <2>4
  <2> QED
    BY <2>2, <2>3, <2>4 DEF PressFrom
<1>6. ASSUME NEW t \in Threads, PressIgnored(t) \/ Decide(t) \/ RefreshButton(t) \/ Unlock(t)
      PROVE  PressFrom'
  <2>1. PICK to \in {"decide", "refresh", "unlock", "idle"} :
          InCritical(t) /\ pc' = [pc EXCEPT ![t] = to]
    BY <1>6 DEF PressIgnored, Decide, RefreshButton, Unlock, Goto, InCritical
  <2> QED
    BY <1>2, <2>1
<1>7. ASSUME NEW t \in Threads, Call(t) \/ Lock(t)
      PROVE  PressFrom'
  BY <1>1, <1>7 DEF Call, Lock, Goto, PressFrom, IInv, TypeInv, TypeOK
<1>8. CASE UNCHANGED vars
  BY <1>8 DEF vars, PressFrom
<1> QED
  BY <1>3, <1>4, <1>5, <1>6, <1>7, <1>8 DEF Next, Step, Handler

\* A handler does to all buttons at once what its request promises, and reports
\* whether that was anything.
LEMMA HandlersPromise ==
  ASSUME IInv, NEW t \in Threads, Handler(t)
  PROVE  /\ Abstract!Request(req[t])
         /\ pc[t] = "handle" /\ pc' = [pc EXCEPT ![t] = "decide"]
         /\ UNCHANGED <<ui, req>>
         /\ changed' = [changed EXCEPT ![t] = (buttons' # buttons)]
<1> DEFINE r == req[t]
<1>1. /\ TypeInv /\ r \in {NoRequest} \cup Requests
      /\ buttons \in [Slots -> QmButton]
      /\ \A i \in Slots : buttons[i] \in QmButton /\ SlotConsistent(buttons[i])
  BY DEF IInv, SlotsConsistent, SlotConsistent, TypeInv, TypeOK
<1>2. ASSUME NEW id, NEW out, Handle(t, id, out), id # "BUTTON_PRESSED",
             \A i \in Slots : Promised(buttons[i], out[i], r, i)
      PROVE  /\ Abstract!Request(r)
             /\ pc[t] = "handle" /\ pc' = [pc EXCEPT ![t] = "decide"]
             /\ UNCHANGED <<ui, req>>
             /\ changed' = [changed EXCEPT ![t] = (buttons' # buttons)]
  <2>1. \A i \in Slots : /\ out[i].button = After(buttons[i], r, i)
                         /\ out[i].changed <=> out[i].button # buttons[i]
    BY <1>2 DEF Promised
  <2>2. /\ r.id = id /\ pc[t] = "handle" /\ pc' = [pc EXCEPT ![t] = "decide"]
        /\ buttons' = [i \in Slots |-> out[i].button]
        /\ changed' = [changed EXCEPT ![t] = \E i \in Slots : out[i].changed]
        /\ UNCHANGED <<ui, req>>
    BY <1>2 DEF Handle, Goto
  <2>3. buttons' = [i \in Slots |-> After(buttons[i], r, i)]
    BY <2>1, <2>2
  <2>4. Abstract!Request(r)
    BY <1>2, <2>2, <2>3 DEF Abstract!Request, After
  <2>5. (\E i \in Slots : out[i].changed) <=> buttons' # buttons
    <3>1. (buttons' # buttons) <=> \E i \in Slots : out[i].button # buttons[i]
      BY <1>1, <2>2
    <3> QED
      BY <2>1, <3>1
  <2>6. (\E i \in Slots : out[i].changed) = (buttons' # buttons)
    BY <2>5
  <2> QED
    BY <2>2, <2>4, <2>6
<1>3. CASE HandleBulkUpdate(t)
  <2> DEFINE out == [i \in Slots |-> bulk_update(buttons[i], r, i)]
  <2>1. r \in BulkRequests
    BY <1>1, <1>3, RequestById DEF HandleBulkUpdate, Handle
  <2>2. \A i \in Slots : Promised(buttons[i], out[i], r, i)
    BY <1>1, <2>1, BulkPromised
  <2>3. Handle(t, "BULK_UPDATE", out)
    BY <1>3 DEF HandleBulkUpdate
  <2> QED
    BY <1>2, <2>2, <2>3
<1>4. CASE HandleBluetoothOn(t)
  <2> DEFINE out == [i \in Slots |-> transition_state_bt_on(buttons[i])]
  <2>1. r.id = "BLUETOOTH_ON" /\ Handle(t, "BLUETOOTH_ON", out)
    BY <1>4 DEF HandleBluetoothOn, Handle
  <2>2. \A i \in Slots : Promised(buttons[i], out[i], r, i)
    BY <1>1, <2>1, PowerPromised
  <2> QED
    BY <1>2, <2>1, <2>2
<1>5. CASE HandleBluetoothOff(t)
  <2> DEFINE out == [i \in Slots |-> transition_state_bt_off(buttons[i])]
  <2>1. r.id = "BLUETOOTH_OFF" /\ Handle(t, "BLUETOOTH_OFF", out)
    BY <1>5 DEF HandleBluetoothOff, Handle
  <2>2. \A i \in Slots : Promised(buttons[i], out[i], r, i)
    BY <1>1, <2>1, PowerPromised
  <2> QED
    BY <1>2, <2>1, <2>2
<1>6. ASSUME NEW i \in Slots, r.id \in {"DEVICE_CONNECTED", "DEVICE_DISCONNECTED"}
      PROVE  mac_to_idx(buttons, r.mac, i) = Abstract!Finds(r, buttons[i])
  <2>1. r.mac \in Macs /\ r.mac # NoMac
    BY <1>1, <1>6, RequestById DEF DeviceRequests
  <2>2. ASSUME buttons[i].device.mac = r.mac, NEW j \in 1..(i - 1)
        PROVE  buttons[j].device.mac # r.mac
    <3>1. j \in Slots /\ i # j
      BY DEF Slots
    <3>2. \A k \in Slots : buttons[i].device.mac = buttons[k].device.mac /\ i # k =>
            buttons[i].device.mac = NoMac
      BY DEF IInv, SlotsConsistent
    <3> QED
      BY <2>1, <2>2, <3>1, <3>2
  <2>3. mac_to_idx(buttons, r.mac, i) <=> Abstract!Finds(r, buttons[i])
    BY <2>1, <2>2 DEF mac_to_idx, Abstract!Finds
  <2> QED
    BY <2>3 DEF mac_to_idx, Abstract!Finds
<1>7. CASE HandleDisconnected(t)
  <2> DEFINE out == [i \in Slots |->
                       IF mac_to_idx(buttons, r.mac, i)
                       THEN transition_state_disconnected(buttons[i], FALSE)
                       ELSE Kept(buttons[i])]
  <2>1. r.id = "DEVICE_DISCONNECTED" /\ Handle(t, "DEVICE_DISCONNECTED", out)
    BY <1>7 DEF HandleDisconnected, Handle
  <2>2. ASSUME NEW i \in Slots PROVE Promised(buttons[i], out[i], r, i)
    <3> DEFINE found == mac_to_idx(buttons, r.mac, i)
    <3>1. found \in BOOLEAN /\ found = Abstract!Finds(r, buttons[i])
      BY <1>6, <2>1 DEF mac_to_idx
    <3>2. out[i] = IF found THEN transition_state_disconnected(buttons[i], FALSE)
                            ELSE Kept(buttons[i])
      OBVIOUS
    <3> HIDE DEF found, out
    <3> QED
      BY <1>1, <2>1, <3>1, <3>2, DevicePromised
  <2> QED
    BY <1>2, <2>1, <2>2
<1>8. CASE HandleConnected(t)
  <2> DEFINE out == [i \in Slots |->
                       IF mac_to_idx(buttons, r.mac, i)
                       THEN transition_state_connected(buttons[i], FALSE)
                       ELSE Kept(buttons[i])]
  <2>1. r.id = "DEVICE_CONNECTED" /\ Handle(t, "DEVICE_CONNECTED", out)
    BY <1>8 DEF HandleConnected, Handle
  <2>2. ASSUME NEW i \in Slots PROVE Promised(buttons[i], out[i], r, i)
    <3> DEFINE found == mac_to_idx(buttons, r.mac, i)
    <3>1. found \in BOOLEAN /\ found = Abstract!Finds(r, buttons[i])
      BY <1>6, <2>1 DEF mac_to_idx
    <3>2. out[i] = IF found THEN transition_state_connected(buttons[i], FALSE)
                            ELSE Kept(buttons[i])
      OBVIOUS
    <3> HIDE DEF found, out
    <3> QED
      BY <1>1, <2>1, <3>1, <3>2, DevicePromised
  <2> QED
    BY <1>2, <2>1, <2>2
<1> QED
  BY <1>3, <1>4, <1>5, <1>7, <1>8 DEF Handler

\* The state of the calls, as the steps of qm_state_update_ui move it.
StatusOf == [t \in Threads |-> Status(t)]
ToldOf == [t \in Threads |-> Status(t) = "done" /\ changed[t]]

LEMMA StatusMoves ==
  ASSUME TypeInv, NEW t \in Threads, NEW to \in PcLabels, pc' = [pc EXCEPT ![t] = to]
  PROVE  /\ StatusOf' = [StatusOf EXCEPT ![t] = Status(t)']
         /\ to = "idle" => Status(t)' = "idle"
         /\ to \in {"lock", "handle", "connect_return", "disconnect_return"} =>
              Status(t)' = "called"
         /\ to \in {"decide", "refresh", "unlock"} => Status(t)' = "done"
         /\ pc[t] = "idle" => Status(t) = "idle"
         /\ pc[t] \in {"lock", "handle", "connect_return", "disconnect_return"} =>
              Status(t) = "called"
         /\ pc[t] \in {"decide", "refresh", "unlock"} => Status(t) = "done"
<1>1. pc \in [Threads -> PcLabels] /\ pc'[t] = to
  BY DEF TypeInv, TypeOK
<1>2. \A u \in Threads : u # t => Status(u)' = Status(u)
  BY <1>1 DEF Status
<1>3. StatusOf' = [StatusOf EXCEPT ![t] = Status(t)']
  BY <1>2 DEF StatusOf
<1> QED
  BY <1>1, <1>3 DEF Status

LEMMA ToldMoves ==
  ASSUME TypeInv, NEW t \in Threads, NEW to \in PcLabels, pc' = [pc EXCEPT ![t] = to],
         \A u \in Threads : u # t => changed'[u] = changed[u],
         NEW v \in BOOLEAN, v <=> (Status(t)' = "done" /\ changed'[t])
  PROVE  ToldOf' = [ToldOf EXCEPT ![t] = v]
<1>1. \A u \in Threads : u # t => Status(u)' = Status(u)
  BY DEF TypeInv, TypeOK, Status
<1>2. \A u \in Threads : u # t => (Status(u)' = "done" /\ changed'[u]) = ToldOf[u]
  BY <1>1 DEF ToldOf
<1>3. (Status(t)' = "done" /\ changed'[t]) = v
  OBVIOUS
<1> QED
  BY <1>2, <1>3 DEF ToldOf

\* A step that a caller cannot tell from none.
LEMMA CallStutters ==
  ASSUME TypeInv, NEW t \in Threads, NEW to \in PcLabels, pc' = [pc EXCEPT ![t] = to],
         Status(t)' = Status(t), UNCHANGED <<buttons, ui, req>>,
         \A u \in Threads : u # t => changed'[u] = changed[u],
         Status(t) = "done" => changed'[t] = changed[t]
  PROVE  UNCHANGED Abstract!cvars
<1>1. \A u \in Threads : Status(u)' = Status(u)
  BY DEF TypeInv, TypeOK, Status
<1>2. StatusOf' = StatusOf
  BY <1>1 DEF StatusOf
<1>3. ToldOf' = ToldOf
  <2>1. \A u \in Threads : (Status(u)' = "done" /\ changed'[u]) = (Status(u) = "done" /\ changed[u])
    BY <1>1
  <2> QED
    BY <2>1 DEF ToldOf
<1> QED
  BY <1>2, <1>3 DEF StatusOf, ToldOf, Abstract!cvars

LEMMA CallTakesEffect ==
  ASSUME IInv, NEW t \in Threads,
         pc[t] \in {"handle", "connect_return", "disconnect_return"},
         pc' = [pc EXCEPT ![t] = "decide"],
         UNCHANGED <<ui, req>>,
         Abstract!Request(req[t]) \/ Abstract!Press(req[t]),
         changed' = [changed EXCEPT ![t] = (buttons' # buttons)]
  PROVE  Abstract!TakeEffect(t)
<1>1. TypeInv /\ changed \in [Threads -> BOOLEAN] /\ "decide" \in PcLabels
  BY DEF IInv, TypeInv, TypeOK, PcLabels
<1>2. /\ Status(t) = "called" /\ Status(t)' = "done"
      /\ StatusOf' = [StatusOf EXCEPT ![t] = "done"]
  BY <1>1, StatusMoves
<1>3. ToldOf' = [ToldOf EXCEPT ![t] = (buttons' # buttons)]
  <2>1. (buttons' # buttons) \in BOOLEAN
    OBVIOUS
  <2>2. changed'[t] = (buttons' # buttons) /\ \A u \in Threads : u # t => changed'[u] = changed[u]
    BY <1>1
  <2>3. (buttons' # buttons) <=> (Status(t)' = "done" /\ changed'[t])
    BY <1>2, <2>2
  <2> QED
    BY <1>1, <2>1, <2>2, <2>3, ToldMoves
<1>4. Abstract!Advance(t, "called", "done")
  BY <1>2 DEF StatusOf, Abstract!Advance
<1> QED
  BY <1>3, <1>4 DEF ToldOf, Abstract!TakeEffect

LEMMA PressesPromise ==
  ASSUME IInv, PressFrom, NEW t \in Threads,
         PressIgnored(t) \/ PressConnectReturn(t) \/ PressDisconnectReturn(t)
  PROVE  Abstract!TakeEffect(t)
<1> DEFINE b == buttons[req[t].idx]
<1>1. /\ TypeInv /\ pc \in [Threads -> PcLabels] /\ changed \in [Threads -> BOOLEAN]
      /\ buttons \in [Slots -> QmButton] /\ ret \in Errors \cup {"OK"}
      /\ req[t] \in {NoRequest} \cup Requests
  BY DEF IInv, TypeInv, TypeOK
<1>2. req[t] \in PressRequests
  BY <1>1, RequestById DEF PressIgnored, PressConnectReturn, PressDisconnectReturn,
     PressReturn, Goto, TypeInv, PressPending
<1>3. req[t].id = "BUTTON_PRESSED" /\ req[t].idx \in Slots /\ b \in QmButton
  BY <1>1, <1>2 DEF PressRequests
<1>4. ASSUME NEW new \in Abstract!Outcomes(b),
             buttons' = [buttons EXCEPT ![req[t].idx] = new],
             pc[t] \in {"handle", "connect_return", "disconnect_return"},
             pc' = [pc EXCEPT ![t] = "decide"], UNCHANGED <<ui, req>>,
             changed' = [changed EXCEPT ![t] = (buttons' # buttons)]
      PROVE  Abstract!TakeEffect(t)
  <2>1. Abstract!Press(req[t])
    BY <1>3, <1>4 DEF Abstract!Press
  <2> QED
    BY <1>4, <2>1, CallTakesEffect
<1>5. CASE PressIgnored(t)
  <2>1. b \in Abstract!Outcomes(b)
    BY <1>5 DEF PressIgnored, Abstract!Outcomes
  <2>2. buttons' = [buttons EXCEPT ![req[t].idx] = b] /\ (buttons' # buttons) = FALSE
    BY <1>1, <1>5 DEF PressIgnored
  <2>3. changed[t] = FALSE
    BY <1>1, <1>5 DEF PressIgnored, Goto, IInv, WidgetInv
  <2>4. changed' = [changed EXCEPT ![t] = (buttons' # buttons)]
    BY <1>1, <1>5, <2>2, <2>3 DEF PressIgnored
  <2> QED
    BY <1>4, <1>5, <2>1, <2>2, <2>4 DEF PressIgnored, Goto
<1>6. ASSUME NEW from \in {"connect_return", "disconnect_return"}, NEW busy,
             PressReturn(t, from, busy), NEW s \in Busy, b.btn_state \in {"CONNECTED", "DISCONNECTED"},
             busy = MoveIfNotIn(b, s),
             [b EXCEPT !.btn_state = s] \in Abstract!Outcomes(b),
             ret # "OK" => [b EXCEPT !.btn_state = "ERROR_DISABLED", !.error_message = ret]
                             \in Abstract!Outcomes(b)
      PROVE  Abstract!TakeEffect(t)
  <2> DEFINE out == IF ret = "OK" THEN busy ELSE transition_state_error(b, ret)
             new == out.button
  <2>1. new \in Abstract!Outcomes(b) /\ out.changed = TRUE
        /\ new.btn_state \in Busy \cup {"ERROR_DISABLED"}
    <3>1. CASE ret = "OK"
      BY <1>3, <1>6, <3>1 DEF MoveIfNotIn, Moved, Busy, QmButton
    <3>2. CASE ret # "OK"
      BY <1>3, <1>6, <3>2 DEF transition_state_error, QmButton
    <3> QED
      BY <3>1, <3>2
  <2>2. /\ pc[t] = from /\ pc' = [pc EXCEPT ![t] = "decide"] /\ UNCHANGED <<ui, req>>
        /\ buttons' = [buttons EXCEPT ![req[t].idx] = new]
        /\ changed' = [changed EXCEPT ![t] = out.changed]
    BY <1>6 DEF PressReturn, Goto
  <2> HIDE DEF out
  <2>3. (buttons' # buttons) = TRUE
    <3>1. buttons'[req[t].idx] = new /\ new # b
      BY <1>1, <1>3, <1>6, <2>1, <2>2 DEF Busy
    <3> QED
      BY <3>1
  <2>4. changed' = [changed EXCEPT ![t] = (buttons' # buttons)]
    BY <2>1, <2>2, <2>3
  <2> QED
    BY <1>4, <2>1, <2>2, <2>4
<1>7. CASE PressConnectReturn(t)
  <2>1. b.btn_state = "DISCONNECTED"
        /\ PressReturn(t, "connect_return", transition_state_busy_connecting(b))
    BY <1>7 DEF PressConnectReturn, PressReturn, Goto, PressFrom
  <2>2. [b EXCEPT !.btn_state = "CONNECTING_DISABLED"] \in Abstract!Outcomes(b)
    BY <2>1 DEF Abstract!Outcomes
  <2>3. ret # "OK" => [b EXCEPT !.btn_state = "ERROR_DISABLED", !.error_message = ret]
                        \in Abstract!Outcomes(b)
    BY <1>1, <2>1 DEF Abstract!Outcomes, Errors
  <2> QED
    BY <1>6, <2>1, <2>2, <2>3 DEF transition_state_busy_connecting, Busy
<1>8. CASE PressDisconnectReturn(t)
  <2>1. b.btn_state = "CONNECTED" /\ ret \in {"OTHER", "OK"}
        /\ PressReturn(t, "disconnect_return", transition_state_busy_disconnecting(b))
    BY <1>8 DEF PressDisconnectReturn, PressReturn, Goto, PressFrom
  <2>2. [b EXCEPT !.btn_state = "DISCONNECTING_DISABLED"] \in Abstract!Outcomes(b)
    BY <2>1 DEF Abstract!Outcomes
  <2>3. ret # "OK" => [b EXCEPT !.btn_state = "ERROR_DISABLED", !.error_message = ret]
                        \in Abstract!Outcomes(b)
    BY <2>1 DEF Abstract!Outcomes
  <2> QED
    BY <1>6, <2>1, <2>2, <2>3 DEF transition_state_busy_disconnecting, Busy
<1> QED
  BY <1>5, <1>7, <1>8

LEMMA CallsInit == Init => Abstract!CInit
<1> SUFFICES ASSUME Init PROVE Abstract!CInit
  OBVIOUS
<1>1. StatusOf = [t \in Threads |-> "idle"]
  BY DEF Init, StatusOf, Status
<1>2. ToldOf = [t \in Threads |-> FALSE]
  BY DEF Init, ToldOf, Status
<1> QED
  BY <1>1, <1>2 DEF Init, StatusOf, ToldOf, Abstract!CInit

LEMMA CallsNext ==
  ASSUME IInv, PressFrom, [Next]_vars
  PROVE  [Abstract!CNext]_(Abstract!cvars)
<1>1. /\ TypeInv /\ pc \in [Threads -> PcLabels] /\ changed \in [Threads -> BOOLEAN]
      /\ req \in [Threads -> {NoRequest} \cup Requests]
      /\ PcLabels = {"idle", "lock", "handle", "connect_return", "disconnect_return",
                     "decide", "refresh", "unlock"}
  BY DEF IInv, TypeInv, TypeOK, PcLabels
<1>2. ASSUME NEW t \in Threads, Call(t)
      PROVE  Abstract!Call(t)
  <2>1. /\ pc[t] = "idle" /\ pc' = [pc EXCEPT ![t] = "lock"]
        /\ UNCHANGED <<buttons, ui, changed>>
    BY <1>2 DEF Call, Goto
  <2>2. req'[t] \in RequestsOf(t) /\ req' = [req EXCEPT ![t] = req'[t]]
    BY <1>1, <1>2 DEF Call
  <2>3. Status(t) = "idle" /\ Status(t)' = "called" /\ StatusOf' = [StatusOf EXCEPT ![t] = "called"]
    BY <1>1, <2>1, StatusMoves
  <2>4. ToldOf' = ToldOf
    <3>1. ToldOf' = [ToldOf EXCEPT ![t] = FALSE]
      BY <1>1, <2>1, <2>3, ToldMoves
    <3>2. ToldOf[t] = FALSE
      BY <2>3 DEF ToldOf
    <3> QED
      BY <3>1, <3>2 DEF ToldOf
  <2>5. Abstract!Advance(t, "idle", "called")
    BY <2>3 DEF StatusOf, Abstract!Advance
  <2> QED
    BY <2>1, <2>2, <2>4, <2>5 DEF ToldOf, Abstract!Call
<1>3. ASSUME NEW t \in Threads, Lock(t)
      PROVE  UNCHANGED Abstract!cvars
  <2>1. /\ pc[t] = "lock" /\ pc' = [pc EXCEPT ![t] = "handle"] /\ UNCHANGED <<buttons, ui, req>>
        /\ \A u \in Threads : u # t => changed'[u] = changed[u]
    BY <1>1, <1>3 DEF Lock, Goto
  <2>2. Status(t) = "called" /\ Status(t)' = "called"
    BY <1>1, <2>1, StatusMoves
  <2>3. /\ "handle" \in PcLabels /\ Status(t)' = Status(t) /\ UNCHANGED <<buttons, ui, req>>
        /\ Status(t) = "done" => changed'[t] = changed[t]
    BY <1>1, <2>1, <2>2
  <2> QED
    BY <1>1, <2>1, <2>3, CallStutters
<1>4. ASSUME NEW t \in Threads, Handler(t)
      PROVE  Abstract!TakeEffect(t)
  BY <1>4, HandlersPromise, CallTakesEffect
<1>5. ASSUME NEW t \in Threads, PressConnect(t) \/ PressDisconnect(t)
      PROVE  UNCHANGED Abstract!cvars
  <2>1. PICK to \in {"connect_return", "disconnect_return"} :
          pc[t] = "handle" /\ pc' = [pc EXCEPT ![t] = to]
    BY <1>5 DEF PressConnect, PressDisconnect, PressCall, Goto
  <2>2. UNCHANGED <<buttons, ui, req, changed>>
    BY <1>5 DEF PressConnect, PressDisconnect, PressCall
  <2>3. Status(t) = "called" /\ Status(t)' = "called"
    BY <1>1, <2>1, StatusMoves
  <2>4. /\ to \in PcLabels /\ Status(t)' = Status(t) /\ UNCHANGED <<buttons, ui, req>>
        /\ \A u \in Threads : u # t => changed'[u] = changed[u]
        /\ Status(t) = "done" => changed'[t] = changed[t]
    BY <1>1, <2>1, <2>2, <2>3
  <2> QED
    BY <1>1, <2>1, <2>4, CallStutters
<1>6. ASSUME NEW t \in Threads, Decide(t)
      PROVE  UNCHANGED Abstract!cvars
  <2>1. PICK to \in {"refresh", "unlock"} :
          pc[t] = "decide" /\ pc' = [pc EXCEPT ![t] = to]
    BY <1>6 DEF Decide, Goto
  <2>2. UNCHANGED <<buttons, ui, req, changed>>
    BY <1>6 DEF Decide
  <2>3. Status(t) = "done" /\ Status(t)' = "done"
    BY <1>1, <2>1, StatusMoves
  <2>4. /\ to \in PcLabels /\ Status(t)' = Status(t) /\ UNCHANGED <<buttons, ui, req>>
        /\ \A u \in Threads : u # t => changed'[u] = changed[u]
        /\ Status(t) = "done" => changed'[t] = changed[t]
    BY <1>1, <2>1, <2>2, <2>3
  <2> QED
    BY <1>1, <2>1, <2>4, CallStutters
<1>7. ASSUME NEW t \in Threads, RefreshButton(t)
      PROVE  Abstract!Show(rix) /\ rix \in Slots
  <2>1. PICK to \in {"refresh", "unlock"} :
          pc[t] = "refresh" /\ pc' = [pc EXCEPT ![t] = to]
    BY <1>7 DEF RefreshButton, Goto
  <2>2. /\ ui' = [ui EXCEPT ![rix] = Render(buttons[rix])]
        /\ UNCHANGED <<buttons, req, changed>> /\ rix \in Slots
    BY <1>1, <1>7 DEF RefreshButton, TypeInv, TypeOK
  <2>3. Status(t) = "done" /\ Status(t)' = "done"
    BY <1>1, <2>1, StatusMoves
  <2>4. \A u \in Threads : Status(u)' = Status(u)
    BY <1>1, <2>1, <2>3 DEF Status
  <2>5. StatusOf' = StatusOf /\ ToldOf' = ToldOf
    BY <2>2, <2>4 DEF StatusOf, ToldOf
  <2> QED
    BY <2>2, <2>3, <2>5 DEF StatusOf, ToldOf, Abstract!Show
<1>8. ASSUME NEW t \in Threads, Unlock(t)
      PROVE  Abstract!Return(t)
  <2>1. /\ pc[t] = "unlock" /\ pc' = [pc EXCEPT ![t] = "idle"]
        /\ UNCHANGED <<buttons, ui>> /\ req' = [req EXCEPT ![t] = NoRequest]
        /\ \A u \in Threads : u # t => changed'[u] = changed[u]
    BY <1>1, <1>8 DEF Unlock, Goto
  <2>2. Shown
    BY <2>1 DEF IInv, WidgetInv
  <2>3. Status(t) = "done" /\ Status(t)' = "idle" /\ StatusOf' = [StatusOf EXCEPT ![t] = "idle"]
    BY <1>1, <2>1, StatusMoves
  <2>4. ToldOf' = [ToldOf EXCEPT ![t] = FALSE]
    BY <1>1, <2>1, <2>3, ToldMoves
  <2>5. Abstract!Advance(t, "done", "idle")
    BY <2>3 DEF StatusOf, Abstract!Advance
  <2> QED
    BY <2>1, <2>2, <2>4, <2>5 DEF ToldOf, Shown, Abstract!Return
<1>9. CASE UNCHANGED vars
  <2>1. \A t \in Threads : Status(t)' = Status(t)
    BY <1>9 DEF vars, Status
  <2>2. StatusOf' = StatusOf /\ ToldOf' = ToldOf
    BY <1>9, <2>1 DEF vars, StatusOf, ToldOf
  <2>3. UNCHANGED <<buttons, ui, req>>
    BY <1>9 DEF vars
  <2> QED
    BY <2>2, <2>3 DEF StatusOf, ToldOf, Abstract!cvars
<1>10. CASE Next
  <2>1. PICK t \in Threads : Call(t) \/ Lock(t) \/ Step(t)
    BY <1>10 DEF Next
  <2>2. CASE Call(t) \/ Handler(t) \/ PressIgnored(t) \/ PressConnectReturn(t)
             \/ PressDisconnectReturn(t) \/ Unlock(t)
    <3>1. Abstract!Call(t) \/ Abstract!TakeEffect(t) \/ Abstract!Return(t)
      BY <1>2, <1>4, <1>8, <2>2, PressesPromise
    <3> QED
      BY <3>1 DEF Abstract!CNext
  <2>3. CASE RefreshButton(t)
    BY <1>7, <2>3 DEF Abstract!CNext
  <2>4. CASE Lock(t) \/ PressConnect(t) \/ PressDisconnect(t) \/ Decide(t)
    BY <1>3, <1>5, <1>6, <2>4
  <2> QED
    BY <2>1, <2>2, <2>3, <2>4 DEF Step, Handler
<1> QED
  BY <1>9, <1>10

\* Whatever the two threads do, a call of qm_state_update_ui acts on all buttons at
\* one moment between its start and its return, reports whether it changed any,
\* and returns with every widget up to date, a press with its system call included.
THEOREM CallsAreAtomic == Spec => RefinesCalls
<1>1. Init => PressFrom
  BY DEF Init, PressFrom
<1>2. Spec => [](IInv /\ PressFrom)
  BY <1>1, InitIInv, NextIInv, NextPressFrom, PTL DEF Spec
<1> QED
  BY <1>2, CallsInit, CallsNext, PTL DEF Spec, RefinesCalls, Abstract!Calls

=============================================================================
