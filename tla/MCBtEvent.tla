------------------------------ MODULE MCBtEvent -------------------------------
(* Instances of BtEvent for model checking.                                 *)
EXTENDS BtEvent

CONSTANT m1

BtEvent_(id, unk1, unk3, mac) == [id |-> id, unk1 |-> unk1, unk3 |-> unk3, mac |-> mac]

\* One event of each kind the code tells apart: handled, ignored by the handler
\* for its payload or its id, and masked.
AllKinds ==
  {BtEvent_("CONNECT_RESULT", u, 0, m1) : u \in {0, 2}} \cup
  {BtEvent_("DISCONNECT", 22, 0, m1),
   BtEvent_("ADD_REMOVE_CONNECTING_DEVICE", 0, 0, NoDevice),
   BtEvent_("PAIRING_REQUEST", 3, 7, m1),
   BtEvent_("OTHER", 0, 0, NoDevice)} \cup
  {BtEvent_("TOGGLE_BLUETOOTH", 0, u, NoDevice) : u \in {0, 9, 25, 32}}

\* A handled event, an ignored one and a masked one.
FewKinds ==
  {BtEvent_("TOGGLE_BLUETOOTH", 0, u, NoDevice) : u \in {9, 25}} \cup
  {BtEvent_("PAIRING_REQUEST", 3, 7, m1)}
==============================================================================
