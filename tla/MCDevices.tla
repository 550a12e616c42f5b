------------------------------- MODULE MCDevices -------------------------------
(* Model-checking instances of Devices. *)
EXTENDS Devices

CONSTANTS card, twin, stick

\* A reader names the cards in it alike but for the slot; twin also has the reader's name.
Reader == <<"reader">>
Slot   == <<"reader", "0:0">>
Stick  == <<"stick">>
Luns   == {"0:0"}

NameOf(d) == CASE d = card  -> <<Slot>>
               [] d = twin  -> <<Reader, Slot>>
               [] d = stick -> <<Stick>>
               [] OTHER     -> <<>>

\* Two cards in turn in one slot, and a stick that comes up at their node from another port.
OneNode      == {card, twin, stick}
OneNodePath  == [d \in OneNode |-> IF d = stick THEN "sys2" ELSE "sys1"]
OneNodeNode  == [d \in OneNode |-> "sdb1"]
OneNodeNames == [d \in OneNode |-> NameOf(d)]

\* A stick in turn with one of two cards that share a name.
Shared      == {card, twin, stick}
SharedPath  == [d \in Shared |-> CASE d = card -> "sys1" [] d = twin -> "sys2" [] OTHER -> "sys3"]
SharedNode  == [d \in Shared |-> IF d = twin THEN "sdc1" ELSE "sdb1"]
SharedNames == [d \in Shared |-> IF d = stick THEN <<Stick>> ELSE <<Slot>>]

\* A device with two names, and one that only has the name they share.
Renamed      == {twin, stick}
RenamedPath  == [d \in Renamed |-> IF d = twin THEN "sys1" ELSE "sys2"]
RenamedNode  == [d \in Renamed |-> IF d = twin THEN "sdb1" ELSE "sdc1"]
RenamedNames == [d \in Renamed |-> IF d = twin THEN <<Reader, Slot>> ELSE <<Reader>>]

NoEdits      == {}
ReaderEdit   == {Reader}
NewFile      == {Absent}
NewOrStick   == {Absent, [allow |-> {Stick}, ignore |-> {}]}
SlotAllowed  == {[allow |-> {Slot}, ignore |-> {}]}
StickIgnored == {[allow |-> {}, ignore |-> {Stick}]}
=============================================================================
