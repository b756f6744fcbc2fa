------------------------------ MODULE RackView -------------------------------
(***************************************************************************)
(* What the dispatcher may rely on when it asks the vision monitor for the *)
(* rack.  The monitor shows either nothing usable or one state for every   *)
(* slot.  What it shows of a slot is wrong only while it has judged at     *)
(* most Slack frames since that slot changed or the camera was displaced.  *)
(* It promises no more: not that it judges at all, so what it shows may be *)
(* as old as can be.                                                       *)
(***************************************************************************)
EXTENDS Integers

CONSTANTS Slots,   \* the places of the rack, numbered from below
          Slack,   \* frames that may pass before the view follows a change
          NoView   \* nothing usable is shown

VARIABLES occupied,  \* the slots that hold an object
          fresh,     \* frames judged since a slot changed, up to Slack + 1
          shown      \* what the monitor shows of each slot, or NoView

rackVars == <<occupied, fresh, shown>>

\* Slot s is shown as it is not.
Wrong(view, s) == view[s] # (IF s \in occupied THEN "OCCUPIED" ELSE "EMPTY")

RackTypeOK ==
  /\ occupied \in SUBSET Slots
  /\ fresh \in [Slots -> 0 .. Slack + 1]
  /\ shown \in [Slots -> {"EMPTY", "OCCUPIED"}] \cup {NoView}

RackInit ==
  /\ occupied \in SUBSET Slots
  /\ fresh = [s \in Slots |-> 0]
  /\ shown = NoView

Fill(s) ==
  /\ occupied' = occupied \cup {s}
  /\ fresh' = [fresh EXCEPT ![s] = 0]
  /\ UNCHANGED shown

\* Someone takes the object out of slot s.
Unload(s) ==
  /\ s \in occupied
  /\ occupied' = occupied \ {s}
  /\ fresh' = [fresh EXCEPT ![s] = 0]
  /\ UNCHANGED shown

\* The camera or the rack is moved, or moved back.
Disturb ==
  /\ fresh' = [s \in Slots |-> 0]
  /\ UNCHANGED <<occupied, shown>>

\* The monitor judges a frame and shows the outcome.
Judge ==
  /\ fresh' \in {fresh, [s \in Slots |-> IF fresh[s] > Slack THEN fresh[s] ELSE fresh[s] + 1]}
  /\ shown' \in [Slots -> {"EMPTY", "OCCUPIED"}] \cup {NoView}
  /\ shown' # NoView => \A s \in Slots : Wrong(shown', s) => fresh'[s] <= Slack
  /\ UNCHANGED occupied

RackNext == (\E s \in Slots : Fill(s) \/ Unload(s)) \/ Disturb \/ Judge

RackSpec == RackInit /\ [][RackNext]_rackVars
=============================================================================
