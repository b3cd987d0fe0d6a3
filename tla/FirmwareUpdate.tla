--------------------------- MODULE FirmwareUpdate ---------------------------
(***************************************************************************)
(* What a firmware update promises, whatever the packets, timers and        *)
(* threads behind it: a slot is prepared, an image is announced, its parts  *)
(* go into blank cells, and the boot loader is asked to swap the image in   *)
(* only while the slot holds exactly what was announced.                    *)
(***************************************************************************)
EXTENDS Integers, Sequences

CONSTANTS Cells, Data, Images, Erased, Scrap, None

VARIABLES announced, slot, requested

vars == <<announced, slot, requested>>

Holds(image) ==
  /\ image # <<>>
  /\ \A k \in 1 .. Len(image) : k - 1 \in Cells /\ slot[k - 1] = image[k]

Init == announced = None /\ slot = [c \in Cells |-> Scrap] /\ requested = FALSE

\* Erasing the slot, which may be cut short.
Prepare ==
  /\ announced = None
  /\ \E content \in {Erased, Scrap} : slot' = [c \in Cells |-> content]
  /\ requested' = FALSE
  /\ UNCHANGED announced

Announce(image) ==
  /\ announced = None
  /\ slot = [c \in Cells |-> Erased]
  /\ announced' = image
  /\ UNCHANGED <<slot, requested>>

\* A part is written, once; a write that fails ends the update.
Store(c) ==
  /\ announced # None /\ ~requested
  /\ slot[c] = Erased
  /\ \E d \in Data : slot' = [slot EXCEPT ![c] = d]
  /\ UNCHANGED <<announced, requested>>

Spoil(c) ==
  /\ announced # None /\ ~requested
  /\ slot' = [slot EXCEPT ![c] = Scrap]
  /\ announced' = None
  /\ UNCHANGED requested

GiveUp ==
  /\ announced # None /\ ~requested
  /\ announced' = None
  /\ UNCHANGED <<slot, requested>>

Request ==
  /\ announced # None
  /\ Holds(announced)
  /\ requested' = TRUE
  /\ UNCHANGED <<announced, slot>>

Restart ==
  /\ announced' = None
  /\ slot' = IF requested THEN [c \in Cells |-> Scrap] ELSE slot
  /\ requested' = FALSE

Next ==
  \/ Prepare \/ GiveUp \/ Request \/ Restart
  \/ \E image \in Images : Announce(image)
  \/ \E c \in Cells : Store(c) \/ Spoil(c)

Spec == Init /\ [][Next]_vars
=============================================================================
