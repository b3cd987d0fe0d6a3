---------------------------- MODULE ScreenProofs ----------------------------
(***************************************************************************)
(* Proofs about the user interface, for every number of sources, every     *)
(* range of the volume and every size of the input queue.                  *)
(***************************************************************************)
EXTENDS ScreenProperties, TLAPS

(***************************************************************************)
(* The invariant: what the active screen, and the place of the main loop,  *)
(* say of the contexts of the screens.                                     *)
(***************************************************************************)

\* The main loop is cut inside a handler only on the screen whose handler it is.
LoopOnScreen ==
  /\ at \in {"mute", "hold"} => ui.active = "Info"
  /\ at = "commit" => ui.active = "Select" /\ menu.focus \in 1 .. NumSources

\* The menus have three items, the selection one more than sources and Back.
FocusOnItem == ui.active \in {"MainMenu", "BtMenu"} => menu.focus \in 0 .. 2

\* On the screen of the selected source: a pending mute means volume zero, and once its delay
\* is over or nothing is left to store, that is the stored volume.
ZeroIsStored ==
  ui.active = "Info" =>
    /\ info.pending => info.vol = 0
    /\ info.pending /\ (info.ready \/ ~ info.dirty) => cfg.vol[info.src] = 0

\* A release that counts stands for a press of its own.
PressesCounted ==
  ui.active = "Info" => presses >= info.count + (IF info.pressed THEN 1 ELSE 0)

IInv ==
  /\ TypeOK
  /\ NothingLeftBehind
  /\ LoopOnScreen /\ FocusOnItem
  /\ ZeroIsStored
  /\ PressesCounted

-----------------------------------------------------------------------------
(* The fields of the records, and what a step leaves of them. *)

LEMMA InfoFields ==
  ASSUME info \in Infos
  PROVE  /\ info.src \in Sources /\ info.vol \in 0 .. MaxVolume
         /\ info.dirty \in BOOLEAN /\ info.pending \in BOOLEAN /\ info.ready \in BOOLEAN
         /\ info.pressed \in BOOLEAN /\ info.long \in BOOLEAN /\ info.count \in 0 .. 1
BY DEF Infos

LEMMA CfgFields ==
  ASSUME cfg \in Configs
  PROVE  /\ cfg.sel \in Sources \cup {None}
         /\ cfg.mute \in [Sources -> BOOLEAN]
         /\ cfg.vol \in [Sources -> 0 .. MaxVolume]
         /\ \A s \in Sources : cfg.mute[s] \in BOOLEAN /\ cfg.vol[s] \in 0 .. MaxVolume
BY DEF Configs

LEMMA MuteFields ==
  ASSUME mute \in Mutes
  PROVE  /\ mute.src \in Sources \cup {None}
         /\ mute.busy \in BOOLEAN /\ mute.done \in BOOLEAN
         /\ mute.work \in {"none", "due", "running"}
BY DEF Mutes

LEMMA Blank ==
  /\ BlankInfo \in Infos /\ BlankMenu \in Menus /\ BlankMute \in Mutes
  /\ BlankInfo.pending = FALSE /\ BlankInfo.pressed = FALSE /\ BlankInfo.count = 0
  /\ BlankMute.work = "none"
BY ScreensConstantsAssumption DEF BlankInfo, BlankMenu, BlankMute, Infos, Menus, Mutes, Sources

\* A request changes at most the screen that is requested.
LEMMA RequestOnly ==
  ASSUME ui \in Managers, NEW s \in Screens, Request(s)
  PROVE  /\ ui' \in Managers /\ ui'.active = ui.active /\ ui'.root = ui.root
         /\ ui'.next = IF ui.next = None THEN s ELSE ui.next
BY DEF Managers, Request, Requested

LEMMA ScreenOfType ==
  ASSUME NEW s
  PROVE  ScreenOf(s) \in Screens
BY DEF ScreenOf, Screens

\* What the configuration becomes.
LEMMA StoredOnly ==
  ASSUME cfg \in Configs, info \in Infos
  PROVE  /\ Stored \in Configs /\ Stored.mute = cfg.mute
         /\ Stored.vol[info.src] = info.vol
<1>1. Stored = [cfg EXCEPT !.vol = [cfg.vol EXCEPT ![info.src] = info.vol]]
  BY DEF Stored
<1>2. [cfg.vol EXCEPT ![info.src] = info.vol] \in [Sources -> 0 .. MaxVolume]
  BY CfgFields, InfoFields
<1>3. [cfg.vol EXCEPT ![info.src] = info.vol][info.src] = info.vol
  BY CfgFields, InfoFields
<1> DEFINE v == [cfg.vol EXCEPT ![info.src] = info.vol]
<1> HIDE DEF v
<1>4. [cfg EXCEPT !.vol = v] \in Configs
  BY <1>2 DEF Configs, v
<1>5. [cfg EXCEPT !.vol = v].mute = cfg.mute /\ [cfg EXCEPT !.vol = v].vol = v
  BY DEF Configs
<1> QED
  BY <1>1, <1>3, <1>4, <1>5 DEF v

LEMMA MutedOnly ==
  ASSUME cfg \in Configs, NEW s \in Sources, NEW b \in BOOLEAN
  PROVE  LET new == [cfg EXCEPT !.mute[s] = b] IN
         /\ new \in Configs /\ new.vol = cfg.vol
         /\ new.mute[s] = b /\ \A r \in Sources \ {s} : new.mute[r] = cfg.mute[r]
<1> DEFINE m == [cfg.mute EXCEPT ![s] = b]
<1>1. [cfg EXCEPT !.mute[s] = b] = [cfg EXCEPT !.mute = m]
  OBVIOUS
<1>2. /\ m \in [Sources -> BOOLEAN]
      /\ m[s] = b /\ \A r \in Sources \ {s} : m[r] = cfg.mute[r]
  BY CfgFields
<1> HIDE DEF m
<1>3. [cfg EXCEPT !.mute = m] \in Configs
  BY <1>2 DEF Configs
<1>4. [cfg EXCEPT !.mute = m].vol = cfg.vol /\ [cfg EXCEPT !.mute = m].mute = m
  BY DEF Configs
<1> QED
  BY <1>1, <1>2, <1>3, <1>4

LEMMA SelectedOnly ==
  ASSUME cfg \in Configs, NEW s \in Sources \cup {None}
  PROVE  LET new == [cfg EXCEPT !.sel = s] IN
         new \in Configs /\ new.vol = cfg.vol /\ new.mute = cfg.mute
BY DEF Configs

-----------------------------------------------------------------------------
(* Types. *)

\* The handler of an event takes it from the queue.
LEMMA TakenType ==
  ASSUME TypeOK, queue # <<>>, Taken
  PROVE  queue' \in Seq(Events) /\ Len(queue') <= QueueSize /\ wall' \in Walls
<1>1. queue \in Seq(Events) /\ Len(queue) <= QueueSize /\ wall' = wall /\ queue' = Tail(queue)
  BY DEF TypeOK, Taken
<1>2. Tail(queue) \in Seq(Events) /\ Len(Tail(queue)) = Len(queue) - 1
  BY <1>1
<1> QED
  BY <1>1, <1>2, ScreensConstantsAssumption DEF TypeOK

LEMMA PutType ==
  ASSUME TypeOK, NEW e \in Events, Put(e)
  PROVE  queue' \in Seq(Events) /\ Len(queue') <= QueueSize
<1> DEFINE q == IF Len(queue) < QueueSize THEN queue ELSE Tail(queue)
<1>1. queue \in Seq(Events) /\ Len(queue) <= QueueSize /\ Len(queue) \in Nat
  BY DEF TypeOK
<1>2. q \in Seq(Events) /\ Len(q) < QueueSize
  <2>1. CASE Len(queue) < QueueSize
    BY <1>1, <2>1
  <2>2. CASE ~ (Len(queue) < QueueSize)
    <3>1. Len(queue) >= 1 /\ queue # <<>>
      BY <1>1, <2>2, ScreensConstantsAssumption
    <3>2. Tail(queue) \in Seq(Events) /\ Len(Tail(queue)) = Len(queue) - 1
      BY <1>1, <3>1
    <3> QED
      BY <1>1, <2>2, <3>2, ScreensConstantsAssumption
  <2> QED
    BY <2>1, <2>2
<1>3. queue' = Append(q, e)
  BY DEF Put
<1> HIDE DEF q
<1> QED
  BY <1>2, <1>3, ScreensConstantsAssumption

LEMMA ModRange == \A m \in Int, k \in Nat \ {0} : m % k \in 0 .. k - 1
BY SMTT(30)

\* The focus wraps within the items of the menu.
LEMMA MenuTurnFocus ==
  ASSUME menu \in Menus, MenuTurn, ui.active \in {"Select", "MainMenu", "BtMenu"}
  PROVE  /\ menu' \in Menus /\ menu'.committed = menu.committed
         /\ menu'.focus = menu.focus \/ menu'.focus \in 0 .. LastItem
<1>1. PICK e \in {"Up", "Down"} :
        menu' \in {menu, [menu EXCEPT !.focus =
                            (@ + (IF e = "Up" THEN 1 ELSE -1)) % (LastItem + 1)]}
  BY DEF MenuTurn
<1> DEFINE n == LastItem + 1
           d == IF e = "Up" THEN 1 ELSE -1
           f == (menu.focus + d) % n
<1>2. LastItem \in Nat /\ LastItem <= NumSources + 1
  BY ScreensConstantsAssumption DEF LastItem
<1>3. menu.focus \in 0 .. NumSources + 1 /\ menu.committed \in 0 .. NumSources
  BY DEF Menus
<1>4. n \in Nat \ {0} /\ d \in Int
  BY <1>2
<1>5. menu.focus + d \in Int /\ n - 1 = LastItem
  BY <1>2, <1>3
<1>6. f \in 0 .. LastItem
  <2>1. f \in 0 .. n - 1
    BY <1>4, <1>5, ModRange
  <2> QED
    BY <1>5, <2>1
<1>7. menu' = menu \/ menu' = [menu EXCEPT !.focus = f]
  BY <1>1
<1> HIDE DEF f
<1> QED
  BY <1>2, <1>3, <1>6, <1>7, ScreensConstantsAssumption DEF Menus

LEMMA TurnedType ==
  ASSUME NEW v \in 0 .. MaxVolume, NEW e
  PROVE  Turned(v, e) \in 0 .. MaxVolume
BY ScreensConstantsAssumption DEF Turned

\* A press is released: the fields of the context after it.
LEMMA Released ==
  ASSUME info \in Infos, NEW n \in 0 .. 1
  PROVE  /\ Counted(n) \in Infos /\ Counted(n).pressed = FALSE /\ Counted(n).count = n
         /\ Uncounted \in Infos /\ Uncounted.pressed = FALSE /\ Uncounted.count = info.count
         /\ \A r \in {Counted(n), Uncounted} :
              /\ r.src = info.src /\ r.vol = info.vol /\ r.dirty = info.dirty
              /\ r.pending = info.pending /\ r.ready = info.ready
<1>1. (info.long /\ ~ info.pressed) \in BOOLEAN
  OBVIOUS
<1> DEFINE b == info.long /\ ~ info.pressed
<1>2. Uncounted = [info EXCEPT !.pressed = FALSE, !.long = b]
  BY DEF Uncounted
<1> HIDE DEF b
<1> QED
  BY <1>1, <1>2 DEF Counted, Infos, b

\* What the handlers of the screen of the selected source make of its context.
InfoSteps ==
  InfoTurn \/ InfoPress \/ InfoReleaseOther \/ InfoReleaseFirst \/ InfoReleaseSecond

LEMMA InfoTypes ==
  ASSUME TypeOK, InfoSteps
  PROVE  info' \in Infos
<1>1. info \in Infos
  BY DEF TypeOK
<1>2. CASE InfoTurn
  <2>1. PICK e \in {"Up", "Down"} :
          LET v == Turned(info.vol, e) IN
          info' = IF v = info.vol THEN info
                  ELSE [info EXCEPT !.vol = v, !.dirty = TRUE, !.pending = (v = 0),
                                    !.ready = FALSE]
    BY <1>2 DEF InfoTurn
  <2> DEFINE v == Turned(info.vol, e)
  <2>2. v \in 0 .. MaxVolume
    BY <1>1, InfoFields, TurnedType
  <2>3. info' = IF v = info.vol THEN info
                ELSE [info EXCEPT !.vol = v, !.dirty = TRUE, !.pending = (v = 0),
                                  !.ready = FALSE]
    BY <2>1
  <2> HIDE DEF v
  <2> QED
    BY <1>1, <2>2, <2>3 DEF Infos
<1>3. CASE InfoPress
  BY <1>1, <1>3 DEF InfoPress, Infos
<1>4. CASE InfoReleaseOther
  BY <1>1, <1>4, Released DEF InfoReleaseOther
<1>5. CASE InfoReleaseFirst
  BY <1>1, <1>5, Released DEF InfoReleaseFirst
<1>6. CASE InfoReleaseSecond
  BY <1>1, <1>6, Released DEF InfoReleaseSecond
<1> QED
  BY <1>2, <1>3, <1>4, <1>5, <1>6 DEF InfoSteps

-----------------------------------------------------------------------------
(* Every step keeps the invariant. *)

\* Steps of the main loop, of the user and of the fade-in that leave the screens alone.
Quiet ==
  \/ NoRequest \/ SameScreen \/ CreateFails \/ Ignored \/ InputDone \/ TickNothing
  \/ SaveNothing \/ MuteNothing \/ WallRests \/ WallMoves \/ FadeDone \/ Event

LEMMA QuietStep ==
  ASSUME IInv, Quiet
  PROVE  IInv'
<1>1. UNCHANGED <<cfg, info, menu, submit, mute, ble, presses>>
  BY DEF Quiet, NoRequest, SameScreen, CreateFails, Ignored, InputDone, TickNothing,
         SaveNothing, MuteNothing, WallRests, WallMoves, FadeDone, Event
<1>2. ui' \in Managers /\ ui'.active = ui.active /\ ui'.root = ui.root
  <2>1. ui \in Managers
    BY DEF IInv, TypeOK
  <2>2. CASE SameScreen
    BY <2>1, <2>2 DEF SameScreen, Managers
  <2>3. CASE ~ SameScreen
    <3>1. UNCHANGED ui
      BY <2>3 DEF Quiet, NoRequest, CreateFails, Ignored, InputDone, TickNothing, SaveNothing,
                  MuteNothing, WallRests, WallMoves, FadeDone, Event
    <3> QED
      BY <2>1, <3>1
  <2> QED
    BY <2>2, <2>3
<1>3. \/ at' = at
      \/ at' \in {"activate", "input", "tick", "wall"}
      \/ at' \in {"mute", "hold"} /\ ui.active = "Info"
  BY DEF Quiet, NoRequest, SameScreen, CreateFails, Ignored, InputDone, TickNothing,
         SaveNothing, MuteNothing, WallRests, WallMoves, FadeDone, Event, Goto, IInv, LoopOnScreen
<1>4. queue' \in Seq(Events) /\ Len(queue') <= QueueSize
  <2>1. CASE Event
    BY <2>1, PutType DEF Event, IInv
  <2>2. CASE Ignored
    BY <2>2, TakenType DEF Ignored, Given, IInv
  <2>3. CASE ~ Event /\ ~ Ignored
    <3>1. UNCHANGED queue
      BY <2>3 DEF Quiet, NoRequest, SameScreen, CreateFails, InputDone, TickNothing, SaveNothing,
                  MuteNothing, WallRests, WallMoves, FadeDone
    <3> QED
      BY <3>1 DEF IInv, TypeOK
  <2> QED
    BY <2>1, <2>2, <2>3
<1>5. wall' \in Walls
  <2>1. wall \in Walls
    BY DEF IInv, TypeOK
  <2>2. CASE WallMoves
    <3>1. \/ wall' = [state |-> "Startup", cmd |-> FALSE]
          \/ wall' = [state |-> "Enter", cmd |-> FALSE]
      BY <2>2 DEF WallMoves
    <3>2. [state |-> "Startup", cmd |-> FALSE] \in Walls /\ [state |-> "Enter", cmd |-> FALSE] \in Walls
      BY DEF Walls
    <3> QED
      BY <3>1, <3>2, Zenon
  <2>3. CASE FadeDone
    BY <2>1, <2>3 DEF FadeDone, Walls
  <2>4. CASE ~ WallMoves /\ ~ FadeDone
    <3>1. UNCHANGED wall
      BY <2>4 DEF Quiet, NoRequest, SameScreen, CreateFails, Ignored, Taken, InputDone, TickNothing,
                  SaveNothing, MuteNothing, WallRests, Event
    <3> QED
      BY <2>1, <3>1
  <2> QED
    BY <2>2, <2>3, <2>4
<1>6. TypeOK'
  BY <1>1, <1>2, <1>3, <1>4, <1>5 DEF IInv, TypeOK
<1> QED
  BY <1>1, <1>2, <1>3, <1>6
     DEF IInv, NothingLeftBehind, LoopOnScreen, FocusOnItem, ZeroIsStored, PressesCounted

\* A step on the screen of the selected source.
LEMMA OnInfo ==
  ASSUME IInv, ui.active = "Info",
         ui' \in Managers, ui'.active = ui.active, ui'.root = ui.root,
         at' \in {"input", "mute", "hold", "wall"},
         queue' \in Seq(Events), Len(queue') <= QueueSize,
         cfg' \in Configs, info' \in Infos, presses' \in 0 .. 2,
         ZeroIsStored', PressesCounted',
         UNCHANGED <<wall, menu, submit, mute, ble>>
  PROVE  IInv'
<1>1. TypeOK'
  BY DEF IInv, TypeOK
<1> QED
  BY <1>1 DEF IInv, NothingLeftBehind, LoopOnScreen, FocusOnItem

LEMMA InfoTurnStep ==
  ASSUME IInv, InfoTurn
  PROVE  IInv'
<1>1. PICK e \in {"Up", "Down"} :
        /\ at = "input" /\ queue # <<>> /\ ui.active = "Info"
        /\ LET v == Turned(info.vol, e) IN
             info' = IF v = info.vol THEN info
                     ELSE [info EXCEPT !.vol = v, !.dirty = TRUE, !.pending = (v = 0),
                                       !.ready = FALSE]
  BY DEF InfoTurn, Given
<1>2. Taken /\ UNCHANGED <<ui, at, cfg, menu, submit, mute, ble, presses>>
  BY DEF InfoTurn
<1>3. TypeOK /\ info \in Infos
  BY DEF IInv, TypeOK
<1>4. info' \in Infos
  BY <1>3, InfoTypes DEF InfoSteps
<1>5. /\ info'.src = info.src /\ info'.pressed = info.pressed /\ info'.count = info.count
      /\ info' = info \/ (info'.dirty /\ ~ info'.ready /\ (info'.pending => info'.vol = 0))
  <2> DEFINE v == Turned(info.vol, e)
  <2>1. info' = IF v = info.vol THEN info
                ELSE [info EXCEPT !.vol = v, !.dirty = TRUE, !.pending = (v = 0),
                                  !.ready = FALSE]
    BY <1>1
  <2> HIDE DEF v
  <2> QED
    BY <1>3, <2>1 DEF Infos
<1>6. ZeroIsStored'
  BY <1>2, <1>5 DEF IInv, ZeroIsStored
<1>7. PressesCounted'
  BY <1>2, <1>5 DEF IInv, PressesCounted
<1>8. queue' \in Seq(Events) /\ Len(queue') <= QueueSize /\ UNCHANGED wall
  BY <1>1, <1>2, <1>3, TakenType DEF Taken
<1> QED
  BY <1>1, <1>2, <1>3, <1>4, <1>6, <1>7, <1>8, OnInfo DEF TypeOK

LEMMA InfoPressStep ==
  ASSUME IInv, InfoPress
  PROVE  IInv'
<1>1. /\ at = "input" /\ queue # <<>> /\ ui.active = "Info"
      /\ info' = IF info.pressed THEN info ELSE [info EXCEPT !.pressed = TRUE, !.long = FALSE]
      /\ presses' = IF presses < 2 THEN presses + 1 ELSE presses
      /\ Taken /\ UNCHANGED <<ui, at, cfg, menu, submit, mute, ble>>
  BY DEF InfoPress, Given
<1>2. TypeOK /\ info \in Infos /\ presses \in 0 .. 2
  BY DEF IInv, TypeOK
<1>3. info' \in Infos
  BY <1>2, InfoTypes DEF InfoSteps
<1>4. /\ info'.src = info.src /\ info'.vol = info.vol /\ info'.dirty = info.dirty
      /\ info'.pending = info.pending /\ info'.ready = info.ready
      /\ info'.count = info.count /\ info.count \in 0 .. 1
  BY <1>1, <1>2 DEF Infos
<1>5. ZeroIsStored'
  BY <1>1, <1>4 DEF IInv, ZeroIsStored
<1>6. info.pressed \in BOOLEAN
  BY <1>2, InfoFields
<1>7. PressesCounted'
  BY <1>1, <1>2, <1>4, <1>6 DEF IInv, PressesCounted
<1>8. queue' \in Seq(Events) /\ Len(queue') <= QueueSize /\ UNCHANGED wall
  BY <1>1, <1>2, TakenType DEF Taken
<1> QED
  BY <1>1, <1>2, <1>3, <1>5, <1>7, <1>8, OnInfo DEF TypeOK

LEMMA InfoReleaseStep ==
  ASSUME IInv, InfoReleaseOther \/ InfoReleaseFirst \/ InfoReleaseSecond
  PROVE  IInv'
<1>1. /\ at = "input" /\ queue # <<>> /\ ui.active = "Info"
      /\ Taken /\ UNCHANGED <<at, cfg, menu, submit, mute, ble, presses>>
  BY DEF InfoReleaseOther, InfoReleaseFirst, InfoReleaseSecond, Given
<1>2. TypeOK /\ info \in Infos /\ ui \in Managers /\ presses \in 0 .. 2
  BY DEF IInv, TypeOK
<1>3. \/ info' = Counted(0)
      \/ info' = Counted(1) /\ info.pressed
      \/ info' = Uncounted
  BY DEF InfoReleaseOther, InfoReleaseFirst, InfoReleaseSecond, ReleasesShort
<1>4. /\ info' \in Infos /\ info'.pressed = FALSE
      /\ info'.count = 0 \/ info'.count = info.count \/ (info'.count = 1 /\ info.pressed)
      /\ info'.src = info.src /\ info'.vol = info.vol /\ info'.dirty = info.dirty
      /\ info'.pending = info.pending /\ info'.ready = info.ready
  <2>1. CASE info' = Counted(0)
    <3>1. 0 \in 0 .. 1
      OBVIOUS
    <3> QED
      BY <1>2, <2>1, <3>1, Released
  <2>2. CASE info' = Counted(1) /\ info.pressed
    <3>1. 1 \in 0 .. 1
      OBVIOUS
    <3> QED
      BY <1>2, <2>2, <3>1, Released
  <2>3. CASE info' = Uncounted
    <3>1. 0 \in 0 .. 1
      OBVIOUS
    <3> QED
      BY <1>2, <2>3, <3>1, Released
  <2> QED
    BY <1>3, <2>1, <2>2, <2>3
<1>5. info.count \in 0 .. 1 /\ info.pressed \in BOOLEAN
  BY <1>2, InfoFields
<1>6. ui' \in Managers /\ ui'.active = ui.active /\ ui'.root = ui.root
  BY <1>2, RequestOnly DEF InfoReleaseOther, InfoReleaseFirst, InfoReleaseSecond, Screens
<1>7. ZeroIsStored'
  BY <1>1, <1>4, <1>6 DEF IInv, ZeroIsStored
<1>8. PressesCounted'
  BY <1>1, <1>2, <1>4, <1>5, <1>6 DEF IInv, PressesCounted
<1>9. queue' \in Seq(Events) /\ Len(queue') <= QueueSize /\ UNCHANGED wall
  BY <1>1, <1>2, TakenType DEF Taken
<1> QED
  BY <1>1, <1>2, <1>4, <1>6, <1>7, <1>8, <1>9, OnInfo DEF TypeOK

LEMMA SaveVolumeStep ==
  ASSUME IInv, SaveVolume
  PROVE  IInv'
<1>1. /\ ui.active = "Info" /\ cfg' = Stored /\ info' = [info EXCEPT !.dirty = FALSE]
      /\ at' = "mute" /\ UNCHANGED <<ui, queue, wall, menu, submit, mute, ble, presses>>
  BY DEF SaveVolume, Goto
<1>2. TypeOK /\ info \in Infos /\ cfg \in Configs
  BY DEF IInv, TypeOK
<1>3. cfg' \in Configs /\ cfg'.vol[info.src] = info.vol
  BY <1>1, <1>2, StoredOnly
<1>4. info' \in Infos /\ info'.dirty = FALSE
      /\ info'.src = info.src /\ info'.vol = info.vol /\ info'.pending = info.pending
      /\ info'.pressed = info.pressed /\ info'.count = info.count
  BY <1>1, <1>2 DEF Infos
<1>5. ZeroIsStored' /\ PressesCounted'
  BY <1>1, <1>3, <1>4 DEF IInv, ZeroIsStored, PressesCounted
<1> QED
  BY <1>1, <1>2, <1>3, <1>4, <1>5, OnInfo DEF TypeOK

LEMMA MuteSourceStep ==
  ASSUME IInv, MuteSource \/ MuteFails
  PROVE  IInv'
<1>1. /\ at = "mute" /\ MayMute /\ info' = [info EXCEPT !.ready = TRUE]
      /\ at' \in {"wall", "hold"}
      /\ UNCHANGED <<queue, wall, menu, submit, mute, ble, presses>>
  BY DEF MuteSource, MuteFails, Goto
<1>2. /\ TypeOK /\ info \in Infos /\ cfg \in Configs /\ ui \in Managers
      /\ ui.active = "Info"
  BY <1>1 DEF IInv, TypeOK, LoopOnScreen
<1>3. info' \in Infos
      /\ info'.src = info.src /\ info'.vol = info.vol /\ info'.pending = info.pending
      /\ info'.pressed = info.pressed /\ info'.count = info.count
  BY <1>1, <1>2 DEF Infos
<1>4. cfg' \in Configs /\ cfg'.vol = cfg.vol
  <2>1. CASE MuteSource
    <3>1. cfg' = [cfg EXCEPT !.mute[info.src] = TRUE] /\ info.src \in Sources
      BY <1>2, <2>1, InfoFields DEF MuteSource
    <3> QED
      BY <1>2, <3>1, MutedOnly
  <2>2. CASE MuteFails
    BY <1>2, <2>2 DEF MuteFails
  <2> QED
    BY <2>1, <2>2
<1>5. ui' \in Managers /\ ui'.active = ui.active /\ ui'.root = ui.root
  BY <1>2, RequestOnly DEF MuteSource, MuteFails, Screens
<1>6. ZeroIsStored'
  BY <1>1, <1>2, <1>3, <1>4, <1>5 DEF IInv, ZeroIsStored, MayMute
<1>7. PressesCounted'
  BY <1>1, <1>3, <1>5 DEF IInv, PressesCounted
<1> QED
  BY <1>1, <1>2, <1>3, <1>4, <1>5, <1>6, <1>7, OnInfo DEF TypeOK

LEMMA HoldStep ==
  ASSUME IInv, Hold
  PROVE  IInv'
<1>1. /\ at = "hold" /\ at' = "wall"
      /\ UNCHANGED <<ui, queue, wall, cfg, menu, submit, mute, ble, presses>>
      /\ \/ info' = info
         \/ info' = [info EXCEPT !.long = TRUE, !.count = 0]
         \/ info' = [info EXCEPT !.count = 0]
  BY DEF Hold, Goto
<1>2. /\ TypeOK /\ info \in Infos /\ ui \in Managers
      /\ ui.active = "Info"
  BY <1>1 DEF IInv, TypeOK, LoopOnScreen
<1>3. /\ info' \in Infos
      /\ info'.src = info.src /\ info'.vol = info.vol /\ info'.pending = info.pending
      /\ info'.dirty = info.dirty /\ info'.ready = info.ready
      /\ info'.pressed = info.pressed /\ info'.count \in {0, info.count}
  <2>1. CASE info' = info
    BY <1>2, <2>1
  <2>2. CASE info' = [info EXCEPT !.long = TRUE, !.count = 0]
    <3>1. 0 \in 0 .. 1
      OBVIOUS
    <3>2. info' \in Infos
      BY <1>2, <2>2, <3>1 DEF Infos
    <3>3. info'.count = 0
      BY <1>2, <2>2 DEF Infos
    <3> QED
      BY <1>2, <2>2, <3>2, <3>3 DEF Infos
  <2>3. CASE info' = [info EXCEPT !.count = 0]
    BY <1>2, <2>3 DEF Infos
  <2> QED
    BY <1>1, <2>1, <2>2, <2>3
<1>4. ZeroIsStored'
  BY <1>1, <1>3 DEF IInv, ZeroIsStored
<1>5. info.count \in 0 .. 1
  BY <1>2, InfoFields
<1>6. PressesCounted'
  BY <1>1, <1>2, <1>3, <1>5 DEF IInv, PressesCounted, TypeOK
<1> QED
  BY <1>1, <1>2, <1>3, <1>4, <1>6, OnInfo DEF TypeOK

\* A step of another screen: what it does to menu, work, mute screen and Bluetooth belongs to
\* the active screen, and of the sources it touches at most the selected one and mute states.
LEMMA OnOther ==
  ASSUME IInv,
         ui' \in Managers, ui'.active = ui.active, ui'.root = ui.root,
         at' = at \/ at' \in {"activate", "input", "tick", "wall"}
           \/ (at' = "commit" /\ ui.active = "Select" /\ menu.focus \in 1 .. NumSources
               /\ menu' = menu),
         at' = "commit" => menu'.focus = menu.focus,
         queue' \in Seq(Events), Len(queue') <= QueueSize, wall' \in Walls,
         cfg' \in Configs, cfg'.vol = cfg.vol,
         menu' \in Menus,
         menu' = menu \/ ui.active \notin {"MainMenu", "BtMenu"} \/ menu'.focus \in 0 .. 2,
         submit' \in BOOLEAN,
         submit' => ui.active = "Select" /\ menu'.committed \in 1 .. NumSources,
         mute' \in Mutes, mute' # BlankMute => ui.active = "Mute",
         ble' \in Bluetooth, ble'.anim => ui.active = "BtControl",
         UNCHANGED <<info, presses>>
  PROVE  IInv'
<1>1. TypeOK'
  BY DEF IInv, TypeOK
<1>2. NothingLeftBehind'
  BY DEF IInv, NothingLeftBehind
<1>3. LoopOnScreen'
  BY DEF IInv, LoopOnScreen
<1>4. FocusOnItem'
  BY DEF IInv, FocusOnItem
<1>5. ZeroIsStored' /\ PressesCounted'
  BY DEF IInv, ZeroIsStored, PressesCounted
<1> QED
  BY <1>1, <1>2, <1>3, <1>4, <1>5 DEF IInv

LEMMA MenuTurnStep ==
  ASSUME IInv, MenuTurn
  PROVE  IInv'
<1>1. /\ ui.active \in {"Select", "MainMenu", "BtMenu"} /\ at = "input" /\ queue # <<>>
      /\ Taken /\ UNCHANGED <<ui, at, cfg, info, submit, mute, ble, presses>>
  BY DEF MenuTurn, Given
<1>2. /\ TypeOK /\ NothingLeftBehind /\ ui \in Managers /\ menu \in Menus /\ cfg \in Configs
      /\ submit \in BOOLEAN /\ mute \in Mutes /\ ble \in Bluetooth
  BY DEF IInv, TypeOK
<1>3. /\ menu' \in Menus /\ menu'.committed = menu.committed
      /\ menu'.focus = menu.focus \/ menu'.focus \in 0 .. LastItem
  BY <1>1, <1>2, MenuTurnFocus
<1>4. ui.active \in {"MainMenu", "BtMenu"} => menu'.focus \in 0 .. 2
  BY <1>3 DEF IInv, FocusOnItem, LastItem
<1>5. queue' \in Seq(Events) /\ Len(queue') <= QueueSize /\ wall' \in Walls
  BY <1>1, <1>2, TakenType
<1> QED
  BY <1>1, <1>2, <1>3, <1>4, <1>5, OnOther DEF NothingLeftBehind

LEMMA SelectSourceStep ==
  ASSUME IInv, SelectSource
  PROVE  IInv'
<1>1. /\ at = "input" /\ queue # <<>> /\ ui.active = "Select" /\ menu.focus \in 1 .. NumSources
      /\ (at' = "commit" \/ at' = at)
      /\ Selected(menu.focus - 1) \/ SelectFails
      /\ Taken /\ UNCHANGED <<ui, info, menu, submit, mute, ble, presses>>
  BY DEF SelectSource, Given, Goto
<1>2. /\ TypeOK /\ NothingLeftBehind /\ ui \in Managers /\ menu \in Menus /\ cfg \in Configs
      /\ submit \in BOOLEAN /\ mute \in Mutes /\ ble \in Bluetooth
  BY DEF IInv, TypeOK
<1>3. menu.focus - 1 \in Sources
  BY <1>1, ScreensConstantsAssumption DEF Sources
<1>4. cfg' \in Configs /\ cfg'.vol = cfg.vol
  BY <1>1, <1>2, <1>3, SelectedOnly DEF Selected, SelectFails
<1>5. queue' \in Seq(Events) /\ Len(queue') <= QueueSize /\ wall' \in Walls
  BY <1>1, <1>2, TakenType
<1> QED
  BY <1>1, <1>2, <1>4, <1>5, OnOther DEF NothingLeftBehind

LEMMA CommitStep ==
  ASSUME IInv, Commit
  PROVE  IInv'
<1>1. /\ at = "commit" /\ at' = "input" /\ submit' = TRUE
      /\ menu' = [menu EXCEPT !.committed = menu.focus]
      /\ UNCHANGED <<ui, queue, wall, cfg, info, mute, ble, presses>>
  BY DEF Commit, Goto
<1>2. /\ TypeOK /\ NothingLeftBehind /\ ui \in Managers /\ menu \in Menus /\ cfg \in Configs
      /\ queue \in Seq(Events) /\ Len(queue) <= QueueSize /\ wall \in Walls
      /\ mute \in Mutes /\ ble \in Bluetooth
  BY DEF IInv, TypeOK
<1>3. ui.active = "Select" /\ menu.focus \in 1 .. NumSources
  BY <1>1 DEF IInv, LoopOnScreen
<1>4. menu' \in Menus /\ menu'.focus = menu.focus /\ menu'.committed = menu.focus
  BY <1>1, <1>2, <1>3, ScreensConstantsAssumption DEF Menus
<1> QED
  BY <1>1, <1>2, <1>3, <1>4, OnOther DEF NothingLeftBehind

\* A press in a menu leads to another screen.
LEMMA MenuPressStep ==
  ASSUME IInv, SelectLeave \/ MainMenuPress \/ BtMenuPress \/ BtControlPress
  PROVE  IInv'
<1>1. /\ at = "input" /\ queue # <<>>
      /\ Taken /\ UNCHANGED <<at, cfg, info, menu, mute, presses>>
  BY DEF SelectLeave, MainMenuPress, BtMenuPress, BtControlPress, Given
<1>2. /\ TypeOK /\ NothingLeftBehind /\ ui \in Managers /\ menu \in Menus /\ cfg \in Configs
      /\ submit \in BOOLEAN /\ mute \in Mutes /\ ble \in Bluetooth
  BY DEF IInv, TypeOK
<1>3. ui' \in Managers /\ ui'.active = ui.active /\ ui'.root = ui.root
  <2>1. CASE SelectLeave
    BY <1>2, <2>1, RequestOnly DEF SelectLeave, Screens
  <2>2. CASE MainMenuPress
    <3>1. menu.focus \in 0 .. 2
      BY <2>2 DEF MainMenuPress, IInv, FocusOnItem
    <3>2. menu.focus + 1 \in {1, 2, 3}
      BY <3>1
    <3>3. <<"Select", "BtMenu", "MainMenu">>[menu.focus + 1] \in Screens
      BY <3>2 DEF Screens
    <3> QED
      BY <1>2, <2>2, <3>3, RequestOnly DEF MainMenuPress
  <2>3. CASE BtMenuPress
    BY <1>2, <2>3, RequestOnly DEF BtMenuPress, Screens
  <2>4. CASE BtControlPress
    BY <1>2, <2>4, RequestOnly DEF BtControlPress, Screens
  <2> QED
    BY <2>1, <2>2, <2>3, <2>4
<1>4. ble' \in Bluetooth /\ (ble'.anim => ble.anim)
  <2>1. CASE SelectLeave \/ MainMenuPress
    BY <1>2, <2>1 DEF SelectLeave, MainMenuPress
  <2>2. CASE BtMenuPress
    <3>1. PICK st \in {"Disconnect", "Pairing"} : ble' = ble \/ ble' = [ble EXCEPT !.state = st]
      BY <2>2 DEF BtMenuPress
    <3> QED
      BY <1>2, <3>1 DEF Bluetooth
  <2>3. CASE BtControlPress
    <3>1. ble' = [ble EXCEPT !.anim = @ /\ ui.next # None]
      BY <2>3 DEF BtControlPress
    <3>2. ble' = ble \/ ble' = [ble EXCEPT !.anim = FALSE]
      BY <1>2, <3>1 DEF Bluetooth
    <3> QED
      BY <1>2, <3>2 DEF Bluetooth
  <2> QED
    BY <2>1, <2>2, <2>3
<1>5. submit' \in BOOLEAN /\ (submit' => submit)
  <2>1. submit' = FALSE \/ submit' = submit
    BY DEF SelectLeave, MainMenuPress, BtMenuPress, BtControlPress
  <2>2. submit = TRUE \/ submit = FALSE
    BY <1>2
  <2>3. submit' = TRUE \/ submit' = FALSE
    BY <2>1, <2>2
  <2>4. CASE submit' = FALSE
    BY <2>4
  <2>5. CASE submit' = TRUE
    BY <2>1, <2>5
  <2> QED
    BY <2>3, <2>4, <2>5
<1>6. queue' \in Seq(Events) /\ Len(queue') <= QueueSize /\ wall' \in Walls
  BY <1>1, <1>2, TakenType
<1> QED
  BY <1>1, <1>2, <1>3, <1>4, <1>5, <1>6, OnOther DEF NothingLeftBehind

\* The mute screen, its press, its run and its work: of the sources they touch mute states only.
MuteSteps == MutePress \/ RunMute \/ MuteWork \/ Unmuted \/ UnmuteFails

LEMMA UnmuteOnly ==
  ASSUME cfg \in Configs, mute \in Mutes, mute.src # None
  PROVE  /\ Unmute \in Configs /\ Unmute.vol = cfg.vol
         /\ \A s \in Sources : Unmute.mute[s] => cfg.mute[s]
<1>1. mute.src \in Sources
  BY MuteFields
<1>2. FALSE \in BOOLEAN
  OBVIOUS
<1> DEFINE new == [cfg EXCEPT !.mute[mute.src] = FALSE]
<1>3. /\ new \in Configs /\ new.vol = cfg.vol
      /\ new.mute[mute.src] = FALSE
      /\ \A r \in Sources \ {mute.src} : new.mute[r] = cfg.mute[r]
  BY <1>1, <1>2, MutedOnly
<1>4. Unmute = new
  BY DEF Unmute
<1> HIDE DEF new
<1> QED
  BY <1>1, <1>3, <1>4

\* What those steps make of the context of the mute screen.
LEMMA MuteTypes ==
  ASSUME mute \in Mutes, MuteSteps
  PROVE  mute' \in Mutes
<1>1. CASE MutePress
  <2>1. \/ mute' = mute
        \/ mute' = [mute EXCEPT !.busy = TRUE, !.done = FALSE, !.work = "due"]
        \/ mute' = [mute EXCEPT !.busy = TRUE, !.done = FALSE]
    BY <1>1 DEF MutePress, Mutes
  <2> QED
    BY <2>1 DEF Mutes
<1>2. CASE RunMute
  <2>1. \/ mute' = mute
        \/ mute' = [mute EXCEPT !.busy = FALSE, !.done = FALSE]
        \/ mute' = [mute EXCEPT !.done = FALSE, !.work = "due"]
        \/ mute' = [mute EXCEPT !.done = FALSE]
    BY <1>2 DEF RunMute, Mutes
  <2> QED
    BY <2>1 DEF Mutes
<1>3. CASE MuteWork
  <2>1. mute' = [mute EXCEPT !.work = "running"] \/ mute' = [mute EXCEPT !.work = "none"]
    BY <1>3 DEF MuteWork
  <2> QED
    BY <2>1 DEF Mutes
<1>4. CASE Unmuted
  BY <1>4 DEF Unmuted, Mutes
<1>5. CASE UnmuteFails
  BY <1>5 DEF UnmuteFails, Mutes
<1> QED
  BY <1>1, <1>2, <1>3, <1>4, <1>5 DEF MuteSteps

LEMMA MuteStep ==
  ASSUME IInv, MuteSteps
  PROVE  IInv'
<1>1. /\ TypeOK /\ NothingLeftBehind /\ ui \in Managers /\ menu \in Menus /\ cfg \in Configs
      /\ queue \in Seq(Events) /\ Len(queue) <= QueueSize /\ wall \in Walls
      /\ submit \in BOOLEAN /\ mute \in Mutes /\ ble \in Bluetooth
  BY DEF IInv, TypeOK
<1>2. UNCHANGED <<info, menu, submit, ble, presses>> /\ (at' = at \/ at' = "wall")
  BY DEF MuteSteps, MutePress, RunMute, MuteWork, Unmuted, UnmuteFails, Goto
<1>3. mute' \in Mutes
  BY <1>1, MuteTypes
<1>4. ui.active = "Mute"
  <2>1. mute.work # "none" => ui.active = "Mute"
    BY <1>1, Blank DEF NothingLeftBehind
  <2> QED
    BY <2>1 DEF MuteSteps, MutePress, RunMute, MuteWork, Unmuted, UnmuteFails
<1>5. ui' \in Managers /\ ui'.active = ui.active /\ ui'.root = ui.root
  <2>1. ui' = ui \/ Request("Info")
    BY DEF MuteSteps, MutePress, RunMute, MuteWork, Unmuted, UnmuteFails
  <2>2. "Info" \in Screens
    BY DEF Screens
  <2> QED
    BY <1>1, <2>1, <2>2, RequestOnly
<1>6. cfg' \in Configs /\ cfg'.vol = cfg.vol
  <2>1. cfg' = cfg \/ (mute.src # None /\ cfg' = Unmute)
    BY DEF MuteSteps, MutePress, RunMute, MuteWork, Unmuted, UnmuteFails
  <2> QED
    BY <1>1, <2>1, UnmuteOnly
<1>7. queue' \in Seq(Events) /\ Len(queue') <= QueueSize /\ wall' \in Walls
  <2>1. CASE MutePress
    BY <1>1, <2>1, TakenType DEF MutePress, Given
  <2>2. CASE ~ MutePress
    <3>1. UNCHANGED <<queue, wall>>
      BY <2>2 DEF MuteSteps, RunMute, MuteWork, Unmuted, UnmuteFails
    <3> QED
      BY <1>1, <3>1
  <2> QED
    BY <2>1, <2>2
<1> QED
  BY <1>1, <1>2, <1>3, <1>4, <1>5, <1>6, <1>7, OnOther DEF NothingLeftBehind

LEMMA SubmitStep ==
  ASSUME IInv, Submit
  PROVE  IInv'
<1>1. /\ TypeOK /\ NothingLeftBehind /\ ui \in Managers /\ menu \in Menus /\ cfg \in Configs
      /\ queue \in Seq(Events) /\ Len(queue) <= QueueSize /\ wall \in Walls
      /\ mute \in Mutes /\ ble \in Bluetooth
  BY DEF IInv, TypeOK
<1>2. /\ submit = TRUE /\ submit' = (ui.next # None)
      /\ UNCHANGED <<at, queue, wall, cfg, info, menu, mute, ble, presses>>
  BY <1>1 DEF Submit, IInv, TypeOK
<1>3. ui.active = "Select" /\ menu.committed \in 1 .. NumSources
  BY <1>1, <1>2 DEF NothingLeftBehind
<1>4. ui' \in Managers /\ ui'.active = ui.active /\ ui'.root = ui.root
  <2>1. PICK s \in Screens : Request(s)
    BY ScreenOfType DEF Submit
  <2> QED
    BY <1>1, <2>1, RequestOnly
<1>5. submit' \in BOOLEAN
  BY <1>2
<1> QED
  BY <1>1, <1>2, <1>3, <1>4, <1>5, OnOther DEF NothingLeftBehind

LEMMA LoadScreenStep ==
  ASSUME IInv, LoadScreen
  PROVE  IInv'
<1>1. /\ TypeOK /\ NothingLeftBehind /\ ui \in Managers /\ menu \in Menus /\ cfg \in Configs
      /\ queue \in Seq(Events) /\ Len(queue) <= QueueSize /\ wall \in Walls
      /\ submit \in BOOLEAN /\ mute \in Mutes /\ ble \in Bluetooth
  BY DEF IInv, TypeOK
<1>2. /\ at' = "activate" /\ wall' = [wall EXCEPT !.state = "Active"]
      /\ UNCHANGED <<queue, info, menu, submit, mute, ble, presses>>
  BY DEF LoadScreen, Goto
<1>3. wall' \in Walls
  BY <1>1, <1>2 DEF Walls
<1>4. ui' \in Managers /\ ui'.active = ui.active /\ ui'.root = ui.root
  <2>1. ui' = ui \/ \E s \in Screens : Request(s)
    BY ScreenOfType DEF LoadScreen
  <2> QED
    BY <1>1, <2>1, RequestOnly
<1>5. cfg' \in Configs /\ cfg'.vol = cfg.vol
  <2>1. cfg' = cfg \/ cfg' = [cfg EXCEPT !.sel = 0]
    BY DEF LoadScreen, Selected
  <2>2. 0 \in Sources \cup {None}
    BY ScreensConstantsAssumption DEF Sources
  <2> QED
    BY <1>1, <2>1, <2>2, SelectedOnly
<1> QED
  BY <1>1, <1>2, <1>3, <1>4, <1>5, OnOther DEF NothingLeftBehind

-----------------------------------------------------------------------------
(* A switch of screens. *)

\* The screens that have objects: the new one alone.
LEMMA SwitchManager ==
  ASSUME IInv, Switch
  PROVE  /\ ui' \in Managers /\ ui'.active \in Screens /\ ui'.active = ui.next
         /\ ui'.active # ui.active
         /\ ui'.root = {ui'.active} \ {None}
<1>1. /\ ui.next \notin {None, ui.active}
      /\ ui' = [active |-> ui.next, next |-> None, root |-> (ui.root \cup {ui.next}) \ {ui.active}]
  BY DEF Switch
<1>2. ui \in Managers /\ ui.root = {ui.active} \ {None}
  BY DEF IInv, TypeOK, NothingLeftBehind
<1>3. ui.next \in Screens /\ ui.active \in Screens \cup {None}
  BY <1>1, <1>2 DEF Managers
<1>4. (ui.root \cup {ui.next}) \ {ui.active} = {ui.next}
  BY <1>1, <1>2
<1>5. ui' = [active |-> ui.next, next |-> None, root |-> {ui.next}]
  BY <1>1, <1>4
<1> QED
  BY <1>1, <1>3, <1>5 DEF Managers

\* What the exit of a screen stores.
LEMMA ExitConfig ==
  ASSUME cfg \in Configs, info \in Infos, mute \in Mutes, ExitStores
  PROVE  /\ cfg' \in Configs
         /\ ui.active = "Info" \/ cfg'.vol = cfg.vol
         /\ \A s \in Sources : cfg'.mute[s] => cfg.mute[s]
BY StoredOnly, UnmuteOnly DEF ExitStores

\* The context of the screen of the selected source, when it is entered.
LEMMA EnteredInfo ==
  ASSUME cfg \in Configs, EnterInfo
  PROVE  /\ info' \in Infos /\ info'.pressed = FALSE /\ info'.count = 0
         /\ info'.pending => info'.vol = 0 /\ cfg.vol[info'.src] = 0
<1>1. CASE info' = BlankInfo
  BY <1>1, Blank
<1>2. CASE Found /\ info' = [BlankInfo EXCEPT !.src = cfg.sel, !.vol = cfg.vol[cfg.sel],
                                              !.pending = (cfg.vol[cfg.sel] = 0)]
  <2> DEFINE v == cfg.vol[cfg.sel]
             p == (v = 0)
  <2>1. cfg.sel \in Sources /\ v \in 0 .. MaxVolume /\ p \in BOOLEAN
    BY <1>2, CfgFields DEF Found
  <2>2. p => v = 0
    OBVIOUS
  <2>3. info' = [BlankInfo EXCEPT !.src = cfg.sel, !.vol = v, !.pending = p]
    BY <1>2
  <2> HIDE DEF p
  <2>4. p => cfg.vol[cfg.sel] = 0
    BY <2>2
  <2> HIDE DEF v
  <2>5. /\ info' \in Infos /\ info'.pressed = FALSE /\ info'.count = 0
        /\ info'.src = cfg.sel /\ info'.vol = v /\ info'.pending = p
    BY <2>1, <2>3, Blank DEF Infos
  <2> QED
    BY <2>2, <2>4, <2>5
<1> QED
  BY <1>1, <1>2 DEF EnterInfo

LEMMA SwitchMenu ==
  ASSUME IInv, Switch
  PROVE  /\ menu' \in Menus
         /\ ui.next \in {"MainMenu", "BtMenu"} => menu'.focus \in 0 .. 2
<1>1. cfg \in Configs
  BY DEF IInv, TypeOK
<1>2. CASE ui.next = "Select"
  <2>1. CASE menu' = BlankMenu
    BY <1>2, <2>1, Blank
  <2>2. CASE Found /\ menu' = [focus |-> cfg.sel + 1, committed |-> cfg.sel + 1]
    <3>1. cfg.sel \in Sources
      BY <1>1, <2>2, CfgFields DEF Found
    <3>2. cfg.sel + 1 \in 0 .. NumSources /\ cfg.sel + 1 \in 0 .. NumSources + 1
      BY <3>1, ScreensConstantsAssumption DEF Sources
    <3> QED
      BY <1>2, <2>2, <3>2 DEF Menus
  <2> QED
    BY <1>2, <2>1, <2>2 DEF Switch, EnterSelect
<1>3. CASE ui.next # "Select"
  <2>1. PICK f \in {0, 1} : menu' = [BlankMenu EXCEPT !.focus = f]
    BY <1>3 DEF Switch
  <2>2. f \in 0 .. 2 /\ f \in 0 .. NumSources + 1
    BY <2>1, ScreensConstantsAssumption
  <2> QED
    BY <2>1, <2>2, Blank DEF Menus
<1> QED
  BY <1>2, <1>3

LEMMA SwitchMute ==
  ASSUME IInv, Switch
  PROVE  mute' \in Mutes /\ (mute' # BlankMute => ui.next = "Mute")
<1>1. cfg \in Configs /\ mute \in Mutes /\ (mute # BlankMute => ui.active = "Mute")
  BY DEF IInv, TypeOK, NothingLeftBehind
<1>2. CASE ui.next = "Mute"
  <2>1. CASE mute' = BlankMute
    BY <1>2, <2>1, Blank
  <2>2. CASE Found /\ mute' = [BlankMute EXCEPT !.src = cfg.sel]
    <3>1. cfg.sel \in Sources \cup {None}
      BY <1>1, CfgFields
    <3> QED
      BY <1>2, <2>2, <3>1, Blank DEF Mutes
  <2> QED
    BY <1>2, <2>1, <2>2 DEF Switch, EnterMute
<1>3. CASE ui.next # "Mute"
  <2>1. mute' = BlankMute
    BY <1>1, <1>3 DEF Switch, ExitMute
  <2> QED
    BY <2>1, Blank
<1> QED
  BY <1>2, <1>3

LEMMA SwitchAnimation ==
  ASSUME IInv, Switch
  PROVE  ble' \in Bluetooth /\ (ble'.anim => ui.next = "BtControl")
<1>1. ble \in Bluetooth /\ (ble.anim => ui.active = "BtControl")
  BY DEF IInv, TypeOK, NothingLeftBehind
<1>2. ble' = [ble EXCEPT !.anim = IF ui.next = "BtControl" THEN ble.state = "Pairing"
                                  ELSE ble.anim /\ ui.active # "BtControl"]
  BY DEF Switch, Animated
<1> DEFINE a == IF ui.next = "BtControl" THEN ble.state = "Pairing"
                ELSE ble.anim /\ ui.active # "BtControl"
<1>3. a \in BOOLEAN
  BY <1>1 DEF Bluetooth
<1>4. a => ui.next = "BtControl"
  BY <1>1
<1>5. ble' = [ble EXCEPT !.anim = a]
  BY <1>2
<1> HIDE DEF a
<1>6. ble' \in Bluetooth /\ ble'.anim = a
  BY <1>1, <1>3, <1>5 DEF Bluetooth
<1> QED
  BY <1>4, <1>6

LEMMA SwitchStep ==
  ASSUME IInv, Switch
  PROVE  IInv'
<1>1. /\ TypeOK /\ cfg \in Configs /\ info \in Infos /\ mute \in Mutes /\ submit \in BOOLEAN
      /\ queue \in Seq(Events) /\ Len(queue) <= QueueSize /\ wall \in Walls
  BY DEF IInv, TypeOK
<1>2. /\ ui.next \notin {None, ui.active}
      /\ at' = "input" /\ presses' = 0 /\ UNCHANGED <<queue, wall>>
      /\ ExitStores /\ ExitSelect
      /\ IF ui.next = "Info" THEN EnterInfo ELSE info' = BlankInfo
  BY DEF Switch, Goto
<1>3. /\ ui' \in Managers /\ ui'.active \in Screens /\ ui'.active = ui.next
      /\ ui'.active # ui.active
      /\ ui'.root = {ui'.active} \ {None}
  BY SwitchManager
<1>4. /\ cfg' \in Configs
      /\ ui.active = "Info" \/ cfg'.vol = cfg.vol
  BY <1>1, <1>2, ExitConfig
<1>5. submit' = FALSE
  <2>1. submit => ui.active = "Select"
    BY DEF IInv, NothingLeftBehind
  <2> QED
    BY <1>1, <1>2, <2>1 DEF ExitSelect
<1>6. /\ info' \in Infos /\ info'.pressed = FALSE /\ info'.count = 0
      /\ ui.next = "Info" /\ info'.pending => info'.vol = 0 /\ cfg.vol[info'.src] = 0
  BY <1>1, <1>2, EnteredInfo, Blank
<1>7. menu' \in Menus /\ (ui.next \in {"MainMenu", "BtMenu"} => menu'.focus \in 0 .. 2)
  BY SwitchMenu
<1>8. mute' \in Mutes /\ (mute' # BlankMute => ui.next = "Mute")
  BY SwitchMute
<1>9. ble' \in Bluetooth /\ (ble'.anim => ui.next = "BtControl")
  BY SwitchAnimation
<1>10. TypeOK'
  <2>1. presses' \in 0 .. 2
    BY <1>2
  <2>2. submit' \in BOOLEAN
    BY <1>5
  <2>3. queue' \in Seq(Events) /\ Len(queue') <= QueueSize /\ wall' \in Walls
    BY <1>1, <1>2
  <2> QED
    BY <1>2, <1>3, <1>4, <1>6, <1>7, <1>8, <1>9, <2>1, <2>2, <2>3 DEF TypeOK
<1>11. NothingLeftBehind'
  BY <1>3, <1>5, <1>8, <1>9, Blank DEF NothingLeftBehind, BlankMute
<1>12. LoopOnScreen' /\ FocusOnItem'
  BY <1>2, <1>3, <1>7 DEF LoopOnScreen, FocusOnItem
<1>13. ZeroIsStored'
  BY <1>2, <1>3, <1>4, <1>6 DEF ZeroIsStored
<1>14. PressesCounted'
  BY <1>2, <1>6 DEF PressesCounted
<1> QED
  BY <1>10, <1>11, <1>12, <1>13, <1>14 DEF IInv

-----------------------------------------------------------------------------
(* The invariant. *)

LEMMA InitHolds ==
  ASSUME Init
  PROVE  IInv
<1>1. /\ ui = [active |-> None, next |-> "Welcome", root |-> {}] /\ at = "activate"
      /\ queue = <<>> /\ wall = [state |-> "Idle", cmd |-> FALSE] /\ cfg \in Configs
      /\ info = BlankInfo /\ menu = BlankMenu /\ submit = FALSE /\ mute = BlankMute
      /\ ble = [state |-> "Disconnect", anim |-> FALSE] /\ presses = 0
  BY DEF Init, Configs
<1>2. ui \in Managers /\ wall \in Walls /\ ble \in Bluetooth
  BY <1>1 DEF Managers, Walls, Bluetooth, Screens
<1>3. queue \in Seq(Events) /\ Len(queue) <= QueueSize
  BY <1>1, ScreensConstantsAssumption
<1>4. TypeOK
  <2>1. presses \in 0 .. 2
    BY <1>1
  <2>2. submit \in BOOLEAN
    BY <1>1
  <2>3. info \in Infos /\ menu \in Menus /\ mute \in Mutes
    BY <1>1, Blank
  <2> QED
    BY <1>1, <1>2, <1>3, <2>1, <2>2, <2>3 DEF TypeOK
<1>5. NothingLeftBehind
  BY <1>1 DEF NothingLeftBehind
<1>6. info.pending = FALSE /\ info.pressed = FALSE /\ info.count = 0
  BY <1>1, Blank
<1>7. LoopOnScreen /\ FocusOnItem /\ ZeroIsStored /\ PressesCounted
  BY <1>1, <1>6, Blank, ScreensConstantsAssumption
     DEF LoopOnScreen, FocusOnItem, ZeroIsStored, PressesCounted, BlankMenu
<1> QED
  BY <1>4, <1>5, <1>7 DEF IInv

LEMMA StepHolds == IInv /\ [Next]_uiVars => IInv'
<1> SUFFICES ASSUME IInv, [Next]_uiVars
             PROVE  IInv'
  OBVIOUS
<1>1. CASE UNCHANGED uiVars
  BY <1>1 DEF uiVars, IInv, TypeOK, NothingLeftBehind, LoopOnScreen, FocusOnItem, ZeroIsStored,
              PressesCounted
<1>2. CASE Next
  <2>1. CASE Quiet
    BY <2>1, QuietStep
  <2>2. CASE InfoSteps
    BY <2>2, InfoTurnStep, InfoPressStep, InfoReleaseStep DEF InfoSteps
  <2>3. CASE SaveVolume \/ MuteSource \/ MuteFails \/ Hold
    BY <2>3, SaveVolumeStep, MuteSourceStep, HoldStep
  <2>4. CASE MenuTurn \/ SelectSource \/ Commit
    BY <2>4, MenuTurnStep, SelectSourceStep, CommitStep
  <2>5. CASE SelectLeave \/ MainMenuPress \/ BtMenuPress \/ BtControlPress
    BY <2>5, MenuPressStep
  <2>6. CASE MuteSteps
    BY <2>6, MuteStep
  <2>7. CASE Submit \/ LoadScreen \/ Switch
    BY <2>7, SubmitStep, LoadScreenStep, SwitchStep
  <2> QED
    BY <1>2, <2>1, <2>2, <2>3, <2>4, <2>5, <2>6, <2>7
       DEF Next, MainLoop, Activate, Input, Tick, Wall, Quiet, InfoSteps, MuteSteps
<1> QED
  BY <1>1, <1>2

\* The invariant of the user interface.
THEOREM ScreenInvariant == Spec => []IInv
<1>1. Init => IInv
  BY InitHolds
<1> QED
  BY <1>1, StepHolds, PTL DEF Spec

\* All variables keep their types, and the queue its bound.
THEOREM ScreenTypeCorrect == Spec => []TypeOK
<1>1. IInv => TypeOK
  BY DEF IInv
<1> QED
  BY <1>1, ScreenInvariant, PTL

\* A screen that is left leaves neither objects nor a delayed work, flag or animation behind.
THEOREM NothingIsLeft == Spec => []NothingLeftBehind
<1>1. IInv => NothingLeftBehind
  BY DEF IInv
<1> QED
  BY <1>1, ScreenInvariant, PTL

-----------------------------------------------------------------------------
(* What a step may do to the mute states, and to the request of a screen. *)

\* Only one step mutes a source: that of the screen of the selected source.
LEMMA OnlyMuteSource ==
  ASSUME IInv, Next, ~ MuteSource
  PROVE  \A s \in Sources : cfg'.mute[s] => cfg.mute[s]
<1>1. cfg \in Configs /\ info \in Infos /\ mute \in Mutes
  BY DEF IInv, TypeOK
<1>2. CASE Switch
  BY <1>1, <1>2, ExitConfig DEF Switch
<1>3. CASE SaveVolume
  BY <1>1, <1>3, StoredOnly DEF SaveVolume
<1>4. CASE Unmuted
  BY <1>1, <1>4, UnmuteOnly DEF Unmuted
<1>5. CASE SelectSource \/ LoadScreen
  <2>1. cfg' = cfg \/ \E s : cfg' = [cfg EXCEPT !.sel = s]
    BY <1>5 DEF SelectSource, SelectFails, Selected, LoadScreen
  <2> QED
    BY <1>1, <2>1 DEF Configs
<1>6. CASE ~ (Switch \/ SaveVolume \/ Unmuted \/ SelectSource \/ LoadScreen)
  <2>1. UNCHANGED cfg
    BY <1>6 DEF Next, MainLoop, Activate, Input, Tick, Wall, NoRequest, SameScreen, CreateFails,
         Ignored, InfoTurn, InfoPress, InfoReleaseOther, InfoReleaseFirst, InfoReleaseSecond,
         MenuTurn, SelectLeave, MainMenuPress, BtMenuPress, BtControlPress, MutePress, InputDone,
         TickNothing, SaveNothing, MuteFails, MuteNothing, Hold, RunMute, WallRests, WallMoves,
         Commit, Submit, MuteWork, UnmuteFails, FadeDone, Event
  <2> QED
    BY <2>1
<1> QED
  BY <1>2, <1>3, <1>4, <1>5, <1>6

\* A source is muted only from its own screen and with its volume zero stored.
THEOREM MuteIsSilent == Spec => MutesOnlySilent
<1> DEFINE A == \A s \in Sources :
                  cfg'.mute[s] /\ ~ cfg.mute[s] => ui.active = "Info" /\ info.src = s /\ cfg.vol[s] = 0
<1>1. IInv /\ [Next]_uiVars => [A]_cfg
  <2> SUFFICES ASSUME IInv, Next
               PROVE  A
    BY DEF uiVars
  <2>1. CASE ~ MuteSource
    BY <2>1, OnlyMuteSource
  <2>2. CASE MuteSource
    <3>1. /\ cfg \in Configs /\ info \in Infos /\ ui.active = "Info"
          /\ MayMute /\ cfg' = [cfg EXCEPT !.mute[info.src] = TRUE]
      BY <2>2 DEF MuteSource, IInv, TypeOK, LoopOnScreen
    <3>2. info.src \in Sources /\ TRUE \in BOOLEAN
      BY <3>1, InfoFields
    <3>3. \A s \in Sources \ {info.src} : cfg'.mute[s] = cfg.mute[s]
      BY <3>1, <3>2, MutedOnly
    <3>4. cfg.vol[info.src] = 0
      BY <3>1 DEF IInv, ZeroIsStored, MayMute
    <3> QED
      BY <3>1, <3>3, <3>4
  <2> QED
    BY <2>1, <2>2
<1> QED
  BY <1>1, ScreenInvariant, PTL DEF Spec, MutesOnlySilent

\* From the screen of the source, only its second release asks for the selection.
LEMMA OnlySecondRelease ==
  ASSUME IInv, Next, ui.active = "Info", ui.next # "Select", ui'.next = "Select"
  PROVE  InfoReleaseSecond
<1>1. ui \in Managers /\ (submit => ui.active = "Select")
  BY DEF IInv, TypeOK, NothingLeftBehind
<1>2. ~ UNCHANGED ui
  OBVIOUS
<1>3. ui'.next # None
  BY NoScreenAssumption DEF Screens
<1>4. ~ Switch /\ ~ SameScreen
  BY <1>1, <1>3 DEF Switch, SameScreen, Managers
<1>5. ~ RunMute /\ ~ Submit
  BY <1>1, <1>2 DEF RunMute, Submit
<1>6. ~ MuteSource
  <2>1. "Mute" \in Screens
    BY DEF Screens
  <2> QED
    BY <1>1, <2>1, RequestOnly DEF MuteSource
<1>7. ~ LoadScreen
  <2>1. LoadScreen => ui' = ui \/ Request(ScreenOf(cfg.sel)) \/ Request(ScreenOf(0))
    BY DEF LoadScreen
  <2>2. \A s : ScreenOf(s) \in Screens /\ ScreenOf(s) # "Select"
    BY DEF ScreenOf, Screens
  <2> QED
    BY <1>1, <1>2, <2>1, <2>2, RequestOnly
<1>8. ~ (SelectLeave \/ MainMenuPress \/ BtMenuPress \/ BtControlPress)
  BY DEF SelectLeave, MainMenuPress, BtMenuPress, BtControlPress
<1> QED
  BY <1>2, <1>4, <1>5, <1>6, <1>7, <1>8
     DEF Next, MainLoop, Activate, Input, Tick, Wall, NoRequest, CreateFails, Ignored, InfoTurn,
         InfoPress, InfoReleaseOther, InfoReleaseFirst, MenuTurn, SelectSource, MutePress,
         InputDone, TickNothing, SaveVolume, SaveNothing, MuteFails, MuteNothing, Hold, WallRests,
         WallMoves, Commit, MuteWork, Unmuted, UnmuteFails, FadeDone, Event

\* The selection is asked for on the second press, never on the first.
THEOREM SelectionNeedsTwo == Spec => SelectNeedsTwoPresses
<1> DEFINE A == ui.active = "Info" /\ ui.next # "Select" /\ ui'.next = "Select" => presses = 2
<1>1. IInv /\ [Next]_uiVars => [A]_ui
  <2> SUFFICES ASSUME IInv, Next, ui.active = "Info", ui.next # "Select", ui'.next = "Select"
               PROVE  presses = 2
    BY DEF uiVars
  <2>1. InfoReleaseSecond
    BY OnlySecondRelease
  <2>2. info.count = 1 /\ info.pressed /\ presses \in 0 .. 2
    BY <2>1 DEF InfoReleaseSecond, ReleasesShort, IInv, TypeOK
  <2> QED
    BY <2>2 DEF IInv, PressesCounted
<1> QED
  BY <1>1, ScreenInvariant, PTL DEF Spec, SelectNeedsTwoPresses
=============================================================================
