------------------------------ MODULE Screens ------------------------------
(***************************************************************************)
(* The user interface: screen manager (UI_ScreenManager.c), the queue of   *)
(* knob and button events (UI_InputController.c), the seven screens with   *)
(* their delayed works, and the wall-controller state machine that loads   *)
(* the first of them (Wallcontroller_StateMachine.c).                      *)
(*                                                                         *)
(* The main loop activates a requested screen, hands the queued events to  *)
(* the active screen, runs it, and runs the state machine (at).  The       *)
(* system workqueue, above the main loop, runs the works of two screens;   *)
(* interrupts queue the events.  The main loop is cut where it blocks in   *)
(* the audio-source configuration while a work of a screen may be due.     *)
(***************************************************************************)
EXTENDS Integers, Sequences

CONSTANTS
  NumSources,  \* eNUMBER_OF_AUDIO_SOURCES
  MaxVolume,   \* the loudest volume, 100 in the code
  QueueSize,   \* MAX_ENCODER_MESSAGEs
  LookupFails, \* the lookup of the selected source may time out
  None         \* no screen, no source

ASSUME ScreensConstantsAssumption ==
  /\ NumSources \in Nat \ {0}
  /\ {MaxVolume, QueueSize} \subseteq Nat \ {0}
  /\ LookupFails \in BOOLEAN
  /\ None \notin Nat

VARIABLES
  ui,      \* the manager: active screen, requested screen, screens that have objects
  at,      \* where the main loop is
  queue,   \* kmsgq_eQDC_MessageQueue
  wall,    \* state of the wall controller, and its Startup command
  cfg,     \* the audio sources: the selected one, mute states and stored volumes
  info,    \* context of the screen of the selected source
  menu,    \* focus in a menu, and the source committed in the selection
  submit,  \* the selection's delayed work is due
  mute,    \* the mute screen: its source, its flags and its delayed work
  ble,     \* state of the Bluetooth connection, and the animation of pairing
  presses  \* history: presses the screen of the selected source has been given

uiVars == <<ui, at, queue, wall, cfg, info, menu, submit, mute, ble, presses>>

Sources == 0 .. NumSources - 1
Screens == {"Welcome", "Info", "Select", "Mute", "MainMenu", "BtMenu", "BtControl"}
Events == {"Up", "Down", "Press", "Release"}

ASSUME NoScreenAssumption == None \notin Screens

\* A context that has just been created is zero.
BlankInfo == [src |-> 0, vol |-> 0, dirty |-> FALSE, pending |-> FALSE, ready |-> FALSE,
              pressed |-> FALSE, long |-> FALSE, count |-> 0]
BlankMenu == [focus |-> 0, committed |-> 0]
BlankMute == [src |-> None, busy |-> FALSE, done |-> FALSE, work |-> "none"]

Init ==
  /\ ui = [active |-> None, next |-> "Welcome", root |-> {}]
  /\ at = "activate"
  /\ queue = <<>>
  /\ wall = [state |-> "Idle", cmd |-> FALSE]
  /\ cfg \in [sel : Sources \cup {None}, mute : [Sources -> BOOLEAN],
              vol : [Sources -> 0 .. MaxVolume]]
  /\ info = BlankInfo /\ menu = BlankMenu /\ submit = FALSE /\ mute = BlankMute
  /\ ble = [state |-> "Disconnect", anim |-> FALSE]
  /\ presses = 0

-----------------------------------------------------------------------------
(* Operators. *)

Goto(p) == at' = p

\* The manager after bRequest_UIScreen: refused while another request is pending.
Requested(s) == IF ui.next = None THEN [ui EXCEPT !.next = s] ELSE ui
Request(s) == ui' = Requested(s)

\* iGet_SelectedAudioSrcConfig.
Found == cfg.sel # None
NotFound == cfg.sel = None \/ LookupFails

\* The screen for a source.
ScreenOf(s) == IF cfg.mute[s] THEN "Mute" ELSE "Info"

\* iUpdate_AudioScrSelected: a selection that fails may have unselected the former source.
Selected(s) == cfg' = [cfg EXCEPT !.sel = s]
SelectFails == cfg' \in {cfg, [cfg EXCEPT !.sel = None]}

\* The volume of the screen is stored (iUpdate_AudioSrcFile), or that fails.
Stored == [cfg EXCEPT !.vol[info.src] = info.vol]
Unmute == [cfg EXCEPT !.mute[mute.src] = FALSE]

-----------------------------------------------------------------------------
(* The main loop: activation of a requested screen. *)

NoRequest ==
  /\ at = "activate" /\ ui.next = None
  /\ Goto("input")
  /\ UNCHANGED <<ui, queue, wall, cfg, info, menu, submit, mute, ble, presses>>

\* Seeded fault: a request for the active screen stays pending.
SameScreenKept ==
  /\ at = "activate" /\ ui.next = ui.active /\ ui.next # None
  /\ Goto("input")
  /\ UNCHANGED <<ui, queue, wall, cfg, info, menu, submit, mute, ble, presses>>

SameScreen ==
  /\ at = "activate" /\ ui.next = ui.active /\ ui.next # None
  /\ ui' = [ui EXCEPT !.next = None]
  /\ Goto("input")
  /\ UNCHANGED <<queue, wall, cfg, info, menu, submit, mute, ble, presses>>

\* The request stays pending.
CreateFails ==
  /\ at = "activate" /\ ui.next \notin {None, ui.active}
  /\ Goto("input")
  /\ UNCHANGED <<ui, queue, wall, cfg, info, menu, submit, mute, ble, presses>>

\* pfExit of the active screen: a volume that is not stored yet is, or is lost; an un-mute on
\* its way is waited for, and succeeds or not.
ExitStores ==
  \/ UNCHANGED cfg
  \/ ui.active = "Info" /\ info.dirty /\ cfg' = Stored
  \/ ui.active = "Mute" /\ mute.work = "running" /\ mute.src # None /\ cfg' = Unmute

\* Seeded fault: the screen is left with its work due.
ExitSelectOnly == UNCHANGED submit

ExitSelect == submit' = (submit /\ ui.active # "Select")

\* vExit_AudioSrcMuteScreen has cancelled the work and waited for it.
ExitMute == mute' = IF ui.active = "Mute" THEN BlankMute ELSE mute

\* Pairing is shown by an animation, which the exit stops.
Animated ==
  [ble EXCEPT !.anim = IF ui.next = "BtControl" THEN ble.state = "Pairing"
                       ELSE @ /\ ui.active # "BtControl"]

\* pfEnter of the new screen, where it looks up the selected source.
EnterInfo ==
  \/ /\ Found
     /\ info' = [BlankInfo EXCEPT !.src = cfg.sel, !.vol = cfg.vol[cfg.sel],
                                  !.pending = (cfg.vol[cfg.sel] = 0)]
  \/ NotFound /\ info' = BlankInfo

EnterSelect ==
  \/ Found /\ menu' = [focus |-> cfg.sel + 1, committed |-> cfg.sel + 1]
  \/ NotFound /\ menu' = BlankMenu

EnterMute ==
  \/ Found /\ mute' = [BlankMute EXCEPT !.src = cfg.sel]
  \/ NotFound /\ mute' = BlankMute

\* A screen is created (that of the selected source only if there is one), the active one is
\* left, the new one entered, and the one left is deleted.
Switch ==
  /\ at = "activate" /\ ui.next \notin {None, ui.active}
  /\ ui.next = "Info" => Found
  /\ ExitStores /\ ExitSelect
  /\ IF ui.next = "Info" THEN EnterInfo ELSE info' = BlankInfo
  /\ IF ui.next = "Select" THEN EnterSelect
     ELSE menu' = [BlankMenu EXCEPT !.focus = IF ui.next \in {"MainMenu", "BtMenu"} THEN 1 ELSE 0]
  /\ IF ui.next = "Mute" THEN EnterMute ELSE ExitMute
  /\ ble' = Animated
  /\ ui' = [active |-> ui.next, next |-> None, root |-> (ui.root \cup {ui.next}) \ {ui.active}]
  /\ presses' = 0
  /\ Goto("input")
  /\ UNCHANGED <<queue, wall>>

-----------------------------------------------------------------------------
(* The main loop: events, by the active screen. *)

Given(e) == at = "input" /\ queue # <<>> /\ Head(queue) = e
Taken == queue' = Tail(queue) /\ UNCHANGED wall

\* The screen has no use for the event.
Ignored ==
  /\ \E e \in Events :
       /\ Given(e)
       /\ \/ ui.active \in {None, "Welcome"}
          \/ e = "Release" /\ ui.active # "Info"
          \/ e \in {"Up", "Down"} /\ ui.active \in {"Mute", "BtControl"}
  /\ Taken
  /\ UNCHANGED <<ui, at, cfg, info, menu, submit, mute, ble, presses>>

Turned(v, e) ==
  IF e = "Up" THEN (IF v < MaxVolume THEN v + 1 ELSE v) ELSE (IF v > 0 THEN v - 1 ELSE v)

\* Seeded fault: a turn back to zero does not start the delay again.
InfoTurnReady ==
  \E e \in {"Up", "Down"} :
    /\ Given(e) /\ ui.active = "Info"
    /\ LET v == Turned(info.vol, e) IN
         info' = IF v = info.vol THEN info
                 ELSE [info EXCEPT !.vol = v, !.dirty = TRUE, !.pending = (v = 0)]
    /\ Taken
    /\ UNCHANGED <<ui, at, cfg, menu, submit, mute, ble, presses>>

\* The volume follows the knob; volume zero leads to the mute screen.
InfoTurn ==
  \E e \in {"Up", "Down"} :
    /\ Given(e) /\ ui.active = "Info"
    /\ LET v == Turned(info.vol, e) IN
         info' = IF v = info.vol THEN info
                 ELSE [info EXCEPT !.vol = v, !.dirty = TRUE, !.pending = (v = 0),
                                   !.ready = FALSE]
    /\ Taken
    /\ UNCHANGED <<ui, at, cfg, menu, submit, mute, ble, presses>>

InfoPress ==
  /\ Given("Press") /\ ui.active = "Info"
  /\ info' = IF info.pressed THEN info ELSE [info EXCEPT !.pressed = TRUE, !.long = FALSE]
  /\ presses' = IF presses < 2 THEN presses + 1 ELSE presses
  /\ Taken
  /\ UNCHANGED <<ui, at, cfg, menu, submit, mute, ble>>

\* Seeded fault: a release counts although no press was seen.
ReleaseCounts == ~ info.long

ReleasesShort == info.pressed /\ ~ info.long

\* The button is released, and that counts as one of two presses or not.
Counted(n) == [info EXCEPT !.pressed = FALSE, !.count = n]
Uncounted == [info EXCEPT !.pressed = FALSE, !.long = @ /\ ~ info.pressed]

\* No press was seen, or the press was a long one, when it is noticed here or was before.
InfoReleaseOther ==
  /\ Given("Release") /\ ui.active = "Info"
  /\ \/ ~ ReleasesShort /\ info' = Uncounted
     \/ ReleasesShort /\ info' = Counted(0)
  /\ Taken
  /\ UNCHANGED <<ui, at, cfg, menu, submit, mute, ble, presses>>

\* The first short press, or one too late to be the second.
InfoReleaseFirst ==
  /\ Given("Release") /\ ui.active = "Info" /\ ReleasesShort
  /\ info' = Counted(1)
  /\ Taken
  /\ UNCHANGED <<ui, at, cfg, menu, submit, mute, ble, presses>>

InfoReleaseSecond ==
  /\ Given("Release") /\ ui.active = "Info" /\ ReleasesShort /\ info.count = 1
  /\ info' = Counted(0)
  /\ Request("Select")
  /\ Taken
  /\ UNCHANGED <<at, cfg, menu, submit, mute, ble, presses>>

\* The last item of a menu; they are numbered from 0, which is Back.
LastItem == IF ui.active = "Select" THEN NumSources + 1 ELSE 2

\* The focus moves and wraps, unless the knob was turned a moment ago.
MenuTurn ==
  /\ \E e \in {"Up", "Down"} :
       /\ Given(e) /\ ui.active \in {"Select", "MainMenu", "BtMenu"}
       /\ LET d == IF e = "Up" THEN 1 ELSE -1
          IN  menu' \in {menu, [menu EXCEPT !.focus = (@ + d) % (LastItem + 1)]}
  /\ Taken
  /\ UNCHANGED <<ui, at, cfg, info, submit, mute, ble, presses>>

\* A source: the rest of the handler follows when the selection has been stored.
SelectSource ==
  /\ Given("Press") /\ ui.active = "Select" /\ menu.focus \in 1 .. NumSources
  /\ \/ Selected(menu.focus - 1) /\ Goto("commit")
     \/ SelectFails /\ UNCHANGED at
  /\ Taken
  /\ UNCHANGED <<ui, info, menu, submit, mute, ble, presses>>

Commit ==
  /\ at = "commit"
  /\ menu' = [menu EXCEPT !.committed = menu.focus]
  /\ submit' = TRUE
  /\ Goto("input")
  /\ UNCHANGED <<ui, queue, wall, cfg, info, mute, ble, presses>>

\* Back, or Menu.
SelectLeave ==
  /\ Given("Press") /\ ui.active = "Select" /\ menu.focus \notin 1 .. NumSources
  /\ submit' = FALSE
  /\ Request(IF menu.focus = 0 THEN "Info" ELSE "MainMenu")
  /\ Taken
  /\ UNCHANGED <<at, cfg, info, menu, mute, ble, presses>>

\* Back, Bluetooth, or Info, which leads to the menu itself.
MainMenuPress ==
  /\ Given("Press") /\ ui.active = "MainMenu"
  /\ Request(<<"Select", "BtMenu", "MainMenu">>[menu.focus + 1])
  /\ Taken
  /\ UNCHANGED <<at, cfg, info, menu, submit, mute, ble, presses>>

\* Back, connect, or disconnect; the latter two only if a source is a Bluetooth one.
BtMenuPress ==
  /\ Given("Press") /\ ui.active = "BtMenu"
  /\ \/ menu.focus = 0 /\ Request("MainMenu") /\ UNCHANGED ble
     \/ /\ menu.focus # 0
        /\ Request("BtControl")
        /\ ble' = [ble EXCEPT !.state = IF menu.focus = 1 THEN "Pairing" ELSE "Disconnect"]
     \/ menu.focus # 0 /\ UNCHANGED <<ui, ble>>
  /\ Taken
  /\ UNCHANGED <<at, cfg, info, menu, submit, mute, presses>>

BtControlPress ==
  /\ Given("Press") /\ ui.active = "BtControl"
  /\ Request("BtMenu")
  /\ ble' = [ble EXCEPT !.anim = @ /\ ui.next # None]
  /\ Taken
  /\ UNCHANGED <<at, cfg, info, menu, submit, mute, presses>>

\* A press asks for the un-mute, once.
MutePress ==
  /\ Given("Press") /\ ui.active = "Mute"
  /\ mute' = IF mute.busy THEN mute
             ELSE [mute EXCEPT !.busy = TRUE, !.done = FALSE,
                               !.work = IF @ = "none" THEN "due" ELSE @]
  /\ Taken
  /\ UNCHANGED <<ui, at, cfg, info, menu, submit, ble, presses>>

InputDone ==
  /\ at = "input" /\ queue = <<>>
  /\ Goto("tick")
  /\ UNCHANGED <<ui, queue, wall, cfg, info, menu, submit, mute, ble, presses>>

Input ==
  \/ Ignored \/ InfoTurn \/ InfoPress \/ InfoReleaseOther \/ InfoReleaseFirst
  \/ InfoReleaseSecond \/ MenuTurn \/ SelectSource \/ SelectLeave \/ MainMenuPress
  \/ BtMenuPress \/ BtControlPress \/ MutePress

-----------------------------------------------------------------------------
(* The main loop: pfRun of the active screen. *)

\* The other screens do nothing.
TickNothing ==
  /\ at = "tick" /\ ui.active \notin {"Info", "Mute"}
  /\ Goto("wall")
  /\ UNCHANGED <<ui, queue, wall, cfg, info, menu, submit, mute, ble, presses>>

\* The volume is stored some time after the last turn.
SaveVolume ==
  /\ at = "tick" /\ ui.active = "Info" /\ info.dirty
  /\ cfg' = Stored
  /\ info' = [info EXCEPT !.dirty = FALSE]
  /\ Goto("mute")
  /\ UNCHANGED <<ui, queue, wall, menu, submit, mute, ble, presses>>

\* Not dirty, not yet, or that failed.
SaveNothing ==
  /\ at = "tick" /\ ui.active = "Info"
  /\ Goto("mute")
  /\ UNCHANGED <<ui, queue, wall, cfg, info, menu, submit, mute, ble, presses>>

\* Volume zero is stored and its delay over: bCanExecute_MuteScreenTransition.
MayMute == info.pending /\ info.vol = 0 /\ (info.ready \/ ~ info.dirty)

\* The source is muted and its screen requested.
MuteSource ==
  /\ at = "mute" /\ MayMute
  /\ cfg' = [cfg EXCEPT !.mute[info.src] = TRUE]
  /\ info' = [info EXCEPT !.ready = TRUE]
  /\ Request("Mute")
  /\ Goto(IF ui.next = None THEN "wall" ELSE "hold")
  /\ UNCHANGED <<queue, wall, menu, submit, mute, ble, presses>>

\* The mute state cannot be stored now.
MuteFails ==
  /\ at = "mute" /\ MayMute
  /\ info' = [info EXCEPT !.ready = TRUE]
  /\ Goto("hold")
  /\ UNCHANGED <<ui, queue, wall, cfg, menu, submit, mute, ble, presses>>

\* Nothing to mute, or not yet.
MuteNothing ==
  /\ at = "mute" /\ (MayMute => ~ info.ready)
  /\ Goto("hold")
  /\ UNCHANGED <<ui, queue, wall, cfg, info, menu, submit, mute, ble, presses>>

\* A button held long enough is a long press; a second press must come in time.
Hold ==
  /\ at = "hold"
  /\ \/ UNCHANGED info
     \/ /\ info.pressed /\ ~ info.long
        /\ info' = [info EXCEPT !.long = TRUE, !.count = 0]
     \/ ~ info.pressed /\ info' = [info EXCEPT !.count = 0]
  /\ Goto("wall")
  /\ UNCHANGED <<ui, queue, wall, cfg, menu, submit, mute, ble, presses>>

\* The source is un-muted: its screen is requested, and if that is refused, all is done again.
RunMute ==
  /\ at = "tick" /\ ui.active = "Mute"
  /\ IF mute.done
     THEN /\ Request("Info")
          /\ mute' = IF ui.next = None THEN [mute EXCEPT !.busy = FALSE, !.done = FALSE]
                     ELSE [mute EXCEPT !.done = FALSE, !.work = IF @ = "none" THEN "due" ELSE @]
     ELSE UNCHANGED <<ui, mute>>
  /\ Goto("wall")
  /\ UNCHANGED <<queue, wall, cfg, info, menu, submit, ble, presses>>

-----------------------------------------------------------------------------
(* The main loop: vRun_WallCtrl_StateMachine. *)

\* Nothing to do in this state, or its time is not over.
WallRests ==
  /\ at = "wall" /\ wall.state # "Enter"
  /\ wall.state = "Idle" => ~ wall.cmd
  /\ Goto("activate")
  /\ UNCHANGED <<ui, queue, wall, cfg, info, menu, submit, mute, ble, presses>>

WallMoves ==
  /\ at = "wall"
  /\ \/ /\ wall.state = "Idle" /\ wall.cmd
        /\ wall' = [state |-> "Startup", cmd |-> FALSE]
     \/ /\ wall.state = "Startup"
        /\ wall' = [state |-> "Enter", cmd |-> FALSE]
  /\ Goto("activate")
  /\ UNCHANGED <<ui, queue, cfg, info, menu, submit, mute, ble, presses>>

\* The first run of the Active state loads the first screen (vLoad_UIScreen); if no source is
\* selected, the first one is.  An error is not tried again.
LoadScreen ==
  /\ at = "wall" /\ wall.state = "Enter"
  /\ wall' = [wall EXCEPT !.state = "Active"]
  /\ \/ Found /\ Request(ScreenOf(cfg.sel)) /\ UNCHANGED cfg
     \/ ~ Found /\ Selected(0) /\ Request(ScreenOf(0))
     \/ ~ Found /\ UNCHANGED <<ui, cfg>>
     \/ LookupFails /\ UNCHANGED <<ui, cfg>>
  /\ Goto("activate")
  /\ UNCHANGED <<queue, info, menu, submit, mute, ble, presses>>

-----------------------------------------------------------------------------
(* The workqueue and the interrupts. *)

\* vHandle_ScreenSubmit of the selection: the screen of the committed source is requested; if
\* that is refused, the work is due again.
Submit ==
  /\ submit /\ menu.committed \in 1 .. NumSources
  /\ submit' = (ui.next # None)
  /\ Request(ScreenOf(menu.committed - 1))
  /\ UNCHANGED <<at, queue, wall, cfg, info, menu, mute, ble, presses>>

\* vHandle_ScreenSubmit of the mute screen, until it blocks, ...
MuteWork ==
  /\ mute.work = "due"
  /\ mute' = [mute EXCEPT !.work = IF mute.busy THEN "running" ELSE "none"]
  /\ UNCHANGED <<ui, at, queue, wall, cfg, info, menu, submit, ble, presses>>

\* ... and from there: the mute state is stored, ...
Unmuted ==
  /\ mute.work = "running" /\ mute.src # None
  /\ cfg' = Unmute
  /\ mute' = [mute EXCEPT !.work = "none", !.done = TRUE]
  /\ UNCHANGED <<ui, at, queue, wall, info, menu, submit, ble, presses>>

\* Seeded fault: a failed un-mute is given up.
UnmuteGivenUp ==
  /\ mute.work = "running"
  /\ mute' = [mute EXCEPT !.work = "none"]
  /\ UNCHANGED <<ui, at, queue, wall, cfg, info, menu, submit, ble, presses>>

\* ... or is not, and the work is due again.
UnmuteFails ==
  /\ mute.work = "running"
  /\ mute' = [mute EXCEPT !.work = "due"]
  /\ UNCHANGED <<ui, at, queue, wall, cfg, info, menu, submit, ble, presses>>

\* The welcome image is faded in.
FadeDone ==
  /\ ui.active = "Welcome" /\ wall.state = "Idle" /\ ~ wall.cmd
  /\ wall' = [wall EXCEPT !.cmd = TRUE]
  /\ UNCHANGED <<ui, at, queue, cfg, info, menu, submit, mute, ble, presses>>

\* vSubmit_Message: the oldest event makes room for a new one.
Put(e) ==
  queue' = Append(IF Len(queue) < QueueSize THEN queue ELSE Tail(queue), e)

\* Presses and releases of the button alternate, but with events lost here, or by two
\* interrupts that compete for the room, the loop may see any sequence of them.
Event ==
  /\ \E e \in Events : Put(e)
  /\ UNCHANGED <<ui, at, wall, cfg, info, menu, submit, mute, ble, presses>>

-----------------------------------------------------------------------------
(* The specification. *)

Activate == NoRequest \/ SameScreen \/ CreateFails \/ Switch
Tick ==
  \/ TickNothing \/ SaveVolume \/ SaveNothing \/ MuteSource \/ MuteFails \/ MuteNothing
  \/ Hold \/ RunMute
Wall == WallRests \/ WallMoves \/ LoadScreen
MainLoop == Activate \/ Input \/ Commit \/ InputDone \/ Tick \/ Wall

Next == MainLoop \/ Submit \/ MuteWork \/ Unmuted \/ UnmuteFails \/ FadeDone \/ Event

Spec == Init /\ [][Next]_uiVars

\* The main loop and the workqueue run; a creation and a store that are tried again and again
\* succeed at some time; and the user is slower than the loop that hands out the events.
FairSpec ==
  /\ Spec
  /\ WF_uiVars(MainLoop) /\ SF_uiVars(Switch)
  /\ []<>(at = "tick")
  /\ WF_uiVars(Submit) /\ WF_uiVars(MuteWork) /\ WF_uiVars(Unmuted \/ UnmuteFails)
  /\ SF_uiVars(Unmuted)
=============================================================================
