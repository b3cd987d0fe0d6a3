-------------------------- MODULE ScreenProperties --------------------------
(* What the user interface must keep to, whatever the user does and whatever fails. *)
EXTENDS Screens

Managers == [active : Screens \cup {None}, next : Screens \cup {None}, root : SUBSET Screens]
Walls == [state : {"Idle", "Startup", "Enter", "Active"}, cmd : BOOLEAN]
Configs ==
  [sel : Sources \cup {None}, mute : [Sources -> BOOLEAN], vol : [Sources -> 0 .. MaxVolume]]
Infos ==
  [src : Sources, vol : 0 .. MaxVolume, dirty : BOOLEAN, pending : BOOLEAN, ready : BOOLEAN,
   pressed : BOOLEAN, long : BOOLEAN, count : 0 .. 1]
Menus == [focus : 0 .. NumSources + 1, committed : 0 .. NumSources]
Mutes ==
  [src : Sources \cup {None}, busy : BOOLEAN, done : BOOLEAN, work : {"none", "due", "running"}]
Bluetooth == [state : {"Disconnect", "Pairing"}, anim : BOOLEAN]

\* Types of all variables.  The queue is never longer than it may be (UI_InputController.c:105-124).
TypeOK ==
  /\ ui \in Managers
  /\ at \in {"activate", "input", "commit", "tick", "mute", "hold", "wall"}
  /\ queue \in Seq(Events) /\ Len(queue) <= QueueSize
  /\ wall \in Walls /\ cfg \in Configs
  /\ info \in Infos /\ menu \in Menus /\ submit \in BOOLEAN
  /\ mute \in Mutes /\ ble \in Bluetooth
  /\ presses \in 0 .. 2

\* A screen that is left leaves nothing behind: only the active screen has objects, and no
\* delayed work, flag or animation of another screen is alive that would act on them or
\* request a screen nobody asked for (UI_ScreenManager.c:148-168, AudioSrcMute.c:288-299,
\* AudioSrcSelection.c:857-861, BluetoothControl.c:429-445).
NothingLeftBehind ==
  /\ ui.root = {ui.active} \ {None}
  /\ submit => ui.active = "Select" /\ menu.committed \in 1 .. NumSources
  /\ mute # BlankMute => ui.active = "Mute"
  /\ ble.anim => ui.active = "BtControl"

\* A source is muted only while it is the one on the screen and its stored volume is zero:
\* "Do not enter the mute screen until volume zero is stored" (SelectedAudioSrcCtrl.c:167),
\* though the stores before it may fail, and the knob is turned while they are tried again.
MutesOnlySilent ==
  [][\A s \in Sources :
       cfg'.mute[s] /\ ~ cfg.mute[s] => ui.active = "Info" /\ info.src = s /\ cfg.vol[s] = 0]_cfg

\* The selection of sources is reached by two presses on the screen of the source, also when
\* the full queue has dropped presses or releases (UI_InputController.c:105-124).
SelectNeedsTwoPresses ==
  [][ui.active = "Info" /\ ui.next # "Select" /\ ui'.next = "Select" => presses = 2]_ui

\* A granted request is carried out, unless it is for the screen of the selected source and
\* there is none; while it is pending every other request is refused
\* (UI_ScreenManager.c:91-146, 189-196).
RequestServed == ui.next # None ~> ui.next = None \/ ~ Found

\* A press on the mute screen of a source leads out of it, however often the un-mute or the
\* request of the next screen fails (AudioSrcMute.c:301-367).
UnmuteServed == mute.busy /\ mute.src # None ~> ui.active # "Mute"
=============================================================================
