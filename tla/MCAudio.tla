------------------------------ MODULE MCAudio -------------------------------
EXTENDS AudioProperties, TLC

CONSTANTS main, work

\* The callers in the code: the screens and the state machine in the main loop, the
\* delayed unmute in the system workqueue.
UiCalls == (main :> {"Select", "Volume", "Mute", "Get"}) @@ (work :> {"Mute"})
\* The whole interface, from two threads.
AllCalls == (main :> {"Select", "Volume", "Get"}) @@ (work :> {"Unselect", "Mute", "Replace"})
=============================================================================
