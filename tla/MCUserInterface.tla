--------------------------- MODULE MCUserInterface ---------------------------
(* A screen of 9 by 16 pixels whose lists show ten items, and what a user    *)
(* does at it: gestures on the buttons, the trackball and the panel, two at  *)
(* a time in every order, and a few longer ways through the menus.           *)
EXTENDS UserInterface

Buttons == {KEY_POWER, KEY_VOLUMEUP, KEY_VOLUMEDOWN}
Panel   == {ABS_MT_POSITION_X}

Raw(t, c, v) == [type |-> t, code |-> c, value |-> v]
Key(c, v) == Raw("KEY", c, v)
Syn == Raw("SYN", "REPORT", 0)
Push(c) == <<Key(c, 1), Key(c, 0)>>
Chord == <<Key(KEY_POWER, 1)>> \o Push(KEY_VOLUMEUP) \o <<Key(KEY_POWER, 0)>>
Down == <<Raw("REL", "Y", 2), Raw("REL", "Y", 2)>>
Up == <<Raw("REL", "Y", -4)>>
Finger(px, py) == <<Raw("ABS", "X", px), Raw("ABS", "Y", py), Syn>>
LiftA == <<Key(BTN_TOUCH, 0), Key(BTN_TOOL_FINGER, 0), Syn>>                    \* protocol A
LiftB == <<Raw("ABS", "TRACKING_ID", -1), Syn>>        \* protocol B
Tap1 == Finger(22, 10) \o LiftA                        \* item 1 of the grid, item 0 of a list
Tap2 == Finger(8, 14) \o LiftA                         \* item 2 of the grid, item 0 of a list
TapLow == Finger(22, 16) \o LiftB                      \* item 1 of a list
TapLog == Finger(22, 27) \o LiftB                      \* item 3 of a list
TapBack == Finger(2, 0) \o <<Raw("ABS", "SLOT", 1), Raw("ABS", "X", 30), Raw("ABS", "SLOT", 0)>> \o LiftB
ScrollDown == Finger(22, 28) \o Finger(22, 16) \o LiftA
ScrollUp == Finger(22, 10) \o Finger(22, 20) \o LiftA
SwipeRight == Finger(2, 16) \o Finger(30, 16) \o LiftB
HomeKey == Finger(2, 36) \o LiftB                      \* the virtual key below the screen

Gestures == {Push(KEY_POWER), Chord, Tap1, TapLow}
LogList == Tap2 \o TapLog
Sessions ==
  {Tap1 \o Tap1 \o TapLow, Tap1 \o TapBack \o HomeKey, Push(KEY_POWER) \o Push(KEY_POWER) \o SwipeRight,
   LogList \o ScrollDown \o ScrollUp, LogList \o Up \o Up \o Down,
   LogList \o Tap1 \o Down \o Up, LogList \o Tap1 \o Down \o Down, LogList \o Tap1 \o HomeKey,
   Tap1 \o TapLow \o Chord \o TapLow, LogList \o Chord, Down \o Down \o Down \o Push(KEY_POWER)}

Scenario(d, s, v, b, u, n) ==
  [devices |-> d, sends |-> s, saver |-> v, shown |-> b, usb |-> u, changes |-> n, onSwipe |-> FALSE]
MCScenarios ==
  {Scenario(<<Buttons, Panel>>, s, "DISABLED", b, FALSE, 0) : s \in Sessions, b \in BOOLEAN}
  \cup {Scenario(d, g \o h, "NORMAL", b, TRUE, 0) :
          d \in {<<Buttons, {}, Panel, {KEY_BACK}>>, <<Panel, Buttons>>}, g, h \in Gestures, b \in BOOLEAN}
  \cup {Scenario(<<Buttons, Panel>>, g, "NORMAL", TRUE, TRUE, 1) : g \in Gestures}
  \cup {[Scenario(<<Buttons, Panel>>, SwipeRight \o Tap1, "DISABLED", FALSE, FALSE, 0) EXCEPT !.onSwipe = TRUE]}

Point(px, py) == [x |-> px, y |-> py]
MCVirtualKeys == <<[keycode |-> KEY_HOME, min |-> Point(0, 17), max |-> Point(3, 20)]>>
=============================================================================
