---------------------------- MODULE UserInterface ----------------------------
(***************************************************************************)
(* The recovery menu as its threads run it.                                *)
(*                                                                         *)
(*   input thread  InputThreadLoop: reads one event of a device at a time, *)
(*                 follows the finger and the trackball, registers keys,   *)
(*                 decides what a registered key does (CheckKey) and fills *)
(*                 the event queue (ui.cpp, minui/events.cpp);             *)
(*   key timers    one detached thread per key press, which says 750 ms    *)
(*                 later that the press is a long one;                     *)
(*   main thread   prompt_and_wait and the menus under it: opens a menu,   *)
(*                 waits for an event, moves the highlight, chooses        *)
(*                 (recovery.cpp, screen_ui.cpp, device.cpp).              *)
(*                                                                         *)
(* They share the queue and the key state (event_queue_mutex), the text    *)
(* and the menu (updateMutex), and two flags nobody locks: the screensaver *)
(* state and volumes_changed_.  An action is what a thread does between    *)
(* taking a lock and giving it back, or a run of steps no other thread can *)
(* tell apart.  Pixels are kept where they decide something (which item a  *)
(* finger selects, how many items fit); what is drawn is not modelled.     *)
(***************************************************************************)
EXTENDS Integers, Sequences, FiniteSets

CONSTANTS Scenarios,      \* bound: what may happen to a run, see Init
          MaxTimers,      \* bound: keys pressed within 750 ms
          MaxDevices,     \* MAX_DEVICES, 16 in the code
          QueueMax,       \* event_queue's length, 256 in the code
          RebootPresses,  \* presses of POWER that reboot, 7 in the code
          FbWidth, FbHeight, TouchRange,  \* the screen, and the touch panel's range on both axes
          CharHeight, StartY,             \* menu_char_height_ and menu_start_y_
          LowThreshold, HighThreshold,    \* of a horizontal swipe
          VirtualKeys,    \* virtual_keys_: a sequence of records [keycode, min, max]
          Logs, Pages     \* readable log files, and screens each of them fills

ASSUME UiAssumption ==
  /\ QueueMax \in Nat \ {0} /\ RebootPresses \in Nat \ {0}
  /\ {TouchRange, CharHeight, Logs, Pages} \subseteq Nat \ {0}

(* The screen has pixels for the units it is divided into, room for the two  *)
(* rows of the main menu, and room for one item of a list.                   *)
ASSUME ScreenAssumption ==
  /\ FbWidth \in Nat /\ FbWidth >= 9
  /\ FbHeight \in Nat /\ FbHeight >= 16
  /\ StartY \in Nat
  /\ StartY + 6 * (FbHeight \div 16) < FbHeight
  /\ StartY + (9 * CharHeight) \div 4 < FbHeight

(* What evdev delivers: codes and positions are not negative.                *)
RawEvents ==
  [type : {"SYN"}, code : {"REPORT"}, value : Int]
  \cup [type : {"KEY"}, code : Nat, value : Int]
  \cup [type : {"REL"}, code : {"Y"}, value : Int]
  \cup [type : {"ABS"}, code : {"SLOT", "TRACKING_ID"}, value : Int]
  \cup [type : {"ABS"}, code : {"X", "Y"}, value : Nat]
Points == [x : Int, y : Int]

ASSUME DevicesAssumption ==
  /\ \A c \in Scenarios : c.sends \in Seq(RawEvents)
  /\ VirtualKeys \in Seq([keycode : Nat, min : Points, max : Points])

VARIABLES
  has,      \* the codes of the devices that ev_iterate_* visited
  touch,    \* touch_slot_, touch_finger_down_, touch_saw_*_, touch_reported_, has_swiped_, the three points
  rel,      \* rel_sum
  calls,    \* ProcessKey calls the handler of the current device event still makes: <<key, updown>>
  proc,     \* the registered key that the input thread is deciding about
  keys,     \* key_pressed, key_last_down, key_long_press, key_down_count
  timers,   \* <<key, count>> of every time_key thread that still sleeps
  powers,   \* consecutive_power_keys
  reboot,   \* enable_reboot
  queue,    \* event_queue
  fresh,    \* history: an event was queued since the last FlushKeys
  saver,    \* screensaver_state_
  text,     \* show_text, show_text_ever, is_bootreason_recovery_ui_
  volumes,  \* volumes_changed_
  usb,      \* the USB cable
  main,     \* where the main thread is
  menu,     \* the menu on the screen, and get_menu_selection's selected
  page,     \* the page of the device's own menu
  viewed,   \* the screen of the log file being shown
  pending,  \* what the devices will still send
  changes   \* volume changes that will still be announced

input == <<has, touch, rel, calls, proc, keys, timers, powers>>
shared == <<queue, fresh, text, reboot, volumes>>
screen == <<saver, main, menu, page, viewed>>
world == <<usb, pending, changes>>
vars == <<input, shared, screen, world>>

-----------------------------------------------------------------------------
(* Codes and events.  An event is the three words of an InputEvent.          *)

KEY_BACKSPACE == 14
KEY_ENTER == 28
KEY_LEFTSHIFT == 42
KEY_RIGHTSHIFT == 54
KEY_HOME == 102
KEY_UP == 103
KEY_DOWN == 108
KEY_VOLUMEDOWN == 114
KEY_VOLUMEUP == 115
KEY_POWER == 116
KEY_MENU == 139
KEY_BACK == 158
KEY_HOMEPAGE == 172
KEY_REFRESH == 173
KEY_SCROLLUP == 177
KEY_SCROLLDOWN == 178
KEY_SEARCH == 217
KEY_SEND == 231
BTN_MOUSE == 272
BTN_TOOL_FINGER == 325
BTN_TOUCH == 330
ABS_MT_POSITION_X == 53

kNoAction == -1
kHighlightUp == -2
kHighlightDown == -3
kInvokeItem == -4
kGoBack == -5
kGoHome == -6
kRefresh == -7
kScrollUp == -8
kScrollDown == -9

NoEvent == <<0, 0, 0>>
KeyEvent(k) == <<1, k, 0>>
TouchEvent(p) == <<2, p.x, p.y>>
Origin == [x |-> 0, y |-> 0]
Idle == [key |-> -1, long |-> FALSE, allowed |-> FALSE, act |-> "none"]
Abs(n) == IF n < 0 THEN -n ELSE n
UpKeys == {KEY_UP, KEY_VOLUMEUP}
DownKeys == {KEY_DOWN, KEY_VOLUMEDOWN}
HomeKeys == {KEY_HOME, KEY_HOMEPAGE}

(* ev_init opens the devices that have a key, a switch or an axis, up to its *)
(* limit.  It put the inotify descriptor into ev_fdinfo[0] before them, and  *)
(* the iterations run over the first ev_dev_count entries: the last device   *)
(* that was opened is not visited.                                           *)
Opened(devices) ==
  LET useful == SelectSeq(devices, LAMBDA d : d # {})
  IN  SubSeq(useful, 1, IF Len(useful) < MaxDevices THEN Len(useful) ELSE MaxDevices)
Visited(opened) == UNION {opened[i] : i \in 1..(Len(opened) - 1)}

HasPowerKey == KEY_POWER \in has
HasThreeButtons == HasPowerKey /\ has \cap UpKeys # {} /\ has \cap DownKeys # {}
HasTouchScreen == ABS_MT_POSITION_X \in has

-----------------------------------------------------------------------------
(* The event queue.                                                          *)

Enqueue(e) ==
  /\ queue' = IF Len(queue) < QueueMax THEN Append(queue, e) ELSE queue
  /\ fresh' = (fresh \/ Len(queue) < QueueMax)

(* A mistake: the queue is kept. *)
MutFlushKeys == queue' = queue /\ fresh' = FALSE

FlushKeys == queue' = <<>> /\ fresh' = FALSE

(* What is left of a queue whose first event is to be dropped when the       *)
(* screen wakes up: the memcpy counts events in ints, so of the words behind *)
(* the first event only as many move down as there are events left.          *)
Word(q, w) == q[1 + (w - 1) \div 3][1 + ((w - 1) % 3)]
Woken(q) ==
  LET n == Len(q) - 1
  IN  [i \in 1..n |-> [j \in 1..3 |->
        LET w == 3 * (i - 1) + j IN Word(q, IF w <= n THEN w + 3 ELSE w)]]

-----------------------------------------------------------------------------
(* The input thread: one event of a device.                                  *)

e == Head(pending)

Sent(type) ==
  /\ main.at # "off" /\ calls = <<>> /\ proc = Idle
  /\ pending # <<>> /\ e.type = type
  /\ pending' = Tail(pending)
  /\ UNCHANGED <<has, proc, keys, timers, powers, reboot, volumes, usb, changes, screen>>

Tap(k) == <<<<k, 1>>, <<k, 0>>>>

(* Two SYN_REPORTs that matter: the first with the finger down and both      *)
(* coordinates known, and the first with the finger up.                      *)
OnTouchPress ==
  /\ Sent("SYN")
  /\ ~touch.reported /\ touch.down /\ touch.sawX /\ touch.sawY
  /\ touch' = [touch EXCEPT !.start = touch.pos, !.track = touch.pos, !.reported = TRUE,
                            !.sawX = FALSE, !.sawY = FALSE]
  /\ UNCHANGED <<rel, calls, queue, fresh, text>>

(* The numbers of S, the smallest first. *)
InOrder(S) == [j \in 1..Cardinality(S) |-> CHOOSE i \in S : Cardinality({k \in S : k <= i}) = j]

Inside(vk, p) == /\ p.x >= vk.min.x /\ p.x < vk.max.x
                 /\ p.y >= vk.min.y /\ p.y < vk.max.y

OnTouchRelease ==
  LET below == touch.start.y > FbHeight /\ touch.pos.y > FbHeight
      dx == touch.pos.x - touch.start.x
      dy == touch.pos.y - touch.start.y
      hit == {i \in DOMAIN VirtualKeys :
                Inside(VirtualKeys[i], touch.start) /\ Inside(VirtualKeys[i], touch.pos)}
      up == [touch EXCEPT !.reported = FALSE, !.sawX = FALSE, !.sawY = FALSE]
  IN  /\ Sent("SYN")
      /\ touch.reported /\ ~touch.down
      /\ UNCHANGED rel
      /\ \/ /\ text.onSwipe /\ ~text.shown
            /\ text' = [text EXCEPT !.shown = TRUE, !.ever = TRUE]
            /\ touch' = up /\ UNCHANGED <<calls, queue, fresh>>
         \/ /\ ~(text.onSwipe /\ ~text.shown)
            /\ UNCHANGED text
            /\ \/ /\ below /\ touch' = up
                  /\ calls' = [n \in 1..(2 * Cardinality(hit)) |->
                                <<VirtualKeys[InOrder(hit)[(n + 1) \div 2]].keycode, n % 2>>]
                  /\ UNCHANGED <<queue, fresh>>
               \/ /\ ~below /\ touch.swiped
                  /\ touch' = [up EXCEPT !.swiped = FALSE]
                  /\ UNCHANGED <<calls, queue, fresh>>
               \/ /\ ~below /\ ~touch.swiped
                  /\ Abs(dy) < LowThreshold /\ Abs(dx) > HighThreshold
                  /\ calls' = Tap(IF dx < 0 THEN KEY_BACK ELSE KEY_POWER)
                  /\ touch' = up /\ UNCHANGED <<queue, fresh>>
               \/ /\ ~below /\ ~touch.swiped
                  /\ ~(Abs(dy) < LowThreshold /\ Abs(dx) > HighThreshold)
                  /\ Enqueue(TouchEvent(touch.pos))
                  /\ touch' = up /\ UNCHANGED calls

MenuItemHeight == 3 * CharHeight
MenuShowing == main.view = "menu" /\ main.at \in {"wait", "blocked", "event"}

(* What a finger that has moved does: a long enough move up or down scrolls  *)
(* a list by one item, and any visible one keeps the release from selecting. *)
OnTouchTrack(t) ==
  LET dy == t.pos.y - t.track.y
      tracks == t.pos.y <= FbHeight /\ MenuShowing /\ menu.list
      scrolls == tracks /\ Abs(dy) >= MenuItemHeight
  IN  /\ calls' = IF scrolls THEN Tap(IF dy < 0 THEN KEY_SCROLLDOWN ELSE KEY_SCROLLUP) ELSE <<>>
      /\ touch' = [t EXCEPT
           !.sawX = FALSE, !.sawY = FALSE,
           !.swiped = @ \/ (tracks /\ Abs(dy) > MenuItemHeight \div 30) \/ scrolls,
           !.track.y = IF scrolls THEN @ + (IF dy > 0 THEN MenuItemHeight ELSE -MenuItemHeight) ELSE @]

(* EV_ABS: fingers other than the first are ignored; a coordinate is scaled  *)
(* to the screen, and the second of the two moves the finger.                *)
Position ==
  /\ Sent("ABS") /\ e.code \in {"X", "Y"}
  /\ rel' = 0
  /\ LET t == IF e.code = "X"
              THEN [touch EXCEPT !.down = TRUE, !.sawX = TRUE, !.pos.x = (e.value * FbWidth) \div TouchRange]
              ELSE [touch EXCEPT !.down = TRUE, !.sawY = TRUE, !.pos.y = (e.value * FbHeight) \div TouchRange]
     IN  IF touch.slot > 0 THEN UNCHANGED <<touch, calls>>
         ELSE IF t.reported /\ t.sawX /\ t.sawY THEN OnTouchTrack(t)
         ELSE touch' = t /\ UNCHANGED calls
  /\ UNCHANGED <<queue, fresh, text>>

Contact ==
  /\ rel' = 0
  /\ \/ /\ Sent("ABS") /\ e.code = "SLOT"
        /\ touch' = [touch EXCEPT !.slot = e.value]
     \/ /\ Sent("ABS") /\ e.code = "TRACKING_ID"
        /\ touch' = IF touch.slot = 0 /\ e.value < 0 THEN [touch EXCEPT !.down = FALSE] ELSE touch
     \/ /\ Sent("KEY") /\ e.code = BTN_TOUCH
        /\ touch' = [touch EXCEPT !.down = (e.value = 1)]
     \/ /\ Sent("KEY") /\ e.code = BTN_TOOL_FINGER
        /\ UNCHANGED touch
  /\ UNCHANGED <<calls, queue, fresh, text>>

(* REL_Y: the trackball's motion adds up until it is worth a key.            *)
Trackball ==
  /\ Sent("REL")
  /\ LET sum == rel + e.value
     IN  /\ rel' = IF Abs(sum) > 3 THEN 0 ELSE sum
         /\ calls' = IF sum > 3 THEN Tap(KEY_DOWN) ELSE IF sum < -3 THEN Tap(KEY_UP) ELSE <<>>
  /\ UNCHANGED <<touch, queue, fresh, text>>

Button ==
  /\ Sent("KEY") /\ e.code \notin {BTN_TOUCH, BTN_TOOL_FINGER}
  /\ rel' = 0 /\ calls' = <<<<e.code, e.value>>>>
  /\ UNCHANGED <<touch, queue, fresh, text>>

(* A report of a finger that moves, or of one whose coordinates are not      *)
(* known yet, changes nothing.                                               *)
Reported ==
  /\ Sent("SYN")
  /\ touch.reported = touch.down
     \/ (touch.down /\ ~touch.reported /\ ~(touch.sawX /\ touch.sawY))
  /\ UNCHANGED <<touch, rel, calls, queue, fresh, text>>

OnInputEvent == OnTouchPress \/ OnTouchRelease \/ Reported \/ Position \/ Contact \/ Trackball \/ Button

-----------------------------------------------------------------------------
(* The input thread: one key.  ProcessKey's locked part, CheckKey and what   *)
(* follows are three actions: the other threads run between them.            *)

ProcessKey ==
  LET k == Head(calls)[1]
  IN  /\ main.at # "off" /\ calls # <<>> /\ proc = Idle
      /\ calls' = Tail(calls)
      /\ \/ /\ Head(calls)[2] # 0 /\ Cardinality(timers) < MaxTimers
            /\ keys' = [pressed |-> keys.pressed \cup {k}, last |-> k, long |-> FALSE, count |-> keys.count + 1]
            /\ timers' = timers \cup {<<k, keys.count + 1>>}
            /\ UNCHANGED proc
         \/ /\ Head(calls)[2] = 0
            /\ keys' = [keys EXCEPT !.pressed = @ \ {k}, !.last = -1]
            /\ proc' = IF keys.last = k
                       THEN [key |-> k, long |-> keys.long, allowed |-> reboot, act |-> "check"]
                       ELSE Idle
            /\ UNCHANGED timers
      /\ UNCHANGED <<has, touch, rel, powers, shared, screen, world>>

(* A mistake: a timer looks at the key alone. *)
MutTimeKey(t) ==
  /\ main.at # "off" /\ t \in timers
  /\ timers' = timers \ {t}
  /\ keys' = IF keys.last = t[1] THEN [keys EXCEPT !.long = TRUE] ELSE keys
  /\ UNCHANGED <<has, touch, rel, calls, proc, powers, shared, screen, world>>

(* time_key after its 750 ms: the press is long if it is still the last one. *)
TimeKey(t) ==
  /\ main.at # "off" /\ t \in timers
  /\ timers' = timers \ {t}
  /\ keys' = IF keys.last = t[1] /\ keys.count = t[2] THEN [keys EXCEPT !.long = TRUE] ELSE keys
  /\ UNCHANGED <<has, touch, rel, calls, proc, powers, shared, screen, world>>

(* CheckKey: the chord of POWER and volume up where the device has the       *)
(* buttons for it, a long press where it has not, the reboot sequence, and   *)
(* else the queue if somebody can see the menu or wants the screen back.     *)
CheckKey ==
  LET k == proc.key
      chords == HasThreeButtons \/ (HasPowerKey /\ HasTouchScreen)
      chord == chords /\ k \in UpKeys /\ KEY_POWER \in keys.pressed
      held == ~chords /\ proc.long
      counts == ~chord /\ ~held
      power == powers + (IF reboot THEN 1 ELSE 0)
      reboots == k = KEY_POWER /\ reboot /\ power >= RebootPresses
      Decide(a) == proc' = IF a = "none" THEN Idle ELSE [proc EXCEPT !.act = a]
  IN  /\ main.at # "off" /\ proc.act = "check"
      /\ keys' = [keys EXCEPT !.long = FALSE]
      /\ powers' = IF ~counts THEN powers ELSE IF k = KEY_POWER THEN power ELSE 0
      /\ \/ /\ chord \/ (held /\ ~text.shown)
            /\ Decide("TOGGLE") /\ UNCHANGED <<queue, fresh>>
         \/ /\ held /\ text.shown
            /\ Enqueue(KeyEvent(KEY_ENTER)) /\ Decide("none")
         \/ /\ counts
            /\ Decide(IF reboots THEN "REBOOT" ELSE IF text.shown \/ saver = "OFF" THEN "ENQUEUE" ELSE "none")
            /\ UNCHANGED <<queue, fresh>>
      /\ UNCHANGED <<has, touch, rel, calls, timers, text, reboot, volumes, screen, world>>

ApplyKey ==
  /\ main.at # "off" /\ proc' = Idle
  /\ \/ /\ proc.act = "TOGGLE"
        /\ text' = [text EXCEPT !.shown = ~@, !.ever = @ \/ ~text.shown]
        /\ UNCHANGED <<queue, fresh, main>>
     \/ /\ proc.act = "REBOOT"
        /\ main' = IF proc.allowed THEN [main EXCEPT !.at = "off"] ELSE main
        /\ UNCHANGED <<queue, fresh, text>>
     \/ /\ proc.act = "ENQUEUE"
        /\ Enqueue(KeyEvent(proc.key))
        /\ UNCHANGED <<text, main>>
  /\ UNCHANGED <<has, touch, rel, calls, keys, timers, powers, reboot, volumes, saver, menu, page, viewed, world>>

-----------------------------------------------------------------------------
(* The screen's menu.                                                        *)

(* How many items draw_text_menu_locked and draw_grid_menu_locked find room  *)
(* for from the first shown one on.                                          *)
ShowCount(m) ==
  Cardinality({i \in m.start..(m.items - 1) :
    IF m.list THEN StartY + (i - m.start) * CharHeight + (MenuItemHeight * 3) \div 4 < FbHeight
              ELSE StartY + (i \div 2) * 3 * (FbHeight \div 16) + 3 * (FbHeight \div 16) < FbHeight})
Drawn(m) == [m EXCEPT !.count = ShowCount(m)]
Scrolled(m) == IF m.sel >= m.start + m.count THEN [m EXCEPT !.start = m.sel - (m.count - 1)] ELSE m

NoMenu == [main |-> TRUE, list |-> FALSE, items |-> 0, sel |-> 0, start |-> 0, count |-> 0, selected |-> 0]

StartedMenu(isMain, list, items, initial) ==
  Drawn(Scrolled(Drawn([main |-> isMain, list |-> list, items |-> items, sel |-> initial,
                        start |-> 0, count |-> 0, selected |-> initial])))

(* A mistake: the highlight runs off the end of the list. *)
MutSelectMenu(m, sel) ==
  LET s == IF sel < -1 THEN m.items - 1 ELSE sel
  IN  Drawn(Scrolled([m EXCEPT !.sel = s, !.selected = s, !.start = IF s # -1 /\ s < @ THEN s ELSE @]))

SelectMenu(m, sel) ==
  LET s == IF sel < 0 /\ (m.main \/ sel < -1) THEN m.items - 1
           ELSE IF sel >= m.items THEN (IF m.main THEN 0 ELSE -1) ELSE sel
      up == [m EXCEPT !.sel = s, !.selected = s,
                      !.start = IF s # -1 /\ s < @ THEN s ELSE @]
  IN  IF s # m.sel THEN Drawn(Scrolled(up)) ELSE Scrolled(up)

ScrollMenu(m, updown) ==
  LET moved == [m EXCEPT !.start = @ + updown]
      sel == IF m.sel < moved.start THEN moved.start
             ELSE IF m.sel >= moved.start + m.count THEN moved.start + m.count - 1 ELSE m.sel
      can == \/ updown > 0 /\ m.start + m.count < m.items
             \/ updown < 0 /\ m.start > 0
  IN  IF can THEN Drawn([moved EXCEPT !.sel = sel, !.selected = sel])
             ELSE [m EXCEPT !.selected = m.sel]

(* The item under a finger, kGoBack for the back icon, or kNoAction.         *)
TouchedItem(m, x, y) ==
  LET h == FbWidth \div 9
      v == FbHeight \div 16
      row == (y - StartY) \div ((FbHeight * 3) \div 16)
      col == x \div (FbWidth \div 9)
      item == IF m.list THEN (y - StartY) \div (CharHeight * 3) + m.start
              ELSE IF col % 4 # 0 THEN row * 2 + ((col - 1) \div 4) ELSE kNoAction
  IN  IF y < StartY
      THEN IF ~m.main /\ x >= h \div 2 /\ x < (h * 3) \div 2 /\ y >= v \div 2 /\ y < (v * 3) \div 2
           THEN kGoBack ELSE kNoAction
      ELSE IF item >= m.items THEN kNoAction ELSE item

HandleMenuKey(key, visible) ==
  IF ~visible THEN kNoAction
  ELSE CASE key \in DownKeys \cup {KEY_RIGHTSHIFT, KEY_MENU} -> kHighlightDown
         [] key \in UpKeys \cup {KEY_LEFTSHIFT, KEY_SEARCH} -> kHighlightUp
         [] key = KEY_SCROLLUP -> kScrollUp
         [] key = KEY_SCROLLDOWN -> kScrollDown
         [] key \in {KEY_ENTER, KEY_POWER, BTN_MOUSE, KEY_SEND} -> kInvokeItem
         [] key \in HomeKeys -> kGoHome
         [] key \in {KEY_BACKSPACE, KEY_BACK} -> kGoBack
         [] key = KEY_REFRESH -> kRefresh
         [] OTHER -> IF HasThreeButtons THEN kNoAction ELSE kHighlightDown

-----------------------------------------------------------------------------
(* WaitInputEvent, for a menu and for the log viewer.                        *)

mainFrame == <<input, text, reboot, usb, pending, changes>>

(* The loop ends with an event, or without one when no cable is plugged in.  *)
Return(q) ==
  IF q = <<>>
  THEN queue' = q /\ main' = IF usb THEN [main EXCEPT !.at = "wait"] ELSE [main EXCEPT !.at = "event", !.evt = NoEvent]
  ELSE queue' = Tail(q) /\ main' = [main EXCEPT !.at = "event", !.evt = Head(q)]

(* An event is there, at once or by a signal.  The brightness may fail to be *)
(* written, which leaves the screensaver's state as it was.                  *)
GotEvent ==
  /\ main.at \in {"wait", "blocked"} /\ queue # <<>>
  /\ \E written \in BOOLEAN : saver' = IF saver \in {"DIMMED", "OFF"} /\ written THEN "NORMAL" ELSE saver
  /\ Return(IF saver = "OFF" THEN Woken(queue) ELSE queue)
  /\ UNCHANGED <<mainFrame, volumes, fresh, menu, page, viewed>>

Block ==
  /\ main.at = "wait" /\ queue = <<>>
  /\ main' = [main EXCEPT !.at = "blocked"]
  /\ UNCHANGED <<mainFrame, volumes, queue, fresh, saver, menu, page, viewed>>

(* A second passed: a change of the volumes is returned as KEY_REFRESH.      *)
VolumesTick ==
  /\ main.at = "blocked" /\ volumes
  /\ volumes' = FALSE
  /\ main' = [main EXCEPT !.at = "event", !.evt = KeyEvent(KEY_REFRESH)]
  /\ UNCHANGED <<mainFrame, queue, fresh, saver, menu, page, viewed>>

(* UI_WAIT_KEY_TIMEOUT_SEC passed; an event may have come while the waiter   *)
(* took the lock back.                                                       *)
TimedOut ==
  /\ main.at = "blocked" /\ ~volumes
  /\ \E written \in BOOLEAN :
       saver' = CASE saver = "NORMAL" /\ written -> "DIMMED"
                  [] saver = "DIMMED" /\ written -> "OFF"
                  [] OTHER -> saver
  /\ Return(queue)
  /\ UNCHANGED <<mainFrame, volumes, fresh, menu, page, viewed>>

WaitInputEvent == GotEvent \/ Block \/ VolumesTick \/ TimedOut

-----------------------------------------------------------------------------
(* get_menu_selection and its callers.                                       *)

MenuActions == [
  main |-> <<"REBOOT", "WIPE_MENU", "ADVANCED_MENU">>,
  wipe |-> <<"WIPE_DATA", "WIPE_CACHE", "WIPE_SYSTEM">>,
  advanced |-> <<"REBOOT_BOOTLOADER", "REBOOT_RECOVERY", "MOUNT_SYSTEM", "VIEW_RECOVERY_LOGS", "SHUTDOWN">>]
Questions == {"WIPE_DATA", "WIPE_CACHE", "WIPE_SYSTEM"}

Goto(at, who) == main' = [main EXCEPT !.at = at, !.who = who]
Open(who, chosen) == main' = [main EXCEPT !.at = "open", !.who = who, !.chosen = chosen, !.evt = NoEvent]
callerFrame == <<mainFrame, volumes, saver>>

StartMenu ==
  /\ main.at = "open"
  /\ FlushKeys
  /\ menu' = CASE main.who = "prompt" ->
                    StartedMenu(page = "main", page # "main", Len(MenuActions[page]), 0)
               [] main.who = "logs" -> StartedMenu(FALSE, TRUE, Logs, main.chosen)
               [] OTHER -> StartedMenu(FALSE, TRUE, 2, 0)
  /\ main' = [main EXCEPT !.at = "wait", !.view = "menu"]
  /\ UNCHANGED <<callerFrame, page, viewed>>

Choose(c) == /\ main' = [main EXCEPT !.at = "chosen", !.chosen = c, !.evt = NoEvent]
             /\ menu' = NoMenu                                        \* EndMenu
             /\ page' = IF c = kGoHome THEN "main" ELSE page
Stay(m) == main' = [main EXCEPT !.at = "wait", !.evt = NoEvent] /\ menu' = m /\ UNCHANGED page

(* A mistake: a menu waits for ever. *)
MutNothingCame ==
  /\ main.at = "event" /\ main.view = "menu" /\ main.evt = NoEvent
  /\ Stay(menu)
  /\ UNCHANGED <<callerFrame, queue, fresh, viewed>>

(* No event: a recovery whose text was never seen gives up waiting.          *)
NothingCame ==
  /\ main.at = "event" /\ main.view = "menu" /\ main.evt = NoEvent
  /\ IF text.ever THEN Stay(menu) ELSE Choose(-1)
  /\ UNCHANGED <<callerFrame, queue, fresh, viewed>>

Touched ==
  LET item == TouchedItem(menu, main.evt[2], main.evt[3])
  IN  /\ main.at = "event" /\ main.view = "menu" /\ main.evt[1] = 2
      /\ IF item = kNoAction THEN Stay(menu) ELSE Choose(item)
      /\ UNCHANGED <<callerFrame, queue, fresh, viewed>>

KeyHandled ==
  LET action == HandleMenuKey(main.evt[2], text.shown)
  IN  /\ main.at = "event" /\ main.view = "menu" /\ main.evt[1] = 1
      /\ CASE action = kInvokeItem -> Choose(IF menu.selected < 0 THEN kGoBack ELSE menu.selected)
           [] action \in {kGoBack, kGoHome} -> Choose(action)
           [] action = kHighlightUp -> Stay(SelectMenu(menu, menu.selected - 1))
           [] action = kHighlightDown -> Stay(SelectMenu(menu, menu.selected + 1))
           [] action = kScrollUp -> Stay(ScrollMenu(menu, -1))
           [] action = kScrollDown -> Stay(ScrollMenu(menu, 1))
           [] OTHER -> Stay(menu)
      /\ UNCHANGED <<callerFrame, queue, fresh, viewed>>

(* prompt_and_wait with InvokeMenuItem.                                      *)
Prompted ==
  LET c == main.chosen
      action == IF c \in 0..(Len(MenuActions[page]) - 1) THEN MenuActions[page][c + 1] ELSE "none"
  IN  /\ main.at = "chosen" /\ main.who = "prompt"
      /\ page' = CASE c \in {kGoBack, kGoHome} -> "main"
                   [] action = "WIPE_MENU" -> "wipe"
                   [] action = "ADVANCED_MENU" -> "advanced"
                   [] OTHER -> page
      /\ CASE c \in {kGoBack, kGoHome} \/ action \in {"WIPE_MENU", "ADVANCED_MENU", "MOUNT_SYSTEM"} ->
                Open("prompt", 0)
           [] c = -1 \/ action \in {"REBOOT", "REBOOT_BOOTLOADER", "REBOOT_RECOVERY", "SHUTDOWN"} ->
                Goto("off", "prompt")
           [] action = "VIEW_RECOVERY_LOGS" -> Open("logs", 0)
           [] action \in Questions /\ text.shown -> Open(action, 0)
           [] action \in Questions /\ ~text.shown -> Goto("off", "prompt")   \* wiped unasked
           [] OTHER -> Goto("undefined", "prompt")                            \* .at() throws
      /\ UNCHANGED <<callerFrame, queue, fresh, menu, viewed>>

(* yes_no's answer; a wipe of the cache ends the menu if the text has been   *)
(* hidden in the meantime.                                                   *)
Answered ==
  /\ main.at = "chosen" /\ main.who \in Questions
  /\ IF main.who = "WIPE_CACHE" /\ ~text.shown THEN Goto("off", "prompt") ELSE Open("prompt", 0)
  /\ UNCHANGED <<callerFrame, queue, fresh, menu, page, viewed>>

(* choose_recovery_file: the entry is looked up whatever else was returned.  *)
(* A file that cannot be opened leads back to the list.                      *)
LogChosen ==
  /\ main.at = "chosen" /\ main.who = "logs"
  /\ CASE main.chosen \in {kGoHome, kGoBack} -> Open("prompt", 0) /\ UNCHANGED viewed
       [] main.chosen \in 0..(Logs - 1) ->
            \/ main' = [main EXCEPT !.at = "wait", !.view = "file"] /\ viewed' = 1
            \/ Open("logs", main.chosen) /\ UNCHANGED viewed
       [] OTHER -> Goto("undefined", "logs") /\ UNCHANGED viewed
  /\ UNCHANGED <<callerFrame, queue, fresh, menu, page>>

(* ShowFile: any key but the ones that leave or go up goes one screen down,  *)
(* and leaves at the end of the file.                                        *)
ShowFile ==
  LET k == main.evt[2]
      leave == {KEY_POWER, KEY_ENTER, KEY_BACKSPACE, KEY_BACK}
      Reading(v) == main' = [main EXCEPT !.at = "wait", !.evt = NoEvent] /\ viewed' = v
  IN  /\ main.at = "event" /\ main.view = "file"
      /\ \/ main.evt[1] # 1 /\ Reading(viewed)
         \/ /\ main.evt[1] = 1 /\ k \in HomeKeys
            /\ Open("prompt", 0) /\ UNCHANGED viewed
         \/ /\ main.evt[1] = 1 /\ (k \in leave \/ (k \notin UpKeys \cup HomeKeys /\ viewed = Pages))
            /\ Open("logs", main.chosen) /\ UNCHANGED viewed
         \/ /\ main.evt[1] = 1 /\ k \in UpKeys
            /\ Reading(IF viewed = 1 THEN 1 ELSE viewed - 1)
         \/ /\ main.evt[1] = 1 /\ k \notin leave \cup UpKeys \cup HomeKeys /\ viewed < Pages
            /\ Reading(viewed + 1)
      /\ UNCHANGED <<callerFrame, queue, fresh, menu, page>>

(* install_package returns: the reboot keys work again, the menu opens.      *)
InstallEnds ==
  /\ main.at = "install"
  /\ reboot' = TRUE /\ Open("prompt", 0)
  /\ UNCHANGED <<input, text, volumes, world, saver, queue, fresh, menu, page, viewed>>

-----------------------------------------------------------------------------
(* The rest of the world: the cable is pulled, a volume comes or goes.       *)

Unplug == main.at # "off" /\ usb /\ usb' = FALSE
          /\ UNCHANGED <<input, shared, screen, pending, changes>>

onVolumeChanged ==
  /\ main.at # "off" /\ changes > 0
  /\ changes' = changes - 1 /\ volumes' = TRUE
  /\ UNCHANGED <<input, queue, fresh, text, reboot, screen, usb, pending>>

Ended == main.at \in {"off", "undefined"} /\ UNCHANGED vars

(* A scenario says in which order readdir lists the devices (any order is    *)
(* possible) and what they send, whether the screensaver works, whether the  *)
(* text is on from the start or comes with a swipe, whether a cable is       *)
(* plugged in, and how often the volumes change.  Recovery starts with a     *)
(* package to install.                                                       *)
Init ==
  /\ \E c \in Scenarios :
       /\ has = Visited(Opened(c.devices)) /\ pending = c.sends
       /\ saver = c.saver /\ text = [shown |-> c.shown, ever |-> c.shown, onSwipe |-> c.onSwipe]
       /\ usb = c.usb /\ changes = c.changes
  /\ touch = [slot |-> 0, down |-> FALSE, sawX |-> FALSE, sawY |-> FALSE, reported |-> FALSE,
              swiped |-> FALSE, pos |-> Origin, start |-> Origin, track |-> Origin]
  /\ rel = 0 /\ calls = <<>> /\ proc = Idle
  /\ keys = [pressed |-> {}, last |-> -1, long |-> FALSE, count |-> 0]
  /\ timers = {} /\ powers = 0 /\ reboot = FALSE
  /\ queue = <<>> /\ fresh = FALSE /\ volumes = FALSE
  /\ main = [at |-> "install", who |-> "prompt", view |-> "none", chosen |-> 0, evt |-> NoEvent]
  /\ menu = NoMenu /\ page = "main" /\ viewed = 1

InputThread == ProcessKey \/ CheckKey \/ ApplyKey
MainThread == StartMenu \/ WaitInputEvent \/ NothingCame \/ Touched \/ KeyHandled
              \/ Prompted \/ Answered \/ LogChosen \/ ShowFile \/ InstallEnds
Timers == \E t \in timers : TimeKey(t)

Next == OnInputEvent \/ InputThread \/ Timers \/ MainThread \/ Unplug \/ onVolumeChanged \/ Ended

(* The threads run; nobody has to press anything or pull the cable.          *)
Spec == Init /\ [][Next]_vars /\ WF_vars(InputThread) /\ WF_vars(Timers) /\ WF_vars(MainThread)

-----------------------------------------------------------------------------
(* A key that is registered as pressed long was held for that long: the      *)
(* timer of this very press has run, not that of an earlier press of the     *)
(* same key (ui.cpp, time_key and ProcessKey).                               *)
LongPressWasHeld == proc.act = "check" /\ proc.long => <<proc.key, keys.count>> \notin timers

(* Whatever is pressed, scrolled and touched, a caller of                    *)
(* get_menu_selection looks up an item of its own list (device.cpp,          *)
(* menu_actions_.at, and recovery.cpp, entries[chosen_item]); the one        *)
(* exception is the list of logs, which looks up the -1 of a time-out too.   *)
ChosenIsAnItem == main.at = "undefined" => main.who = "logs" /\ main.chosen = -1

(* A question that destroys data is not answered yes by keys or touches that *)
(* were queued before it was asked (recovery.cpp, FlushKeys in               *)
(* get_menu_selection).                                                      *)
AnswersAreFresh == main.at = "chosen" /\ main.who \in Questions /\ main.chosen = 1 => fresh

(* A device nobody looks at does not stay in recovery: if the text is never  *)
(* shown, the cable is out and no log is open, the menu times out and the    *)
(* device reboots (recovery.cpp, get_menu_selection's -1).                   *)
UnattendedEnds ==
  <>[](~usb /\ ~text.ever /\ main.view # "file") => <>(main.at \in {"off", "undefined"})

=============================================================================
