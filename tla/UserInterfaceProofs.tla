------------------------- MODULE UserInterfaceProofs -------------------------
(***************************************************************************)
(* Proofs about the menu's threads: for every screen, every queue length,  *)
(* every list of devices and everything they may send, a long press was    *)
(* held, a question is answered by what came after it was asked, and what  *)
(* a menu returns is an item of its list.                                  *)
(***************************************************************************)
EXTENDS UserInterface, FiniteSetTheorems, WellFoundedInduction, TLAPS

-----------------------------------------------------------------------------
(* The inductive invariant.                                                  *)

(* An event of the queue: three words, none of them negative, also when      *)
(* waking up has mixed the words of several events.                          *)
Words == [1..3 -> Nat]
Acts == {"none", "check", "TOGGLE", "REBOOT", "ENQUEUE"}
Showing == {"wait", "blocked", "event"}
Callers == {"prompt", "logs"} \cup Questions

TouchType ==
  touch \in [slot : Int, down : BOOLEAN, sawX : BOOLEAN, sawY : BOOLEAN, reported : BOOLEAN,
             swiped : BOOLEAN, pos : [x : Nat, y : Nat], start : Points, track : Points]
CallsType == calls \in Seq(Nat \X Int)
ProcType ==
  /\ proc \in [key : Int, long : BOOLEAN, allowed : BOOLEAN, act : Acts]
  /\ proc.act # "none" => proc.key \in Nat
  /\ reboot \in BOOLEAN
KeysType ==
  /\ keys \in [pressed : SUBSET Nat, last : Int, long : BOOLEAN, count : Nat]
  /\ timers \subseteq Nat \X Nat
QueueType == queue \in Seq(Words) /\ fresh \in BOOLEAN
MainType ==
  /\ main \in [at : {"install", "open", "chosen", "off", "undefined"} \cup Showing, who : Callers,
               view : {"none", "menu", "file"}, chosen : Int, evt : Words]
  /\ page \in DOMAIN MenuActions

(* What the threads keep in the state that they share.                       *)
TypeInv ==
  /\ TouchType /\ CallsType /\ ProcType /\ KeysType /\ QueueType /\ MainType
  /\ pending \in Seq(RawEvents)

(* Every press has a timer of its own, and a key is marked as pressed long   *)
(* only once the timer of its last press is gone.                            *)
TimersInv ==
  /\ \A t \in timers : t[2] <= keys.count
  /\ \A t, u \in timers : t[2] = u[2] => t = u
  /\ keys.long => \A t \in timers : t[2] # keys.count
  /\ proc.act = "check" /\ proc.long => \A t \in timers : t[2] # keys.count

(* What came out of the queue was put there after the last FlushKeys.        *)
FreshInv ==
  /\ queue # <<>> => fresh
  /\ main.at = "event" /\ main.evt # NoEvent /\ main.evt # KeyEvent(KEY_REFRESH) => fresh
  /\ main.at = "chosen" /\ main.chosen = 1 => fresh

Items(who, pg) == CASE who = "prompt" -> Len(MenuActions[pg]) [] who = "logs" -> Logs [] OTHER -> 2
Results(n) == {-1, kGoBack, kGoHome} \cup 0..(n - 1)

(* A menu that can be highlighted and scrolled: the highlight is on an item  *)
(* or on the back icon (-1), the items shown are items of the menu, at least *)
(* one is, and the grid of the main menu shows all of them.                  *)
Fields == [main : BOOLEAN, list : BOOLEAN, items : Nat \ {0}, sel : Int, start : Nat,
           count : Nat, selected : Int]
GoodMenu(m) ==
  /\ m \in Fields
  /\ m.sel \in -1..(m.items - 1) /\ m.selected \in -1..(m.items - 1)
  /\ m.start \in 0..(m.items - 1)
  /\ m.count \in 1..(m.items - m.start)
  /\ ~m.list => m.items = 3 /\ m.start = 0 /\ m.count = 3

MenuInv ==
  /\ main.at \in Showing => main.view # "none"
  /\ main.at \in Showing /\ main.view = "menu" => GoodMenu(menu) /\ menu.items = Items(main.who, page)
  /\ main.at \in Showing /\ main.view = "file" => main.who = "logs"
  /\ main.who = "logs" /\ (main.at = "open" \/ (main.at \in Showing /\ main.view = "file")) =>
       main.chosen \in 0..(Logs - 1)
  /\ main.at = "chosen" => main.chosen \in Results(Items(main.who, page))
  /\ ChosenIsAnItem

IInv == TypeInv /\ TimersInv /\ FreshInv /\ MenuInv

-----------------------------------------------------------------------------
(* The menu on the screen.                                                   *)

(* Dividing by a positive number keeps a number from becoming negative.      *)
LEMMA DivNat == ASSUME NEW a \in Nat, NEW b \in Nat \ {0} PROVE a \div b \in Nat
  OBVIOUS

(* Drawing finds room for at least one item of a list, for no more than are  *)
(* left from the first shown one on, and for all items of the main menu's    *)
(* grid.                                                                     *)
LEMMA ShowCountBounds ==
  ASSUME NEW m \in Fields, m.start \in 0..(m.items - 1), ~m.list => m.items = 3 /\ m.start = 0
  PROVE  /\ ShowCount(m) \in 1..(m.items - m.start)
         /\ ~m.list => ShowCount(m) = 3
<1> DEFINE Room(i) == IF m.list THEN StartY + (i - m.start) * CharHeight + (MenuItemHeight * 3) \div 4 < FbHeight
                      ELSE StartY + (i \div 2) * 3 * (FbHeight \div 16) + 3 * (FbHeight \div 16) < FbHeight
           S == {i \in m.start..(m.items - 1) : Room(i)}
<1> USE DEF Fields
<1>1. IsFiniteSet(m.start..(m.items - 1)) /\ Cardinality(m.start..(m.items - 1)) = m.items - m.start
  <2>1. m.start \in Int /\ m.items - 1 \in Int /\ m.start <= m.items - 1
    OBVIOUS
  <2> QED BY <2>1, FS_Interval
<1>2. IsFiniteSet(S) /\ Cardinality(S) <= m.items - m.start /\ Cardinality(S) \in Nat
  <2>1. S \subseteq m.start..(m.items - 1)
    OBVIOUS
  <2>2. IsFiniteSet(S) /\ Cardinality(S) <= Cardinality(m.start..(m.items - 1))
    BY <1>1, <2>1, FS_Subset
  <2> QED BY <1>1, <2>2, FS_CardinalityType
<1>3. ShowCount(m) = Cardinality(S)
  BY DEF ShowCount
<1>4. FbHeight \div 16 \in Nat
  BY DivNat, ScreenAssumption
<1>5. Room(m.start)
  <2>1. CASE m.list
    <3>1. (m.start - m.start) * CharHeight = 0 /\ (MenuItemHeight * 3) \div 4 = (9 * CharHeight) \div 4
      BY UiAssumption DEF MenuItemHeight
    <3> HIDE DEF Fields
    <3> QED BY <2>1, <3>1, ScreenAssumption
  <2>2. CASE ~m.list
    <3>1. (m.start \div 2) * 3 * (FbHeight \div 16) = 0
      BY <2>2, <1>4
    <3> QED BY <2>2, <3>1, <1>4, ScreenAssumption
  <2> QED BY <2>1, <2>2
<1>6. Cardinality(S) # 0
  <2>1. m.start \in S
    BY <1>5
  <2> QED BY <2>1, <1>2, FS_EmptySet
<1>7. ASSUME ~m.list PROVE Cardinality(S) = 3
  <2>1. \A i \in 0..2 : Room(i)
    <3> TAKE i \in 0..2
    <3>1. i \div 2 = 0 \/ i \div 2 = 1
      OBVIOUS
    <3>2. (i \div 2) * 3 * (FbHeight \div 16) <= 3 * (FbHeight \div 16)
      BY <3>1, <1>4
    <3>3. (i \div 2) * 3 * (FbHeight \div 16) \in Int
      BY <3>1, <1>4
    <3> QED BY <1>7, <1>4, <3>2, <3>3, ScreenAssumption
  <2>2. m.start..(m.items - 1) = 0..2
    BY <1>7
  <2>3. S = m.start..(m.items - 1)
    BY <2>1, <2>2
  <2>4. m.items - m.start = 3
    BY <1>7
  <2> QED
    <3> HIDE DEF S
    <3> QED BY <2>3, <2>4, <1>1
<1> QED
  <2> HIDE DEF S
  <2> QED BY <1>2, <1>3, <1>6, <1>7

(* A menu before it is drawn: all that GoodMenu says but its count.          *)
Placed(m) ==
  /\ m \in Fields
  /\ m.sel \in -1..(m.items - 1) /\ m.selected \in -1..(m.items - 1)
  /\ m.start \in 0..(m.items - 1)
  /\ ~m.list => m.items = 3 /\ m.start = 0

LEMMA DrawnGood ==
  ASSUME NEW m, Placed(m)
  PROVE  GoodMenu(Drawn(m)) /\ Drawn(m).items = m.items /\ Drawn(m).sel = m.sel
<1>1. ShowCount(m) \in 1..(m.items - m.start) /\ (~m.list => ShowCount(m) = 3)
  BY ShowCountBounds DEF Placed
<1> QED
  BY <1>1 DEF GoodMenu, Drawn, Placed, Fields

(* Scrolling to the highlight keeps the shown items within the menu.         *)
LEMMA ScrolledGood ==
  ASSUME NEW m, GoodMenu(m)
  PROVE  GoodMenu(Scrolled(m)) /\ Scrolled(m).items = m.items
  BY DEF GoodMenu, Scrolled, Fields

LEMMA GoodIsPlaced == ASSUME NEW m, GoodMenu(m) PROVE Placed(m)
  BY DEF GoodMenu, Placed

(* StartMenu: a menu that is opened at one of its items.                     *)
LEMMA StartedMenuGood ==
  ASSUME NEW isMain \in BOOLEAN, NEW list \in BOOLEAN, NEW items \in Nat \ {0},
         NEW initial \in 0..(items - 1), ~list => items = 3
  PROVE  LET m == StartedMenu(isMain, list, items, initial) IN GoodMenu(m) /\ m.items = items
<1> DEFINE m == [main |-> isMain, list |-> list, items |-> items, sel |-> initial,
                 start |-> 0, count |-> 0, selected |-> initial]
<1>1. Placed(m) /\ m.items = items
  BY DEF Placed, Fields
<1> HIDE DEF m
<1>2. GoodMenu(Drawn(m)) /\ Drawn(m).items = items
  BY <1>1, DrawnGood
<1>3. GoodMenu(Scrolled(Drawn(m))) /\ Scrolled(Drawn(m)).items = items
  BY <1>2, ScrolledGood
<1>4. GoodMenu(Drawn(Scrolled(Drawn(m)))) /\ Drawn(Scrolled(Drawn(m))).items = items
  BY <1>3, DrawnGood, GoodIsPlaced
<1> QED BY <1>4 DEF StartedMenu, m

(* SelectMenu: the highlight moves by one, wraps around, or goes to the back *)
(* icon.                                                                     *)
LEMMA SelectMenuGood ==
  ASSUME NEW m, GoodMenu(m), NEW sel \in -2..m.items
  PROVE  GoodMenu(SelectMenu(m, sel)) /\ SelectMenu(m, sel).items = m.items
<1> DEFINE s == IF sel < 0 /\ (m.main \/ sel < -1) THEN m.items - 1
                ELSE IF sel >= m.items THEN (IF m.main THEN 0 ELSE -1) ELSE sel
           up == [m EXCEPT !.sel = s, !.selected = s, !.start = IF s # -1 /\ s < @ THEN s ELSE @]
<1>1. s \in -1..(m.items - 1)
  BY DEF GoodMenu, Fields
<1> HIDE DEF s
<1>2. GoodMenu(up) /\ up.items = m.items
  <2>1. /\ up.main = m.main /\ up.list = m.list /\ up.items = m.items /\ up.count = m.count
        /\ up.sel = s /\ up.selected = s
        /\ up.start = IF s # -1 /\ s < m.start THEN s ELSE m.start
    BY DEF GoodMenu, Fields
  <2>2. up.start \in 0..m.start
    BY <1>1, <2>1 DEF GoodMenu, Fields
  <2>3. up \in Fields
    <3>1. (IF s # -1 /\ s < m.start THEN s ELSE m.start) \in Nat /\ s \in Int
      BY <1>1 DEF GoodMenu, Fields
    <3> QED BY <3>1 DEF GoodMenu, Fields
  <2> HIDE DEF up
  <2> QED BY <1>1, <2>1, <2>2, <2>3 DEF GoodMenu, Fields
<1>3. SelectMenu(m, sel) = IF s # m.sel THEN Drawn(Scrolled(up)) ELSE Scrolled(up)
  BY DEF SelectMenu, s
<1> HIDE DEF up
<1>4. GoodMenu(Scrolled(up)) /\ Scrolled(up).items = m.items
  BY <1>2, ScrolledGood
<1>5. GoodMenu(Drawn(Scrolled(up))) /\ Drawn(Scrolled(up)).items = m.items
  BY <1>4, DrawnGood, GoodIsPlaced
<1> QED BY <1>3, <1>4, <1>5

(* ScrollMenu: the list moves by one item and takes the highlight along.     *)
LEMMA ScrollMenuGood ==
  ASSUME NEW m, GoodMenu(m), NEW updown \in {-1, 1}
  PROVE  GoodMenu(ScrollMenu(m, updown)) /\ ScrollMenu(m, updown).items = m.items
<1> DEFINE start == m.start + updown
           sel == IF m.sel < start THEN start
                  ELSE IF m.sel >= start + m.count THEN start + m.count - 1 ELSE m.sel
           can == \/ updown > 0 /\ m.start + m.count < m.items
                  \/ updown < 0 /\ m.start > 0
           moved == [[m EXCEPT !.start = start] EXCEPT !.sel = sel, !.selected = sel]
<1>1. CASE can
  <2>1. start \in 0..(m.items - 1) /\ sel \in -1..(m.items - 1) /\ m.list
    BY <1>1 DEF GoodMenu, Fields
  <2>2. ScrollMenu(m, updown) = Drawn(moved)
    BY <1>1 DEF ScrollMenu, GoodMenu, Fields
  <2> HIDE DEF start, sel, can
  <2>3. Placed(moved) /\ moved.items = m.items
    <3>1. /\ moved.main = m.main /\ moved.list = m.list /\ moved.items = m.items /\ moved.count = m.count
          /\ moved.sel = sel /\ moved.selected = sel /\ moved.start = start
      BY DEF GoodMenu, Fields
    <3>2. moved \in Fields
      <4>1. start \in Nat /\ sel \in Int
        BY <2>1 DEF GoodMenu, Fields
      <4> QED BY <4>1 DEF GoodMenu, Fields
    <3> HIDE DEF moved
    <3> QED BY <2>1, <3>1, <3>2 DEF Placed, GoodMenu, Fields
  <2> QED BY <2>2, <2>3, DrawnGood
<1>2. CASE ~can
  <2>1. ScrollMenu(m, updown) = [m EXCEPT !.selected = m.sel]
    BY <1>2 DEF ScrollMenu, GoodMenu, Fields
  <2> QED BY <2>1 DEF GoodMenu, Fields
<1> QED BY <1>1, <1>2

(* A finger selects an item of the menu, the back icon or nothing.           *)
LEMMA TouchedItemIsAnItem ==
  ASSUME NEW m, GoodMenu(m), NEW x \in Nat, NEW y \in Nat
  PROVE  TouchedItem(m, x, y) \in {kNoAction, kGoBack} \cup 0..(m.items - 1)
<1> DEFINE row == (y - StartY) \div ((FbHeight * 3) \div 16)
           col == x \div (FbWidth \div 9)
           item == IF m.list THEN (y - StartY) \div (CharHeight * 3) + m.start
                   ELSE IF col % 4 # 0 THEN row * 2 + ((col - 1) \div 4) ELSE kNoAction
<1>1. CASE y < StartY
  BY <1>1 DEF TouchedItem
<1>2. CASE ~(y < StartY)
  <2>1. y - StartY \in Nat
    BY <1>2, ScreenAssumption
  <2>2. (FbHeight * 3) \div 16 \in Nat \ {0} /\ FbWidth \div 9 \in Nat \ {0} /\ CharHeight * 3 \in Nat \ {0}
    BY ScreenAssumption, UiAssumption
  <2>3. row \in Nat /\ col \in Nat /\ (y - StartY) \div (CharHeight * 3) \in Nat
    BY <2>1, <2>2, DivNat
  <2>4. TouchedItem(m, x, y) = IF item >= m.items THEN kNoAction ELSE item
    BY <1>2 DEF TouchedItem
  <2> HIDE DEF row, col
  <2>5. CASE m.list
    <3>1. item \in Nat
      BY <2>3, <2>5 DEF GoodMenu, Fields
    <3> QED BY <2>4, <3>1 DEF GoodMenu, Fields
  <2>6. CASE ~m.list
    <3>1. item \in Nat \/ item = kNoAction
      <4>1. CASE col % 4 # 0
        <5>1. col - 1 \in Nat
          BY <4>1, <2>3
        <5>2. (col - 1) \div 4 \in Nat
          BY <5>1, DivNat
        <5> QED BY <2>3, <2>6, <4>1, <5>2
      <4>2. CASE ~(col % 4 # 0)
        BY <4>2, <2>6
      <4> QED BY <4>1, <4>2
    <3> QED BY <2>4, <3>1 DEF GoodMenu, Fields, kNoAction
  <2> QED BY <2>5, <2>6
<1> QED BY <1>1, <1>2

-----------------------------------------------------------------------------
(* The queue.                                                                *)

Queued == QueueType /\ (queue # <<>> => fresh)

LEMMA EnqueueQueued ==
  ASSUME Queued, NEW ev \in Words, Enqueue(ev)
  PROVE  Queued' /\ (fresh => fresh')
<1> USE DEF Queued, QueueType
<1>1. CASE Len(queue) < QueueMax
  <2>1. queue' = Append(queue, ev) /\ fresh' = TRUE
    BY <1>1 DEF Enqueue
  <2> QED BY <2>1
<1>2. CASE ~(Len(queue) < QueueMax)
  <2>1. queue' = queue
    BY <1>2 DEF Enqueue
  <2>2. fresh' = fresh
    BY <1>2 DEF Enqueue
  <2> QED BY <2>1, <2>2
<1> QED BY <1>1, <1>2

LEMMA WordType ==
  ASSUME NEW q \in Seq(Words), NEW w \in 1..(3 * Len(q))
  PROVE  Word(q, w) \in Nat
<1>1. 1 + (w - 1) \div 3 \in 1..Len(q) /\ 1 + ((w - 1) % 3) \in 1..3
  OBVIOUS
<1>2. q[1 + (w - 1) \div 3] \in Words
  BY <1>1
<1> QED BY <1>1, <1>2 DEF Word, Words

(* Waking up mixes words, but takes them from the queue.                     *)
LEMMA WokenType ==
  ASSUME NEW q \in Seq(Words), q # <<>>
  PROVE  Woken(q) \in Seq(Words)
<1> DEFINE n == Len(q) - 1
           W(i, j) == Word(q, IF 3 * (i - 1) + j <= n THEN 3 * (i - 1) + j + 3 ELSE 3 * (i - 1) + j)
<1>1. n \in Nat
  OBVIOUS
<1>2. ASSUME NEW i \in 1..n, NEW j \in 1..3 PROVE W(i, j) \in Nat
  <2>1. (IF 3 * (i - 1) + j <= n THEN 3 * (i - 1) + j + 3 ELSE 3 * (i - 1) + j) \in 1..(3 * Len(q))
    OBVIOUS
  <2> QED BY <2>1, WordType
<1>3. Woken(q) = [i \in 1..n |-> [j \in 1..3 |-> W(i, j)]]
  BY DEF Woken
<1> HIDE DEF W, n
<1>4. Woken(q) \in [1..n -> Words]
  BY <1>2, <1>3 DEF Words
<1> QED BY <1>1, <1>4

-----------------------------------------------------------------------------
(* The input thread.                                                         *)

(* InOrder lists the numbers of S: for every position there is one that has  *)
(* as many numbers of S up to it.                                            *)
LEMMA InOrderListsS ==
  ASSUME NEW n \in Nat, NEW S \in SUBSET (1..n), NEW j \in 1..Cardinality(S)
  PROVE  InOrder(S)[j] \in S
<1> DEFINE Below(i) == {k \in S : k <= i}
           T == {i \in 1..n : Cardinality(Below(i)) >= j}
           R == OpToRel(<, Nat)
<1>0. \A k \in S : k \in Int /\ 1 <= k /\ k <= n
  OBVIOUS
<1>1. IsFiniteSet(S) /\ Cardinality(S) \in Nat
  <2>1. IsFiniteSet(1..n)
    BY FS_Interval
  <2>2. IsFiniteSet(S)
    BY <2>1, FS_Subset
  <2> QED BY <2>2, FS_CardinalityType
<1>2. \A i \in Int : IsFiniteSet(Below(i)) /\ Cardinality(Below(i)) \in Nat
  BY <1>1, FS_Subset, FS_CardinalityType
<1>3. n \in T
  <2>1. Below(n) = S
    BY <1>0
  <2>2. n # 0
    <3>1. SUFFICES ASSUME n = 0 PROVE FALSE
      OBVIOUS
    <3>2. S = {}
      BY <3>1
    <3> QED BY <3>2, FS_EmptySet
  <2> QED
    <3>1. Cardinality(Below(n)) >= j
      BY <2>1, <1>1
    <3> HIDE DEF Below
    <3> QED BY <3>1, <2>2
<1>4. PICK i \in T : \A k \in T : ~(k < i)
  <2>1. T \in SUBSET Nat
    OBVIOUS
  <2>2. \E x \in T : \A y \in T : ~(<<y, x>> \in R)
    <3> HIDE DEF T
    <3> QED BY <1>3, <2>1, NatLessThanWellFounded, WFMin
  <2>3. \A x \in T, y \in T : y < x => <<y, x>> \in R
    <3> HIDE DEF T
    <3> QED BY <2>1 DEF OpToRel
  <2> HIDE DEF T, R
  <2> QED BY <2>2, <2>3
<1>5. i \in 1..n /\ Cardinality(Below(i)) >= j
  OBVIOUS
<1>6. Cardinality(Below(i - 1)) < j
  <2>1. CASE i = 1
    <3>0. \A k \in S : ~(k <= 0)
      BY <1>0
    <3>1. Below(0) = {}
      BY <3>0
    <3>2. Cardinality(Below(i - 1)) = 0
      BY <2>1, <3>1, FS_EmptySet
    <3> HIDE DEF Below
    <3> QED BY <3>2
  <2>2. CASE i # 1
    <3>1. i - 1 \in 1..n /\ i - 1 < i
      BY <1>5, <2>2
    <3>2. i - 1 \notin T
      BY <1>4, <3>1
    <3>3. Cardinality(Below(i - 1)) \in Nat
      <4>1. i - 1 \in Int
        BY <3>1
      <4> HIDE DEF Below
      <4> QED BY <1>2, <4>1
    <3> HIDE DEF Below
    <3> QED BY <3>1, <3>2, <3>3
  <2> QED BY <2>1, <2>2
<1>7. Below(i) = IF i \in S THEN Below(i - 1) \cup {i} ELSE Below(i - 1)
  <2>1. \A k \in S : k <= i <=> k <= i - 1 \/ k = i
    BY <1>0, <1>5
  <2> QED BY <2>1, <1>5
<1>8. i \notin Below(i - 1)
  BY <1>5
<1>9. IsFiniteSet(Below(i - 1)) /\ Cardinality(Below(i - 1)) \in Nat
  <2>1. i - 1 \in Int
    BY <1>5
  <2> HIDE DEF Below
  <2> QED BY <1>2, <2>1
<1>10. i \in S /\ Cardinality(Below(i)) = j
  <2> HIDE DEF Below, T
  <2>1. i \in S
    BY <1>5, <1>6, <1>7, <1>9
  <2>2. Cardinality(Below(i)) = Cardinality(Below(i - 1)) + 1
    BY <2>1, <1>7, <1>8, <1>9, FS_AddElement
  <2> QED BY <2>1, <2>2, <1>5, <1>6, <1>9
<1>11. \E k \in S : Cardinality({l \in S : l <= k}) = j
  BY <1>10
<1> QED BY <1>11 DEF InOrder

(* An event of a device leaves the keys and the main thread alone.           *)
LEMMA SentInv ==
  ASSUME IInv, NEW type, Sent(type), TouchType', CallsType', Queued', fresh => fresh'
  PROVE  IInv'
<1>1. UNCHANGED <<proc, keys, timers, reboot, main, menu, page>> /\ pending' = Tail(pending) /\ pending # <<>>
  BY DEF Sent, screen
<1>2. TypeInv'
  <2>1. (pending \in Seq(RawEvents))'
    <3>1. pending \in Seq(RawEvents)
      BY DEF IInv, TypeInv
    <3> QED BY <1>1, <3>1
  <2>2. ProcType' /\ KeysType' /\ MainType'
    BY <1>1 DEF IInv, TypeInv, ProcType, KeysType, MainType
  <2> QED BY <2>1, <2>2 DEF TypeInv, Queued
<1>3. TimersInv'
  BY <1>1 DEF IInv, TimersInv
<1>4. FreshInv'
  BY <1>1 DEF IInv, FreshInv, Queued
<1>5. MenuInv'
  BY <1>1 DEF IInv, MenuInv, ChosenIsAnItem
<1> QED BY <1>2, <1>3, <1>4, <1>5 DEF IInv

LEMMA TapType == ASSUME NEW k \in Nat PROVE Tap(k) \in Seq(Nat \X Int)
  BY DEF Tap

LEMMA QueuedNow == ASSUME IInv PROVE Queued /\ TouchType /\ CallsType
  BY DEF IInv, TypeInv, FreshInv, Queued

LEMMA SentEvent == ASSUME IInv, NEW type, Sent(type) PROVE e \in RawEvents /\ e.type = type
<1>1. pending \in Seq(RawEvents) /\ pending # <<>> /\ e.type = type
  BY DEF Sent, IInv, TypeInv
<1> QED BY <1>1 DEF e

LEMMA OnTouchPressInv == ASSUME IInv, OnTouchPress PROVE IInv'
<1>0. touch.pos \in Points
  BY QueuedNow DEF TouchType, Points
<1>1. TouchType'
  BY <1>0, QueuedNow DEF OnTouchPress, TouchType
<1>2. CallsType' /\ Queued' /\ (fresh => fresh')
  BY QueuedNow DEF OnTouchPress, CallsType, Queued, QueueType
<1> QED BY <1>1, <1>2, SentInv DEF OnTouchPress

(* The virtual keys that were hit are pressed and released one by one.       *)
LEMMA HitCallsType ==
  ASSUME NEW hit \in SUBSET DOMAIN VirtualKeys
  PROVE  [n \in 1..(2 * Cardinality(hit)) |->
           <<VirtualKeys[InOrder(hit)[(n + 1) \div 2]].keycode, n % 2>>] \in Seq(Nat \X Int)
<1>1. VirtualKeys \in Seq([keycode : Nat, min : Points, max : Points])
  BY DevicesAssumption
<1>2. Len(VirtualKeys) \in Nat /\ hit \in SUBSET (1..Len(VirtualKeys))
  BY <1>1
<1>3. Cardinality(hit) \in Nat
  <2>1. IsFiniteSet(1..Len(VirtualKeys))
    BY <1>2, FS_Interval
  <2> QED BY <1>2, <2>1, FS_Subset, FS_CardinalityType
<1>4. ASSUME NEW n \in 1..(2 * Cardinality(hit))
      PROVE  <<VirtualKeys[InOrder(hit)[(n + 1) \div 2]].keycode, n % 2>> \in Nat \X Int
  <2>1. (n + 1) \div 2 \in 1..Cardinality(hit) /\ n % 2 \in Int
    BY <1>3
  <2>2. InOrder(hit)[(n + 1) \div 2] \in hit
    BY <1>2, <2>1, InOrderListsS
  <2>3. VirtualKeys[InOrder(hit)[(n + 1) \div 2]].keycode \in Nat
    <3> DEFINE i == InOrder(hit)[(n + 1) \div 2]
               V == [keycode : Nat, min : Points, max : Points]
    <3>1. i \in 1..Len(VirtualKeys)
      BY <1>2, <2>2
    <3>2. VirtualKeys \in Seq(V)
      BY <1>1
    <3>3. \A v \in V : v.keycode \in Nat
      OBVIOUS
    <3> HIDE DEF i, V
    <3>4. VirtualKeys[i] \in V
      BY <3>1, <3>2
    <3>5. VirtualKeys[i].keycode \in Nat
      BY <3>3, <3>4
    <3> QED BY <3>5 DEF i
  <2> QED BY <2>1, <2>3
<1>5. 2 * Cardinality(hit) \in Nat
  BY <1>3
<1> DEFINE c == [n \in 1..(2 * Cardinality(hit)) |->
                  <<VirtualKeys[InOrder(hit)[(n + 1) \div 2]].keycode, n % 2>>]
<1>6. c \in [1..(2 * Cardinality(hit)) -> Nat \X Int]
  BY <1>4
<1>7. c \in Seq(Nat \X Int)
  <2> DEFINE N == 2 * Cardinality(hit)
  <2>1. N \in Nat /\ c \in [1..N -> Nat \X Int]
    BY <1>5, <1>6
  <2> HIDE DEF N, c
  <2> QED BY <2>1
<1> QED BY <1>7

LEMMA OnTouchReleaseInv == ASSUME IInv, OnTouchRelease PROVE IInv'
<1> DEFINE hit == {i \in DOMAIN VirtualKeys :
                     Inside(VirtualKeys[i], touch.start) /\ Inside(VirtualKeys[i], touch.pos)}
           up == [touch EXCEPT !.reported = FALSE, !.sawX = FALSE, !.sawY = FALSE]
           dx == touch.pos.x - touch.start.x
<1>1. TouchType'
  <2>1. touch' = up \/ touch' = [up EXCEPT !.swiped = FALSE]
    BY DEF OnTouchRelease
  <2> QED BY <2>1, QueuedNow DEF TouchType
<1>2. CallsType' /\ Queued' /\ (fresh => fresh')
  <2>1. \/ UNCHANGED <<calls, queue, fresh>>
        \/ /\ calls' = [n \in 1..(2 * Cardinality(hit)) |->
                         <<VirtualKeys[InOrder(hit)[(n + 1) \div 2]].keycode, n % 2>>]
           /\ UNCHANGED <<queue, fresh>>
        \/ calls' = Tap(IF dx < 0 THEN KEY_BACK ELSE KEY_POWER) /\ UNCHANGED <<queue, fresh>>
        \/ Enqueue(TouchEvent(touch.pos)) /\ UNCHANGED calls
    BY DEF OnTouchRelease
  <2>2. CASE UNCHANGED <<calls, queue, fresh>>
    BY <2>2, QueuedNow DEF CallsType, Queued, QueueType
  <2>3. CASE /\ calls' = [n \in 1..(2 * Cardinality(hit)) |->
                           <<VirtualKeys[InOrder(hit)[(n + 1) \div 2]].keycode, n % 2>>]
             /\ UNCHANGED <<queue, fresh>>
    <3>1. calls' \in Seq(Nat \X Int)
      <4>1. hit \in SUBSET DOMAIN VirtualKeys
        OBVIOUS
      <4> HIDE DEF hit
      <4> QED BY <2>3, <4>1, HitCallsType
    <3> QED BY <2>3, <3>1, QueuedNow DEF CallsType, Queued, QueueType
  <2>4. CASE calls' = Tap(IF dx < 0 THEN KEY_BACK ELSE KEY_POWER) /\ UNCHANGED <<queue, fresh>>
    <3>1. (IF dx < 0 THEN KEY_BACK ELSE KEY_POWER) \in Nat
      BY DEF KEY_BACK, KEY_POWER
    <3> HIDE DEF dx
    <3>2. CallsType'
      BY <2>4, <3>1, TapType DEF CallsType
    <3> QED BY <2>4, <3>2, QueuedNow DEF Queued, QueueType
  <2>5. CASE Enqueue(TouchEvent(touch.pos)) /\ UNCHANGED calls
    <3>1. TouchEvent(touch.pos) \in Words
      <4>1. touch.pos.x \in Nat /\ touch.pos.y \in Nat
        BY QueuedNow DEF TouchType
      <4> QED BY <4>1 DEF TouchEvent, Words
    <3> QED BY <2>5, <3>1, EnqueueQueued, QueuedNow DEF CallsType
  <2> QED BY <2>1, <2>2, <2>3, <2>4, <2>5
<1> QED BY <1>1, <1>2, SentInv DEF OnTouchRelease

LEMMA ReportedInv == ASSUME IInv, Reported PROVE IInv'
<1>1. TouchType' /\ CallsType' /\ Queued' /\ (fresh => fresh')
  BY QueuedNow DEF Reported, TouchType, CallsType, Queued, QueueType
<1> QED BY <1>1, SentInv DEF Reported

LEMMA OnTouchTrackType ==
  ASSUME NEW t, t \in [slot : Int, down : BOOLEAN, sawX : BOOLEAN, sawY : BOOLEAN, reported : BOOLEAN,
                       swiped : BOOLEAN, pos : [x : Nat, y : Nat], start : Points, track : Points],
         OnTouchTrack(t)
  PROVE  TouchType' /\ CallsType'
<1> DEFINE dy == t.pos.y - t.track.y
           tracks == t.pos.y <= FbHeight /\ MenuShowing /\ menu.list
           scrolls == tracks /\ Abs(dy) >= MenuItemHeight
<1>1. calls' = IF scrolls THEN Tap(IF dy < 0 THEN KEY_SCROLLDOWN ELSE KEY_SCROLLUP) ELSE <<>>
  BY DEF OnTouchTrack
<1>2. CallsType'
  <2>1. (IF dy < 0 THEN KEY_SCROLLDOWN ELSE KEY_SCROLLUP) \in Nat
    BY DEF KEY_SCROLLDOWN, KEY_SCROLLUP
  <2> HIDE DEF dy, scrolls
  <2>2. Tap(IF dy < 0 THEN KEY_SCROLLDOWN ELSE KEY_SCROLLUP) \in Seq(Nat \X Int)
    BY <2>1, TapType, Zenon
  <2>3. <<>> \in Seq(Nat \X Int)
    OBVIOUS
  <2> QED BY <1>1, <2>2, <2>3, Zenon DEF CallsType
<1> DEFINE swiped == t.swiped \/ (tracks /\ Abs(dy) > MenuItemHeight \div 30) \/ scrolls
           ty == IF scrolls THEN t.track.y + (IF dy > 0 THEN MenuItemHeight ELSE -MenuItemHeight) ELSE t.track.y
<1>3. touch' = [t EXCEPT !.sawX = FALSE, !.sawY = FALSE, !.swiped = swiped, !.track.y = ty]
  BY DEF OnTouchTrack
<1>4. swiped \in BOOLEAN
  OBVIOUS
<1>5. ty \in Int
  <2>1. t.track.y \in Int /\ MenuItemHeight \in Int
    BY UiAssumption DEF Points, MenuItemHeight
  <2> HIDE DEF scrolls, dy
  <2> QED BY <2>1
<1> HIDE DEF swiped, ty
<1>6. TouchType'
  BY <1>3, <1>4, <1>5 DEF TouchType, Points
<1> QED BY <1>2, <1>6

LEMMA PositionInv == ASSUME IInv, Position PROVE IInv'
<1> DEFINE px == (e.value * FbWidth) \div TouchRange
           py == (e.value * FbHeight) \div TouchRange
           t == IF e.code = "X" THEN [touch EXCEPT !.down = TRUE, !.sawX = TRUE, !.pos.x = px]
                ELSE [touch EXCEPT !.down = TRUE, !.sawY = TRUE, !.pos.y = py]
<1>1. e.value \in Nat
  BY SentEvent DEF Position, RawEvents
<1>2. px \in Nat /\ py \in Nat
  <2>1. e.value * FbWidth \in Nat /\ e.value * FbHeight \in Nat
    BY <1>1, ScreenAssumption
  <2> QED BY <2>1, DivNat, UiAssumption
<1>3. t \in [slot : Int, down : BOOLEAN, sawX : BOOLEAN, sawY : BOOLEAN, reported : BOOLEAN,
             swiped : BOOLEAN, pos : [x : Nat, y : Nat], start : Points, track : Points]
  <2> HIDE DEF px, py
  <2> QED BY <1>2, QueuedNow DEF TouchType
<1>4. UNCHANGED <<touch, calls>> \/ OnTouchTrack(t) \/ (touch' = t /\ UNCHANGED calls)
  BY DEF Position
<1> HIDE DEF t
<1>5. TouchType' /\ CallsType'
  <2>1. CASE UNCHANGED <<touch, calls>>
    BY <2>1, QueuedNow DEF TouchType, CallsType
  <2>2. CASE OnTouchTrack(t)
    BY <2>2, <1>3, OnTouchTrackType
  <2>3. CASE touch' = t /\ UNCHANGED calls
    BY <2>3, <1>3, QueuedNow DEF TouchType, CallsType
  <2> QED BY <1>4, <2>1, <2>2, <2>3
<1>6. Queued' /\ (fresh => fresh')
  BY QueuedNow DEF Position, Queued, QueueType
<1> QED BY <1>5, <1>6, SentInv DEF Position

LEMMA ContactInv == ASSUME IInv, Contact PROVE IInv'
<1>1. PICK type \in {"ABS", "KEY"} : Sent(type)
  BY DEF Contact
<1>2. e.value \in Int
  BY <1>1, SentEvent DEF RawEvents
<1>3. TouchType'
  BY <1>2, QueuedNow DEF Contact, TouchType
<1>4. CallsType' /\ Queued' /\ (fresh => fresh')
  BY QueuedNow DEF Contact, CallsType, Queued, QueueType
<1> QED BY <1>1, <1>3, <1>4, SentInv

LEMMA TrackballInv == ASSUME IInv, Trackball PROVE IInv'
<1>1. CallsType'
  <2>1. KEY_DOWN \in Nat /\ KEY_UP \in Nat
    BY DEF KEY_DOWN, KEY_UP
  <2>2. calls' \in {Tap(KEY_DOWN), Tap(KEY_UP), <<>>}
    BY DEF Trackball
  <2>3. Tap(KEY_DOWN) \in Seq(Nat \X Int) /\ Tap(KEY_UP) \in Seq(Nat \X Int) /\ <<>> \in Seq(Nat \X Int)
    BY <2>1, TapType
  <2> QED BY <2>2, <2>3 DEF CallsType
<1>2. TouchType' /\ Queued' /\ (fresh => fresh')
  BY QueuedNow DEF Trackball, TouchType, Queued, QueueType
<1> QED BY <1>1, <1>2, SentInv DEF Trackball

LEMMA ButtonInv == ASSUME IInv, Button PROVE IInv'
<1>1. e.code \in Nat /\ e.value \in Int
  BY SentEvent DEF Button, RawEvents
<1>2. CallsType'
  BY <1>1 DEF Button, CallsType
<1>3. TouchType' /\ Queued' /\ (fresh => fresh')
  BY QueuedNow DEF Button, TouchType, Queued, QueueType
<1> QED BY <1>2, <1>3, SentInv DEF Button

LEMMA OnInputEventInv == ASSUME IInv, OnInputEvent PROVE IInv'
  BY OnTouchPressInv, OnTouchReleaseInv, ReportedInv, PositionInv, ContactInv, TrackballInv, ButtonInv
  DEF OnInputEvent

-----------------------------------------------------------------------------
(* Keys and their timers.                                                    *)

LEMMA ProcessKeyInv == ASSUME IInv, ProcessKey PROVE IInv'
<1> DEFINE k == Head(calls)[1]
<1>1. calls # <<>> /\ proc = Idle /\ calls' = Tail(calls)
  BY DEF ProcessKey
<1>2. UNCHANGED <<touch, pending, queue, fresh, main, menu, page, reboot>>
  BY DEF ProcessKey, shared, screen, world
<1>3. calls \in Seq(Nat \X Int)
  BY QueuedNow DEF CallsType
<1>4. Head(calls) \in Nat \X Int /\ Tail(calls) \in Seq(Nat \X Int)
  BY <1>1, <1>3
<1>5. k \in Nat
  BY <1>4
<1>6. KeysType /\ ProcType /\ TimersInv
  BY DEF IInv, TypeInv
<1>7. ASSUME keys' = [pressed |-> keys.pressed \cup {k}, last |-> k, long |-> FALSE, count |-> keys.count + 1],
             timers' = timers \cup {<<k, keys.count + 1>>},
             UNCHANGED proc
      PROVE  KeysType' /\ ProcType' /\ TimersInv'
  <2> HIDE DEF k
  <2>1. KeysType'
    BY <1>5, <1>6, <1>7 DEF KeysType
  <2>2. ProcType'
    BY <1>2, <1>6, <1>7 DEF ProcType
  <2>3. TimersInv'
    <3>1. keys.count \in Nat /\ keys'.count = keys.count + 1 /\ keys'.long = FALSE /\ proc'.act = "none"
      BY <1>1, <1>6, <1>7 DEF KeysType, Idle
    <3>2. \A t \in timers : t[2] \in Nat /\ t[2] <= keys.count
      BY <1>6 DEF KeysType, TimersInv
    <3>3. \A t \in timers' : t \in timers \/ t = <<k, keys.count + 1>>
      BY <1>7
    <3>4. \A t \in timers' : t[2] <= keys.count + 1
      BY <3>1, <3>2, <3>3
    <3>5. \A t, u \in timers' : t[2] = u[2] => t = u
      <4> SUFFICES ASSUME NEW t \in timers', NEW u \in timers', t[2] = u[2] PROVE t = u
        OBVIOUS
      <4>1. CASE t \in timers /\ u \in timers
        BY <4>1, <1>6 DEF TimersInv
      <4>2. CASE t = <<k, keys.count + 1>> /\ u = <<k, keys.count + 1>>
        BY <4>2
      <4>3. CASE t \in timers /\ u = <<k, keys.count + 1>>
        BY <4>3, <3>1, <3>2
      <4>4. CASE u \in timers /\ t = <<k, keys.count + 1>>
        BY <4>4, <3>1, <3>2
      <4> QED BY <3>3, <4>1, <4>2, <4>3, <4>4
    <3> QED BY <3>1, <3>4, <3>5 DEF TimersInv
  <2> QED BY <2>1, <2>2, <2>3
<1>8. ASSUME keys' = [keys EXCEPT !.pressed = @ \ {k}, !.last = -1],
             proc' = IF keys.last = k
                     THEN [key |-> k, long |-> keys.long, allowed |-> reboot, act |-> "check"]
                     ELSE Idle,
             UNCHANGED timers
      PROVE  KeysType' /\ ProcType' /\ TimersInv'
  <2> HIDE DEF k
  <2>1. KeysType'
    <3> DEFINE left == keys.pressed \ {k}
    <3>1. left \in SUBSET Nat /\ keys' = [keys EXCEPT !.pressed = left, !.last = -1]
      BY <1>6, <1>8 DEF KeysType
    <3>2. timers' = timers
      BY <1>8
    <3>3. keys \in [pressed : SUBSET Nat, last : Int, long : BOOLEAN, count : Nat]
      BY <1>6 DEF KeysType
    <3> HIDE DEF left
    <3>4. keys' \in [pressed : SUBSET Nat, last : Int, long : BOOLEAN, count : Nat]
      <4>1. keys' = [pressed |-> left, last |-> -1, long |-> keys.long, count |-> keys.count]
        BY <3>1, <3>3
      <4>2. keys.long \in BOOLEAN /\ keys.count \in Nat
        BY <3>3
      <4> QED BY <3>1, <4>1, <4>2
    <3> QED BY <1>6, <3>2, <3>4 DEF KeysType
  <2>2. ProcType'
    BY <1>2, <1>5, <1>6, <1>8 DEF ProcType, KeysType, Idle, Acts
  <2>3. keys'.count = keys.count /\ keys'.long = keys.long /\ (proc'.act = "check" => proc'.long = keys.long)
    BY <1>6, <1>8 DEF KeysType, Idle
  <2>4. TimersInv'
    BY <1>6, <1>8, <2>3 DEF TimersInv
  <2> QED BY <2>1, <2>2, <2>4
<1>9. KeysType' /\ ProcType' /\ TimersInv'
  BY <1>7, <1>8 DEF ProcessKey
<1>10. CallsType'
  BY <1>1, <1>4 DEF CallsType
<1>11. TypeInv' /\ FreshInv' /\ MenuInv'
  BY <1>2, <1>9, <1>10
  DEF IInv, TypeInv, TouchType, QueueType, MainType, FreshInv, MenuInv, ChosenIsAnItem
<1> QED BY <1>9, <1>11 DEF IInv

LEMMA TimeKeyInv == ASSUME IInv, NEW t \in timers, TimeKey(t) PROVE IInv'
<1>1. UNCHANGED <<touch, pending, calls, proc, queue, fresh, main, menu, page, reboot>>
  BY DEF TimeKey, shared, screen, world
<1>2. KeysType /\ TimersInv
  BY DEF IInv, TypeInv
<1>3. timers' = timers \ {t}
  BY DEF TimeKey
<1>4. keys' = keys \/ (keys.count = t[2] /\ keys' = [keys EXCEPT !.long = TRUE])
  BY DEF TimeKey
<1>5. KeysType'
  BY <1>2, <1>3, <1>4 DEF KeysType
<1>6. keys'.count = keys.count /\ (keys'.long => keys.long \/ keys.count = t[2])
  BY <1>2, <1>4 DEF KeysType
<1>7. \A u \in timers' : u \in timers /\ u # t
  BY <1>3
<1>8. TimersInv'
  BY <1>1, <1>2, <1>6, <1>7 DEF TimersInv
<1>9. TypeInv' /\ FreshInv' /\ MenuInv'
  BY <1>1, <1>5
  DEF IInv, TypeInv, TouchType, CallsType, ProcType, QueueType, MainType, FreshInv, MenuInv, ChosenIsAnItem
<1> QED BY <1>8, <1>9 DEF IInv

LEMMA CheckKeyInv == ASSUME IInv, CheckKey PROVE IInv'
<1>1. UNCHANGED <<touch, pending, calls, timers, main, menu, page, reboot>> /\ proc.act = "check"
  BY DEF CheckKey, screen, world
<1>2. KeysType /\ TimersInv /\ ProcType /\ Queued
  BY QueuedNow DEF IInv, TypeInv
<1>3. keys' = [keys EXCEPT !.long = FALSE]
  BY DEF CheckKey
<1>4. KeysType' /\ keys'.count = keys.count /\ ~keys'.long
  BY <1>1, <1>2, <1>3 DEF KeysType
<1>5. proc' = Idle \/ \E a \in {"TOGGLE", "REBOOT", "ENQUEUE"} : proc' = [proc EXCEPT !.act = a]
  BY DEF CheckKey
<1>6. ProcType' /\ proc'.act # "check"
  <2>1. CASE proc' = Idle
    BY <1>1, <1>2, <2>1 DEF ProcType, Idle, Acts
  <2>2. ASSUME NEW a \in {"TOGGLE", "REBOOT", "ENQUEUE"}, proc' = [proc EXCEPT !.act = a]
        PROVE  ProcType' /\ proc'.act # "check"
    <3>1. a \in Acts /\ a # "check"
      BY <2>2 DEF Acts
    <3>2. proc' \in [key : Int, long : BOOLEAN, allowed : BOOLEAN, act : Acts]
      BY <1>2, <2>2, <3>1 DEF ProcType
    <3>3. proc'.key = proc.key /\ proc'.act = a
      BY <1>2, <2>2 DEF ProcType
    <3> QED BY <1>1, <1>2, <3>1, <3>2, <3>3 DEF ProcType
  <2> QED BY <1>5, <2>1, <2>2
<1>7. TimersInv'
  BY <1>1, <1>2, <1>4, <1>6 DEF TimersInv
<1>8. Queued' /\ (fresh => fresh')
  <2>1. Enqueue(KeyEvent(KEY_ENTER)) \/ UNCHANGED <<queue, fresh>>
    BY DEF CheckKey
  <2>2. KeyEvent(KEY_ENTER) \in Words
    BY DEF KeyEvent, KEY_ENTER, Words
  <2>3. CASE Enqueue(KeyEvent(KEY_ENTER))
    BY <1>2, <2>2, <2>3, EnqueueQueued
  <2>4. CASE UNCHANGED <<queue, fresh>>
    BY <1>2, <2>4 DEF Queued, QueueType
  <2> QED BY <2>1, <2>3, <2>4
<1>9. TypeInv' /\ MenuInv'
  BY <1>1, <1>4, <1>6, <1>8
  DEF IInv, TypeInv, TouchType, CallsType, Queued, MainType, MenuInv, ChosenIsAnItem
<1>10. FreshInv'
  BY <1>1, <1>8 DEF IInv, FreshInv, Queued
<1> QED BY <1>7, <1>9, <1>10 DEF IInv

(* Rebooting by the keys switches the device off wherever the menu is.       *)
LEMMA ApplyKeyInv == ASSUME IInv, ApplyKey PROVE IInv'
<1>1. UNCHANGED <<touch, pending, calls, keys, timers, menu, page, reboot>> /\ proc' = Idle
  BY DEF ApplyKey, world
<1>2. KeysType /\ TimersInv /\ ProcType /\ Queued /\ MainType
  BY QueuedNow DEF IInv, TypeInv
<1>3. ProcType' /\ proc'.act = "none"
  BY <1>1, <1>2 DEF ProcType, Idle, Acts
<1>4. TimersInv' /\ KeysType'
  BY <1>1, <1>2, <1>3 DEF TimersInv, KeysType
<1>5. Queued' /\ (fresh => fresh')
  <2>1. (proc.act = "ENQUEUE" /\ Enqueue(KeyEvent(proc.key))) \/ UNCHANGED <<queue, fresh>>
    BY DEF ApplyKey
  <2>2. CASE proc.act = "ENQUEUE" /\ Enqueue(KeyEvent(proc.key))
    <3>1. proc.key \in Nat
      BY <1>2, <2>2 DEF ProcType
    <3>2. KeyEvent(proc.key) \in Words
      BY <3>1 DEF KeyEvent, Words
    <3> QED BY <1>2, <2>2, <3>2, EnqueueQueued
  <2>3. CASE UNCHANGED <<queue, fresh>>
    BY <1>2, <2>3 DEF Queued, QueueType
  <2> QED BY <2>1, <2>2, <2>3
<1>6. main' = main \/ main' = [main EXCEPT !.at = "off"]
  BY DEF ApplyKey
<1>7. MainType'
  BY <1>1, <1>2, <1>6 DEF MainType
<1>8. main' = main \/ main'.at = "off"
  BY <1>2, <1>6 DEF MainType
<1>9. FreshInv'
  BY <1>5, <1>8 DEF IInv, FreshInv, Queued
<1>10. MenuInv'
  BY <1>1, <1>8 DEF IInv, MenuInv, ChosenIsAnItem, Showing
<1>11. TypeInv'
  BY <1>1, <1>3, <1>4, <1>5, <1>7 DEF IInv, TypeInv, TouchType, CallsType, Queued
<1> QED BY <1>4, <1>9, <1>10, <1>11 DEF IInv

-----------------------------------------------------------------------------
(* The main thread.                                                          *)

InputQuiet == UNCHANGED <<touch, calls, proc, keys, timers, pending, reboot>>

LEMMA MainStepInv ==
  ASSUME IInv, InputQuiet, QueueType', MainType', FreshInv', MenuInv'
  PROVE  IInv'
<1>1. TouchType' /\ CallsType' /\ ProcType' /\ KeysType' /\ (pending \in Seq(RawEvents))'
  BY DEF IInv, TypeInv, InputQuiet, TouchType, CallsType, ProcType, KeysType
<1>2. TimersInv'
  BY DEF IInv, InputQuiet, TimersInv
<1> QED BY <1>1, <1>2 DEF IInv, TypeInv

LEMMA MainNow ==
  ASSUME IInv
  PROVE  /\ QueueType /\ MainType /\ FreshInv /\ MenuInv
         /\ main \in [at : {"install", "open", "chosen", "off", "undefined"} \cup Showing, who : Callers,
                      view : {"none", "menu", "file"}, chosen : Int, evt : Words]
         /\ page \in DOMAIN MenuActions
  BY DEF IInv, TypeInv, MainType

LEMMA CallerFrame == ASSUME UNCHANGED callerFrame PROVE InputQuiet
  BY DEF callerFrame, mainFrame, input, InputQuiet

LEMMA MainFrame == ASSUME UNCHANGED mainFrame PROVE InputQuiet
  BY DEF mainFrame, input, InputQuiet

LEMMA NoEventWords == NoEvent \in Words /\ KeyEvent(KEY_REFRESH) \in Words
  BY DEF NoEvent, KeyEvent, KEY_REFRESH, Words

LEMMA OpenInv ==
  ASSUME IInv, InputQuiet, UNCHANGED <<queue, fresh>>, page' \in DOMAIN MenuActions,
         NEW who \in Callers, NEW c \in Int, who = "logs" => c \in 0..(Logs - 1), Open(who, c)
  PROVE  IInv'
<1>1. main' = [main EXCEPT !.at = "open", !.who = who, !.chosen = c, !.evt = NoEvent]
  BY DEF Open
<1>2. main'.at = "open" /\ main'.who = who /\ main'.chosen = c
  BY <1>1, MainNow
<1>3. MainType'
  BY <1>1, MainNow, NoEventWords DEF MainType
<1>4. QueueType' /\ FreshInv'
  BY <1>2, MainNow DEF QueueType, FreshInv
<1>5. MenuInv'
  BY <1>2 DEF MenuInv, Showing, ChosenIsAnItem
<1> QED BY <1>3, <1>4, <1>5, MainStepInv

LEMMA StayInv ==
  ASSUME IInv, InputQuiet, UNCHANGED <<queue, fresh>>, main.at = "event", main.view = "menu",
         NEW m, GoodMenu(m), m.items = menu.items, Stay(m)
  PROVE  IInv'
<1>1. main' = [main EXCEPT !.at = "wait", !.evt = NoEvent] /\ menu' = m /\ page' = page
  BY DEF Stay
<1>2. main'.at = "wait" /\ main'.who = main.who /\ main'.view = "menu"
  BY <1>1, MainNow
<1>3. MainType'
  BY <1>1, MainNow, NoEventWords DEF MainType, Showing
<1>4. QueueType' /\ FreshInv'
  BY <1>2, MainNow DEF QueueType, FreshInv
<1>5. menu.items = Items(main.who, page)
  BY MainNow DEF MenuInv, Showing
<1>6. MenuInv'
  BY <1>1, <1>2, <1>5 DEF MenuInv, Showing, ChosenIsAnItem
<1> QED BY <1>3, <1>4, <1>6, MainStepInv

LEMMA ChooseInv ==
  ASSUME IInv, InputQuiet, UNCHANGED <<queue, fresh>>, main.at = "event", main.view = "menu",
         NEW c \in Int, c \in Results(menu.items), c = 1 => fresh, Choose(c)
  PROVE  IInv'
<1>1. /\ main' = [main EXCEPT !.at = "chosen", !.chosen = c, !.evt = NoEvent]
      /\ page' = IF c = kGoHome THEN "main" ELSE page
  BY DEF Choose
<1>2. main'.at = "chosen" /\ main'.who = main.who /\ main'.chosen = c
  BY <1>1, MainNow
<1>3. MainType'
  BY <1>1, MainNow, NoEventWords DEF MainType, MenuActions
<1>4. QueueType' /\ FreshInv'
  BY <1>2, MainNow DEF QueueType, FreshInv
<1>5. c \in Results(Items(main.who, page))
  BY MainNow DEF MenuInv, Showing
<1>6. c \in Results(Items(main.who, page'))
  <2>1. CASE c = kGoHome
    BY <2>1 DEF Results
  <2>2. CASE c # kGoHome
    BY <2>2, <1>1, <1>5
  <2> QED BY <2>1, <2>2
<1>7. MenuInv'
  BY <1>2, <1>6 DEF MenuInv, Showing, ChosenIsAnItem
<1> QED BY <1>3, <1>4, <1>7, MainStepInv

(* The program ends, or a look-up is undefined.                              *)
LEMMA GotoInv ==
  ASSUME IInv, InputQuiet, UNCHANGED <<queue, fresh>>, page' \in DOMAIN MenuActions,
         NEW at \in {"off", "undefined"}, NEW who \in Callers,
         at = "undefined" => who = "logs" /\ main.chosen = -1, Goto(at, who)
  PROVE  IInv'
<1>1. main' = [main EXCEPT !.at = at, !.who = who]
  BY DEF Goto
<1>2. main'.at = at /\ main'.who = who /\ main'.chosen = main.chosen
  BY <1>1, MainNow
<1>3. MainType'
  BY <1>1, MainNow DEF MainType
<1>4. QueueType' /\ FreshInv'
  BY <1>2, MainNow DEF QueueType, FreshInv
<1>5. MenuInv'
  BY <1>2 DEF MenuInv, Showing, ChosenIsAnItem
<1> QED BY <1>3, <1>4, <1>5, MainStepInv

LEMMA StartMenuInv == ASSUME IInv, StartMenu PROVE IInv'
<1>1. main.at = "open" /\ queue' = <<>> /\ fresh' = FALSE /\ page' = page /\ InputQuiet
      /\ main' = [main EXCEPT !.at = "wait", !.view = "menu"]
  BY CallerFrame DEF StartMenu, FlushKeys
<1>2. main'.at = "wait" /\ main'.view = "menu" /\ main'.who = main.who /\ main'.chosen = main.chosen
  BY <1>1, MainNow
<1>3. MainType'
  BY <1>1, MainNow DEF MainType, Showing
<1>4. QueueType' /\ FreshInv'
  <2>1. <<>> \in Seq(Words)
    OBVIOUS
  <2>2. QueueType'
    BY <1>1, <2>1 DEF QueueType
  <2>3. FreshInv'
    BY <1>1, <1>2 DEF FreshInv
  <2> QED BY <2>2, <2>3
<1>5. GoodMenu(menu') /\ menu'.items = Items(main.who, page)
  <2>1. CASE main.who = "prompt"
    <3>1. menu' = StartedMenu(page = "main", page # "main", Len(MenuActions[page]), 0)
      BY <2>1 DEF StartMenu
    <3>2. Len(MenuActions[page]) \in Nat \ {0} /\ (page = "main" => Len(MenuActions[page]) = 3)
      BY MainNow DEF MenuActions
    <3>3. 0 \in 0..(Len(MenuActions[page]) - 1)
      BY <3>2
    <3>4. GoodMenu(menu') /\ menu'.items = Len(MenuActions[page])
      BY <3>1, <3>2, <3>3, StartedMenuGood
    <3> QED BY <2>1, <3>4 DEF Items
  <2>2. CASE main.who = "logs"
    <3>1. menu' = StartedMenu(FALSE, TRUE, Logs, main.chosen)
      BY <2>2 DEF StartMenu
    <3>2. Logs \in Nat \ {0} /\ main.chosen \in 0..(Logs - 1)
      BY <2>2, <1>1, MainNow, UiAssumption DEF MenuInv
    <3>3. GoodMenu(menu') /\ menu'.items = Logs
      BY <3>1, <3>2, StartedMenuGood
    <3> QED BY <2>2, <3>3 DEF Items
  <2>3. CASE main.who \notin {"prompt", "logs"}
    <3>1. menu' = StartedMenu(FALSE, TRUE, 2, 0)
      BY <2>3 DEF StartMenu
    <3>2. GoodMenu(menu') /\ menu'.items = 2
      <4>1. 2 \in Nat \ {0} /\ 0 \in 0..(2 - 1) /\ FALSE \in BOOLEAN /\ TRUE \in BOOLEAN
        OBVIOUS
      <4> QED BY <3>1, <4>1, StartedMenuGood
    <3> QED BY <2>3, <3>2 DEF Items
  <2> QED BY <2>1, <2>2, <2>3
<1>6. MenuInv'
  BY <1>1, <1>2, <1>5 DEF MenuInv, Showing, ChosenIsAnItem
<1> QED BY <1>1, <1>3, <1>4, <1>6, MainStepInv

(* Leaving the loop of WaitInputEvent, with an event of q or without one.    *)
LEMMA ReturnInv ==
  ASSUME IInv, InputQuiet, UNCHANGED <<fresh, menu, page>>, main.at \in {"wait", "blocked"},
         NEW q \in Seq(Words), queue # <<>> \/ q = <<>>, Return(q)
  PROVE  IInv'
<1>1. queue # <<>> => fresh
  BY MainNow DEF FreshInv
<1>2. /\ queue' \in Seq(Words)
      /\ (queue' # <<>> => queue # <<>>)
  BY DEF Return
<1>3. \/ main' = [main EXCEPT !.at = "wait"]
      \/ main' = [main EXCEPT !.at = "event", !.evt = NoEvent]
      \/ q # <<>> /\ main' = [main EXCEPT !.at = "event", !.evt = Head(q)]
  BY DEF Return
<1>4. q # <<>> => Head(q) \in Words
  OBVIOUS
<1>5. MainType'
  BY <1>3, <1>4, MainNow, NoEventWords DEF MainType, Showing
<1>6. /\ main'.at \in {"wait", "event"} /\ main'.who = main.who /\ main'.view = main.view
      /\ main'.chosen = main.chosen
      /\ main'.at = "event" => main'.evt = NoEvent \/ q # <<>>
  BY <1>3, MainNow
<1>7. QueueType'
  BY <1>2, MainNow DEF QueueType
<1>8. FreshInv'
  BY <1>1, <1>2, <1>6 DEF FreshInv
<1>9. MenuInv'
  BY <1>6, MainNow DEF MenuInv, Showing, ChosenIsAnItem
<1> QED BY <1>5, <1>7, <1>8, <1>9, MainStepInv

LEMMA WaitInputEventInv == ASSUME IInv, WaitInputEvent PROVE IInv'
<1>1. CASE GotEvent
  <2>1. InputQuiet /\ UNCHANGED <<fresh, menu, page>>
    BY <1>1, MainFrame DEF GotEvent
  <2>2. queue \in Seq(Words) /\ queue # <<>> /\ main.at \in {"wait", "blocked"}
    BY <1>1, MainNow DEF GotEvent, QueueType
  <2>3. Woken(queue) \in Seq(Words)
    BY <2>2, WokenType
  <2>4. Return(Woken(queue)) \/ Return(queue)
    BY <1>1 DEF GotEvent
  <2> QED BY <2>1, <2>2, <2>3, <2>4, ReturnInv
<1>2. CASE Block
  <2>1. InputQuiet /\ UNCHANGED <<queue, fresh, menu, page>> /\ main.at = "wait"
        /\ main' = [main EXCEPT !.at = "blocked"]
    BY <1>2, MainFrame DEF Block
  <2>2. main'.at = "blocked" /\ main'.who = main.who /\ main'.view = main.view /\ main'.chosen = main.chosen
    BY <2>1, MainNow
  <2>3. MainType'
    BY <2>1, MainNow DEF MainType, Showing
  <2>4. QueueType' /\ FreshInv' /\ MenuInv'
    BY <2>1, <2>2, MainNow DEF QueueType, FreshInv, MenuInv, Showing, ChosenIsAnItem
  <2> QED BY <2>1, <2>3, <2>4, MainStepInv
<1>3. CASE VolumesTick
  <2>1. InputQuiet /\ UNCHANGED <<queue, fresh, menu, page>> /\ main.at = "blocked"
        /\ main' = [main EXCEPT !.at = "event", !.evt = KeyEvent(KEY_REFRESH)]
    BY <1>3, MainFrame DEF VolumesTick
  <2>2. /\ main'.at = "event" /\ main'.who = main.who /\ main'.view = main.view /\ main'.chosen = main.chosen
        /\ main'.evt = KeyEvent(KEY_REFRESH)
    BY <2>1, MainNow
  <2>3. MainType'
    BY <2>1, MainNow, NoEventWords DEF MainType, Showing
  <2>4. QueueType' /\ FreshInv' /\ MenuInv'
    BY <2>1, <2>2, MainNow DEF QueueType, FreshInv, MenuInv, Showing, ChosenIsAnItem
  <2> QED BY <2>1, <2>3, <2>4, MainStepInv
<1>4. CASE TimedOut
  <2>1. InputQuiet /\ UNCHANGED <<fresh, menu, page>> /\ main.at = "blocked" /\ Return(queue)
    BY <1>4, MainFrame DEF TimedOut
  <2>2. queue \in Seq(Words)
    BY MainNow DEF QueueType
  <2> QED BY <2>1, <2>2, ReturnInv
<1> QED BY <1>1, <1>2, <1>3, <1>4 DEF WaitInputEvent

LEMMA GoodNow ==
  ASSUME IInv, main.at = "event", main.view = "menu"
  PROVE  GoodMenu(menu) /\ menu.items \in Nat \ {0} /\ menu.selected \in -1..(menu.items - 1)
  BY MainNow DEF MenuInv, Showing, GoodMenu, Fields

LEMMA NothingCameInv == ASSUME IInv, NothingCame PROVE IInv'
<1>1. InputQuiet /\ UNCHANGED <<queue, fresh>> /\ main.at = "event" /\ main.view = "menu"
  BY CallerFrame DEF NothingCame
<1>2. CASE Stay(menu)
  BY <1>1, <1>2, GoodNow, StayInv
<1>3. CASE Choose(-1)
  <2>1. -1 \in Int /\ -1 \in Results(menu.items) /\ -1 # 1
    BY DEF Results
  <2> QED BY <1>1, <1>3, <2>1, ChooseInv
<1> QED BY <1>2, <1>3 DEF NothingCame

LEMMA TouchedInv == ASSUME IInv, Touched PROVE IInv'
<1> DEFINE item == TouchedItem(menu, main.evt[2], main.evt[3])
<1>1. InputQuiet /\ UNCHANGED <<queue, fresh>> /\ main.at = "event" /\ main.view = "menu" /\ main.evt[1] = 2
  BY CallerFrame DEF Touched
<1>2. main.evt[2] \in Nat /\ main.evt[3] \in Nat
  BY MainNow DEF Words
<1>3. item \in {kNoAction, kGoBack} \cup 0..(menu.items - 1)
  BY <1>1, <1>2, GoodNow, TouchedItemIsAnItem
<1>4. fresh
  <2>1. main.evt # NoEvent /\ main.evt # KeyEvent(KEY_REFRESH)
    BY <1>1 DEF NoEvent, KeyEvent
  <2> QED BY <1>1, <2>1, MainNow DEF FreshInv
<1>5. IF item = kNoAction THEN Stay(menu) ELSE Choose(item)
  BY DEF Touched
<1> HIDE DEF item
<1>6. CASE item = kNoAction
  <2>1. Stay(menu)
    BY <1>5, <1>6
  <2> QED BY <1>1, <2>1, GoodNow, StayInv
<1>7. CASE item # kNoAction
  <2>1. Choose(item)
    BY <1>5, <1>7
  <2>2. menu.items \in Nat \ {0}
    BY <1>1, GoodNow
  <2>3. item \in Int /\ item \in Results(menu.items)
    BY <1>3, <2>2 DEF Results, kNoAction, kGoBack
  <2> QED BY <1>1, <1>4, <2>1, <2>3, ChooseInv
<1> QED BY <1>6, <1>7

(* The keys that choose or move: none of them is KEY_REFRESH, so what they   *)
(* choose came from the queue.                                               *)
LEMMA KeyHandledInv == ASSUME IInv, KeyHandled PROVE IInv'
<1> DEFINE action == HandleMenuKey(main.evt[2], text.shown)
<1>1. InputQuiet /\ UNCHANGED <<queue, fresh>> /\ main.at = "event" /\ main.view = "menu" /\ main.evt[1] = 1
  BY CallerFrame DEF KeyHandled
<1>2. GoodMenu(menu) /\ menu.items \in Nat \ {0} /\ menu.selected \in -1..(menu.items - 1)
  BY <1>1, GoodNow
<1>3. \/ action \in {kInvokeItem, kGoBack, kGoHome}
           /\ Choose(IF action = kInvokeItem THEN (IF menu.selected < 0 THEN kGoBack ELSE menu.selected) ELSE action)
      \/ \E sel \in {menu.selected - 1, menu.selected + 1} : Stay(SelectMenu(menu, sel))
      \/ \E updown \in {-1, 1} : Stay(ScrollMenu(menu, updown))
      \/ Stay(menu)
  <2>1. (CASE action = kInvokeItem -> Choose(IF menu.selected < 0 THEN kGoBack ELSE menu.selected)
           [] action \in {kGoBack, kGoHome} -> Choose(action)
           [] action = kHighlightUp -> Stay(SelectMenu(menu, menu.selected - 1))
           [] action = kHighlightDown -> Stay(SelectMenu(menu, menu.selected + 1))
           [] action = kScrollUp -> Stay(ScrollMenu(menu, -1))
           [] action = kScrollDown -> Stay(ScrollMenu(menu, 1))
           [] OTHER -> Stay(menu))
    BY DEF KeyHandled
  <2> HIDE DEF action
  <2> USE DEF kInvokeItem, kGoBack, kGoHome, kHighlightUp, kHighlightDown, kScrollUp, kScrollDown
  <2>2. CASE action = kInvokeItem
    <3>1. Choose(IF menu.selected < 0 THEN kGoBack ELSE menu.selected)
      BY <2>1, <2>2
    <3> QED BY <2>2, <3>1
  <2>3. CASE action \in {kGoBack, kGoHome}
    <3>1. Choose(action) /\ action # kInvokeItem
      BY <2>1, <2>3
    <3> QED BY <2>3, <3>1
  <2>4. CASE action = kHighlightUp
    <3>1. Stay(SelectMenu(menu, menu.selected - 1))
      BY <2>1, <2>4
    <3> QED BY <3>1
  <2>5. CASE action = kHighlightDown
    <3>1. Stay(SelectMenu(menu, menu.selected + 1))
      BY <2>1, <2>5
    <3> QED BY <3>1
  <2>6. CASE action = kScrollUp
    <3>1. Stay(ScrollMenu(menu, -1))
      BY <2>1, <2>6
    <3> QED BY <3>1
  <2>7. CASE action = kScrollDown
    <3>1. Stay(ScrollMenu(menu, 1))
      BY <2>1, <2>7
    <3> QED BY <3>1
  <2>8. CASE action \notin {kInvokeItem, kGoBack, kGoHome, kHighlightUp, kHighlightDown, kScrollUp, kScrollDown}
    <3>1. Stay(menu)
      BY <2>1, <2>8
    <3> QED BY <3>1
  <2> QED BY <2>2, <2>3, <2>4, <2>5, <2>6, <2>7, <2>8
<1>4. CASE action \in {kInvokeItem, kGoBack, kGoHome}
           /\ Choose(IF action = kInvokeItem THEN (IF menu.selected < 0 THEN kGoBack ELSE menu.selected) ELSE action)
  <2>1. main.evt[2] # KEY_REFRESH
    <3> SUFFICES ASSUME main.evt[2] = KEY_REFRESH PROVE FALSE
      OBVIOUS
    <3>1. action \in {kNoAction, kRefresh}
      BY DEF HandleMenuKey, KEY_REFRESH, DownKeys, UpKeys, KEY_DOWN, KEY_VOLUMEDOWN, KEY_UP, KEY_VOLUMEUP,
             KEY_SCROLLUP, KEY_SCROLLDOWN, KEY_ENTER, KEY_POWER, KEY_HOME, KEY_BACKSPACE, KEY_BACK,
             HomeKeys, KEY_HOMEPAGE, KEY_RIGHTSHIFT, KEY_MENU, KEY_LEFTSHIFT, KEY_SEARCH, BTN_MOUSE, KEY_SEND
    <3> HIDE DEF action
    <3> QED BY <1>4, <3>1 DEF kNoAction, kRefresh, kInvokeItem, kGoBack, kGoHome
  <2>2. main.evt # NoEvent /\ main.evt # KeyEvent(KEY_REFRESH)
    BY <1>1, <2>1 DEF NoEvent, KeyEvent
  <2>3. fresh
    BY <1>1, <2>2, MainNow DEF FreshInv
  <2> DEFINE c == IF action = kInvokeItem THEN (IF menu.selected < 0 THEN kGoBack ELSE menu.selected) ELSE action
  <2> HIDE DEF action
  <2>4. c \in Int /\ c \in Results(menu.items)
    BY <1>2, <1>4 DEF Results, kInvokeItem, kGoBack, kGoHome
  <2>5. Choose(c)
    BY <1>4
  <2> HIDE DEF c
  <2> QED BY <1>1, <2>3, <2>4, <2>5, ChooseInv
<1>5. ASSUME NEW sel \in {menu.selected - 1, menu.selected + 1}, Stay(SelectMenu(menu, sel)) PROVE IInv'
  <2>1. sel \in -2..menu.items
    BY <1>2
  <2> QED BY <1>1, <1>2, <1>5, <2>1, SelectMenuGood, StayInv
<1>6. ASSUME NEW updown \in {-1, 1}, Stay(ScrollMenu(menu, updown)) PROVE IInv'
  BY <1>1, <1>2, <1>6, ScrollMenuGood, StayInv
<1>7. CASE Stay(menu)
  BY <1>1, <1>2, <1>7, StayInv
<1> QED BY <1>3, <1>4, <1>5, <1>6, <1>7

LEMMA PromptedInv == ASSUME IInv, Prompted PROVE IInv'
<1> DEFINE c == main.chosen
           inList == c \in 0..(Len(MenuActions[page]) - 1)
           action == IF inList THEN MenuActions[page][c + 1] ELSE "none"
<1>1. InputQuiet /\ UNCHANGED <<queue, fresh>> /\ main.at = "chosen" /\ main.who = "prompt"
  BY CallerFrame DEF Prompted
<1>2. page' \in DOMAIN MenuActions
  BY MainNow DEF Prompted, MenuActions
<1>3. c \in {-1, kGoBack, kGoHome} \/ inList
  BY <1>1, MainNow DEF MenuInv, Items, Results
<1>4. inList => action \in {"REBOOT", "WIPE_MENU", "ADVANCED_MENU", "REBOOT_BOOTLOADER", "REBOOT_RECOVERY",
                            "MOUNT_SYSTEM", "VIEW_RECOVERY_LOGS", "SHUTDOWN"} \cup Questions
  <2> SUFFICES ASSUME inList PROVE action \in {"REBOOT", "WIPE_MENU", "ADVANCED_MENU", "REBOOT_BOOTLOADER",
                 "REBOOT_RECOVERY", "MOUNT_SYSTEM", "VIEW_RECOVERY_LOGS", "SHUTDOWN"} \cup Questions
    OBVIOUS
  <2>1. page \in {"main", "wipe", "advanced"}
    BY MainNow DEF MenuActions
  <2>2. CASE page = "main"
    <3>1. MenuActions[page] = <<"REBOOT", "WIPE_MENU", "ADVANCED_MENU">>
      BY <2>2 DEF MenuActions
    <3> QED BY <3>1
  <2>3. CASE page = "wipe"
    <3>1. MenuActions[page] = <<"WIPE_DATA", "WIPE_CACHE", "WIPE_SYSTEM">>
      BY <2>3 DEF MenuActions
    <3> QED BY <3>1 DEF Questions
  <2>4. CASE page = "advanced"
    <3>1. MenuActions[page] = <<"REBOOT_BOOTLOADER", "REBOOT_RECOVERY", "MOUNT_SYSTEM", "VIEW_RECOVERY_LOGS",
                                "SHUTDOWN">>
      BY <2>4 DEF MenuActions
    <3> QED BY <3>1
  <2> QED BY <2>1, <2>2, <2>3, <2>4
<1>5. c \in {kGoBack, kGoHome, -1} \/ action \in {"REBOOT", "WIPE_MENU", "ADVANCED_MENU", "REBOOT_BOOTLOADER",
        "REBOOT_RECOVERY", "MOUNT_SYSTEM", "VIEW_RECOVERY_LOGS", "SHUTDOWN"} \cup Questions
  <2> HIDE DEF inList, action
  <2> QED BY <1>3, <1>4
<1>6. (CASE c \in {kGoBack, kGoHome} \/ action \in {"WIPE_MENU", "ADVANCED_MENU", "MOUNT_SYSTEM"} ->
                 Open("prompt", 0)
         [] c = -1 \/ action \in {"REBOOT", "REBOOT_BOOTLOADER", "REBOOT_RECOVERY", "SHUTDOWN"} ->
              Goto("off", "prompt")
         [] action = "VIEW_RECOVERY_LOGS" -> Open("logs", 0)
         [] action \in Questions /\ text.shown -> Open(action, 0)
         [] action \in Questions /\ ~text.shown -> Goto("off", "prompt")
         [] OTHER -> Goto("undefined", "prompt"))
  BY DEF Prompted
<1> HIDE DEF action
<1>7. \/ Open("prompt", 0) \/ Goto("off", "prompt") \/ Open("logs", 0)
      \/ (action \in Questions /\ Open(action, 0))
  <2>1. CASE c \in {kGoBack, kGoHome} \/ action \in {"WIPE_MENU", "ADVANCED_MENU", "MOUNT_SYSTEM"}
    BY <1>6, <2>1 DEF Questions, kGoBack, kGoHome
  <2>2. CASE ~(c \in {kGoBack, kGoHome} \/ action \in {"WIPE_MENU", "ADVANCED_MENU", "MOUNT_SYSTEM"})
    BY <1>5, <1>6, <2>2 DEF Questions, kGoBack, kGoHome
  <2> QED BY <2>1, <2>2
<1>8. 0 \in Int /\ 0 \in 0..(Logs - 1) /\ {"prompt", "logs"} \subseteq Callers /\ Questions \subseteq Callers
  BY UiAssumption DEF Callers
<1>9. CASE Open("prompt", 0)
  BY <1>1, <1>2, <1>8, <1>9, OpenInv
<1>10. CASE Goto("off", "prompt")
  BY <1>1, <1>2, <1>8, <1>10, GotoInv
<1>11. CASE Open("logs", 0)
  BY <1>1, <1>2, <1>8, <1>11, OpenInv
<1>12. CASE action \in Questions /\ Open(action, 0)
  <2>1. action # "logs" /\ action \in Callers
    BY <1>8, <1>12 DEF Questions
  <2> QED BY <1>1, <1>2, <1>8, <1>12, <2>1, OpenInv
<1> QED BY <1>7, <1>9, <1>10, <1>11, <1>12

LEMMA PageNow == ASSUME IInv, UNCHANGED page PROVE page' \in DOMAIN MenuActions
  BY MainNow

LEMMA PromptCaller == "prompt" \in Callers /\ "logs" \in Callers /\ "prompt" # "logs" /\ 0 \in Int
  BY DEF Callers

LEMMA AnsweredInv == ASSUME IInv, Answered PROVE IInv'
<1>1. InputQuiet /\ UNCHANGED <<queue, fresh>> /\ page' \in DOMAIN MenuActions
  BY CallerFrame, PageNow DEF Answered
<1>2. Goto("off", "prompt") \/ Open("prompt", 0)
  BY DEF Answered
<1>3. CASE Goto("off", "prompt")
  BY <1>1, <1>3, PromptCaller, GotoInv
<1>4. CASE Open("prompt", 0)
  BY <1>1, <1>4, PromptCaller, OpenInv
<1> QED BY <1>2, <1>3, <1>4

LEMMA LogChosenInv == ASSUME IInv, LogChosen PROVE IInv'
<1>1. /\ InputQuiet /\ UNCHANGED <<queue, fresh, menu>> /\ page' \in DOMAIN MenuActions /\ page' = page
      /\ main.at = "chosen" /\ main.who = "logs"
  BY CallerFrame, PageNow DEF LogChosen
<1>2. main.chosen \in {-1, kGoBack, kGoHome} \cup 0..(Logs - 1)
  BY <1>1, MainNow DEF MenuInv, Items, Results
<1>3. \/ Open("prompt", 0)
      \/ main.chosen \in 0..(Logs - 1) /\ main' = [main EXCEPT !.at = "wait", !.view = "file"]
      \/ main.chosen = -1 /\ Goto("undefined", "logs")
      \/ main.chosen \in 0..(Logs - 1) /\ Open("logs", main.chosen)
  BY <1>2, UiAssumption DEF LogChosen, kGoBack, kGoHome
<1>4. CASE Open("prompt", 0)
  BY <1>1, <1>4, PromptCaller, OpenInv
<1>5. CASE main.chosen \in 0..(Logs - 1) /\ main' = [main EXCEPT !.at = "wait", !.view = "file"]
  <2>1. main'.at = "wait" /\ main'.view = "file" /\ main'.who = "logs" /\ main'.chosen = main.chosen
    BY <1>1, <1>5, MainNow
  <2>2. MainType'
    BY <1>1, <1>5, MainNow DEF MainType, Showing
  <2>3. QueueType' /\ FreshInv'
    BY <1>1, <2>1, MainNow DEF QueueType, FreshInv
  <2>4. MenuInv'
    BY <1>1, <1>5, <2>1 DEF MenuInv, Showing, ChosenIsAnItem
  <2> QED BY <1>1, <2>2, <2>3, <2>4, MainStepInv
<1>6. CASE main.chosen = -1 /\ Goto("undefined", "logs")
  BY <1>1, <1>6, PromptCaller, GotoInv
<1>7. CASE main.chosen \in 0..(Logs - 1) /\ Open("logs", main.chosen)
  BY <1>1, <1>7, PromptCaller, OpenInv, UiAssumption
<1> QED BY <1>3, <1>4, <1>5, <1>6, <1>7

LEMMA ShowFileInv == ASSUME IInv, ShowFile PROVE IInv'
<1>1. /\ InputQuiet /\ UNCHANGED <<queue, fresh, menu>> /\ page' \in DOMAIN MenuActions /\ page' = page
      /\ main.at = "event" /\ main.view = "file"
  BY CallerFrame, PageNow DEF ShowFile
<1>2. main.who = "logs" /\ main.chosen \in 0..(Logs - 1)
  BY <1>1, MainNow DEF MenuInv, Showing
<1>3. \/ main' = [main EXCEPT !.at = "wait", !.evt = NoEvent]
      \/ Open("prompt", 0)
      \/ Open("logs", main.chosen)
  BY DEF ShowFile
<1>4. CASE main' = [main EXCEPT !.at = "wait", !.evt = NoEvent]
  <2>1. main'.at = "wait" /\ main'.view = "file" /\ main'.who = "logs" /\ main'.chosen = main.chosen
    BY <1>1, <1>2, <1>4, MainNow
  <2>2. MainType'
    BY <1>1, <1>4, MainNow, NoEventWords DEF MainType, Showing
  <2>3. QueueType' /\ FreshInv'
    BY <1>1, <2>1, MainNow DEF QueueType, FreshInv
  <2>4. MenuInv'
    BY <1>1, <1>2, <2>1 DEF MenuInv, Showing, ChosenIsAnItem
  <2> QED BY <1>1, <2>2, <2>3, <2>4, MainStepInv
<1>5. CASE Open("prompt", 0)
  BY <1>1, <1>5, PromptCaller, OpenInv
<1>6. CASE Open("logs", main.chosen)
  <2>1. main.chosen \in Int
    BY MainNow
  <2> QED BY <1>1, <1>2, <1>6, <2>1, PromptCaller, OpenInv
<1> QED BY <1>3, <1>4, <1>5, <1>6

(* The package is installed: the reboot keys work again.                     *)
LEMMA InstallEndsInv == ASSUME IInv, InstallEnds PROVE IInv'
<1>1. /\ UNCHANGED <<touch, calls, proc, keys, timers, pending, queue, fresh, page>> /\ reboot' = TRUE
      /\ main' = [main EXCEPT !.at = "open", !.who = "prompt", !.chosen = 0, !.evt = NoEvent]
  BY DEF InstallEnds, Open, input, world
<1>2. main'.at = "open" /\ main'.who = "prompt"
  BY <1>1, MainNow
<1>3. MainType'
  BY <1>1, MainNow, NoEventWords, PromptCaller DEF MainType
<1>4. QueueType' /\ FreshInv' /\ MenuInv'
  BY <1>1, <1>2, MainNow DEF QueueType, FreshInv, MenuInv, Showing, ChosenIsAnItem
<1>5. TouchType' /\ CallsType' /\ ProcType' /\ KeysType' /\ (pending \in Seq(RawEvents))'
  BY <1>1 DEF IInv, TypeInv, TouchType, CallsType, ProcType, KeysType
<1>6. TimersInv'
  BY <1>1 DEF IInv, TimersInv
<1> QED BY <1>3, <1>4, <1>5, <1>6 DEF IInv, TypeInv

-----------------------------------------------------------------------------
(* The theorems.                                                             *)

LEMMA InitIInv == ASSUME Init PROVE IInv
<1>1. /\ touch = [slot |-> 0, down |-> FALSE, sawX |-> FALSE, sawY |-> FALSE, reported |-> FALSE,
                  swiped |-> FALSE, pos |-> Origin, start |-> Origin, track |-> Origin]
      /\ calls = <<>> /\ proc = Idle /\ timers = {} /\ reboot = FALSE /\ queue = <<>> /\ fresh = FALSE
      /\ keys = [pressed |-> {}, last |-> -1, long |-> FALSE, count |-> 0]
      /\ main = [at |-> "install", who |-> "prompt", view |-> "none", chosen |-> 0, evt |-> NoEvent]
      /\ page = "main"
  BY DEF Init
<1>2. TouchType
  BY <1>1 DEF TouchType, Origin, Points
<1>3. CallsType /\ QueueType
  <2>1. <<>> \in Seq(Nat \X Int) /\ <<>> \in Seq(Words)
    OBVIOUS
  <2> QED BY <1>1, <2>1 DEF CallsType, QueueType
<1>4. ProcType /\ KeysType
  <2>1. {} \in SUBSET Nat /\ -1 \in Int /\ 0 \in Nat
    OBVIOUS
  <2>2. keys \in [pressed : SUBSET Nat, last : Int, long : BOOLEAN, count : Nat]
    BY <1>1, <2>1
  <2>3. KeysType
    BY <1>1, <2>2 DEF KeysType
  <2>4. ProcType
    <3>1. proc = [key |-> -1, long |-> FALSE, allowed |-> FALSE, act |-> "none"]
      BY <1>1 DEF Idle
    <3>2. proc \in [key : Int, long : BOOLEAN, allowed : BOOLEAN, act : Acts]
      BY <3>1, <2>1 DEF Acts
    <3>3. proc.act = "none"
      BY <3>1
    <3>4. reboot \in BOOLEAN
      BY <1>1
    <3> QED BY <3>2, <3>3, <3>4 DEF ProcType
  <2> QED BY <2>3, <2>4
<1>5. MainType
  BY <1>1, NoEventWords, PromptCaller DEF MainType, MenuActions
<1>6. pending \in Seq(RawEvents)
  BY DevicesAssumption DEF Init
<1>7. TimersInv /\ FreshInv /\ MenuInv
  BY <1>1 DEF TimersInv, FreshInv, MenuInv, ChosenIsAnItem, Idle, Showing
<1> QED BY <1>2, <1>3, <1>4, <1>5, <1>6, <1>7 DEF IInv, TypeInv

LEMMA IdleInv ==
  ASSUME IInv, UNCHANGED <<touch, calls, proc, keys, timers, pending, reboot, queue, fresh, main, menu, page>>
  PROVE  IInv'
<1>1. InputQuiet /\ QueueType' /\ MainType' /\ FreshInv' /\ MenuInv'
  BY MainNow DEF InputQuiet, QueueType, MainType, FreshInv, MenuInv, ChosenIsAnItem
<1> QED BY <1>1, MainStepInv

LEMMA NextIInv == ASSUME IInv, [Next]_vars PROVE IInv'
<1>1. CASE OnInputEvent
  BY <1>1, OnInputEventInv
<1>2. CASE InputThread
  BY <1>2, ProcessKeyInv, CheckKeyInv, ApplyKeyInv DEF InputThread
<1>3. CASE Timers
  BY <1>3, TimeKeyInv DEF Timers
<1>4. CASE MainThread
  BY <1>4, StartMenuInv, WaitInputEventInv, NothingCameInv, TouchedInv, KeyHandledInv, PromptedInv,
     AnsweredInv, LogChosenInv, ShowFileInv, InstallEndsInv DEF MainThread
<1>5. CASE Unplug
  BY <1>5, IdleInv DEF Unplug, input, shared, screen
<1>6. CASE onVolumeChanged
  BY <1>6, IdleInv DEF onVolumeChanged, input, screen
<1>7. CASE Ended \/ UNCHANGED vars
  BY <1>7, IdleInv DEF Ended, vars, input, shared, screen, world
<1> QED BY <1>1, <1>2, <1>3, <1>4, <1>5, <1>6, <1>7 DEF Next

(* The threads keep IInv, whatever the devices send and however the threads  *)
(* interleave.                                                               *)
THEOREM Invariance == Spec => []IInv
<1>1. Init => IInv
  BY InitIInv
<1>2. IInv /\ [Next]_vars => IInv'
  BY NextIInv
<1> QED BY <1>1, <1>2, PTL DEF Spec

(* For every number of presses and of timers that still sleep: a key that is *)
(* registered as pressed long was held until the timer of this very press    *)
(* had run (ui.cpp, time_key and ProcessKey).                                *)
THEOREM LongPress == Spec => []LongPressWasHeld
<1>1. IInv => LongPressWasHeld
  <2> SUFFICES ASSUME IInv, proc.act = "check", proc.long PROVE <<proc.key, keys.count>> \notin timers
    BY DEF LongPressWasHeld
  <2>1. \A t \in timers : t[2] # keys.count
    BY DEF IInv, TimersInv
  <2> QED BY <2>1
<1> QED BY <1>1, Invariance, PTL

(* For every screen, menu and sequence of keys and touches, those that       *)
(* waking up has made of several events included: no caller of               *)
(* get_menu_selection looks up an item outside its list, but for the -1 of a *)
(* time-out in the list of logs.                                             *)
THEOREM ChosenItem == Spec => []ChosenIsAnItem
<1>1. IInv => ChosenIsAnItem
  BY DEF IInv, MenuInv
<1> QED BY <1>1, Invariance, PTL

(* For every length of the queue: a wipe is not confirmed by what was queued *)
(* before the question was asked (recovery.cpp, get_menu_selection).         *)
THEOREM FreshAnswers == Spec => []AnswersAreFresh
<1>1. IInv => AnswersAreFresh
  BY DEF IInv, FreshInv, AnswersAreFresh
<1> QED BY <1>1, Invariance, PTL

=============================================================================
