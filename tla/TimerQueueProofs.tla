-------------------------- MODULE TimerQueueProofs --------------------------
(***************************************************************************)
(* Proofs about TimerQueue, for a day, hours and a clock of any size: a    *)
(* callback never runs early, and every task keeps exactly one timer.      *)
(***************************************************************************)
EXTENDS TimerQueue, FiniteSetTheorems, TLAPS

All == timers \cup activeTimers \cup ran

(* A timer waits, is due or has run, and both tasks have one when          *)
(* setUpdateTask is done.                                                  *)
TimerInv ==
  /\ timers \cap (activeTimers \cup ran) = {} /\ activeTimers \cap ran = {}
  /\ loop = "wait" => activeTimers = {} /\ ran = {}
  /\ setup # "done" => loop = "wait"
  /\ setup \in {"readTime", "spider"} => timers = {}
  /\ setup = "database" => \E s \in Nat : timers = {<<s, "spider">>}
  /\ setup = "done" => \E s, d \in Nat : All = {<<s, "spider">>, <<d, "database">>}

(* The timerfd as resetTimerfd sets it for an expiration.                  *)
ArmedFor(when) ==
  IF timerfd = Disarmed THEN when <= Now(clock)
  ELSE RealTime(timerfd) >= when /\ RealTime(timerfd) < when + UnitsPerSecond + Shrink

(* Already while setUpdateTask runs the timerfd is set for the spider.     *)
ArmedInv ==
  /\ setup = "database" =>
       timers = {<<FirstTime("spider"), "spider">>} /\ ArmedFor(FirstTime("spider"))
  /\ setup = "done" /\ loop = "wait" => ArmedFor(Min(Expirations(timers)))

IInv == TypeOK /\ NeverEarly /\ TimerInv /\ ArmedInv

LEMMA Division ==
  ASSUME NEW n \in Nat, NEW d \in Nat \ {0}
  PROVE  /\ n \div d \in Nat /\ n % d \in 0..(d - 1)
         /\ n = (n \div d) * d + (n % d)
OBVIOUS

USE TimerAssumption DEF TimerAssumption

-----------------------------------------------------------------------------
LEMMA ProductIsNat == \A m, n \in Nat : m * n \in Nat
OBVIOUS

LEMMA UnitsType == UnitsPerSecond \in Nat \ {0}
BY DEF UnitsPerSecond

(* now() lags behind the real clock and never runs ahead of it.            *)
LEMMA NowLags == \A c \in Nat : Now(c) \in Nat /\ Now(c) <= RealTime(c)
<1> TAKE c \in Nat
<1> DEFINE q == c \div TicksPerSecond
           m == c % TicksPerSecond
<1>1. q \in Nat /\ m \in Nat /\ c = q * TicksPerSecond + m
  OBVIOUS
<1> HIDE DEF q, m
<1>2. Shrink \in Nat \ {0} /\ TicksPerSecond \in Nat \ {0}
  OBVIOUS
<1>3. m <= m * Shrink
  BY <1>1, <1>2
<1>4. (q * TicksPerSecond + m) * Shrink = q * (TicksPerSecond * Shrink) + m * Shrink
  BY <1>1, <1>2
<1>5. Now(c) = q * (TicksPerSecond * Shrink) + m
  BY DEF Now, UnitsPerSecond, q, m
<1>6. q * (TicksPerSecond * Shrink) \in Nat
  BY <1>1, <1>2, ProductIsNat
<1> QED
  BY <1>1, <1>3, <1>4, <1>5, <1>6 DEF RealTime

(* The remainder of a product's bound.                                     *)
LEMMA MulLess ==
  \A a, b, n \in Nat : a < b => a * n + n <= b * n
<1> TAKE a, b, n \in Nat
<1> HAVE a < b
<1>1. PICK k \in Nat : b = a + 1 + k
  <2>1. b - a - 1 \in Nat /\ b = a + 1 + (b - a - 1)
    OBVIOUS
  <2> QED
    BY <2>1
<1>2. b * n = a * n + n + k * n
  BY <1>1
<1>3. a * n \in Nat /\ k * n \in Nat /\ b * n \in Nat
  BY <1>1, ProductIsNat
<1> QED
  BY <1>2, <1>3

LEMMA MulLeast ==
  \A a, b \in Nat : \A n \in Nat \ {0} : a * n < b * n + n => a <= b
<1> TAKE a, b \in Nat
<1> TAKE n \in Nat \ {0}
<1>1. ~(a <= b) => b * n + n <= a * n
  BY MulLess
<1>2. a * n \in Nat /\ b * n \in Nat
  BY ProductIsNat
<1> QED
  BY <1>1, <1>2

(* A timestamp of now(): whole seconds, and a fraction that is too small.  *)
Stamp(second, fraction) == second * UnitsPerSecond + fraction
Fractions == 0..(TicksPerSecond - 1)

LEMMA NowIsStamp ==
  \A c \in Nat : \E q \in Nat, m \in Fractions :
    c = q * TicksPerSecond + m /\ Now(c) = Stamp(q, m)
<1> TAKE c \in Nat
<1>1. TicksPerSecond \in Nat \ {0}
  OBVIOUS
<1>2. c % TicksPerSecond \in 0..(TicksPerSecond - 1)
  BY <1>1, Division
<1>3. c \div TicksPerSecond \in Nat /\ c = (c \div TicksPerSecond) * TicksPerSecond + (c % TicksPerSecond)
  BY <1>1, Division
<1> QED
  BY <1>2, <1>3 DEF Now, Stamp, Fractions

LEMMA StampType ==
  \A q \in Nat, m \in Fractions :
    Stamp(q, m) \in Nat /\ q * UnitsPerSecond \in Nat /\ q * TicksPerSecond \in Nat
<1> TAKE q \in Nat, m \in Fractions
<1>1. q * UnitsPerSecond \in Nat /\ q * TicksPerSecond \in Nat
  BY UnitsType, ProductIsNat
<1> QED
  BY <1>1 DEF Stamp, Fractions

LEMMA SecondIsLonger == TicksPerSecond <= UnitsPerSecond
<1>1. TicksPerSecond * Shrink = UnitsPerSecond /\ 0 < Shrink
  BY DEF UnitsPerSecond
<1>2. 0 * TicksPerSecond + TicksPerSecond <= Shrink * TicksPerSecond
  BY MulLess
<1> QED
  BY <1>1, <1>2

(* A later second has the later timestamp, and the later tick.             *)
LEMMA StampOrder ==
  \A p, q \in Nat, m, n \in Fractions :
    p < q => Stamp(p, m) < Stamp(q, n) /\ p * TicksPerSecond + m < q * TicksPerSecond
<1> TAKE p, q \in Nat, m, n \in Fractions
<1> HAVE p < q
<1>1. p * UnitsPerSecond + UnitsPerSecond <= q * UnitsPerSecond
  BY UnitsType, MulLess
<1>2. p * TicksPerSecond + TicksPerSecond <= q * TicksPerSecond
  BY MulLess
<1>3. /\ p * UnitsPerSecond \in Nat /\ q * UnitsPerSecond \in Nat
      /\ p * TicksPerSecond \in Nat /\ q * TicksPerSecond \in Nat
  BY StampType
<1> QED
  BY <1>1, <1>2, <1>3, SecondIsLonger, UnitsType DEF Stamp, Fractions

LEMMA NowGrows == \A c \in Nat : Now(c) <= Now(c + 1)
<1> TAKE c \in Nat
<1>1. PICK q \in Nat, m \in Fractions : c = q * TicksPerSecond + m /\ Now(c) = Stamp(q, m)
  BY NowIsStamp
<1>2. PICK p \in Nat, n \in Fractions :
        c + 1 = p * TicksPerSecond + n /\ Now(c + 1) = Stamp(p, n)
  <2>1. c + 1 \in Nat
    OBVIOUS
  <2> QED
    BY <2>1, NowIsStamp
<1>3. q * TicksPerSecond \in Nat /\ p * TicksPerSecond \in Nat
  BY StampType
<1>4. CASE p < q
  <2>1. p * TicksPerSecond + n < q * TicksPerSecond
    BY <1>4, StampOrder
  <2> QED
    BY <1>1, <1>2, <1>3, <2>1 DEF Fractions
<1>5. CASE p = q
  BY <1>1, <1>2, <1>3, <1>5, StampType DEF Stamp, Fractions
<1>6. CASE q < p
  BY <1>1, <1>2, <1>6, StampOrder, StampType
<1> QED
  BY <1>4, <1>5, <1>6

(* resetTimerfd: the tick it sets lies ahead, not before the expiration    *)
(* and within a second of it.                                              *)
LEMMA ExpiryIsSound ==
  ASSUME clock \in Nat, NEW when \in Nat, ExpiryTick(when) # Disarmed
  PROVE  /\ when > Now(clock)
         /\ ExpiryTick(when) \in Nat /\ ExpiryTick(when) > clock
         /\ RealTime(ExpiryTick(when)) >= when
         /\ RealTime(ExpiryTick(when)) < when + UnitsPerSecond + Shrink
<1>1. PICK q \in Nat, m \in Fractions :
        clock = q * TicksPerSecond + m /\ Now(clock) = Stamp(q, m)
  BY NowIsStamp
<1> DEFINE left == when - Now(clock)
           r == (left + Shrink - 1) \div Shrink
<1>2. left \in Nat \ {0} /\ ExpiryTick(when) = clock + r
  <2>1. Now(clock) \in Nat
    BY <1>1, StampType
  <2> QED
    BY <2>1 DEF ExpiryTick
<1>3. r \in Nat /\ r >= 1 /\ left <= r * Shrink /\ r * Shrink <= left + Shrink - 1
  <2>1. left + Shrink - 1 \in Nat
    BY <1>2
  <2> HIDE DEF left
  <2>2. /\ r \in Nat /\ r * Shrink <= left + Shrink - 1
        /\ left + Shrink - 1 < r * Shrink + Shrink
    BY <2>1
  <2>3. r # 0
    BY <1>2, <2>1, <2>2
  <2> HIDE DEF r
  <2>4. r * Shrink \in Nat
    BY <2>2, ProductIsNat
  <2> QED
    BY <1>2, <2>2, <2>3, <2>4
<1> HIDE DEF r
<1>4. /\ RealTime(clock + r) = clock * Shrink + r * Shrink
      /\ clock * Shrink = q * UnitsPerSecond + m * Shrink
  <2>1. (q * TicksPerSecond + m) * Shrink = q * (TicksPerSecond * Shrink) + m * Shrink
    BY DEF Fractions
  <2>2. (clock + r) * Shrink = clock * Shrink + r * Shrink
    BY <1>3
  <2> QED
    BY <1>1, <2>1, <2>2 DEF RealTime, UnitsPerSecond
<1>5. m <= m * Shrink /\ m * Shrink + Shrink <= UnitsPerSecond
  <2>1. m * Shrink + Shrink <= TicksPerSecond * Shrink
    BY MulLess DEF Fractions
  <2>2. m \in Nat /\ Shrink \in Nat \ {0}
    BY DEF Fractions
  <2>3. m <= m * Shrink
    BY <2>2
  <2> QED
    BY <2>1, <2>3 DEF UnitsPerSecond
<1>6. /\ q * UnitsPerSecond \in Nat /\ m * Shrink \in Nat /\ r * Shrink \in Nat /\ m \in Nat
      /\ UnitsPerSecond \in Nat /\ clock * Shrink \in Nat
  BY <1>3, UnitsType, ProductIsNat DEF Fractions
<1>7. left = when - (q * UnitsPerSecond + m)
  BY <1>1 DEF Stamp
<1> HIDE DEF left
<1>8. /\ RealTime(ExpiryTick(when)) >= when
      /\ RealTime(ExpiryTick(when)) < when + UnitsPerSecond + Shrink
  BY <1>2, <1>3, <1>4, <1>5, <1>6, <1>7
<1>9. when > Now(clock)
  <2>1. Now(clock) = q * UnitsPerSecond + m
    BY <1>1 DEF Stamp
  <2> QED
    BY <1>2, <1>6, <1>7, <2>1
<1> QED
  BY <1>2, <1>3, <1>8, <1>9

LEMMA ExpiryArms ==
  ASSUME clock \in Nat, NEW when \in Nat, timerfd' = ExpiryTick(when), clock' = clock
  PROVE  ArmedFor(when)'
<1>1. CASE ExpiryTick(when) = Disarmed
  <2>1. Now(clock) \in Nat
    BY NowLags
  <2>2. when - Now(clock) <= 0
    BY <1>1, <2>1 DEF ExpiryTick, Disarmed
  <2> QED
    BY <1>1, <2>1, <2>2 DEF ArmedFor
<1>2. CASE ExpiryTick(when) # Disarmed
  BY <1>2, ExpiryIsSound DEF ArmedFor, RealTime
<1> QED
  BY <1>1, <1>2

LEMMA ExpiryType ==
  ASSUME clock \in Nat, NEW when \in Nat
  PROVE  ExpiryTick(when) \in Nat \cup {Disarmed}
<1> DEFINE left == when - Now(clock)
<1>1. left \in Int
  BY NowLags
<1> HIDE DEF left
<1>2. CASE left <= 0
  BY <1>2 DEF ExpiryTick, left
<1>3. CASE ~(left <= 0)
  <2>1. (left + Shrink - 1) \div Shrink \in Nat
    BY <1>1, <1>3
  <2> QED
    BY <1>3, <2>1 DEF ExpiryTick, left
<1> QED
  BY <1>2, <1>3

LEMMA FirstTimeType ==
  ASSUME curtime \in Nat, NEW task \in Tasks
  PROVE  FirstTime(task) \in Nat
<1> DEFINE hour == IF task = "spider" THEN TwoOClock ELSE ThreeOClock
<1>1. FirstDay(task) \in Nat /\ hour \in Nat
  BY DEF FirstDay
<1>2. FirstDay(task) * Day \in Nat
  BY <1>1, ProductIsNat
<1>3. FirstDay(task) * Day + hour \in Nat
  BY <1>1, <1>2
<1> QED
  BY <1>3, UnitsType, ProductIsNat DEF FirstTime

LEMMA MinOfTwo ==
  ASSUME NEW s \in Nat, NEW d \in Nat
  PROVE  Min({s, d}) \in {s, d} /\ Min({s, d}) <= s /\ Min({s, d}) <= d
<1>1. \E x \in {s, d} : \A y \in {s, d} : x <= y
  <2>1. CASE s <= d
    BY <2>1
  <2>2. CASE d <= s
    BY <2>2
  <2> QED
    BY <2>1, <2>2
<1> QED
  BY <1>1 DEF Min

LEMMA EarliestOf ==
  ASSUME NEW s \in Nat, NEW d \in Nat, NEW T, T = {<<s, "spider">>, <<d, "database">>}
  PROVE  /\ Expirations(T) = {s, d} /\ T # {}
         /\ Min(Expirations(T)) \in {s, d}
         /\ Min(Expirations(T)) <= s /\ Min(Expirations(T)) <= d
<1>1. Expirations(T) = {s, d}
  BY DEF Expirations
<1> QED
  BY <1>1, MinOfTwo

(* The timers of a waiting loop, once setUpdateTask is done.               *)
LEMMA WaitingTimers ==
  ASSUME TimerInv, setup = "done", loop = "wait"
  PROVE  /\ \E s, d \in Nat : timers = {<<s, "spider">>, <<d, "database">>}
         /\ Min(Expirations(timers)) \in Nat
<1>1. PICK s, d \in Nat : timers = {<<s, "spider">>, <<d, "database">>}
  BY DEF TimerInv, All
<1>2. Min(Expirations(timers)) \in {s, d}
  BY <1>1, EarliestOf
<1> QED
  BY <1>1, <1>2

LEMMA FirstTimesInOrder ==
  ASSUME curtime \in Nat
  PROVE  FirstTime("spider") < FirstTime("database")
<1> DEFINE day == curtime \div Day + (IF curtime % Day >= TwoOClock THEN 1 ELSE 0)
<1>1. day \in Nat /\ FirstDay("spider") = day /\ FirstDay("database") = day
  BY DEF FirstDay
<1> HIDE DEF day
<1>2. day * Day + TwoOClock \in Nat /\ day * Day + ThreeOClock \in Nat
  BY <1>1, ProductIsNat
<1>3. day * Day + TwoOClock < day * Day + ThreeOClock
  BY <1>1, ProductIsNat
<1> DEFINE a == day * Day + TwoOClock
           b == day * Day + ThreeOClock
<1> HIDE DEF a, b
<1>4. a \in Nat /\ b \in Nat /\ a < b
  BY <1>2, <1>3 DEF a, b
<1>5. a * UnitsPerSecond + UnitsPerSecond <= b * UnitsPerSecond
  BY <1>4, UnitsType, MulLess
<1>6. a * UnitsPerSecond \in Nat /\ b * UnitsPerSecond \in Nat
  BY <1>4, UnitsType, ProductIsNat
<1>7. FirstTime("spider") = a * UnitsPerSecond /\ FirstTime("database") = b * UnitsPerSecond
  BY <1>1 DEF FirstTime, a, b
<1> QED
  BY <1>5, <1>6, <1>7, UnitsType

LEMMA InitInv == Init => IInv
<1> SUFFICES ASSUME Init PROVE IInv
  OBVIOUS
<1>1. clock \in Nat
  BY DEF Init
<1>2. now \in 0..RealTime(clock)
  BY <1>1 DEF Init, RealTime
<1> QED
  BY <1>1, <1>2 DEF Init, IInv, TypeOK, NeverEarly, TimerInv, ArmedInv, Disarmed

-----------------------------------------------------------------------------
(* What a step does to the timers.                                         *)
LEMMA TimersStep ==
  ASSUME TypeOK, TimerInv, Next
  PROVE  TimerInv' /\ \A T \in {timers', activeTimers', ran'} : T \subseteq Nat \X Tasks
<1> USE DEF TypeOK
<1>1. CASE ReadTime
  BY <1>1 DEF ReadTime, TimerInv, All
<1>2. ASSUME NEW task \in Tasks, AddTimer(task)
      PROVE  TimerInv' /\ \A T \in {timers', activeTimers', ran'} : T \subseteq Nat \X Tasks
  <2>1. FirstTime(task) \in Nat
    BY FirstTimeType
  <2>2. /\ setup = task /\ loop = "wait" /\ activeTimers = {} /\ ran = {}
        /\ UNCHANGED <<loop, activeTimers, ran>>
        /\ timers' = timers \cup {<<FirstTime(task), task>>}
    BY <1>2 DEF AddTimer, TimerInv, Tasks
  <2>3. CASE task = "spider"
    <3>1. setup' = "database" /\ timers' = {<<FirstTime("spider"), "spider">>}
      BY <1>2, <2>2, <2>3 DEF AddTimer, TimerInv
    <3> QED
      BY <2>1, <2>2, <2>3, <3>1 DEF TimerInv
  <2>4. CASE task = "database"
    <3>1. PICK s \in Nat : timers = {<<s, "spider">>}
      BY <2>2, <2>4 DEF TimerInv
    <3>2. setup' = "done"
      BY <1>2, <2>4 DEF AddTimer
    <3>3. All' = {<<s, "spider">>, <<FirstTime("database"), "database">>}
      BY <2>2, <2>4, <3>1 DEF All
    <3>4. timers' \subseteq Nat \X Tasks
      BY <2>1, <2>2
    <3> QED
      BY <2>1, <2>2, <2>4, <3>2, <3>3, <3>4 DEF TimerInv
  <2> QED
    BY <2>3, <2>4 DEF Tasks
<1>3. CASE HandleRead
  <2>1. /\ timers' = timers \ Expired(Now(clock)) /\ activeTimers' = Expired(Now(clock))
        /\ ran' = ran /\ ran = {} /\ activeTimers = {}
        /\ setup' = setup /\ setup = "done" /\ loop' = "callbacks"
    BY <1>3 DEF HandleRead, TimerInv
  <2>2. Expired(Now(clock)) \subseteq timers
    BY DEF Expired
  <2>3. All' = All
    BY <2>1, <2>2 DEF All
  <2>4. \E s, d \in Nat : All' = {<<s, "spider">>, <<d, "database">>}
    BY <2>1, <2>3 DEF TimerInv
  <2>5. /\ timers' \cap (activeTimers' \cup ran') = {} /\ activeTimers' \cap ran' = {}
        /\ \A T \in {timers', activeTimers', ran'} : T \subseteq Nat \X Tasks
    BY <2>1, <2>2
  <2> QED
    BY <2>1, <2>4, <2>5 DEF TimerInv
<1>4. CASE RunCallBack
  <2>1. PICK timer \in activeTimers : activeTimers' = activeTimers \ {timer} /\ ran' = ran \cup {timer}
    BY <1>4 DEF RunCallBack
  <2>2. timers' = timers /\ setup' = setup /\ loop' = loop /\ loop = "callbacks"
    BY <1>4 DEF RunCallBack
  <2>3. All' = All
    BY <2>1, <2>2 DEF All
  <2> QED
    BY <2>1, <2>2, <2>3 DEF TimerInv
<1>5. CASE Rearm
  <2>1. /\ loop = "callbacks" /\ loop' = "wait" /\ activeTimers = {} /\ activeTimers' = {}
        /\ ran' = {} /\ timers' = timers \cup {Repeated(timer) : timer \in ran}
        /\ setup' = setup /\ setup = "done"
    BY <1>5 DEF Rearm, Reinserted, TimerInv
  <2>2. PICK s, d \in Nat : All = {<<s, "spider">>, <<d, "database">>}
    BY <2>1 DEF TimerInv
  <2> DEFINE next == now + Day * UnitsPerSecond
             Spider == <<s, "spider">>
             Database == <<d, "database">>
  <2>3. next \in Nat
    <3>1. now \in Nat /\ Day * UnitsPerSecond \in Nat
      BY UnitsType, ProductIsNat DEF RealTime
    <3> QED
      BY <3>1
  <2>4. timers \cup ran = {Spider, Database} /\ timers \cap ran = {} /\ Spider # Database
    BY <2>1, <2>2 DEF All, TimerInv
  <2>5. Repeated(Spider) = <<next, "spider">> /\ Repeated(Database) = <<next, "database">>
    BY DEF Repeated
  <2> HIDE DEF next
  <2> DEFINE s2 == IF Spider \in ran THEN next ELSE s
             d2 == IF Database \in ran THEN next ELSE d
  <2>6. s2 \in Nat /\ d2 \in Nat
    BY <2>3
  <2>7. timers' = {<<s2, "spider">>, <<d2, "database">>}
    <3>1. CASE Spider \in ran /\ Database \in ran
      BY <2>1, <2>4, <2>5, <3>1
    <3>2. CASE Spider \in ran /\ Database \notin ran
      <4>1. ran = {Spider} /\ timers = {Database}
        BY <2>4, <3>2
      <4> QED
        BY <2>1, <2>5, <3>2, <4>1
    <3>3. CASE Spider \notin ran /\ Database \in ran
      <4>1. ran = {Database} /\ timers = {Spider}
        BY <2>4, <3>3
      <4> QED
        BY <2>1, <2>5, <3>3, <4>1
    <3>4. CASE Spider \notin ran /\ Database \notin ran
      <4>1. ran = {} /\ timers = {Spider, Database}
        BY <2>4, <3>4
      <4> QED
        BY <2>1, <3>4, <4>1
    <3> QED
      BY <3>1, <3>2, <3>3, <3>4
  <2> HIDE DEF s2, d2
  <2>8. All' = timers'
    BY <2>1 DEF All
  <2>9. timers' \subseteq Nat \X Tasks
    BY <2>6, <2>7 DEF Tasks
  <2> QED
    BY <2>1, <2>6, <2>7, <2>8, <2>9 DEF TimerInv
<1>6. CASE Tick
  BY <1>6 DEF Tick, TimerInv, All
<1> QED
  BY <1>1, <1>2, <1>3, <1>4, <1>5, <1>6 DEF Next

LEMMA TypeStep ==
  ASSUME TypeOK, TimerInv, Next
  PROVE  TypeOK'
<1>1. /\ \A T \in {timers', activeTimers', ran'} : T \subseteq Nat \X Tasks
      /\ TimerInv'
  BY TimersStep
<1>2. clock \in Nat /\ Now(clock) \in 0..RealTime(clock)
  BY NowLags DEF TypeOK, RealTime
<1>3. CASE ReadTime
  <2>1. clock \div TicksPerSecond \in Nat
    BY <1>2
  <2> QED
    BY <1>1, <1>3, <2>1 DEF ReadTime, TypeOK, RealTime
<1>4. ASSUME NEW task \in Tasks, AddTimer(task) PROVE TypeOK'
  <2>1. ExpiryTick(FirstTime(task)) \in Nat \cup {Disarmed}
    BY <1>2, FirstTimeType, ExpiryType DEF TypeOK
  <2>2. timerfd' \in Nat \cup {Disarmed}
    BY <1>4, <2>1 DEF AddTimer, TypeOK
  <2> QED
    BY <1>1, <1>4, <2>2 DEF AddTimer, TypeOK, RealTime
<1>5. CASE HandleRead
  BY <1>1, <1>2, <1>5 DEF HandleRead, TypeOK, RealTime
<1>6. CASE RunCallBack
  <2>1. PICK timer \in activeTimers :
          /\ last' = [last EXCEPT ![timer[2]] = clock]
          /\ runs' = [runs EXCEPT ![timer[2]] = @ + 1]
    BY <1>6 DEF RunCallBack
  <2>2. last' \in [Tasks -> Nat] /\ runs' \in [Tasks -> Nat]
    BY <2>1 DEF TypeOK
  <2> QED
    BY <1>1, <1>6, <2>2 DEF RunCallBack, TypeOK, RealTime
<1>7. CASE Rearm
  <2>1. timers' = {} \/ \E s, d \in Nat : timers' = {<<s, "spider">>, <<d, "database">>}
    <3>1. setup' = "done" /\ activeTimers' = {} /\ ran' = {}
      BY <1>1, <1>7 DEF Rearm, TimerInv, TypeOK
    <3>2. All' = timers'
      BY <3>1 DEF All
    <3> QED
      BY <1>1, <3>1, <3>2 DEF TimerInv
  <2>2. timers' # {} => Min(Expirations(timers')) \in Nat
    <3>1. HAVE timers' # {}
    <3>2. PICK s, d \in Nat : timers' = {<<s, "spider">>, <<d, "database">>}
      BY <2>1, <3>1
    <3>3. Expirations(timers') = {s, d}
      BY <3>2 DEF Expirations
    <3> QED
      BY <3>3, MinOfTwo
  <2>3. timerfd' \in Nat \cup {Disarmed}
    BY <1>2, <1>7, <2>2, ExpiryType DEF Rearm
  <2> QED
    BY <1>1, <1>7, <2>3 DEF Rearm, TypeOK, RealTime
<1>8. CASE Tick
  <2>1. clock' = clock + 1 /\ now' = now /\ now \in 0..RealTime(clock)
    BY <1>8 DEF Tick, TypeOK
  <2>2. RealTime(clock') = RealTime(clock) + Shrink /\ RealTime(clock) \in Nat
    BY <1>2, <2>1 DEF RealTime
  <2>3. now' \in 0..RealTime(clock')
    BY <2>1, <2>2
  <2>4. spent' \in 0..(MaxSetup + MaxBusy)
    BY <1>8 DEF Tick, TypeOK
  <2> QED
    BY <1>1, <1>2, <1>8, <2>3, <2>4 DEF Tick, TypeOK, RealTime
<1> QED
  BY <1>3, <1>4, <1>5, <1>6, <1>7, <1>8 DEF Next

LEMMA NeverEarlyStep ==
  ASSUME TypeOK, NeverEarly, Next
  PROVE  NeverEarly'
<1>1. CASE HandleRead
  <2>1. clock' = clock /\ activeTimers' = Expired(Now(clock)) /\ timers \subseteq Nat \X Tasks
    BY <1>1 DEF HandleRead, TypeOK
  <2>2. clock \in Nat /\ Now(clock) \in Nat /\ Now(clock) <= RealTime(clock)
    BY NowLags DEF TypeOK
  <2>3. RealTime(clock) \in Nat
    BY <2>2 DEF RealTime
  <2>4. \A timer \in Expired(Now(clock)) : timer[1] \in Nat /\ timer[1] <= Now(clock)
    BY <2>1 DEF Expired
  <2> QED
    BY <2>1, <2>2, <2>3, <2>4 DEF NeverEarly, RealTime
<1>2. CASE RunCallBack
  BY <1>2 DEF RunCallBack, NeverEarly, RealTime
<1>3. CASE Tick
  <2>1. clock' = clock + 1 /\ activeTimers' = activeTimers /\ clock \in Nat
    BY <1>3 DEF Tick, TypeOK
  <2>2. RealTime(clock') = RealTime(clock) + Shrink /\ RealTime(clock) \in Nat
    BY <2>1 DEF RealTime
  <2>3. \A timer \in activeTimers : timer[1] \in Nat
    BY DEF TypeOK
  <2> QED
    BY <2>1, <2>2, <2>3 DEF NeverEarly
<1>4. CASE ReadTime \/ Rearm \/ \E task \in Tasks : AddTimer(task)
  BY <1>4 DEF ReadTime, Rearm, AddTimer, NeverEarly, RealTime
<1> QED
  BY <1>1, <1>2, <1>3, <1>4 DEF Next

(* The timerfd is set again whenever the earliest timer changes, and a     *)
(* timer that has come due leaves it as it is.                             *)
LEMMA ArmedStep ==
  ASSUME TypeOK, TimerInv, ArmedInv, Next
  PROVE  ArmedInv'
<1>1. clock \in Nat /\ curtime \in Nat
  BY DEF TypeOK
<1>2. CASE ReadTime
  BY <1>2 DEF ReadTime, ArmedInv
<1>3. ASSUME NEW task \in Tasks, AddTimer(task) PROVE ArmedInv'
  <2>1. PICK s, d \in Nat :
          /\ s = FirstTime("spider") /\ d = FirstTime("database")
          /\ s < d /\ FirstTime("spider")' = s
    <3>1. curtime' = curtime
      BY <1>3 DEF AddTimer
    <3> QED
      BY <1>1, <3>1, FirstTimeType, FirstTimesInOrder DEF Tasks, FirstTime, FirstDay
  <2>2. /\ setup = task /\ clock' = clock
        /\ timers' = timers \cup {<<FirstTime(task), task>>}
    BY <1>3 DEF AddTimer
  <2>3. CASE task = "spider"
    <3>1. /\ setup' = "database" /\ timers = {}
          /\ timers' = {<<s, "spider">>} /\ timerfd' = ExpiryTick(s)
      BY <1>3, <2>1, <2>2, <2>3 DEF AddTimer, TimerInv, Expirations
    <3>2. ArmedFor(s)'
      BY <1>1, <2>2, <3>1, ExpiryArms
    <3> QED
      BY <2>1, <3>1, <3>2 DEF ArmedInv
  <2>4. CASE task = "database"
    <3>1. timers = {<<s, "spider">>} /\ ArmedFor(s)
      BY <2>1, <2>2, <2>4 DEF ArmedInv
    <3>2. Expirations(timers) = {s}
      BY <3>1 DEF Expirations
    <3>3. ~(\A w \in Expirations(timers) : d < w)
      BY <2>1, <3>2
    <3>4. setup' = "done" /\ timerfd' = timerfd
      BY <1>3, <2>1, <2>4, <3>3 DEF AddTimer
    <3>5. timers' = {<<s, "spider">>, <<d, "database">>}
      BY <2>1, <2>2, <2>4, <3>1
    <3>6. Min(Expirations(timers')) = s
      BY <2>1, <3>5, EarliestOf
    <3>7. ArmedFor(s)'
      BY <2>2, <3>1, <3>4 DEF ArmedFor
    <3> QED
      BY <3>4, <3>6, <3>7 DEF ArmedInv
  <2> QED
    BY <2>3, <2>4 DEF Tasks
<1>4. CASE HandleRead
  BY <1>4 DEF HandleRead, ArmedInv
<1>5. CASE RunCallBack
  BY <1>5 DEF RunCallBack, ArmedInv, TimerInv
<1>6. CASE Rearm
  <2>1. setup' = "done" /\ loop' = "wait" /\ clock' = clock /\ TimerInv'
    BY <1>6, TimersStep DEF Rearm, TimerInv
  <2>2. PICK s, d \in Nat : timers' = {<<s, "spider">>, <<d, "database">>}
    BY <2>1 DEF TimerInv, All
  <2>3. timers' # {} /\ Min(Expirations(timers')) \in Nat
    <3>1. PICK T : T = timers'
      OBVIOUS
    <3>2. T # {} /\ Min(Expirations(T)) \in {s, d}
      BY <2>2, <3>1, EarliestOf
    <3> QED
      BY <3>1, <3>2
  <2>4. timerfd' = ExpiryTick(Min(Expirations(timers')))
    BY <1>6, <2>3 DEF Rearm
  <2> DEFINE when == Min(Expirations(timers'))
  <2> HIDE DEF when
  <2>5. ASSUME NEW w \in Nat, timerfd' = ExpiryTick(w) PROVE ArmedFor(w)'
    BY <1>1, <2>1, <2>5, ExpiryArms
  <2>6. /\ timerfd' = Disarmed => Min(Expirations(timers')) <= Now(clock')
        /\ timerfd' # Disarmed =>
             /\ RealTime(timerfd') >= Min(Expirations(timers'))
             /\ RealTime(timerfd') < Min(Expirations(timers')) + UnitsPerSecond + Shrink
    BY <2>3, <2>4, <2>5 DEF ArmedFor
  <2> QED
    BY <2>1, <2>6 DEF ArmedInv, ArmedFor
<1>7. CASE Tick
  <2>1. clock' = clock + 1 /\ UNCHANGED <<setup, curtime, timers, timerfd, loop>>
    BY <1>7 DEF Tick
  <2>2. ASSUME NEW w \in Nat, ArmedFor(w) PROVE ArmedFor(w)'
    <3>1. Now(clock) <= Now(clock') /\ Now(clock) \in Nat /\ Now(clock') \in Nat
      BY <1>1, <2>1, NowGrows, NowLags
    <3> QED
      BY <2>1, <2>2, <3>1 DEF ArmedFor, RealTime
  <2>3. FirstTime("spider") \in Nat /\ FirstTime("spider")' = FirstTime("spider")
    BY <1>1, <2>1, FirstTimeType DEF Tasks, FirstTime, FirstDay
  <2>4. setup = "done" /\ loop = "wait" => Min(Expirations(timers)) \in Nat
    BY WaitingTimers
  <2>5. setup' = "database" =>
          timers' = {<<FirstTime("spider")', "spider">>} /\ ArmedFor(FirstTime("spider"))'
    <3>1. HAVE setup' = "database"
    <3>2. timers = {<<FirstTime("spider"), "spider">>} /\ ArmedFor(FirstTime("spider"))
      BY <2>1, <3>1 DEF ArmedInv
    <3>3. PICK w \in Nat : w = FirstTime("spider")
      BY <2>3
    <3>4. ArmedFor(w)'
      BY <2>2, <3>2, <3>3
    <3> QED
      BY <2>1, <2>3, <3>2, <3>3, <3>4
  <2>6. setup' = "done" /\ loop' = "wait" => ArmedFor(Min(Expirations(timers)))'
    <3>1. HAVE setup' = "done" /\ loop' = "wait"
    <3>2. PICK w \in Nat : w = Min(Expirations(timers)) /\ ArmedFor(w)
      BY <2>1, <2>4, <3>1 DEF ArmedInv
    <3>3. ArmedFor(w)' /\ Min(Expirations(timers')) = w
      BY <2>1, <2>2, <3>2
    <3> QED
      BY <3>3
  <2> QED
    BY <2>5, <2>6 DEF ArmedInv
<1> QED
  BY <1>2, <1>3, <1>4, <1>5, <1>6, <1>7 DEF Next

LEMMA NextInv == IInv /\ [Next]_vars => IInv'
<1> SUFFICES ASSUME IInv, [Next]_vars PROVE IInv'
  OBVIOUS
<1>1. CASE Next
  BY <1>1, TypeStep, TimersStep, NeverEarlyStep, ArmedStep DEF IInv
<1>2. CASE UNCHANGED vars
  BY <1>2 DEF vars, IInv, TypeOK, TimerInv, NeverEarly, All, RealTime, ArmedInv, ArmedFor,
     FirstTime, FirstDay
<1> QED
  BY <1>1, <1>2

-----------------------------------------------------------------------------
(* Times, timers and counters have their types, whatever the hour of the   *)
(* start and the length of the callbacks.                                  *)
THEOREM TypeCorrect == Spec => []TypeOK
<1>1. IInv => TypeOK
  BY DEF IInv
<1> QED
  BY <1>1, InitInv, NextInv, PTL DEF Spec

(* No callback runs before its timer is due by the real clock: the error   *)
(* of Timestamp::now is always a lag.                                      *)
THEOREM NeverEarlyHolds == Spec => []NeverEarly
<1>1. IInv => NeverEarly
  BY DEF IInv
<1> QED
  BY <1>1, InitInv, NextInv, PTL DEF Spec

(* Between two handlers the timerfd is set for the earliest timer, within  *)
(* a second of it, although now() lags; it is disarmed only when that      *)
(* timer is due already.                                                   *)
THEOREM ArmedForEarliestHolds == Spec => []ArmedForEarliest
<1>1. IInv => ArmedForEarliest
  BY DEF IInv, ArmedInv, ArmedFor, ArmedForEarliest
<1> QED
  BY <1>1, InitInv, NextInv, PTL DEF Spec

(* After setUpdateTask every task has exactly one timer, also while the    *)
(* callbacks of an expiration run.                                         *)
THEOREM OneTimerPerTaskHolds == Spec => []OneTimerPerTask
<1>1. IInv => OneTimerPerTask
  <2> SUFFICES ASSUME IInv, setup = "done", NEW task \in Tasks
               PROVE  Cardinality({timer \in All : timer[2] = task}) = 1
    BY DEF OneTimerPerTask, All
  <2>1. PICK s, d \in Nat : All = {<<s, "spider">>, <<d, "database">>}
    BY DEF IInv, TimerInv
  <2>2. \E x : {timer \in All : timer[2] = task} = {x}
    <3>1. CASE task = "spider"
      <4>1. {timer \in All : timer[2] = task} = {<<s, "spider">>}
        BY <2>1, <3>1
      <4> QED
        BY <4>1
    <3>2. CASE task = "database"
      <4>1. {timer \in All : timer[2] = task} = {<<d, "database">>}
        BY <2>1, <3>2
      <4> QED
        BY <4>1
    <3> QED
      BY <3>1, <3>2 DEF Tasks
  <2> QED
    BY <2>2, FS_Singleton
<1> QED
  BY <1>1, InitInv, NextInv, PTL DEF Spec

-----------------------------------------------------------------------------
(* The order of the tasks.  setUpdateTask reads the time before it adds    *)
(* the timers; if it took longer than from two to three o'clock, both      *)
(* would expire together, be repeated from the same instant, and run in    *)
(* any order from then on.                                                 *)
SetupWithinTheHour == MaxSetup <= (ThreeOClock - TwoOClock) * TicksPerSecond

(* How often the tasks ran when a given one is next.                       *)
IsNext(task) == runs["spider"] = runs["database"] + (IF task = "spider" THEN 0 ELSE 1)

(* The second of the first run.                                            *)
FirstSecond(task) == FirstDay(task) * Day + (IF task = "spider" THEN TwoOClock ELSE ThreeOClock)

SetupInv ==
  /\ setup # "done" => IsNext("spider") /\ spent <= MaxSetup
  /\ setup \in {"spider", "database"} => clock < (curtime + 1) * TicksPerSecond + spent
  /\ setup = "database" /\ timerfd # Disarmed =>
       timerfd < (FirstSecond("spider") + 1) * TicksPerSecond

(* The timer of the task that is next is the earlier one, by less than a   *)
(* day and by whole seconds; the timerfd never expires as late as the      *)
(* other, so a handleRead finds one timer expired at most.                 *)
InTurn(first, f, second, g) ==
  LET due == <<first, f>>
      later == <<second, g>>
  IN
  \/ /\ timers = {due, later} /\ activeTimers = {} /\ ran = {} /\ IsNext(f)
  \/ /\ timers = {later} /\ activeTimers = {due} /\ ran = {} /\ IsNext(f)
  \/ /\ timers = {later} /\ activeTimers = {} /\ ran = {due} /\ IsNext(g)

Turn(f, g, p, q, m, n) ==
  /\ f # g /\ p < q /\ q < p + Day
  /\ InTurn(Stamp(p, m), f, Stamp(q, n), g)
  /\ loop = "wait" /\ timerfd # Disarmed =>
       timerfd < q * TicksPerSecond /\ clock < q * TicksPerSecond
  /\ activeTimers \cup ran # {} =>
       \E k \in Nat, j \in Fractions : now = Stamp(k, j) /\ p <= k /\ k < q

TurnInv ==
  setup = "done" =>
    \E f, g \in Tasks, p, q \in Nat, m, n \in Fractions : Turn(f, g, p, q, m, n)

OrderInv == SetupInv /\ TurnInv

(* The tick of an expiration lies in the second of the expiration.         *)
LEMMA ExpirySecond ==
  ASSUME clock \in Nat, NEW p \in Nat, NEW m \in Fractions,
         ExpiryTick(Stamp(p, m)) # Disarmed
  PROVE  ExpiryTick(Stamp(p, m)) < (p + 1) * TicksPerSecond
<1> DEFINE left == Stamp(p, m) - Now(clock)
           r == (left + Shrink - 1) \div Shrink
<1>1. PICK q \in Nat, m0 \in Fractions :
        clock = q * TicksPerSecond + m0 /\ Now(clock) = Stamp(q, m0)
  BY NowIsStamp
<1>2. Stamp(p, m) \in Nat /\ Stamp(q, m0) \in Nat
  BY StampType
<1>3. left \in Nat \ {0} /\ ExpiryTick(Stamp(p, m)) = clock + r
  BY <1>1, <1>2 DEF ExpiryTick
<1>4. r \in Nat /\ r * Shrink <= left + Shrink - 1
  <2> HIDE DEF left
  <2>1. left + Shrink - 1 \in Nat
    BY <1>3
  <2> QED
    BY <2>1
<1> HIDE DEF r
<1>5. q <= p
  <2>1. p < q => Stamp(p, m) < Stamp(q, m0)
    BY StampOrder
  <2> QED
    BY <1>1, <1>2, <1>3, <2>1
<1>6. PICK k \in Nat : p = q + k
  <2>1. p - q \in Nat /\ p = q + (p - q)
    BY <1>5
  <2> QED
    BY <2>1
<1>7. PICK e \in Nat : e = IF m0 < m THEN m - m0 ELSE 0
  <2>1. (IF m0 < m THEN m - m0 ELSE 0) \in Nat
    BY DEF Fractions
  <2> QED
    BY <2>1
<1>8. r <= k * TicksPerSecond + e
  <2>1. /\ p * UnitsPerSecond = q * UnitsPerSecond + k * UnitsPerSecond
        /\ k * UnitsPerSecond = (k * TicksPerSecond) * Shrink
        /\ q * UnitsPerSecond \in Nat /\ k * UnitsPerSecond \in Nat
        /\ k * TicksPerSecond \in Nat /\ r * Shrink \in Nat /\ e * Shrink \in Nat
    <3>1. /\ UnitsPerSecond \in Nat /\ q * UnitsPerSecond \in Nat /\ k * UnitsPerSecond \in Nat
          /\ k * TicksPerSecond \in Nat /\ r * Shrink \in Nat /\ e * Shrink \in Nat
      BY <1>4, UnitsType, ProductIsNat
    <3>2. (q + k) * UnitsPerSecond = q * UnitsPerSecond + k * UnitsPerSecond
      BY <3>1
    <3>3. k * (TicksPerSecond * Shrink) = (k * TicksPerSecond) * Shrink
      OBVIOUS
    <3> QED
      BY <1>6, <3>1, <3>2, <3>3 DEF UnitsPerSecond
  <2>2. m - m0 <= e * Shrink
    <3>1. CASE m0 < m
      <4>1. e = m - m0 /\ e \in Nat /\ Shrink \in Nat \ {0}
        BY <1>7, <3>1
      <4>2. e <= e * Shrink
        BY <4>1
      <4> QED
        BY <4>1, <4>2
    <3>2. CASE ~(m0 < m)
      BY <2>1, <3>2 DEF Fractions
    <3> QED
      BY <3>1, <3>2
  <2>3. left = k * UnitsPerSecond + (m - m0)
    BY <1>1, <2>1 DEF Stamp, Fractions
  <2> HIDE DEF left
  <2>4. (k * TicksPerSecond + e) * Shrink = (k * TicksPerSecond) * Shrink + e * Shrink
    BY <2>1
  <2>5. r * Shrink < (k * TicksPerSecond + e) * Shrink + Shrink
    BY <1>3, <1>4, <2>1, <2>2, <2>3, <2>4 DEF Fractions
  <2>6. k * TicksPerSecond + e \in Nat
    BY <2>1
  <2> QED
    BY <1>4, <2>5, <2>6, MulLeast
<1>9. m0 + e <= TicksPerSecond - 1
  BY <1>7 DEF Fractions
<1>10. (p + 1) * TicksPerSecond = q * TicksPerSecond + k * TicksPerSecond + TicksPerSecond
  BY <1>6
<1>11. /\ q * TicksPerSecond \in Nat /\ k * TicksPerSecond \in Nat
       /\ (p + 1) * TicksPerSecond \in Nat
  <2>1. p + 1 \in Nat
    OBVIOUS
  <2> QED
    BY <2>1, ProductIsNat
<1> QED
  BY <1>1, <1>3, <1>4, <1>8, <1>9, <1>10, <1>11 DEF Fractions

(* The first run lies in a later second than the start, and the database   *)
(* is due on the same day as the spider.                                   *)
LEMMA FirstSeconds ==
  ASSUME curtime \in Nat
  PROVE  /\ FirstSecond("spider") \in Nat /\ curtime < FirstSecond("spider")
         /\ FirstSecond("database") = FirstSecond("spider") + (ThreeOClock - TwoOClock)
         /\ \A task \in Tasks : FirstTime(task) = Stamp(FirstSecond(task), 0)
<1> DEFINE day == curtime \div Day + (IF curtime % Day >= TwoOClock THEN 1 ELSE 0)
           n == curtime \div Day
           r == curtime % Day
<1>1. n \in Nat /\ r \in 0..(Day - 1) /\ curtime = n * Day + r
  <2>1. Day \in Nat \ {0}
    OBVIOUS
  <2> QED
    BY <2>1, Division
<1>2. day = n + (IF r >= TwoOClock THEN 1 ELSE 0)
  OBVIOUS
<1>a. FirstDay("spider") = day /\ FirstDay("database") = day
  BY Zenon DEF FirstDay
<1> HIDE DEF n, r
<1>3. day \in Nat /\ FirstDay("spider") = day /\ FirstDay("database") = day
  BY <1>1, <1>2, <1>a
<1> HIDE DEF day
<1>4. n * Day \in Nat /\ day * Day \in Nat /\ (n + 1) * Day = n * Day + Day
  BY <1>1, <1>3, ProductIsNat
<1>5. curtime < day * Day + TwoOClock
  <2>1. CASE r >= TwoOClock
    <3>1. day = n + 1
      BY <1>1, <1>2, <2>1
    <3> QED
      BY <1>1, <1>4, <3>1
  <2>2. CASE ~(r >= TwoOClock)
    <3>1. day = n
      BY <1>1, <1>2, <2>2
    <3> QED
      BY <1>1, <1>4, <2>2, <3>1
  <2> QED
    BY <2>1, <2>2
<1>6. ASSUME NEW task \in Tasks PROVE FirstTime(task) = Stamp(FirstSecond(task), 0)
  <2>1. FirstSecond(task) \in Nat
    BY <1>3, <1>4 DEF FirstSecond, Tasks
  <2>2. FirstSecond(task) * UnitsPerSecond \in Nat
    BY <2>1, UnitsType, ProductIsNat
  <2> QED
    BY <2>2 DEF FirstTime, FirstSecond, Stamp
<1> QED
  BY <1>3, <1>4, <1>5, <1>6 DEF FirstSecond

LEMMA OrderInit == Init => OrderInv
BY DEF Init, OrderInv, SetupInv, TurnInv, IsNext, Tasks

LEMMA SetupStep ==
  ASSUME IInv, SetupInv, Next
  PROVE  SetupInv'
<1>1. clock \in Nat /\ curtime \in Nat /\ spent \in Nat
  BY DEF IInv, TypeOK
<1>2. CASE ReadTime
  <2>1. /\ setup = "readTime" /\ setup' = "spider" /\ curtime' = clock \div TicksPerSecond
        /\ UNCHANGED <<clock, spent, runs>>
    BY <1>2 DEF ReadTime
  <2>2. PICK q \in Nat, m \in Fractions : clock = q * TicksPerSecond + m /\ q = clock \div TicksPerSecond
    <3>1. TicksPerSecond \in Nat \ {0}
      OBVIOUS
    <3>2. clock % TicksPerSecond \in 0..(TicksPerSecond - 1) /\ clock \div TicksPerSecond \in Nat
      BY <1>1, <3>1, Division
    <3>3. clock = (clock \div TicksPerSecond) * TicksPerSecond + (clock % TicksPerSecond)
      BY <1>1, <3>1, Division
    <3> QED
      BY <3>2, <3>3 DEF Fractions
  <2>3. (q + 1) * TicksPerSecond = q * TicksPerSecond + TicksPerSecond /\ q * TicksPerSecond \in Nat
    BY ProductIsNat
  <2>4. clock' < (curtime' + 1) * TicksPerSecond + spent'
    BY <1>1, <2>1, <2>2, <2>3 DEF Fractions
  <2> QED
    BY <2>1, <2>4 DEF SetupInv, IsNext
<1>3. CASE AddTimer("spider")
  <2>1. /\ setup = "spider" /\ setup' = "database" /\ timers = {}
        /\ timerfd' = ExpiryTick(FirstTime("spider"))
        /\ UNCHANGED <<clock, curtime, spent, runs>>
    BY <1>3 DEF AddTimer, IInv, TimerInv, Expirations
  <2>2. FirstSecond("spider")' = FirstSecond("spider")
    BY <2>1 DEF FirstSecond, FirstDay
  <2>3. timerfd' # Disarmed => timerfd' < (FirstSecond("spider") + 1) * TicksPerSecond
    <3>1. 0 \in Fractions
      BY DEF Fractions
    <3>2. FirstTime("spider") = Stamp(FirstSecond("spider"), 0) /\ FirstSecond("spider") \in Nat
      BY <1>1, FirstSeconds DEF Tasks
    <3> QED
      BY <1>1, <2>1, <3>1, <3>2, ExpirySecond
  <2> QED
    BY <2>1, <2>2, <2>3 DEF SetupInv, IsNext
<1>4. CASE AddTimer("database")
  BY <1>4 DEF AddTimer, SetupInv
<1>5. CASE HandleRead \/ RunCallBack \/ Rearm
  <2>1. setup = "done" /\ setup' = "done"
    BY <1>5 DEF HandleRead, RunCallBack, Rearm, IInv, TimerInv
  <2> QED
    BY <2>1 DEF SetupInv
<1>6. CASE Tick
  <2>1. clock' = clock + 1 /\ UNCHANGED <<setup, curtime, timerfd, runs>>
    BY <1>6 DEF Tick
  <2>2. setup # "done" => spent < MaxSetup /\ spent' = spent + 1
    BY <1>6 DEF Tick, IInv, TimerInv
  <2>3. FirstSecond("spider")' = FirstSecond("spider")
    BY <2>1 DEF FirstSecond, FirstDay
  <2>4. (curtime + 1) * TicksPerSecond \in Nat
    <3>1. curtime + 1 \in Nat
      BY <1>1
    <3> QED
      BY <3>1, ProductIsNat
  <2> QED
    BY <1>1, <2>1, <2>2, <2>3, <2>4 DEF SetupInv, IsNext
<1> QED
  BY <1>2, <1>3, <1>4, <1>5, <1>6 DEF Next, Tasks

(* What is left of a second has a tick of its own before the next second.  *)
LEMMA SecondEnds ==
  \A p, q \in Nat : p < q => (p + 1) * TicksPerSecond <= q * TicksPerSecond
<1> TAKE p, q \in Nat
<1> HAVE p < q
<1>1. p * TicksPerSecond + TicksPerSecond <= q * TicksPerSecond
  BY MulLess
<1>2. (p + 1) * TicksPerSecond = p * TicksPerSecond + TicksPerSecond
  OBVIOUS
<1> QED
  BY <1>1, <1>2

(* setUpdateTask ends with the spider next.                                *)
LEMMA TurnBegins ==
  ASSUME IInv, SetupInv, SetupWithinTheHour, AddTimer("database")
  PROVE  TurnInv'
<1> DEFINE h == ThreeOClock - TwoOClock
<1>1. clock \in Nat /\ curtime \in Nat /\ spent \in Nat
  BY DEF IInv, TypeOK
<1>2. PICK p, q \in Nat :
        /\ p = FirstSecond("spider") /\ q = FirstSecond("database")
        /\ curtime < p /\ q = p + h /\ p < q /\ q < p + Day
        /\ FirstTime("spider") = Stamp(p, 0) /\ FirstTime("database") = Stamp(q, 0)
  BY <1>1, FirstSeconds DEF Tasks
<1>3. /\ setup = "database" /\ setup' = "done" /\ activeTimers' = {} /\ ran' = {}
      /\ timers' = {<<Stamp(p, 0), "spider">>, <<Stamp(q, 0), "database">>}
      /\ UNCHANGED <<clock, runs, loop>>
  BY <1>2 DEF AddTimer, IInv, TimerInv, ArmedInv
<1>4. timerfd' = timerfd
  <2>1. Expirations(timers) = {FirstTime("spider")}
    <3>1. timers = {<<FirstTime("spider"), "spider">>}
      BY <1>3 DEF IInv, ArmedInv
    <3> QED
      BY <3>1 DEF Expirations
  <2>2. ~(\A w \in Expirations(timers) : FirstTime("database") < w)
    BY <1>1, <2>1, FirstTimesInOrder, FirstTimeType DEF Tasks
  <2> QED
    BY <2>2 DEF AddTimer
<1>5. clock < q * TicksPerSecond
  <2>1. clock < (curtime + 1) * TicksPerSecond + spent /\ spent <= MaxSetup
    BY <1>3 DEF SetupInv
  <2>2. (curtime + 1) * TicksPerSecond <= p * TicksPerSecond
    BY <1>1, <1>2, SecondEnds
  <2>3. q * TicksPerSecond = p * TicksPerSecond + h * TicksPerSecond
    BY <1>2
  <2>4. /\ (curtime + 1) * TicksPerSecond \in Nat /\ p * TicksPerSecond \in Nat
        /\ h * TicksPerSecond \in Nat
    <3>1. curtime + 1 \in Nat /\ h \in Nat
      BY <1>1
    <3> QED
      BY <3>1, ProductIsNat
  <2> HIDE DEF h
  <2>5. spent <= h * TicksPerSecond
    BY <1>1, <2>1, <2>4 DEF SetupWithinTheHour, h
  <2> QED
    BY <1>1, <2>1, <2>2, <2>3, <2>4, <2>5
<1>6. timerfd' # Disarmed => timerfd' < q * TicksPerSecond
  <2>1. timerfd # Disarmed => timerfd < (p + 1) * TicksPerSecond /\ timerfd \in Nat
    BY <1>2, <1>3 DEF SetupInv, IInv, TypeOK
  <2>2. (p + 1) * TicksPerSecond <= q * TicksPerSecond
    BY <1>2, SecondEnds
  <2>3. (p + 1) * TicksPerSecond \in Nat /\ q * TicksPerSecond \in Nat
    BY ProductIsNat
  <2> QED
    BY <1>4, <2>1, <2>2, <2>3
<1>7. 0 \in Fractions /\ "spider" \in Tasks /\ "database" \in Tasks /\ IsNext("spider")'
  BY <1>3 DEF Fractions, Tasks, SetupInv, IsNext
<1>8. InTurn(Stamp(p, 0), "spider", Stamp(q, 0), "database")'
  BY <1>3, <1>7 DEF InTurn, Stamp
<1>9. activeTimers' \cup ran' = {}
  BY <1>3
<1> QED
  BY <1>2, <1>3, <1>5, <1>6, <1>7, <1>8, <1>9 DEF TurnInv, Turn

(* The timerfd expires in the second of the earlier timer, and the other   *)
(* one is due in a later second: at most one timer has expired.            *)
LEMMA OneExpires ==
  ASSUME IInv, NEW f \in Tasks, NEW g \in Tasks, NEW p \in Nat, NEW q \in Nat,
         NEW m \in Fractions, NEW n \in Fractions,
         setup = "done", Turn(f, g, p, q, m, n), HandleRead
  PROVE  Turn(f, g, p, q, m, n)'
<1> DEFINE due == <<Stamp(p, m), f>>
           later == <<Stamp(q, n), g>>
<1>1. /\ loop = "wait" /\ timerfd # Disarmed /\ clock \in Nat
      /\ loop' = "callbacks" /\ ran' = ran /\ runs' = runs
      /\ now' = Now(clock) /\ activeTimers' = Expired(Now(clock))
      /\ timers' = timers \ Expired(Now(clock))
  BY DEF HandleRead, Readable, IInv, TypeOK
<1>2. timers = {due, later} /\ ran = {} /\ IsNext(f)
  BY <1>1 DEF Turn, InTurn, IInv, TimerInv
<1>3. PICK k \in Nat, j \in Fractions :
        clock = k * TicksPerSecond + j /\ Now(clock) = Stamp(k, j)
  BY <1>1, NowIsStamp
<1>4. /\ Stamp(p, m) \in Nat /\ Stamp(q, n) \in Nat /\ Stamp(k, j) \in Nat
      /\ k * TicksPerSecond \in Nat /\ q * TicksPerSecond \in Nat
  BY StampType
<1>5. k < q
  <2>1. clock < q * TicksPerSecond
    BY <1>1 DEF Turn
  <2>2. q < k => q * TicksPerSecond + n < k * TicksPerSecond
    BY StampOrder
  <2> QED
    BY <1>3, <1>4, <2>1, <2>2 DEF Fractions
<1>6. Stamp(k, j) < Stamp(q, n)
  BY <1>5, StampOrder
<1>7. Expired(Now(clock)) \in {{}, {due}}
  <2>1. ~(Stamp(q, n) <= Now(clock))
    BY <1>3, <1>4, <1>6
  <2> QED
    BY <1>2, <2>1 DEF Expired
<1>8. due # later
  BY DEF Turn
<1>9. CASE Expired(Now(clock)) = {}
  BY <1>1, <1>2, <1>9 DEF Turn, InTurn, IsNext
<1>10. CASE Expired(Now(clock)) = {due}
  <2>1. Stamp(p, m) <= Stamp(k, j)
    <3>1. due \in Expired(Now(clock))
      BY <1>10
    <3> QED
      BY <1>3, <3>1 DEF Expired
  <2>2. p <= k
    <3>1. k < p => Stamp(k, j) < Stamp(p, m)
      BY StampOrder
    <3> QED
      BY <1>4, <2>1, <3>1
  <2>3. timers' = {later} /\ activeTimers' = {due} /\ ran' = {} /\ IsNext(f)'
    BY <1>1, <1>2, <1>8, <1>10 DEF IsNext
  <2>4. InTurn(Stamp(p, m), f, Stamp(q, n), g)'
    BY <2>3 DEF InTurn
  <2>5. now' = Stamp(k, j)
    BY <1>1, <1>3
  <2> QED
    BY <1>1, <1>5, <2>2, <2>4, <2>5 DEF Turn
<1> QED
  BY <1>7, <1>9, <1>10

LEMMA CallBackEndsTurn ==
  ASSUME IInv, NEW f \in Tasks, NEW g \in Tasks, NEW p \in Nat, NEW q \in Nat,
         NEW m \in Fractions, NEW n \in Fractions,
         setup = "done", Turn(f, g, p, q, m, n), RunCallBack
  PROVE  Turn(f, g, p, q, m, n)'
<1> DEFINE due == <<Stamp(p, m), f>>
           later == <<Stamp(q, n), g>>
<1>1. PICK timer \in activeTimers :
        /\ activeTimers' = activeTimers \ {timer} /\ ran' = ran \cup {timer}
        /\ runs' = [runs EXCEPT ![timer[2]] = @ + 1]
        /\ UNCHANGED <<clock, timers, timerfd, loop, now>>
  BY DEF RunCallBack
<1>2. timers = {later} /\ activeTimers = {due} /\ ran = {} /\ IsNext(f)
  BY <1>1 DEF Turn, InTurn
<1>3. timer = due /\ activeTimers' = {} /\ ran' = {due} /\ timers' = {later}
  BY <1>1, <1>2
<1>4. IsNext(g)'
  <2>1. runs \in [Tasks -> Nat] /\ f # g
    BY DEF IInv, TypeOK, Turn
  <2>2. runs' = [runs EXCEPT ![f] = @ + 1]
    BY <1>1, <1>3
  <2> QED
    BY <1>2, <2>1, <2>2 DEF IsNext, Tasks
<1>5. InTurn(Stamp(p, m), f, Stamp(q, n), g)'
  BY <1>3, <1>4 DEF InTurn
<1>6. \E k \in Nat, j \in Fractions : now' = Stamp(k, j) /\ p <= k /\ k < q
  BY <1>1, <1>2 DEF Turn
<1> QED
  BY <1>1, <1>5, <1>6 DEF Turn

(* The timer that ran is due a day later, in turn behind the other.        *)
LEMMA RearmTurns ==
  ASSUME IInv, NEW f \in Tasks, NEW g \in Tasks, NEW p \in Nat, NEW q \in Nat,
         NEW m \in Fractions, NEW n \in Fractions,
         setup = "done", Turn(f, g, p, q, m, n), Rearm
  PROVE  \/ Turn(f, g, p, q, m, n)'
         \/ \E k \in Nat, j \in Fractions : Turn(g, f, q, k, n, j)'
<1>1. /\ activeTimers = {} /\ activeTimers' = {} /\ ran' = {} /\ loop' = "wait"
      /\ timers' = timers \cup {Repeated(timer) : timer \in ran}
      /\ UNCHANGED <<clock, runs>> /\ clock \in Nat
  BY DEF Rearm, Reinserted, IInv, TypeOK
<1>2. ASSUME NEW a \in Tasks, NEW b \in Tasks, NEW u \in Nat, NEW v \in Nat,
             NEW x \in Fractions, NEW y \in Fractions,
             a # b, u < v, v < u + Day, IsNext(a),
             timers' = {<<Stamp(u, x), a>>, <<Stamp(v, y), b>>}
      PROVE  Turn(a, b, u, v, x, y)'
  <2>1. /\ Stamp(u, x) \in Nat /\ Stamp(v, y) \in Nat /\ Stamp(u, x) < Stamp(v, y)
        /\ v * TicksPerSecond \in Nat
    BY <1>2, StampType, StampOrder
  <2>2. Expirations(timers') = {Stamp(u, x), Stamp(v, y)} /\ timers' # {}
    BY <1>2 DEF Expirations
  <2>3. Min(Expirations(timers')) = Stamp(u, x)
    BY <2>1, <2>2, MinOfTwo
  <2>4. timerfd' = ExpiryTick(Stamp(u, x))
    BY <2>2, <2>3 DEF Rearm
  <2>5. timerfd' # Disarmed => timerfd' < v * TicksPerSecond /\ clock < v * TicksPerSecond
    <3>1. HAVE timerfd' # Disarmed
    <3>2. timerfd' \in Nat /\ timerfd' > clock
      BY <1>1, <2>1, <2>4, <3>1, ExpiryIsSound
    <3>3. timerfd' < (u + 1) * TicksPerSecond
      BY <1>1, <2>4, <3>1, ExpirySecond
    <3>4. (u + 1) * TicksPerSecond <= v * TicksPerSecond
      BY <1>2, SecondEnds
    <3>5. (u + 1) * TicksPerSecond \in Nat
      BY ProductIsNat
    <3> QED
      BY <1>1, <2>1, <3>2, <3>3, <3>4, <3>5
  <2>6. InTurn(Stamp(u, x), a, Stamp(v, y), b)'
    BY <1>1, <1>2 DEF InTurn, IsNext
  <2> QED
    BY <1>1, <1>2, <2>5, <2>6 DEF Turn
<1>3. CASE ran = {}
  <2>1. timers' = {<<Stamp(p, m), f>>, <<Stamp(q, n), g>>} /\ IsNext(f)
    BY <1>1, <1>3 DEF Turn, InTurn
  <2> QED
    BY <1>2, <2>1 DEF Turn
<1>4. CASE ran # {}
  <2>1. timers = {<<Stamp(q, n), g>>} /\ ran = {<<Stamp(p, m), f>>} /\ IsNext(g)
    BY <1>1, <1>4 DEF Turn, InTurn
  <2>2. PICK k \in Nat, j \in Fractions : now = Stamp(k, j) /\ p <= k /\ k < q
    BY <1>4 DEF Turn
  <2>3. k + Day \in Nat /\ q < k + Day /\ k + Day < q + Day /\ g # f
    BY <2>2 DEF Turn
  <2>4. now + Day * UnitsPerSecond = Stamp(k + Day, j)
    <3>1. (k + Day) * UnitsPerSecond = k * UnitsPerSecond + Day * UnitsPerSecond
      BY UnitsType
    <3>2. k * UnitsPerSecond \in Nat /\ Day * UnitsPerSecond \in Nat
      BY UnitsType, ProductIsNat
    <3> QED
      BY <2>2, <3>1, <3>2 DEF Stamp, Fractions
  <2>5. timers' = {<<Stamp(q, n), g>>, <<Stamp(k + Day, j), f>>}
    <3>1. {Repeated(timer) : timer \in ran} = {<<Stamp(k + Day, j), f>>}
      BY <2>1, <2>4 DEF Repeated
    <3> QED
      BY <1>1, <2>1, <3>1
  <2>6. Turn(g, f, q, k + Day, n, j)'
    BY <1>2, <2>1, <2>3, <2>5
  <2> QED
    BY <2>3, <2>6
<1> QED
  BY <1>3, <1>4

(* handleRead leaves the timerfd disarmed, or set for a later tick.        *)
LEMMA RearmedAhead ==
  ASSUME IInv, Rearm
  PROVE  ~Readable'
<1>1. TimerInv' /\ setup' = "done" /\ loop' = "wait" /\ clock' = clock /\ clock \in Nat
  BY TimersStep DEF Rearm, IInv, TimerInv, TypeOK, Next
<1>2. PICK s, d \in Nat : timers' = {<<s, "spider">>, <<d, "database">>}
  BY <1>1 DEF TimerInv, All
<1>3. timers' # {} /\ Min(Expirations(timers')) \in {s, d}
  BY <1>2, EarliestOf
<1>4. PICK when \in Nat : timerfd' = ExpiryTick(when)
  BY <1>3 DEF Rearm
<1>5. timerfd' = Disarmed \/ timerfd' > clock
  BY <1>1, <1>4, ExpiryIsSound
<1>6. ExpiryTick(when) \in Nat \cup {Disarmed}
  BY <1>1, <1>4, ExpiryType
<1> QED
  BY <1>1, <1>4, <1>5, <1>6 DEF Readable

(* A callback that is due is the one that is next, and the only one.       *)
LEMMA ActiveIsNext ==
  ASSUME IInv, OrderInv, NEW timer \in activeTimers
  PROVE  /\ setup = "done" /\ activeTimers = {timer}
         /\ timer[2] \in Tasks /\ IsNext(timer[2])
<1>1. setup = "done"
  BY DEF IInv, TimerInv
<1>2. PICK f, g \in Tasks, p, q \in Nat, m, n \in Fractions : Turn(f, g, p, q, m, n)
  BY <1>1 DEF OrderInv, TurnInv
<1>3. activeTimers = {<<Stamp(p, m), f>>} /\ IsNext(f)
  BY <1>2 DEF Turn, InTurn
<1> QED
  BY <1>1, <1>3

(* Its run makes the other one the next.                                   *)
LEMMA RunPassesTurn ==
  ASSUME IInv, OrderInv, NEW task \in Tasks, IsNext(task), RunCallBack
  PROVE  activeTimers' = {} /\ \A other \in Tasks : IsNext(other)' <=> other # task
<1>1. PICK timer \in activeTimers :
        /\ activeTimers' = activeTimers \ {timer}
        /\ runs' = [runs EXCEPT ![timer[2]] = @ + 1]
  BY DEF RunCallBack
<1>2. activeTimers = {timer} /\ timer[2] \in Tasks /\ IsNext(timer[2])
  BY ActiveIsNext
<1>3. runs \in [Tasks -> Nat]
  BY DEF IInv, TypeOK
<1>4. timer[2] = task
  BY <1>2, <1>3 DEF IsNext, Tasks
<1> QED
  BY <1>1, <1>2, <1>3, <1>4 DEF IsNext, Tasks

LEMMA TurnStep ==
  ASSUME IInv, SetupInv, TurnInv, SetupWithinTheHour, Next
  PROVE  TurnInv'
<1>1. CASE ReadTime \/ AddTimer("spider")
  BY <1>1 DEF ReadTime, AddTimer, TurnInv
<1>2. CASE AddTimer("database")
  BY <1>2, TurnBegins
<1>3. CASE setup = "done" /\ (HandleRead \/ RunCallBack \/ Rearm \/ Tick)
  <2>1. PICK f, g \in Tasks, p, q \in Nat, m, n \in Fractions : Turn(f, g, p, q, m, n)
    BY <1>3 DEF TurnInv
  <2>2. CASE HandleRead \/ RunCallBack
    <3>1. Turn(f, g, p, q, m, n)'
      BY <1>3, <2>1, <2>2, OneExpires, CallBackEndsTurn
    <3> QED
      BY <3>1 DEF TurnInv
  <2>3. CASE Rearm
    <3>1. \E a, b \in Tasks, u, v \in Nat, x, y \in Fractions : Turn(a, b, u, v, x, y)'
      <4>1. CASE Turn(f, g, p, q, m, n)'
        BY <4>1
      <4>2. CASE \E k \in Nat, j \in Fractions : Turn(g, f, q, k, n, j)'
        BY <4>2
      <4> QED
        BY <1>3, <2>1, <2>3, <4>1, <4>2, RearmTurns
    <3> QED
      BY <3>1 DEF TurnInv
  <2>4. CASE Tick
    <3>1. /\ clock' = clock + 1 /\ clock \in Nat
          /\ UNCHANGED <<timers, timerfd, loop, now, activeTimers, ran, runs>>
      BY <2>4 DEF Tick, IInv, TypeOK
    <3>2. loop = "wait" /\ timerfd # Disarmed => clock < timerfd /\ timerfd \in Nat
      BY <1>3, <2>4, <3>1 DEF Tick, Readable, IInv, TypeOK
    <3>3. q * TicksPerSecond \in Nat
      BY ProductIsNat
    <3>4. loop' = "wait" /\ timerfd' # Disarmed =>
            timerfd' < q * TicksPerSecond /\ clock' < q * TicksPerSecond
      BY <2>1, <3>1, <3>2, <3>3 DEF Turn
    <3>5. Turn(f, g, p, q, m, n)'
      BY <2>1, <3>1, <3>4 DEF Turn, InTurn, IsNext
    <3> QED
      BY <3>5 DEF TurnInv
  <2> QED
    BY <1>3, <2>2, <2>3, <2>4
<1>4. CASE setup # "done" /\ Tick
  BY <1>4 DEF Tick, TurnInv
<1>5. HandleRead \/ RunCallBack \/ Rearm => setup = "done"
  BY DEF HandleRead, RunCallBack, Rearm, IInv, TimerInv
<1> QED
  BY <1>1, <1>2, <1>3, <1>4, <1>5 DEF Next, Tasks

LEMMA OrderStep ==
  IInv /\ (SetupWithinTheHour => OrderInv) /\ [Next]_vars => (SetupWithinTheHour => OrderInv)'
<1> SUFFICES ASSUME IInv, SetupWithinTheHour, OrderInv, [Next]_vars PROVE OrderInv'
  BY DEF SetupWithinTheHour
<1>1. CASE Next
  BY <1>1, SetupStep, TurnStep DEF OrderInv
<1>2. CASE UNCHANGED vars
  <2>1. SetupInv'
    BY <1>2 DEF vars, OrderInv, SetupInv, IsNext, FirstSecond, FirstDay
  <2>2. \A f, g \in Tasks, p, q \in Nat, m, n \in Fractions :
          Turn(f, g, p, q, m, n) => Turn(f, g, p, q, m, n)'
    BY <1>2 DEF vars, Turn, InTurn, IsNext
  <2>3. TurnInv'
    <3>1. CASE setup # "done"
      BY <1>2, <3>1 DEF vars, TurnInv
    <3>2. CASE setup = "done"
      <4>1. PICK f, g \in Tasks, p, q \in Nat, m, n \in Fractions : Turn(f, g, p, q, m, n)
        BY <3>2 DEF OrderInv, TurnInv
      <4>2. Turn(f, g, p, q, m, n)'
        BY <2>2, <4>1
      <4> QED
        BY <4>2 DEF TurnInv
    <3> QED
      BY <3>1, <3>2
  <2> QED
    BY <2>1, <2>3 DEF OrderInv
<1> QED
  BY <1>1, <1>2

THEOREM InOrder == Spec => [](SetupWithinTheHour => OrderInv)
BY InitInv, NextInv, OrderInit, OrderStep, PTL DEF Spec

(* Every run of the update follows a run of the spider, for any number of  *)
(* days and however long the callbacks take, unless setUpdateTask itself   *)
(* takes more than the hour between the two.                               *)
THEOREM SpiderFirstHolds == Spec => [](SetupWithinTheHour => SpiderFirst)
<1>1. IInv /\ (SetupWithinTheHour => OrderInv) => (SetupWithinTheHour => SpiderFirst)
  <2> SUFFICES ASSUME IInv, OrderInv PROVE SpiderFirst
    OBVIOUS
  <2>1. \E task \in Tasks : IsNext(task)
    BY DEF OrderInv, SetupInv, TurnInv, Turn, InTurn, Tasks
  <2>2. runs["spider"] \in Nat /\ runs["database"] \in Nat
    BY DEF IInv, TypeOK, Tasks
  <2> QED
    BY <2>1, <2>2 DEF IsNext, SpiderFirst
<1> QED
  BY <1>1, InitInv, NextInv, InOrder, PTL DEF Spec

=============================================================================
