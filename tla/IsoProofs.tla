----------------------------- MODULE IsoProofs ------------------------------
(***************************************************************************)
(* What the receive side makes of the cycle timer is right for every       *)
(* length of a cycle, a second and a turn of the timer.  The arithmetic    *)
(* comes first: quotients and remainders, the fields of the timer, and     *)
(* differences of wrapped values.  At the end: the tasks of the iso        *)
(* handlers poll what is enabled, whatever the client, the other task and  *)
(* a bus reset do in between.                                              *)
(***************************************************************************)
EXTENDS IsoClock, IsoHandlers, SequenceTheorems, TLAPS

LEMMA Quotient ==
  ASSUME NEW n \in Nat \ {0}, NEW x \in Int
  PROVE  /\ x % n \in 0..(n - 1) /\ x \div n \in Int
         /\ x = n * (x \div n) + (x % n)
OBVIOUS

LEMMA SmallMultiple ==
  ASSUME NEW n \in Nat \ {0}, NEW k \in Int, -n < n * k, n * k < n
  PROVE  k = 0
<1>1. CASE k <= -1
  <2>1. n * k <= -n BY <1>1
  <2> QED BY <2>1
<1>2. CASE k >= 1
  <2>1. n * k >= n BY <1>2
  <2> QED BY <2>1
<1> QED BY <1>1, <1>2

\* A number is divided in one way only.
LEMMA Division ==
  ASSUME NEW n \in Nat \ {0}, NEW q \in Int, NEW r \in 0..(n - 1), NEW x, x = n * q + r
  PROVE  x \div n = q /\ x % n = r
<1>0. n * q \in Int /\ x \in Int OBVIOUS
<1>1. PICK p \in Int, s \in 0..(n - 1) : p = x \div n /\ s = x % n /\ x = n * p + s
  BY <1>0, Quotient
<1>2. n * (q - p) = s - r
  <2>1. n * (q - p) = n * q - n * p OBVIOUS
  <2>2. n * p \in Int OBVIOUS
  <2> QED BY <1>0, <1>1, <2>1, <2>2
<1>3. q - p = 0
  <2>1. q - p \in Int OBVIOUS
  <2>2. -n < n * (q - p) /\ n * (q - p) < n BY <1>2
  <2> QED BY <2>1, <2>2, SmallMultiple
<1>4. s = r BY <1>2, <1>3
<1> QED BY <1>1, <1>3, <1>4

\* Whole turns.
LEMMA Turns ==
  ASSUME NEW n \in Nat \ {0}, NEW x \in Int, NEW k \in Int
  PROVE  (x + n * k) % n = x % n /\ (x + n * k) \div n = (x \div n) + k
<1>1. PICK p \in Int, r \in 0..(n - 1) : p = x \div n /\ r = x % n /\ x = n * p + r
  BY Quotient
<1>2. PICK q \in Int : q = p + k OBVIOUS
<1>3. n * q = n * p + n * k BY <1>2
<1>4. n * p \in Int /\ n * k \in Int OBVIOUS
<1>5. x + n * k = n * q + r BY <1>1, <1>3, <1>4
<1>6. PICK y \in Int : y = x + n * k BY <1>4
<1>7. y \div n = q /\ y % n = r BY <1>5, <1>6, Division
<1> QED BY <1>1, <1>2, <1>6, <1>7

\* Dividing by a product.
LEMMA ProductDivision ==
  ASSUME NEW a \in Nat \ {0}, NEW b \in Nat \ {0}, NEW x \in Int
  PROVE  /\ a * b \in Nat \ {0}
         /\ x \div (a * b) = (x \div a) \div b
         /\ x % (a * b) = a * ((x \div a) % b) + (x % a)
<1>1. PICK q \in Int, r \in 0..(a - 1) : q = x \div a /\ r = x % a /\ x = a * q + r BY Quotient
<1>2. PICK p \in Int, s \in 0..(b - 1) : p = q \div b /\ s = q % b /\ q = b * p + s BY Quotient
<1>3. PICK n \in Nat : n = a * b OBVIOUS
<1>4. n # 0
  <2>1. a * b >= b OBVIOUS
  <2> QED BY <1>3, <2>1
<1>5. PICK t \in Int : t = a * s + r
  <2>1. a * s \in Int OBVIOUS
  <2> QED BY <2>1
<1>6. t \in 0..(n - 1)
  <2>1. a * s >= 0 /\ a * s \in Int OBVIOUS
  <2>2. a * s <= a * (b - 1)
    <3>1. s <= b - 1 /\ b - 1 \in Int BY <1>2
    <3>2. a * (b - 1 - s) >= 0 BY <3>1
    <3>3. a * (b - 1 - s) = a * (b - 1) - a * s BY <3>1
    <3>4. a * (b - 1) \in Int BY <3>1
    <3> QED BY <2>1, <3>2, <3>3, <3>4
  <2>3. a * (b - 1) = n - a BY <1>3
  <2> QED BY <1>1, <1>3, <1>5, <2>1, <2>2, <2>3
<1>7. x = n * p + t
  <2>1. a * q = a * (b * p) + a * s BY <1>2
  <2>2. a * (b * p) = n * p BY <1>3
  <2>3. n * p \in Int /\ a * s \in Int OBVIOUS
  <2> QED BY <1>1, <1>5, <2>1, <2>2, <2>3
<1>8. x \div n = p /\ x % n = t BY <1>4, <1>6, <1>7, Division
<1> QED BY <1>1, <1>2, <1>3, <1>4, <1>5, <1>8

LEMMA Multiple ==
  ASSUME NEW n \in Nat \ {0}, NEW x \in Int, x % n = 0
  PROVE  \E k \in Int : x = n * k
<1>1. x \div n \in Int /\ x = n * (x \div n) + (x % n) BY Quotient
<1>2. PICK k \in Int : k = x \div n BY <1>1
<1>3. n * k \in Int OBVIOUS
<1>4. x = n * k BY <1>1, <1>2, <1>3
<1> QED BY <1>4

\* A remainder by a number is not changed by a remainder by its multiple.
LEMMA RemainderOfRemainder ==
  ASSUME NEW a \in Nat \ {0}, NEW n \in Nat \ {0}, NEW x \in Int, n % a = 0
  PROVE  (x % n) % a = x % a
<1>1. PICK m \in Int : n = a * m
  <2>1. n \in Int OBVIOUS
  <2> QED BY <2>1, Multiple
<1>2. PICK q \in Int, r \in 0..(n - 1) : q = x \div n /\ r = x % n /\ x = n * q + r BY Quotient
<1>3. PICK k \in Int : k = m * q OBVIOUS
<1>4. n * q = a * k BY <1>1, <1>3
<1>5. x = r + a * k
  <2>1. a * k \in Int OBVIOUS
  <2> QED BY <1>2, <1>4, <2>1
<1>6. (r + a * k) % a = r % a
  <2>1. r \in Int OBVIOUS
  <2> QED BY <2>1, Turns
<1> QED BY <1>2, <1>5, <1>6

\* Division is monotonic.
LEMMA DivisionMonotonic ==
  ASSUME NEW n \in Nat \ {0}, NEW x \in Int, NEW y \in Int, x <= y
  PROVE  x \div n <= y \div n
<1>1. PICK p \in Int, r \in 0..(n - 1) : p = x \div n /\ r = x % n /\ x = n * p + r BY Quotient
<1>2. PICK q \in Int, s \in 0..(n - 1) : q = y \div n /\ s = y % n /\ y = n * q + s BY Quotient
<1>3. ASSUME p > q PROVE FALSE
  <2>1. n * (p - q) >= n BY <1>3
  <2>2. n * (p - q) = n * p - n * q OBVIOUS
  <2>3. n * p \in Int /\ n * q \in Int OBVIOUS
  <2> QED BY <1>1, <1>2, <2>1, <2>2, <2>3
<1> QED BY <1>1, <1>2, <1>3

(***************************************************************************)
(* The timer.                                                              *)
(***************************************************************************)
LEMMA Sizes ==
  /\ CYCLES_PER_SECOND \in Nat \ {0} /\ TICKS_PER_CYCLE \in Nat \ {0} /\ SECONDS \in Nat \ {0}
  /\ TICKS_PER_SECOND \in Nat \ {0} /\ WrapTicks \in Nat \ {0}
<1>1. PICK c \in Nat \ {0}, t \in Nat \ {0}, s \in Nat \ {0} :
        c = CYCLES_PER_SECOND /\ t = TICKS_PER_CYCLE /\ s = SECONDS
  BY CycleTimerAssumption
<1>2. PICK p \in Nat \ {0} : p = c * t
  <2>1. c * t \in Nat /\ c * t >= t OBVIOUS
  <2> QED BY <2>1
<1>3. s * p \in Nat /\ s * p >= p OBVIOUS
<1> QED BY <1>1, <1>2, <1>3 DEF TICKS_PER_SECOND, WrapTicks

\* The fields of a time, from the cycle it is in.
LEMMA TimerFields ==
  ASSUME NEW x \in Int
  PROVE  /\ TICKS_TO_CYCLE_TIMER(x) = [secs |-> (Cycle(x) \div CYCLES_PER_SECOND) % SECONDS,
                                       cycles |-> Cycle(x) % CYCLES_PER_SECOND,
                                       offset |-> x % TICKS_PER_CYCLE]
         /\ Cycle(x) \in Int
<1>1. PICK c \in Nat \ {0}, t \in Nat \ {0} : c = CYCLES_PER_SECOND /\ t = TICKS_PER_CYCLE BY Sizes
<1>2. x \div (t * c) = (x \div t) \div c BY ProductDivision
<1>3. TICKS_PER_SECOND = t * c BY <1>1 DEF TICKS_PER_SECOND
<1>4. TICKS_TO_SECS(x) = (x \div t) \div c BY <1>2, <1>3 DEF TICKS_TO_SECS
<1>5. x \div t \in Int BY Quotient
<1> QED BY <1>1, <1>4, <1>5 DEF TICKS_TO_CYCLE_TIMER, TICKS_TO_CYCLES, TICKS_TO_OFFSET, Cycle

\* A cycle of a second, and its ticks.
LEMMA CycleOf ==
  ASSUME NEW x \in Int
  PROVE  /\ Cycle(x) \in Int /\ Cycle(x) * TICKS_PER_CYCLE \in Int
         /\ x % TICKS_PER_CYCLE \in 0..(TICKS_PER_CYCLE - 1)
         /\ x = Cycle(x) * TICKS_PER_CYCLE + (x % TICKS_PER_CYCLE)
<1>1. PICK t \in Nat \ {0} : t = TICKS_PER_CYCLE BY Sizes
<1>2. PICK q \in Int : q = x \div t BY Quotient
<1>3. x % t \in 0..(t - 1) /\ x = t * q + (x % t) BY <1>2, Quotient
<1>4. t * q = q * t /\ q * t \in Int OBVIOUS
<1> QED BY <1>1, <1>2, <1>3, <1>4 DEF Cycle

LEMMA CycleIs ==
  ASSUME NEW q \in Int, NEW r \in 0..(TICKS_PER_CYCLE - 1)
  PROVE  /\ q * TICKS_PER_CYCLE + r \in Int
         /\ Cycle(q * TICKS_PER_CYCLE + r) = q
         /\ (q * TICKS_PER_CYCLE + r) % TICKS_PER_CYCLE = r
<1>1. PICK t \in Nat \ {0} : t = TICKS_PER_CYCLE BY Sizes
<1>2. r \in 0..(t - 1) BY <1>1
<1>3. PICK m \in Int : m = q * t OBVIOUS
<1>4. m = t * q BY <1>3
<1>5. PICK x \in Int : x = m + r BY <1>2
<1>6. x \div t = q /\ x % t = r
  <2>1. x = t * q + r BY <1>4, <1>5
  <2> QED BY <1>2, <2>1, Division
<1> QED BY <1>1, <1>3, <1>5, <1>6 DEF Cycle

\* A turn of the timer does not change it.
LEMMA TimerTurns ==
  ASSUME NEW x \in Int, NEW k \in Int
  PROVE  /\ TICKS_TO_CYCLE_TIMER(x + WrapTicks * k) = TICKS_TO_CYCLE_TIMER(x)
         /\ x + WrapTicks * k \in Int
<1>1. PICK c \in Nat \ {0}, t \in Nat \ {0}, s \in Nat \ {0} :
        c = CYCLES_PER_SECOND /\ t = TICKS_PER_CYCLE /\ s = SECONDS
  BY Sizes
<1>2. PICK a \in Int : a = s * k OBVIOUS
<1>3. PICK b \in Int : b = c * a OBVIOUS
<1>4. WrapTicks * k = t * b
  <2>1. WrapTicks = s * (c * t) BY <1>1 DEF WrapTicks, TICKS_PER_SECOND
  <2>2. (s * (c * t)) * k = t * (c * (s * k)) OBVIOUS
  <2> QED BY <1>2, <1>3, <2>1, <2>2
<1>5. PICK y \in Int : y = x + t * b
  <2>1. t * b \in Int OBVIOUS
  <2> QED BY <2>1
<1>6. PICK q \in Int : q = x \div t BY Quotient
<1>7. y % t = x % t /\ y \div t = q + b BY <1>5, <1>6, Turns
<1>8. (q + c * a) % c = q % c /\ (q + c * a) \div c = (q \div c) + a BY Turns
<1>9. PICK p \in Int : p = q \div c BY Quotient
<1>10. (p + s * k) % s = p % s BY Turns
<1>11. Cycle(x) = q /\ Cycle(y) = q + b BY <1>1, <1>6, <1>7 DEF Cycle
<1>12. TICKS_TO_CYCLE_TIMER(y) = TICKS_TO_CYCLE_TIMER(x)
  <2>1. Cycle(y) % c = Cycle(x) % c BY <1>3, <1>8, <1>11
  <2>2. (Cycle(y) \div c) % s = (Cycle(x) \div c) % s BY <1>2, <1>3, <1>8, <1>9, <1>10, <1>11
  <2>3. \A z \in Int : TICKS_TO_CYCLE_TIMER(z) =
          [secs |-> (Cycle(z) \div c) % s, cycles |-> Cycle(z) % c, offset |-> z % t]
    BY <1>1, TimerFields
  <2> QED BY <1>7, <2>1, <2>2, <2>3, Zenon
<1> QED BY <1>4, <1>5, <1>12

\* The ticks of a timer value are the time, but for turns.
LEMMA TimerTicks ==
  ASSUME NEW x \in Int
  PROVE  /\ CYCLE_TIMER_TO_TICKS(TICKS_TO_CYCLE_TIMER(x)) = x % WrapTicks
         /\ x % WrapTicks \in 0..(WrapTicks - 1)
         /\ \E k \in Int : x = (x % WrapTicks) + WrapTicks * k
<1>1. PICK c \in Nat \ {0}, t \in Nat \ {0}, s \in Nat \ {0} :
        c = CYCLES_PER_SECOND /\ t = TICKS_PER_CYCLE /\ s = SECONDS
  BY Sizes
<1>2. PICK m \in Nat \ {0} : m = c * s BY ProductDivision
<1>3. WrapTicks = t * m
  <2>1. WrapTicks = s * (c * t) BY <1>1 DEF WrapTicks, TICKS_PER_SECOND
  <2>2. s * (c * t) = t * (c * s) OBVIOUS
  <2> QED BY <1>2, <2>1, <2>2
<1>4. PICK q \in Int, o \in Int : q = x \div t /\ o = x % t
  <2>1. x \div t \in Int /\ x % t \in 0..(t - 1) BY Quotient
  <2> QED BY <2>1
<1>5. x % (t * m) = t * (q % m) + o BY <1>4, ProductDivision
<1>6. PICK e \in Int, d \in Int : e = (q \div c) % s /\ d = q % c
  <2>1. q \div c \in Int /\ q % c \in 0..(c - 1) BY Quotient
  <2>2. (q \div c) % s \in 0..(s - 1) BY <2>1, Quotient
  <2> QED BY <2>1, <2>2
<1>7. q % m = c * e + d BY <1>2, <1>6, ProductDivision
<1>8. CYCLE_TIMER_TO_TICKS(TICKS_TO_CYCLE_TIMER(x)) = e * (c * t) + d * t + o
  <2>1. TICKS_TO_CYCLE_TIMER(x) = [secs |-> e, cycles |-> d, offset |-> o]
    <3>1. Cycle(x) = q BY <1>1, <1>4 DEF Cycle
    <3>2. TICKS_TO_CYCLE_TIMER(x) =
            [secs |-> (Cycle(x) \div c) % s, cycles |-> Cycle(x) % c, offset |-> x % t]
      BY <1>1, TimerFields
    <3> QED BY <1>4, <1>6, <3>1, <3>2, Zenon
  <2> QED BY <1>1, <2>1 DEF CYCLE_TIMER_TO_TICKS, TICKS_PER_SECOND
<1>9. t * (c * e + d) = e * (c * t) + d * t OBVIOUS
<1>10. x % WrapTicks = e * (c * t) + d * t + o BY <1>3, <1>5, <1>7, <1>9
<1>11. PICK w \in Nat \ {0} : w = WrapTicks BY Sizes
<1>12. x % w \in 0..(w - 1) /\ x \div w \in Int /\ x = w * (x \div w) + (x % w) BY Quotient
<1>13. PICK k \in Int : k = x \div w BY <1>12
<1>14. x = (x % w) + w * k
  <2>1. w * k \in Int OBVIOUS
  <2> QED BY <1>12, <1>13, <2>1
<1> QED BY <1>8, <1>10, <1>11, <1>12, <1>14

\* Differences of wrapped values are the true ones below half a turn.
LEMMA Unwrap ==
  ASSUME NEW h \in Nat \ {0}, NEW x \in Int, NEW y \in Int, NEW d \in Int, NEW k \in Int,
         x - y = d + (2 * h) * k, -h < d, d < h, -(2 * h) <= x - y, x - y <= 2 * h
  PROVE  unwrapDiff(x, y, 2 * h) = d
<1>1. PICK n \in Nat : n = 2 * h OBVIOUS
<1>2. n * k \in Int /\ x - y = d + n * k BY <1>1
<1>3. n \div 2 = h BY <1>1
<1>4. k = 0 \/ k = 1 \/ k = -1
  <2>1. CASE k >= 2
    <3>1. n * k >= 2 * n BY <2>1
    <3> QED BY <1>1, <1>2, <3>1
  <2>2. CASE k <= -2
    <3>1. n * k <= -(2 * n) BY <2>2
    <3> QED BY <1>1, <1>2, <3>1
  <2> QED BY <2>1, <2>2
<1>5. unwrapDiff(x, y, n) = IF x - y > h THEN x - y - n
                            ELSE IF x - y < -h THEN x - y + n ELSE x - y
  BY <1>3 DEF unwrapDiff
<1>6. CASE k = 0
  <2>1. n * k = 0 BY <1>6
  <2> QED BY <1>1, <1>2, <1>5, <2>1
<1>7. CASE k = 1
  <2>1. n * k = n BY <1>7
  <2> QED BY <1>1, <1>2, <1>5, <2>1
<1>8. CASE k = -1
  <2>1. n * k = -n BY <1>8
  <2> QED BY <1>1, <1>2, <1>5, <2>1
<1> QED BY <1>4, <1>6, <1>7, <1>8

LEMMA Half ==
  \E h \in Nat : /\ CYCLES_PER_SECOND = 2 * h /\ h >= 2
                 /\ MaxLag \in Nat /\ MaxLead \in Nat \ {0} /\ MaxLag + MaxLead < h
<1>1. PICK c \in Nat \ {0} : c = CYCLES_PER_SECOND BY CycleTimerAssumption
<1>2. PICK h \in Nat : c = 2 * h
  <2>1. c % 2 = 0 BY <1>1, CycleTimerAssumption
  <2>2. c \div 2 \in Nat /\ c = 2 * (c \div 2) BY <2>1
  <2> QED BY <2>2
<1> QED BY <1>1, <1>2, IsoClockAssumption

\* The difference of two cycles that are less than half a second apart.
LEMMA CyclesApart ==
  ASSUME NEW a \in Int, NEW b \in Int, NEW h \in Nat \ {0}, CYCLES_PER_SECOND = 2 * h,
         -h < a - b, a - b < h
  PROVE  diffCycles(a % CYCLES_PER_SECOND, b % CYCLES_PER_SECOND) = a - b
<1>1. PICK n \in Nat \ {0} : n = 2 * h OBVIOUS
<1>2. PICK p \in Int, r \in 0..(n - 1) : p = a \div n /\ r = a % n /\ a = n * p + r BY Quotient
<1>3. PICK q \in Int, s \in 0..(n - 1) : q = b \div n /\ s = b % n /\ b = n * q + s BY Quotient
<1>4. PICK k \in Int : k = q - p OBVIOUS
<1>5. n * k = n * q - n * p BY <1>4
<1>6. n * p \in Int /\ n * q \in Int OBVIOUS
<1>7. PICK d \in Int : d = a - b OBVIOUS
<1>8. r - s = d + n * k BY <1>2, <1>3, <1>5, <1>6, <1>7
<1>9. unwrapDiff(r, s, 2 * h) = d
  <2>1. r \in Int /\ s \in Int /\ -(2 * h) <= r - s /\ r - s <= 2 * h BY <1>1
  <2>2. r - s = d + (2 * h) * k BY <1>1, <1>8
  <2>3. -h < d /\ d < h BY <1>7
  <2> QED BY <2>1, <2>2, <2>3, Unwrap
<1> QED BY <1>1, <1>2, <1>3, <1>7, <1>9 DEF diffCycles

\* The time rebuilt from a reading of the timer at p, for a packet of cycle c.
LEMMA Arrival ==
  ASSUME NEW p \in Int, NEW c \in Int, m_last_now = TICKS_TO_CYCLE_TIMER(p),
         -MaxLag <= c - Cycle(p), c - Cycle(p) <= MaxLag
  PROVE  pkt_ctr(c % CYCLES_PER_SECOND)
           = TICKS_TO_CYCLE_TIMER(c * TICKS_PER_CYCLE + (p % TICKS_PER_CYCLE))
<1>1. PICK h \in Nat : /\ CYCLES_PER_SECOND = 2 * h /\ h >= 2
                       /\ MaxLag \in Nat /\ MaxLead \in Nat \ {0} /\ MaxLag + MaxLead < h
  BY Half
<1>2. PICK t \in Nat \ {0}, w \in Nat \ {0} : t = TICKS_PER_CYCLE /\ w = WrapTicks BY Sizes
<1>3. PICK q \in Int, o \in Int : q = Cycle(p) /\ o = p % t /\ p = q * t + o
  <2>1. Cycle(p) \in Int /\ p % t \in 0..(t - 1) /\ p = Cycle(p) * t + (p % t)
    BY <1>2, CycleOf
  <2> QED BY <2>1
<1>4. m_last_now.cycles = q % CYCLES_PER_SECOND BY <1>3, TimerFields
<1>5. PICK d \in Int : d = c - q OBVIOUS
<1>6. diffCycles(c % CYCLES_PER_SECOND, m_last_now.cycles) = d
  <2>1. -h < c - q /\ c - q < h /\ h \in Nat \ {0} BY <1>1, <1>3
  <2>2. diffCycles(c % CYCLES_PER_SECOND, q % CYCLES_PER_SECOND) = c - q BY <1>1, <2>1, CyclesApart
  <2> QED BY <1>4, <1>5, <2>2
<1>7. PICK u \in Int, k \in Int : CYCLE_TIMER_TO_TICKS(m_last_now) = u /\ p = u + w * k
  <2>1. p % w \in 0..(w - 1) BY <1>2, TimerTicks
  <2>2. PICK u \in Int : u = p % w BY <2>1
  <2>3. CYCLE_TIMER_TO_TICKS(m_last_now) = u BY <1>2, <2>2, TimerTicks
  <2>4. \E k \in Int : p = u + w * k BY <1>2, <2>2, TimerTicks
  <2> QED BY <2>3, <2>4
<1>8. PICK y \in Int : y = c * t + o
  <2>1. c * t \in Int OBVIOUS
  <2> QED BY <2>1
<1>9. PICK v \in Int : v = u + d * t
  <2>1. d * t \in Int OBVIOUS
  <2> QED BY <2>1
<1>10. v = y - w * k
  <2>1. d * t = c * t - q * t BY <1>5
  <2>2. PICK ct \in Int, qt \in Int, wk \in Int : ct = c * t /\ qt = q * t /\ wk = w * k OBVIOUS
  <2>3. p = qt + o /\ p = u + wk /\ y = ct + o /\ v = u + (ct - qt)
    BY <1>3, <1>7, <1>8, <1>9, <2>1, <2>2
  <2>4. v = y - wk BY <2>3
  <2> QED BY <2>2, <2>4
<1>11. \E j \in Int : wrapAtMinMaxTicks(v) = y + w * j
  <2>1. w * (-k) = -(w * k) /\ w * (1 - k) = w - w * k /\ w * (-1 - k) = -w - w * k /\ w * k \in Int
    OBVIOUS
  <2>2. wrapAtMinMaxTicks(v) \in {v, v + w, v - w} BY <1>2 DEF wrapAtMinMaxTicks
  <2>3. CASE wrapAtMinMaxTicks(v) = v
    <3>1. v = y + w * (-k) BY <1>10, <2>1
    <3>2. -k \in Int OBVIOUS
    <3> QED BY <2>3, <3>1, <3>2
  <2>4. CASE wrapAtMinMaxTicks(v) = v + w
    <3>1. v + w = y + w * (1 - k) BY <1>10, <2>1
    <3>2. 1 - k \in Int OBVIOUS
    <3> QED BY <2>4, <3>1, <3>2
  <2>5. CASE wrapAtMinMaxTicks(v) = v - w
    <3>1. v - w = y + w * (-1 - k) BY <1>10, <2>1
    <3>2. -1 - k \in Int OBVIOUS
    <3> QED BY <2>5, <3>1, <3>2
  <2> QED BY <2>2, <2>3, <2>4, <2>5
<1>12. PICK j \in Int : wrapAtMinMaxTicks(v) = y + w * j BY <1>11
<1>13. pkt_ctr(c % CYCLES_PER_SECOND) = TICKS_TO_CYCLE_TIMER(wrapAtMinMaxTicks(v))
  BY <1>2, <1>6, <1>7, <1>9 DEF pkt_ctr
<1>14. TICKS_TO_CYCLE_TIMER(y + w * j) = TICKS_TO_CYCLE_TIMER(y) BY <1>2, TimerTurns
<1> QED BY <1>2, <1>3, <1>8, <1>12, <1>13, <1>14

(***************************************************************************)
(* What the invariant says of the packet that is being handled.            *)
(***************************************************************************)
LEMMA InHand ==
  ASSUME IsoIInv, Handling
  PROVE  /\ Head(wire) \in Nat /\ last < Head(wire) /\ Head(wire) <= Cycle(time)
         /\ Cycle(time) \in Int /\ Cycle(time) - Head(wire) <= MaxLag
         /\ polled \in Nat /\ polled % TICKS_PER_CYCLE \in 0..(TICKS_PER_CYCLE - 1)
         /\ pkt_ctr(PktCycle)
              = TICKS_TO_CYCLE_TIMER(Head(wire) * TICKS_PER_CYCLE + (polled % TICKS_PER_CYCLE))
<1>1. /\ time \in Nat /\ polled \in Nat /\ polled <= time /\ wire \in Seq(Nat) /\ wire # <<>>
      /\ pc = "iterate" /\ m_last_now = TICKS_TO_CYCLE_TIMER(polled)
  BY DEF IsoIInv, TypeOK, InTime, Handling
<1>2. Head(wire) \in Nat /\ 1 \in DOMAIN wire /\ Head(wire) = wire[1] BY <1>1
<1>3. last < Head(wire) /\ Head(wire) <= Cycle(time) BY <1>2 DEF IsoIInv, WireInOrder
<1>4. Cycle(time) - Head(wire) <= MaxLag /\ Cycle(time) - Cycle(polled) <= MaxLag
  BY <1>1 DEF IsoIInv, InTime
<1>5. /\ Cycle(time) \in Int /\ Cycle(polled) \in Int
      /\ polled % TICKS_PER_CYCLE \in 0..(TICKS_PER_CYCLE - 1)
  BY <1>1, CycleOf
<1>6. Cycle(polled) <= Cycle(time)
  BY <1>1, Sizes, DivisionMonotonic DEF Cycle
<1>7. PICK c \in Int : c = Head(wire) BY <1>2
<1>8. -MaxLag <= c - Cycle(polled) /\ c - Cycle(polled) <= MaxLag
  BY <1>3, <1>4, <1>5, <1>6, <1>7, IsoClockAssumption
<1>9. pkt_ctr(c % CYCLES_PER_SECOND)
        = TICKS_TO_CYCLE_TIMER(c * TICKS_PER_CYCLE + (polled % TICKS_PER_CYCLE))
  BY <1>1, <1>8, Arrival
<1> QED BY <1>1, <1>2, <1>3, <1>4, <1>5, <1>7, <1>9 DEF PktCycle

\* The second and the cycle of the arrival.
LEMMA PlacedFields ==
  ASSUME NEW c \in Int, NEW o \in 0..(TICKS_PER_CYCLE - 1)
  PROVE  TICKS_TO_CYCLE_TIMER(c * TICKS_PER_CYCLE + o)
           = [secs |-> (c \div CYCLES_PER_SECOND) % SECONDS, cycles |-> c % CYCLES_PER_SECOND,
              offset |-> o]
<1>1. PICK x \in Int : x = c * TICKS_PER_CYCLE + o BY CycleIs
<1>2. Cycle(x) = c /\ x % TICKS_PER_CYCLE = o BY <1>1, CycleIs
<1>3. TICKS_TO_CYCLE_TIMER(x) = [secs |-> (Cycle(x) \div CYCLES_PER_SECOND) % SECONDS,
                                 cycles |-> Cycle(x) % CYCLES_PER_SECOND,
                                 offset |-> x % TICKS_PER_CYCLE]
  BY TimerFields
<1> QED BY <1>1, <1>2, <1>3, Zenon

LEMMA Placed == IsoIInv => ArrivalRebuilt
<1> SUFFICES ASSUME IsoIInv, Handling
             PROVE  LET true == TICKS_TO_CYCLE_TIMER(Head(wire) * TICKS_PER_CYCLE)
                        ctr == pkt_ctr(PktCycle)
                    IN ctr.secs = true.secs /\ ctr.cycles = true.cycles
  BY DEF ArrivalRebuilt
<1>1. PICK c \in Int, o \in 0..(TICKS_PER_CYCLE - 1) :
        c = Head(wire) /\ pkt_ctr(PktCycle) = TICKS_TO_CYCLE_TIMER(c * TICKS_PER_CYCLE + o)
  <2>1. PICK c \in Int : c = Head(wire) BY InHand
  <2> QED BY <2>1, InHand
<1>2. 0 \in 0..(TICKS_PER_CYCLE - 1) /\ c * TICKS_PER_CYCLE + 0 = c * TICKS_PER_CYCLE
  <2>1. PICK t \in Nat \ {0} : t = TICKS_PER_CYCLE BY Sizes
  <2>2. 0 \in 0..(t - 1) /\ c * t + 0 = c * t OBVIOUS
  <2> QED BY <2>1, <2>2
<1>3. TICKS_TO_CYCLE_TIMER(c * TICKS_PER_CYCLE)
        = [secs |-> (c \div CYCLES_PER_SECOND) % SECONDS, cycles |-> c % CYCLES_PER_SECOND,
           offset |-> 0]
  BY <1>2, PlacedFields
<1>4. pkt_ctr(PktCycle)
        = [secs |-> (c \div CYCLES_PER_SECOND) % SECONDS, cycles |-> c % CYCLES_PER_SECOND,
           offset |-> o]
  BY <1>1, PlacedFields
<1> QED BY <1>1, <1>3, <1>4

\* Gaps.
LEMMA Gaps == IsoIInv => GapNoticed
<1> SUFFICES ASSUME IsoIInv, Handling, last # -1, Head(wire) - last < CYCLES_PER_SECOND
             PROVE  LET missed == Head(wire) - last - 1 IN
                    /\ dropped_cycles(PktCycle) # 0 <=> missed > 0
                    /\ 2 * (missed + 1) < CYCLES_PER_SECOND => dropped_cycles(PktCycle) = missed
  BY DEF GapNoticed
<1>1. PICK h \in Nat : CYCLES_PER_SECOND = 2 * h /\ h >= 2 BY Half
<1>2. PICK n \in Nat \ {0} : n = 2 * h /\ n = CYCLES_PER_SECOND BY <1>1
<1>3. PICK a \in Nat, b \in Nat : a = Head(wire) /\ b = last /\ b < a /\ a - b < n
  <2>1. Head(wire) \in Nat /\ last < Head(wire) BY InHand
  <2>2. last \in Nat BY DEF IsoIInv, TypeOK
  <2> QED BY <1>2, <2>1, <2>2
<1>4. m_last_cycle = b % n BY <1>2, <1>3 DEF IsoIInv, CyclesOfTimes
<1>5. PktCycle = a % n BY <1>2, <1>3 DEF PktCycle
<1>6. PICK p \in Int, r \in 0..(n - 1) : p = a \div n /\ r = a % n /\ a = n * p + r BY Quotient
<1>7. PICK q \in Int, s \in 0..(n - 1) : q = b \div n /\ s = b % n /\ b = n * q + s
  <2>1. b \in Int OBVIOUS
  <2>2. b % n \in 0..(n - 1) /\ b \div n \in Int /\ b = n * (b \div n) + (b % n) BY <2>1, Quotient
  <2> QED BY <2>2
<1>8. PICK k \in Int : k = p - q OBVIOUS
<1>9. PICK m \in Int : m = n * k /\ a - b = m + r - s
  <2>1. n * k = n * p - n * q BY <1>8
  <2>2. n * p \in Int /\ n * q \in Int /\ n * k \in Int OBVIOUS
  <2> QED BY <1>6, <1>7, <2>1, <2>2
<1>10. r # s
  <2>1. ASSUME r = s PROVE FALSE
    <3>1. m = a - b BY <1>9, <2>1
    <3>2. -n < n * k /\ n * k < n BY <1>3, <1>9, <3>1
    <3>3. k = 0 BY <3>2, SmallMultiple
    <3>4. n * k = 0 BY <3>3
    <3> QED BY <1>3, <1>9, <3>1, <3>4
  <2> QED BY <2>1
<1>11. dropped_cycles(PktCycle) = diffCycles(r, s) - 1
  BY <1>4, <1>5, <1>6, <1>7, <1>10 DEF dropped_cycles
<1>12. CASE a - b < h
  <2>1. diffCycles(a % CYCLES_PER_SECOND, b % CYCLES_PER_SECOND) = a - b
    <3>1. a \in Int /\ b \in Int /\ h \in Nat \ {0} /\ -h < a - b BY <1>1, <1>3
    <3> QED BY <1>1, <1>12, <3>1, CyclesApart
  <2>2. dropped_cycles(PktCycle) = a - b - 1 BY <1>2, <1>6, <1>7, <1>11, <2>1
  <2> QED BY <1>3, <2>2
<1>13. CASE a - b >= h
  <2>1. diffCycles(r, s) # 1
    <3>1. n \div 2 = h BY <1>2
    <3>2. diffCycles(r, s) \in {r - s, r - s - n, r - s + n}
      BY <1>2, <3>1 DEF diffCycles, unwrapDiff
    <3>3. ASSUME NEW e \in {-1, 0, 1}, r - s + n * e = 1 PROVE FALSE
      <4>1. PICK j \in Int : j = k - e OBVIOUS
      <4>2. n * j = m - n * e BY <1>9, <4>1
      <4>3. n * e \in Int OBVIOUS
      <4>4. n * j = a - b - 1 BY <1>9, <3>3, <4>2, <4>3
      <4>5. -n < n * j /\ n * j < n BY <1>1, <1>2, <1>3, <1>13, <4>4
      <4>6. j = 0 BY <4>5, SmallMultiple
      <4>7. n * j = 0 BY <4>6
      <4> QED BY <1>1, <1>3, <1>13, <4>4, <4>7
    <3>4. r - s # 1
      <4>1. r - s + n * 0 = r - s OBVIOUS
      <4> QED BY <3>3, <4>1
    <3>5. r - s - n # 1
      <4>1. r - s + n * (-1) = r - s - n OBVIOUS
      <4> QED BY <3>3, <4>1
    <3>6. r - s + n # 1
      <4>1. r - s + n * 1 = r - s + n OBVIOUS
      <4> QED BY <3>3, <4>1
    <3> QED BY <3>2, <3>4, <3>5, <3>6
  <2>2. diffCycles(r, s) \in Int BY <1>2 DEF diffCycles, unwrapDiff
  <2>3. dropped_cycles(PktCycle) # 0 BY <1>11, <2>1, <2>2
  <2> QED BY <1>1, <1>2, <1>3, <1>13, <2>3
<1> QED BY <1>3, <1>12, <1>13

\* The presentation time.  With h the cycle of arrival, c the cycle in its second and e the
\* second, it is lead cycles after c in e, which is at most a turn too much.
LEMMA SytCycles ==
  ASSUME NEW h \in Int, NEW lead \in 0..(SYT_CYCLES - 1)
  PROVE  LET masked == (h % CYCLES_PER_SECOND) % SYT_CYCLES
             syt == ((h + lead) % CYCLES_PER_SECOND) % SYT_CYCLES
         IN (IF syt < masked THEN syt + SYT_CYCLES ELSE syt) - masked = lead
<1>1. PICK n \in Nat \ {0}, y \in Nat \ {0} : n = CYCLES_PER_SECOND /\ y = SYT_CYCLES /\ n % y = 0
  BY CycleTimerAssumption
<1>2. lead \in Nat /\ lead < y /\ h + lead \in Int BY <1>1
<1>3. (h % n) % y = h % y /\ ((h + lead) % n) % y = (h + lead) % y
  <2>1. PICK g \in Int : g = h + lead BY <1>2
  <2>2. (h % n) % y = h % y BY <1>1, RemainderOfRemainder, ZenonT(40)
  <2>3. (g % n) % y = g % y BY <1>1, RemainderOfRemainder, ZenonT(40)
  <2> QED BY <2>1, <2>2, <2>3
<1>4. PICK q \in Int, m \in 0..(y - 1) : q = h \div y /\ m = h % y /\ h = y * q + m BY Quotient
<1>5. y * q \in Int /\ y * (q + 1) = y * q + y OBVIOUS
<1>6. CASE m + lead < y
  <2>1. h + lead = y * q + (m + lead) /\ m + lead \in 0..(y - 1) BY <1>2, <1>4, <1>5, <1>6
  <2>2. PICK x \in Int : x = h + lead BY <1>2
  <2>3. PICK r \in 0..(y - 1) : r = m + lead BY <2>1
  <2>4. x % y = r
    <3>1. x = y * q + r BY <2>1, <2>2, <2>3
    <3> QED BY <3>1, Division
  <2>5. (h % n) % y = m /\ ((h + lead) % n) % y = r BY <1>3, <1>4, <2>2, <2>4
  <2>6. (IF r < m THEN r + y ELSE r) - m = lead BY <1>2, <2>3
  <2> QED BY <1>1, <2>5, <2>6
<1>7. CASE m + lead >= y
  <2>1. h + lead = y * (q + 1) + (m + lead - y) /\ m + lead - y \in 0..(y - 1)
    BY <1>2, <1>4, <1>5, <1>7
  <2>2. PICK x \in Int, p \in Int : x = h + lead /\ p = q + 1 BY <1>2
  <2>3. PICK r \in 0..(y - 1) : r = m + lead - y BY <2>1
  <2>4. x % y = r
    <3>1. x = y * p + r BY <2>1, <2>2, <2>3
    <3> QED BY <3>1, Division
  <2>5. (h % n) % y = m /\ ((h + lead) % n) % y = r BY <1>3, <1>4, <2>2, <2>4
  <2>6. (IF r < m THEN r + y ELSE r) - m = lead BY <1>2, <2>3
  <2> QED BY <1>1, <2>5, <2>6
<1> QED BY <1>2, <1>4, <1>6, <1>7

LEMMA Presented ==
  ASSUME NEW h \in Nat, NEW o \in 0..(TICKS_PER_CYCLE - 1), NEW lead \in 0..(SYT_CYCLES - 1),
         NEW offset \in 0..(TICKS_PER_CYCLE - 1)
  PROVE  LET stamp == (h + lead) * TICKS_PER_CYCLE + offset IN
         sytRecvToFullTicks2(TICKS_TO_SYT(stamp), TICKS_TO_CYCLE_TIMER(h * TICKS_PER_CYCLE + o))
           = stamp % WrapTicks
<1>1. PICK n \in Nat \ {0}, t \in Nat \ {0}, s \in Nat \ {0}, y \in Nat \ {0} :
        n = CYCLES_PER_SECOND /\ t = TICKS_PER_CYCLE /\ s = SECONDS /\ y = SYT_CYCLES
  BY CycleTimerAssumption
<1>2. lead \in Nat /\ lead < y /\ offset \in Nat /\ offset < t BY <1>1
<1>3. PICK g \in Int : g = h + lead BY <1>2
<1>4. PICK stamp \in Int : stamp = g * t + offset /\ Cycle(stamp) = g /\ stamp % t = offset
  BY <1>1, CycleIs
<1>5. PICK c \in 0..(n - 1), p \in Int : c = h % n /\ p = h \div n /\ h = n * p + c
  <2>1. h \in Int OBVIOUS
  <2>2. h % n \in 0..(n - 1) /\ h \div n \in Int /\ h = n * (h \div n) + (h % n) BY <2>1, Quotient
  <2> QED BY <2>2
<1>6. PICK e \in 0..(s - 1), m \in Int : e = p % s /\ p = s * m + e
  <2>1. p % s \in 0..(s - 1) /\ p \div s \in Int /\ p = s * (p \div s) + (p % s) BY Quotient
  <2> QED BY <2>1
<1>7. TICKS_TO_CYCLE_TIMER(h * TICKS_PER_CYCLE + o) = [secs |-> e, cycles |-> c, offset |-> o]
  <2>1. TICKS_TO_CYCLE_TIMER(h * TICKS_PER_CYCLE + o)
          = [secs |-> (h \div n) % s, cycles |-> h % n, offset |-> o]
    <3>1. h \in Int OBVIOUS
    <3> QED BY <1>1, <3>1, PlacedFields
  <2> QED BY <1>5, <1>6, <2>1, Zenon
<1>8. TICKS_TO_SYT(stamp) = [cycles |-> (g % n) % y, offset |-> offset]
  BY <1>1, <1>4 DEF TICKS_TO_SYT, TICKS_TO_CYCLES, TICKS_TO_OFFSET, Cycle
<1>9. PICK k \in Int, d \in Int : k = c % y /\ d = (g % n) % y
  <2>1. g % n \in 0..(n - 1) BY Quotient
  <2>2. (g % n) % y \in 0..(y - 1) /\ c % y \in 0..(y - 1) BY <2>1, Quotient
  <2> QED BY <2>2
<1>10. (IF d < k THEN d + y ELSE d) - k = lead
  <2>1. h \in Int OBVIOUS
  <2>2. (h % n) % y = k /\ ((h + lead) % n) % y = d BY <1>3, <1>5, <1>9
  <2> QED BY <1>1, <2>1, <2>2, SytCycles
<1>11. PICK tps \in Nat \ {0}, w \in Nat \ {0} :
         tps = TICKS_PER_SECOND /\ w = WrapTicks /\ tps = n * t /\ w = s * tps
  BY <1>1, Sizes DEF TICKS_PER_SECOND, WrapTicks
<1>12. PICK r \in Int : r = c + lead BY <1>2
<1>13. (IF r < n THEN r * t ELSE (r - n) * t + tps) = r * t
  <2>1. (r - n) * t = r * t - n * t /\ r * t \in Int OBVIOUS
  <2> QED BY <1>11, <2>1
<1>14. PICK total \in Int : total = r * t + offset + e * tps
  <2>1. r * t \in Int /\ e * tps \in Int OBVIOUS
  <2> QED BY <1>2, <2>1
<1>15. sytRecvToFullTicks2(TICKS_TO_SYT(stamp), TICKS_TO_CYCLE_TIMER(h * TICKS_PER_CYCLE + o))
         = wrapAtMaxTicks(total)
  <2>1. sytRecvToFullTicks2([cycles |-> d, offset |-> offset], [secs |-> e, cycles |-> c, offset |-> o])
          = addTicks((IF c + lead < n THEN (c + lead) * t ELSE (c + lead - n) * t + tps) + offset, e * tps)
    BY <1>1, <1>9, <1>10, <1>11 DEF sytRecvToFullTicks2
  <2>2. sytRecvToFullTicks2([cycles |-> d, offset |-> offset], [secs |-> e, cycles |-> c, offset |-> o])
          = addTicks(r * t + offset, e * tps)
    BY <1>12, <1>13, <2>1
  <2>3. addTicks(r * t + offset, e * tps) = wrapAtMaxTicks(total) BY <1>14 DEF addTicks
  <2> QED BY <1>7, <1>8, <1>9, <2>2, <2>3
<1>16. stamp = w * m + total
  <2>1. PICK ct \in Int, lt \in Int, et \in Int, wm \in Int :
          ct = c * t /\ lt = lead * t /\ et = e * tps /\ wm = w * m
    BY <1>2
  <2>2. r * t = ct + lt BY <1>2, <1>12, <2>1
  <2>3. g * t = h * t + lt BY <1>2, <1>3, <2>1
  <2>4. h * t = p * tps + ct
    <3>1. h * t = (n * p) * t + c * t BY <1>5
    <3>2. (n * p) * t = p * (n * t) OBVIOUS
    <3> QED BY <1>11, <2>1, <3>1, <3>2
  <2>5. p * tps = wm + et
    <3>1. p * tps = (s * m) * tps + e * tps BY <1>6
    <3>2. (s * m) * tps = (s * tps) * m OBVIOUS
    <3> QED BY <1>11, <2>1, <3>1, <3>2
  <2>6. stamp = wm + et + ct + lt + offset BY <1>2, <1>4, <2>1, <2>3, <2>4, <2>5
  <2>7. total = ct + lt + offset + et BY <1>14, <2>1, <2>2
  <2> QED BY <1>2, <2>1, <2>6, <2>7
<1>17. 0 <= total /\ total < 2 * w
  <2>1. PICK ct \in Int, lt \in Int, et \in Int : ct = c * t /\ lt = lead * t /\ et = e * tps BY <1>2
  <2>2. total = ct + lt + offset + et
    <3>1. r * t = ct + lt BY <1>2, <1>12, <2>1
    <3> QED BY <1>14, <2>1, <3>1
  <2>3. ct >= 0 /\ lt >= 0 /\ et >= 0 BY <1>2, <2>1
  <2>4. ct <= tps - t
    <3>1. (n - 1 - c) * t >= 0 OBVIOUS
    <3>2. (n - 1 - c) * t = n * t - t - c * t OBVIOUS
    <3> QED BY <1>11, <2>1, <3>1, <3>2
  <2>5. et <= w - tps
    <3>1. (s - 1 - e) * tps >= 0 OBVIOUS
    <3>2. (s - 1 - e) * tps = s * tps - tps - e * tps OBVIOUS
    <3> QED BY <1>11, <2>1, <3>1, <3>2
  <2>6. y <= n
    <3>1. n % y = 0 BY <1>1, CycleTimerAssumption
    <3>2. CASE n < y
      <4>1. PICK z \in Int : n = y * z
        <5>1. n \in Int OBVIOUS
        <5> QED BY <3>1, <5>1, Multiple
      <4>2. z = 0 BY <3>2, <4>1, SmallMultiple
      <4>3. y * z = 0 BY <4>2
      <4> QED BY <3>1, <4>1, <4>3
    <3> QED BY <3>2
  <2>7. lt <= tps - t
    <3>1. (n - 1 - lead) * t >= 0 BY <1>2, <2>6
    <3>2. (n - 1 - lead) * t = n * t - t - lead * t BY <1>2
    <3> QED BY <1>11, <2>1, <3>1, <3>2
  <2>8. tps <= w
    <3>1. s * tps >= tps OBVIOUS
    <3> QED BY <1>11, <3>1
  <2> QED BY <1>2, <2>2, <2>3, <2>4, <2>5, <2>7, <2>8
<1>18. wrapAtMaxTicks(total) = stamp % w
  <2>1. CASE total < w
    <3>1. total \in 0..(w - 1) BY <1>17, <2>1
    <3>2. stamp % w = total BY <1>16, <3>1, Division
    <3> QED BY <1>11, <2>1, <3>2 DEF wrapAtMaxTicks
  <2>2. CASE total >= w
    <3>1. PICK u \in 0..(w - 1) : u = total - w BY <1>17, <2>2
    <3>2. PICK j \in Int : j = m + 1 OBVIOUS
    <3>3. w * j = w * m + w /\ w * m \in Int BY <3>2
    <3>4. stamp = w * j + u BY <1>16, <3>1, <3>3
    <3>5. stamp % w = u BY <3>4, Division
    <3> QED BY <1>11, <2>2, <3>1, <3>5 DEF wrapAtMaxTicks
  <2> QED BY <2>1, <2>2
<1> QED BY <1>1, <1>3, <1>4, <1>11, <1>15, <1>18

LEMMA AtPresentation == IsoIInv => PresentationRebuilt
<1> SUFFICES ASSUME IsoIInv, Handling,
                    NEW lead \in 0..SYT_CYCLES - 1, NEW offset \in 0..TICKS_PER_CYCLE - 1
             PROVE  LET stamp == (Head(wire) + lead) * TICKS_PER_CYCLE + offset IN
                    sytRecvToFullTicks2(TICKS_TO_SYT(stamp), pkt_ctr(PktCycle)) = stamp % WrapTicks
  BY DEF PresentationRebuilt
<1>1. PICK h \in Nat, o \in 0..(TICKS_PER_CYCLE - 1) :
        h = Head(wire) /\ pkt_ctr(PktCycle) = TICKS_TO_CYCLE_TIMER(h * TICKS_PER_CYCLE + o)
  <2>1. PICK h \in Nat : h = Head(wire) BY InHand
  <2> QED BY <2>1, InHand
<1>2. LET stamp == (h + lead) * TICKS_PER_CYCLE + offset IN
      sytRecvToFullTicks2(TICKS_TO_SYT(stamp), TICKS_TO_CYCLE_TIMER(h * TICKS_PER_CYCLE + o))
        = stamp % WrapTicks
  BY Presented
<1> QED BY <1>1, <1>2

\* The switch.
LEMMA AtSwitch == IsoIInv => SwitchOnTime
<1> SUFFICES ASSUME IsoIInv, Handling, switch_at # -1,
                    2 * (Head(wire) - switch_at) < CYCLES_PER_SECOND
             PROVE  Due(pkt_ctr(PktCycle)) <=> Head(wire) >= switch_at
  BY DEF SwitchOnTime
<1>1. PICK h \in Nat : /\ CYCLES_PER_SECOND = 2 * h /\ h >= 2
                       /\ MaxLag \in Nat /\ MaxLead \in Nat \ {0} /\ MaxLag + MaxLead < h
  BY Half
<1>2. PICK n \in Nat \ {0} : n = 2 * h /\ n = CYCLES_PER_SECOND BY <1>1
<1>3. PICK a \in Nat, o \in 0..(TICKS_PER_CYCLE - 1) :
        a = Head(wire) /\ pkt_ctr(PktCycle) = TICKS_TO_CYCLE_TIMER(a * TICKS_PER_CYCLE + o)
  <2>1. PICK a \in Nat : a = Head(wire) BY InHand
  <2> QED BY <2>1, InHand
<1>4. pkt_ctr(PktCycle).cycles = a % n
  <2>1. a \in Int OBVIOUS
  <2>2. TICKS_TO_CYCLE_TIMER(a * TICKS_PER_CYCLE + o)
          = [secs |-> (a \div CYCLES_PER_SECOND) % SECONDS, cycles |-> a % CYCLES_PER_SECOND,
             offset |-> o]
    BY <2>1, PlacedFields
  <2> QED BY <1>2, <1>3, <2>2
<1>5. PICK b \in Nat : b = switch_at BY DEF IsoIInv, TypeOK
<1>6. -h < a - b /\ a - b < h
  <2>1. Cycle(time) \in Int /\ Cycle(time) - a <= MaxLag BY <1>3, InHand
  <2>2. b <= Cycle(time) + MaxLead BY <1>5 DEF IsoIInv, CyclesOfTimes
  <2> QED BY <1>1, <1>3, <1>5, <2>1, <2>2
<1>7. diffCycles(a % n, m_cycle_to_switch_state) = a - b
  <2>1. CASE m_cycle_to_switch_state = b % n
    <3>1. a \in Int /\ b \in Int /\ h \in Nat \ {0} BY <1>1
    <3>2. diffCycles(a % CYCLES_PER_SECOND, b % CYCLES_PER_SECOND) = a - b
      BY <1>1, <1>6, <3>1, CyclesApart
    <3> QED BY <1>2, <2>1, <3>2
  <2>2. CASE m_cycle_to_switch_state = n /\ b % n = 0
    <3>1. PICK p \in Int, r \in 0..(n - 1) : r = a % n /\ a = n * p + r
      <4>1. a \in Int OBVIOUS
      <4>2. a % n \in 0..(n - 1) /\ a \div n \in Int /\ a = n * (a \div n) + (a % n) BY <4>1, Quotient
      <4> QED BY <4>2
    <3>2. PICK q \in Int : b = n * q
      <4>1. b \in Int OBVIOUS
      <4> QED BY <2>2, <4>1, Multiple
    <3>3. PICK d \in Int, k \in Int : d = a - b /\ k = q - p - 1 OBVIOUS
    <3>4. r - n = d + n * k
      <4>1. n * k = n * q - n * p - n BY <3>3
      <4>2. n * q \in Int /\ n * p \in Int OBVIOUS
      <4> QED BY <3>1, <3>2, <3>3, <4>1, <4>2
    <3>5. unwrapDiff(r, n, 2 * h) = d
      <4>1. r \in Int /\ n \in Int /\ h \in Nat \ {0} /\ -(2 * h) <= r - n /\ r - n <= 2 * h
        BY <1>1, <1>2
      <4>2. r - n = d + (2 * h) * k BY <1>2, <3>4
      <4>3. -h < d /\ d < h BY <1>6, <3>3
      <4> QED BY <4>1, <4>2, <4>3, Unwrap
    <3> QED BY <1>1, <2>2, <3>1, <3>3, <3>5 DEF diffCycles
  <2>3. \/ m_cycle_to_switch_state = b % n
        \/ m_cycle_to_switch_state = n /\ b % n = 0
    BY <1>2, <1>5 DEF IsoIInv, CyclesOfTimes
  <2> QED BY <2>1, <2>2, <2>3
<1>8. Due(pkt_ctr(PktCycle)) <=> a - b >= 0 BY <1>4, <1>7 DEF Due
<1> QED BY <1>3, <1>5, <1>8

(***************************************************************************)
(* Silence.                                                                *)
(***************************************************************************)

\* The products that the bounds on times are made of.
LEMMA Spans ==
  \E t \in Nat \ {0}, p \in Nat \ {0}, l \in Nat, s \in Nat, w \in Nat, v \in Nat \ {0} :
    /\ t = TICKS_PER_CYCLE /\ p = TICKS_PER_SECOND /\ l = (MaxLag + 2) * TICKS_PER_CYCLE
    /\ l = MaxLag * TICKS_PER_CYCLE + 2 * t /\ MaxLag * TICKS_PER_CYCLE \in Nat
    /\ s = Silence * TICKS_PER_SECOND /\ w = WrapTicks /\ w = 2 * v
    /\ 2 * l <= p /\ p <= s /\ 2 * s + 3 * p <= w /\ t <= l
<1>1. PICK h \in Nat : /\ CYCLES_PER_SECOND = 2 * h /\ h >= 2
                       /\ MaxLag \in Nat /\ MaxLead \in Nat \ {0} /\ MaxLag + MaxLead < h
  BY Half
<1>2. PICK t \in Nat \ {0}, p \in Nat \ {0} : t = TICKS_PER_CYCLE /\ p = TICKS_PER_SECOND BY Sizes
<1>3. PICK u \in Nat : u = h * t OBVIOUS
<1>4. p = 2 * u
  <2>1. p = (2 * h) * t BY <1>1, <1>2 DEF TICKS_PER_SECOND
  <2>2. (2 * h) * t = 2 * (h * t) OBVIOUS
  <2> QED BY <1>3, <2>1, <2>2
<1>5. PICK g \in Nat, m \in Nat : g = MaxLag /\ m = g * t BY <1>1
<1>6. (g + 2) * t = m + 2 * t BY <1>5
<1>7. m + 2 * t <= u
  <2>1. h - g - 2 \in Nat BY <1>1, <1>5
  <2>2. (h - g - 2) * t >= 0 BY <2>1
  <2>3. (h - g - 2) * t = h * t - g * t - 2 * t OBVIOUS
  <2> QED BY <1>3, <1>5, <2>2, <2>3
<1>8. PICK a \in Nat \ {0}, b \in Nat \ {0} : a = Silence /\ b = SECONDS /\ 2 * (a + 1) < b
  BY IsoClockAssumption, Sizes
<1>9. PICK s \in Nat, w \in Nat : s = a * p /\ w = b * p OBVIOUS
<1>10. p <= s
  <2>1. (a - 1) * p >= 0 OBVIOUS
  <2>2. (a - 1) * p = a * p - p OBVIOUS
  <2> QED BY <1>9, <2>1, <2>2
<1>11. 2 * s + 3 * p <= w
  <2>1. b - (2 * a + 3) \in Nat BY <1>8
  <2>2. (b - (2 * a + 3)) * p >= 0 BY <2>1
  <2>3. (b - (2 * a + 3)) * p = b * p - (2 * (a * p) + 3 * p) OBVIOUS
  <2> QED BY <1>9, <2>2, <2>3
<1>12. PICK v \in Nat : v = b * u OBVIOUS
<1>13. w = 2 * v /\ v # 0
  <2>1. b * (2 * u) = 2 * (b * u) OBVIOUS
  <2>2. w = 2 * v BY <1>4, <1>9, <1>12, <2>1
  <2> QED BY <1>11, <2>2
<1>14. w = WrapTicks /\ s = Silence * TICKS_PER_SECOND BY <1>2, <1>8, <1>9 DEF WrapTicks
<1>15. PICK l \in Nat : l = m + 2 * t OBVIOUS
<1>16. l = (MaxLag + 2) * TICKS_PER_CYCLE /\ MaxLag * TICKS_PER_CYCLE = m BY <1>2, <1>5, <1>6, <1>15
<1>17. 2 * l <= p /\ t <= l BY <1>4, <1>7, <1>15
<1> QED BY <1>2, <1>10, <1>11, <1>13, <1>14, <1>15, <1>16, <1>17

\* Times that are no more than some cycles apart.
LEMMA CyclesBetween ==
  ASSUME NEW x \in Int, NEW c \in Int, NEW g \in Int, Cycle(x) - c <= g
  PROVE  x - c * TICKS_PER_CYCLE < g * TICKS_PER_CYCLE + TICKS_PER_CYCLE
<1>1. PICK t \in Nat \ {0} : t = TICKS_PER_CYCLE BY Sizes
<1>2. PICK q \in Int, r \in 0..(t - 1) : q = Cycle(x) /\ x = q * t + r
  <2>1. Cycle(x) \in Int /\ x % t \in 0..(t - 1) /\ x = Cycle(x) * t + (x % t) BY <1>1, CycleOf
  <2> QED BY <2>1
<1>3. (g - (q - c)) * t >= 0
  <2>1. g - (q - c) \in Nat BY <1>2
  <2> QED BY <2>1
<1>4. (g - (q - c)) * t = g * t - q * t + c * t OBVIOUS
<1>5. PICK gt \in Int, qt \in Int, ct \in Int : gt = g * t /\ qt = q * t /\ ct = c * t OBVIOUS
<1>6. gt - qt + ct >= 0 /\ x = qt + r BY <1>2, <1>3, <1>4, <1>5
<1>7. x - ct < gt + t BY <1>6
<1> QED BY <1>1, <1>5, <1>7

\* What the test for a dead handler compares.
LEMMA SilenceTold ==
  ASSUME IsoIInv, m_State = "Running", m_last_packet_handled_at # NoCTR
  PROVE  /\ last \in Nat /\ last * TICKS_PER_CYCLE \in Int
         /\ time - last * TICKS_PER_CYCLE
              <= Silence * TICKS_PER_SECOND + (MaxLag + 2) * TICKS_PER_CYCLE
         /\ \E o \in 0..(TICKS_PER_CYCLE - 1) :
              diffTicks(CYCLE_TIMER_TO_TICKS(Now), CYCLE_TIMER_TO_TICKS(m_last_packet_handled_at))
                = time - last * TICKS_PER_CYCLE - o
<1>1. PICK t \in Nat \ {0}, p \in Nat \ {0}, l \in Nat, s \in Nat, w \in Nat, v \in Nat \ {0} :
    /\ t = TICKS_PER_CYCLE /\ p = TICKS_PER_SECOND /\ l = (MaxLag + 2) * TICKS_PER_CYCLE
    /\ l = MaxLag * TICKS_PER_CYCLE + 2 * t /\ MaxLag * TICKS_PER_CYCLE \in Nat
    /\ s = Silence * TICKS_PER_SECOND /\ w = WrapTicks /\ w = 2 * v
    /\ 2 * l <= p /\ p <= s /\ 2 * s + 3 * p <= w /\ t <= l
  BY Spans
<1>2. time \in Nat /\ polled \in Nat /\ polled <= time /\ last \in Nat
  BY DEF IsoIInv, TypeOK, Heard
<1>3. PICK b \in Int : b = last * t BY <1>2
<1>4. PICK o \in 0..(t - 1) : m_last_packet_handled_at = TICKS_TO_CYCLE_TIMER(b + o)
  BY <1>1, <1>3 DEF IsoIInv, Heard
<1>5. polled - b <= s + t BY <1>1, <1>3 DEF IsoIInv, Heard
<1>6. time - polled < l - t
  <2>1. Cycle(time) - Cycle(polled) <= MaxLag /\ Cycle(polled) \in Int /\ MaxLag \in Int
    BY <1>2, CycleOf, IsoClockAssumption DEF IsoIInv, InTime
  <2>2. PICK c \in Int, g \in Int : c = Cycle(polled) /\ g = MaxLag BY <2>1
  <2>3. time \in Int /\ Cycle(time) - c <= g BY <1>2, <2>1, <2>2
  <2>4. time - c * TICKS_PER_CYCLE < g * TICKS_PER_CYCLE + TICKS_PER_CYCLE
    BY <2>3, CyclesBetween
  <2>5. polled >= c * t /\ c * t \in Int
    <3>1. polled \in Int BY <1>2
    <3>2. /\ Cycle(polled) * TICKS_PER_CYCLE \in Int
          /\ polled % TICKS_PER_CYCLE \in 0..(TICKS_PER_CYCLE - 1)
          /\ polled = Cycle(polled) * TICKS_PER_CYCLE + (polled % TICKS_PER_CYCLE)
      BY <3>1, CycleOf
    <3>3. PICK r \in 0..(t - 1) : r = polled % t BY <1>1, <3>2
    <3> QED BY <1>1, <2>2, <3>2, <3>3
  <2>6. PICK m \in Int, k \in Int : m = g * t /\ k = c * t OBVIOUS
  <2>7. l = m + 2 * t /\ time - k < m + t /\ polled >= k BY <1>1, <2>2, <2>4, <2>5, <2>6
  <2> QED BY <1>2, <2>7
<1>7. b <= time
  <2>1. last <= Cycle(time) BY DEF IsoIInv, WireInOrder
  <2>2. time \in Int BY <1>2
  <2>3. /\ Cycle(time) \in Int /\ time % TICKS_PER_CYCLE \in 0..(TICKS_PER_CYCLE - 1)
        /\ time = Cycle(time) * TICKS_PER_CYCLE + (time % TICKS_PER_CYCLE)
    BY <2>2, CycleOf
  <2>4. PICK c \in Int, r \in 0..(t - 1) : c = Cycle(time) /\ time = c * t + r BY <1>1, <2>3
  <2>5. PICK k \in Int, q \in Int : k = c * t /\ q = last BY <1>2
  <2>6. (c - q) * t >= 0 BY <2>1, <2>4, <2>5
  <2>7. (c - q) * t = c * t - q * t OBVIOUS
  <2> QED BY <1>3, <2>4, <2>5, <2>6, <2>7
<1>8. PICK d \in Int : d = time - b - o BY <1>2
<1>9. -v < d /\ d < v BY <1>1, <1>2, <1>5, <1>6, <1>7, <1>8
<1>10. PICK x \in 0..(w - 1), i \in Int :
         CYCLE_TIMER_TO_TICKS(Now) = x /\ time = x + w * i
  <2>1. time \in Int BY <1>2
  <2>2. PICK x \in 0..(w - 1) : x = time % w BY <1>1, <2>1, TimerTicks
  <2>3. CYCLE_TIMER_TO_TICKS(Now) = x /\ \E i \in Int : time = x + w * i
    BY <1>1, <2>1, <2>2, TimerTicks DEF Now
  <2> QED BY <2>3
<1>11. PICK y \in 0..(w - 1), j \in Int :
         CYCLE_TIMER_TO_TICKS(m_last_packet_handled_at) = y /\ b + o = y + w * j
  <2>1. PICK z \in Int : z = b + o OBVIOUS
  <2>2. PICK y \in 0..(w - 1) : y = z % w BY <1>1, TimerTicks
  <2>3. CYCLE_TIMER_TO_TICKS(TICKS_TO_CYCLE_TIMER(z)) = y /\ \E j \in Int : z = y + w * j
    BY <1>1, <2>2, TimerTicks
  <2> QED BY <1>4, <2>1, <2>3
<1>12. PICK k \in Int : k = j - i OBVIOUS
<1>13. x - y = d + w * k
  <2>1. w * k = w * j - w * i BY <1>12
  <2>2. PICK wi \in Int, wj \in Int : wi = w * i /\ wj = w * j OBVIOUS
  <2>3. time = x + wi /\ b + o = y + wj BY <1>10, <1>11, <2>2
  <2>4. x - y = d + (wj - wi) BY <1>8, <2>3
  <2> QED BY <2>1, <2>2, <2>4
<1>14. unwrapDiff(x, y, w) = d
  <2>1. x \in Int /\ y \in Int /\ -(2 * v) <= x - y /\ x - y <= 2 * v BY <1>1
  <2>2. x - y = d + (2 * v) * k BY <1>1, <1>13
  <2>3. unwrapDiff(x, y, 2 * v) = d BY <1>9, <2>1, <2>2, Unwrap
  <2> QED BY <1>1, <2>3
<1>15. diffTicks(CYCLE_TIMER_TO_TICKS(Now), CYCLE_TIMER_TO_TICKS(m_last_packet_handled_at)) = d
  BY <1>1, <1>10, <1>11, <1>14 DEF diffTicks
<1>16. time - b <= s + l BY <1>2, <1>5, <1>6
<1> QED BY <1>1, <1>2, <1>3, <1>8, <1>15, <1>16

LEMMA Deaths == IsoIInv => DeathIsSilence
<1> SUFFICES ASSUME IsoIInv PROVE DeadIsSilent /\ SilentIsFound BY DEF DeathIsSilence
<1>1. PICK s \in Nat : s = Silence * TICKS_PER_SECOND BY Spans
<1>2. ASSUME m_State = "Running", Dead(Now)
      PROVE  last # -1 /\ time - last * TICKS_PER_CYCLE > Silence * TICKS_PER_SECOND
  <2>1. m_last_packet_handled_at # NoCTR BY <1>2 DEF Dead
  <2>2. PICK b \in Int : b = last * TICKS_PER_CYCLE BY <1>2, <2>1, SilenceTold
  <2>3. PICK o \in 0..(TICKS_PER_CYCLE - 1) :
          diffTicks(CYCLE_TIMER_TO_TICKS(Now), CYCLE_TIMER_TO_TICKS(m_last_packet_handled_at))
            = time - b - o
    BY <1>2, <2>1, <2>2, SilenceTold
  <2>4. time \in Int /\ TICKS_PER_CYCLE \in Int BY Sizes DEF IsoIInv, TypeOK
  <2>5. o \in Nat BY <2>4
  <2>6. time - b - o > s BY <1>1, <1>2, <2>3 DEF Dead
  <2>7. last \in Nat BY <1>2, <2>1, SilenceTold
  <2> QED BY <1>1, <2>2, <2>4, <2>5, <2>6, <2>7
<1>3. SilentIsFound BY SilenceTold DEF SilentIsFound
<1> QED BY <1>2, <1>3 DEF DeadIsSilent

(***************************************************************************)
(* The invariant is inductive.                                             *)
(***************************************************************************)
LEMMA IsoInit == Init => IsoIInv
<1> SUFFICES ASSUME Init PROVE IsoIInv OBVIOUS
<1>1. time \in Nat /\ polled = time /\ wire = <<>> /\ Cycle(time) \in Nat
  <2>1. time \in Nat /\ polled = time /\ wire = <<>> BY IsoClockAssumption DEF Init
  <2>2. PICK t \in Nat \ {0} : t = TICKS_PER_CYCLE BY Sizes
  <2>3. time \div t \in Nat BY <2>1
  <2> QED BY <2>1, <2>2, <2>3 DEF Cycle
<1>2. TypeOK BY <1>1 DEF Init, TypeOK
<1>3. WireInOrder BY <1>1 DEF Init, WireInOrder
<1>4. InTime BY <1>1 DEF Init, InTime
<1>5. CyclesOfTimes /\ Heard BY DEF Init, CyclesOfTimes, Heard
<1> QED BY <1>2, <1>3, <1>4, <1>5 DEF IsoIInv

LEMMA CycleIsNat == ASSUME TypeOK PROVE Cycle(time) \in Nat /\ Cycle(polled) \in Nat
<1>1. PICK t \in Nat \ {0} : t = TICKS_PER_CYCLE BY Sizes
<1>2. time \in Nat /\ polled \in Nat BY DEF TypeOK
<1>3. time \div t \in Nat /\ polled \div t \in Nat BY <1>2
<1> QED BY <1>1, <1>3 DEF Cycle

LEMMA TickStep == IsoIInv /\ tick => IsoIInv'
<1> SUFFICES ASSUME IsoIInv, tick PROVE IsoIInv' OBVIOUS
<1>1. time \in Nat /\ time' = time + 1 /\ Cycle(time) \in Nat /\ Cycle(time') \in Int
      /\ Cycle(time) <= Cycle(time')
  <2>1. time \in Nat /\ time' = time + 1 /\ Cycle(time) \in Nat
    BY CycleIsNat DEF tick, IsoIInv, TypeOK
  <2>2. PICK y \in Int : y = time' BY <2>1
  <2>3. Cycle(y) \in Int BY CycleOf
  <2>4. PICK t \in Nat \ {0} : t = TICKS_PER_CYCLE BY Sizes
  <2>5. time \div t <= y \div t
    <3>1. time \in Int /\ time <= y BY <2>1, <2>2
    <3> QED BY <3>1, DivisionMonotonic
  <2> QED BY <2>1, <2>2, <2>3, <2>4, <2>5 DEF Cycle
<1>2. TypeOK' BY <1>1 DEF IsoIInv, TypeOK, tick, handler, switch
<1>3. WireInOrder'
  <2>1. wire' = wire /\ last' = last /\ last \in Int /\ wire \in Seq(Nat)
    BY DEF tick, handler, IsoIInv, TypeOK
  <2>2. last <= Cycle(time') BY <1>1, <2>1 DEF IsoIInv, WireInOrder
  <2>3. ASSUME NEW i \in DOMAIN wire
        PROVE  wire[i] <= Cycle(time') /\ last < wire[i] /\ \A j \in 1..(i - 1) : wire[j] < wire[i]
    <3>1. wire[i] <= Cycle(time) /\ last < wire[i] /\ \A j \in 1..(i - 1) : wire[j] < wire[i]
      BY DEF IsoIInv, WireInOrder
    <3>2. wire[i] \in Nat BY <2>1
    <3> QED BY <1>1, <3>1, <3>2
  <2> QED BY <2>1, <2>2, <2>3 DEF WireInOrder
<1>4. InTime' BY DEF IsoIInv, InTime, tick, handler, Cycle
<1>5. CyclesOfTimes'
  <2>1. /\ m_last_cycle' = m_last_cycle /\ last' = last /\ switch_at' = switch_at
        /\ m_cycle_to_switch_state' = m_cycle_to_switch_state
    BY DEF tick, handler, switch
  <2>2. switch_at \in Int /\ MaxLead \in Int BY IsoClockAssumption DEF IsoIInv, TypeOK
  <2>3. switch_at # -1 => switch_at <= Cycle(time') + MaxLead
    BY <1>1, <2>2 DEF IsoIInv, CyclesOfTimes
  <2> QED BY <2>1, <2>3 DEF IsoIInv, CyclesOfTimes
<1>6. Heard' BY DEF IsoIInv, Heard, tick, handler
<1> QED BY <1>2, <1>3, <1>4, <1>5, <1>6 DEF IsoIInv

LEMMA ReceiveStep == IsoIInv /\ receive => IsoIInv'
<1> SUFFICES ASSUME IsoIInv, receive PROVE IsoIInv' OBVIOUS
<1>1. /\ time' = time /\ pc' = pc /\ polled' = polled /\ m_State' = m_State /\ last' = last
      /\ m_last_now' = m_last_now /\ m_last_cycle' = m_last_cycle
      /\ m_last_packet_handled_at' = m_last_packet_handled_at
      /\ switch_at' = switch_at /\ m_cycle_to_switch_state' = m_cycle_to_switch_state
  BY DEF receive, handler, switch
<1>2. PICK c \in Nat : c = Cycle(time) BY CycleIsNat DEF IsoIInv
<1>3. /\ wire' = Append(wire, c) /\ m_State = "Running" /\ last < c
      /\ wire # <<>> => wire[Len(wire)] < c
  BY <1>2 DEF receive
<1>4. wire \in Seq(Nat) BY DEF IsoIInv, TypeOK
<1>5. TypeOK' BY <1>1, <1>3, <1>4 DEF IsoIInv, TypeOK
<1>6. WireInOrder'
  <2>1. Len(wire) \in Nat /\ Len(wire') = Len(wire) + 1 /\ DOMAIN wire' = 1..(Len(wire) + 1)
        /\ DOMAIN wire = 1..Len(wire)
    BY <1>3, <1>4
  <2>2. ASSUME NEW i \in DOMAIN wire'
        PROVE  wire'[i] <= c /\ last < wire'[i] /\ \A j \in 1..(i - 1) : wire'[j] < wire'[i]
    <3>1. CASE i \in 1..Len(wire)
      <4>1. wire[i] <= c /\ last < wire[i] /\ \A j \in 1..(i - 1) : wire[j] < wire[i]
        BY <1>2, <2>1, <3>1 DEF IsoIInv, WireInOrder
      <4>2. wire'[i] = wire[i] /\ \A j \in 1..(i - 1) : wire'[j] = wire[j] BY <1>3, <1>4, <3>1
      <4> QED BY <4>1, <4>2
    <3>2. CASE i = Len(wire) + 1
      <4>1. wire'[i] = c BY <1>3, <1>4, <3>2
      <4>2. ASSUME NEW j \in 1..(i - 1) PROVE wire'[j] < c
        <5>1. j \in 1..Len(wire) /\ wire'[j] = wire[j] /\ wire[j] \in Nat BY <1>3, <1>4, <2>1, <3>2
        <5>2. wire # <<>> /\ wire[Len(wire)] < c /\ wire[Len(wire)] \in Nat BY <1>3, <1>4, <2>1, <5>1
        <5>3. CASE j = Len(wire) BY <5>1, <5>2, <5>3
        <5>4. CASE j < Len(wire)
          <6>1. Len(wire) \in DOMAIN wire /\ j \in 1..(Len(wire) - 1) BY <2>1, <5>1, <5>4
          <6>2. wire[j] < wire[Len(wire)] BY <6>1 DEF IsoIInv, WireInOrder
          <6> QED BY <5>1, <5>2, <6>2
        <5>5. j = Len(wire) \/ j < Len(wire)
          <6>1. PICK n \in Nat : n = Len(wire) BY <2>1
          <6>2. j \in 1..n BY <5>1, <6>1
          <6> QED BY <6>1, <6>2
        <5> QED BY <5>3, <5>4, <5>5
      <4> QED BY <1>2, <1>3, <4>1, <4>2
    <3> QED BY <2>1, <3>1, <3>2
  <2>3. last <= c BY <1>2 DEF IsoIInv, WireInOrder
  <2>4. Cycle(time)' = c BY <1>1, <1>2 DEF Cycle
  <2> QED BY <1>1, <2>2, <2>3, <2>4 DEF WireInOrder
<1>7. InTime'
  <2>1. Cycle(time)' = c /\ Cycle(polled)' = Cycle(polled) BY <1>1, <1>2 DEF Cycle
  <2>2. c - Head(wire') <= MaxLag
    <3>1. CASE wire = <<>>
      <4>1. Head(wire') = c BY <1>3, <3>1
      <4> QED BY <4>1, IsoClockAssumption
    <3>2. CASE wire # <<>>
      <4>1. Head(wire') = Head(wire) BY <1>3, <1>4, <3>2
      <4> QED BY <1>2, <3>2, <4>1 DEF IsoIInv, InTime
    <3> QED BY <3>1, <3>2
  <2> QED BY <1>1, <1>2, <1>3, <2>1, <2>2 DEF IsoIInv, InTime
<1>8. CyclesOfTimes' BY <1>1 DEF IsoIInv, CyclesOfTimes, Cycle
<1>9. Heard' BY <1>1 DEF IsoIInv, Heard
<1> QED BY <1>5, <1>6, <1>7, <1>8, <1>9 DEF IsoIInv

\* enable, disable, iterated and a bus reset.
LEMMA HandlerStep ==
  IsoIInv /\ (enable \/ disable \/ iterated \/ handleBusReset) => IsoIInv'
<1> SUFFICES ASSUME IsoIInv PROVE (enable \/ disable \/ iterated \/ handleBusReset) => IsoIInv'
  OBVIOUS
<1>1. ASSUME enable PROVE IsoIInv'
  <2>1. /\ time' = time /\ pc' = pc /\ pc = "poll" /\ m_State' = "Running" /\ last' = -1
        /\ wire' = <<>> /\ polled' = time /\ m_last_cycle' = -1
        /\ m_last_packet_handled_at' = NoCTR
        /\ switch_at' = switch_at /\ m_cycle_to_switch_state' = m_cycle_to_switch_state
    BY <1>1 DEF enable, switch, IsoIInv, TypeOK, InTime
  <2>2. TypeOK' BY <2>1 DEF IsoIInv, TypeOK
  <2>3. Cycle(time)' = Cycle(time) /\ Cycle(polled)' = Cycle(time) /\ Cycle(time) \in Nat
    BY <2>1, CycleIsNat DEF Cycle, IsoIInv
  <2>4. WireInOrder' BY <2>1, <2>3 DEF WireInOrder
  <2>5. InTime' BY <2>1, <2>3, IsoClockAssumption DEF InTime
  <2>6. CyclesOfTimes' BY <2>1, <2>3 DEF IsoIInv, CyclesOfTimes
  <2>7. Heard' BY <2>1 DEF Heard
  <2> QED BY <2>2, <2>4, <2>5, <2>6, <2>7 DEF IsoIInv
<1>2. ASSUME disable PROVE IsoIInv'
  <2>1. /\ time' = time /\ pc' = pc /\ pc = "poll" /\ m_State' = "Stopped" /\ last' = last
        /\ wire' = <<>> /\ polled' = polled /\ m_last_cycle' = m_last_cycle
        /\ m_last_packet_handled_at' = m_last_packet_handled_at
        /\ switch_at' = switch_at /\ m_cycle_to_switch_state' = m_cycle_to_switch_state
    BY <1>2 DEF disable, switch
  <2>2. TypeOK' BY <2>1 DEF IsoIInv, TypeOK
  <2>3. Cycle(time)' = Cycle(time) BY <2>1 DEF Cycle
  <2>4. WireInOrder' BY <2>1, <2>3 DEF IsoIInv, WireInOrder
  <2>5. InTime' BY <2>1 DEF InTime
  <2>6. CyclesOfTimes' BY <2>1, <2>3 DEF IsoIInv, CyclesOfTimes
  <2>7. Heard' BY <2>1 DEF IsoIInv, Heard
  <2> QED BY <2>2, <2>4, <2>5, <2>6, <2>7 DEF IsoIInv
<1>3. ASSUME iterated PROVE IsoIInv'
  <2>1. pc' = "poll" /\ UNCHANGED <<time, wire, polled, handler, switch>> BY <1>3 DEF iterated
  <2>2. TypeOK' BY <2>1 DEF IsoIInv, TypeOK, handler, switch
  <2>3. WireInOrder' BY <2>1 DEF IsoIInv, WireInOrder, handler, Cycle
  <2>4. InTime' BY <2>1 DEF IsoIInv, InTime, handler, Cycle
  <2>5. CyclesOfTimes' BY <2>1 DEF IsoIInv, CyclesOfTimes, handler, switch, Cycle
  <2>6. Heard' BY <2>1 DEF IsoIInv, Heard, handler
  <2> QED BY <2>2, <2>3, <2>4, <2>5, <2>6 DEF IsoIInv
<1>4. ASSUME handleBusReset PROVE IsoIInv'
  <2>1. /\ m_last_packet_handled_at' = NoCTR
        /\ UNCHANGED <<time, wire, pc, polled, m_State, m_last_now, m_last_cycle, last, switch>>
    BY <1>4 DEF handleBusReset
  <2>2. TypeOK' BY <2>1 DEF IsoIInv, TypeOK, switch
  <2>3. WireInOrder' BY <2>1 DEF IsoIInv, WireInOrder, Cycle
  <2>4. InTime' BY <2>1 DEF IsoIInv, InTime, Cycle
  <2>5. CyclesOfTimes' BY <2>1 DEF IsoIInv, CyclesOfTimes, switch, Cycle
  <2>6. Heard' BY <2>1 DEF Heard
  <2> QED BY <2>2, <2>3, <2>4, <2>5, <2>6 DEF IsoIInv
<1> QED BY <1>1, <1>2, <1>3, <1>4

\* A handler that is not found dead has been heard of recently.
LEMMA ExecuteStep == IsoIInv /\ Execute => IsoIInv'
<1> SUFFICES ASSUME IsoIInv, Execute PROVE IsoIInv' OBVIOUS
<1>1. /\ pc = "poll" /\ m_State = "Running" /\ polled' = time /\ time' = time /\ last' = last
      /\ m_last_cycle' = m_last_cycle /\ m_last_packet_handled_at' = m_last_packet_handled_at
      /\ switch_at' = switch_at /\ m_cycle_to_switch_state' = m_cycle_to_switch_state
  BY DEF Execute, switch
<1>2. \/ Dead(Now) /\ m_State' = "Stopped" /\ wire' = <<>> /\ pc' = pc
      \/ ~Dead(Now) /\ m_last_now' = Now /\ pc' = "iterate" /\ m_State' = m_State /\ wire' = wire
  BY DEF Execute
<1>3. Cycle(time)' = Cycle(time) /\ Cycle(polled)' = Cycle(time) /\ Cycle(time) \in Nat
  BY <1>1, CycleIsNat DEF Cycle, IsoIInv
<1>4. TypeOK'
  <2>1. time' \in Nat /\ polled' \in 0..time' BY <1>1 DEF IsoIInv, TypeOK
  <2>2. wire' \in Seq(Nat) /\ pc' \in {"poll", "iterate"} /\ m_State' \in {"Stopped", "Running"}
    <3>1. wire \in Seq(Nat) /\ <<>> \in Seq(Nat) BY DEF IsoIInv, TypeOK
    <3> QED BY <1>1, <1>2, <3>1
  <2> QED BY <1>1, <2>1, <2>2 DEF IsoIInv, TypeOK
<1>5. WireInOrder'
  <2>1. CASE wire' = <<>> BY <1>1, <1>3, <2>1 DEF IsoIInv, WireInOrder
  <2>2. CASE wire' = wire BY <1>1, <1>3, <2>2 DEF IsoIInv, WireInOrder
  <2> QED BY <1>2, <2>1, <2>2
<1>6. InTime'
  <2>1. CASE wire' = <<>> /\ pc' = "poll" BY <1>3, <2>1, IsoClockAssumption DEF InTime
  <2>2. CASE wire' = wire /\ m_last_now' = Now /\ pc' = "iterate" /\ m_State' = m_State
    BY <1>1, <1>3, <2>2, IsoClockAssumption DEF IsoIInv, InTime, Now
  <2> QED BY <1>1, <1>2, <2>1, <2>2
<1>7. CyclesOfTimes' BY <1>1, <1>3 DEF IsoIInv, CyclesOfTimes
<1>8. Heard'
  <2>1. CASE m_last_packet_handled_at = NoCTR BY <1>1, <2>1 DEF Heard
  <2>2. CASE m_last_packet_handled_at # NoCTR /\ m_State' = "Stopped"
    BY <1>1, <2>2 DEF IsoIInv, Heard
  <2>3. CASE m_last_packet_handled_at # NoCTR /\ ~Dead(Now)
    <3>1. PICK b \in Int : b = last * TICKS_PER_CYCLE BY <1>1, <2>3, SilenceTold
    <3>2. PICK t \in Nat \ {0}, s \in Nat : t = TICKS_PER_CYCLE /\ s = Silence * TICKS_PER_SECOND
      BY Spans
    <3>3. PICK o \in 0..(t - 1) :
            diffTicks(CYCLE_TIMER_TO_TICKS(Now), CYCLE_TIMER_TO_TICKS(m_last_packet_handled_at))
              = time - b - o
      BY <1>1, <2>3, <3>1, <3>2, SilenceTold
    <3>4. ~(time - b - o > s) BY <2>3, <3>2, <3>3 DEF Dead
    <3>5. time \in Int BY DEF IsoIInv, TypeOK
    <3>6. time - b <= s + t BY <3>4, <3>5
    <3> QED BY <1>1, <3>1, <3>2, <3>6 DEF IsoIInv, Heard
  <2> QED BY <1>1, <1>2, <2>1, <2>2, <2>3
<1> QED BY <1>4, <1>5, <1>6, <1>7, <1>8 DEF IsoIInv

LEMMA ScheduleStep == IsoIInv /\ scheduleStateTransition => IsoIInv'
<1> SUFFICES ASSUME IsoIInv, scheduleStateTransition PROVE IsoIInv' OBVIOUS
<1>1. UNCHANGED <<time, wire, pc, polled, handler>> BY DEF scheduleStateTransition
<1>2. PICK lead \in 1..MaxLead :
        /\ m_cycle_to_switch_state'
             = TICKS_TO_CYCLES(addTicks(CYCLE_TIMER_TO_TICKS(Now), lead * TICKS_PER_CYCLE))
        /\ switch_at' = Cycle(time) + lead
  BY DEF scheduleStateTransition
<1>3. time \in Nat /\ Cycle(time) \in Nat BY CycleIsNat DEF IsoIInv, TypeOK
<1>4. MaxLead \in Nat /\ lead \in Nat BY IsoClockAssumption
<1>5. m_cycle_to_switch_state' = (Cycle(time) + lead) % CYCLES_PER_SECOND
  <2>1. PICK t \in Nat \ {0}, w \in Nat \ {0} : t = TICKS_PER_CYCLE /\ w = WrapTicks BY Sizes
  <2>2. time \in Int BY <1>3
  <2>3. PICK c \in Int, r \in 0..(t - 1) : c = Cycle(time) /\ time = c * t + r
    <3>1. Cycle(time) \in Int /\ time % t \in 0..(t - 1) /\ time = Cycle(time) * t + (time % t)
      BY <2>1, <2>2, CycleOf
    <3> QED BY <3>1
  <2>4. PICK x \in Int, i \in Int : CYCLE_TIMER_TO_TICKS(Now) = x /\ time = x + w * i
    <3>1. PICK x \in 0..(w - 1) : x = time % w BY <2>1, <2>2, TimerTicks
    <3>2. CYCLE_TIMER_TO_TICKS(Now) = x /\ \E i \in Int : time = x + w * i
      BY <2>1, <2>2, <3>1, TimerTicks DEF Now
    <3> QED BY <3>2
  <2>5. PICK g \in Int : g = c + lead BY <1>4
  <2>6. PICK y \in Int : y = g * t + r /\ Cycle(y) = g BY <2>1, CycleIs
  <2>7. PICK u \in Int : u = lead * t BY <1>4
  <2>8. PICK z \in Int : z = w * i OBVIOUS
  <2>9. y = x + u + z
    <3>1. g * t = c * t + lead * t /\ c * t \in Int BY <1>4, <2>5
    <3>2. PICK k \in Int : k = c * t OBVIOUS
    <3>3. time = k + r /\ time = x + z /\ y = k + u + r BY <2>3, <2>4, <2>6, <2>7, <2>8, <3>1, <3>2
    <3> QED BY <3>3
  <2>10. \E j \in Int : addTicks(x, u) = y + w * j
    <3>1. addTicks(x, u) = x + u \/ addTicks(x, u) = x + u - w
      BY <2>1 DEF addTicks, wrapAtMaxTicks
    <3>2. w * (-i) = -z /\ w * (-i - 1) = -z - w BY <2>8
    <3>3. CASE addTicks(x, u) = x + u
      <4>1. addTicks(x, u) = y + w * (-i) /\ -i \in Int BY <2>9, <3>2, <3>3
      <4> QED BY <4>1
    <3>4. CASE addTicks(x, u) = x + u - w
      <4>1. addTicks(x, u) = y + w * (-i - 1) /\ -i - 1 \in Int BY <2>9, <3>2, <3>4
      <4> QED BY <4>1
    <3> QED BY <3>1, <3>3, <3>4
  <2>11. PICK j \in Int : addTicks(x, u) = y + w * j BY <2>10
  <2>12. TICKS_TO_CYCLE_TIMER(y + w * j) = TICKS_TO_CYCLE_TIMER(y) BY <2>1, TimerTurns
  <2>13. \A a : TICKS_TO_CYCLE_TIMER(a).cycles = TICKS_TO_CYCLES(a) BY DEF TICKS_TO_CYCLE_TIMER
  <2>14. TICKS_TO_CYCLES(y + w * j) = TICKS_TO_CYCLES(y) BY <2>12, <2>13
  <2>15. TICKS_TO_CYCLES(y) = g % CYCLES_PER_SECOND BY <2>6 DEF TICKS_TO_CYCLES, Cycle
  <2>16. m_cycle_to_switch_state' = TICKS_TO_CYCLES(addTicks(x, u))
    BY <1>2, <2>1, <2>4, <2>7
  <2> QED BY <2>3, <2>5, <2>11, <2>14, <2>15, <2>16
<1>6. TypeOK'
  <2>1. switch_at' \in Nat BY <1>2, <1>3, <1>4
  <2> QED BY <1>1, <2>1 DEF IsoIInv, TypeOK, handler
<1>7. WireInOrder' BY <1>1 DEF IsoIInv, WireInOrder, handler, Cycle
<1>8. InTime' BY <1>1 DEF IsoIInv, InTime, handler, Cycle
<1>9. CyclesOfTimes'
  <2>1. Cycle(time)' = Cycle(time) /\ m_last_cycle' = m_last_cycle /\ last' = last
    BY <1>1 DEF handler, Cycle
  <2>2. switch_at' <= Cycle(time) + MaxLead BY <1>2, <1>3, <1>4
  <2>3. m_cycle_to_switch_state' = switch_at' % CYCLES_PER_SECOND BY <1>2, <1>5
  <2> QED BY <2>1, <2>2, <2>3 DEF IsoIInv, CyclesOfTimes
<1>10. Heard' BY <1>1 DEF IsoIInv, Heard, handler
<1> QED BY <1>6, <1>7, <1>8, <1>9, <1>10 DEF IsoIInv

\* What is left in the kernel after a packet.
LEMMA TailInOrder ==
  ASSUME NEW s \in Seq(Nat), s # <<>>,
         \A i \in DOMAIN s : \A j \in 1..(i - 1) : s[j] < s[i]
  PROVE  /\ Tail(s) \in Seq(Nat)
         /\ \A i \in DOMAIN Tail(s) : /\ i + 1 \in DOMAIN s /\ Tail(s)[i] = s[i + 1]
                                      /\ Head(s) < Tail(s)[i]
                                      /\ \A j \in 1..(i - 1) : Tail(s)[j] < Tail(s)[i]
         /\ Tail(s) # <<>> => Head(Tail(s)) = Tail(s)[1] /\ 1 \in DOMAIN Tail(s)
<1>1. PICK n \in Nat : n = Len(s) /\ n # 0 OBVIOUS
<1>2. Tail(s) \in Seq(Nat) /\ Len(Tail(s)) = n - 1 /\ DOMAIN Tail(s) = 1..(n - 1) /\ DOMAIN s = 1..n
  BY <1>1
<1>3. ASSUME NEW i \in 1..(n - 1) PROVE Tail(s)[i] = s[i + 1] BY <1>1
<1>4. ASSUME NEW i \in 1..(n - 1) PROVE s[1] < s[i + 1]
  <2>1. i + 1 \in DOMAIN s /\ 1 \in 1..((i + 1) - 1) BY <1>2
  <2> QED BY <2>1
<1>5. ASSUME NEW i \in 1..(n - 1), NEW j \in 1..(i - 1) PROVE Tail(s)[j] < Tail(s)[i]
  <2>1. i + 1 \in DOMAIN s /\ j + 1 \in 1..((i + 1) - 1) /\ j \in 1..(n - 1) BY <1>2
  <2>2. s[j + 1] < s[i + 1] BY <2>1
  <2> QED BY <1>3, <2>1, <2>2
<1>6. Head(s) = s[1] OBVIOUS
<1>7. ASSUME Tail(s) # <<>> PROVE Head(Tail(s)) = Tail(s)[1] /\ 1 \in DOMAIN Tail(s)
  BY <1>2, <1>7
<1>8. \A i \in 1..(n - 1) : i + 1 \in 1..n OBVIOUS
<1> QED BY <1>2, <1>3, <1>4, <1>5, <1>6, <1>7, <1>8

LEMMA PutPacketStep == IsoIInv /\ putPacket => IsoIInv'
<1> SUFFICES ASSUME IsoIInv, putPacket PROVE IsoIInv' OBVIOUS
<1>1. /\ pc = "iterate" /\ wire # <<>> /\ Handling
      /\ UNCHANGED <<time, pc, polled, m_State, m_last_now>>
      /\ wire' = Tail(wire) /\ last' = Head(wire)
      /\ m_last_cycle' = PktCycle /\ m_last_packet_handled_at' = pkt_ctr(PktCycle)
  BY DEF putPacket, Handling, PktCycle
<1>2. PICK a \in Nat, o \in 0..(TICKS_PER_CYCLE - 1) :
        a = Head(wire) /\ pkt_ctr(PktCycle) = TICKS_TO_CYCLE_TIMER(a * TICKS_PER_CYCLE + o)
  <2>1. PICK a \in Nat : a = Head(wire) BY <1>1, InHand
  <2> QED BY <1>1, <2>1, InHand
<1>3. /\ last < a /\ a <= Cycle(time) /\ Cycle(time) \in Int /\ Cycle(time) - a <= MaxLag
      /\ polled \in Nat
  BY <1>1, <1>2, InHand
<1>4. pkt_ctr(PktCycle).cycles = a % CYCLES_PER_SECOND
  <2>1. a \in Int OBVIOUS
  <2>2. TICKS_TO_CYCLE_TIMER(a * TICKS_PER_CYCLE + o)
          = [secs |-> (a \div CYCLES_PER_SECOND) % SECONDS, cycles |-> a % CYCLES_PER_SECOND,
             offset |-> o]
    BY <2>1, PlacedFields
  <2> QED BY <1>2, <2>2
<1>5. \/ switch_at' = -1
      \/ switch_at' = a + 1 /\ m_cycle_to_switch_state' = (a % CYCLES_PER_SECOND) + 1
      \/ switch_at' = switch_at /\ m_cycle_to_switch_state' = m_cycle_to_switch_state
  <2>1. \/ switch_at' = -1
        \/ m_cycle_to_switch_state' = pkt_ctr(PktCycle).cycles + 1 /\ switch_at' = Head(wire) + 1
        \/ UNCHANGED switch
    BY DEF putPacket, PktCycle
  <2> QED BY <1>2, <1>4, <2>1 DEF switch
<1>6. /\ wire \in Seq(Nat) /\ time \in Nat /\ polled <= time
      /\ \A i \in DOMAIN wire : wire[i] <= Cycle(time) /\ \A j \in 1..(i - 1) : wire[j] < wire[i]
  BY DEF IsoIInv, TypeOK, WireInOrder
<1>7. /\ wire' \in Seq(Nat)
      /\ \A i \in DOMAIN wire' : /\ i + 1 \in DOMAIN wire /\ wire'[i] = wire[i + 1]
                                 /\ a < wire'[i]
                                 /\ \A j \in 1..(i - 1) : wire'[j] < wire'[i]
      /\ wire' # <<>> => Head(wire') = wire'[1] /\ 1 \in DOMAIN wire'
  <2>1. PICK s \in Seq(Nat) : s = wire BY <1>6
  <2>2. s # <<>> /\ \A i \in DOMAIN s : \A j \in 1..(i - 1) : s[j] < s[i] BY <1>1, <1>6, <2>1
  <2>3. /\ Tail(s) \in Seq(Nat)
        /\ \A i \in DOMAIN Tail(s) : /\ i + 1 \in DOMAIN s /\ Tail(s)[i] = s[i + 1]
                                     /\ Head(s) < Tail(s)[i]
                                     /\ \A j \in 1..(i - 1) : Tail(s)[j] < Tail(s)[i]
        /\ Tail(s) # <<>> => Head(Tail(s)) = Tail(s)[1] /\ 1 \in DOMAIN Tail(s)
    BY <2>2, TailInOrder
  <2>4. wire' = Tail(s) /\ Head(s) = a BY <1>1, <1>2, <2>1
  <2> QED BY <2>1, <2>3, <2>4
<1>8. Cycle(time)' = Cycle(time) /\ Cycle(polled)' = Cycle(polled) BY <1>1 DEF Cycle
<1>9. TypeOK'
  <2>1. switch_at' \in Nat \cup {-1} BY <1>5 DEF IsoIInv, TypeOK
  <2>2. last' \in Nat BY <1>1, <1>2
  <2> QED BY <1>1, <1>6, <1>7, <2>1, <2>2 DEF IsoIInv, TypeOK
<1>10. WireInOrder'
  <2>1. \A i \in DOMAIN wire' : wire'[i] <= Cycle(time) BY <1>6, <1>7
  <2>2. last' = a BY <1>1, <1>2
  <2> QED BY <1>3, <1>7, <1>8, <2>1, <2>2 DEF WireInOrder
<1>11. InTime'
  <2>1. wire' # <<>> => Cycle(time) - Head(wire') <= MaxLag
    <3> SUFFICES ASSUME wire' # <<>> PROVE Cycle(time) - Head(wire') <= MaxLag OBVIOUS
    <3>1. Head(wire') \in Nat /\ a < Head(wire') BY <1>7
    <3>2. MaxLag \in Nat BY IsoClockAssumption
    <3> QED BY <1>3, <3>1, <3>2
  <2>2. m_State = "Running" BY <1>1 DEF IsoIInv, InTime
  <2> QED BY <1>1, <1>8, <2>1, <2>2 DEF IsoIInv, InTime
<1>12. CyclesOfTimes'
  <2>1. m_last_cycle' = last' % CYCLES_PER_SECOND /\ last' # -1 BY <1>1, <1>2 DEF PktCycle
  <2>2. ASSUME switch_at' = a + 1, m_cycle_to_switch_state' = (a % CYCLES_PER_SECOND) + 1
        PROVE  /\ switch_at' <= Cycle(time) + MaxLead
               /\ \/ m_cycle_to_switch_state' = switch_at' % CYCLES_PER_SECOND
                  \/ /\ m_cycle_to_switch_state' = CYCLES_PER_SECOND
                     /\ switch_at' % CYCLES_PER_SECOND = 0
    <3>1. PICK n \in Nat \ {0} : n = CYCLES_PER_SECOND BY Sizes
    <3>2. PICK p \in Int, r \in 0..(n - 1) : r = a % n /\ a = n * p + r
      <4>1. a \in Int OBVIOUS
      <4>2. a % n \in 0..(n - 1) /\ a \div n \in Int /\ a = n * (a \div n) + (a % n) BY <4>1, Quotient
      <4> QED BY <4>2
    <3>3. PICK b \in Int : b = a + 1 OBVIOUS
    <3>4. CASE r + 1 < n
      <4>1. PICK q \in 0..(n - 1) : q = r + 1 BY <3>4
      <4>2. b = n * p + q
        <5>1. n * p \in Int OBVIOUS
        <5> QED BY <3>2, <3>3, <4>1, <5>1
      <4>3. b % n = q BY <4>2, Division
      <4> QED BY <1>3, <2>2, <3>1, <3>2, <3>3, <4>1, <4>3, IsoClockAssumption
    <3>5. CASE r + 1 = n
      <4>1. PICK q \in Int, z \in 0..(n - 1) : q = p + 1 /\ z = 0 OBVIOUS
      <4>2. b = n * q + z
        <5>1. n * q = n * p + n BY <4>1
        <5>2. n * p \in Int OBVIOUS
        <5> QED BY <3>2, <3>3, <3>5, <4>1, <5>1, <5>2
      <4>3. b % n = 0 BY <4>1, <4>2, Division, ZenonT(40)
      <4> QED BY <1>3, <2>2, <3>1, <3>2, <3>3, <3>5, <4>3, IsoClockAssumption
    <3> QED BY <3>4, <3>5
  <2>3. CASE switch_at' = -1 BY <2>1, <2>3 DEF CyclesOfTimes
  <2>4. CASE switch_at' = a + 1 /\ m_cycle_to_switch_state' = (a % CYCLES_PER_SECOND) + 1
    BY <1>8, <2>1, <2>2, <2>4 DEF CyclesOfTimes
  <2>5. CASE switch_at' = switch_at /\ m_cycle_to_switch_state' = m_cycle_to_switch_state
    BY <1>8, <2>1, <2>5 DEF IsoIInv, CyclesOfTimes
  <2> QED BY <1>5, <2>3, <2>4, <2>5
<1>13. Heard'
  <2>1. PICK t \in Nat \ {0}, p \in Nat \ {0}, l \in Nat, s \in Nat :
    /\ t = TICKS_PER_CYCLE /\ p = TICKS_PER_SECOND /\ l = (MaxLag + 2) * TICKS_PER_CYCLE
    /\ l = MaxLag * TICKS_PER_CYCLE + 2 * t /\ MaxLag * TICKS_PER_CYCLE \in Nat
    /\ s = Silence * TICKS_PER_SECOND /\ 2 * l <= p /\ p <= s
    BY Spans
  <2>2. PICK g \in Int, b \in Int : g = MaxLag /\ b = a * t BY IsoClockAssumption
  <2>3. time - a * TICKS_PER_CYCLE < g * TICKS_PER_CYCLE + TICKS_PER_CYCLE
    <3>1. time \in Int /\ a \in Int /\ Cycle(time) - a <= g BY <1>3, <1>6, <2>2
    <3> QED BY <3>1, CyclesBetween
  <2>4. time - b < l - t
    <3>1. PICK y \in Int : y = MaxLag * TICKS_PER_CYCLE BY <2>1
    <3>2. l = y + 2 * t BY <2>1, <3>1
    <3>3. time - b < y + t
      <4>1. a * TICKS_PER_CYCLE = b /\ g * TICKS_PER_CYCLE = y BY <2>1, <2>2, <3>1
      <4> QED BY <2>1, <2>3, <4>1
    <3>4. time \in Int BY <1>6
    <3> QED BY <3>2, <3>3, <3>4
  <2>5. polled - b <= s + t
    <3>1. time \in Int /\ polled \in Int /\ polled <= time BY <1>3, <1>6
    <3>2. 2 * l <= p /\ p <= s BY <2>1
    <3>3. l <= s BY <3>2
    <3> QED BY <2>4, <3>1, <3>3
  <2>6. /\ last' = a /\ last' # -1 /\ polled' = polled
        /\ m_last_packet_handled_at' = TICKS_TO_CYCLE_TIMER(a * TICKS_PER_CYCLE + o)
    BY <1>1, <1>2
  <2>7. polled' - last' * TICKS_PER_CYCLE <= Silence * TICKS_PER_SECOND + TICKS_PER_CYCLE
    BY <2>1, <2>2, <2>5, <2>6
  <2> QED BY <2>6, <2>7 DEF Heard
<1> QED BY <1>9, <1>10, <1>11, <1>12, <1>13 DEF IsoIInv

LEMMA IsoStep == IsoIInv /\ [Next]_vars => IsoIInv'
<1> SUFFICES ASSUME IsoIInv, [Next]_vars PROVE IsoIInv' OBVIOUS
<1>1. CASE UNCHANGED vars
  <2>1. UNCHANGED <<time, wire, pc, polled, handler, switch>> BY <1>1 DEF vars
  <2>2. TypeOK' BY <2>1 DEF IsoIInv, TypeOK, handler, switch
  <2>3. WireInOrder' BY <2>1 DEF IsoIInv, WireInOrder, handler, Cycle
  <2>4. InTime' BY <2>1 DEF IsoIInv, InTime, handler, Cycle
  <2>5. CyclesOfTimes' BY <2>1 DEF IsoIInv, CyclesOfTimes, handler, switch, Cycle
  <2>6. Heard' BY <2>1 DEF IsoIInv, Heard, handler
  <2> QED BY <2>2, <2>3, <2>4, <2>5, <2>6 DEF IsoIInv
<1> QED BY <1>1, TickStep, ReceiveStep, HandlerStep, ExecuteStep, PutPacketStep, ScheduleStep
        DEF Next

\* The times behind the values of the cycle timer stay close enough for differences of
\* wrapped values to be the true ones, for every length of a cycle, a second and a turn.
THEOREM AlwaysIsoIInv == Spec => []IsoIInv
BY IsoInit, IsoStep, PTL DEF Spec

\* IsoHandler::putPacket rebuilds the second and the cycle of every packet, and counts the
\* cycles lost before it.
THEOREM AlwaysPacketPlaced == Spec => []PacketPlaced
<1>1. IsoIInv => PacketPlaced BY Placed, Gaps DEF PacketPlaced
<1> QED BY <1>1, AlwaysIsoIInv, PTL

\* sytRecvToFullTicks2 rebuilds every presentation time that an SYT can tell.
THEOREM AlwaysPresentationRebuilt == Spec => []PresentationRebuilt
BY AtPresentation, AlwaysIsoIInv, PTL

\* A scheduled switch is executed by the packet of its cycle or the first after it.
THEOREM AlwaysSwitchOnTime == Spec => []SwitchOnTime
BY AtSwitch, AlwaysIsoIInv, PTL

\* A handler is found dead when, and only when, it has been silent.
THEOREM AlwaysDeathIsSilence == Spec => []DeathIsSilence
BY Deaths, AlwaysIsoIInv, PTL

-----------------------------------------------------------------------------
(***************************************************************************)
(* The shadow maps of the tasks.  A step is one of three kinds for a task: *)
(* it leaves what the task has seen as it is (Frame), it counts a request, *)
(* after which nothing is claimed of the map until that is served          *)
(* (Counted), or it is the task's own.                                     *)
(***************************************************************************)

\* A step of task t changes the fields it names, and no other task.
LEMMA TaskChange ==
  ASSUME NEW t \in IsoTasks, NEW change, Task(t, change), IhmTypeOK
  PROVE  /\ DOMAIN tsk' = IsoTasks
         /\ \A u \in IsoTasks : u # t => tsk'[u] = tsk[u]
         /\ DOMAIN tsk'[t] = TaskFields
         /\ \A f \in TaskFields : tsk'[t][f] = IF f \in DOMAIN change THEN change[f] ELSE tsk[t][f]
BY DEF Task, IhmTypeOK

\* The same, but for what nobody but the task itself depends on.
SameTask(u) ==
  /\ DOMAIN tsk'[u] = TaskFields
  /\ tsk'[u].req = tsk[u].req /\ tsk'[u].map = tsk[u].map /\ tsk'[u].pc = tsk[u].pc /\ tsk'[u].i = tsk[u].i
  /\ tsk'[u].max = tsk[u].max /\ tsk'[u].new = tsk[u].new /\ tsk'[u].h = tsk[u].h /\ tsk'[u].ret = tsk[u].ret
CountedTask(u) ==
  /\ DOMAIN tsk'[u] = TaskFields
  /\ tsk'[u].req = tsk[u].req + 1 /\ tsk'[u].map = tsk[u].map /\ tsk'[u].pc = tsk[u].pc /\ tsk'[u].i = tsk[u].i
  /\ tsk'[u].max = tsk[u].max /\ tsk'[u].new = tsk[u].new /\ tsk'[u].h = tsk[u].h /\ tsk'[u].ret = tsk[u].ret

\* A step of others leaves handler k as task u has seen it.
HandlerKept(u, k) ==
  /\ hd'[k].type = hd[k].type
  /\ hd[k].type = u /\ hd'[k].state # hd'[k].next => hd'[k].quiet \/ (hd[k].state # hd[k].next /\ ~hd[k].quiet)
  /\ hd[k].type = u /\ hd'[k].state = "Running" => hd[k].state = "Running"

\* requestShadowMapUpdate counts for the tasks in ts, and touches no other.
LEMMA RequestChange ==
  ASSUME IhmTypeOK, NEW ts, tsk' = requestShadowMapUpdate(ts)
  PROVE  /\ DOMAIN tsk' = IsoTasks
         /\ \A u \in IsoTasks : u \notin ts => SameTask(u)
         /\ \A u \in IsoTasks : u \in ts => CountedTask(u)
         /\ \A u \in IsoTasks : tsk'[u].in_busreset = tsk[u].in_busreset
BY DEF requestShadowMapUpdate, IhmTypeOK, TaskFields, SameTask, CountedTask

\* A step that keeps the handlers as task u has seen them.
LEMMA Frame ==
  ASSUME NEW u \in IsoTasks, SameTask(u), m_IsoHandlers' = m_IsoHandlers, Awaited(u) => Awaited(u)',
         \A i \in DOMAIN m_IsoHandlers : HandlerKept(u, m_IsoHandlers[i]),
         TaskIsSound(u), MapIsKept(u)
  PROVE  TaskIsSound(u)' /\ MapIsKept(u)'
<1>1. TaskIsSound(u)' /\ (Updating(u)' <=> Updating(u)) BY DEF TaskIsSound, SameTask, Updating
<1>2. \A i \in DOMAIN m_IsoHandlers : \A s : Seen(u, m_IsoHandlers[i], s) => Seen(u, m_IsoHandlers[i], s)'
  BY DEF HandlerKept, Seen, Settled, isEnabled
<1>3. Current(u) => Current(u)' BY <1>2 DEF Current, SameTask
<1>4. Scanned(u) => Scanned(u)' 
  <2> SUFFICES ASSUME Scanned(u) PROVE Scanned(u)' OBVIOUS
  <2>1. tsk[u].pc \in {"unlock", "map"} => Settled(u, tsk[u].h)' BY DEF Scanned, Settled, HandlerKept, SameTask
  <2> QED BY <1>2, <2>1 DEF Scanned, SameTask
<1> QED BY <1>1, <1>3, <1>4 DEF MapIsKept, SameTask

\* A step that counts a request for task u.
LEMMA Counted ==
  ASSUME NEW u \in IsoTasks, CountedTask(u), TaskIsSound(u), IhmTypeOK
  PROVE  TaskIsSound(u)' /\ MapIsKept(u)'
<1>1. TaskIsSound(u)' /\ (Updating(u)' <=> Updating(u)) BY DEF TaskIsSound, CountedTask, Updating, IhmTypeOK
<1>2. tsk'[u].req # 0 /\ (Updating(u) => tsk'[u].req # 1) BY DEF TaskIsSound, CountedTask, IhmTypeOK
<1> QED BY <1>1, <1>2 DEF MapIsKept

AllTasks == \A t \in IsoTasks : TaskIsSound(t) /\ MapIsKept(t)

\* Nothing of what is shared changes but the handlers' fields that keep what the list says.
LEMMA ListKept ==
  ASSUME ListIsSound, m_IsoHandlers' = m_IsoHandlers, types' = types,
         \A i \in DOMAIN m_IsoHandlers : LET k == m_IsoHandlers[i] IN
            /\ hd'[k].alive = hd[k].alive /\ hd'[k].type = hd[k].type
            /\ hd'[k].client \in {hd[k].client, NoClient}
  PROVE  ListIsSound'
BY DEF ListIsSound, Listed

\* The tasks when the list, the requests under way and the handlers stay.
LEMMA TasksKept ==
  ASSUME IhmTypeOK, AllTasks, tsk' = tsk, m_IsoHandlers' = m_IsoHandlers, 
         \A u \in IsoTasks : Awaited(u) => Awaited(u)',
         \A u \in IsoTasks : \A i \in DOMAIN m_IsoHandlers : HandlerKept(u, m_IsoHandlers[i])
  PROVE  AllTasks'
<1> SUFFICES ASSUME NEW u \in IsoTasks PROVE TaskIsSound(u)' /\ MapIsKept(u)' BY DEF AllTasks
<1>1. SameTask(u) BY DEF SameTask, IhmTypeOK
<1> QED BY <1>1, Frame DEF AllTasks

\* The steps of the client.
LEMMA RegisterStep ==
  ASSUME IhmSound, AllTasks, ~LateInit, NEW s \in Streams, registerStream(s), UNCHANGED <<types, rst>>
  PROVE  IhmSound' /\ AllTasks'
<1> USE DEF IhmSound
<1>1. cli' = [pc |-> "prune", op |-> "register", s |-> s, h |-> NoHandler] /\ cli.pc = "idle"
      /\ (\A t \in IsoTasks : tsk[t].pc # "init") /\ UNCHANGED <<m_IsoHandlers, hd, tsk, types, rst>>
  BY DEF registerStream, Calls, Ready, ClientAt
<1>2. IhmTypeOK' BY <1>1 DEF IhmTypeOK
<1>3. Beginning' BY <1>1 DEF Beginning, At
<1>4. ListIsSound' BY <1>1 DEF ListIsSound, Listed
<1>5. ClientIsSound' BY <1>1 DEF ClientIsSound, Streams
<1>6. ResetIsSound' BY <1>1 DEF ResetIsSound
<1>7. AllTasks'
  <2>1. \A u \in IsoTasks : Awaited(u) => Awaited(u)' BY <1>1 DEF Awaited
  <2>2. \A u \in IsoTasks : \A i \in DOMAIN m_IsoHandlers : HandlerKept(u, m_IsoHandlers[i])
    BY <1>1 DEF HandlerKept
  <2> QED BY <1>1, <2>1, <2>2, TasksKept
<1> QED BY <1>2, <1>3, <1>4, <1>5, <1>6, <1>7

LEMMA UnregisterStep ==
  ASSUME IhmSound, AllTasks, ~LateInit, NEW s \in Streams, unregisterStream(s), UNCHANGED <<types, rst>>
  PROVE  IhmSound' /\ AllTasks'
<1> USE DEF IhmSound
<1>0. PICK k \in HandlerOf(s) : hd' = [hd EXCEPT ![k].client = NoClient] /\ Calls("prune", "unregister", s)
  BY DEF unregisterStream
<1>1. cli' = [pc |-> "prune", op |-> "unregister", s |-> s, h |-> NoHandler] /\ cli.pc = "idle"
      /\ (\A t \in IsoTasks : tsk[t].pc # "init") /\ UNCHANGED <<m_IsoHandlers, tsk, types, rst>>
  BY <1>0 DEF unregisterStream, Calls, Ready, ClientAt
<1>a. k \in Ids BY DEF HandlerOf, ToSet, IhmTypeOK
<1>b. \A j \in Ids : hd'[j] = hd[j] \/ (j = k /\ hd'[j] = [hd[j] EXCEPT !.client = NoClient])
  BY <1>0, <1>a DEF IhmTypeOK
<1>c. hd' \in [Ids -> HandlerRecord]
  <2>1. hd \in [Ids -> HandlerRecord] /\ hd[k] \in HandlerRecord BY <1>a DEF IhmTypeOK
  <2>2. [hd[k] EXCEPT !.client = NoClient] \in HandlerRecord BY <2>1 DEF HandlerRecord, NoClient
  <2> QED BY <1>0, <1>a, <2>1, <2>2
<1>d. \A i \in DOMAIN m_IsoHandlers : m_IsoHandlers[i] \in Ids BY DEF IhmTypeOK
<1>e. \A j \in Ids : hd[j] \in HandlerRecord BY DEF IhmTypeOK
<1>2. IhmTypeOK' BY <1>1, <1>c DEF IhmTypeOK
<1>3. Beginning' BY <1>1 DEF Beginning, At
<1>4. ListIsSound'
  <2>1. \A j \in Ids : /\ hd'[j].alive = hd[j].alive /\ hd'[j].type = hd[j].type
                       /\ hd'[j].client \in {hd[j].client, NoClient}
    BY <1>b, <1>e DEF HandlerRecord
  <2> QED BY <1>1, <1>d, <2>1, ListKept
<1>5. ClientIsSound' BY <1>1 DEF ClientIsSound, Streams
<1>6. ResetIsSound' BY <1>1 DEF ResetIsSound
<1>7. AllTasks'
  <2>1. \A u \in IsoTasks : Awaited(u) => Awaited(u)' BY <1>1 DEF Awaited
  <2>2. \A u \in IsoTasks : \A j \in Ids : HandlerKept(u, j)
    BY <1>b, <1>e DEF HandlerKept, HandlerRecord
  <2> QED BY <1>1, <1>d, <2>1, <2>2, TasksKept
<1> QED BY <1>2, <1>3, <1>4, <1>5, <1>6, <1>7

\* The arithmetic of the positions before (m) and after (l) position i of n.
Around(n, i, m, l) ==
  /\ \A j \in 1..(n - i) : j \in 1..(n - l + 1) /\ l + j - 1 = i + j
  /\ (IF l <= n THEN n - l + 1 ELSE 0) = n - i
  /\ m + (n - i) = n - 1
  /\ \A j \in 1..(n - 1) : j < i => j <= m /\ j \in 1..m
  /\ \A j \in 1..(n - 1) : ~(j < i) =>
       ~(j <= m) /\ j - m \in 1..(n - i) /\ i + (j - m) = j + 1

\* The positions before and after a position satisfy it.
LEMMA AroundHolds ==
  ASSUME NEW n \in Nat, NEW i \in 1..n, NEW m \in Nat, NEW l \in Nat, m = i - 1, l = i + 1
  PROVE  Around(n, i, m, l)
<1>1. \A j \in 1..(n - i) : j \in 1..(n - l + 1) /\ l + j - 1 = i + j OBVIOUS
<1>2. (IF l <= n THEN n - l + 1 ELSE 0) = n - i OBVIOUS
<1>3. m + (n - i) = n - 1 OBVIOUS
<1>4. \A j \in 1..(n - 1) : j < i => j <= m /\ j \in 1..m OBVIOUS
<1>5. \A j \in 1..(n - 1) : ~(j < i) =>
        ~(j <= m) /\ j - m \in 1..(n - i) /\ i + (j - m) = j + 1 OBVIOUS
<1> QED BY <1>1, <1>2, <1>3, <1>4, <1>5 DEF Around

\* A sequence without its element at position i.
LEMMA RemovedAt ==
  ASSUME NEW S, NEW s \in Seq(S), NEW i \in DOMAIN s
  PROVE  /\ RemoveAt(s, i) \in Seq(S)
         /\ Len(RemoveAt(s, i)) = Len(s) - 1
         /\ \A j \in 1..(Len(s) - 1) : RemoveAt(s, i)[j] = IF j < i THEN s[j] ELSE s[j + 1]
<1>1. PICK n \in Nat : n = Len(s) /\ DOMAIN s = 1..n OBVIOUS
<1>2. PICK m \in Nat, l \in Nat : m = i - 1 /\ l = i + 1 /\ m < n /\ l <= n + 1 BY <1>1
<1>a. Around(n, i, m, l)
  <2>1. i \in 1..n BY <1>1
  <2> QED BY <1>2, <2>1, AroundHolds
<1>3. /\ SubSeq(s, 1, m) \in Seq(S) /\ Len(SubSeq(s, 1, m)) = m
      /\ \A j \in 1..m : SubSeq(s, 1, m)[j] = s[j]
  <2>1. \A j \in 1..m : s[j] \in S BY <1>1, <1>2
  <2>2. /\ SubSeq(s, 1, m) \in Seq(S)
        /\ Len(SubSeq(s, 1, m)) = IF 1 <= m THEN m - 1 + 1 ELSE 0
        /\ \A j \in 1..(m - 1 + 1) : SubSeq(s, 1, m)[j] = s[1 + j - 1]
    BY <2>1, SubSeqProperties
  <2>3. \A j \in 1..m : j \in 1..(m - 1 + 1) /\ 1 + j - 1 = j OBVIOUS
  <2> QED BY <2>2, <2>3
<1>4. /\ SubSeq(s, l, n) \in Seq(S) /\ Len(SubSeq(s, l, n)) = n - i
      /\ \A j \in 1..(n - i) : SubSeq(s, l, n)[j] = s[i + j]
  <2>1. \A j \in l..n : s[j] \in S BY <1>1, <1>2
  <2>2. /\ SubSeq(s, l, n) \in Seq(S)
        /\ Len(SubSeq(s, l, n)) = IF l <= n THEN n - l + 1 ELSE 0
        /\ \A j \in 1..(n - l + 1) : SubSeq(s, l, n)[j] = s[l + j - 1]
    BY <2>1, SubSeqProperties
  <2>3. \A j \in 1..(n - i) : j \in 1..(n - l + 1) /\ l + j - 1 = i + j BY <1>a DEF Around
  <2>4. (IF l <= n THEN n - l + 1 ELSE 0) = n - i BY <1>a DEF Around
  <2> QED BY <2>2, <2>3, <2>4
<1>5. PICK a \in Seq(S), b \in Seq(S) : a = SubSeq(s, 1, m) /\ b = SubSeq(s, l, n) BY <1>3, <1>4
<1>6. RemoveAt(s, i) = a \o b BY <1>1, <1>2, <1>5, SMTT(20) DEF RemoveAt
<1>7. /\ a \o b \in Seq(S) /\ Len(a \o b) = Len(a) + Len(b)
      /\ \A j \in 1..(Len(a) + Len(b)) : (a \o b)[j] = IF j <= Len(a) THEN a[j] ELSE b[j - Len(a)]
  BY ConcatProperties
<1>8. Len(a) = m /\ Len(b) = n - i /\ m + (n - i) = n - 1
  <2>1. Len(a) = m /\ Len(b) = n - i BY <1>3, <1>4, <1>5
  <2>2. m + (n - i) = n - 1 BY <1>a DEF Around
  <2> QED BY <2>1, <2>2
<1>9. ASSUME NEW j \in 1..(n - 1)
      PROVE  (a \o b)[j] = IF j < i THEN s[j] ELSE s[j + 1]
  <2>0. (a \o b)[j] = IF j <= m THEN a[j] ELSE b[j - m] BY <1>7, <1>8
  <2>1. CASE j < i
    <3>1. j <= m /\ j \in 1..m BY <2>1, <1>a DEF Around
    <3> QED BY <2>0, <2>1, <3>1, <1>3, <1>5
  <2>2. CASE ~(j < i)
    <3>1. ~(j <= m) /\ j - m \in 1..(n - i) /\ i + (j - m) = j + 1 BY <2>2, <1>a DEF Around
    <3> QED BY <2>0, <2>2, <3>1, <1>4, <1>5
  <2> QED BY <2>1, <2>2
<1> QED BY <1>1, <1>6, <1>7, <1>8, <1>9

\* A request for every task.
LEMMA AllCounted ==
  ASSUME IhmTypeOK, AllTasks, tsk' = requestShadowMapUpdate(IsoTasks)
  PROVE  AllTasks'
BY RequestChange, Counted DEF AllTasks

\* What the counting of requests leaves of the state of the tasks.
LEMMA CountedShape ==
  ASSUME IhmTypeOK, NEW ts, tsk' = requestShadowMapUpdate(ts)
  PROVE  /\ DOMAIN tsk' = IsoTasks
         /\ \A t \in IsoTasks :
              /\ DOMAIN tsk'[t] = TaskFields
              /\ tsk'[t].req \in Nat /\ tsk'[t].map \in Seq(Ids) /\ tsk'[t].new \in Seq(Ids)
              /\ tsk'[t].i \in Nat \ {0}
              /\ tsk'[t].pc = tsk[t].pc /\ tsk'[t].in_busreset = tsk[t].in_busreset
<1>1. DOMAIN tsk' = IsoTasks BY RequestChange
<1>2. ASSUME NEW t \in IsoTasks
      PROVE  /\ DOMAIN tsk'[t] = TaskFields
             /\ tsk'[t].req \in Nat /\ tsk'[t].map \in Seq(Ids) /\ tsk'[t].new \in Seq(Ids)
             /\ tsk'[t].i \in Nat \ {0}
             /\ tsk'[t].pc = tsk[t].pc /\ tsk'[t].in_busreset = tsk[t].in_busreset
  <2>1. SameTask(t) \/ CountedTask(t) BY RequestChange
  <2>2. tsk'[t].in_busreset = tsk[t].in_busreset BY RequestChange
  <2>3. tsk[t].req + 1 \in Nat BY DEF IhmTypeOK
  <2> QED BY <2>1, <2>2, <2>3 DEF IhmTypeOK, SameTask, CountedTask
<1> QED BY <1>1, <1>2

LEMMA PruneStep ==
  ASSUME IhmSound, AllTasks, pruneHandlers, UNCHANGED <<types, rst>>
  PROVE  IhmSound' /\ AllTasks'
<1> USE DEF IhmSound
<1>0. cli.pc = "prune" /\ UNCHANGED <<types, rst, hd>> BY DEF pruneHandlers, ClientAt
<1>n. \A t \in IsoTasks : tsk[t].pc # "init" BY <1>0 DEF Beginning, At
<1>1. CASE /\ cli' = IF cli.op = "register" THEN [cli EXCEPT !.pc = "create"] ELSE Idle
           /\ UNCHANGED <<m_IsoHandlers, tsk>>
  <2>1. IhmTypeOK' BY <1>0, <1>1 DEF IhmTypeOK
  <2>2. Beginning' BY <1>0, <1>1, <1>n DEF Beginning, At
  <2>3. ListIsSound' BY <1>0, <1>1 DEF ListIsSound, Listed
  <2>4. ClientIsSound'
    <3>1. CASE cli' = Idle BY <3>1 DEF Idle, ClientIsSound
    <3>2. CASE cli' = [cli EXCEPT !.pc = "create"] BY <1>0, <3>2 DEF ClientIsSound
    <3> QED BY <1>1, <3>1, <3>2
  <2>5. ResetIsSound' BY <1>0, <1>1 DEF ResetIsSound
  <2>6. AllTasks'
    <3>1. \A u \in IsoTasks : Awaited(u) => Awaited(u)' BY <1>0, <1>1 DEF Awaited
    <3>2. \A u \in IsoTasks : \A i \in DOMAIN m_IsoHandlers : HandlerKept(u, m_IsoHandlers[i])
      BY <1>0 DEF HandlerKept
    <3> QED BY <1>1, <3>1, <3>2, TasksKept
  <2> QED BY <2>1, <2>2, <2>3, <2>4, <2>5, <2>6
<1>2. ASSUME NEW i \in Unused, m_IsoHandlers' = RemoveAt(m_IsoHandlers, i),
             tsk' = requestShadowMapUpdate(IsoTasks),
             cli' = [cli EXCEPT !.pc = "lock", !.h = m_IsoHandlers[i]]
      PROVE  IhmSound' /\ AllTasks'
  <2>1. i \in DOMAIN m_IsoHandlers BY DEF Unused
  <2>2. PICK n \in Nat : n = Len(m_IsoHandlers) /\ DOMAIN m_IsoHandlers = 1..n BY DEF IhmTypeOK
  <2>3. /\ m_IsoHandlers' \in Seq(Ids) /\ Len(m_IsoHandlers') = n - 1
        /\ \A j \in 1..(n - 1) : m_IsoHandlers'[j] = IF j < i THEN m_IsoHandlers[j] ELSE m_IsoHandlers[j + 1]
    BY <1>2, <2>1, <2>2, RemovedAt DEF IhmTypeOK
  <2>4. DOMAIN m_IsoHandlers' = 1..(n - 1) BY <2>2, <2>3
  <2>5. IhmTypeOK' BY <1>0, <1>2, <2>3, CountedShape DEF IhmTypeOK
  <2>6. Beginning' BY <1>n, <1>2, CountedShape DEF Beginning, At
  <2>7. ListIsSound'
    <3>1. ASSUME NEW j \in 1..(n - 1) PROVE Listed(m_IsoHandlers'[j])
      <4>1. PICK l \in 1..n : m_IsoHandlers'[j] = m_IsoHandlers[l]
        <5>1. j \in 1..n /\ j + 1 \in 1..n OBVIOUS
        <5> QED BY <5>1, <2>3
      <4> QED BY <4>1, <2>2 DEF ListIsSound
    <3>2. \A j, k \in 1..(n - 1) : m_IsoHandlers'[j] = m_IsoHandlers'[k] => j = k
      <4> TAKE j, k \in 1..(n - 1)
      <4>1. \A x, y \in 1..n : m_IsoHandlers[x] = m_IsoHandlers[y] => x = y BY <2>2 DEF ListIsSound
      <4> QED BY <4>1, <2>1, <2>2, <2>3, SMTT(20)
    <3>3. \A j \in DOMAIN m_IsoHandlers' : Listed(m_IsoHandlers'[j]) BY <3>1, <2>4
    <3> QED BY <3>2, <3>3, <2>4, <1>0 DEF ListIsSound, Listed
  <2>8. ClientIsSound'
    <3>1. m_IsoHandlers[i] \in Ids BY <2>1 DEF IhmTypeOK
    <3>2. \A j \in 1..(n - 1) : m_IsoHandlers'[j] # m_IsoHandlers[i]
      <4> TAKE j \in 1..(n - 1)
      <4>1. \A x, y \in 1..n : m_IsoHandlers[x] = m_IsoHandlers[y] => x = y BY <2>2 DEF ListIsSound
      <4> QED BY <4>1, <2>1, <2>2, <2>3, SMTT(20)
    <3>3. DOMAIN cli = {"pc", "op", "s", "h"} /\ cli.s \in DOMAIN types BY <1>0 DEF ClientIsSound
    <3>4. DOMAIN cli' = {"pc", "op", "s", "h"} /\ cli'.s = cli.s /\ cli'.h = m_IsoHandlers[i] /\ cli'.pc = "lock"
      BY <1>2, <3>3
    <3> QED BY <3>1, <3>2, <3>3, <3>4, <2>4, <1>0 DEF ClientIsSound
  <2>9. ResetIsSound' BY <1>0, <1>2, CountedShape DEF ResetIsSound
  <2>10. AllTasks' BY <1>2, AllCounted
  <2> QED BY <2>5, <2>6, <2>7, <2>8, <2>9, <2>10
<1> QED BY <1>1, <1>2 DEF pruneHandlers

LEMMA DeleteLockStep ==
  ASSUME IhmSound, AllTasks, delete_lock, UNCHANGED <<types, rst>>
  PROVE  IhmSound' /\ AllTasks'
<1> USE DEF IhmSound
<1>1. cli.pc = "lock" /\ cli' = [cli EXCEPT !.pc = "delete"] /\ UNCHANGED <<types, rst, hd, tsk, m_IsoHandlers>>
  BY DEF delete_lock, ClientAt, ClientTo
<1>2. IhmTypeOK' BY <1>1 DEF IhmTypeOK
<1>3. Beginning' BY <1>1 DEF Beginning, At
<1>4. ListIsSound' BY <1>1 DEF ListIsSound, Listed
<1>5. ClientIsSound' BY <1>1 DEF ClientIsSound
<1>6. ResetIsSound' BY <1>1 DEF ResetIsSound
<1>7. AllTasks'
  <2>1. \A u \in IsoTasks : Awaited(u) => Awaited(u)' BY <1>1 DEF Awaited
  <2>2. \A u \in IsoTasks : \A i \in DOMAIN m_IsoHandlers : HandlerKept(u, m_IsoHandlers[i])
    BY <1>1 DEF HandlerKept
  <2> QED BY <1>1, <2>1, <2>2, TasksKept
<1> QED BY <1>2, <1>3, <1>4, <1>5, <1>6, <1>7

\* What is deleted is in no list, so no task has it in a map that counts.
LEMMA DeleteStep ==
  ASSUME IhmSound, AllTasks, delete, UNCHANGED <<types, rst>>
  PROVE  IhmSound' /\ AllTasks'
<1> USE DEF IhmSound
<1>1. cli.pc = "delete" /\ cli' = [cli EXCEPT !.pc = "prune", !.h = NoHandler]
      /\ hd' = [hd EXCEPT ![cli.h].alive = FALSE] /\ UNCHANGED <<types, rst, tsk, m_IsoHandlers>>
  BY DEF delete, ClientAt
<1>a. cli.h \in Ids /\ \A i \in DOMAIN m_IsoHandlers : m_IsoHandlers[i] # cli.h BY <1>1 DEF ClientIsSound
<1>b. \A i \in DOMAIN m_IsoHandlers : hd'[m_IsoHandlers[i]] = hd[m_IsoHandlers[i]]
  BY <1>1, <1>a DEF IhmTypeOK
<1>c. hd' \in [Ids -> HandlerRecord]
  <2>1. hd \in [Ids -> HandlerRecord] /\ hd[cli.h] \in HandlerRecord BY <1>a DEF IhmTypeOK
  <2>2. [hd[cli.h] EXCEPT !.alive = FALSE] \in HandlerRecord BY <2>1 DEF HandlerRecord
  <2> QED BY <1>1, <1>a, <2>1, <2>2
<1>2. IhmTypeOK' BY <1>1, <1>c DEF IhmTypeOK
<1>3. Beginning' BY <1>1 DEF Beginning, At
<1>4. ListIsSound' BY <1>1, <1>b, ListKept
<1>5. ClientIsSound' BY <1>1 DEF ClientIsSound
<1>6. ResetIsSound' BY <1>1 DEF ResetIsSound
<1>7. AllTasks'
  <2>1. \A u \in IsoTasks : Awaited(u) => Awaited(u)' BY <1>1 DEF Awaited
  <2>2. \A u \in IsoTasks : \A i \in DOMAIN m_IsoHandlers : HandlerKept(u, m_IsoHandlers[i])
    BY <1>b DEF HandlerKept
  <2> QED BY <1>1, <2>1, <2>2, TasksKept
<1> QED BY <1>2, <1>3, <1>4, <1>5, <1>6, <1>7

LEMMA CreateStep ==
  ASSUME IhmSound, AllTasks, create, UNCHANGED <<types, rst>>
  PROVE  IhmSound' /\ AllTasks'
<1> USE DEF IhmSound
<1>0. cli.pc = "create" /\ cli' = Idle /\ UNCHANGED <<types, rst>> BY DEF create, ClientAt
<1>n. \A t \in IsoTasks : tsk[t].pc # "init" BY <1>0 DEF Beginning, At
<1>c. ClientIsSound' BY <1>0 DEF ClientIsSound, Idle
<1>1. CASE UNCHANGED <<m_IsoHandlers, hd, tsk>>
  <2>1. IhmTypeOK' BY <1>0, <1>1 DEF IhmTypeOK
  <2>2. Beginning' BY <1>1, <1>n DEF Beginning, At
  <2>3. ListIsSound' BY <1>0, <1>1 DEF ListIsSound, Listed
  <2>5. ResetIsSound' BY <1>0, <1>1 DEF ResetIsSound
  <2>6. AllTasks'
    <3>1. \A u \in IsoTasks : Awaited(u) => Awaited(u)' BY <1>0, <1>1 DEF Awaited
    <3>2. \A u \in IsoTasks : \A i \in DOMAIN m_IsoHandlers : HandlerKept(u, m_IsoHandlers[i])
      BY <1>1 DEF HandlerKept
    <3> QED BY <1>1, <3>1, <3>2, TasksKept
  <2> QED BY <2>1, <2>2, <2>3, <1>c, <2>5, <2>6
<1>2. ASSUME NEW k \in Ids, hd[k] = Unborn, hd' = [hd EXCEPT ![k] = Registered(cli.s)],
             m_IsoHandlers' = Append(m_IsoHandlers, k), tsk' = requestShadowMapUpdate(IsoTasks)
      PROVE  IhmSound' /\ AllTasks'
  <2>1. PICK n \in Nat : n = Len(m_IsoHandlers) /\ DOMAIN m_IsoHandlers = 1..n BY DEF IhmTypeOK
  <2>2. /\ m_IsoHandlers' \in Seq(Ids) /\ Len(m_IsoHandlers') = n + 1 /\ DOMAIN m_IsoHandlers' = 1..(n + 1)
        /\ m_IsoHandlers'[n + 1] = k /\ \A j \in 1..n : m_IsoHandlers'[j] = m_IsoHandlers[j]
    BY <1>2, <2>1 DEF IhmTypeOK
  <2>3. \A j \in 1..n : m_IsoHandlers[j] # k BY <1>2, <2>1 DEF ListIsSound, Listed, Unborn
  <2>4. cli.s \in DOMAIN types /\ types[cli.s] \in Types /\ cli.s \in Nat /\ cli.s # 0
    BY <1>0 DEF ClientIsSound, IhmTypeOK
  <2>5. /\ Registered(cli.s) \in HandlerRecord /\ Registered(cli.s).type = types[cli.s]
        /\ Registered(cli.s).client = cli.s /\ Registered(cli.s).alive
    BY <2>4 DEF Registered, HandlerRecord, Unborn, NoClient, Types
  <2>6. hd' \in [Ids -> HandlerRecord] /\ hd'[k] = Registered(cli.s) /\ \A j \in Ids : j # k => hd'[j] = hd[j]
    BY <1>2, <2>5 DEF IhmTypeOK
  <2>7. IhmTypeOK' BY <1>0, <1>2, <2>2, <2>6, CountedShape DEF IhmTypeOK
  <2>8. Beginning' BY <1>n, <1>2, CountedShape DEF Beginning, At
  <2>9. ListIsSound'
    <3>1. \A j \in 1..n : m_IsoHandlers[j] \in Ids /\ Listed(m_IsoHandlers[j]) BY <2>1 DEF ListIsSound, IhmTypeOK
    <3>2. \A j \in 1..n : hd'[m_IsoHandlers'[j]] = hd[m_IsoHandlers[j]] BY <2>2, <2>3, <2>6, <3>1
    <3>3. ASSUME NEW j \in 1..(n + 1) PROVE Listed(m_IsoHandlers[j])'
      <4>1. CASE j \in 1..n BY <4>1, <3>1, <3>2, <1>0 DEF Listed
      <4>2. CASE j = n + 1
        <5>1. hd'[m_IsoHandlers'[j]] = Registered(cli.s) BY <4>2, <2>2, <2>6
        <5> QED BY <5>1, <2>4, <2>5, <1>0 DEF Listed, Types
      <4> QED BY <4>1, <4>2
    <3>4. \A x, y \in 1..n : m_IsoHandlers[x] = m_IsoHandlers[y] => x = y BY <2>1 DEF ListIsSound
    <3>5. \A x, y \in 1..(n + 1) : m_IsoHandlers'[x] = m_IsoHandlers'[y] => x = y
      <4> TAKE x, y \in 1..(n + 1)
      <4>1. x \in 1..n \/ x = n + 1 OBVIOUS
      <4>2. y \in 1..n \/ y = n + 1 OBVIOUS
      <4> QED BY <4>1, <4>2, <2>2, <2>3, <3>4
    <3> QED BY <2>2, <3>3, <3>5 DEF ListIsSound
  <2>10. ResetIsSound' BY <1>0, <1>2, CountedShape DEF ResetIsSound
  <2>11. AllTasks' BY <1>2, AllCounted
  <2> QED BY <2>7, <2>8, <2>9, <1>c, <2>10, <2>11
<1> QED BY <1>1, <1>2 DEF create

\* A call that changes what one handler is to do, and will count a request for its task.
LEMMA CalledStep ==
  ASSUME IhmSound, AllTasks, ~LateInit, NEW s \in Streams, NEW k \in HandlerOf(s), NEW op,
         Calls("request", op, s), UNCHANGED <<types, rst, m_IsoHandlers, tsk>>,
         hd' \in [Ids -> HandlerRecord], \A j \in Ids : j # k => hd'[j] = hd[j],
         hd'[k].alive = hd[k].alive, hd'[k].type = hd[k].type, hd'[k].client = hd[k].client
  PROVE  IhmSound' /\ AllTasks'
<1> USE DEF IhmSound
<1>1. cli' = [pc |-> "request", op |-> op, s |-> s, h |-> NoHandler] /\ cli.pc = "idle"
      /\ \A t \in IsoTasks : tsk[t].pc # "init"
  BY DEF Calls, Ready, ClientAt
<1>a. \A i \in DOMAIN m_IsoHandlers : m_IsoHandlers[i] \in Ids BY DEF IhmTypeOK
<1>2. IhmTypeOK' BY DEF IhmTypeOK
<1>3. Beginning' BY <1>1 DEF Beginning, At
<1>4. ListIsSound' BY <1>a, ListKept
<1>5. ClientIsSound' BY <1>1 DEF ClientIsSound, Streams
<1>6. ResetIsSound' BY DEF ResetIsSound
<1>7. ASSUME NEW u \in IsoTasks PROVE TaskIsSound(u)' /\ MapIsKept(u)'
  <2>1. TaskIsSound(u)' BY DEF AllTasks, TaskIsSound, Updating
  <2>2. CASE types[s] = u
    <3>1. Awaited(u)' BY <2>2, <1>1 DEF Awaited
    <3> QED BY <3>1, <2>1 DEF MapIsKept
  <2>3. CASE types[s] # u
    <3>1. hd[k].type = types[s]
      <4>1. PICK i \in DOMAIN m_IsoHandlers : m_IsoHandlers[i] = k BY DEF HandlerOf, ToSet
      <4>2. hd[k].client = s /\ s # NoClient BY DEF HandlerOf, Streams, IhmTypeOK, NoClient
      <4> QED BY <4>1, <4>2 DEF ListIsSound, Listed
    <3>2. \A i \in DOMAIN m_IsoHandlers : HandlerKept(u, m_IsoHandlers[i]) BY <3>1, <2>3, <1>a DEF HandlerKept
    <3>3. Awaited(u) => Awaited(u)' BY <1>1 DEF Awaited
    <3>4. SameTask(u) BY DEF SameTask, IhmTypeOK
    <3> QED BY <3>2, <3>3, <3>4, Frame DEF AllTasks
  <2> QED BY <2>2, <2>3
<1> QED BY <1>2, <1>3, <1>4, <1>5, <1>6, <1>7 DEF AllTasks

LEMMA StartStep ==
  ASSUME IhmSound, AllTasks, ~LateInit, NEW s \in Streams, startHandlerForStream(s), UNCHANGED <<types, rst>>
  PROVE  IhmSound' /\ AllTasks'
<1>1. PICK k \in HandlerOf(s) : /\ Calls("request", "start", s) /\ UNCHANGED <<m_IsoHandlers, tsk>>
                                /\ hd' = [hd EXCEPT ![k].next = "Running", ![k].quiet = FALSE]
  BY DEF startHandlerForStream
<1>2. hd \in [Ids -> HandlerRecord] /\ k \in Ids BY DEF IhmSound, HandlerOf, ToSet, IhmTypeOK
<1>3. /\ hd' \in [Ids -> HandlerRecord] /\ \A j \in Ids : j # k => hd'[j] = hd[j]
      /\ hd'[k].alive = hd[k].alive /\ hd'[k].type = hd[k].type /\ hd'[k].client = hd[k].client
  <2> DEFINE y == [hd[k] EXCEPT !.next = "Running", !.quiet = FALSE]
  <2>1. hd[k] \in HandlerRecord BY <1>2
  <2>2. y \in HandlerRecord /\ y.alive = hd[k].alive /\ y.type = hd[k].type /\ y.client = hd[k].client
    BY <2>1 DEF HandlerRecord
  <2>3. hd' = [hd EXCEPT ![k] = y] BY <1>1, <1>2
  <2> HIDE DEF y
  <2> QED BY <1>2, <2>2, <2>3
<1> QED BY <1>1, <1>3, CalledStep

LEMMA StopStep ==
  ASSUME IhmSound, AllTasks, ~LateInit, NEW s \in Streams, stopHandlerForStream(s), UNCHANGED <<types, rst>>
  PROVE  IhmSound' /\ AllTasks'
<1>1. PICK k \in HandlerOf(s) : /\ Calls("request", "stop", s) /\ UNCHANGED <<m_IsoHandlers, tsk>>
                                /\ hd' = requestDisable(k)
  BY DEF stopHandlerForStream
<1>2. hd \in [Ids -> HandlerRecord] /\ k \in Ids BY DEF IhmSound, HandlerOf, ToSet, IhmTypeOK
<1>3. /\ hd' \in [Ids -> HandlerRecord] /\ \A j \in Ids : j # k => hd'[j] = hd[j]
      /\ hd'[k].alive = hd[k].alive /\ hd'[k].type = hd[k].type /\ hd'[k].client = hd[k].client
  <2> DEFINE y == [hd[k] EXCEPT !.next = "Stopped"]
  <2>1. hd[k] \in HandlerRecord BY <1>2
  <2>2. y \in HandlerRecord /\ y.alive = hd[k].alive /\ y.type = hd[k].type /\ y.client = hd[k].client
    BY <2>1 DEF HandlerRecord
  <2>3. hd' = hd \/ hd' = [hd EXCEPT ![k] = y] BY <1>1, <1>2 DEF requestDisable
  <2> HIDE DEF y
  <2> QED BY <1>2, <2>2, <2>3
<1> QED BY <1>1, <1>3, CalledStep

LEMMA RequestStep ==
  ASSUME IhmSound, AllTasks, request_after, UNCHANGED <<types, rst>>
  PROVE  IhmSound' /\ AllTasks'
<1> USE DEF IhmSound
<1>1. cli.pc = "request" /\ cli' = Idle /\ tsk' = requestShadowMapUpdate({types[cli.s]})
      /\ UNCHANGED <<types, rst, hd, m_IsoHandlers>>
  BY DEF request_after, ClientAt
<1>n. \A t \in IsoTasks : tsk[t].pc # "init" BY <1>1 DEF Beginning, At
<1>2. IhmTypeOK' BY <1>1, CountedShape DEF IhmTypeOK
<1>3. Beginning' BY <1>1, <1>n, CountedShape DEF Beginning, At
<1>4. ListIsSound' BY <1>1 DEF ListIsSound, Listed
<1>5. ClientIsSound' BY <1>1 DEF ClientIsSound, Idle
<1>6. ResetIsSound' BY <1>1, CountedShape DEF ResetIsSound
<1>7. ASSUME NEW u \in IsoTasks PROVE TaskIsSound(u)' /\ MapIsKept(u)'
  <2>1. CASE u = types[cli.s] BY <2>1, <1>1, RequestChange, Counted DEF AllTasks
  <2>2. CASE u # types[cli.s]
    <3>1. SameTask(u) BY <2>2, <1>1, RequestChange
    <3>2. Awaited(u) => Awaited(u)' BY <2>2, <1>1 DEF Awaited
    <3>3. \A i \in DOMAIN m_IsoHandlers : HandlerKept(u, m_IsoHandlers[i]) BY <1>1 DEF HandlerKept
    <3> QED BY <1>1, <3>1, <3>2, <3>3, Frame DEF AllTasks
  <2> QED BY <2>1, <2>2
<1> QED BY <1>2, <1>3, <1>4, <1>5, <1>6, <1>7 DEF AllTasks

LEMMA ClientKeeps ==
  ASSUME IhmSound, AllTasks, ~LateInit, ClientStep
  PROVE  IhmSound' /\ AllTasks'
BY RegisterStep, UnregisterStep, PruneStep, DeleteLockStep, DeleteStep, CreateStep, StartStep, StopStep, RequestStep
   DEF ClientStep

\* A step of the bus reset thread that touches the records of the tasks only by in_busreset and a request.
LEMMA ResetKeeps ==
  ASSUME IhmSound, AllTasks, ~LateInit, ResetStep
  PROVE  IhmSound' /\ AllTasks'
<1> USE DEF IhmSound
<1>0. UNCHANGED <<types, m_IsoHandlers, hd, cli>> BY DEF ResetStep
<1>a. ListIsSound' BY <1>0 DEF ListIsSound, Listed
<1>b. ClientIsSound' BY <1>0 DEF ClientIsSound
<1>c. \A u \in IsoTasks : \A i \in DOMAIN m_IsoHandlers : HandlerKept(u, m_IsoHandlers[i])
  BY <1>0 DEF HandlerKept
<1>1. CASE manager_handleBusReset
  <2>1. /\ rst.pc = "idle" /\ tsk' = tsk /\ \A t \in IsoTasks : tsk[t].pc # "init"
        /\ rst' = [rst EXCEPT !.pc = "begin", !.left = <<"Transmit", "Receive">>]
    BY <1>1 DEF manager_handleBusReset, Ready
  <2>2. /\ DOMAIN rst' = {"pc", "left", "i", "max"} /\ rst'.pc = "begin"
        /\ rst'.left = <<"Transmit", "Receive">>
    BY <2>1 DEF ResetIsSound
  <2>3. <<"Transmit", "Receive">> \in Seq(Types) BY DEF Types
  <2>4. ResetIsSound' BY <2>1, <2>2, <2>3 DEF ResetIsSound
  <2>5. IhmTypeOK' BY <1>0, <2>1 DEF IhmTypeOK
  <2>6. Beginning' BY <2>1 DEF Beginning, At
  <2>7. \A u \in IsoTasks : Awaited(u) => Awaited(u)' BY <1>0, <2>1 DEF Awaited
  <2> QED BY <1>0, <1>a, <1>b, <1>c, <2>1, <2>4, <2>5, <2>6, <2>7, TasksKept
<1>2. CASE busReset_begin /\ rst.left = <<>>
  <2>1. rst.pc = "begin" /\ rst' = [rst EXCEPT !.pc = "idle"] /\ tsk' = tsk BY <1>2 DEF busReset_begin
  <2>2. DOMAIN rst' = {"pc", "left", "i", "max"} /\ rst'.pc = "idle" /\ rst'.left = rst.left
    BY <2>1 DEF ResetIsSound
  <2>4. ResetIsSound' BY <2>1, <2>2 DEF ResetIsSound
  <2>5. IhmTypeOK' BY <1>0, <2>1 DEF IhmTypeOK
  <2>6. Beginning' BY <1>0, <2>1, <2>2 DEF Beginning, At
  <2>7. \A u \in IsoTasks : Awaited(u) => Awaited(u)' BY <1>0, <2>1 DEF Awaited
  <2> QED BY <1>0, <1>a, <1>b, <1>c, <2>1, <2>4, <2>5, <2>6, <2>7, TasksKept
<1>3. CASE busReset_begin /\ rst.left # <<>> /\ ~Runs(rst.left[1])
  <2>1. rst.pc = "begin" /\ rst' = [rst EXCEPT !.left = Tail(@)] /\ tsk' = tsk BY <1>3 DEF busReset_begin
  <2>2. DOMAIN rst' = {"pc", "left", "i", "max"} /\ rst'.pc = "begin" /\ rst'.left = Tail(rst.left)
    BY <2>1 DEF ResetIsSound
  <2>3. Tail(rst.left) \in Seq(Types) BY <1>3 DEF ResetIsSound
  <2>4. ResetIsSound' BY <2>1, <2>2, <2>3 DEF ResetIsSound
  <2>5. IhmTypeOK' BY <1>0, <2>1 DEF IhmTypeOK
  <2>6. Beginning' BY <1>0, <2>1, <2>2 DEF Beginning, At
  <2>7. \A u \in IsoTasks : Awaited(u) => Awaited(u)' BY <1>0, <2>1 DEF Awaited
  <2> QED BY <1>0, <1>a, <1>b, <1>c, <2>1, <2>4, <2>5, <2>6, <2>7, TasksKept
<1>4. CASE busReset_begin /\ rst.left # <<>> /\ Runs(rst.left[1])
  <2>0. PICK t \in IsoTasks : t = rst.left[1] BY <1>4 DEF Runs
  <2>1. /\ rst.pc = "begin" /\ rst' = [rst EXCEPT !.pc = "walk", !.i = 1, !.max = Len(m_IsoHandlers)]
        /\ tsk' = [requestShadowMapUpdate({t}) EXCEPT ![t].in_busreset = TRUE]
    BY <1>4, <2>0 DEF busReset_begin
  <2>2. DOMAIN rst' = {"pc", "left", "i", "max"} /\ rst'.pc = "walk" /\ rst'.left = rst.left
    BY <2>1 DEF ResetIsSound
  <2>3. /\ DOMAIN tsk' = IsoTasks /\ CountedTask(t) /\ \A u \in IsoTasks : u # t => tsk'[u] = tsk[u]
    BY <2>1 DEF requestShadowMapUpdate, IhmTypeOK, CountedTask, TaskFields
  <2>4. ResetIsSound'
    <3>1. \A u \in IsoTasks : u # t => ~tsk'[u].in_busreset BY <2>1, <2>3 DEF ResetIsSound
    <3> QED BY <3>1, <2>0, <2>2, <1>4 DEF ResetIsSound
  <2>5. IhmTypeOK'
    <3>1. tsk[t].req + 1 \in Nat BY DEF IhmTypeOK
    <3> QED BY <1>0, <2>3, <3>1 DEF IhmTypeOK, CountedTask
  <2>6. Beginning'
    <3>1. \A u \in IsoTasks : tsk'[u].pc = tsk[u].pc BY <2>3 DEF CountedTask
    <3>2. \A u \in IsoTasks : tsk[u].pc # "init" BY <2>1 DEF Beginning, At
    <3> QED BY <3>1, <3>2 DEF Beginning, At
  <2>7. ASSUME NEW u \in IsoTasks PROVE TaskIsSound(u)' /\ MapIsKept(u)'
    <3>1. CASE u = t BY <3>1, <2>3, Counted DEF AllTasks
    <3>2. CASE u # t
      <4>1. SameTask(u) BY <3>2, <2>3 DEF SameTask, IhmTypeOK
      <4>2. Awaited(u) => Awaited(u)' BY <1>0, <2>1 DEF Awaited
      <4> QED BY <1>0, <1>c, <4>1, <4>2, Frame DEF AllTasks
    <3> QED BY <3>1, <3>2
  <2> QED BY <1>a, <1>b, <2>4, <2>5, <2>6, <2>7 DEF AllTasks
<1>5. CASE busReset_walk
  <2>1. rst.pc = "walk" /\ rst' = [rst EXCEPT !.i = @ + 1] /\ tsk' = tsk BY <1>5 DEF busReset_walk
  <2>2. DOMAIN rst' = {"pc", "left", "i", "max"} /\ rst'.pc = "walk" /\ rst'.left = rst.left
    BY <2>1 DEF ResetIsSound
  <2>4. ResetIsSound' BY <2>1, <2>2 DEF ResetIsSound
  <2>5. IhmTypeOK' BY <1>0, <2>1 DEF IhmTypeOK
  <2>6. Beginning' BY <1>0, <2>1, <2>2 DEF Beginning, At
  <2>7. \A u \in IsoTasks : Awaited(u) => Awaited(u)' BY <1>0, <2>1, <2>2 DEF Awaited
  <2> QED BY <1>0, <1>a, <1>b, <1>c, <2>1, <2>4, <2>5, <2>6, <2>7, TasksKept
<1>6. CASE busReset_end
  <2>1. /\ rst.pc = "walk" /\ rst' = [rst EXCEPT !.pc = "request", !.i = 1, !.max = 0]
        /\ tsk' = [tsk EXCEPT ![rst.left[1]].in_busreset = FALSE]
    BY <1>6 DEF busReset_end
  <2>2. DOMAIN rst' = {"pc", "left", "i", "max"} /\ rst'.pc = "request" /\ rst'.left = rst.left
    BY <2>1 DEF ResetIsSound
  <2>3. /\ DOMAIN tsk' = IsoTasks
        /\ \A u \in IsoTasks : SameTask(u) /\ (u # rst.left[1] => tsk'[u] = tsk[u])
        /\ \A u \in IsoTasks : u = rst.left[1] => ~tsk'[u].in_busreset
    BY <2>1 DEF SameTask, IhmTypeOK, TaskFields
  <2>4. ResetIsSound'
    <3>1. \A u \in IsoTasks : ~tsk'[u].in_busreset BY <2>3 DEF ResetIsSound
    <3> QED BY <3>1, <2>1, <2>2 DEF ResetIsSound
  <2>5. IhmTypeOK' BY <1>0, <2>3 DEF IhmTypeOK, SameTask
  <2>6. Beginning' BY <1>0, <2>1, <2>2, <2>3 DEF Beginning, At, SameTask
  <2>7. \A u \in IsoTasks : Awaited(u) => Awaited(u)' BY <1>0, <2>1, <2>2 DEF Awaited
  <2>8. AllTasks' BY <1>0, <1>c, <2>3, <2>7, Frame DEF AllTasks
  <2> QED BY <1>a, <1>b, <2>4, <2>5, <2>6, <2>8
<1>7. CASE busReset_request
  <2>1. /\ rst.pc = "request" /\ rst' = [rst EXCEPT !.pc = "begin", !.left = Tail(@)]
        /\ tsk' = requestShadowMapUpdate({rst.left[1]})
    BY <1>7 DEF busReset_request
  <2>2. DOMAIN rst' = {"pc", "left", "i", "max"} /\ rst'.pc = "begin" /\ rst'.left = Tail(rst.left)
    BY <2>1 DEF ResetIsSound
  <2>3. Tail(rst.left) \in Seq(Types) BY <2>1 DEF ResetIsSound
  <2>4. ResetIsSound'
    <3>1. \A u \in IsoTasks : ~tsk'[u].in_busreset BY <2>1, CountedShape DEF ResetIsSound
    <3> QED BY <3>1, <2>2, <2>3 DEF ResetIsSound
  <2>5. IhmTypeOK' BY <1>0, <2>1, CountedShape DEF IhmTypeOK
  <2>6. Beginning' BY <1>0, <2>1, CountedShape DEF Beginning, At
  <2>7. ASSUME NEW u \in IsoTasks PROVE TaskIsSound(u)' /\ MapIsKept(u)'
    <3>1. CASE u = rst.left[1] BY <3>1, <2>1, RequestChange, Counted DEF AllTasks
    <3>2. CASE u # rst.left[1]
      <4>1. SameTask(u) BY <3>2, <2>1, RequestChange
      <4>2. Awaited(u) => Awaited(u)' BY <1>0, <2>1, <3>2 DEF Awaited
      <4> QED BY <1>0, <1>c, <4>1, <4>2, Frame DEF AllTasks
    <3> QED BY <3>1, <3>2
  <2> QED BY <1>a, <1>b, <2>4, <2>5, <2>6, <2>7 DEF AllTasks
<1>8. busReset_begin => rst.left = <<>> \/ (rst.left # <<>> /\ ~Runs(rst.left[1])) \/ (rst.left # <<>> /\ Runs(rst.left[1]))
  BY DEF busReset_begin
<1> QED BY <1>1, <1>2, <1>3, <1>4, <1>5, <1>6, <1>7, <1>8 DEF ResetStep

\* Activity that is signalled for another reason.
LEMMA SignalKeeps ==
  ASSUME IhmSound, AllTasks, signalActivity
  PROVE  IhmSound' /\ AllTasks'
<1> USE DEF IhmSound
<1>0. UNCHANGED <<types, m_IsoHandlers, hd, cli, rst>> BY DEF signalActivity
<1>1. PICK t \in IsoTasks : Task(t, [sem |-> tsk[t].sem + 1]) BY DEF signalActivity
<1>2. DOMAIN tsk' = IsoTasks /\ \A u \in IsoTasks : SameTask(u) /\ tsk'[u].in_busreset = tsk[u].in_busreset
  <2>1. DOMAIN tsk' = IsoTasks BY <1>1, TaskChange
  <2>2. \A u \in IsoTasks : u # t => SameTask(u) /\ tsk'[u].in_busreset = tsk[u].in_busreset
    <3>1. \A u \in IsoTasks : u # t => tsk'[u] = tsk[u] BY <1>1, TaskChange
    <3> QED BY <3>1 DEF SameTask, IhmTypeOK
  <2>3. SameTask(t) /\ tsk'[t].in_busreset = tsk[t].in_busreset
    BY <1>1, TaskChange DEF SameTask, TaskFields
  <2> QED BY <2>1, <2>2, <2>3
<1>3. IhmTypeOK' BY <1>0, <1>2 DEF IhmTypeOK, SameTask
<1>4. Beginning' BY <1>0, <1>2 DEF Beginning, At, SameTask
<1>5. ListIsSound' BY <1>0 DEF ListIsSound, Listed
<1>6. ClientIsSound' BY <1>0 DEF ClientIsSound
<1>7. ResetIsSound' BY <1>0, <1>2 DEF ResetIsSound
<1>8. AllTasks'
  <2>1. \A u \in IsoTasks : Awaited(u) => Awaited(u)' BY <1>0 DEF Awaited
  <2>2. \A u \in IsoTasks : \A i \in DOMAIN m_IsoHandlers : HandlerKept(u, m_IsoHandlers[i])
    BY <1>0 DEF HandlerKept
  <2> QED BY <1>0, <1>2, <2>1, <2>2, Frame DEF AllTasks
<1> QED BY <1>3, <1>4, <1>5, <1>6, <1>7, <1>8

\* A step of task t: the rest of the state, when the step changes the handlers only as said.
LEMMA TaskKeeps ==
  ASSUME IhmSound, AllTasks, NEW t \in IsoTasks, NEW change, Task(t, change),
         UNCHANGED <<types, m_IsoHandlers, cli, rst>>,
         "in_busreset" \notin DOMAIN change,
         tsk'[t].pc # "init", tsk'[t].req \in Nat, tsk'[t].map \in Seq(Ids), tsk'[t].new \in Seq(Ids),
         tsk'[t].i \in Nat \ {0},
         hd' \in [Ids -> HandlerRecord],
         \A j \in Ids : hd'[j].alive = hd[j].alive /\ hd'[j].type = hd[j].type /\ hd'[j].client = hd[j].client,
         \A u \in IsoTasks : u # t => \A j \in Ids : HandlerKept(u, j),
         TaskIsSound(t)', MapIsKept(t)'
  PROVE  IhmSound' /\ AllTasks'
<1> USE DEF IhmSound
<1>1. /\ DOMAIN tsk' = IsoTasks /\ DOMAIN tsk'[t] = TaskFields
      /\ \A u \in IsoTasks : u # t => tsk'[u] = tsk[u]
      /\ tsk'[t].in_busreset = tsk[t].in_busreset
  BY TaskChange DEF TaskFields
<1>2. \A i \in DOMAIN m_IsoHandlers : m_IsoHandlers[i] \in Ids BY DEF IhmTypeOK
<1>3. IhmTypeOK' BY <1>1 DEF IhmTypeOK
<1>4. Beginning' BY <1>1 DEF Beginning, At
<1>5. ListIsSound' BY <1>2, ListKept
<1>6. ClientIsSound' BY DEF ClientIsSound
<1>7. ResetIsSound' BY <1>1 DEF ResetIsSound
<1>8. ASSUME NEW u \in IsoTasks, u # t PROVE TaskIsSound(u)' /\ MapIsKept(u)'
  <2>1. SameTask(u) BY <1>1, <1>8 DEF SameTask, IhmTypeOK
  <2>2. Awaited(u) => Awaited(u)' BY DEF Awaited
  <2>3. \A i \in DOMAIN m_IsoHandlers : HandlerKept(u, m_IsoHandlers[i]) BY <1>2, <1>8
  <2> QED BY <2>1, <2>2, <2>3, Frame DEF AllTasks
<1> QED BY <1>3, <1>4, <1>5, <1>6, <1>7, <1>8 DEF AllTasks

\* The same when the handlers stay as they are.
LEMMA TaskAlone ==
  ASSUME IhmSound, AllTasks, NEW t \in IsoTasks, NEW change, Task(t, change),
         UNCHANGED <<types, m_IsoHandlers, cli, rst, hd>>,
         "in_busreset" \notin DOMAIN change,
         tsk'[t].pc # "init", tsk'[t].req \in Nat, tsk'[t].map \in Seq(Ids), tsk'[t].new \in Seq(Ids),
         tsk'[t].i \in Nat \ {0}, TaskIsSound(t)', MapIsKept(t)'
  PROVE  IhmSound' /\ AllTasks'
<1>1. /\ hd' \in [Ids -> HandlerRecord] /\ \A u \in IsoTasks : u # t => \A j \in Ids : HandlerKept(u, j)
      /\ \A j \in Ids : hd'[j].alive = hd[j].alive /\ hd'[j].type = hd[j].type /\ hd'[j].client = hd[j].client
  BY DEF IhmSound, IhmTypeOK, HandlerKept
<1> QED BY <1>1, TaskKeeps

\* Between two updates: the map stays, and no handler is set running.
LEMMA Polls ==
  ASSUME NEW t \in IsoTasks, MapIsKept(t), ~Updating(t), ~Updating(t)',
         tsk'[t].req = tsk[t].req, tsk'[t].map = tsk[t].map, UNCHANGED <<types, m_IsoHandlers, cli, rst>>,
         \A i \in DOMAIN m_IsoHandlers : HandlerKept(t, m_IsoHandlers[i])
  PROVE  MapIsKept(t)'
<1>1. Awaited(t)' = Awaited(t) BY DEF Awaited
<1>2. \A i \in DOMAIN m_IsoHandlers : \A s : Seen(t, m_IsoHandlers[i], s) => Seen(t, m_IsoHandlers[i], s)'
  BY DEF HandlerKept, Seen, Settled, isEnabled
<1>3. Current(t) => Current(t)' BY <1>2 DEF Current
<1> QED BY <1>1, <1>3 DEF MapIsKept

\* Steps of the poll loop that change neither the map nor a handler.
PollFields == {"sem", "running", "pc", "i", "h", "died", "ret"}
LEMMA PollKeeps ==
  ASSUME IhmSound, AllTasks, NEW t \in IsoTasks, NEW change, Task(t, change),
         UNCHANGED <<types, m_IsoHandlers, cli, rst, hd>>,
         DOMAIN change \subseteq PollFields, tsk'[t].i \in Nat \ {0},
         tsk[t].pc \in {"loop", "setup", "wait", "poll", "deaths", "iterate", "notify"},
         tsk'[t].pc \in {"loop", "setup", "wait", "poll", "deaths", "iterate", "ended"}
  PROVE  IhmSound' /\ AllTasks'
<1>1. tsk'[t].req = tsk[t].req /\ tsk'[t].map = tsk[t].map /\ tsk'[t].new = tsk[t].new
  BY TaskChange DEF TaskFields, PollFields, IhmSound
<1>2. tsk[t].req \in Nat /\ tsk[t].map \in Seq(Ids) /\ tsk[t].new \in Seq(Ids) BY DEF IhmSound, IhmTypeOK
<1>3. ~Updating(t) /\ ~Updating(t)' BY DEF Updating
<1>4. TaskIsSound(t)' BY <1>3 DEF TaskIsSound
<1>5. \A i \in DOMAIN m_IsoHandlers : HandlerKept(t, m_IsoHandlers[i]) BY DEF HandlerKept
<1>6. MapIsKept(t)' BY <1>1, <1>3, <1>5, Polls DEF AllTasks
<1>7. "in_busreset" \notin DOMAIN change /\ tsk'[t].pc # "init" BY DEF PollFields
<1> QED BY <1>1, <1>2, <1>4, <1>6, <1>7, TaskAlone

TaskFrame == UNCHANGED <<types, m_IsoHandlers, cli, rst>>

\* The steps of a task.
LEMMA TaskInitStep ==
  ASSUME IhmSound, AllTasks, NEW t \in IsoTasks, TaskInit(t), TaskFrame
  PROVE  IhmSound' /\ AllTasks'
<1> DEFINE c == [req |-> 0, sem |-> 0, map |-> <<>>, running |-> TRUE, pc |-> "loop"]
<1>1. Task(t, c) /\ hd' = hd /\ tsk[t].pc = "init" BY DEF TaskInit, At
<1>2. m_IsoHandlers = <<>> BY <1>1 DEF IhmSound, Beginning, At
<1>3. /\ tsk'[t].req = 0 /\ tsk'[t].map = <<>> /\ tsk'[t].pc = "loop" /\ tsk'[t].new = tsk[t].new
      /\ tsk'[t].i = tsk[t].i
  BY <1>1, TaskChange DEF TaskFields, IhmSound
<1>4. TaskIsSound(t)' BY <1>3 DEF TaskIsSound, Updating
<1>5. MapIsKept(t)' BY <1>2, <1>3 DEF MapIsKept, Updating, Current, TaskFrame
<1>6. "in_busreset" \notin DOMAIN c OBVIOUS
<1>7. tsk'[t].map \in Seq(Ids) /\ tsk'[t].new \in Seq(Ids) /\ tsk'[t].i \in Nat \ {0}
  BY <1>3 DEF IhmSound, IhmTypeOK
<1>8. tsk'[t].pc # "init" /\ tsk'[t].req \in Nat BY <1>3
<1>9. Task(t, c) /\ hd' = hd BY <1>1
<1> HIDE DEF c
<1> QED BY <1>4, <1>5, <1>6, <1>7, <1>8, <1>9, TaskAlone DEF TaskFrame

LEMMA ExecuteTop ==
  ASSUME IhmSound, AllTasks, NEW t \in IsoTasks, task_Execute(t), TaskFrame
  PROVE  IhmSound' /\ AllTasks'
<1>0. tsk[t].pc = "loop" /\ hd' = hd BY DEF task_Execute, At
<1>1. CASE tsk[t].req > 0 /\ Task(t, [pc |-> "update"])
  <2> DEFINE c == [pc |-> "update"]
  <2>1. /\ tsk'[t].pc = "update" /\ tsk'[t].req = tsk[t].req /\ tsk'[t].map = tsk[t].map
        /\ tsk'[t].new = tsk[t].new /\ tsk'[t].i = tsk[t].i
    BY <1>1, TaskChange DEF TaskFields, IhmSound
  <2>2. TaskIsSound(t)' BY <1>1, <2>1 DEF TaskIsSound
  <2>3. MapIsKept(t)' BY <2>1 DEF MapIsKept, Updating
  <2>4. "in_busreset" \notin DOMAIN c /\ Task(t, c) BY <1>1
  <2> HIDE DEF c
  <2> QED BY <1>0, <2>1, <2>2, <2>3, <2>4, TaskAlone DEF IhmSound, IhmTypeOK, TaskFrame
<1>2. CASE Task(t, [pc |-> IF tsk[t].map = <<>> THEN "loop" ELSE "setup"])
  <2> DEFINE c == [pc |-> IF tsk[t].map = <<>> THEN "loop" ELSE "setup"]
  <2>1. tsk'[t].pc \in {"loop", "setup"} /\ tsk'[t].i = tsk[t].i BY <1>2, TaskChange DEF TaskFields, IhmSound
  <2>2. DOMAIN c \subseteq PollFields /\ Task(t, c) BY <1>2 DEF PollFields
  <2> HIDE DEF c
  <2> QED BY <1>0, <2>1, <2>2, PollKeeps DEF IhmSound, IhmTypeOK, TaskFrame
<1> QED BY <1>1, <1>2 DEF task_Execute, Goes

LEMMA PollSetupStep ==
  ASSUME IhmSound, AllTasks, NEW t \in IsoTasks, pollSetup(t), TaskFrame
  PROVE  IhmSound' /\ AllTasks'
<1>0. tsk[t].pc = "setup" /\ hd' = hd BY DEF pollSetup, At
<1>1. PICK p \in {"wait", "poll"} : Task(t, [pc |-> p]) BY DEF pollSetup, Goes
<1> DEFINE c == [pc |-> p]
<1>2. tsk'[t].pc = p /\ tsk'[t].i = tsk[t].i BY <1>1, TaskChange DEF TaskFields, IhmSound
<1>3. DOMAIN c \subseteq PollFields /\ Task(t, c) BY <1>1 DEF PollFields
<1> HIDE DEF c
<1> QED BY <1>0, <1>2, <1>3, PollKeeps DEF IhmSound, IhmTypeOK, TaskFrame

LEMMA WaitSteps ==
  ASSUME IhmSound, AllTasks, NEW t \in IsoTasks, TaskFrame,
         wait_activity(t) \/ wait_interrupted(t) \/ wait_timeout(t) \/ task_error(t)
  PROVE  IhmSound' /\ AllTasks'
<1>0. tsk[t].pc \in {"wait", "poll"} /\ hd' = hd
  BY DEF wait_activity, wait_interrupted, wait_timeout, task_error, At
<1>1. CASE wait_activity(t)
  <2> DEFINE c == [pc |-> "setup", sem |-> tsk[t].sem - 1]
  <2>1. Task(t, c) /\ DOMAIN c \subseteq PollFields BY <1>1 DEF wait_activity, PollFields
  <2>2. tsk'[t].pc = "setup" /\ tsk'[t].i = tsk[t].i BY <2>1, TaskChange DEF TaskFields, IhmSound
  <2> HIDE DEF c
  <2> QED BY <1>0, <2>1, <2>2, PollKeeps DEF IhmSound, IhmTypeOK, TaskFrame
<1>2. CASE wait_interrupted(t)
  <2> DEFINE c == [pc |-> "setup"]
  <2>1. Task(t, c) /\ DOMAIN c \subseteq PollFields BY <1>2 DEF wait_interrupted, Goes, PollFields
  <2>2. tsk'[t].pc = "setup" /\ tsk'[t].i = tsk[t].i BY <2>1, TaskChange DEF TaskFields, IhmSound
  <2> HIDE DEF c
  <2> QED BY <1>0, <2>1, <2>2, PollKeeps DEF IhmSound, IhmTypeOK, TaskFrame
<1>3. CASE wait_timeout(t)
  <2> DEFINE c == [pc |-> "poll"]
  <2>1. Task(t, c) /\ DOMAIN c \subseteq PollFields BY <1>3 DEF wait_timeout, Goes, PollFields
  <2>2. tsk'[t].pc = "poll" /\ tsk'[t].i = tsk[t].i BY <2>1, TaskChange DEF TaskFields, IhmSound
  <2> HIDE DEF c
  <2> QED BY <1>0, <2>1, <2>2, PollKeeps DEF IhmSound, IhmTypeOK, TaskFrame
<1>4. CASE task_error(t)
  <2> DEFINE c == [pc |-> "ended", running |-> At(t, "wait") /\ tsk[t].running]
  <2>1. Task(t, c) /\ DOMAIN c \subseteq PollFields BY <1>4 DEF task_error, PollFields
  <2>2. tsk'[t].pc = "ended" /\ tsk'[t].i = tsk[t].i BY <2>1, TaskChange DEF TaskFields, IhmSound
  <2> HIDE DEF c
  <2> QED BY <1>0, <2>1, <2>2, PollKeeps DEF IhmSound, IhmTypeOK, TaskFrame
<1> QED BY <1>1, <1>2, <1>3, <1>4

LEMMA PollStep ==
  ASSUME IhmSound, AllTasks, NEW t \in IsoTasks, poll(t), TaskFrame
  PROVE  IhmSound' /\ AllTasks'
<1>0. tsk[t].pc = "poll" /\ hd' = hd BY DEF poll, At
<1>1. CASE Task(t, [pc |-> "deaths", i |-> 1])
  <2> DEFINE c == [pc |-> "deaths", i |-> 1]
  <2>1. Task(t, c) /\ DOMAIN c \subseteq PollFields BY <1>1 DEF PollFields
  <2>2. tsk'[t].pc = "deaths" /\ tsk'[t].i = 1 BY <2>1, TaskChange DEF TaskFields, IhmSound
  <2> HIDE DEF c
  <2> QED BY <1>0, <2>1, <2>2, PollKeeps DEF TaskFrame
<1>2. CASE Task(t, [pc |-> "loop"])
  <2> DEFINE c == [pc |-> "loop"]
  <2>1. Task(t, c) /\ DOMAIN c \subseteq PollFields BY <1>2 DEF PollFields
  <2>2. tsk'[t].pc = "loop" /\ tsk'[t].i = tsk[t].i BY <2>1, TaskChange DEF TaskFields, IhmSound
  <2> HIDE DEF c
  <2> QED BY <1>0, <2>1, <2>2, PollKeeps DEF IhmSound, IhmTypeOK, TaskFrame
<1> QED BY <1>1, <1>2 DEF poll, Goes

LEMMA AfterDeaths ==
  ASSUME IhmSound, AllTasks, NEW t \in IsoTasks, notifyOfDeath(t) \/ deaths_end(t) \/ iterate(t), TaskFrame
  PROVE  IhmSound' /\ AllTasks'
<1>0. hd' = hd /\ tsk[t].i \in Nat \ {0} BY DEF notifyOfDeath, deaths_end, iterate, IhmSound, IhmTypeOK
<1>1. CASE notifyOfDeath(t)
  <2> DEFINE c == [pc |-> "deaths", i |-> tsk[t].i + 1, died |-> TRUE]
  <2>1. Task(t, c) /\ DOMAIN c \subseteq PollFields /\ tsk[t].pc = "notify" BY <1>1 DEF notifyOfDeath, At, PollFields
  <2>2. tsk'[t].pc = "deaths" /\ tsk'[t].i = tsk[t].i + 1 BY <2>1, TaskChange DEF TaskFields, IhmSound
  <2>3. tsk'[t].i \in Nat \ {0} BY <1>0, <2>2
  <2> HIDE DEF c
  <2> QED BY <1>0, <2>1, <2>2, <2>3, PollKeeps DEF TaskFrame
<1>2. CASE deaths_end(t)
  <2> DEFINE c == [pc |-> IF tsk[t].died THEN "loop" ELSE "iterate", running |-> tsk[t].running /\ ~tsk[t].died,
                   died |-> FALSE, i |-> 1, h |-> NoHandler, ret |-> "none"]
  <2>1. Task(t, c) /\ DOMAIN c \subseteq PollFields /\ tsk[t].pc = "deaths" BY <1>2 DEF deaths_end, At, PollFields
  <2>2. tsk'[t].pc \in {"loop", "iterate"} /\ tsk'[t].i = 1 BY <2>1, TaskChange DEF TaskFields, IhmSound
  <2> HIDE DEF c
  <2> QED BY <1>0, <2>1, <2>2, PollKeeps DEF TaskFrame
<1>3. CASE iterate(t)
  <2> DEFINE c == [pc |-> "loop"]
  <2>1. Task(t, c) /\ DOMAIN c \subseteq PollFields /\ tsk[t].pc = "iterate" BY <1>3 DEF iterate, Goes, At, PollFields
  <2>2. tsk'[t].pc = "loop" /\ tsk'[t].i = tsk[t].i BY <2>1, TaskChange DEF TaskFields, IhmSound
  <2> HIDE DEF c
  <2> QED BY <1>0, <2>1, <2>2, PollKeeps DEF TaskFrame
<1> QED BY <1>1, <1>2, <1>3

\* What disable and its lock do to a handler is kept by every task.
LEMMA DisabledKept ==
  ASSUME IhmTypeOK, NEW k \in Ids, NEW l \in Types \cup {"free"},
         \/ hd' = [hd EXCEPT ![k].lock = l]
         \/ hd' = [hd EXCEPT ![k].handle = FALSE, ![k].state = "Stopped", ![k].next = "Stopped", ![k].quiet = TRUE]
  PROVE  /\ hd' \in [Ids -> HandlerRecord]
         /\ \A j \in Ids : hd'[j].alive = hd[j].alive /\ hd'[j].type = hd[j].type /\ hd'[j].client = hd[j].client
         /\ \A u \in IsoTasks : \A j \in Ids : HandlerKept(u, j)
<1>1. hd \in [Ids -> HandlerRecord] BY DEF IhmTypeOK
<1>2. CASE hd' = [hd EXCEPT ![k].lock = l]
  <2>1. hd' \in [Ids -> HandlerRecord] BY <1>1, <1>2 DEF HandlerRecord
  <2>2. \A j \in Ids : /\ hd'[j].alive = hd[j].alive /\ hd'[j].type = hd[j].type /\ hd'[j].client = hd[j].client
                       /\ hd'[j].state = hd[j].state /\ hd'[j].next = hd[j].next /\ hd'[j].quiet = hd[j].quiet
    BY <1>1, <1>2 DEF HandlerRecord
  <2> QED BY <2>1, <2>2 DEF HandlerKept
<1>3. CASE hd' = [hd EXCEPT ![k].handle = FALSE, ![k].state = "Stopped", ![k].next = "Stopped", ![k].quiet = TRUE]
  <2>1. hd' \in [Ids -> HandlerRecord]
    <3>1. hd[k] \in HandlerRecord BY <1>1
    <3>2. [hd[k] EXCEPT !.handle = FALSE, !.state = "Stopped", !.next = "Stopped", !.quiet = TRUE] \in HandlerRecord
      BY <3>1 DEF HandlerRecord
    <3>3. hd' = [hd EXCEPT ![k] = [hd[k] EXCEPT !.handle = FALSE, !.state = "Stopped", !.next = "Stopped", !.quiet = TRUE]]
      BY <1>1, <1>3
    <3> QED BY <1>1, <3>2, <3>3
  <2>2. \A j \in Ids : /\ hd'[j].alive = hd[j].alive /\ hd'[j].type = hd[j].type /\ hd'[j].client = hd[j].client
                       /\ j # k => hd'[j] = hd[j]
    BY <1>1, <1>3 DEF HandlerRecord
  <2>3. hd'[k].state = "Stopped" /\ hd'[k].next = "Stopped" BY <1>1, <1>3 DEF HandlerRecord
  <2>4. ASSUME NEW u \in IsoTasks, NEW j \in Ids PROVE HandlerKept(u, j)
    <3>1. CASE j = k BY <3>1, <2>2, <2>3 DEF HandlerKept
    <3>2. CASE j # k BY <3>2, <2>2 DEF HandlerKept
    <3> QED BY <3>1, <3>2
  <2> QED BY <2>1, <2>2, <2>4
<1> QED BY <1>2, <1>3

\* While one handler is in hand the others stay as they were seen.
InHandPcs == {"state", "disable", "unlock", "map"}
LEMMA ScansOn ==
  ASSUME NEW t \in IsoTasks, MapIsKept(t), Updating(t), Updating(t)',
         tsk[t].pc \in InHandPcs, tsk'[t].pc \in InHandPcs,
         tsk'[t].req = tsk[t].req, tsk'[t].new = tsk[t].new, tsk'[t].i = tsk[t].i, tsk'[t].max = tsk[t].max,
         tsk'[t].h = tsk[t].h, UNCHANGED <<types, m_IsoHandlers, cli, rst>>,
         \A i \in DOMAIN m_IsoHandlers : m_IsoHandlers[i] = tsk[t].h \/ HandlerKept(t, m_IsoHandlers[i]),
         tsk'[t].pc \in {"unlock", "map"} => Settled(t, tsk[t].h)'
  PROVE  MapIsKept(t)'
<1>1. Awaited(t)' = Awaited(t) BY DEF Awaited
<1>2. \A i \in DOMAIN m_IsoHandlers : \A s :
        Seen(t, m_IsoHandlers[i], s) => Seen(t, m_IsoHandlers[i], s)' \/ m_IsoHandlers[i] = tsk[t].h
  BY DEF HandlerKept, Seen, Settled, isEnabled
<1>3. tsk'[t].pc \in {"unlock", "map"} => Settled(t, tsk[t].h)' OBVIOUS
<1>4. tsk[t].pc \notin {"scan", "at", "ack", "update"} /\ tsk'[t].pc \notin {"scan", "at", "ack", "update"}
  BY DEF InHandPcs
<1>5. SUFFICES ASSUME Scanned(t) PROVE Scanned(t)' BY <1>1, <1>4 DEF MapIsKept
<1>6. /\ \A i \in DOMAIN tsk[t].new : tsk[t].new[i] \in ToSet(m_IsoHandlers)
      /\ tsk[t].max = Len(m_IsoHandlers)
      /\ tsk[t].i \in DOMAIN m_IsoHandlers /\ tsk[t].h = m_IsoHandlers[tsk[t].i]
      /\ \A i \in DOMAIN m_IsoHandlers : i < tsk[t].i => Seen(t, m_IsoHandlers[i], tsk[t].new) \/ m_IsoHandlers[i] = tsk[t].h
  BY <1>4, <1>5 DEF Scanned, InHandPcs
<1>7. \A i \in DOMAIN m_IsoHandlers : i < tsk[t].i => Seen(t, m_IsoHandlers[i], tsk[t].new)' \/ m_IsoHandlers[i] = tsk[t].h
  <2> TAKE i \in DOMAIN m_IsoHandlers
  <2> HAVE i < tsk[t].i
  <2>1. PICK s : s = tsk[t].new OBVIOUS
  <2>2. Seen(t, m_IsoHandlers[i], s) \/ m_IsoHandlers[i] = tsk[t].h BY <1>6, <2>1
  <2>3. Seen(t, m_IsoHandlers[i], s)' \/ m_IsoHandlers[i] = tsk[t].h BY <1>2, <2>2
  <2>4. s = tsk'[t].new BY <2>1
  <2> QED BY <2>3, <2>4 DEF Seen, Settled, isEnabled
<1> QED BY <1>3, <1>4, <1>6, <1>7 DEF Scanned

LEMMA TypeOfTask == ASSUME NEW t \in IsoTasks PROVE t \in Types
BY IsoHandlersAssumption DEF Types

LEMMA DeathsStep ==
  ASSUME IhmSound, AllTasks, NEW t \in IsoTasks, deaths(t), TaskFrame
  PROVE  IhmSound' /\ AllTasks'
<1> DEFINE k == tsk[t].map[tsk[t].i]
<1>0. tsk[t].pc = "deaths" /\ tsk[t].i \in DOMAIN tsk[t].map /\ k \in Ids /\ tsk[t].i \in Nat \ {0}
  BY DEF deaths, At, IhmSound, IhmTypeOK
<1>1. CASE Task(t, [i |-> tsk[t].i + 1, died |-> tsk[t].died \/ ~isEnabled(k)]) /\ hd' = hd
  <2> DEFINE c == [i |-> tsk[t].i + 1, died |-> tsk[t].died \/ ~isEnabled(k)]
  <2>1. Task(t, c) /\ DOMAIN c \subseteq PollFields BY <1>1 DEF PollFields
  <2>2. tsk'[t].pc = tsk[t].pc /\ tsk'[t].i = tsk[t].i + 1 BY <2>1, TaskChange DEF TaskFields, IhmSound
  <2>3. tsk'[t].i \in Nat \ {0} BY <1>0, <2>2
  <2> HIDE DEF c, k
  <2> QED BY <1>0, <1>1, <2>1, <2>2, <2>3, PollKeeps DEF TaskFrame
<1>2. CASE Task(t, [pc |-> "disable", ret |-> "notify", h |-> k]) /\ hd' = [hd EXCEPT ![k].lock = t]
  <2> HIDE DEF k
  <2> DEFINE c == [pc |-> "disable", ret |-> "notify", h |-> k]
  <2>1. Task(t, c) /\ "in_busreset" \notin DOMAIN c BY <1>2
  <2>2. /\ tsk'[t].pc = "disable" /\ tsk'[t].ret = "notify" /\ tsk'[t].h = k /\ tsk'[t].req = tsk[t].req
        /\ tsk'[t].map = tsk[t].map /\ tsk'[t].new = tsk[t].new /\ tsk'[t].i = tsk[t].i
    BY <2>1, TaskChange DEF TaskFields, IhmSound
  <2>3. /\ hd' \in [Ids -> HandlerRecord] 
        /\ \A j \in Ids : hd'[j].alive = hd[j].alive /\ hd'[j].type = hd[j].type /\ hd'[j].client = hd[j].client
        /\ \A u \in IsoTasks : \A j \in Ids : HandlerKept(u, j)
    BY <1>0, <1>2, TypeOfTask, DisabledKept DEF IhmSound
  <2>4. ~Updating(t) /\ ~Updating(t)' BY <1>0, <2>2 DEF Updating
  <2>5. TaskIsSound(t)' BY <1>0, <2>2, <2>4 DEF TaskIsSound
  <2>6. \A i \in DOMAIN m_IsoHandlers : HandlerKept(t, m_IsoHandlers[i]) BY <2>3 DEF IhmSound, IhmTypeOK
  <2>7. MapIsKept(t)' BY <2>2, <2>4, <2>6, Polls DEF AllTasks, TaskFrame
  <2> HIDE DEF c
  <2> QED BY <2>1, <2>2, <2>3, <2>5, <2>7, TaskKeeps DEF IhmSound, IhmTypeOK, TaskFrame
<1> QED BY <1>1, <1>2 DEF deaths

LEMMA DisableStep ==
  ASSUME IhmSound, AllTasks, NEW t \in IsoTasks, handler_disable(t), TaskFrame
  PROVE  IhmSound' /\ AllTasks'
<1> DEFINE k == tsk[t].h
<1>0. tsk[t].pc = "disable" /\ k \in Ids /\ tsk[t].ret \in {"map", "notify"}
  BY DEF handler_disable, At, AllTasks, TaskIsSound
<1>1. hd' = [hd EXCEPT ![k].handle = FALSE, ![k].state = "Stopped", ![k].next = "Stopped", ![k].quiet = TRUE]
  BY DEF handler_disable
<1>2. Task(t, [pc |-> "unlock"]) BY DEF handler_disable, Goes
<1>3. /\ tsk'[t].pc = "unlock" /\ tsk'[t].ret = tsk[t].ret /\ tsk'[t].h = k /\ tsk'[t].req = tsk[t].req
      /\ tsk'[t].map = tsk[t].map /\ tsk'[t].new = tsk[t].new /\ tsk'[t].i = tsk[t].i /\ tsk'[t].max = tsk[t].max
  BY <1>2, TaskChange DEF TaskFields, IhmSound
<1>4. /\ hd' \in [Ids -> HandlerRecord] 
      /\ \A j \in Ids : hd'[j].alive = hd[j].alive /\ hd'[j].type = hd[j].type /\ hd'[j].client = hd[j].client
      /\ \A u \in IsoTasks : \A j \in Ids : HandlerKept(u, j)
  BY <1>0, <1>1, DisabledKept DEF IhmSound
<1>5. TaskIsSound(t)' BY <1>0, <1>3 DEF TaskIsSound, Updating, AllTasks
<1>6. \A i \in DOMAIN m_IsoHandlers : HandlerKept(t, m_IsoHandlers[i]) BY <1>4 DEF IhmSound, IhmTypeOK
<1>7. MapIsKept(t)'
  <2>1. CASE tsk[t].ret = "notify"
    <3>1. ~Updating(t) /\ ~Updating(t)' BY <1>0, <1>3, <2>1 DEF Updating
    <3> QED BY <1>3, <1>6, <3>1, Polls DEF AllTasks, TaskFrame
  <2>2. CASE tsk[t].ret = "map"
    <3>1. Updating(t) /\ Updating(t)' BY <1>0, <1>3, <2>2 DEF Updating
    <3>2. hd'[k].quiet BY <1>0, <1>1 DEF IhmSound, IhmTypeOK, HandlerRecord
    <3>3. Settled(t, tsk[t].h)' BY <1>3, <3>2 DEF Settled
    <3>4. tsk[t].pc \in InHandPcs /\ tsk'[t].pc \in InHandPcs BY <1>0, <1>3 DEF InHandPcs
    <3> QED BY <1>3, <1>6, <3>1, <3>3, <3>4, ScansOn DEF AllTasks, TaskFrame
  <2> QED BY <1>0, <2>1, <2>2
<1>8. "in_busreset" \notin DOMAIN [pc |-> "unlock"] OBVIOUS
<1> HIDE DEF k
<1> QED BY <1>2, <1>3, <1>4, <1>5, <1>7, <1>8, TaskKeeps DEF IhmSound, IhmTypeOK, TaskFrame

LEMMA UnlockStep ==
  ASSUME IhmSound, AllTasks, NEW t \in IsoTasks, disable_unlock(t), TaskFrame
  PROVE  IhmSound' /\ AllTasks'
<1> DEFINE k == tsk[t].h
<1>0. tsk[t].pc = "unlock" /\ k \in Ids /\ tsk[t].ret \in {"map", "notify"}
  BY DEF disable_unlock, At, AllTasks, TaskIsSound
<1>1. hd' = [hd EXCEPT ![k].lock = "free"] BY DEF disable_unlock
<1>2. Task(t, [pc |-> tsk[t].ret]) BY DEF disable_unlock, Goes
<1>3. /\ tsk'[t].pc = tsk[t].ret /\ tsk'[t].ret = tsk[t].ret /\ tsk'[t].h = k /\ tsk'[t].req = tsk[t].req
      /\ tsk'[t].map = tsk[t].map /\ tsk'[t].new = tsk[t].new /\ tsk'[t].i = tsk[t].i /\ tsk'[t].max = tsk[t].max
  BY <1>2, TaskChange DEF TaskFields, IhmSound
<1>4. /\ hd' \in [Ids -> HandlerRecord] 
      /\ \A j \in Ids : hd'[j].alive = hd[j].alive /\ hd'[j].type = hd[j].type /\ hd'[j].client = hd[j].client
      /\ \A u \in IsoTasks : \A j \in Ids : HandlerKept(u, j)
  BY <1>0, <1>1, DisabledKept DEF IhmSound
<1>5. TaskIsSound(t)' BY <1>0, <1>3 DEF TaskIsSound, Updating, AllTasks
<1>6. \A i \in DOMAIN m_IsoHandlers : HandlerKept(t, m_IsoHandlers[i]) BY <1>4 DEF IhmSound, IhmTypeOK
<1>7. MapIsKept(t)'
  <2>1. CASE tsk[t].ret = "notify"
    <3>1. ~Updating(t) /\ ~Updating(t)' BY <1>0, <1>3, <2>1 DEF Updating
    <3> QED BY <1>3, <1>6, <3>1, Polls DEF AllTasks, TaskFrame
  <2>2. CASE tsk[t].ret = "map"
    <3>1. Updating(t) /\ Updating(t)' BY <1>0, <1>3, <2>2 DEF Updating
    <3>2. Settled(t, k) => Settled(t, k)' BY <1>0, <1>3, <1>4 DEF HandlerKept, Settled
    <3>3. SUFFICES ASSUME tsk[t].req = 1, ~Awaited(t) PROVE MapIsKept(t)'
      BY <1>3, <3>1 DEF MapIsKept, TaskFrame, Awaited
    <3>4. Settled(t, k)' BY <1>0, <3>1, <3>2, <3>3 DEF AllTasks, MapIsKept, Scanned
    <3>5. tsk[t].pc \in InHandPcs /\ tsk'[t].pc \in InHandPcs BY <1>0, <1>3, <2>2 DEF InHandPcs
    <3> QED BY <1>3, <1>6, <3>1, <3>4, <3>5, ScansOn DEF AllTasks, TaskFrame
  <2> QED BY <1>0, <2>1, <2>2
<1>8. "in_busreset" \notin DOMAIN [pc |-> tsk[t].ret] /\ tsk'[t].pc # "init" BY <1>0, <1>3
<1> HIDE DEF k
<1> QED BY <1>2, <1>3, <1>4, <1>5, <1>7, <1>8, TaskKeeps DEF IhmSound, IhmTypeOK, TaskFrame

\* An update begins, or is skipped in a bus reset.
LEMMA UpdateBegins ==
  ASSUME IhmSound, AllTasks, NEW t \in IsoTasks, updateShadowMap_begin(t), TaskFrame
  PROVE  IhmSound' /\ AllTasks'
<1>0. tsk[t].pc = "update" /\ hd' = hd BY DEF updateShadowMap_begin, At
<1>e. <<>> \in Seq(Ids) OBVIOUS
<1>1. CASE tsk[t].in_busreset
  <2> DEFINE c == [pc |-> "ack", new |-> <<>>]
  <2>1. Task(t, c) /\ "in_busreset" \notin DOMAIN c BY <1>1 DEF updateShadowMap_begin
  <2>2. /\ tsk'[t].pc = "ack" /\ tsk'[t].req = tsk[t].req /\ tsk'[t].map = tsk[t].map
        /\ tsk'[t].new = <<>> /\ tsk'[t].i = tsk[t].i
    BY <2>1, TaskChange DEF TaskFields, IhmSound
  <2>3. TaskIsSound(t)' BY <1>0, <2>2 DEF TaskIsSound, AllTasks, Updating
  <2>4. Awaited(t)' BY <1>1 DEF IhmSound, ResetIsSound, Awaited, TaskFrame
  <2>5. MapIsKept(t)' BY <2>4 DEF MapIsKept
  <2>6. tsk'[t].new \in Seq(Ids) BY <1>e, <2>2
  <2> HIDE DEF c
  <2> QED BY <1>0, <2>1, <2>2, <2>3, <2>5, <2>6, TaskAlone DEF IhmSound, IhmTypeOK, TaskFrame
<1>2. CASE ~tsk[t].in_busreset
  <2> DEFINE c == [pc |-> "scan", i |-> 1, max |-> Len(m_IsoHandlers), new |-> <<>>]
  <2>1. Task(t, c) /\ "in_busreset" \notin DOMAIN c BY <1>2 DEF updateShadowMap_begin
  <2>2. /\ tsk'[t].pc = "scan" /\ tsk'[t].req = tsk[t].req /\ tsk'[t].map = tsk[t].map
        /\ tsk'[t].new = <<>> /\ tsk'[t].i = 1 /\ tsk'[t].max = Len(m_IsoHandlers)
    BY <2>1, TaskChange DEF TaskFields, IhmSound
  <2>3. TaskIsSound(t)' BY <1>0, <2>2 DEF TaskIsSound, AllTasks, Updating
  <2>4. Scanned(t)'
    <3>1. \A i \in DOMAIN m_IsoHandlers : ~(i < 1) BY DEF IhmSound, IhmTypeOK
    <3> QED BY <2>2, <3>1 DEF Scanned, TaskFrame
  <2>5. MapIsKept(t)' BY <2>2, <2>4 DEF MapIsKept, Updating
  <2>6. tsk'[t].new \in Seq(Ids) BY <1>e, <2>2
  <2>7. tsk'[t].pc # "init" /\ tsk'[t].i \in Nat \ {0} /\ tsk'[t].req \in Nat /\ tsk'[t].map \in Seq(Ids)
    BY <2>2 DEF IhmSound, IhmTypeOK
  <2> HIDE DEF c
  <2> QED BY <1>0, <2>1, <2>3, <2>5, <2>6, <2>7, TaskAlone DEF TaskFrame
<1> QED BY <1>1, <1>2

LEMMA ScanCheckStep ==
  ASSUME IhmSound, AllTasks, NEW t \in IsoTasks, scan_check(t), TaskFrame
  PROVE  IhmSound' /\ AllTasks'
<1>0. tsk[t].pc = "scan" /\ hd' = hd /\ tsk[t].i \in Nat \ {0} BY DEF scan_check, At, IhmSound, IhmTypeOK
<1>a. Awaited(t)' = Awaited(t) BY DEF Awaited, TaskFrame
<1>b. \A s, k : Seen(t, k, s)' <=> Seen(t, k, s) BY <1>0 DEF Seen, Settled, isEnabled
<1>c. tsk[t].req = 1 /\ ~Awaited(t) =>
         /\ \A i \in DOMAIN tsk[t].new : tsk[t].new[i] \in ToSet(m_IsoHandlers)
         /\ tsk[t].max = Len(m_IsoHandlers)
         /\ \A i \in DOMAIN m_IsoHandlers : i < tsk[t].i => Seen(t, m_IsoHandlers[i], tsk[t].new)
  BY <1>0 DEF AllTasks, MapIsKept, Scanned, Updating
<1>d. PICK n \in Nat : n = Len(m_IsoHandlers) /\ DOMAIN m_IsoHandlers = 1..n BY DEF IhmSound, IhmTypeOK
<1>1. CASE tsk[t].i > tsk[t].max
  <2> DEFINE c == [pc |-> "ack"]
  <2>1. Task(t, c) /\ "in_busreset" \notin DOMAIN c BY <1>1 DEF scan_check, Goes
  <2>2. /\ tsk'[t].pc = "ack" /\ tsk'[t].req = tsk[t].req /\ tsk'[t].map = tsk[t].map
        /\ tsk'[t].new = tsk[t].new /\ tsk'[t].i = tsk[t].i
    BY <2>1, TaskChange DEF TaskFields, IhmSound
  <2>3. TaskIsSound(t)' BY <1>0, <2>2 DEF TaskIsSound, AllTasks, Updating
  <2>4. ASSUME tsk[t].req = 1, ~Awaited(t) PROVE Scanned(t)'
    <3>1. \A i \in DOMAIN m_IsoHandlers : i < tsk[t].i BY <1>0, <1>1, <1>c, <1>d, <2>4
    <3>2. \A i \in DOMAIN m_IsoHandlers : Seen(t, m_IsoHandlers[i], tsk[t].new)
      BY <3>1, <1>c, <2>4
    <3>3. \A i \in DOMAIN tsk[t].new : tsk[t].new[i] \in ToSet(m_IsoHandlers) BY <1>c, <2>4
    <3>4. \A i \in DOMAIN m_IsoHandlers : Seen(t, m_IsoHandlers[i], tsk[t].new)'
      BY <3>2, <2>2, <1>0 DEF Seen, Settled, isEnabled, TaskFrame
    <3> QED BY <3>3, <3>4, <2>2 DEF Scanned, TaskFrame
  <2>5. MapIsKept(t)' BY <1>a, <2>2, <2>4 DEF MapIsKept, Updating
  <2> HIDE DEF c
  <2> QED BY <1>0, <2>1, <2>2, <2>3, <2>5, TaskAlone DEF IhmSound, IhmTypeOK, TaskFrame
<1>2. CASE ~(tsk[t].i > tsk[t].max) /\ tsk[t].i > Len(m_IsoHandlers)
  <2> DEFINE c == [i |-> tsk[t].i + 1]
  <2>1. Task(t, c) /\ "in_busreset" \notin DOMAIN c BY <1>2 DEF scan_check
  <2>2. /\ tsk'[t].pc = "scan" /\ tsk'[t].req = tsk[t].req /\ tsk'[t].map = tsk[t].map
        /\ tsk'[t].new = tsk[t].new /\ tsk'[t].i = tsk[t].i + 1
    BY <1>0, <2>1, TaskChange DEF TaskFields, IhmSound
  <2>3. TaskIsSound(t)' BY <1>0, <2>2 DEF TaskIsSound, AllTasks, Updating
  <2>4. ~(tsk[t].req = 1 /\ ~Awaited(t)) BY <1>0, <1>2, <1>c, <1>d
  <2>5. MapIsKept(t)' BY <1>a, <2>2, <2>4 DEF MapIsKept, Updating
  <2>6. tsk'[t].i \in Nat \ {0} BY <1>0, <2>2
  <2> HIDE DEF c
  <2> QED BY <1>0, <2>1, <2>2, <2>3, <2>5, <2>6, TaskAlone DEF IhmSound, IhmTypeOK, TaskFrame
<1>3. CASE ~(tsk[t].i > tsk[t].max) /\ ~(tsk[t].i > Len(m_IsoHandlers))
  <2> DEFINE c == [pc |-> "at"]
  <2>1. Task(t, c) /\ "in_busreset" \notin DOMAIN c BY <1>3 DEF scan_check, Goes
  <2>2. /\ tsk'[t].pc = "at" /\ tsk'[t].req = tsk[t].req /\ tsk'[t].map = tsk[t].map
        /\ tsk'[t].new = tsk[t].new /\ tsk'[t].i = tsk[t].i /\ tsk'[t].max = tsk[t].max
    BY <2>1, TaskChange DEF TaskFields, IhmSound
  <2>3. TaskIsSound(t)' BY <1>0, <2>2 DEF TaskIsSound, AllTasks, Updating
  <2>4. ASSUME tsk[t].req = 1, ~Awaited(t) PROVE Scanned(t)'
    <3>1. \A i \in DOMAIN m_IsoHandlers : i < tsk[t].i => Seen(t, m_IsoHandlers[i], tsk[t].new)'
      BY <1>c, <2>2, <2>4, <1>0 DEF Seen, Settled, isEnabled, TaskFrame
    <3> QED BY <3>1, <1>c, <2>4, <2>2 DEF Scanned, TaskFrame
  <2>5. MapIsKept(t)' BY <1>a, <2>2, <2>4 DEF MapIsKept, Updating
  <2> HIDE DEF c
  <2> QED BY <1>0, <2>1, <2>2, <2>3, <2>5, TaskAlone DEF IhmSound, IhmTypeOK, TaskFrame
<1> QED BY <1>1, <1>2, <1>3

LEMMA ScanAtStep ==
  ASSUME IhmSound, AllTasks, NEW t \in IsoTasks, scan_at(t), undefined' = "no", TaskFrame
  PROVE  IhmSound' /\ AllTasks'
<1>0. tsk[t].pc = "at" /\ hd' = hd /\ tsk[t].i \in Nat \ {0} BY DEF scan_at, At, IhmSound, IhmTypeOK
<1>a. Awaited(t)' = Awaited(t) BY DEF Awaited, TaskFrame
<1>1. ~(tsk[t].i > Len(m_IsoHandlers)) BY DEF scan_at, Undefined
<1>2. PICK k \in Ids : tsk[t].i \in DOMAIN m_IsoHandlers /\ k = m_IsoHandlers[tsk[t].i]
  <2>1. m_IsoHandlers \in Seq(Ids) BY DEF IhmSound, IhmTypeOK
  <2>2. PICK n \in Nat : n = Len(m_IsoHandlers) /\ DOMAIN m_IsoHandlers = 1..n BY <2>1
  <2>3. tsk[t].i \in 1..n BY <1>0, <1>1, <2>2
  <2> QED BY <2>1, <2>2, <2>3
<1> DEFINE c == [pc |-> "state", h |-> k]
<1>3. Task(t, c) /\ "in_busreset" \notin DOMAIN c BY <1>1, <1>2 DEF scan_at
<1>4. /\ tsk'[t].pc = "state" /\ tsk'[t].req = tsk[t].req /\ tsk'[t].map = tsk[t].map
      /\ tsk'[t].new = tsk[t].new /\ tsk'[t].i = tsk[t].i /\ tsk'[t].max = tsk[t].max
      /\ tsk'[t].h = k
  BY <1>3, TaskChange DEF TaskFields, IhmSound
<1>5. TaskIsSound(t)' BY <1>0, <1>2, <1>4 DEF TaskIsSound, AllTasks, Updating
<1>6. ASSUME tsk[t].req = 1, ~Awaited(t) PROVE Scanned(t)'
  <2>1. /\ \A i \in DOMAIN tsk[t].new : tsk[t].new[i] \in ToSet(m_IsoHandlers)
        /\ tsk[t].max = Len(m_IsoHandlers)
        /\ \A i \in DOMAIN m_IsoHandlers : i < tsk[t].i => Seen(t, m_IsoHandlers[i], tsk[t].new)
    BY <1>0, <1>6 DEF AllTasks, MapIsKept, Scanned, Updating
  <2>2. \A i \in DOMAIN m_IsoHandlers : i < tsk[t].i => Seen(t, m_IsoHandlers[i], tsk[t].new)'
    BY <2>1, <1>4, <1>0 DEF Seen, Settled, isEnabled, TaskFrame
  <2> QED BY <2>1, <2>2, <1>2, <1>4 DEF Scanned, TaskFrame
<1>7. MapIsKept(t)' BY <1>a, <1>4, <1>6 DEF MapIsKept, Updating
<1> HIDE DEF c
<1> QED BY <1>0, <1>3, <1>4, <1>5, <1>7, TaskAlone DEF IhmSound, IhmTypeOK, TaskFrame

\* The new map is in force, and one request is served.
LEMMA AckStep ==
  ASSUME IhmSound, AllTasks, NEW t \in IsoTasks, ack(t), TaskFrame
  PROVE  IhmSound' /\ AllTasks'
<1>0. tsk[t].pc = "ack" /\ hd' = hd /\ tsk[t].req \in Nat /\ tsk[t].req > 0
  BY DEF ack, At, IhmSound, IhmTypeOK, AllTasks, TaskIsSound, Updating
<1>a. Awaited(t)' = Awaited(t) BY DEF Awaited, TaskFrame
<1> DEFINE c == [pc |-> IF tsk[t].new = <<>> THEN "loop" ELSE "setup", map |-> tsk[t].new, req |-> tsk[t].req - 1,
                 i |-> 1, max |-> 0, new |-> <<>>, h |-> NoHandler, ret |-> "none"]
<1>1. Task(t, c) /\ "in_busreset" \notin DOMAIN c BY DEF ack
<1>2. /\ tsk'[t].pc \in {"loop", "setup"} /\ tsk'[t].req = tsk[t].req - 1 /\ tsk'[t].map = tsk[t].new
      /\ tsk'[t].new = <<>> /\ tsk'[t].i = 1
  BY <1>1, TaskChange DEF TaskFields, IhmSound
<1>3. tsk'[t].req \in Nat /\ tsk'[t].map \in Seq(Ids) /\ tsk'[t].new \in Seq(Ids)
  BY <1>0, <1>2 DEF IhmSound, IhmTypeOK
<1>4. TaskIsSound(t)' BY <1>2 DEF TaskIsSound, Updating
<1>5. ASSUME tsk'[t].req = 0, ~Awaited(t) PROVE Current(t)'
  <2>1. tsk[t].req = 1 BY <1>0, <1>2, <1>5
  <2>2. /\ \A i \in DOMAIN tsk[t].new : tsk[t].new[i] \in ToSet(m_IsoHandlers)
        /\ \A i \in DOMAIN m_IsoHandlers : Seen(t, m_IsoHandlers[i], tsk[t].new)
    BY <1>0, <1>5, <2>1 DEF AllTasks, MapIsKept, Scanned, Updating
  <2>3. \A i \in DOMAIN m_IsoHandlers : Seen(t, m_IsoHandlers[i], tsk[t].map)'
    BY <2>2, <1>0, <1>2 DEF Seen, Settled, isEnabled, TaskFrame
  <2> QED BY <2>2, <2>3, <1>2 DEF Current, TaskFrame
<1>6. MapIsKept(t)' BY <1>a, <1>2, <1>5 DEF MapIsKept, Updating
<1>7. tsk'[t].pc # "init" /\ tsk'[t].i \in Nat \ {0} BY <1>2
<1>8. Task(t, c) /\ "in_busreset" \notin DOMAIN c /\ hd' = hd BY <1>0, <1>1
<1> HIDE DEF c
<1> QED BY <1>3, <1>4, <1>6, <1>7, <1>8, TaskAlone DEF TaskFrame

\* The handler in hand has been dealt with: the scan goes on to the next one.
LEMMA ScanGoesOn ==
  ASSUME IhmSound, NEW t \in IsoTasks, MapIsKept(t), TaskFrame, hd' = hd,
         tsk[t].pc \in {"state", "map"}, tsk'[t].pc = "scan",
         tsk'[t].req = tsk[t].req, tsk'[t].max = tsk[t].max, tsk'[t].i = tsk[t].i + 1,
         \A x \in ToSet(tsk[t].new) : x \in ToSet(tsk'[t].new),
         \A i \in DOMAIN tsk'[t].new : tsk'[t].new[i] \in ToSet(tsk[t].new) \/ tsk'[t].new[i] = tsk[t].h,
         tsk[t].req = 1 /\ ~Awaited(t) => Seen(t, tsk[t].h, tsk'[t].new)
  PROVE  MapIsKept(t)'
<1>1. Awaited(t)' = Awaited(t) BY DEF Awaited, TaskFrame
<1>2. SUFFICES ASSUME tsk[t].req = 1, ~Awaited(t) PROVE Scanned(t)' BY <1>1 DEF MapIsKept, Updating
<1>3. /\ \A i \in DOMAIN tsk[t].new : tsk[t].new[i] \in ToSet(m_IsoHandlers)
      /\ tsk[t].max = Len(m_IsoHandlers)
      /\ tsk[t].i \in DOMAIN m_IsoHandlers /\ tsk[t].h = m_IsoHandlers[tsk[t].i]
      /\ \A i \in DOMAIN m_IsoHandlers : i < tsk[t].i => Seen(t, m_IsoHandlers[i], tsk[t].new) \/ m_IsoHandlers[i] = tsk[t].h
  BY <1>2 DEF MapIsKept, Scanned, Updating
<1>4. \A i \in DOMAIN tsk'[t].new : tsk'[t].new[i] \in ToSet(m_IsoHandlers)
  <2>1. \A x \in ToSet(tsk[t].new) : x \in ToSet(m_IsoHandlers) BY <1>3 DEF ToSet
  <2>2. tsk[t].h \in ToSet(m_IsoHandlers) BY <1>3 DEF ToSet
  <2> QED BY <2>1, <2>2
<1>5. ASSUME NEW i \in DOMAIN m_IsoHandlers, i < tsk[t].i + 1
      PROVE  Seen(t, m_IsoHandlers[i], tsk'[t].new)
  <2>1. CASE m_IsoHandlers[i] = tsk[t].h BY <2>1, <1>2
  <2>2. CASE m_IsoHandlers[i] # tsk[t].h
    <3>0. PICK n \in Nat : DOMAIN m_IsoHandlers = 1..n BY DEF IhmSound, IhmTypeOK
    <3>1. i < tsk[t].i BY <2>2, <1>3, <1>5, <3>0
    <3>2. Seen(t, m_IsoHandlers[i], tsk[t].new) BY <3>1, <1>3, <2>2
    <3> QED BY <3>2 DEF Seen
  <2> QED BY <2>1, <2>2
<1>6. \A i \in DOMAIN m_IsoHandlers : i < tsk[t].i + 1 => Seen(t, m_IsoHandlers[i], tsk[t].new)'
  BY <1>5 DEF Seen, Settled, isEnabled, TaskFrame
<1> QED BY <1>3, <1>4, <1>6 DEF Scanned, TaskFrame

LEMMA ScanMapStep ==
  ASSUME IhmSound, AllTasks, NEW t \in IsoTasks, scan_map(t), TaskFrame
  PROVE  IhmSound' /\ AllTasks'
<1>0. tsk[t].pc = "map" /\ hd' = hd /\ tsk[t].i \in Nat \ {0} /\ tsk[t].new \in Seq(Ids)
  BY DEF scan_map, At, IhmSound, IhmTypeOK
<1>1. PICK k \in Ids : k = tsk[t].h BY <1>0 DEF AllTasks, TaskIsSound
<1>2. PICK s \in Seq(Ids) : /\ s = IF isEnabled(k) THEN Append(tsk[t].new, k) ELSE tsk[t].new
                            /\ \A x \in ToSet(tsk[t].new) : x \in ToSet(s)
                            /\ \A i \in DOMAIN s : s[i] \in ToSet(tsk[t].new) \/ s[i] = k
                            /\ isEnabled(k) => k \in ToSet(s)
  <2>0. PICK n \in Nat : n = Len(tsk[t].new) /\ DOMAIN tsk[t].new = 1..n BY <1>0
  <2>1. CASE isEnabled(k)
    <3>0. PICK z \in Seq(Ids) : z = tsk[t].new BY <1>0
    <3>1. PICK s \in Seq(Ids) : s = Append(tsk[t].new, k)
      <4>1. Append(z, k) \in Seq(Ids) BY AppendProperties
      <4> QED BY <3>0, <4>1
    <3>2. DOMAIN s = 1..(n + 1) /\ s[n + 1] = k /\ \A j \in 1..n : s[j] = tsk[t].new[j] BY <1>0, <2>0, <3>1
    <3>3. \A x \in ToSet(tsk[t].new) : x \in ToSet(s) BY <2>0, <3>2 DEF ToSet
    <3>4. \A i \in DOMAIN s : s[i] \in ToSet(tsk[t].new) \/ s[i] = k
      <4> TAKE i \in DOMAIN s
      <4>1. i \in 1..n \/ i = n + 1 BY <3>2
      <4> QED BY <4>1, <2>0, <3>2 DEF ToSet
    <3>5. k \in ToSet(s) BY <3>2 DEF ToSet
    <3> QED BY <2>1, <3>1, <3>3, <3>4, <3>5
  <2>2. CASE ~isEnabled(k) BY <2>2, <1>0 DEF ToSet
  <2> QED BY <2>1, <2>2
<1> DEFINE c == [pc |-> "scan", i |-> tsk[t].i + 1, new |-> s]
<1>3. Task(t, c) /\ "in_busreset" \notin DOMAIN c BY <1>1, <1>2 DEF scan_map
<1>4. /\ tsk'[t].pc = "scan" /\ tsk'[t].req = tsk[t].req /\ tsk'[t].map = tsk[t].map
      /\ tsk'[t].new = s /\ tsk'[t].i = tsk[t].i + 1 /\ tsk'[t].max = tsk[t].max
  BY <1>3, TaskChange DEF TaskFields, IhmSound
<1>5. TaskIsSound(t)' BY <1>0, <1>4 DEF TaskIsSound, AllTasks, Updating
<1>6. tsk[t].req = 1 /\ ~Awaited(t) => Seen(t, k, s)
  <2>1. tsk[t].req = 1 /\ ~Awaited(t) => Settled(t, k) BY <1>0, <1>1 DEF AllTasks, MapIsKept, Scanned, Updating
  <2> QED BY <2>1, <1>2 DEF Seen
<1>7. MapIsKept(t)' BY <1>0, <1>1, <1>2, <1>4, <1>6, ScanGoesOn DEF AllTasks
<1>8. tsk'[t].pc # "init" /\ tsk'[t].i \in Nat \ {0} /\ tsk'[t].req \in Nat /\ tsk'[t].map \in Seq(Ids) /\ tsk'[t].new \in Seq(Ids)
  BY <1>0, <1>4 DEF IhmSound, IhmTypeOK
<1>9. Task(t, c) /\ "in_busreset" \notin DOMAIN c /\ hd' = hd BY <1>0, <1>3
<1> HIDE DEF c
<1> QED BY <1>5, <1>7, <1>8, <1>9, TaskAlone DEF TaskFrame

\* The handler in hand of task t changes, and is settled.
LEMMA InHandStep ==
  ASSUME IhmSound, AllTasks, NEW t \in IsoTasks, TaskFrame, tsk[t].pc = "state",
         NEW k \in Ids, k = tsk[t].h, hd[k].type = t, Task(t, [pc |-> "map"]),
         hd' \in [Ids -> HandlerRecord], \A j \in Ids : j # k => hd'[j] = hd[j],
         hd'[k].alive = hd[k].alive, hd'[k].type = hd[k].type, hd'[k].client = hd[k].client,
         hd'[k].quiet \/ hd'[k].state = hd'[k].next
  PROVE  IhmSound' /\ AllTasks'
<1>1. /\ tsk'[t].pc = "map" /\ tsk'[t].req = tsk[t].req /\ tsk'[t].map = tsk[t].map /\ tsk'[t].h = tsk[t].h
      /\ tsk'[t].new = tsk[t].new /\ tsk'[t].i = tsk[t].i /\ tsk'[t].max = tsk[t].max
  BY TaskChange DEF TaskFields, IhmSound
<1>2. Updating(t) /\ Updating(t)' BY <1>1 DEF Updating
<1>3. TaskIsSound(t)' BY <1>1, <1>2 DEF TaskIsSound, AllTasks
<1>4. \A j \in Ids : j = k \/ HandlerKept(t, j) BY DEF HandlerKept
<1>5. \A i \in DOMAIN m_IsoHandlers : m_IsoHandlers[i] = tsk[t].h \/ HandlerKept(t, m_IsoHandlers[i])
  BY <1>4 DEF IhmSound, IhmTypeOK
<1>6. Settled(t, tsk[t].h)' BY <1>1 DEF Settled
<1>7. tsk[t].pc \in InHandPcs /\ tsk'[t].pc \in InHandPcs BY <1>1 DEF InHandPcs
<1>8. MapIsKept(t)' BY <1>1, <1>2, <1>5, <1>6, <1>7, ScansOn DEF AllTasks, TaskFrame
<1>9. \A u \in IsoTasks : u # t => \A j \in Ids : HandlerKept(u, j) BY DEF HandlerKept
<1>10. \A j \in Ids : hd'[j].alive = hd[j].alive /\ hd'[j].type = hd[j].type /\ hd'[j].client = hd[j].client
  OBVIOUS
<1>11. tsk'[t].pc # "init" /\ tsk'[t].i \in Nat \ {0} /\ tsk'[t].req \in Nat /\ tsk'[t].map \in Seq(Ids) /\ tsk'[t].new \in Seq(Ids)
  BY <1>1 DEF IhmSound, IhmTypeOK
<1>12. "in_busreset" \notin DOMAIN [pc |-> "map"] OBVIOUS
<1> QED BY <1>3, <1>8, <1>9, <1>10, <1>11, <1>12, TaskKeeps DEF TaskFrame

\* An enable that succeeds, and one that fails.
LEMMA EnableStep ==
  ASSUME IhmSound, AllTasks, NEW t \in IsoTasks, TaskFrame, tsk[t].pc = "state", undefined' = "no",
         NEW k \in Ids, k = tsk[t].h, hd[k].type = t, handler_enable(t, k)
  PROVE  IhmSound' /\ AllTasks'
<1>0. hd \in [Ids -> HandlerRecord] /\ hd[k] \in HandlerRecord BY DEF IhmSound, IhmTypeOK
<1>1. Task(t, [pc |-> "map"]) BY DEF handler_enable, Undefined, Goes
<1>2. CASE hd' = [hd EXCEPT ![k].handle = TRUE, ![k].state = "Running", ![k].next = "Running"]
  <2>1. PICK r : r = [hd[k] EXCEPT !.handle = TRUE, !.state = "Running", !.next = "Running"] OBVIOUS
  <2>2. /\ r \in HandlerRecord /\ r.alive = hd[k].alive /\ r.type = hd[k].type /\ r.client = hd[k].client
        /\ r.state = r.next
    BY <1>0, <2>1 DEF HandlerRecord
  <2>3. hd' = [hd EXCEPT ![k] = r] BY <1>0, <1>2, <2>1
  <2>4. hd' \in [Ids -> HandlerRecord] /\ hd'[k] = r /\ \A j \in Ids : j # k => hd'[j] = hd[j] BY <1>0, <2>2, <2>3
  <2> QED BY <1>1, <2>2, <2>4, InHandStep
<1>3. ASSUME NEW opened \in BOOLEAN, hd' = [hd EXCEPT ![k].handle = opened, ![k].quiet = TRUE]
      PROVE  IhmSound' /\ AllTasks'
  <2>1. PICK r : r = [hd[k] EXCEPT !.handle = opened, !.quiet = TRUE] OBVIOUS
  <2>2. r \in HandlerRecord /\ r.alive = hd[k].alive /\ r.type = hd[k].type /\ r.client = hd[k].client /\ r.quiet
    BY <1>0, <2>1 DEF HandlerRecord
  <2>3. hd' = [hd EXCEPT ![k] = r] BY <1>0, <1>3, <2>1
  <2>4. hd' \in [Ids -> HandlerRecord] /\ hd'[k] = r /\ \A j \in Ids : j # k => hd'[j] = hd[j] BY <1>0, <2>2, <2>3
  <2> QED BY <1>1, <2>2, <2>4, InHandStep
<1>4. \/ hd' = [hd EXCEPT ![k].handle = TRUE, ![k].state = "Running", ![k].next = "Running"]
      \/ \E opened \in BOOLEAN : hd' = [hd EXCEPT ![k].handle = opened, ![k].quiet = TRUE]
  BY DEF handler_enable, Undefined
<1> QED BY <1>2, <1>3, <1>4

LEMMA UpdateStateStep ==
  ASSUME IhmSound, AllTasks, NEW t \in IsoTasks, updateState(t), undefined' = "no", TaskFrame
  PROVE  IhmSound' /\ AllTasks'
<1>0. tsk[t].pc = "state" /\ tsk[t].i \in Nat \ {0} BY DEF updateState, At, IhmSound, IhmTypeOK
<1>1. PICK k \in Ids : k = tsk[t].h BY <1>0 DEF AllTasks, TaskIsSound
<1>2. CASE hd[k].type # t /\ Task(t, [pc |-> "scan", i |-> tsk[t].i + 1]) /\ hd' = hd
  <2> DEFINE c == [pc |-> "scan", i |-> tsk[t].i + 1]
  <2>1. Task(t, c) /\ "in_busreset" \notin DOMAIN c BY <1>2
  <2>2. /\ tsk'[t].pc = "scan" /\ tsk'[t].req = tsk[t].req /\ tsk'[t].map = tsk[t].map
        /\ tsk'[t].new = tsk[t].new /\ tsk'[t].i = tsk[t].i + 1 /\ tsk'[t].max = tsk[t].max
    BY <2>1, TaskChange DEF TaskFields, IhmSound
  <2>3. TaskIsSound(t)' BY <1>0, <2>2 DEF TaskIsSound, AllTasks, Updating
  <2>4. Seen(t, tsk[t].h, tsk'[t].new) BY <1>1, <1>2 DEF Seen, Settled
  <2>5. \A i \in DOMAIN tsk'[t].new : tsk'[t].new[i] \in ToSet(tsk[t].new) BY <2>2 DEF ToSet
  <2>6. MapIsKept(t)' BY <1>0, <1>2, <2>2, <2>4, <2>5, ScanGoesOn DEF AllTasks
  <2>7. tsk'[t].pc # "init" /\ tsk'[t].i \in Nat \ {0} /\ tsk'[t].req \in Nat /\ tsk'[t].map \in Seq(Ids) /\ tsk'[t].new \in Seq(Ids)
    BY <1>0, <2>2 DEF IhmSound, IhmTypeOK
  <2>8. Task(t, c) /\ "in_busreset" \notin DOMAIN c /\ hd' = hd BY <1>2, <2>1
  <2> HIDE DEF c
  <2> QED BY <2>3, <2>6, <2>7, <2>8, TaskAlone DEF TaskFrame
<1>3. CASE hd[k].type = t /\ hd[k].state = hd[k].next /\ Task(t, [pc |-> "map"]) /\ hd' = hd
  <2>1. hd' \in [Ids -> HandlerRecord] BY <1>3 DEF IhmSound, IhmTypeOK
  <2> QED BY <1>0, <1>1, <1>3, <2>1, InHandStep
<1>4. CASE hd[k].type = t /\ handler_enable(t, k) BY <1>0, <1>1, <1>4, EnableStep
<1>5. CASE Task(t, [pc |-> "disable", ret |-> "map"]) /\ hd' = [hd EXCEPT ![k].lock = t]
  <2> DEFINE c == [pc |-> "disable", ret |-> "map"]
  <2>1. Task(t, c) /\ "in_busreset" \notin DOMAIN c BY <1>5
  <2>2. /\ tsk'[t].pc = "disable" /\ tsk'[t].ret = "map" /\ tsk'[t].h = tsk[t].h /\ tsk'[t].req = tsk[t].req
        /\ tsk'[t].map = tsk[t].map /\ tsk'[t].new = tsk[t].new /\ tsk'[t].i = tsk[t].i /\ tsk'[t].max = tsk[t].max
    BY <2>1, TaskChange DEF TaskFields, IhmSound
  <2>3. /\ hd' \in [Ids -> HandlerRecord]
        /\ \A j \in Ids : hd'[j].alive = hd[j].alive /\ hd'[j].type = hd[j].type /\ hd'[j].client = hd[j].client
        /\ \A u \in IsoTasks : \A j \in Ids : HandlerKept(u, j)
    BY <1>5, TypeOfTask, DisabledKept DEF IhmSound
  <2>4. Updating(t) /\ Updating(t)' BY <1>0, <2>2 DEF Updating
  <2>5. TaskIsSound(t)' BY <1>1, <2>2, <2>4 DEF TaskIsSound, AllTasks
  <2>6. \A i \in DOMAIN m_IsoHandlers : HandlerKept(t, m_IsoHandlers[i]) BY <2>3 DEF IhmSound, IhmTypeOK
  <2>7. tsk[t].pc \in InHandPcs /\ tsk'[t].pc \in InHandPcs /\ tsk'[t].pc \notin {"unlock", "map"}
    BY <1>0, <2>2 DEF InHandPcs
  <2>8. MapIsKept(t)' BY <2>2, <2>4, <2>6, <2>7, ScansOn DEF AllTasks, TaskFrame
  <2>9. tsk'[t].pc # "init" /\ tsk'[t].i \in Nat \ {0} /\ tsk'[t].req \in Nat /\ tsk'[t].map \in Seq(Ids) /\ tsk'[t].new \in Seq(Ids)
    BY <1>0, <2>2 DEF IhmSound, IhmTypeOK
  <2> HIDE DEF c
  <2> QED BY <2>1, <2>3, <2>5, <2>8, <2>9, TaskKeeps DEF TaskFrame
<1>6. \/ hd[k].type # t /\ Task(t, [pc |-> "scan", i |-> tsk[t].i + 1]) /\ hd' = hd
      \/ hd[k].type = t /\ hd[k].state = hd[k].next /\ Task(t, [pc |-> "map"]) /\ hd' = hd
      \/ hd[k].type = t /\ handler_enable(t, k)
      \/ Task(t, [pc |-> "disable", ret |-> "map"]) /\ hd' = [hd EXCEPT ![k].lock = t]
  BY <1>1 DEF updateState, Undefined, Goes
<1> QED BY <1>2, <1>3, <1>4, <1>5, <1>6

LEMMA TaskStepKeeps ==
  ASSUME IhmSound, AllTasks, NEW t \in IsoTasks, TaskStep(t), undefined' = "no"
  PROVE  IhmSound' /\ AllTasks'
<1>1. TaskFrame BY DEF TaskStep, TaskFrame
<1> QED
  BY <1>1, TaskInitStep, ExecuteTop, UpdateBegins, ScanCheckStep, ScanAtStep, UpdateStateStep, DisableStep,
     UnlockStep, ScanMapStep, AckStep, PollSetupStep, WaitSteps, PollStep, DeathsStep, AfterDeaths
  DEF TaskStep

\* Both beginnings of a session.
LEMMA IhmBegins == IhmInit => IhmIInv
<1> SUFFICES ASSUME IhmInit PROVE IhmSound /\ \A t \in IsoTasks : TaskIsSound(t) /\ MapIsKept(t) BY DEF IhmIInv
<1>0. PICK f \in Sessions : types = f.types BY DEF IhmInit
<1>1. types \in Seq(Types) /\ Len(types) <= MaxHandlers /\ MaxHandlers \in Nat
  BY <1>0, IsoHandlersAssumption DEF Types
<1>2. PICK n \in Nat : n = Len(types) /\ DOMAIN types = 1..n BY <1>1
<1>3. \A s \in DOMAIN types : s \in Ids /\ s \in Nat /\ s # 0 /\ types[s] \in Types BY <1>1, <1>2 DEF Ids
<1>4. Unborn \in HandlerRecord /\ \A s \in DOMAIN types :
         /\ Registered(s) \in HandlerRecord /\ Registered(s).type = types[s] /\ Registered(s).client = s
         /\ Registered(s).alive /\ Registered(s).state = "Stopped" /\ Registered(s).next = "Stopped"
  BY <1>3 DEF Unborn, Registered, HandlerRecord, NoClient, Types
<1>5. /\ cli.pc = "idle" /\ DOMAIN cli = {"pc", "op", "s", "h"}
      /\ DOMAIN rst = {"pc", "left", "i", "max"} /\ rst.pc = "idle" /\ rst.left = <<>>
  BY DEF IhmInit, Idle
<1>6. CASE m_IsoHandlers = <<>> /\ hd = [k \in Ids |-> Unborn] /\ tsk = [t \in IsoTasks |-> Fresh]
  <2>1. \A t \in IsoTasks :
          /\ DOMAIN tsk[t] = TaskFields /\ tsk[t].req = 0 /\ tsk[t].map = <<>> /\ tsk[t].new = <<>> /\ tsk[t].i = 1
          /\ tsk[t].pc = "init" /\ ~tsk[t].in_busreset
    BY <1>6 DEF Fresh, TaskFields
  <2>2. IhmTypeOK
    <3>1. <<>> \in Seq(Ids) /\ 0 \in Nat /\ 1 \in Nat \ {0} OBVIOUS
    <3>2. hd \in [Ids -> HandlerRecord] /\ DOMAIN tsk = IsoTasks BY <1>4, <1>6
    <3> QED BY <1>1, <1>6, <2>1, <3>1, <3>2 DEF IhmTypeOK
  <2>3. Beginning BY <1>5, <1>6 DEF Beginning
  <2>4. ListIsSound BY <1>6 DEF ListIsSound
  <2>5. ClientIsSound BY <1>5 DEF ClientIsSound
  <2>6. ResetIsSound BY <1>5, <2>1 DEF ResetIsSound
  <2>7. \A t \in IsoTasks : TaskIsSound(t) /\ MapIsKept(t)
    BY <1>6, <2>1 DEF TaskIsSound, MapIsKept, Updating, Current
  <2> QED BY <2>2, <2>3, <2>4, <2>5, <2>6, <2>7 DEF IhmSound
<1>7. CASE /\ m_IsoHandlers = [s \in DOMAIN types |-> s]
           /\ hd = [k \in Ids |-> IF k \in DOMAIN types THEN Registered(k) ELSE Unborn]
           /\ tsk = [t \in IsoTasks |-> [Fresh EXCEPT !.pc = "loop", !.running = TRUE]]
  <2>1. \A t \in IsoTasks :
          /\ DOMAIN tsk[t] = TaskFields /\ tsk[t].req = 0 /\ tsk[t].map = <<>> /\ tsk[t].new = <<>> /\ tsk[t].i = 1
          /\ tsk[t].pc = "loop" /\ ~tsk[t].in_busreset
    BY <1>7 DEF Fresh, TaskFields
  <2>2. m_IsoHandlers \in Seq(Ids) /\ DOMAIN m_IsoHandlers = DOMAIN types BY <1>2, <1>3, <1>7
  <2>3. IhmTypeOK
    <3>1. <<>> \in Seq(Ids) /\ 0 \in Nat /\ 1 \in Nat \ {0} OBVIOUS
    <3>2. hd \in [Ids -> HandlerRecord] /\ DOMAIN tsk = IsoTasks BY <1>4, <1>7
    <3> QED BY <1>1, <2>1, <2>2, <3>1, <3>2 DEF IhmTypeOK
  <2>4. Beginning BY <2>1 DEF Beginning, At
  <2>5. \A i \in DOMAIN m_IsoHandlers : m_IsoHandlers[i] = i /\ hd[i] = Registered(i) BY <1>3, <1>7
  <2>6. ListIsSound
    <3>1. \A i \in DOMAIN m_IsoHandlers : Listed(m_IsoHandlers[i])
      BY <1>3, <1>4, <2>2, <2>5 DEF Listed, Types
    <3> QED BY <2>5, <3>1 DEF ListIsSound
  <2>7. ClientIsSound BY <1>5 DEF ClientIsSound
  <2>8. ResetIsSound BY <1>5, <2>1 DEF ResetIsSound
  <2>9. \A t \in IsoTasks : TaskIsSound(t) BY <2>1 DEF TaskIsSound, Updating
  <2>10. \A t \in IsoTasks : Current(t)
    <3>1. \A i \in DOMAIN m_IsoHandlers, t \in IsoTasks : \A s : Seen(t, m_IsoHandlers[i], s)
      BY <1>4, <2>2, <2>5 DEF Seen, Settled, isEnabled
    <3> QED BY <2>1, <3>1 DEF Current
  <2>11. \A t \in IsoTasks : MapIsKept(t) BY <2>1, <2>10 DEF MapIsKept, Updating
  <2> QED BY <2>3, <2>4, <2>6, <2>7, <2>8, <2>9, <2>11 DEF IhmSound
<1> QED BY <1>6, <1>7 DEF IhmInit

LEMMA IhmKeeps == ASSUME ~LateInit PROVE IhmIInv /\ [IhmNext]_ihmVars => IhmIInv'
<1> SUFFICES ASSUME IhmIInv, [IhmNext]_ihmVars, undefined' = "no" PROVE IhmSound' /\ AllTasks'
  BY DEF IhmIInv, AllTasks
<1>1. CASE IhmNext
  <2>1. undefined = "no" BY <1>1 DEF IhmNext, ClientStep, TaskStep, ResetStep, signalActivity
  <2>2. IhmSound /\ AllTasks BY <2>1 DEF IhmIInv, AllTasks
  <2> QED BY <1>1, <2>2, ClientKeeps, TaskStepKeeps, ResetKeeps, SignalKeeps DEF IhmNext
<1>2. CASE UNCHANGED ihmVars
  <2>1. UNCHANGED <<types, m_IsoHandlers, hd, tsk, cli, rst, undefined>> BY <1>2 DEF ihmVars
  <2>2. IhmSound /\ AllTasks BY <2>1 DEF IhmIInv, AllTasks
  <2>3. IhmSound'
    BY <2>1, <2>2 DEF IhmSound, IhmTypeOK, Beginning, At, ListIsSound, Listed, ClientIsSound, ResetIsSound
  <2>4. AllTasks'
    <3>1. \A u \in IsoTasks : Awaited(u) => Awaited(u)' BY <2>1 DEF Awaited
    <3>2. \A u \in IsoTasks : \A i \in DOMAIN m_IsoHandlers : HandlerKept(u, m_IsoHandlers[i])
      BY <2>1 DEF HandlerKept
    <3> QED BY <2>1, <2>2, <3>1, <3>2, TasksKept DEF IhmSound
  <2> QED BY <2>3, <2>4
<1> QED BY <1>1, <1>2

\* What the invariant says at the top of Execute.
LEMMA MapOfInvariant == IhmIInv => MapIsCurrent
<1> SUFFICES ASSUME IhmIInv, undefined = "no", NEW t \in IsoTasks,
                    At(t, "loop"), tsk[t].req = 0, cli.pc # "request", rst.pc \in {"idle", "begin"}
             PROVE  /\ \A k \in ToSet(m_IsoHandlers) : hd[k].type = t /\ isEnabled(k) => k \in ToSet(tsk[t].map)
                    /\ \A k \in ToSet(tsk[t].map) : hd[k].alive
                    /\ \A k \in ToSet(m_IsoHandlers) : hd[k].type = t /\ hd[k].state # hd[k].next => hd[k].quiet
  BY DEF MapIsCurrent
<1>1. ~Updating(t) /\ ~Awaited(t) BY DEF At, Updating, Awaited
<1>2. Current(t) BY <1>1 DEF IhmIInv, MapIsKept
<1>3. \A k \in ToSet(m_IsoHandlers) : Seen(t, k, tsk[t].map) BY <1>2 DEF Current, ToSet
<1>4. \A k \in ToSet(tsk[t].map) : k \in ToSet(m_IsoHandlers) BY <1>2 DEF Current, ToSet
<1>5. \A k \in ToSet(m_IsoHandlers) : hd[k].alive BY DEF IhmIInv, IhmSound, ListIsSound, Listed, ToSet
<1> QED BY <1>3, <1>4, <1>5 DEF Seen, Settled

\* As long as nothing is undefined, and if nobody calls before the threads of the tasks have
\* begun: the list of handlers is sound, and a task with no request left, and none still to
\* be counted, has a current map; one with a single request is on its way to one.
THEOREM AlwaysIhmIInv == ASSUME ~LateInit PROVE IhmSpec => []IhmIInv
<1>1. IhmInit => IhmIInv BY IhmBegins
<1>2. IhmIInv /\ [IhmNext]_ihmVars => IhmIInv' BY IhmKeeps
<1> QED BY <1>1, <1>2, PTL DEF IhmSpec

\* A task whose requests are all served polls what is enabled and nothing that was deleted
\* (IsoTask::updateShadowMapHelper and requestShadowMapUpdate, IsoHandlerManager.cpp:97-205,
\* 239-243), for any number of streams, handlers, calls, faults and bus resets.
THEOREM AlwaysMapIsCurrent == ASSUME ~LateInit PROVE IhmSpec => []MapIsCurrent
<1>1. IhmSpec => []IhmIInv BY AlwaysIhmIInv
<1> QED BY <1>1, MapOfInvariant, PTL
=============================================================================
