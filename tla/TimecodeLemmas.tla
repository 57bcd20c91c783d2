--------------------------- MODULE TimecodeLemmas ---------------------------
(* What the operators of Timecode yield, for every rate, offset and label.    *)
(* The heart is UpdateIsRight: the divisions of updateTimecode, and the       *)
(* carry after them, give the label whose frame count is the offset; and      *)
(* LabelIsUnique: no other label of the rate has that count.                  *)
EXTENDS Timecode, TLAPS

-----------------------------------------------------------------------------
(* Arithmetic                                                                 *)

\* A number is its quotient and its remainder.
LEMMA DivMod ==
    ASSUME NEW o \in Int, NEW n \in Nat \ {0}
    PROVE  /\ o \div n \in Int
           /\ o % n \in 0..(n - 1)
           /\ o = n * (o \div n) + (o % n)
OBVIOUS

\* The quotient of two naturals is one.
LEMMA QuotientIsNat ==
    ASSUME NEW o \in Nat, NEW n \in Nat \ {0}
    PROVE  o \div n \in Nat
OBVIOUS

\* The quotient of a number below k times the divisor is below k.
LEMMA DivRange ==
    ASSUME NEW o \in Nat, NEW n \in Nat \ {0}, NEW k \in Nat, o < k * n
    PROVE  o \div n \in 0..(k - 1)
OBVIOUS

\* A number below the divisor is its own remainder.
LEMMA ModSmall ==
    ASSUME NEW n \in Nat \ {0}, NEW x \in 0..(n - 1)
    PROVE  x \div n = 0 /\ x % n = x
OBVIOUS

\* Quotient and remainder are the only such pair.
LEMMA DivModUnique ==
    ASSUME NEW n \in Nat \ {0}, NEW q \in Int, NEW r \in 0..(n - 1)
    PROVE  (n * q + r) \div n = q /\ (n * q + r) % n = r
<1> DEFINE a == (n * q + r) \div n
           e == (n * q + r) % n
<1>1. a \in Int /\ e \in 0..(n - 1) /\ n * q + r = n * a + e
  OBVIOUS
<1>2. n * (q - a) = e - r
  BY <1>1
<1>3. q = a
  <2>1. CASE q - a >= 1
    <3>1. n * (q - a) >= n
      BY <2>1, <1>1
    <3>2. QED BY <3>1, <1>2, <1>1
  <2>2. CASE q - a <= -1
    <3>1. n * (q - a) <= -n
      BY <2>2, <1>1
    <3>2. QED BY <3>1, <1>2, <1>1
  <2>3. QED BY <2>1, <2>2, <1>1
<1>4. QED BY <1>1, <1>2, <1>3

\* Both at once, for the number of a unit counted from one.
LEMMA WithinUnits ==
    ASSUME NEW y \in Nat, NEW n \in Nat \ {0}, y < 9 * n
    PROVE  /\ y \div n \in 0..8
           /\ y % n \in 0..(n - 1)
           /\ (y \div n + 1) * n + (y % n) = y + n
<1> DEFINE q == y \div n
           r == y % n
<1>1. q \in 0..8
  BY DivRange
<1>2. r \in 0..(n - 1) /\ y = n * q + r
  BY DivMod
<1> HIDE DEF q, r
<1>3. (q + 1) * n + r = y + n
  BY <1>1, <1>2
<1>4. QED BY <1>1, <1>2, <1>3 DEF q, r

\* An offset is hours v, tens of minutes u and a rest below u.
LEMMA SplitDay ==
    ASSUME NEW u \in Nat \ {0}, NEW v \in Nat \ {0}, v <= 6 * u, NEW o \in Nat, o < 24 * v
    PROVE  /\ o \div v \in 0..23
           /\ (o % v) \div u \in 0..5
           /\ (o % v) % u \in 0..(u - 1)
           /\ o = (o \div v) * v + ((o % v) \div u) * u + ((o % v) % u)
<1>1. /\ o \div v \in 0..23
      /\ o % v \in 0..(v - 1)
      /\ o = v * (o \div v) + (o % v)
  <2>1. o \div v \in 0..23
    BY DivRange
  <2>2. o % v \in 0..(v - 1) /\ o = v * (o \div v) + (o % v)
    BY DivMod
  <2>3. QED BY <2>1, <2>2
<1> DEFINE i == o % v
           h == o \div v
<1> HIDE DEF i, h
<1>2. i \in Nat /\ i < 6 * u /\ h \in Int
  BY <1>1 DEF i, h
<1>3. i \div u \in 0..5
  BY <1>2, DivRange
<1>4. i % u \in 0..(u - 1) /\ i = u * (i \div u) + (i % u)
  BY <1>2, DivMod
<1>5. o = v * h + i
  BY <1>1 DEF h, i
<1> DEFINE k == i \div u
           x == i % u
<1> HIDE DEF k, x
<1>6. k \in Int /\ x \in Int /\ i = u * k + x
  BY <1>3, <1>4 DEF k, x
<1>7. o = h * v + k * u + x
  BY <1>5, <1>6, <1>2
<1>8. QED BY <1>1, <1>3, <1>4, <1>7 DEF h, i, k, x

\* Seconds and frames of a minute, d dropped numbers added to the frames first
\* and carried then.
LEMMA SplitMinute ==
    ASSUME NEW B \in Nat \ {0}, NEW r \in Nat, NEW d \in 0..(B - 1), r + d < 60 * B
    PROVE  LET f == (r % B) + d
               n == (r \div B) + (f \div B)
           IN  n \in 0..59 /\ f % B \in 0..(B - 1) /\ B * n + (f % B) = r + d
<1> DEFINE a == r \div B
           b == r % B
           f == b + d
           e == f \div B
           g == f % B
<1>1. a \in Int /\ b \in 0..(B - 1) /\ r = B * a + b
  BY DivMod
<1> HIDE DEF a, b
<1>2. f \in Nat
  BY <1>1
<1> HIDE DEF f
<1>3. e \in Int /\ g \in 0..(B - 1) /\ f = B * e + g
  BY <1>2, DivMod
<1> HIDE DEF e, g
<1>4. B * (a + e) + g = r + d
  BY <1>1, <1>3 DEF f
<1>5. (B * (a + e) + g) \div B = a + e
  BY <1>1, <1>3, DivModUnique
<1>6. (r + d) \div B \in 0..59
  BY DivRange
<1>7. a + e \in 0..59
  BY <1>4, <1>5, <1>6
<1>8. QED BY <1>3, <1>4, <1>7 DEF a, b, f, e, g

-----------------------------------------------------------------------------
(* Units of time at a rate                                                    *)

\* An object with a rate, as the constructors leave it.
Rated(t) ==
    /\ t \in [base : Nat \ {0}, drop : BOOLEAN,
              hour : Int, min : Int, sec : Int, frame : Int, offset : Int]
    /\ t.drop => t.base \in {30, 60}

\* A label in range that drop frame numbering has.
Proper(t) ==
    /\ t.hour \in 0..23 /\ t.min \in 0..59 /\ t.sec \in 0..59
    /\ t.frame \in 0..(t.base - 1)
    /\ ~(t.drop /\ t.sec = 0 /\ t.min % 10 # 0 /\ t.frame < DropCount(t))

\* The units are positive, and each is made of the smaller ones.
LEMMA UnitsOfRate ==
    ASSUME NEW t, Rated(t)
    PROVE  /\ DropCount(t) \in 0..(t.base - 1)
           /\ DropCount(t) < t.base
           /\ ~t.drop => DropCount(t) = 0
           /\ FramesPerMin(t) \in Nat \ {0}
           /\ FramesPerMin(t) + DropCount(t) = t.base * 60
           /\ FramesPer10Min(t) \in Nat \ {0}
           /\ FramesPer10Min(t) = t.base * 60 + 9 * FramesPerMin(t)
           /\ FramesPerHour(t) \in Nat \ {0}
           /\ FramesPerHour(t) = 6 * FramesPer10Min(t)
           /\ MaxOffset(t) \in Nat \ {0}
           /\ MaxOffset(t) = 24 * FramesPerHour(t)
<1>1. t.base \in Nat \ {0} /\ (t.drop => t.base = 30 \/ t.base = 60)
  BY DEF Rated
<1>2. /\ DropCount(t) \in 0..(t.base - 1)
      /\ ~t.drop => DropCount(t) = 0
  <2>1. CASE t.drop
    <3>1. CASE t.base = 60
      <4>1. DropCount(t) = 4
        BY <2>1, <3>1 DEF DropCount
      <4>2. QED BY <4>1, <3>1, <2>1
    <3>2. CASE t.base = 30
      <4>1. t.base # 60
        BY <3>2
      <4>2. DropCount(t) = 2
        BY <2>1, <4>1 DEF DropCount
      <4>3. QED BY <4>2, <3>2, <2>1
    <3>3. QED BY <1>1, <2>1, <3>1, <3>2
  <2>2. CASE ~t.drop
    <3>1. DropCount(t) = 0
      BY <2>2 DEF DropCount
    <3>2. QED BY <3>1, <1>1
  <2>3. QED BY <2>1, <2>2
<1> DEFINE B == t.base
           D == DropCount(t)
<1>3. /\ FramesPerMin(t) = B * 60 - D
      /\ FramesPer10Min(t) = FramesPerMin(t) * 10 + D
      /\ FramesPerHour(t) = FramesPer10Min(t) * 6
      /\ MaxOffset(t) = 24 * FramesPerHour(t)
  BY DEF FramesPerMin, FramesPer10Min, FramesPerHour, MaxOffset
<1>4. B \in Nat \ {0} /\ D \in 0..(B - 1)
  BY <1>1, <1>2
<1> HIDE DEF B, D
<1>5. /\ D < B
      /\ FramesPerMin(t) \in Nat \ {0} /\ FramesPerMin(t) + D = B * 60
  BY <1>3, <1>4
<1>6. /\ FramesPer10Min(t) \in Nat \ {0}
      /\ FramesPer10Min(t) = B * 60 + 9 * FramesPerMin(t)
  BY <1>3, <1>4, <1>5
<1>7. /\ FramesPerHour(t) \in Nat \ {0} /\ FramesPerHour(t) = 6 * FramesPer10Min(t)
  BY <1>3, <1>6
<1>8. MaxOffset(t) \in Nat \ {0}
  BY <1>3, <1>7
<1>9. QED BY <1>2, <1>3, <1>5, <1>6, <1>7, <1>8 DEF B, D

\* Inside ten minutes: the minute, and what is left of it with its dropped
\* numbers added, count back to the offset.
LEMMA MinuteIsRight ==
    ASSUME NEW t, Rated(t), NEW x \in 0..(FramesPer10Min(t) - 1)
    PROVE  LET m == MinuteOf(t, x)
               d == IF m.dropped THEN DropCount(t) ELSE 0
           IN  /\ m.min \in 0..9 /\ m.rest \in Nat
               /\ m.rest + d < 60 * t.base
               /\ m.min * FramesPerMin(t) + m.rest + d = x
               /\ m.min # 0 => d = DropCount(t)
               /\ d \in 0..(t.base - 1)
<1> DEFINE B == t.base
           F == FramesPerMin(t)
           D == DropCount(t)
           m == MinuteOf(t, x)
           later == x - B * 60
<1>1. /\ B \in Nat \ {0} /\ F \in Nat \ {0} /\ D \in 0..(B - 1)
      /\ F + D = B * 60 /\ x < B * 60 + 9 * F /\ x \in Nat
      /\ ~t.drop => D = 0
  BY UnitsOfRate DEF Rated
<1>2. CASE later < 0
  <2>1. m = [min |-> 0, rest |-> x, dropped |-> FALSE]
    BY <1>2 DEF MinuteOf
  <2>2. 0 * F = 0
    BY <1>1
  <2>3. QED BY <2>1, <2>2, <1>1, <1>2
<1>3. CASE ~(later < 0)
  <2> DEFINE q == later \div F
             r == later % F
  <2>1. m = [min |-> q + 1, rest |-> r, dropped |-> t.drop]
    BY <1>3 DEF MinuteOf
  <2>2. later \in Nat /\ later < 9 * F
    BY <1>1, <1>3
  <2>3. /\ q \in 0..8
        /\ r \in 0..(F - 1)
        /\ (q + 1) * F + r = later + F
    BY <2>2, <1>1, WithinUnits
  <2>4. (IF t.drop THEN D ELSE 0) = D
    BY <1>1
  <2>5. later + F + D = x
    BY <1>1
  <2>6. /\ m.min = q + 1 /\ m.rest = r
        /\ (IF m.dropped THEN D ELSE 0) = D
    BY <2>1, <2>4
  <2> HIDE DEF q, r, F, D, later, B, m
  <2>7. q + 1 \in 0..9 /\ r \in Nat /\ r + D < 60 * B
    BY <2>3, <1>1
  <2>8. (q + 1) * F + r + D = x
    BY <2>3, <2>5, <1>1
  <2>9. QED
    BY <2>6, <2>7, <2>8, <1>1 DEF m, B, D, F
<1>4. QED BY <1>2, <1>3

-----------------------------------------------------------------------------
(* Offset to label, and label to offset                                       *)

\* updateTimecode, its divisions named: the label is hour h, minute 10 k + M,
\* second n and frame g, and no carry leaves its unit.
LEMMA LabelOfOffset ==
    ASSUME NEW t, Rated(t), t.offset \in 0..(MaxOffset(t) - 1)
    PROVE  \E h \in 0..23, k \in 0..5, M \in 0..9, n \in 0..59,
              g \in 0..(t.base - 1), d \in 0..(t.base - 1) :
              /\ UpdateTimecode(t) = [t EXCEPT !.hour = h, !.min = k * 10 + M,
                                               !.sec = n, !.frame = g]
              /\ t.offset = h * FramesPerHour(t) + k * FramesPer10Min(t)
                            + M * FramesPerMin(t) + (t.base * n + g)
              /\ M # 0 => d = DropCount(t)
              /\ d <= t.base * n + g
<1> DEFINE B == t.base
           F10 == FramesPer10Min(t)
           FH == FramesPerHour(t)
           o == t.offset
           h == o \div FH
           k == (o % FH) \div F10
           x == (o % FH) % F10
           m == MinuteOf(t, x)
           d == IF m.dropped THEN DropCount(t) ELSE 0
           f == (m.rest % B) + d
           n == (m.rest \div B) + (f \div B)
           g == f % B
           M == m.min
<1>1. /\ B \in Nat \ {0} /\ F10 \in Nat \ {0} /\ FH \in Nat \ {0}
      /\ FramesPerMin(t) \in Nat
      /\ FH = 6 * F10 /\ o \in Nat /\ o < 24 * FH
  BY UnitsOfRate DEF Rated
<1>2. UpdateTimecode(t) =
        [t EXCEPT !.hour = (h + ((k * 10 + M + (n \div 60)) \div 60)) % 24,
                  !.min  = (k * 10 + M + (n \div 60)) % 60,
                  !.sec  = n % 60, !.frame = g]
  BY DEF UpdateTimecode
<1> HIDE DEF B, F10, FH, o
<1>3. /\ h \in 0..23 /\ k \in 0..5 /\ x \in 0..(F10 - 1)
      /\ o = h * FH + k * F10 + x
  <2>1. FH <= 6 * F10
    BY <1>1
  <2>2. QED BY <1>1, <2>1, SplitDay
<1> HIDE DEF h, k, x
<1>4. /\ M \in 0..9 /\ m.rest \in Nat
      /\ m.rest + d < 60 * B
      /\ M * FramesPerMin(t) + m.rest + d = x
      /\ M # 0 => d = DropCount(t)
      /\ d \in 0..(B - 1)
  BY <1>3, MinuteIsRight DEF F10, B
<1> HIDE DEF m, d
<1>5. n \in 0..59 /\ g \in 0..(B - 1) /\ B * n + g = m.rest + d
  BY <1>1, <1>4, SplitMinute
<1> DEFINE r == m.rest
<1> HIDE DEF M, n, g, f, r
<1>6. /\ n \div 60 = 0 /\ n % 60 = n
      /\ k * 10 + M \in 0..59 /\ k * 10 + M + 0 = k * 10 + M
  <2>1. n \div 60 = 0 /\ n % 60 = n
    BY <1>5, ModSmall
  <2>2. QED BY <2>1, <1>3, <1>4
<1>7. (k * 10 + M) \div 60 = 0 /\ (k * 10 + M) % 60 = k * 10 + M
  BY <1>6, ModSmall
<1>8. h + 0 = h /\ h % 24 = h
  BY <1>3, ModSmall
<1>9. UpdateTimecode(t) = [t EXCEPT !.hour = h, !.min = k * 10 + M, !.sec = n, !.frame = g]
  <2>1. k * 10 + M + (n \div 60) = k * 10 + M
    BY <1>6, Zenon
  <2>2. (k * 10 + M + (n \div 60)) % 60 = k * 10 + M
    BY <2>1, <1>7, Zenon
  <2>3. (k * 10 + M + (n \div 60)) \div 60 = 0
    BY <2>1, <1>7, Zenon
  <2>4. (h + ((k * 10 + M + (n \div 60)) \div 60)) % 24 = h
    BY <2>3, <1>8, Zenon
  <2>5. n % 60 = n
    BY <1>6
  <2>6. QED BY <1>2, <2>2, <2>4, <2>5, Zenon
<1>10. r \in Nat /\ d \in Nat /\ M * FramesPerMin(t) + r + d = x /\ B * n + g = r + d
  BY <1>1, <1>4, <1>5 DEF r
<1>11. d <= B * n + g
  BY <1>10
<1>12. x = M * FramesPerMin(t) + (B * n + g)
  BY <1>1, <1>4, <1>10
<1>13. o = h * FH + k * F10 + M * FramesPerMin(t) + (B * n + g)
  <2> DEFINE y == B * n + g
  <2>1. y \in Nat
    BY <1>10
  <2> HIDE DEF y
  <2>2. QED BY <1>1, <1>3, <1>4, <1>12, <2>1 DEF y
<1>14. QED
  BY <1>3, <1>4, <1>5, <1>9, <1>11, <1>13 DEF B, F10, FH, o

\* The label computed from an offset is proper and counts back to it.
LEMMA UpdateIsRight ==
    ASSUME NEW t, Rated(t), t.offset \in 0..(MaxOffset(t) - 1)
    PROVE  LET u == UpdateTimecode(t)
           IN  /\ Rated(u) /\ Proper(u)
               /\ u.base = t.base /\ u.drop = t.drop /\ u.offset = t.offset
               /\ TotalFrames(u) = t.offset
<1> DEFINE u == UpdateTimecode(t)
<1>1. PICK h \in 0..23, k \in 0..5, M \in 0..9, n \in 0..59,
           g \in 0..(t.base - 1), d \in 0..(t.base - 1) :
              /\ u = [t EXCEPT !.hour = h, !.min = k * 10 + M, !.sec = n, !.frame = g]
              /\ t.offset = h * FramesPerHour(t) + k * FramesPer10Min(t)
                            + M * FramesPerMin(t) + (t.base * n + g)
              /\ M # 0 => d = DropCount(t)
              /\ d <= t.base * n + g
  BY LabelOfOffset
<1>2. t \in [base : Nat \ {0}, drop : BOOLEAN,
             hour : Int, min : Int, sec : Int, frame : Int, offset : Int]
  BY DEF Rated
<1>3. /\ u.base = t.base /\ u.drop = t.drop /\ u.offset = t.offset
      /\ u.hour = h /\ u.min = k * 10 + M /\ u.sec = n /\ u.frame = g
  BY <1>1, <1>2
<1> HIDE DEF u
<1>4. Rated(u)
  <2>1. u \in [base : Nat \ {0}, drop : BOOLEAN,
               hour : Int, min : Int, sec : Int, frame : Int, offset : Int]
    <3>1. h \in Int /\ k * 10 + M \in Int /\ n \in Int /\ g \in Int
      BY <1>2
    <3>2. QED BY <1>1, <1>2, <3>1
  <2>2. u.drop => u.base \in {30, 60}
    BY <1>3 DEF Rated
  <2>3. QED BY <2>1, <2>2 DEF Rated
<1>5. DropCount(u) = DropCount(t)
  BY <1>3 DEF DropCount
<1>6. /\ FramesPerMin(u) = FramesPerMin(t)
      /\ FramesPer10Min(u) = FramesPer10Min(t)
      /\ FramesPerHour(u) = FramesPerHour(t)
  BY <1>3, <1>5 DEF FramesPerMin, FramesPer10Min, FramesPerHour
<1>7. k * 10 + M \in 0..59
  OBVIOUS
<1>8. (k * 10 + M) \div 10 = k /\ (k * 10 + M) % 10 = M
  <2>1. k * 10 = 10 * k
    OBVIOUS
  <2>2. (10 * k + M) \div 10 = k /\ (10 * k + M) % 10 = M
    <3>1. 10 \in Nat \ {0} /\ k \in Int /\ M \in 0..(10 - 1)
      OBVIOUS
    <3>2. QED BY <3>1, DivModUnique, Zenon
  <2>3. QED BY <2>1, <2>2
<1>9. Proper(u)
  <2>1. ASSUME u.sec = 0, u.min % 10 # 0, u.frame < DropCount(u)
        PROVE  FALSE
    <3>1. n = 0 /\ M # 0 /\ g < DropCount(t)
      BY <2>1, <1>3, <1>5, <1>8
    <3>2. t.base * n + g = g
      BY <3>1, <1>2
    <3>3. QED BY <3>1, <3>2, <1>1
  <2>2. /\ u.hour \in 0..23 /\ u.min \in 0..59 /\ u.sec \in 0..59
        /\ u.frame \in 0..(u.base - 1)
    BY <1>3, <1>7
  <2>3. QED BY <2>1, <2>2 DEF Proper
<1>10. TotalFrames(u) = t.offset
  <2> DEFINE FM == FramesPerMin(t)
             F10 == FramesPer10Min(t)
             FH == FramesPerHour(t)
             B == t.base
  <2>1. /\ FM \in Nat /\ F10 \in Nat /\ FH \in Nat /\ B \in Nat
        /\ F10 = B * 60 + 9 * FM /\ FM + DropCount(t) = B * 60
        /\ ~t.drop => DropCount(t) = 0
    BY UnitsOfRate, <1>2
  <2>2. TotalFrames(u) = h * FH
            + (IF t.drop THEN k * F10 + M * FM ELSE (k * 10 + M) * FM)
            + n * B + g
    BY <1>3, <1>6, <1>8 DEF TotalFrames
  <2>3. t.offset = h * FH + k * F10 + M * FM + (B * n + g)
    BY <1>1
  <2> HIDE DEF FM, F10, FH, B
  <2>4. k * F10 \in Int /\ M * FM \in Int /\ n * B = B * n /\ B * n \in Int /\ h * FH \in Int /\ g \in Int
    BY <2>1
  <2>5. CASE t.drop
    <3>1. TotalFrames(u) = h * FH + (k * F10 + M * FM) + n * B + g
      BY <2>2, <2>5
    <3>2. QED BY <3>1, <2>3, <2>4
  <2>6. CASE ~t.drop
    <3>1. F10 = 10 * FM
      BY <2>1, <2>6
    <3>2. (k * 10 + M) * FM = k * F10 + M * FM
      BY <3>1, <2>1
    <3>3. TotalFrames(u) = h * FH + (k * 10 + M) * FM + n * B + g
      BY <2>2, <2>6
    <3>4. QED BY <3>2, <3>3, <2>3, <2>4
  <2>7. QED BY <2>5, <2>6
<1>11. QED BY <1>3, <1>4, <1>9, <1>10 DEF u

\* A proper label counts to less than a day.
LEMMA ProperCountsInDay ==
    ASSUME NEW t, Rated(t), Proper(t)
    PROVE  TotalFrames(t) \in 0..(MaxOffset(t) - 1)
<1> DEFINE FM == FramesPerMin(t)
           F10 == FramesPer10Min(t)
           FH == FramesPerHour(t)
           B == t.base
           k == t.min \div 10
           M == t.min % 10
           h == t.hour
           s == t.sec * B + t.frame
<1>1. /\ FM \in Nat /\ F10 \in Nat /\ FH \in Nat /\ B \in Nat \ {0}
      /\ F10 = B * 60 + 9 * FM /\ FM + DropCount(t) = B * 60
      /\ DropCount(t) \in Nat /\ FH = 6 * F10
      /\ ~t.drop => DropCount(t) = 0
      /\ MaxOffset(t) = 24 * FH
  BY UnitsOfRate DEF Rated
<1>2. t.min \in Nat /\ t.min < 6 * 10 /\ h \in 0..23
  BY DEF Proper
<1>3. k \in 0..5
  BY <1>2, DivRange
<1>4. M \in 0..9 /\ t.min = 10 * k + M
  <2>1. t.min \in Int /\ 10 \in Nat \ {0}
    BY <1>2
  <2>2. M \in 0..(10 - 1) /\ t.min = 10 * k + M
    BY <2>1, DivMod
  <2>3. QED BY <2>2
<1>5. s \in Nat /\ s < 60 * B
  <2>1. t.sec \in 0..59 /\ t.frame \in 0..(B - 1)
    BY DEF Proper
  <2>2. t.sec * B <= 59 * B /\ t.sec * B \in Nat
    BY <2>1, <1>1
  <2>3. QED BY <2>1, <2>2, <1>1
<1>6. TotalFrames(t) = h * FH + (IF t.drop THEN k * F10 + M * FM ELSE t.min * FM) + t.sec * B + t.frame
  BY DEF TotalFrames
<1>7. TotalFrames(t) = h * FH + (k * F10 + M * FM) + s
  <2>1. t.sec * B \in Int /\ t.frame \in Int
    BY <1>1 DEF Proper
  <2> HIDE DEF FM, F10, FH, B, k, M, h
  <2>2. h * FH \in Int /\ k * F10 \in Int /\ M * FM \in Int
    BY <1>1, <1>2, <1>3, <1>4
  <2>3. CASE t.drop
    <3>1. TotalFrames(t) = h * FH + (k * F10 + M * FM) + t.sec * B + t.frame
      BY <1>6, <2>3
    <3>2. QED BY <3>1, <2>1, <2>2
  <2>4. CASE ~t.drop
    <3>1. F10 = 10 * FM
      BY <1>1, <2>4
    <3>2. t.min * FM = k * F10 + M * FM
      BY <3>1, <1>1, <1>3, <1>4
    <3>3. TotalFrames(t) = h * FH + (k * F10 + M * FM) + t.sec * B + t.frame
      BY <1>6, <2>4, <3>2
    <3>4. QED BY <3>3, <2>1, <2>2
  <2>5. QED BY <2>3, <2>4
<1> HIDE DEF FM, F10, FH, B, k, M, h, s
<1>8. M * FM \in Nat /\ M * FM <= 9 * FM
  BY <1>1, <1>4
<1>9. M * FM + s \in Nat /\ M * FM + s < F10
  BY <1>1, <1>5, <1>8
<1>10. k * F10 \in Nat /\ k * F10 <= 5 * F10
  BY <1>1, <1>3
<1>11. h * FH \in Nat /\ h * FH <= 23 * FH
  BY <1>1, <1>2
<1>12. QED
  BY <1>1, <1>5, <1>7, <1>8, <1>9, <1>10, <1>11

-----------------------------------------------------------------------------
(* The members function by function                                                                  *)

\* Invalid, or with a rate, in range and in agreement.
Sound(t) ==
    \/ t = Invalid
    \/ /\ Rated(t)
       /\ Proper(t)
       /\ t.offset \in 0..(MaxOffset(t) - 1)
       /\ t.offset = TotalFrames(t)

\* What is kept of an object that is not in agreement yet.
Seeded(t) == t = Invalid \/ Rated(t)

\* A rate of no frame a second is that of the invalid object.
LEMMA NoRateIsInvalid ==
    ASSUME NEW d \in BOOLEAN
    PROVE  InitRate(0, d) = Invalid
<1> DEFINE e == d /\ 0 \in {30, 60}
<1>1. e = FALSE
  OBVIOUS
<1>2. InitRate(0, d) = [Invalid EXCEPT !.base = 0, !.drop = e]
  BY DEF InitRate
<1> HIDE DEF e
<1>3. QED BY <1>1, <1>2 DEF Invalid

\* The constructors' init gives an object with the rate, at 0.
LEMMA InitRateIsSound ==
    ASSUME NEW b \in Nat \ {0}, NEW d \in BOOLEAN
    PROVE  LET t == InitRate(b, d)
           IN  /\ Seeded(t) /\ Rated(t) /\ Sound(t)
               /\ t.base = b /\ t.drop = (d /\ b \in {30, 60})
<1> DEFINE t == InitRate(b, d)
<1>1. b \in Nat \ {0}
  OBVIOUS
<1> DEFINE e == d /\ b \in {30, 60}
<1>2. t = [base |-> b, drop |-> e,
           hour |-> 0, min |-> 0, sec |-> 0, frame |-> 0, offset |-> 0]
  <2>1. t = [Invalid EXCEPT !.base = b, !.drop = e]
    BY DEF InitRate
  <2> HIDE DEF e, t
  <2>2. QED BY <2>1 DEF Invalid
<1>3. Rated(t) /\ t.base = b
  <2>1. e \in BOOLEAN
    OBVIOUS
  <2> HIDE DEF e, t
  <2>2. /\ t.base = b /\ t.drop = e
        /\ t \in [base : Nat \ {0}, drop : BOOLEAN,
                  hour : Int, min : Int, sec : Int, frame : Int, offset : Int]
    BY <1>1, <1>2, <2>1
  <2>3. t.drop => t.base \in {30, 60}
    BY <2>2 DEF e
  <2>4. QED BY <2>2, <2>3 DEF Rated
<1>4. t.hour = 0 /\ t.min = 0 /\ t.sec = 0 /\ t.frame = 0 /\ t.offset = 0
  BY <1>2
<1> HIDE DEF t
<1>5. 0 \div 10 = 0 /\ 0 % 10 = 0
  <2>1. 10 \in Nat \ {0} /\ 0 \in 0..(10 - 1)
    OBVIOUS
  <2>2. QED BY <2>1, ModSmall
<1>6. Proper(t)
  BY <1>1, <1>3, <1>4, <1>5 DEF Proper
<1>7. TotalFrames(t) = 0
  <2>1. FramesPerHour(t) \in Nat /\ FramesPer10Min(t) \in Nat /\ FramesPerMin(t) \in Nat
    BY <1>3, UnitsOfRate
  <2>2. TotalFrames(t) = 0 * FramesPerHour(t)
            + (IF t.drop THEN 0 * FramesPer10Min(t) + 0 * FramesPerMin(t)
                         ELSE 0 * FramesPerMin(t)) + 0 * b + 0
    BY <1>3, <1>4, <1>5 DEF TotalFrames
  <2>3. 0 * FramesPerHour(t) = 0 /\ 0 * FramesPer10Min(t) = 0 /\ 0 * FramesPerMin(t) = 0 /\ 0 * b = 0
    BY <2>1, <1>1
  <2>4. QED BY <2>2, <2>3
<1>8. 0 \in 0..(MaxOffset(t) - 1)
  BY <1>3, UnitsOfRate
<1>9. t.drop = (d /\ b \in {30, 60})
  BY <1>2 DEF t
<1>10. QED BY <1>3, <1>4, <1>6, <1>7, <1>8, <1>9 DEF Sound, Seeded, t

\* init(offset) and addOffset: any offset ends within the day.
LEMMA SetOffsetIsSound ==
    ASSUME NEW t, Seeded(t), NEW o \in Int
    PROVE  /\ Sound(SetOffset(t, o))
           /\ SetOffset(t, o).base = t.base /\ SetOffset(t, o).drop = t.drop
           /\ t.base # 0 => SetOffset(t, o).offset = o % MaxOffset(t)
<1>1. CASE t = Invalid
  <2>1. t.base = 0
    BY <1>1 DEF Invalid
  <2>2. QED BY <1>1, <2>1 DEF SetOffset, Sound
<1>2. CASE Rated(t)
  <2> DEFINE M == MaxOffset(t)
             p == o % M
             c == [t EXCEPT !.offset = p]
  <2>1. M \in Nat \ {0}
    BY <1>2, UnitsOfRate
  <2>2. p \in 0..(M - 1)
    BY <2>1, DivMod
  <2>3. t \in [base : Nat \ {0}, drop : BOOLEAN,
               hour : Int, min : Int, sec : Int, frame : Int, offset : Int]
    BY <1>2 DEF Rated
  <2>4. SetOffset(t, o) = UpdateTimecode(c)
    BY <2>3 DEF SetOffset
  <2> HIDE DEF M, p
  <2>5. /\ c.base = t.base /\ c.drop = t.drop /\ c.offset = p
        /\ c \in [base : Nat \ {0}, drop : BOOLEAN,
                  hour : Int, min : Int, sec : Int, frame : Int, offset : Int]
    BY <2>2, <2>3, <2>1
  <2> HIDE DEF c
  <2>6. Rated(c)
    <3>1. c.drop => c.base \in {30, 60}
      BY <2>5, <1>2 DEF Rated
    <3>2. QED BY <3>1, <2>5 DEF Rated
  <2>7. MaxOffset(c) = M
    BY <2>5 DEF M, MaxOffset, FramesPerHour, FramesPer10Min, FramesPerMin, DropCount
  <2> DEFINE u == UpdateTimecode(c)
  <2>8. /\ Rated(u) /\ Proper(u)
        /\ u.base = c.base /\ u.drop = c.drop /\ u.offset = c.offset
        /\ TotalFrames(u) = c.offset
    BY <2>2, <2>5, <2>6, <2>7, UpdateIsRight
  <2> HIDE DEF u
  <2>9. MaxOffset(u) = M
    BY <2>5, <2>8 DEF M, MaxOffset, FramesPerHour, FramesPer10Min, FramesPerMin, DropCount
  <2>10. Sound(u)
    BY <2>2, <2>5, <2>8, <2>9, <1>2 DEF Sound
  <2>11. QED BY <2>4, <2>5, <2>8, <2>10 DEF u, p, M
<1>3. QED BY <1>1, <1>2 DEF Seeded

\* init(hour, min, sec, frame): any label ends in range, off the dropped ones.
LEMMA SetLabelIsSound ==
    ASSUME NEW t, Seeded(t), NEW l \in [hour : Nat, min : Nat, sec : Nat, frame : Nat]
    PROVE  /\ Sound(SetLabel(t, l))
           /\ SetLabel(t, l).base = t.base /\ SetLabel(t, l).drop = t.drop
<1>1. CASE t = Invalid
  <2>1. CleanTimecode(t, l) = Invalid
    BY <1>1 DEF CleanTimecode, Invalid
  <2>2. Invalid.offset = 0 /\ [Invalid EXCEPT !.offset = 0] = Invalid
    BY DEF Invalid
  <2>3. TotalFrames(Invalid) = 0
    BY DEF TotalFrames, Invalid, FramesPerHour, FramesPer10Min, FramesPerMin, DropCount
  <2>4. SetLabel(t, l) = Invalid
    BY <2>1, <2>2, <2>3 DEF SetLabel
  <2>5. QED BY <1>1, <2>4 DEF Sound
<1>2. CASE Rated(t)
  <2> DEFINE c == CleanTimecode(t, l)
             s == SetLabel(t, l)
             D == DropCount(t)
  <2>1. t \in [base : Nat \ {0}, drop : BOOLEAN,
               hour : Int, min : Int, sec : Int, frame : Int, offset : Int]
    BY <1>2 DEF Rated
  <2>2. D \in 0..(t.base - 1)
    BY <1>2, UnitsOfRate
  <2>3. /\ l.hour % 24 \in 0..23 /\ l.min % 60 \in 0..59 /\ l.sec % 60 \in 0..59
        /\ l.frame % t.base \in 0..(t.base - 1)
    <3>1. 24 \in Nat \ {0} /\ 60 \in Nat \ {0}
      OBVIOUS
    <3>2. l.hour \in Int /\ l.min \in Int /\ l.sec \in Int /\ l.frame \in Int
      OBVIOUS
    <3>3. l.hour % 24 \in 0..(24 - 1) /\ l.min % 60 \in 0..(60 - 1) /\ l.sec % 60 \in 0..(60 - 1)
      BY <3>1, <3>2, DivMod
    <3>4. l.frame % t.base \in 0..(t.base - 1)
      BY <2>1, <3>2, DivMod
    <3>5. QED BY <3>3, <3>4
  <2>4. PICK h \in 0..23, m \in 0..59, n \in 0..59, f \in 0..(t.base - 1) :
          /\ c = [t EXCEPT !.hour = h, !.min = m, !.sec = n, !.frame = f]
          /\ ~(t.drop /\ n = 0 /\ m % 10 # 0 /\ f < D)
    <3> DEFINE h == l.hour % 24
               m == l.min % 60
               n == l.sec % 60
               g == l.frame % t.base
               f == IF t.drop /\ n = 0 /\ m % 10 # 0 /\ g < D THEN D ELSE g
    <3>1. t.base # 0
      BY <2>1
    <3>2. c = [t EXCEPT !.hour = h, !.min = m, !.sec = n, !.frame = f]
      BY <3>1 DEF CleanTimecode
    <3> HIDE DEF h, m, n, g, D
    <3>3. f \in 0..(t.base - 1) /\ ~(t.drop /\ n = 0 /\ m % 10 # 0 /\ f < D)
      <4>1. CASE t.drop /\ n = 0 /\ m % 10 # 0 /\ g < D
        <5>1. f = D
          BY <4>1
        <5>2. ~(D < D)
          BY <2>1, <2>2
        <5>3. QED BY <5>1, <5>2, <2>2
      <4>2. CASE ~(t.drop /\ n = 0 /\ m % 10 # 0 /\ g < D)
        <5>1. f = g
          BY <4>2
        <5>2. QED BY <4>2, <5>1, <2>3 DEF g
      <4>3. QED BY <4>1, <4>2
    <3>4. h \in 0..23 /\ m \in 0..59 /\ n \in 0..59
      BY <2>3 DEF h, m, n
    <3> HIDE DEF f, c
    <3>5. QED BY <3>2, <3>3, <3>4
  <2>5. s = [c EXCEPT !.offset = TotalFrames(c)]
    BY DEF SetLabel
  <2> HIDE DEF c, s
  <2>6. /\ c.base = t.base /\ c.drop = t.drop
        /\ c.hour = h /\ c.min = m /\ c.sec = n /\ c.frame = f
        /\ c \in [base : Nat \ {0}, drop : BOOLEAN,
                  hour : Int, min : Int, sec : Int, frame : Int, offset : Int]
    <3>1. h \in Int /\ m \in Int /\ n \in Int /\ f \in Int
      BY <2>1
    <3>2. QED BY <2>1, <2>4, <3>1
  <2>7. Rated(c)
    <3>1. c.drop => c.base \in {30, 60}
      BY <2>6, <1>2 DEF Rated
    <3>2. QED BY <3>1, <2>6 DEF Rated
  <2>8. Proper(c)
    <3>1. DropCount(c) = D
      BY <2>6 DEF DropCount
    <3>2. QED BY <2>4, <2>6, <3>1 DEF Proper
  <2>9. TotalFrames(c) \in 0..(MaxOffset(c) - 1)
    BY <2>7, <2>8, ProperCountsInDay
  <2>10. MaxOffset(c) \in Nat
    BY <2>7, UnitsOfRate
  <2>11. /\ s.base = c.base /\ s.drop = c.drop
         /\ s.hour = c.hour /\ s.min = c.min /\ s.sec = c.sec /\ s.frame = c.frame
         /\ s.offset = TotalFrames(c)
         /\ s \in [base : Nat \ {0}, drop : BOOLEAN,
                   hour : Int, min : Int, sec : Int, frame : Int, offset : Int]
    <3>1. TotalFrames(c) \in Int
      BY <2>9, <2>10
    <3>2. QED BY <2>5, <2>6, <3>1
  <2>12. DropCount(s) = DropCount(c)
    BY <2>11 DEF DropCount
  <2>13. /\ MaxOffset(s) = MaxOffset(c) /\ TotalFrames(s) = TotalFrames(c)
    BY <2>11, <2>12 DEF MaxOffset, FramesPerHour, FramesPer10Min, FramesPerMin, TotalFrames
  <2>14. Proper(s)
    BY <2>8, <2>11, <2>12 DEF Proper
  <2>15. Rated(s)
    <3>1. s.drop => s.base \in {30, 60}
      BY <2>7, <2>11 DEF Rated
    <3>2. QED BY <3>1, <2>11 DEF Rated
  <2>16. s.base = t.base /\ s.drop = t.drop
    BY <2>6, <2>11
  <2>17. QED
    BY <2>9, <2>11, <2>13, <2>14, <2>15, <2>16 DEF Sound, s
<1>3. QED BY <1>1, <1>2 DEF Seeded

-----------------------------------------------------------------------------
(* A label as hours, tens of minutes, minutes and what is left                *)

\* Frames counted in units: the numbers dropped keep what is left of a minute,
\* but for the first of ten, from being below DropCount.
LEMMA CountInUnits ==
    ASSUME NEW t, Rated(t), Proper(t)
    PROVE  /\ t.min \div 10 \in 0..5 /\ t.min % 10 \in 0..9
           /\ t.min = 10 * (t.min \div 10) + (t.min % 10)
           /\ t.base * t.sec + t.frame \in Nat
           /\ t.base * t.sec + t.frame < 60 * t.base
           /\ t.min % 10 # 0 => DropCount(t) <= t.base * t.sec + t.frame
           /\ TotalFrames(t) = t.hour * FramesPerHour(t)
                 + (t.min \div 10) * FramesPer10Min(t) + (t.min % 10) * FramesPerMin(t)
                 + (t.base * t.sec + t.frame)
<1> DEFINE FM == FramesPerMin(t)
           F10 == FramesPer10Min(t)
           FH == FramesPerHour(t)
           B == t.base
           D == DropCount(t)
           k == t.min \div 10
           M == t.min % 10
           h == t.hour
           y == B * t.sec + t.frame
<1>1. /\ FM \in Nat /\ F10 \in Nat /\ FH \in Nat /\ B \in Nat \ {0}
      /\ F10 = B * 60 + 9 * FM /\ FM + D = B * 60 /\ D \in Nat /\ D < B
      /\ ~t.drop => D = 0
  BY UnitsOfRate DEF Rated
<1>2. /\ t.min \in Nat /\ t.min < 6 * 10 /\ h \in 0..23
      /\ t.sec \in 0..59 /\ t.frame \in 0..(B - 1)
  BY DEF Proper
<1>3. k \in 0..5
  BY <1>2, DivRange
<1>4. M \in 0..9 /\ t.min = 10 * k + M
  <2>1. t.min \in Int /\ 10 \in Nat \ {0}
    BY <1>2
  <2>2. M \in 0..(10 - 1) /\ t.min = 10 * k + M
    BY <2>1, DivMod
  <2>3. QED BY <2>2
<1>5. y \in Nat /\ y < 60 * B
  <2>1. B * t.sec <= 59 * B /\ B * t.sec \in Nat
    BY <1>1, <1>2
  <2>2. QED BY <2>1, <1>1, <1>2
<1>6. M # 0 => D <= y
  <2> SUFFICES ASSUME M # 0 PROVE D <= y
    OBVIOUS
  <2>1. CASE ~t.drop
    BY <2>1, <1>1, <1>5
  <2>2. CASE t.sec = 0 /\ t.drop
    <3>1. D <= t.frame
      BY <2>2, <1>1, <1>2 DEF Proper
    <3>2. B * t.sec = 0
      BY <2>2, <1>1
    <3>3. QED BY <3>1, <3>2, <1>2
  <2>3. CASE t.sec # 0
    <3>1. B * t.sec >= B
      BY <2>3, <1>1, <1>2
    <3>2. QED BY <3>1, <1>1, <1>2
  <2>4. t.drop \in BOOLEAN
    BY DEF Rated
  <2>5. QED BY <2>1, <2>2, <2>3, <2>4
<1>7. TotalFrames(t) = h * FH + (IF t.drop THEN k * F10 + M * FM ELSE t.min * FM)
                       + t.sec * B + t.frame
  BY DEF TotalFrames
<1>8. TotalFrames(t) = h * FH + k * F10 + M * FM + y
  <2>1. t.sec * B = B * t.sec /\ B * t.sec \in Int /\ t.frame \in Int
    BY <1>1, <1>2
  <2> HIDE DEF FM, F10, FH, k, M, h
  <2>2. h * FH \in Int /\ k * F10 \in Int /\ M * FM \in Int
    BY <1>1, <1>2, <1>3, <1>4
  <2>3. CASE t.drop
    <3>1. TotalFrames(t) = h * FH + (k * F10 + M * FM) + t.sec * B + t.frame
      BY <1>7, <2>3
    <3>2. QED BY <3>1, <2>1, <2>2
  <2>4. CASE ~t.drop
    <3>1. F10 = 10 * FM
      BY <1>1, <2>4
    <3>2. t.min * FM = k * F10 + M * FM
      BY <3>1, <1>1, <1>3, <1>4
    <3>3. TotalFrames(t) = h * FH + (k * F10 + M * FM) + t.sec * B + t.frame
      BY <1>7, <2>4, <3>2
    <3>4. QED BY <3>3, <2>1, <2>2
  <2>5. QED BY <2>3, <2>4
<1>9. QED BY <1>3, <1>4, <1>5, <1>6, <1>8

\* In hours of v frames and tens of minutes of u, a count has one hour, one ten
\* of minutes and one rest.
LEMMA SettingOfCount ==
    ASSUME NEW u \in Nat \ {0}, NEW v \in Nat \ {0}, v = 6 * u,
           NEW h \in 0..23, NEW k \in 0..5, NEW a \in 0..(u - 1)
    PROVE  /\ h = (h * v + k * u + a) \div v
           /\ k = ((h * v + k * u + a) % v) \div u
           /\ a = ((h * v + k * u + a) % v) % u
<1> DEFINE b == k * u + a
<1>1. k * u \in Nat /\ k * u <= 5 * u /\ k * u = u * k
  OBVIOUS
<1>2. h * v \in Nat /\ h * v = v * h
  OBVIOUS
<1>3. b \in 0..(v - 1)
  BY <1>1
<1>4. h * v + k * u + a = v * h + b
  BY <1>1, <1>2
<1> HIDE DEF b
<1>5. (v * h + b) \div v = h /\ (v * h + b) % v = b
  <2>1. h \in Int
    OBVIOUS
  <2>2. QED BY <2>1, <1>3, DivModUnique, Zenon
<1>6. b = u * k + a
  BY <1>1 DEF b
<1>7. (u * k + a) \div u = k /\ (u * k + a) % u = a
  <2>1. k \in Int
    OBVIOUS
  <2>2. QED BY <2>1, DivModUnique, Zenon
<1>8. QED BY <1>4, <1>5, <1>6, <1>7

\* In ten minutes of f frames, the first of d more: no two settings count the
\* same.
LEMMA MinuteIsUnique ==
    ASSUME NEW f \in Nat \ {0}, NEW d \in Nat,
           NEW m1 \in 0..9, NEW y1 \in Nat, y1 < f + d, m1 # 0 => d <= y1,
           NEW m2 \in 0..9, NEW y2 \in Nat, y2 < f + d, m2 # 0 => d <= y2,
           m1 * f + y1 = m2 * f + y2
    PROVE  m1 = m2 /\ y1 = y2
<1>1. m1 * f \in Nat /\ m2 * f \in Nat
  OBVIOUS
<1>2. m1 = m2
  <2>1. ASSUME m1 < m2 PROVE FALSE
    <3>1. d <= y2 /\ m2 >= m1 + 1
      BY <2>1
    <3>2. m2 * f >= m1 * f + f
      BY <3>1
    <3>3. QED BY <3>1, <3>2, <1>1
  <2>2. ASSUME m2 < m1 PROVE FALSE
    <3>1. d <= y1 /\ m1 >= m2 + 1
      BY <2>2
    <3>2. m1 * f >= m2 * f + f
      BY <3>1
    <3>3. QED BY <3>1, <3>2, <1>1
  <2>3. QED BY <2>1, <2>2
<1>3. QED BY <1>1, <1>2

\* The units are those of the rate.
LEMMA SameRateSameUnits ==
    ASSUME NEW s, NEW t, s.base = t.base, s.drop = t.drop
    PROVE  /\ DropCount(s) = DropCount(t) /\ FramesPerMin(s) = FramesPerMin(t)
           /\ FramesPer10Min(s) = FramesPer10Min(t)
           /\ FramesPerHour(s) = FramesPerHour(t) /\ MaxOffset(s) = MaxOffset(t)
BY DEF MaxOffset, FramesPerHour, FramesPer10Min, FramesPerMin, DropCount

\* No two labels of a rate count the same.
LEMMA LabelIsUnique ==
    ASSUME NEW s, NEW t, Rated(s), Proper(s), Rated(t), Proper(t),
           s.base = t.base, s.drop = t.drop, TotalFrames(s) = TotalFrames(t)
    PROVE  s.hour = t.hour /\ s.min = t.min /\ s.sec = t.sec /\ s.frame = t.frame
<1> DEFINE f == FramesPerMin(t)
           d == DropCount(t)
           u == FramesPer10Min(t)
           v == FramesPerHour(t)
           y1 == s.base * s.sec + s.frame
           y2 == t.base * t.sec + t.frame
           k1 == s.min \div 10
           k2 == t.min \div 10
           m1 == s.min % 10
           m2 == t.min % 10
<1>1. /\ f \in Nat \ {0} /\ d \in Nat /\ u \in Nat \ {0} /\ v \in Nat \ {0}
      /\ f + d = t.base * 60 /\ u = t.base * 60 + 9 * f /\ v = 6 * u
  BY UnitsOfRate
<1>2. /\ FramesPerMin(s) = f /\ DropCount(s) = d /\ FramesPer10Min(s) = u
      /\ FramesPerHour(s) = v
  BY SameRateSameUnits
<1>3. /\ t.base \in Nat \ {0}
      /\ s.hour \in 0..23 /\ s.sec \in 0..59 /\ s.frame \in 0..(t.base - 1)
      /\ t.hour \in 0..23 /\ t.sec \in 0..59 /\ t.frame \in 0..(t.base - 1)
  BY DEF Proper, Rated
<1>4. /\ k1 \in 0..5 /\ m1 \in 0..9 /\ s.min = 10 * k1 + m1
      /\ y1 \in Nat /\ y1 < 60 * t.base /\ (m1 # 0 => d <= y1)
      /\ TotalFrames(s) = s.hour * v + k1 * u + m1 * f + y1
  BY <1>2, CountInUnits
<1>5. /\ k2 \in 0..5 /\ m2 \in 0..9 /\ t.min = 10 * k2 + m2
      /\ y2 \in Nat /\ y2 < 60 * t.base /\ (m2 # 0 => d <= y2)
      /\ TotalFrames(t) = t.hour * v + k2 * u + m2 * f + y2
  BY CountInUnits
<1> HIDE DEF f, d, u, v, k1, k2, m1, m2
<1>6. s.hour = t.hour /\ k1 = k2 /\ m1 = m2 /\ y1 = y2
  <2> HIDE DEF y1, y2
  <2> DEFINE a1 == m1 * f + y1
             a2 == m2 * f + y2
             h1 == s.hour
             h2 == t.hour
  <2>1. u = 10 * f + d /\ y1 < f + d /\ y2 < f + d
    BY <1>1, <1>3, <1>4, <1>5
  <2>2. m1 * f \in Nat /\ m1 * f <= 9 * f /\ m2 * f \in Nat /\ m2 * f <= 9 * f
    BY <1>1, <1>4, <1>5
  <2>3. a1 \in 0..(u - 1) /\ a2 \in 0..(u - 1)
    BY <1>1, <1>4, <1>5, <2>1, <2>2
  <2>4. h1 * v + k1 * u + a1 = h2 * v + k2 * u + a2
    <3>1. h1 \in Int /\ k1 \in Int /\ h2 \in Int /\ k2 \in Int /\ u \in Int /\ v \in Int
      <4>1. h1 \in Int /\ h2 \in Int
        BY <1>3
      <4>2. k1 \in Int
        BY <1>4
      <4>3. k2 \in Int
        BY <1>5
      <4>4. u \in Int /\ v \in Int
        BY <1>1
      <4>5. QED BY <4>1, <4>2, <4>3, <4>4
    <3>2. h1 * v \in Int /\ k1 * u \in Int /\ h2 * v \in Int /\ k2 * u \in Int
      BY <3>1
    <3>3. y1 \in Int /\ y2 \in Int /\ m1 * f \in Int /\ m2 * f \in Int
      BY <1>4, <1>5, <2>2
    <3>4. h1 * v + k1 * u + m1 * f + y1 = h2 * v + k2 * u + m2 * f + y2
      BY <1>4, <1>5, Zenon
    <3>5. QED BY <3>2, <3>3, <3>4
  <2> HIDE DEF a1, a2
  <2>5. h1 \in 0..23 /\ k1 \in 0..5 /\ h2 \in 0..23 /\ k2 \in 0..5
    BY <1>3, <1>4, <1>5
  <2> HIDE DEF h1, h2
  <2>6. h1 = h2 /\ k1 = k2 /\ a1 = a2
    <3>1. u \in Nat \ {0} /\ v \in Nat \ {0} /\ v = 6 * u
      BY <1>1
    <3>2. h1 \in 0..23 /\ k1 \in 0..5 /\ a1 \in 0..(u - 1)
      BY <2>3, <2>5, Zenon
    <3>3. /\ h1 = (h1 * v + k1 * u + a1) \div v
          /\ k1 = ((h1 * v + k1 * u + a1) % v) \div u
          /\ a1 = ((h1 * v + k1 * u + a1) % v) % u
      <4>1. h1 = (h1 * v + k1 * u + a1) \div v
        BY <3>1, <3>2, SettingOfCount, SMT
      <4>2. k1 = ((h1 * v + k1 * u + a1) % v) \div u
        BY <3>1, <3>2, SettingOfCount, SMT
      <4>3. a1 = ((h1 * v + k1 * u + a1) % v) % u
        BY <3>1, <3>2, SettingOfCount, SMT
      <4>4. QED BY <4>1, <4>2, <4>3, Zenon
    <3>4. h2 \in 0..23 /\ k2 \in 0..5 /\ a2 \in 0..(u - 1)
      BY <2>3, <2>5, Zenon
    <3>5. /\ h2 = (h2 * v + k2 * u + a2) \div v
          /\ k2 = ((h2 * v + k2 * u + a2) % v) \div u
          /\ a2 = ((h2 * v + k2 * u + a2) % v) % u
      <4>1. h2 = (h2 * v + k2 * u + a2) \div v
        BY <3>1, <3>4, SettingOfCount, SMT
      <4>2. k2 = ((h2 * v + k2 * u + a2) % v) \div u
        BY <3>1, <3>4, SettingOfCount, SMT
      <4>3. a2 = ((h2 * v + k2 * u + a2) % v) % u
        BY <3>1, <3>4, SettingOfCount, SMT
      <4>4. QED BY <4>1, <4>2, <4>3, Zenon
    <3>6. QED BY <3>3, <3>5, <2>4, Zenon
  <2>7. m1 = m2 /\ y1 = y2
    <3>1. m1 * f + y1 = m2 * f + y2
      BY <2>6 DEF a1, a2
    <3>2. m1 \in 0..9 /\ y1 \in Nat /\ y1 < f + d /\ (m1 # 0 => d <= y1)
      BY <1>4, <2>1, Zenon
    <3>3. m2 \in 0..9 /\ y2 \in Nat /\ y2 < f + d /\ (m2 # 0 => d <= y2)
      BY <1>5, <2>1, Zenon
    <3>4. f \in Nat \ {0} /\ d \in Nat
      BY <1>1
    <3>5. m1 = m2
      BY <3>1, <3>2, <3>3, <3>4, MinuteIsUnique, SMT
    <3>6. y1 = y2
      BY <3>1, <3>2, <3>3, <3>4, MinuteIsUnique, SMT
    <3>7. QED BY <3>5, <3>6
  <2>8. QED BY <2>6, <2>7 DEF h1, h2
<1>7. s.sec = t.sec /\ s.frame = t.frame
  <2>1. t.base * s.sec + s.frame = t.base * t.sec + t.frame
    BY <1>6
  <2>2. /\ (t.base * s.sec + s.frame) \div t.base = s.sec
        /\ (t.base * s.sec + s.frame) % t.base = s.frame
    <3>1. s.sec \in Int
      BY <1>3
    <3>2. QED BY <3>1, <1>3, DivModUnique, Zenon
  <2>3. /\ (t.base * t.sec + t.frame) \div t.base = t.sec
        /\ (t.base * t.sec + t.frame) % t.base = t.frame
    <3>1. t.sec \in Int
      BY <1>3
    <3>2. QED BY <3>1, <1>3, DivModUnique, Zenon
  <2>4. QED BY <2>1, <2>2, <2>3
<1>8. QED BY <1>4, <1>5, <1>6, <1>7

-----------------------------------------------------------------------------
(* Objects                                                                    *)

\* Of a rate, there is one object with an offset.
LEMMA ObjectIsUnique ==
    ASSUME NEW s, NEW t, Sound(s), Sound(t), s.base # 0, t.base # 0,
           s.base = t.base, s.drop = t.drop, s.offset = t.offset
    PROVE  s = t
<1>1. /\ Rated(s) /\ Proper(s) /\ s.offset = TotalFrames(s)
      /\ Rated(t) /\ Proper(t) /\ t.offset = TotalFrames(t)
  BY DEF Sound, Invalid
<1>2. s.hour = t.hour /\ s.min = t.min /\ s.sec = t.sec /\ s.frame = t.frame
  BY <1>1, LabelIsUnique
<1>3. /\ s \in [base : Nat \ {0}, drop : BOOLEAN,
                hour : Int, min : Int, sec : Int, frame : Int, offset : Int]
      /\ t \in [base : Nat \ {0}, drop : BOOLEAN,
                hour : Int, min : Int, sec : Int, frame : Int, offset : Int]
  BY <1>1 DEF Rated
<1>4. QED BY <1>2, <1>3

\* addOffset moves the offset around the day, and keeps the rate.
LEMMA AddMoves ==
    ASSUME NEW t, Sound(t), t.base # 0, NEW d \in Int
    PROVE  LET u == AddOffset(t, d)
           IN  /\ Sound(u) /\ u.base = t.base /\ u.drop = t.drop
               /\ u.offset = (t.offset + d) % MaxOffset(t)
<1> DEFINE o == t.offset + d
           p == o % MaxOffset(t)
           c == [t EXCEPT !.offset = p]
           u == UpdateTimecode(c)
<1>1. Rated(t)
  BY DEF Sound, Invalid
<1>2. t \in [base : Nat \ {0}, drop : BOOLEAN,
             hour : Int, min : Int, sec : Int, frame : Int, offset : Int]
  BY <1>1 DEF Rated
<1>3. o \in Int
  BY <1>2
<1>4. MaxOffset(t) \in Nat \ {0}
  BY <1>1, UnitsOfRate
<1>5. p \in 0..(MaxOffset(t) - 1)
  BY <1>3, <1>4, DivMod
<1>6. AddOffset(t, d) = u
  BY DEF AddOffset, SetOffset
<1>7. Sound(AddOffset(t, d))
  BY <1>1, <1>3, SetOffsetIsSound DEF Seeded, AddOffset
<1> HIDE DEF p
<1>8. /\ c.base = t.base /\ c.drop = t.drop /\ c.offset = p
      /\ c \in [base : Nat \ {0}, drop : BOOLEAN,
                hour : Int, min : Int, sec : Int, frame : Int, offset : Int]
  BY <1>2, <1>4, <1>5
<1> HIDE DEF c
<1>9. Rated(c)
  <2>1. c.drop => c.base \in {30, 60}
    BY <1>1, <1>8 DEF Rated
  <2>2. QED BY <2>1, <1>8 DEF Rated
<1>10. MaxOffset(c) = MaxOffset(t)
  BY <1>8, SameRateSameUnits
<1>11. u.base = c.base /\ u.drop = c.drop /\ u.offset = c.offset
  BY <1>5, <1>8, <1>9, <1>10, UpdateIsRight
<1>12. QED BY <1>6, <1>7, <1>8, <1>11 DEF p

\* Around the day and back.
LEMMA ModBack ==
    ASSUME NEW m \in Nat \ {0}, NEW o \in 0..(m - 1), NEW d \in Int
    PROVE  (((o + d) % m) + (-d)) % m = o
<1> DEFINE q == (o + d) \div m
           r == (o + d) % m
<1>1. q \in Int /\ r \in 0..(m - 1) /\ o + d = m * q + r
  <2>1. o + d \in Int
    OBVIOUS
  <2>2. QED BY <2>1, DivMod
<1> HIDE DEF q, r
<1>2. -q \in Int /\ m * (-q) = -(m * q) /\ m * q \in Int
  BY <1>1
<1>3. r + (-d) = m * (-q) + o
  BY <1>1, <1>2
<1>4. (m * (-q) + o) % m = o
  BY <1>2, DivModUnique
<1>5. QED BY <1>3, <1>4 DEF r

=============================================================================
