--------------------------- MODULE TimecodeProofs ---------------------------
(* An object of the class agrees with itself after any calls, for every rate. *)
(* It is then the only one of its rate with its offset: what the divisions    *)
(* compute is what a clock shows, and what is added can be taken back.        *)
EXTENDS TimecodeCalls, TimecodeLemmas

-----------------------------------------------------------------------------
(* The theorems                                                               *)

TcInv == ops \in 0..MaxOps /\ Sound(tc) /\ tc.base \in Bases \cup {0}

\* Every call leaves the object sound.
THEOREM TimecodeSound == TcSpec => []TcInv
<1>1. TcInit => TcInv
  BY MaxOpsAssumption DEF TcInit, TcInv, Sound, Invalid
<1>2. TcInv /\ [TcNext]_tcVars => TcInv'
  <2> SUFFICES ASSUME TcInv, [TcNext]_tcVars PROVE TcInv'
    OBVIOUS
  <2>1. CASE UNCHANGED tcVars
    <3>1. tc' = tc /\ ops' = ops
      BY <2>1 DEF tcVars
    <3>2. QED BY <3>1 DEF TcInv
  <2>2. CASE TcNext
    <3>1. ops' \in 0..MaxOps
      BY <2>2, MaxOpsAssumption DEF TcInv, TcNext, Call, Construct, ConstructAtOffset,
            ConstructAtLabel, ResetOffset, ResetLabel, Add, AddAtRate, SetInvalid
    <3>2. Seeded(tc) /\ (tc = Invalid \/ Rated(tc)) /\ tc.base \in Bases \cup {0}
      BY DEF TcInv, Sound, Seeded
    <3>3. tc.offset \in Int /\ tc.base \in Nat
      <4>1. CASE tc = Invalid
        BY <4>1 DEF Invalid
      <4>2. CASE Rated(tc)
        BY <4>2 DEF Rated
      <4>3. QED BY <3>2, <4>1, <4>2
    <3>4. Sound(tc') /\ tc'.base \in Bases \cup {0}
      <4>0. \A b \in Bases, d \in BOOLEAN :
                LET t == InitRate(b, d) IN Seeded(t) /\ Sound(t) /\ t.base = b
        BY BasesAssumption, InitRateIsSound
      <4>1. CASE Construct
        BY <4>0, <4>1 DEF Construct
      <4>2. CASE ConstructAtOffset
        BY <4>0, <4>2, SetOffsetIsSound, DeltasAssumption DEF ConstructAtOffset
      <4>3. CASE ConstructAtLabel
        BY <4>0, <4>3, SetLabelIsSound, LabelsAssumption DEF ConstructAtLabel
      <4>4. CASE ResetOffset
        BY <4>4, <3>2, SetOffsetIsSound, DeltasAssumption DEF ResetOffset
      <4>5. CASE ResetLabel
        BY <4>5, <3>2, SetLabelIsSound, LabelsAssumption DEF ResetLabel
      <4>6. CASE Add
        <5>1. PICK d \in Deltas : tc' = SetOffset(tc, tc.offset + d)
          BY <4>6 DEF Add, AddOffset
        <5>2. tc.offset + d \in Int
          BY <3>3, DeltasAssumption
        <5>3. QED BY <5>1, <5>2, <3>2, SetOffsetIsSound
      <4>7. CASE AddAtRate
        <5>1. PICK d \in Deltas, b \in Bases :
                tc' = SetOffset(tc, tc.offset + ConvertPosition(d, tc.base, b))
          BY <4>7 DEF AddAtRate, AddOffset
        <5>2. d \in Int /\ b \in Nat \ {0}
          BY DeltasAssumption, BasesAssumption
        <5>3. d * tc.base \in Int /\ -(d * tc.base) \in Int
          BY <5>2, <3>3
        <5>4. (d * tc.base) \div b \in Int /\ (-(d * tc.base)) \div b \in Int
          BY <5>2, <5>3, DivMod
        <5>5. ConvertPosition(d, tc.base, b) \in Int
          BY <5>4 DEF ConvertPosition
        <5>6. tc.offset + ConvertPosition(d, tc.base, b) \in Int
          BY <5>5, <3>3
        <5>7. QED BY <5>1, <5>6, <3>2, SetOffsetIsSound
      <4>8. CASE SetInvalid
        BY <4>8 DEF SetInvalid, Sound, Invalid
      <4>9. QED
        BY <2>2, <4>1, <4>2, <4>3, <4>4, <4>5, <4>6, <4>7, <4>8 DEF TcNext
    <3>5. QED BY <3>1, <3>4 DEF TcInv, Sound, Rated, Proper, MaxOffset, FramesPerHour,
                FramesPer10Min, FramesPerMin, DropCount, TotalFrames
  <2>3. QED BY <2>1, <2>2
<1>3. QED BY <1>1, <1>2, PTL DEF TcSpec

\* The members stay in range.
THEOREM TimecodeTyping == TcSpec => []TcTypeOK
<1>1. TcInv => TcTypeOK
  <2> SUFFICES ASSUME TcInv, tc # Invalid PROVE TcTypeOK
    BY DEF TcInv, TcTypeOK
  <2>1. Rated(tc) /\ Proper(tc) /\ tc.offset \in 0..(MaxOffset(tc) - 1)
    BY DEF TcInv, Sound
  <2>0. tc.base \in Bases
    BY <2>1 DEF TcInv, Rated
  <2>2. tc.drop \in BOOLEAN /\ (tc.drop => tc.base \in {30, 60})
    BY <2>1 DEF Rated
  <2>3. QED BY <2>0, <2>1, <2>2 DEF TcInv, TcTypeOK, Proper
<1>2. QED BY <1>1, TimecodeSound, PTL

\* getOffset and getTotalFrames agree after any calls.
THEOREM OffsetAgreesWithLabel == TcSpec => []Agree
<1>1. TcInv => Agree
  <2>1. TotalFrames(Invalid) = 0 /\ Invalid.offset = 0
    BY DEF TotalFrames, Invalid, FramesPerHour, FramesPer10Min, FramesPerMin, DropCount
  <2>2. QED BY <2>1 DEF TcInv, Sound, Agree
<1>2. QED BY <1>1, TimecodeSound, PTL

\* No call leaves a label that drop frame numbering omits.
THEOREM NoDroppedLabel == TcSpec => []NeverDropped
<1>1. TcInv => NeverDropped
  <2>1. ~Invalid.drop
    BY DEF Invalid
  <2>2. QED BY <2>1 DEF TcInv, Sound, Proper, NeverDropped
<1>2. QED BY <1>1, TimecodeSound, PTL

\* The label of a drop frame object keeps to the time of day, at every offset.
THEOREM LabelKeepsTime == TcSpec => []TracksTime
<1>1. TcInv => TracksTime
  <2> DEFINE k == tc.min \div 10
             M == tc.min % 10
             h == tc.hour
             y == tc.base * tc.sec + tc.frame
             shown == ((tc.hour * 60 + tc.min) * 60 + tc.sec) * tc.base + tc.frame
             drift == 1000 * (shown - tc.offset) - tc.offset
             sixth == 1000 * (tc.base \div 6)
  <2> SUFFICES ASSUME TcInv, tc.drop PROVE drift \in -sixth..sixth
    BY DEF TracksTime
  <2>1. Rated(tc) /\ Proper(tc) /\ tc.offset = TotalFrames(tc)
    BY DEF TcInv, Sound, Invalid
  <2>2. /\ h \in 0..23 /\ tc.min \in 0..59 /\ tc.sec \in 0..59
        /\ tc.frame \in 0..(tc.base - 1)
    BY <2>1 DEF Proper
  <2>3. /\ k \in 0..5 /\ M \in 0..9 /\ tc.min = 10 * k + M
        /\ tc.offset = h * FramesPerHour(tc) + k * FramesPer10Min(tc) + M * FramesPerMin(tc) + y
    BY <2>1, CountInUnits
  <2>4. ~(tc.sec = 0 /\ M # 0 /\ tc.frame < DropCount(tc))
    BY <2>1 DEF Proper
  <2>5. CASE tc.base = 30
    <3>1. DropCount(tc) = 2 /\ sixth = 5000
      BY <2>5 DEF DropCount
    <3>2. FramesPerMin(tc) = 1798 /\ FramesPer10Min(tc) = 17982 /\ FramesPerHour(tc) = 107892
      BY <2>5, <3>1 DEF FramesPerMin, FramesPer10Min, FramesPerHour
    <3>3. y = 30 * tc.sec + tc.frame
      BY <2>5
    <3> HIDE DEF y
    <3>4. y \in 0..1799
      BY <2>2, <2>5, <3>3, SMT
    <3>5. shown = ((h * 60 + tc.min) * 60 + tc.sec) * 30 + tc.frame
      BY <2>5
    <3> HIDE DEF k, M, h, y, shown
    <3>6. shown = 108000 * h + 18000 * k + 1800 * M + y
      BY <2>2, <2>3, <3>3, <3>5, SMT
    <3>7. tc.offset = 107892 * h + 17982 * k + 1798 * M + y
      <4>1. h * 107892 = 107892 * h /\ k * 17982 = 17982 * k /\ M * 1798 = 1798 * M
        BY <2>2, <2>3, SMT
      <4>2. QED BY <2>3, <3>2, <4>1
    <3>8. drift = 108 * h + 18 * k + 202 * M - y
      BY <2>2, <2>3, <3>3, <3>6, <3>7, SMT
    <3> HIDE DEF drift, sixth
    <3>9. h \in 0..23 /\ k \in 0..5 /\ M \in 0..9
      BY <2>2, <2>3
    <3>10. drift \in Int /\ sixth \in Int /\ -sixth <= drift /\ drift <= sixth
      BY <3>1, <3>8, <3>9, <3>4, SMT
    <3>11. QED BY <3>10
  <2>6. CASE tc.base = 60
    <3>1. DropCount(tc) = 4 /\ sixth = 10000
      BY <2>6 DEF DropCount
    <3>2. FramesPerMin(tc) = 3596 /\ FramesPer10Min(tc) = 35964 /\ FramesPerHour(tc) = 215784
      BY <2>6, <3>1 DEF FramesPerMin, FramesPer10Min, FramesPerHour
    <3>3. y = 60 * tc.sec + tc.frame
      BY <2>6
    <3> HIDE DEF y
    <3>4. y \in 0..3599
      BY <2>2, <2>6, <3>3, SMT
    <3>5. shown = ((h * 60 + tc.min) * 60 + tc.sec) * 60 + tc.frame
      BY <2>6
    <3> HIDE DEF k, M, h, y, shown
    <3>6. shown = 216000 * h + 36000 * k + 3600 * M + y
      BY <2>2, <2>3, <3>3, <3>5, SMT
    <3>7. tc.offset = 215784 * h + 35964 * k + 3596 * M + y
      <4>1. h * 215784 = 215784 * h /\ k * 35964 = 35964 * k /\ M * 3596 = 3596 * M
        BY <2>2, <2>3, SMT
      <4>2. QED BY <2>3, <3>2, <4>1
    <3>8. drift = 216 * h + 36 * k + 404 * M - y
      BY <2>2, <2>3, <3>3, <3>6, <3>7, SMT
    <3> HIDE DEF drift, sixth
    <3>9. h \in 0..23 /\ k \in 0..5 /\ M \in 0..9
      BY <2>2, <2>3
    <3>10. drift \in Int /\ sixth \in Int /\ -sixth <= drift /\ drift <= sixth
      BY <3>1, <3>8, <3>9, <3>4, SMT
    <3>11. QED BY <3>10
  <2>7. QED BY <2>1, <2>5, <2>6 DEF Rated
<1>2. QED BY <1>1, TimecodeSound, PTL

\* Any offset can be taken back, drop frame or not, around midnight or not.
THEOREM AddedIsTakenBack == TcSpec => []AddIsUndone
<1>1. TcInv => AddIsUndone
  <2> SUFFICES ASSUME TcInv, tc.base # 0, NEW d \in Deltas
               PROVE  AddOffset(AddOffset(tc, d), -d) = tc
    BY DEF AddIsUndone
  <2> DEFINE u == AddOffset(tc, d)
             w == AddOffset(u, -d)
             m == MaxOffset(tc)
  <2>1. d \in Int /\ -d \in Int
    BY DeltasAssumption
  <2>2. Sound(tc)
    BY DEF TcInv
  <2>3. tc.offset \in 0..(m - 1) /\ Rated(tc)
    BY <2>2 DEF Sound, Invalid
  <2>4. m \in Nat \ {0}
    BY <2>3, UnitsOfRate
  <2>5. Sound(u) /\ u.base = tc.base /\ u.drop = tc.drop /\ u.offset = (tc.offset + d) % m
    BY <2>1, <2>2, AddMoves
  <2> HIDE DEF u
  <2>6. MaxOffset(u) = m
    BY <2>5, SameRateSameUnits
  <2>7. Sound(w) /\ w.base = u.base /\ w.drop = u.drop /\ w.offset = (u.offset + (-d)) % m
    BY <2>1, <2>5, <2>6, AddMoves
  <2> HIDE DEF w, m
  <2>8. w.offset = tc.offset
    BY <2>1, <2>3, <2>4, <2>5, <2>7, ModBack
  <2>9. w = tc
    BY <2>2, <2>5, <2>7, <2>8, ObjectIsUnique
  <2>10. QED BY <2>9 DEF w, u
<1>2. QED BY <1>1, TimecodeSound, PTL

-----------------------------------------------------------------------------
(* The clock                                                                  *)

\* What Tick shows: a frame more, or a second, a minute, an hour.
LEMMA TickByCases ==
    ASSUME NEW t, Rated(t), Proper(t)
    PROVE  /\ t.frame # t.base - 1 => Tick(t) = <<t.hour, t.min, t.sec, t.frame + 1>>
           /\ t.frame = t.base - 1 /\ t.sec # 59 => Tick(t) = <<t.hour, t.min, t.sec + 1, 0>>
           /\ t.frame = t.base - 1 /\ t.sec = 59 /\ t.min # 59
                => Tick(t) = <<t.hour, t.min + 1, 0,
                               IF t.drop /\ (t.min + 1) % 10 # 0 THEN DropCount(t) ELSE 0>>
           /\ t.frame = t.base - 1 /\ t.sec = 59 /\ t.min = 59
                => Tick(t) = <<(t.hour + 1) % 24, 0, 0, 0>>
<1>1. /\ t.base \in Nat \ {0} /\ t.hour \in 0..23 /\ t.min \in 0..59 /\ t.sec \in 0..59
      /\ t.frame \in 0..(t.base - 1)
  BY DEF Rated, Proper
<1>2. t.frame # t.base - 1 => (t.frame + 1) % t.base = t.frame + 1 /\ t.frame + 1 # 0
  <2> SUFFICES ASSUME t.frame # t.base - 1
               PROVE  (t.frame + 1) % t.base = t.frame + 1 /\ t.frame + 1 # 0
    OBVIOUS
  <2>1. t.frame + 1 \in 0..(t.base - 1) /\ t.frame + 1 # 0
    BY <1>1
  <2>2. QED BY <2>1, <1>1, ModSmall
<1>3. t.frame = t.base - 1 => (t.frame + 1) % t.base = 0
  <2> SUFFICES ASSUME t.frame = t.base - 1 PROVE (t.frame + 1) % t.base = 0
    OBVIOUS
  <2>1. t.frame + 1 = t.base * 1 + 0
    BY <1>1
  <2>2. 1 \in Int /\ 0 \in 0..(t.base - 1)
    BY <1>1
  <2>3. (t.base * 1 + 0) % t.base = 0
    BY <1>1, <2>2, DivModUnique
  <2>4. QED BY <2>1, <2>3
<1>4. /\ t.sec # 59 => (t.sec + 1) % 60 = t.sec + 1 /\ t.sec + 1 # 0
      /\ t.sec = 59 => (t.sec + 1) % 60 = 0
  BY <1>1
<1>5. /\ t.min # 59 => (t.min + 1) % 60 = t.min + 1 /\ t.min + 1 # 0
      /\ t.min = 59 => (t.min + 1) % 60 = 0
  BY <1>1
<1>6. 0 % 10 = 0
  OBVIOUS
<1>7. CASE t.frame # t.base - 1
  BY <1>2, <1>7 DEF Tick
<1>8. CASE t.frame = t.base - 1 /\ t.sec # 59
  BY <1>3, <1>4, <1>8 DEF Tick
<1>9. CASE t.frame = t.base - 1 /\ t.sec = 59 /\ t.min # 59
  BY <1>3, <1>4, <1>5, <1>9 DEF Tick
<1>10. CASE t.frame = t.base - 1 /\ t.sec = 59 /\ t.min = 59
  BY <1>3, <1>4, <1>5, <1>6, <1>10 DEF Tick
<1>11. QED BY <1>7, <1>8, <1>9, <1>10

\* An object of the rate that shows what Tick says.
Ticked(s, t) ==
    /\ Rated(s) /\ s.base = t.base /\ s.drop = t.drop
    /\ LabelOf(s) = Tick(t)

\* The next label is one that exists.
LEMMA TickIsProper ==
    ASSUME NEW s, NEW t, Rated(t), Proper(t), Ticked(s, t)
    PROVE  Proper(s)
<1> DEFINE B == t.base
           D == DropCount(t)
<1>1. /\ B \in Nat \ {0} /\ t.hour \in 0..23 /\ t.min \in 0..59 /\ t.sec \in 0..59
      /\ t.frame \in 0..(B - 1) /\ D \in 0..(B - 1) /\ t.drop \in BOOLEAN
  BY UnitsOfRate DEF Rated, Proper
<1>2. DropCount(s) = D /\ s.base = B /\ s.drop = t.drop
  BY SameRateSameUnits DEF Ticked
<1>3. <<s.hour, s.min, s.sec, s.frame>> = Tick(t)
  BY DEF Ticked, LabelOf
<1>4. ~(t.drop /\ t.sec = 0 /\ t.min % 10 # 0 /\ t.frame < D)
  BY DEF Proper
<1>5. CASE t.frame # B - 1
  <2>1. s.hour = t.hour /\ s.min = t.min /\ s.sec = t.sec /\ s.frame = t.frame + 1
    BY <1>3, <1>5, TickByCases
  <2>2. t.frame + 1 \in 0..(B - 1) /\ (t.frame + 1 < D => t.frame < D)
    BY <1>1, <1>5
  <2>3. QED BY <1>1, <1>2, <1>4, <2>1, <2>2 DEF Proper
<1>6. CASE t.frame = B - 1 /\ t.sec # 59
  <2>1. s.hour = t.hour /\ s.min = t.min /\ s.sec = t.sec + 1 /\ s.frame = 0
    BY <1>3, <1>6, TickByCases
  <2>2. t.sec + 1 \in 0..59 /\ t.sec + 1 # 0 /\ 0 \in 0..(B - 1)
    BY <1>1, <1>6
  <2>3. QED BY <1>1, <1>2, <2>1, <2>2 DEF Proper
<1>7. CASE t.frame = B - 1 /\ t.sec = 59 /\ t.min # 59
  <2>1. /\ s.hour = t.hour /\ s.min = t.min + 1 /\ s.sec = 0
        /\ s.frame = IF t.drop /\ (t.min + 1) % 10 # 0 THEN D ELSE 0
    BY <1>3, <1>7, TickByCases
  <2>2. t.min + 1 \in 0..59 /\ 0 \in 0..59 /\ 0 \in 0..(B - 1) /\ ~(D < D)
    BY <1>1, <1>7
  <2> HIDE DEF D
  <2>3. s.frame \in 0..(s.base - 1)
    BY <1>1, <1>2, <2>1, <2>2
  <2>4. ~(s.drop /\ s.min % 10 # 0 /\ s.frame < DropCount(s))
    BY <1>2, <2>1, <2>2
  <2>5. QED BY <1>1, <2>1, <2>2, <2>3, <2>4 DEF Proper
<1>8. CASE t.frame = B - 1 /\ t.sec = 59 /\ t.min = 59
  <2>1. s.hour = (t.hour + 1) % 24 /\ s.min = 0 /\ s.sec = 0 /\ s.frame = 0
    BY <1>3, <1>8, TickByCases
  <2>2. (t.hour + 1) % 24 \in 0..23 /\ 0 % 10 = 0 /\ 0 \in 0..(B - 1)
    BY <1>1
  <2>3. QED BY <1>1, <1>2, <2>1, <2>2 DEF Proper
<1>9. QED BY <1>5, <1>6, <1>7, <1>8

\* And counts one frame more, from the start of the day after its end.
LEMMA TickCountsOne ==
    ASSUME NEW s, NEW t, Rated(t), Proper(t), Ticked(s, t)
    PROVE  TotalFrames(s) = (TotalFrames(t) + 1) % MaxOffset(t)
<1> DEFINE B == t.base
           D == DropCount(t)
           FM == FramesPerMin(t)
           F10 == FramesPer10Min(t)
           FH == FramesPerHour(t)
           k == t.min \div 10
           M == t.min % 10
           y == t.base * t.sec + t.frame
           kk == s.min \div 10
           MM == s.min % 10
           yy == s.base * s.sec + s.frame
<1>1. /\ B \in Nat \ {0} /\ t.hour \in 0..23 /\ t.min \in 0..59 /\ t.sec \in 0..59
      /\ t.frame \in 0..(B - 1) /\ t.drop \in BOOLEAN
  BY DEF Rated, Proper
<1>2. /\ D \in Nat /\ (~t.drop => D = 0) /\ FM \in Nat /\ FM + D = B * 60
      /\ F10 \in Nat /\ F10 = B * 60 + 9 * FM /\ FH \in Nat /\ FH = 6 * F10
      /\ MaxOffset(t) \in Nat \ {0} /\ MaxOffset(t) = 24 * FH
  BY UnitsOfRate
<1>3. /\ FramesPerMin(s) = FM /\ FramesPer10Min(s) = F10 /\ FramesPerHour(s) = FH
      /\ DropCount(s) = D /\ MaxOffset(s) = MaxOffset(t) /\ s.base = B
  BY SameRateSameUnits DEF Ticked
<1>4. Rated(s) /\ Proper(s)
  BY TickIsProper DEF Ticked
<1>5. /\ k \in 0..5 /\ M \in 0..9 /\ t.min = 10 * k + M
      /\ TotalFrames(t) = t.hour * FH + k * F10 + M * FM + y
  BY CountInUnits
<1>6. /\ kk \in 0..5 /\ MM \in 0..9 /\ s.min = 10 * kk + MM
      /\ TotalFrames(s) = s.hour * FH + kk * F10 + MM * FM + yy
  BY <1>3, <1>4, CountInUnits
<1>7. TotalFrames(s) \in 0..(MaxOffset(t) - 1) /\ TotalFrames(t) \in 0..(MaxOffset(t) - 1)
  BY <1>3, <1>4, ProperCountsInDay
<1>8. <<s.hour, s.min, s.sec, s.frame>> = Tick(t)
  BY DEF Ticked, LabelOf
<1>9. y \in Int /\ yy \in Int
  BY <1>1, <1>3, <1>4 DEF Proper
<1> DEFINE p == k * F10
           q == M * FM
           r == t.hour * FH
<1>10. p \in Int /\ q \in Int /\ r \in Int
  <2>1. k \in Int /\ M \in Int
    BY <1>5
  <2> HIDE DEF k, M
  <2>2. QED BY <1>1, <1>2, <2>1
<1>11. ASSUME TotalFrames(s) = TotalFrames(t) + 1
       PROVE  TotalFrames(s) = (TotalFrames(t) + 1) % MaxOffset(t)
  BY <1>2, <1>7, <1>11, ModSmall
<1>12. CASE t.frame # B - 1
  <2>1. s.hour = t.hour /\ s.min = t.min /\ s.sec = t.sec /\ s.frame = t.frame + 1
    BY <1>8, <1>12, TickByCases
  <2>2. yy = y + 1
    BY <1>1, <1>3, <2>1
  <2>3. TotalFrames(t) = r + p + q + y /\ TotalFrames(s) = r + p + q + yy
    BY <1>5, <1>6, <2>1
  <2> HIDE DEF p, q, r, y, yy
  <2>4. QED BY <1>9, <1>10, <1>11, <2>2, <2>3
<1>13. CASE t.frame = B - 1 /\ t.sec # 59
  <2>1. s.hour = t.hour /\ s.min = t.min /\ s.sec = t.sec + 1 /\ s.frame = 0
    BY <1>8, <1>13, TickByCases
  <2>2. yy = y + 1
    BY <1>1, <1>3, <1>13, <2>1
  <2>3. TotalFrames(t) = r + p + q + y /\ TotalFrames(s) = r + p + q + yy
    BY <1>5, <1>6, <2>1
  <2> HIDE DEF p, q, r, y, yy
  <2>4. QED BY <1>9, <1>10, <1>11, <2>2, <2>3
<1>14. CASE t.frame = B - 1 /\ t.sec = 59 /\ t.min # 59
  <2>1. /\ s.hour = t.hour /\ s.min = t.min + 1 /\ s.sec = 0
        /\ s.frame = IF t.drop /\ MM # 0 THEN D ELSE 0
    BY <1>8, <1>14, TickByCases
  <2>2. y = B * 60 - 1 /\ yy = IF MM # 0 THEN D ELSE 0
    BY <1>1, <1>2, <1>3, <1>14, <2>1
  <2>3. 10 * kk + MM = 10 * k + M + 1
    BY <1>5, <1>6, <2>1
  <2>4. TotalFrames(t) = r + p + q + y /\ TotalFrames(s) = r + kk * F10 + MM * FM + yy
    BY <1>5, <1>6, <2>1
  <2>5. k \in 0..5 /\ M \in 0..9 /\ kk \in 0..5 /\ MM \in 0..9
    BY <1>5, <1>6
  <2> HIDE DEF k, M, kk, MM, y, yy, r, F10, FM, FH, D, B
  <2>6. CASE M # 9
    <3>1. kk = k /\ MM = M + 1
      BY <2>3, <2>5, <2>6
    <3>2. MM * FM = q + FM /\ kk * F10 = p
      BY <1>2, <2>5, <3>1
    <3>3. yy = D
      BY <2>2, <2>5, <3>1
    <3> HIDE DEF p, q
    <3>4. QED BY <1>2, <1>9, <1>10, <1>11, <2>2, <2>4, <3>2, <3>3
  <2>7. CASE M = 9
    <3>1. kk = k + 1 /\ MM = 0
      BY <2>3, <2>5, <2>7
    <3>2. MM * FM = 0 /\ kk * F10 = p + F10 /\ q = 9 * FM
      BY <1>2, <2>5, <2>7, <3>1
    <3>3. yy = 0
      BY <2>2, <3>1
    <3> HIDE DEF p, q
    <3>4. QED BY <1>2, <1>9, <1>10, <1>11, <2>2, <2>4, <3>2, <3>3
  <2>8. QED BY <2>6, <2>7
<1>15. CASE t.frame = B - 1 /\ t.sec = 59 /\ t.min = 59
  <2>1. s.hour = (t.hour + 1) % 24 /\ s.min = 0 /\ s.sec = 0 /\ s.frame = 0
    BY <1>8, <1>15, TickByCases
  <2>2. y = B * 60 - 1 /\ yy = 0
    BY <1>1, <1>3, <1>15, <2>1
  <2>3. k = 5 /\ M = 9 /\ kk = 0 /\ MM = 0
    BY <1>5, <1>6, <1>15, <2>1
  <2>4. TotalFrames(t) = r + 5 * F10 + 9 * FM + y /\ TotalFrames(s) = s.hour * FH + 0 * F10 + 0 * FM + yy
    BY <1>5, <1>6, <2>3
  <2> HIDE DEF y, yy, k, M, kk, MM, FM, F10, FH, D, B
  <2>5. 0 * F10 = 0 /\ 0 * FM = 0
    BY <1>2
  <2>6. CASE t.hour # 23
    <3>1. s.hour = t.hour + 1
      BY <1>1, <2>1, <2>6
    <3>2. s.hour * FH = r + FH
      BY <1>1, <1>2, <3>1
    <3> HIDE DEF r
    <3>3. QED BY <1>2, <1>9, <1>10, <1>11, <2>2, <2>4, <2>5, <3>2
  <2>7. CASE t.hour = 23
    <3>1. s.hour = 0
      BY <2>1, <2>7
    <3>2. s.hour * FH = 0 /\ r = 23 * FH
      BY <1>2, <2>7, <3>1
    <3> HIDE DEF r
    <3>3. TotalFrames(s) = 0 /\ TotalFrames(t) + 1 = MaxOffset(t)
      BY <1>2, <1>9, <1>10, <2>2, <2>4, <2>5, <3>2
    <3>4. MaxOffset(t) % MaxOffset(t) = 0
      <4> DEFINE m == MaxOffset(t)
      <4>1. m \in Nat \ {0}
        BY <1>2
      <4> HIDE DEF m
      <4>2. (m * 1 + 0) % m = 0 /\ m * 1 + 0 = m
        BY <4>1, DivModUnique
      <4>3. QED BY <4>2 DEF m
    <3>5. QED BY <3>3, <3>4
  <2>8. QED BY <2>6, <2>7
<1>16. QED BY <1>12, <1>13, <1>14, <1>15

\* One frame more shows what a clock shows next, at every rate and offset: the
\* divisions of updateTimecode agree with counting.
THEOREM FrameByFrame == TcSpec => []TicksLikeAClock
<1>1. TcInv => TicksLikeAClock
  <2> SUFFICES ASSUME TcInv, tc.base # 0
               PROVE  LabelOf(AddOffset(tc, 1)) = Tick(tc)
    BY DEF TicksLikeAClock
  <2> DEFINE u == AddOffset(tc, 1)
             l == Tick(tc)
             s == [base |-> tc.base, drop |-> tc.drop, hour |-> l[1], min |-> l[2],
                   sec |-> l[3], frame |-> l[4], offset |-> 0]
  <2>1. Sound(tc) /\ Rated(tc) /\ Proper(tc) /\ tc.offset = TotalFrames(tc)
    BY DEF TcInv, Sound, Invalid
  <2>2. Sound(u) /\ u.base = tc.base /\ u.drop = tc.drop
        /\ u.offset = (tc.offset + 1) % MaxOffset(tc)
    <3>1. 1 \in Int
      OBVIOUS
    <3>2. QED BY <2>1, <3>1, AddMoves
  <2> HIDE DEF u
  <2>3. Rated(u) /\ Proper(u) /\ u.offset = TotalFrames(u)
    BY <2>2 DEF Sound, Invalid
  <2>4. /\ tc.hour \in Int /\ tc.min \in Int /\ tc.sec \in Int /\ tc.frame \in Int
        /\ tc.base \in Nat \ {0} /\ tc.drop \in BOOLEAN /\ (tc.drop => tc.base \in {30, 60})
    BY <2>1 DEF Rated
  <2>5. DropCount(tc) \in Int
    BY <2>1, UnitsOfRate
  <2>6. l = <<l[1], l[2], l[3], l[4]>> /\ l[1] \in Int /\ l[2] \in Int /\ l[3] \in Int /\ l[4] \in Int
    <3>1. \E a \in Int, b \in Int, c \in Int, d \in Int : Tick(tc) = <<a, b, c, d>>
      <4>1. CASE tc.frame # tc.base - 1
        <5>1. tc.frame + 1 \in Int /\ Tick(tc) = <<tc.hour, tc.min, tc.sec, tc.frame + 1>>
          BY <2>1, <2>4, <4>1, TickByCases
        <5>2. QED BY <2>4, <5>1, Zenon
      <4>2. CASE tc.frame = tc.base - 1 /\ tc.sec # 59
        <5>1. tc.sec + 1 \in Int /\ 0 \in Int /\ Tick(tc) = <<tc.hour, tc.min, tc.sec + 1, 0>>
          BY <2>1, <2>4, <4>2, TickByCases
        <5>2. QED BY <2>4, <5>1, Zenon
      <4>3. CASE tc.frame = tc.base - 1 /\ tc.sec = 59 /\ tc.min # 59
        <5> DEFINE f == IF tc.drop /\ (tc.min + 1) % 10 # 0 THEN DropCount(tc) ELSE 0
        <5>1. f \in Int /\ 0 \in Int /\ tc.min + 1 \in Int
          BY <2>4, <2>5
        <5>2. Tick(tc) = <<tc.hour, tc.min + 1, 0, f>>
          BY <2>1, <4>3, TickByCases
        <5> HIDE DEF f
        <5>3. QED BY <2>4, <5>1, <5>2, Zenon
      <4>4. CASE tc.frame = tc.base - 1 /\ tc.sec = 59 /\ tc.min = 59
        <5>1. (tc.hour + 1) % 24 \in Int /\ 0 \in Int
          BY <2>4
        <5>2. Tick(tc) = <<(tc.hour + 1) % 24, 0, 0, 0>>
          BY <2>1, <4>4, TickByCases
        <5>3. QED BY <5>1, <5>2, Zenon
      <4>5. QED BY <4>1, <4>2, <4>3, <4>4
    <3>2. QED BY <3>1
  <2> HIDE DEF l
  <2>7. /\ s.base = tc.base /\ s.drop = tc.drop
        /\ s.hour = l[1] /\ s.min = l[2] /\ s.sec = l[3] /\ s.frame = l[4]
        /\ s \in [base : Nat \ {0}, drop : BOOLEAN,
                  hour : Int, min : Int, sec : Int, frame : Int, offset : Int]
    BY <2>4, <2>6
  <2> HIDE DEF s
  <2>8. Ticked(s, tc)
    <3>1. Rated(s)
      BY <2>4, <2>7 DEF Rated
    <3>2. LabelOf(s) = l
      BY <2>6, <2>7 DEF LabelOf
    <3>3. QED BY <2>7, <3>1, <3>2 DEF Ticked, l
  <2>9. Rated(s) /\ Proper(s) /\ TotalFrames(s) = (TotalFrames(tc) + 1) % MaxOffset(tc)
    BY <2>1, <2>8, TickIsProper, TickCountsOne DEF Ticked
  <2>10. TotalFrames(u) = TotalFrames(s)
    BY <2>1, <2>2, <2>3, <2>9
  <2>11. u.hour = s.hour /\ u.min = s.min /\ u.sec = s.sec /\ u.frame = s.frame
    BY <2>2, <2>3, <2>7, <2>9, <2>10, LabelIsUnique
  <2>12. LabelOf(u) = LabelOf(s)
    BY <2>11 DEF LabelOf
  <2>13. LabelOf(s) = Tick(tc)
    BY <2>8 DEF Ticked
  <2>14. QED BY <2>12, <2>13 DEF u
<1>2. QED BY <1>1, TimecodeSound, PTL

=============================================================================
