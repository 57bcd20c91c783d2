---------------------------- MODULE TimecodeCalls ----------------------------
(* One Timecode object, and any sequence of calls on it.                      *)
EXTENDS Timecode

CONSTANTS
    Bases,   \* rounded frame rates
    Deltas,  \* offsets given to the constructors and to addOffset
    Labels,  \* hh, mm, ss, ff given to the constructors, in range or not
    MaxOps   \* bound: calls on one object

\* A frame number is an int16_t; no rate rounds to 0.
ASSUME BasesAssumption == \A b \in Bases : b \in Nat /\ 0 < b /\ b < 32768
ASSUME DeltasAssumption == Deltas \subseteq Int
ASSUME LabelsAssumption == Labels \subseteq [hour : Nat, min : Nat, sec : Nat, frame : Nat]
ASSUME MaxOpsAssumption == MaxOps \in Nat

-----------------------------------------------------------------------------
VARIABLES
    tc,  \* the object
    ops  \* calls made on it so far

tcVars == <<tc, ops>>

TcInit == tc = Invalid /\ ops = 0

Call == ops < MaxOps /\ ops' = ops + 1

Construct ==
    /\ Call
    /\ \E b \in Bases, d \in BOOLEAN : tc' = InitRate(b, d)

ConstructAtOffset ==
    /\ Call
    /\ \E b \in Bases, d \in BOOLEAN, o \in Deltas : tc' = SetOffset(InitRate(b, d), o)

ConstructAtLabel ==
    /\ Call
    /\ \E b \in Bases, d \in BOOLEAN, l \in Labels : tc' = SetLabel(InitRate(b, d), l)

\* init(offset) and init(hour, min, sec, frame) on an object that has a rate
ResetOffset == Call /\ \E o \in Deltas : tc' = SetOffset(tc, o)
ResetLabel  == Call /\ \E l \in Labels : tc' = SetLabel(tc, l)

Add == Call /\ \E d \in Deltas : tc' = AddOffset(tc, d)

AddAtRate ==
    /\ Call
    /\ \E d \in Deltas, b \in Bases : tc' = AddOffset(tc, ConvertPosition(d, tc.base, b))

SetInvalid == Call /\ tc' = Invalid

TcNext == \/ Construct \/ ConstructAtOffset \/ ConstructAtLabel
          \/ ResetOffset \/ ResetLabel \/ Add \/ AddAtRate \/ SetInvalid

TcSpec == TcInit /\ [][TcNext]_tcVars

-----------------------------------------------------------------------------
(* Properties                                                                 *)

\* The members stay in the ranges of an object that is valid, or all zero.
TcTypeOK ==
    /\ ops \in 0..MaxOps
    /\ \/ tc = Invalid
       \/ /\ tc.base \in Bases
          /\ tc.drop \in BOOLEAN /\ (tc.drop => tc.base \in {30, 60})
          /\ tc.hour \in 0..23 /\ tc.min \in 0..59 /\ tc.sec \in 0..59
          /\ tc.frame \in 0..(tc.base - 1)
          /\ tc.offset \in 0..(MaxOffset(tc) - 1)

\* getOffset and getTotalFrames, one kept and the other computed from the label,
\* say the same after every call (TimeCode.h: "total offset in frames").
Agree == tc.offset = TotalFrames(tc)

\* No label with a number that drop frame omits (TimeCode.cpp: "first 2 frame
\* numbers shall be omitted at the start of each minute, except minutes 0, 10,
\* 20, 30, 40 and 50").
NeverDropped ==
    ~(tc.drop /\ tc.sec = 0 /\ tc.min % 10 # 0 /\ tc.frame < DropCount(tc))

\* The label a clock shows one frame after that of c: the reference for what
\* updateTimecode computes with divisions.
Tick(c) ==
    LET frame == (c.frame + 1) % c.base
        sec   == IF frame = 0 THEN (c.sec + 1) % 60 ELSE c.sec
        turn  == frame = 0 /\ sec = 0
        min   == IF turn THEN (c.min + 1) % 60 ELSE c.min
        hour  == IF turn /\ min = 0 THEN (c.hour + 1) % 24 ELSE c.hour
    IN  <<hour, min, sec, IF turn /\ c.drop /\ min % 10 # 0 THEN DropCount(c) ELSE frame>>

\* One frame more is the next label of the clock, midnight included.
TicksLikeAClock == tc.base # 0 => LabelOf(AddOffset(tc, 1)) = Tick(tc)

\* Why numbers are dropped: the time of day the label shows stays within a sixth
\* of a second of the time its frames take at 1000/1001 of base a second.  What
\* the label has skipped should be a thousandth of the frames.
TracksTime ==
    LET shown   == ((tc.hour * 60 + tc.min) * 60 + tc.sec) * tc.base + tc.frame
        skipped == shown - tc.offset
        sixth   == 1000 * (tc.base \div 6)
    IN  tc.drop => 1000 * skipped - tc.offset \in -sixth..sixth

\* Any offset can be taken back.
AddIsUndone ==
    tc.base # 0 => \A d \in Deltas : AddOffset(AddOffset(tc, d), -d) = tc

=============================================================================
