----------------------- MODULE HandleDiskLayoutProofs -----------------------
(***************************************************************************)
(* Proofs about HandleDiskLayout, for every disk, table, alignment and     *)
(* configuration that the assumptions allow.                               *)
(***************************************************************************)
EXTENDS HandleDiskLayout, TLAPS

-----------------------------------------------------------------------------
(* Arithmetic of the 4 KB boundary.                                        *)

\* A multiple of Align is Align times a natural number, and conversely.
LEMMA MultipleIsProduct ==
  ASSUME NEW x \in Nat, x % Align = 0
  PROVE  \E k \in Nat : x = Align * k
<1>1. Align \in Nat /\ Align > 0
  BY GeometryAssumption
<1>2. x = Align * (x \div Align) + (x % Align) /\ x \div Align \in Nat
  BY <1>1
<1> QED BY <1>1, <1>2

LEMMA ProductIsMultiple ==
  ASSUME NEW k \in Nat
  PROVE  Align * k \in Nat /\ (Align * k) % Align = 0
<1>1. Align \in Nat /\ Align > 0
  BY GeometryAssumption
<1> QED BY <1>1

\* FindLast4KSector rounds down, by less than one boundary.
LEMMA RoundsDown ==
  ASSUME NEW x \in Nat
  PROVE  /\ FindLast4KSector(x) \in Nat
         /\ FindLast4KSector(x) <= x
         /\ x < FindLast4KSector(x) + Align
<1>1. Align \in Nat /\ Align > 0
  BY GeometryAssumption
<1>2. x = Align * (x \div Align) + (x % Align) /\ x \div Align \in Nat
      /\ x % Align \in 0 .. Align - 1
  BY <1>1
<1>3. Align * (x \div Align) \in Nat
  BY <1>1, <1>2
<1> QED BY <1>1, <1>2, <1>3 DEF FindLast4KSector

LEMMA RoundsToMultiple ==
  ASSUME NEW x \in Nat
  PROVE  FindLast4KSector(x) % Align = 0
<1>1. Align \in Nat /\ Align > 0
  BY GeometryAssumption
<1>2. x = Align * (x \div Align) + (x % Align) /\ x \div Align \in Nat
      /\ x % Align \in 0 .. Align - 1
  BY <1>1
<1>3. FindLast4KSector(x) = Align * (x \div Align)
  BY <1>1, <1>2, RoundsDown DEF FindLast4KSector
<1> QED BY <1>2, <1>3, ProductIsMultiple

LEMMA MultiplesAdd ==
  ASSUME NEW x \in Nat, x % Align = 0, NEW y \in Nat, y % Align = 0
  PROVE  (x + y) % Align = 0
<1>1. Align \in Nat /\ Align > 0
  BY GeometryAssumption
<1>2. PICK j \in Nat : x = Align * j
  BY MultipleIsProduct
<1>3. PICK k \in Nat : y = Align * k
  BY MultipleIsProduct
<1>4. x + y = Align * (j + k)
  BY <1>1, <1>2, <1>3
<1> QED BY <1>4, ProductIsMultiple

LEMMA MultiplesSubtract ==
  ASSUME NEW x \in Nat, x % Align = 0, NEW y \in Nat, y % Align = 0, y <= x
  PROVE  (x - y) % Align = 0
<1>1. Align \in Nat /\ Align > 0
  BY GeometryAssumption
<1>2. PICK j \in Nat : x = Align * j
  BY MultipleIsProduct
<1>3. PICK k \in Nat : y = Align * k
  BY MultipleIsProduct
<1>4. j - k \in Nat
  <2>1. CASE j < k
    <3>1. Align * k >= Align * (j + 1)
      BY <1>1, <2>1
    <3>2. Align * (j + 1) = Align * j + Align
      BY <1>1
    <3> QED BY <1>1, <1>2, <1>3, <3>1, <3>2
  <2> QED BY <2>1
<1>5. x - y = Align * (j - k)
  BY <1>1, <1>2, <1>3
<1> QED BY <1>4, <1>5, ProductIsMultiple

\* No multiple lies between a sector and the boundary it is rounded to.
LEMMA MultipleStaysBelow ==
  ASSUME NEW x \in Nat, NEW y \in Nat, y % Align = 0, y <= x
  PROVE  y <= FindLast4KSector(x)
<1> DEFINE z == FindLast4KSector(x)
<1>1. Align \in Nat /\ Align > 0
  BY GeometryAssumption
<1>2. z \in Nat /\ z <= x /\ x < z + Align /\ z % Align = 0
  BY RoundsDown, RoundsToMultiple
<1> HIDE DEF z
<1>3. ASSUME z < y PROVE FALSE
  <2>1. (y - z) % Align = 0
    BY <1>2, <1>3, MultiplesSubtract
  <2>2. y - z \in Nat /\ 0 < y - z /\ y - z < Align
    BY <1>1, <1>2, <1>3
  <2>3. (y - z) % Align = y - z
    BY <1>1, <2>2
  <2> QED BY <2>1, <2>2, <2>3
<1>4. y <= z
  BY <1>2, <1>3
<1> QED BY <1>4 DEF z

LEMMA MultipleIsFixed ==
  ASSUME NEW x \in Nat, x % Align = 0
  PROVE  FindLast4KSector(x) = x
BY DEF FindLast4KSector

-----------------------------------------------------------------------------
(* Type correctness.                                                       *)

LEMMA HookTypeInit == HookInit => HookTypeOK
BY ImageAssumption, DiskAssumption
   DEF HookInit, HookTypeOK, HookPositions

\* The start point and what is computed from it are sectors.
LEMMA PlanIsTyped ==
  ASSUME HookTypeOK
  PROVE  /\ StartPointSector(table) \in Nat
         /\ NewStateStart(table) \in Nat
<1>1. StartPointSector(table) \in Nat
  BY GeometryAssumption
     DEF StartPointSector, ReclaimedStart, HookTypeOK, Table, Extent, Parts
<1>2. conf.oemSize \in Nat
  BY ConfigAssumption DEF HookTypeOK
<1>3. StartPointSector(table) + conf.oemSize \in Nat
  BY <1>1, <1>2
<1> QED BY <1>1, <1>3, RoundsDown DEF NewStateStart

\* One step of the program keeps every variable in its type.
LEMMA HookStepTyped ==
  ASSUME HookTypeOK, HookStep, UNCHANGED <<conf, diskEnd>>
  PROVE  HookTypeOK'
<1> USE DEF HookTypeOK, HookPositions
<1>1. CASE HookShrink
  <2>1. table' \in Table
    BY <1>1, GeometryAssumption
       DEF HookShrink, MinimizePartition, Table, Extent
  <2> QED BY <1>1, <2>1 DEF HookShrink
<1>2. CASE HookPlan
  BY <1>2, PlanIsTyped DEF HookPlan
<1>3. CASE HookMoveState
  <2>1. StateTarget \in Nat
    BY DEF StateTarget
  <2>2. table' \in Table
    BY <1>3, <2>1 DEF HookMoveState, MovePartition, Table, Extent
  <2> QED BY <1>3, <2>2 DEF HookMoveState
<1>4. CASE HookMoveOem
  <2>1. table' \in Table
    BY <1>4 DEF HookMoveOem, MovePartition, Table, Extent
  <2> QED BY <1>4, <2>1 DEF HookMoveOem
<1>5. CASE HookExtend
  <2>1. ExtendedSize(table, "oem", newState - 1) \in Nat \ {0}
    BY <1>5 DEF HookExtend, Grows, ExtendedSize, Table, Extent, Parts
  <2>2. table' \in Table
    BY <1>5, <2>1 DEF HookExtend, ExtendPartition, Table, Extent
  <2> QED BY <1>5, <2>2, DiskAssumption DEF HookExtend
<1>6. CASE HookRefused
  BY <1>6 DEF HookRefused
<1>7. CASE HookFault
  BY <1>7, DiskAssumption DEF HookFault
<1> QED
  BY <1>1, <1>2, <1>3, <1>4, <1>5, <1>6, <1>7 DEF HookStep

\* Every variable of the disk layout program stays in its type.
THEOREM HookTypeCorrect == HookSpec => []HookTypeOK
<1>1. HookTypeOK /\ [HookNext]_<<conf, diskEnd, hookVars>> => HookTypeOK'
  <2> SUFFICES ASSUME HookTypeOK, [HookNext]_<<conf, diskEnd, hookVars>>
               PROVE  HookTypeOK'
    OBVIOUS
  <2>1. CASE HookStep /\ UNCHANGED <<conf, diskEnd>>
    BY <2>1, HookStepTyped
  <2>2. CASE Invoke /\ UNCHANGED <<conf, diskEnd>>
    BY <2>2 DEF Invoke, HookTypeOK, HookPositions
  <2>3. CASE UNCHANGED <<conf, diskEnd, hookVars>>
    BY <2>3 DEF hookVars, HookTypeOK
  <2> QED BY <2>1, <2>2, <2>3 DEF HookNext
<1> QED BY <1>1, HookTypeInit, PTL DEF HookSpec

-----------------------------------------------------------------------------
(* Nothing is refused after the stateful partition has moved.              *)

\* sda5 and sda3 stay where the image has them; sda3 only ever shrinks.
RootsInPlace ==
  /\ table["sda5"] = InitTable["sda5"]
  /\ table["sda3"].start = InitTable["sda3"].start
  /\ table["sda3"].size <= InitTable["sda3"].size

\* What moves stays on 4 KB boundaries.
Aligned ==
  /\ table["state"].start % Align = 0
  /\ table["oem"].size % Align = 0
  /\ startPoint % Align = 0

\* The stateful partition never moves into the part of the disk that sda3
\* keeps: the margin if sda3 is reclaimed, all of it otherwise.
StateAfterSDA3 ==
  /\ conf.reclaim => table["state"].start >= ReclaimedStart(InitTable)
  /\ ~conf.reclaim => table["state"].start >= InitTable["state"].start

\* Inside an invocation: the start point is clear of sda3, and the new start
\* of the stateful partition is what it was computed to be.
PlanHolds ==
  hook \in {"stateOnly", "state", "oem", "extend"} =>
    /\ After(table, "sda3") <= startPoint
    /\ conf.reclaim => startPoint = ReclaimedStart(InitTable)
    /\ ~conf.reclaim => startPoint >= InitTable["state"].start
    /\ hook = "stateOnly" => conf.reclaim
    /\ hook # "stateOnly" =>
         /\ newState = FindLast4KSector(startPoint + conf.oemSize)
         /\ table["oem"].size < conf.oemSize
    /\ hook \in {"oem", "extend"} =>
         table["state"].start = newState /\ newState <= diskEnd
    /\ hook = "extend" => table["oem"].start = startPoint

LayoutInv ==
  HookTypeOK /\ RootsInPlace /\ Aligned /\ StateAfterSDA3 /\ PlanHolds

LEMMA LayoutInvInit == HookInit => LayoutInv
<1> SUFFICES ASSUME HookInit PROVE LayoutInv
  OBVIOUS
<1>1. HookTypeOK
  BY HookTypeInit
<1>2. RootsInPlace /\ PlanHolds
  BY ImageAssumption
     DEF HookInit, RootsInPlace, PlanHolds, Table, Extent, Parts
<1>3. Aligned
  <2>1. 0 % Align = 0
    BY GeometryAssumption
  <2> QED BY <2>1, ImageAssumption DEF HookInit, Aligned, Parts
<1>4. StateAfterSDA3
  BY ImageAssumption, GeometryAssumption
     DEF HookInit, StateAfterSDA3, ReclaimedStart, Table, Extent, Parts
<1> QED BY <1>1, <1>2, <1>3, <1>4 DEF LayoutInv

\* The OEM partition at its new place ends at or before the stateful one.
LEMMA OldSizeFits ==
  ASSUME LayoutInv, hook \in {"state", "oem", "extend"}
  PROVE  startPoint + table["oem"].size <= newState
<1>1. startPoint \in Nat /\ startPoint % Align = 0
  BY DEF LayoutInv, HookTypeOK, Aligned
<1>2. table["oem"].size \in Nat /\ table["oem"].size % Align = 0
  BY DEF LayoutInv, HookTypeOK, Aligned, Table, Extent, Parts
<1>3. (startPoint + table["oem"].size) % Align = 0
  BY <1>1, <1>2, MultiplesAdd
<1>4. conf.oemSize \in Nat
  BY ConfigAssumption DEF LayoutInv, HookTypeOK
<1>5. startPoint + table["oem"].size <= startPoint + conf.oemSize
  BY <1>1, <1>2, <1>4 DEF LayoutInv, PlanHolds
<1>6. newState = FindLast4KSector(startPoint + conf.oemSize)
  BY DEF LayoutInv, PlanHolds
<1>7. /\ startPoint + table["oem"].size \in Nat
      /\ startPoint + conf.oemSize \in Nat
  BY <1>1, <1>2, <1>4
<1> QED BY <1>3, <1>5, <1>6, <1>7, MultipleStaysBelow

LEMMA NewStateIsSector ==
  ASSUME LayoutInv, hook \in {"state", "oem", "extend"}
  PROVE  newState \in Nat /\ newState % Align = 0 /\ startPoint <= newState
<1>1. startPoint + conf.oemSize \in Nat
  BY ConfigAssumption DEF LayoutInv, HookTypeOK
<1>2. newState = FindLast4KSector(startPoint + conf.oemSize)
  BY DEF LayoutInv, PlanHolds
<1>3. newState \in Nat /\ newState % Align = 0
  BY <1>1, <1>2, RoundsDown, RoundsToMultiple
<1>4. startPoint <= newState
  BY <1>3, OldSizeFits DEF LayoutInv, HookTypeOK, Table, Extent, Parts
<1> QED BY <1>3, <1>4

\* What HookPlan computes is aligned and clear of sda3.
LEMMA PlannedStart ==
  ASSUME LayoutInv, conf.reclaim => IsPartitionMinimal(table, "sda3")
  PROVE  /\ StartPointSector(table) % Align = 0
         /\ After(table, "sda3") <= StartPointSector(table)
         /\ conf.reclaim =>
              StartPointSector(table) = ReclaimedStart(InitTable)
         /\ ~conf.reclaim =>
              StartPointSector(table) >= InitTable["state"].start
<1> USE DEF LayoutInv, HookTypeOK, RootsInPlace, Table, Extent, Parts
<1>1. CASE conf.reclaim
  <2>1. StartPointSector(table) = InitTable["sda3"].start + Margin
    BY <1>1 DEF StartPointSector, ReclaimedStart
  <2>2. /\ InitTable["sda3"].start \in Nat
        /\ InitTable["sda3"].start % Align = 0
        /\ Margin \in Nat /\ Margin % Align = 0
    BY GeometryAssumption, ImageAssumption
  <2>3. StartPointSector(table) % Align = 0
    BY <2>1, <2>2, MultiplesAdd
  <2>4. After(table, "sda3") <= StartPointSector(table)
    BY <1>1, <2>1, GeometryAssumption DEF After, IsPartitionMinimal
  <2> QED BY <1>1, <2>1, <2>3, <2>4 DEF ReclaimedStart
<1>2. CASE ~conf.reclaim
  <2>1. StartPointSector(table) = table["state"].start
    BY <1>2 DEF StartPointSector
  <2>2. table["state"].start >= InitTable["state"].start
    BY <1>2 DEF StateAfterSDA3
  <2>3. After(InitTable, "sda3") <= InitTable["state"].start
    BY ImageAssumption
  <2>4. After(table, "sda3") <= StartPointSector(table)
    BY <2>1, <2>2, <2>3, ImageAssumption DEF After
  <2> QED BY <1>2, <2>1, <2>2, <2>4 DEF Aligned
<1> QED BY <1>1, <1>2

LEMMA LayoutInvStep ==
  ASSUME LayoutInv, HookStep, UNCHANGED <<conf, diskEnd>>
  PROVE  LayoutInv'
<1>1. HookTypeOK /\ HookTypeOK'
  BY HookStepTyped DEF LayoutInv
<1>2. CASE HookShrink
  <2>1. /\ table' = [table EXCEPT !["sda3"].size = MinSize]
        /\ MinSize < table["sda3"].size
    BY <1>2, <1>1, GeometryAssumption
       DEF HookShrink, MinimizePartition, IsPartitionMinimal, HookTypeOK,
           Table, Extent, Parts
  <2> QED
    BY <1>1, <1>2, <2>1, ImageAssumption, GeometryAssumption
       DEF LayoutInv, HookShrink, RootsInPlace, Aligned, StateAfterSDA3,
           PlanHolds, HookTypeOK, Table, Extent, Parts
<1>3. CASE HookPlan
  <2>1. /\ startPoint' % Align = 0
        /\ After(table, "sda3") <= startPoint'
        /\ conf.reclaim => startPoint' = ReclaimedStart(InitTable)
        /\ ~conf.reclaim => startPoint' >= InitTable["state"].start
    BY <1>3, PlannedStart DEF HookPlan
  <2>2. newState' = FindLast4KSector(startPoint' + conf.oemSize)
    BY <1>3 DEF HookPlan, NewStateStart
  <2>3. hook' = "state" => table["oem"].size < conf.oemSize
    BY <1>1, <1>3, ConfigAssumption
       DEF HookPlan, OEMSmaller, HookTypeOK, Table, Extent, Parts
  <2>4. hook' \in {"state", "stateOnly", "done"}
        /\ (hook' = "stateOnly" => conf.reclaim)
        /\ table' = table
    BY <1>3 DEF HookPlan
  <2>5. RootsInPlace' /\ Aligned' /\ StateAfterSDA3'
    BY <2>1, <2>4 DEF LayoutInv, RootsInPlace, Aligned, StateAfterSDA3
  <2>6. PlanHolds'
    BY <2>1, <2>2, <2>3, <2>4 DEF PlanHolds, After
  <2> QED BY <1>1, <2>5, <2>6 DEF LayoutInv
<1>4. CASE HookMoveState
  <2>1. table' = [table EXCEPT !["state"].start = StateTarget]
    BY <1>4 DEF HookMoveState, MovePartition
  <2>2. /\ StateTarget \in Nat
        /\ StateTarget % Align = 0
        /\ startPoint <= StateTarget
    <3>1. CASE hook = "stateOnly"
      BY <3>1, <1>1 DEF StateTarget, LayoutInv, Aligned, HookTypeOK
    <3>2. CASE hook = "state"
      BY <3>2, NewStateIsSector DEF StateTarget
    <3> QED BY <1>4, <3>1, <3>2 DEF HookMoveState
  <2>3. StateTarget <= diskEnd
    BY <1>1, <1>4, <2>2, DiskAssumption
       DEF HookMoveState, StateFits, Fits, HookTypeOK, Table, Extent, Parts
  <2>4. RootsInPlace'
    BY <1>1, <2>1 DEF LayoutInv, RootsInPlace, HookTypeOK, Table, Parts
  <2>5. Aligned'
    BY <1>1, <1>4, <2>1, <2>2
       DEF LayoutInv, Aligned, HookMoveState, HookTypeOK, Table, Extent, Parts
  <2>6. StateAfterSDA3'
    <3>1. table'["state"].start = StateTarget
      BY <1>1, <2>1 DEF HookTypeOK, Table, Extent, Parts
    <3>2. /\ conf.reclaim => startPoint = ReclaimedStart(InitTable)
          /\ ~conf.reclaim => startPoint >= InitTable["state"].start
      BY <1>4 DEF HookMoveState, LayoutInv, PlanHolds
    <3>3. /\ ReclaimedStart(InitTable) \in Nat
          /\ InitTable["state"].start \in Nat
          /\ startPoint \in Nat
      BY <1>1, ImageAssumption, GeometryAssumption
         DEF HookTypeOK, ReclaimedStart, Table, Extent, Parts
    <3> QED BY <2>2, <3>1, <3>2, <3>3 DEF StateAfterSDA3
  <2>7. PlanHolds'
    BY <1>1, <1>4, <2>1, <2>3
       DEF LayoutInv, PlanHolds, HookMoveState, StateTarget, After,
           HookTypeOK, Table, Extent, Parts
  <2> QED BY <1>1, <2>4, <2>5, <2>6, <2>7 DEF LayoutInv
<1>5. CASE HookMoveOem
  <2>1. table' = [table EXCEPT !["oem"].start = startPoint]
    BY <1>5 DEF HookMoveOem, MovePartition
  <2>2. RootsInPlace' /\ Aligned' /\ StateAfterSDA3'
    BY <1>1, <1>5, <2>1
       DEF HookMoveOem, LayoutInv, RootsInPlace, Aligned, StateAfterSDA3,
           HookTypeOK, Table, Extent, Parts
  <2>3. PlanHolds'
    BY <1>1, <1>5, <2>1
       DEF HookMoveOem, LayoutInv, PlanHolds, After, HookTypeOK, Table,
           Extent, Parts
  <2> QED BY <1>1, <2>2, <2>3 DEF LayoutInv
<1>6. CASE HookExtend
  <2>1. table' = [table EXCEPT !["oem"].size = newState - startPoint]
    <3>1. table["oem"].start = startPoint
      BY <1>6 DEF HookExtend, LayoutInv, PlanHolds
    <3>2. ExtendedSize(table, "oem", newState - 1) = newState - startPoint
      BY <1>1, <3>1 DEF ExtendedSize, HookTypeOK
    <3> QED BY <1>6, <3>2 DEF HookExtend, ExtendPartition
  <2>2. (newState - startPoint) % Align = 0
    <3>1. newState \in Nat /\ newState % Align = 0 /\ startPoint <= newState
      BY <1>6, NewStateIsSector DEF HookExtend
    <3>2. startPoint \in Nat /\ startPoint % Align = 0
      BY <1>1 DEF LayoutInv, Aligned, HookTypeOK
    <3> QED BY <3>1, <3>2, MultiplesSubtract
  <2>3. RootsInPlace' /\ Aligned' /\ StateAfterSDA3'
    BY <1>1, <1>6, <2>1, <2>2
       DEF HookExtend, LayoutInv, RootsInPlace, Aligned, StateAfterSDA3,
           HookTypeOK, Table, Extent, Parts
  <2>4. PlanHolds'
    BY <1>6 DEF HookExtend, PlanHolds
  <2> QED BY <1>1, <2>3, <2>4 DEF LayoutInv
<1>7. CASE HookRefused
  BY <1>1, <1>7
     DEF HookRefused, LayoutInv, RootsInPlace, Aligned, StateAfterSDA3,
         PlanHolds
<1>8. CASE HookFault
  BY <1>1, <1>8
     DEF HookFault, LayoutInv, RootsInPlace, Aligned, StateAfterSDA3,
         PlanHolds
<1> QED
  BY <1>2, <1>3, <1>4, <1>5, <1>6, <1>7, <1>8 DEF HookStep

LEMMA LayoutInvImplies == LayoutInv => NoRefusalAfterStateMove
<1> SUFFICES ASSUME LayoutInv PROVE NoRefusalAfterStateMove
  OBVIOUS
<1> USE DEF LayoutInv, HookTypeOK, Table, Extent, Parts
<1>1. ASSUME hook \in {"oem", "extend"}
      PROVE  /\ startPoint + table["oem"].size <= newState
             /\ startPoint <= newState
             /\ newState = table["state"].start /\ newState <= diskEnd
             /\ After(table, "sda5") <= startPoint
             /\ After(table, "sda3") <= startPoint
  <2>1. After(table, "sda5") <= table["sda3"].start
    BY ImageAssumption DEF RootsInPlace, After
  <2>2. After(table, "sda3") <= startPoint
    BY <1>1 DEF PlanHolds
  <2>3. After(table, "sda5") <= startPoint
    BY <2>1, <2>2 DEF After
  <2> QED BY <1>1, <2>2, <2>3, OldSizeFits, NewStateIsSector DEF PlanHolds
<1>2. hook = "oem" => OemFits
  BY <1>1, DiskAssumption DEF OemFits, Fits, After
<1>3. ASSUME hook = "extend"
      PROVE  ExtendFits
  <2>1. table["oem"].start = startPoint
    BY <1>3 DEF PlanHolds
  <2>2. table["oem"].start + ExtendedSize(table, "oem", newState - 1)
          = newState
    BY <2>1 DEF ExtendedSize
  <2> QED BY <1>1, <1>3, <2>1, <2>2, DiskAssumption DEF ExtendFits, Fits, After
<1>4. ASSUME hook = "extend", conf.oemSize % Align = 0
      PROVE  Grows
  <2>1. conf.oemSize \in Nat
    BY ConfigAssumption
  <2>2. newState = startPoint + conf.oemSize
    <3>1. (startPoint + conf.oemSize) % Align = 0
      BY <1>4, <2>1, MultiplesAdd DEF Aligned
    <3> QED BY <1>4, <2>1, <3>1, MultipleIsFixed DEF PlanHolds
  <2> QED BY <1>4, <2>1, <2>2 DEF Grows, ExtendedSize, PlanHolds
<1> QED BY <1>2, <1>3, <1>4 DEF NoRefusalAfterStateMove

LEMMA LayoutInvNext ==
  LayoutInv /\ [HookNext]_<<conf, diskEnd, hookVars>> => LayoutInv'
<1> SUFFICES ASSUME LayoutInv, [HookNext]_<<conf, diskEnd, hookVars>>
             PROVE  LayoutInv'
  OBVIOUS
<1>1. CASE HookStep /\ UNCHANGED <<conf, diskEnd>>
  BY <1>1, LayoutInvStep
<1>2. CASE Invoke /\ UNCHANGED <<conf, diskEnd>>
  BY <1>2
     DEF Invoke, LayoutInv, HookTypeOK, HookPositions, RootsInPlace,
         Aligned, StateAfterSDA3, PlanHolds
<1>3. CASE UNCHANGED <<conf, diskEnd, hookVars>>
  BY <1>3
     DEF hookVars, LayoutInv, HookTypeOK, RootsInPlace, Aligned,
         StateAfterSDA3, PlanHolds, After
<1> QED BY <1>1, <1>2, <1>3 DEF HookNext
\* For every image, disk, configuration and sequence of failed attempts, the
\* edits that follow the move of the stateful partition are never refused.
THEOREM NothingRefused == HookSpec => []NoRefusalAfterStateMove
BY LayoutInvInit, LayoutInvNext, LayoutInvImplies, PTL DEF HookSpec

-----------------------------------------------------------------------------
(* The first edit, and what the last one leaves behind.                    *)

\* What the attempts before this one may have left: the OEM partition has its
\* old size until it is extended, and its old place until the stateful
\* partition has moved.  After an extension, also one followed by an error,
\* there are no more attempts.
AttemptInv ==
  /\ table["state"].size = InitTable["state"].size
  /\ hook \notin {"done", "error"} \/ startPoint = 0 =>
       table["oem"].size = InitTable["oem"].size
  /\ table["oem"].size # InitTable["oem"].size => ~NeedsRelocation
  /\ conf.reclaim =>
       table["oem"].start \in {InitTable["oem"].start, ReclaimedStart(InitTable)}
  /\ ~conf.reclaim /\ table["state"].start = InitTable["state"].start =>
       table["oem"].start = InitTable["oem"].start
  /\ OEMSmaller(InitTable) => table["oem"].start = InitTable["oem"].start
  /\ conf.reclaim /\ startPoint # 0 => IsPartitionMinimal(table, "sda3")
  /\ hook = "stateOnly" => OEMSmaller(table)
  /\ hook = "state" /\ ~conf.reclaim => startPoint = table["state"].start
  /\ CompletedLayout

\* While an edit is to be made the start point has been computed.
LEMMA PlannedIsPositive ==
  ASSUME LayoutInv, hook \in {"stateOnly", "state", "oem", "extend"}
  PROVE  startPoint > 0
<1>1. ReclaimedStart(InitTable) > 0
      /\ InitTable["state"].start >= ReclaimedStart(InitTable)
      /\ InitTable["state"].start \in Nat
      /\ ReclaimedStart(InitTable) \in Nat
  BY GeometryAssumption, ImageAssumption
     DEF ReclaimedStart, Table, Extent, Parts
<1>2. /\ conf.reclaim => startPoint = ReclaimedStart(InitTable)
      /\ ~conf.reclaim => startPoint >= InitTable["state"].start
  BY DEF LayoutInv, PlanHolds
<1> QED BY <1>1, <1>2 DEF LayoutInv, HookTypeOK

\* The OEM partition moves only once the stateful partition has.
LEMMA StateHasMoved ==
  ASSUME LayoutInv, hook \in {"state", "oem", "extend"}
  PROVE  /\ newState > startPoint
         /\ ~conf.reclaim => newState > InitTable["state"].start
<1>1. startPoint + table["oem"].size <= newState
      /\ newState \in Nat /\ startPoint \in Nat
  BY OldSizeFits, NewStateIsSector DEF LayoutInv, HookTypeOK
<1>2. table["oem"].size \in Nat \ {0} /\ InitTable["state"].start \in Nat
  BY ImageAssumption DEF LayoutInv, HookTypeOK, Table, Extent, Parts
<1>3. ~conf.reclaim => startPoint >= InitTable["state"].start
  BY DEF LayoutInv, PlanHolds
<1> QED BY <1>1, <1>2, <1>3

LEMMA AttemptInvInit == HookInit => AttemptInv
BY DEF HookInit, AttemptInv, CompletedLayout, OEMSmaller

LEMMA AttemptInvStep ==
  ASSUME LayoutInv, LayoutInv', AttemptInv, HookStep,
         UNCHANGED <<conf, diskEnd>>
  PROVE  AttemptInv'
<1> USE DEF LayoutInv, HookTypeOK, Table, Extent, Parts, AttemptInv
<1>1. CASE HookShrink
  <2>1. table' = [table EXCEPT !["sda3"].size = MinSize]
    BY <1>1 DEF HookShrink, MinimizePartition
  <2>2. startPoint = 0
    BY <1>1 DEF HookShrink
  <2> QED
    BY <1>1, <2>1, <2>2, GeometryAssumption
       DEF HookShrink, IsPartitionMinimal, CompletedLayout, OEMSmaller
<1>2. CASE HookPlan
  <2>1. table' = table /\ startPoint' = StartPointSector(table)
        /\ hook' \in {"state", "stateOnly", "done"}
        /\ (hook' = "done" => OEMSmaller(table) /\ ~conf.reclaim)
    BY <1>2 DEF HookPlan
  <2>2. table["oem"].size = InitTable["oem"].size
    BY <1>2 DEF HookPlan
  <2>3. CompletedLayout'
    BY <2>1, <2>2 DEF CompletedLayout, OEMSmaller
  <2> QED
    BY <1>2, <2>1, <2>2, <2>3 DEF HookPlan, StartPointSector, OEMSmaller
<1>3. CASE HookMoveState
  <2>1. table' = [table EXCEPT !["state"].start = StateTarget]
        /\ UNCHANGED <<startPoint, newState>>
        /\ hook' = (IF hook = "stateOnly" THEN "done" ELSE "oem")
        /\ hook \in {"stateOnly", "state"}
    BY <1>3 DEF HookMoveState, MovePartition
  <2>2. table["oem"].size = InitTable["oem"].size
    BY <2>1
  <2>3. table'["state"].start = StateTarget
        /\ table'["state"].size = table["state"].size
        /\ table'["oem"] = table["oem"] /\ table'["sda3"] = table["sda3"]
    BY <2>1
  <2>4. CASE hook = "stateOnly"
    <3>1. conf.reclaim /\ StateTarget = ReclaimedStart(InitTable)
      BY <2>4 DEF PlanHolds, StateTarget
    <3>2. ReclaimedStart(table') = ReclaimedStart(InitTable)
      BY <2>3 DEF ReclaimedStart, RootsInPlace
    <3>3. CompletedLayout'
      <4>1. OEMSmaller(table)
        BY <2>4
      <4> QED
        BY <2>1, <2>2, <2>3, <3>1, <3>2, <4>1 DEF CompletedLayout, OEMSmaller
    <3> QED
      BY <2>1, <2>2, <2>3, <2>4, <3>1, <3>3 DEF IsPartitionMinimal, OEMSmaller
  <2>5. CASE hook = "state"
    <3>1. StateTarget = newState
      BY <2>5 DEF StateTarget
    <3>2. ~conf.reclaim => StateTarget > InitTable["state"].start
      BY <2>5, <3>1, StateHasMoved
    <3>3. InitTable["state"].start \in Nat /\ StateTarget \in Nat
      BY <3>1, ImageAssumption
    <3> QED
      BY <2>1, <2>2, <2>3, <2>5, <3>2, <3>3
         DEF IsPartitionMinimal, CompletedLayout, OEMSmaller
  <2> QED BY <2>1, <2>4, <2>5
<1>4. CASE HookMoveOem
  <2>1. table' = [table EXCEPT !["oem"].start = startPoint]
        /\ UNCHANGED <<startPoint, newState>> /\ hook = "oem"
        /\ hook' = "extend"
    BY <1>4 DEF HookMoveOem, MovePartition
  <2>2. table'["oem"].start = startPoint
        /\ table'["oem"].size = table["oem"].size
        /\ table'["state"] = table["state"] /\ table'["sda3"] = table["sda3"]
    BY <2>1
  <2>3. ~conf.reclaim => table["state"].start > InitTable["state"].start
    BY <2>1, StateHasMoved DEF PlanHolds
  <2>4. InitTable["state"].start \in Nat
    BY ImageAssumption
  <2>5. conf.reclaim => startPoint = ReclaimedStart(InitTable)
    BY <2>1 DEF PlanHolds
  <2>6. ~OEMSmaller(InitTable)
    BY <2>1, ConfigAssumption, ImageAssumption DEF PlanHolds, OEMSmaller
  <2> QED
    BY <2>1, <2>2, <2>3, <2>4, <2>5, <2>6
       DEF IsPartitionMinimal, CompletedLayout, OEMSmaller
<1>5. CASE HookExtend
  <2>1. table' = [table EXCEPT !["oem"].size = newState - startPoint]
        /\ UNCHANGED <<startPoint, newState>> /\ hook = "extend"
        /\ hook' \in {"done", "error"}
    <3>1. table["oem"].start = startPoint
      BY <1>5 DEF HookExtend, PlanHolds
    <3>2. ExtendedSize(table, "oem", newState - 1) = newState - startPoint
      BY <3>1 DEF ExtendedSize
    <3> QED BY <1>5, <3>2 DEF HookExtend, ExtendPartition
  <2>2. table'["oem"].size = newState - startPoint
        /\ table'["oem"].start = table["oem"].start
        /\ table'["state"] = table["state"] /\ table'["sda3"] = table["sda3"]
    BY <2>1
  <2>3. startPoint > 0
    BY <2>1, PlannedIsPositive
  <2>4. table["oem"].start = startPoint /\ table["state"].start = newState
        /\ newState = FindLast4KSector(startPoint + conf.oemSize)
        /\ table["oem"].size < conf.oemSize
    BY <2>1 DEF PlanHolds
  <2>5. table["oem"].size = InitTable["oem"].size
    BY <2>1
  <2>6. conf.oemSize \in Nat /\ Align \in Nat
        /\ InitTable["oem"].size \in Nat
    BY ConfigAssumption, GeometryAssumption, ImageAssumption
  <2>7. startPoint + conf.oemSize < newState + Align
    BY <2>4, <2>6, RoundsDown
  <2>8. CompletedLayout'
    BY <2>1, <2>2, <2>4, <2>5, <2>6, <2>7
       DEF CompletedLayout, OEMSmaller, After
  <2>9. (~NeedsRelocation)'
    BY <2>1, <2>2, <2>4, <2>6
       DEF PlanHolds, NeedsRelocation, OEMAfterSDA3, SDA3End, After
  <2> QED
    BY <2>1, <2>2, <2>3, <2>8, <2>9 DEF IsPartitionMinimal, OEMSmaller
<1>6. CASE HookRefused \/ HookFault
  BY <1>6 DEF HookRefused, HookFault, IsPartitionMinimal, CompletedLayout,
              OEMSmaller
<1> QED
  BY <1>1, <1>2, <1>3, <1>4, <1>5, <1>6 DEF HookStep

\* With the space that finish-image-build demands the first edit fits, unless
\* an earlier attempt without sda3 has moved the partition already.
LEMMA FirstEditFits ==
  ASSUME LayoutInv, AttemptInv
  PROVE  StateMoveFits
<1> USE DEF LayoutInv, HookTypeOK, Table, Extent, Parts, AttemptInv
<1> SUFFICES ASSUME hook \in {"stateOnly", "state"}, RoomEnough,
                    \/ conf.reclaim
                    \/ table["state"].start = InitTable["state"].start
             PROVE  StateFits
  BY DEF StateMoveFits
<1> DEFINE target == StateTarget
<1>1. conf.oemSize \in Nat /\ diskEnd \in Nat
  BY ConfigAssumption, DiskAssumption
<1>2. startPoint =
        IF conf.reclaim THEN ReclaimedStart(InitTable)
                        ELSE InitTable["state"].start
  BY DEF PlanHolds
<1>3. target \in Nat /\ startPoint <= target
      /\ target <= startPoint + conf.oemSize
  <2>1. CASE hook = "stateOnly"
    BY <1>1, <2>1 DEF StateTarget
  <2>2. CASE hook = "state"
    <3>1. newState = FindLast4KSector(startPoint + conf.oemSize)
      BY <2>2 DEF PlanHolds
    <3>2. newState <= startPoint + conf.oemSize
      BY <1>1, <3>1, RoundsDown
    <3> QED BY <2>2, <3>2, NewStateIsSector DEF StateTarget
  <2> QED BY <2>1, <2>2
<1>4. target + table["state"].size <= diskEnd
  <2>1. startPoint + conf.oemSize + InitTable["state"].size <= diskEnd
    BY <1>2 DEF RoomEnough
  <2>2. InitTable["state"].size \in Nat
    BY ImageAssumption
  <2> HIDE DEF target
  <2> QED BY <1>1, <1>3, <2>1, <2>2
<1>5. After(table, "sda3") <= target /\ After(table, "sda5") <= target
  <2>1. After(table, "sda3") <= startPoint
    BY DEF PlanHolds
  <2>2. After(table, "sda5") <= table["sda3"].start
    BY ImageAssumption DEF RootsInPlace, After
  <2> HIDE DEF target
  <2> QED BY <1>3, <2>1, <2>2 DEF After
<1>6. After(table, "oem") <= target
  <2>1. table["oem"].size = InitTable["oem"].size
    OBVIOUS
  <2>2. CASE table["oem"].start = InitTable["oem"].start
    <3>1. After(InitTable, "oem") <= InitTable["sda3"].start
      BY ImageAssumption
    <3>2. table["sda3"].start <= startPoint
      BY DEF PlanHolds, After
    <3> HIDE DEF target
    <3> QED
      BY <1>3, <2>1, <2>2, <3>1, <3>2, ImageAssumption
         DEF After, RootsInPlace
  <2>3. CASE table["oem"].start # InitTable["oem"].start
    <3>1. conf.reclaim /\ table["oem"].start = startPoint
      BY <1>2, <2>3
    <3>2. CASE hook = "state"
      BY <3>1, <3>2, OldSizeFits DEF StateTarget, After
    <3>3. hook # "stateOnly"
      BY <2>1, <2>3 DEF OEMSmaller
    <3> QED BY <3>2, <3>3
  <2> QED BY <2>2, <2>3
<1> HIDE DEF target
<1> QED BY <1>4, <1>5, <1>6 DEF StateFits, Fits, target

LEMMA AttemptInvNext ==
  LayoutInv /\ LayoutInv' /\ AttemptInv
    /\ [HookNext]_<<conf, diskEnd, hookVars>> => AttemptInv'
<1> SUFFICES ASSUME LayoutInv, LayoutInv', AttemptInv,
                    [HookNext]_<<conf, diskEnd, hookVars>>
             PROVE  AttemptInv'
  OBVIOUS
<1>1. CASE HookStep /\ UNCHANGED <<conf, diskEnd>>
  BY <1>1, AttemptInvStep
<1>2. CASE Invoke /\ UNCHANGED <<conf, diskEnd>>
  BY <1>2 DEF Invoke, AttemptInv, CompletedLayout, OEMSmaller,
              IsPartitionMinimal
<1>3. CASE UNCHANGED <<conf, diskEnd, hookVars>>
  BY <1>3 DEF hookVars, AttemptInv, CompletedLayout, OEMSmaller,
              IsPartitionMinimal, After, NeedsRelocation, OEMAfterSDA3,
              StateReclaimed, SDA3End, ReclaimedStart
<1> QED BY <1>1, <1>2, <1>3 DEF HookNext

LEMMA AttemptInvCorrect == HookSpec => [](LayoutInv /\ AttemptInv)
BY LayoutInvInit, LayoutInvNext, AttemptInvInit, AttemptInvNext, PTL
   DEF HookSpec

\* A disk with the space that validateOEM demands never refuses the move of
\* the stateful partition, also in an attempt after a failed one, as long as
\* sda3 gives the attempts a fixed start or none of them has moved it.
THEOREM FirstMoveFits == HookSpec => []StateMoveFits
BY AttemptInvCorrect, FirstEditFits, PTL

\* An invocation of HandleDiskLayout that returns nil has put the partitions
\* where the configuration wants them, whatever failed before it.
THEOREM LayoutCompleted == HookSpec => []CompletedLayout
<1>1. AttemptInv => CompletedLayout
  BY DEF AttemptInv
<1> QED BY <1>1, AttemptInvCorrect, PTL
=============================================================================
