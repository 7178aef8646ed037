--------------------------- MODULE OemSizingProofs ---------------------------
(***************************************************************************)
(* Proofs about OemSizing, for every unit, word size and command line, and *)
(* about SizedBuild, where the VM carries out what OemSizing accepted, for *)
(* every image, disk and sequence of failed attempts.                      *)
(***************************************************************************)
EXTENDS SizedBuild, HandleDiskLayoutProofs

\* Division by a unit: what is lost is less than the unit.
LEMMA Division ==
  ASSUME NEW x \in Nat, NEW u \in Nat, u > 0
  PROVE  /\ x \div u \in Nat /\ x % u \in 0 .. u - 1
         /\ x = u * (x \div u) + (x % u)
OBVIOUS

\* A number below the word size is kept by the arithmetic of words.
LEMMA NoOverflow ==
  ASSUME NEW x \in Nat, x < Word
  PROVE  x % Word = x
<1>1. Word \in Nat /\ Word > 0
  BY SizingAssumption
<1> QED BY <1>1

LEMMA ProductIsNat == \A a, b \in Nat : a * b \in Nat
OBVIOUS

LEMMA UnitsArePositive ==
  /\ MB \in Nat /\ MB > 0 /\ GB \in Nat /\ GB > 0
  /\ ReclaimedBytes \in Nat /\ Word \in Nat
  /\ \A u \in UnitNames : UnitSize[u] \in Nat /\ UnitSize[u] > 0
<1>1. MB \in Nat /\ MB > 0 /\ GB \in Nat /\ GB > 0 /\ Word \in Nat
      /\ \A u \in UnitNames : UnitSize[u] \in Nat /\ UnitSize[u] > 0
  BY SizingAssumption DEF MB, GB, UnitNames
<1> QED BY <1>1, ProductIsNat, SizingAssumption DEF ReclaimedBytes

\* Rounding up to gigabytes loses nothing.
LEMMA RoundsUp ==
  ASSUME NEW x \in Nat
  PROVE  /\ ConvertSizeToGBRoundUp(x) \in Nat
         /\ x <= ConvertSizeToGBRoundUp(x) * GB
<1>1. GB \in Nat /\ GB > 0
  BY UnitsArePositive
<1> DEFINE q == x \div GB
<1>2. q \in Nat /\ x % GB \in 0 .. GB - 1 /\ x = GB * q + (x % GB)
  BY <1>1, Division
<1>3. (q + 1) * GB = GB * q + GB /\ q * GB = GB * q
  BY <1>1, <1>2
<1> QED
  <2>1. CASE x % GB = 0
    BY <1>1, <1>2, <1>3, <2>1 DEF ConvertSizeToGBRoundUp
  <2>2. CASE x % GB # 0
    <3>1. ConvertSizeToGBRoundUp(x) = q + 1
      BY <2>2 DEF ConvertSizeToGBRoundUp
    <3> HIDE DEF q
    <3> QED BY <1>1, <1>2, <1>3, <3>1
  <2> QED BY <2>1, <2>2

\* Rounding down to megabytes and taking one away.
LEMMA Shrinks ==
  ASSUME NEW p \in Nat, 2 * MB <= p, p < Word
  PROVE  LET s == Size((p \div MB - 1) % Word, "M") IN
         /\ s \in Sizes /\ s # NoSize
         /\ ConvertSizeToBytes(s) \in Nat
         /\ ConvertSizeToBytes(s) + MB <= p
         /\ p < ConvertSizeToBytes(s) + 2 * MB
         /\ \E k \in Nat : ConvertSizeToBytes(s) = k * MB
<1> DEFINE q == p \div MB
<1>1. MB \in Nat /\ MB > 0 /\ Word \in Nat
  BY UnitsArePositive
<1>2. q \in Nat /\ p % MB \in 0 .. MB - 1 /\ p = MB * q + (p % MB)
  BY <1>1, Division
<1>3. q >= 1
  <2>1. q = 0 => MB * q = 0
    BY <1>1
  <2> HIDE DEF q
  <2> QED BY <1>1, <1>2, <2>1
<1>4. q <= p
  <2>1. q <= MB * q
    BY <1>1, <1>2
  <2> HIDE DEF q
  <2> QED BY <1>1, <1>2, <2>1
<1>5. (q - 1) % Word = q - 1
  BY <1>1, <1>2, <1>3, <1>4, NoOverflow
<1>6. (q - 1) * MB = MB * q - MB /\ (q - 1) * MB \in Nat /\ MB * q \in Nat
  BY <1>1, <1>2, <1>3
<1>7. (q - 1) * MB < Word
  <2> HIDE DEF q
  <2> QED BY <1>1, <1>2, <1>6
<1>8. ((q - 1) * MB) % Word = (q - 1) * MB
  BY <1>6, <1>7, NoOverflow
<1>9. ConvertSizeToBytes(Size((q - 1) % Word, "M")) = (q - 1) * MB
  BY <1>5, <1>8 DEF ConvertSizeToBytes, Exact, Size, MB
<1> HIDE DEF q
<1>10. Size((q - 1) % Word, "M") \in Sizes
       /\ Size((q - 1) % Word, "M") # NoSize
  BY <1>2, <1>3, <1>5 DEF Size, Sizes, UnitNames, NoSize
<1>11. (q - 1) * MB + MB <= p /\ p < (q - 1) * MB + 2 * MB
  BY <1>1, <1>2, <1>6
<1>12. q - 1 \in Nat
  BY <1>2, <1>3
<1> QED BY <1>6, <1>9, <1>10, <1>11, <1>12 DEF q

-----------------------------------------------------------------------------
(* The inductive invariant: what is known of the configuration at every    *)
(* stage, and the room that the check of the disk size leaves.             *)

Room ==
  Shift <= 0 \/ (diskFlag > ImgSize /\ Shift + MB <= (diskFlag - ImgSize) * GB)

SizingInv ==
  /\ TypeOK
  /\ seals => boot.reclaim
  /\ stage \in {"flags", "valid"} => boot.oemSize = NoSize
  /\ stage \in {"valid", "loaded"} => FlagIsValid
  /\ stage = "loaded" => boot.oemSize = oemFlag
  /\ stage \in {"sized", "configured"} /\ boot.oemSize # NoSize /\ NoWrap
        /\ diskFlag >= 0 => Room
  /\ stage = "configured" /\ NeedDiskResize => boot.wait
  /\ ~boot.wait \/ (stage = "configured" /\ NeedDiskResize)
  /\ stage # "configured" => disk = [created |-> ImgSize, resized |-> 0]
  /\ stage = "configured" =>
       disk = [created |-> IF CreatedAtSize THEN diskFlag ELSE ImgSize,
               resized |-> IF NeedDiskResize THEN diskFlag ELSE 0]

LEMMA SizingInit == Init => SizingInv
<1> SUFFICES ASSUME Init PROVE SizingInv
  OBVIOUS
<1>1. oemFlag \in Sizes
  BY SizingAssumption DEF Init, Sizes, Size
<1>2. boot \in [reclaim : BOOLEAN, oemSize : Sizes, fsSize4K : Nat,
                wait : BOOLEAN]
  BY DEF Init, Sizes
<1>3. disk \in [created : Nat, resized : Nat]
  BY SizingAssumption DEF Init
<1> QED BY <1>1, <1>2, <1>3 DEF Init, SizingInv, TypeOK, Stages

\* Without -oem-size a sealed partition fits in what sda3 gives back.
LEMMA DefaultFits ==
  LET s == Size(2 * DefaultOEM, "M") IN
  /\ s \in Sizes /\ s # NoSize
  /\ ConvertSizeToBytes(s) = 2 * DefaultOEM * MB
  /\ ConvertSizeToBytes(s) \in Nat
  /\ ConvertSizeToBytes(s) <= ReclaimedBytes
<1>1. MB \in Nat /\ MB > 0 /\ DefaultOEM \in Nat /\ ReclaimedMB \in Nat
      /\ 2 * DefaultOEM <= ReclaimedMB /\ 2 * DefaultOEM * MB < Word
  BY UnitsArePositive, SizingAssumption
<1>2. 2 * DefaultOEM * MB \in Nat
  BY <1>1
<1>3. 2 * DefaultOEM * MB <= ReclaimedMB * MB
  <2>1. \A a, b, c \in Nat : a <= b => a * c <= b * c
    OBVIOUS
  <2>2. 2 * DefaultOEM \in Nat
    BY <1>1
  <2> QED BY <1>1, <2>1, <2>2
<1>4. (2 * DefaultOEM * MB) % Word = 2 * DefaultOEM * MB
  BY <1>1, <1>2, NoOverflow
<1>5. Size(2 * DefaultOEM, "M") \in Sizes
      /\ Size(2 * DefaultOEM, "M") # NoSize
  BY <1>1, SizingAssumption DEF Size, Sizes, UnitNames, NoSize
<1> QED
  BY <1>2, <1>3, <1>4, <1>5
     DEF ConvertSizeToBytes, Exact, Size, MB, ReclaimedBytes

\* Without overflow the partition has the bytes asked for, or twice those.
LEMMA PartitionIsExact ==
  ASSUME TypeOK, boot.oemSize = oemFlag, Parses(oemFlag), NoWrap, FlagIsValid
  PROVE  /\ PartitionBytes \in Nat
         /\ PartitionBytes < Word
         /\ 2 * MB <= PartitionBytes
         /\ Exact(oemFlag) \in Nat
         /\ PartitionBytes = Factor * Exact(oemFlag)
         /\ DefaultOEM * MB <= Exact(oemFlag)
<1>1. MB \in Nat /\ MB > 0 /\ DefaultOEM \in Nat /\ DefaultOEM >= 2
  BY UnitsArePositive, SizingAssumption
<1> DEFINE x == Exact(oemFlag)
<1>2. x \in Nat
  <2>1. oemFlag.number \in Nat /\ oemFlag.unit \in UnitNames
    BY DEF TypeOK, Sizes, Parses, NoSize, Malformed, UnitNames
  <2> QED BY <2>1, UnitsArePositive, ProductIsNat DEF Exact
<1>3. Word \in Nat
  BY SizingAssumption
<1>4. x < Word /\ (seals => 2 * x < Word)
  <2>1. Factor * x < Word
    BY DEF NoWrap
  <2> HIDE DEF x
  <2> QED BY <1>2, <1>3, <2>1 DEF Factor
<1>5. ConvertSizeToBytes(boot.oemSize) = x
  BY <1>2, <1>4, NoOverflow DEF ConvertSizeToBytes
<1>6. 2 * MB <= x /\ DefaultOEM * MB <= x
  <2>1. x >= DefaultOEM * MB
    BY <1>5 DEF FlagIsValid, Parses, NoSize, UnitNames
  <2>2. \A a, c \in Nat : a >= 2 => 2 * c <= a * c
    OBVIOUS
  <2>3. 2 * MB <= DefaultOEM * MB /\ DefaultOEM * MB \in Nat
    BY <1>1, <2>2
  <2> HIDE DEF x
  <2> QED BY <1>1, <1>2, <2>1, <2>3
<1> HIDE DEF x
<1>7. CASE seals
  <2>1. (2 * x) % Word = 2 * x
    BY <1>2, <1>4, <1>7, NoOverflow
  <2> QED
    BY <1>1, <1>2, <1>4, <1>5, <1>6, <1>7, <2>1
       DEF PartitionBytes, Factor, x
<1>8. CASE ~seals
  BY <1>2, <1>4, <1>5, <1>6, <1>8 DEF PartitionBytes, Factor, x
<1> QED BY <1>2, <1>6, <1>7, <1>8 DEF x

\* The heart of it: a disk that passes the check has room for the shrunk
\* partition, with a megabyte to spare.
LEMMA CheckLeavesRoom ==
  ASSUME SizingInv, SizeByFlag, NoWrap, diskFlag >= 0
  PROVE  Room'
<1> USE DEF SizingInv
<1>1. MB \in Nat /\ MB > 0 /\ GB \in Nat /\ GB > 0 /\ ReclaimedBytes \in Nat
      /\ ImgSize \in Nat /\ Word \in Nat
  BY UnitsArePositive, SizingAssumption
<1>2. boot.oemSize = oemFlag /\ Parses(oemFlag) /\ FlagIsValid
  BY DEF SizeByFlag, Move, FlagIsValid
<1> DEFINE p == PartitionBytes
           e == ExtraBytes
           up == ConvertSizeToGBRoundUp(e)
<1>3. p \in Nat /\ p < Word /\ 2 * MB <= p
  BY <1>2, PartitionIsExact
<1>4. e \in Nat /\ (boot.reclaim => p - ReclaimedBytes <= e)
      /\ (~boot.reclaim => e = p)
  <2> HIDE DEF p
  <2> QED BY <1>1, <1>3 DEF ExtraBytes, p
<1>5. up \in Nat /\ e <= up * GB
  BY <1>4, RoundsUp
<1>6. DiskSize >= ImgSize + up
  BY DEF SizeByFlag, DiskIsLarge
<1> DEFINE s == ShrunkSize
           c == ConvertSizeToBytes(s)
           r == IF boot.reclaim THEN ReclaimedBytes ELSE 0
<1>7. c \in Nat /\ c + MB <= p
  BY <1>3, Shrinks DEF ShrunkSize
<1>8. boot'.oemSize = s /\ boot'.reclaim = boot.reclaim /\ diskFlag' = diskFlag
  BY DEF SizeByFlag, Keep, TypeOK
<1>9. Shift' = c - r
  BY <1>8 DEF Shift, ConvertSizeToBytes, Exact
<1>10. diskFlag \in Int /\ diskFlag < Word
  BY SizingAssumption DEF TypeOK
<1> HIDE DEF c, s, p, e
<1>11. c - r + MB <= e
  BY <1>1, <1>3, <1>4, <1>7
<1>12. CASE diskFlag = 0
  <2>1. up = 0
    BY <1>1, <1>5, <1>6, <1>12 DEF DiskSize
  <2>2. e <= 0
    BY <1>1, <1>4, <1>5, <2>1
  <2>3. c - r <= 0
    <3> HIDE DEF r
    <3>1. r \in Nat
      BY <1>1 DEF r
    <3> QED BY <1>1, <1>4, <1>7, <1>11, <2>2, <3>1
  <2> QED BY <1>9, <2>3 DEF Room
<1>13. CASE diskFlag # 0
  <2>1. DiskSize = diskFlag
    BY <1>10, <1>13, NoOverflow DEF DiskSize
  <2>2. diskFlag - ImgSize \in Nat /\ up <= diskFlag - ImgSize
    <3> HIDE DEF up
    <3> QED BY <1>1, <1>5, <1>6, <1>10, <2>1
  <2>3. up * GB <= (diskFlag - ImgSize) * GB
    <3>1. \A a, b, g \in Nat : a <= b => a * g <= b * g
      OBVIOUS
    <3> QED BY <1>1, <1>5, <2>2, <3>1
  <2>4. c - r + MB <= (diskFlag - ImgSize) * GB
    <3> HIDE DEF r, up
    <3>1. r \in Nat /\ up * GB \in Nat /\ (diskFlag - ImgSize) * GB \in Nat
      BY <1>1, <1>5, <2>2, ProductIsNat DEF r
    <3> QED BY <1>1, <1>4, <1>5, <1>7, <1>11, <2>3, <3>1
  <2>5. c - r <= 0 \/ diskFlag > ImgSize
    <3>1. diskFlag = ImgSize => (diskFlag - ImgSize) * GB = 0
      BY <1>1
    <3> HIDE DEF r
    <3>2. r \in Nat
      BY <1>1 DEF r
    <3> QED BY <1>1, <1>7, <1>10, <2>2, <2>4, <3>1, <3>2
  <2> QED BY <1>8, <1>9, <2>4, <2>5 DEF Room
<1> QED BY <1>12, <1>13

LEMMA SizingInvStep ==
  ASSUME SizingInv, [Next]_vars
  PROVE  SizingInv'
<1> USE DEF SizingInv, TypeOK, Stages, Move, Keep
<1>1. CASE Validate
  BY <1>1 DEF Validate, FlagIsValid
<1>2. CASE LoadConfigs
  BY <1>2 DEF LoadConfigs, FlagIsValid
<1>3. CASE SizeByDefault
  <2>1. (DefaultOEM * MB) \div Block \in Nat
    BY UnitsArePositive, SizingAssumption, ProductIsNat, Division
  <2>2. CASE seals
    <3>1. boot' = [boot EXCEPT !.oemSize = Size(2 * DefaultOEM, "M"),
                               !.fsSize4K = (DefaultOEM * MB) \div Block]
      BY <1>3, <2>2 DEF SizeByDefault
    <3>2. boot'.oemSize = Size(2 * DefaultOEM, "M")
          /\ boot'.reclaim = boot.reclaim /\ boot'.wait = boot.wait
          /\ boot' \in [reclaim : BOOLEAN, oemSize : Sizes, fsSize4K : Nat,
                        wait : BOOLEAN]
      BY <2>1, <3>1, DefaultFits
    <3>3. Shift' <= 0
      BY <2>2, <3>2, DefaultFits, UnitsArePositive
         DEF Shift, ConvertSizeToBytes, Exact
    <3> QED BY <1>3, <3>2, <3>3 DEF SizeByDefault, Room
  <2>3. CASE ~seals
    BY <1>3, <2>3 DEF SizeByDefault
  <2> QED BY <2>2, <2>3
<1>4. CASE SizeByFlag
  <2>1. (NoWrap /\ diskFlag >= 0)' => NoWrap /\ diskFlag >= 0
    BY <1>4 DEF SizeByFlag, NoWrap, Factor
  <2>2. (NoWrap /\ diskFlag >= 0)' => Room'
    BY <1>4, <2>1, CheckLeavesRoom
  <2>3. boot' \in [reclaim : BOOLEAN, oemSize : Sizes, fsSize4K : Nat,
                   wait : BOOLEAN]
        /\ boot'.reclaim = boot.reclaim /\ boot'.wait = boot.wait
    <3>1. Word \in Nat /\ Word > 0 /\ Block \in Nat /\ Block > 0
      BY SizingAssumption
    <3>2. \A a \in Int : a % Word \in Nat
      BY <3>1
    <3>3. \A a \in Nat : a \div Block \in Nat /\ a \div MB \in Nat
      BY <3>1, UnitsArePositive, Division
    <3>4. boot.oemSize.number \in Nat /\ boot.oemSize.unit \in UnitNames
      BY <1>4 DEF SizeByFlag, FlagIsValid, Parses, Sizes, NoSize, Malformed
    <3>5. Exact(boot.oemSize) \in Nat
      BY <3>4, UnitsArePositive, ProductIsNat DEF Exact
    <3>6. ConvertSizeToBytes(boot.oemSize) \in Nat
      BY <3>2, <3>5 DEF ConvertSizeToBytes
    <3>7. PartitionBytes \in Nat
      BY <3>2, <3>6 DEF PartitionBytes
    <3>8. ShrunkSize \in Sizes
      <4>1. PartitionBytes \div MB - 1 \in Int
        BY <3>3, <3>7
      <4>2. (PartitionBytes \div MB - 1) % Word \in Nat
        BY <3>2, <4>1
      <4> QED BY <4>2 DEF ShrunkSize, Size, Sizes, UnitNames
    <3> QED BY <1>4, <3>3, <3>6, <3>8 DEF SizeByFlag
  <2> QED BY <1>4, <2>2, <2>3 DEF SizeByFlag
<1>5. CASE DiskTooSmall
  BY <1>5 DEF DiskTooSmall
<1>6. CASE Configure
  <2>1. boot'.oemSize = boot.oemSize /\ boot'.reclaim = boot.reclaim
        /\ boot'.wait = (boot.wait \/ NeedDiskResize)
        /\ boot' \in [reclaim : BOOLEAN, oemSize : Sizes, fsSize4K : Nat,
                      wait : BOOLEAN]
    BY <1>6 DEF Configure, NeedDiskResize
  <2>2. Room' <=> Room
    BY <1>6, <2>1 DEF Configure, Room, Shift, ConvertSizeToBytes, Exact
  <2>3. NeedDiskResize' <=> NeedDiskResize
    BY <1>6, <2>1 DEF Configure, NeedDiskResize
  <2>4. NoWrap' <=> NoWrap
    BY <1>6 DEF Configure, NoWrap, Factor
  <2>5. disk' = [created |-> IF CreatedAtSize THEN diskFlag ELSE ImgSize,
                 resized |-> IF NeedDiskResize THEN diskFlag ELSE 0]
        /\ (CreatedAtSize' <=> CreatedAtSize)
    BY <1>6, <2>1 DEF Configure, CreatedAtSize, ResizeStep
  <2>6. disk' \in [created : Nat, resized : Nat]
    <3>1. ImgSize \in Nat /\ diskFlag \in Int
      BY SizingAssumption
    <3>2. CreatedAtSize \/ NeedDiskResize => diskFlag \in Nat
      BY <3>1 DEF CreatedAtSize, NeedDiskResize
    <3> QED BY <2>5, <3>1, <3>2
  <2> QED BY <1>6, <2>1, <2>2, <2>3, <2>4, <2>5, <2>6 DEF Configure
<1>7. CASE UNCHANGED vars
  BY <1>7 DEF vars, FlagIsValid, NoWrap, Factor, Room, Shift,
     ConvertSizeToBytes, Exact, NeedDiskResize, CreatedAtSize
<1> QED
  BY <1>1, <1>2, <1>3, <1>4, <1>5, <1>6, <1>7 DEF Next, Finished

LEMMA SizingCorrect == Spec => []SizingInv
BY SizingInit, SizingInvStep, PTL DEF Spec

\* A build that finish-image-build accepts has room on its disk, for every
\* size and disk size that neither overflow nor are negative.
THEOREM EnoughRoom == Spec => []AcceptedLeavesRoom
<1>1. SizingInv => AcceptedLeavesRoom
  <2> SUFFICES ASSUME SizingInv, Accepted, NoWrap, diskFlag >= 0
               PROVE  Shift <= 0 \/ Shift + MB <= Growth
    BY DEF AcceptedLeavesRoom
  <2>1. Room
    BY DEF SizingInv, Accepted
  <2>2. diskFlag > ImgSize =>
          boot.wait /\ disk = [created |-> ImgSize, resized |-> diskFlag]
    BY DEF SizingInv, Accepted, NeedDiskResize, CreatedAtSize
  <2>3. ~boot.wait \/ diskFlag > ImgSize
    BY DEF SizingInv, NeedDiskResize
  <2> QED BY <2>1, <2>2, <2>3 DEF Room, Growth
<1> QED BY <1>1, SizingCorrect, PTL

\* Every variable stays in its type, also where the arithmetic wraps around
\* or the disk size is negative (uint64 conversions of validateOEM).
THEOREM SizingTypes == Spec => []TypeOK
<1>1. SizingInv => TypeOK
  BY DEF SizingInv
<1> QED BY <1>1, SizingCorrect, PTL

-----------------------------------------------------------------------------
(* The room for the hash tree.                                             *)

HashRoom ==
  LET fs == boot.fsSize4K * Block IN
  /\ fs >= DefaultOEM * MB
  /\ Parses(oemFlag) => Exact(oemFlag) - fs \in 0 .. Block - 1
  /\ fs + fs \div 4 <= ConvertSizeToBytes(boot.oemSize)

HashInv ==
  stage \in {"sized", "configured"} /\ boot.oemSize # NoSize /\ seals /\ NoWrap
    => HashRoom

LEMMA Monotonic == \A a, b, c \in Nat : a <= b => c * a <= c * b
OBVIOUS

\* Rounding down to blocks loses less than a block and keeps whole megabytes.
LEMMA RoundsToBlocks ==
  ASSUME NEW x \in Nat
  PROVE  LET fs == (x \div Block) * Block IN
         /\ fs \in Nat /\ x - fs \in 0 .. Block - 1
         /\ x >= DefaultOEM * MB => fs >= DefaultOEM * MB
<1> DEFINE q == x \div Block
           m == MB \div Block
           k == DefaultOEM * m
<1>1. Block \in Nat /\ Block > 0 /\ MB \in Nat /\ MB % Block = 0
      /\ DefaultOEM \in Nat
  BY SizingAssumption, UnitsArePositive
<1>2. q \in Nat /\ x % Block \in 0 .. Block - 1 /\ x = Block * q + (x % Block)
  BY <1>1, Division
<1>3. m \in Nat /\ MB = Block * m
  BY <1>1, Division
<1>4. k \in Nat
  BY <1>1, <1>3
<1>5. DefaultOEM * MB = Block * k
  BY <1>1, <1>3
<1>6. q * Block = Block * q /\ Block * q \in Nat /\ Block * k \in Nat
  BY <1>1, <1>2, <1>4
<1>7. ASSUME x >= Block * k PROVE q >= k
  <2>1. CASE q < k
    <3>1. Block * (q + 1) <= Block * k
      <4> HIDE DEF q, k
      <4> QED BY <1>1, <1>2, <1>4, <2>1, Monotonic
    <3>2. Block * (q + 1) = Block * q + Block
      BY <1>1, <1>2
    <3> HIDE DEF q, k
    <3> QED BY <1>1, <1>2, <1>6, <1>7, <3>1, <3>2
  <2> HIDE DEF q, k
  <2> QED BY <1>2, <1>4, <2>1
<1>8. q >= k => Block * q >= Block * k
  <2> HIDE DEF q, k
  <2> QED BY <1>1, <1>2, <1>4, Monotonic
<1> HIDE DEF q, k
<1>9. q * Block \in Nat /\ x - q * Block \in 0 .. Block - 1
  BY <1>1, <1>2, <1>6
<1>10. x >= DefaultOEM * MB => q * Block >= DefaultOEM * MB
  BY <1>5, <1>6, <1>7, <1>8
<1> QED BY <1>9, <1>10 DEF q

LEMMA Quarter ==
  ASSUME NEW x \in Nat
  PROVE  x \div 4 \in Nat /\ 4 * (x \div 4) <= x
OBVIOUS

\* The file system of a partition whose size was given.
LEMMA HashByFlag ==
  ASSUME SizingInv, SizeByFlag, seals, NoWrap
  PROVE  HashRoom'
<1> USE DEF SizingInv
<1>1. MB \in Nat /\ MB > 0 /\ Word \in Nat /\ DefaultOEM \in Nat
      /\ DefaultOEM >= 3
  BY UnitsArePositive, SizingAssumption
<1>2. boot.oemSize = oemFlag /\ Parses(oemFlag) /\ FlagIsValid
  BY DEF SizeByFlag, Move, FlagIsValid
<1> DEFINE x == Exact(oemFlag)
           p == PartitionBytes
           fs == (x \div Block) * Block
           c == ConvertSizeToBytes(ShrunkSize)
<1>3. x \in Nat
  <2>1. oemFlag.number \in Nat /\ oemFlag.unit \in UnitNames
    BY <1>2 DEF TypeOK, Sizes, Parses, NoSize, Malformed, UnitNames
  <2> QED BY <2>1, UnitsArePositive, ProductIsNat DEF Exact
<1>4. 2 * x < Word
  BY <1>2 DEF NoWrap, Factor
<1>5. ConvertSizeToBytes(boot.oemSize) = x
  <2> HIDE DEF x
  <2>1. x < Word
    BY <1>1, <1>3, <1>4
  <2> QED BY <1>2, <1>3, <2>1, NoOverflow DEF ConvertSizeToBytes, x
<1>6. x >= DefaultOEM * MB
  BY <1>2, <1>5 DEF FlagIsValid, Parses, NoSize, UnitNames
<1>7. p = 2 * x
  <2> HIDE DEF x
  <2> QED BY <1>3, <1>4, <1>5, NoOverflow DEF PartitionBytes
<1>8. p \in Nat /\ p < Word /\ 2 * MB <= p
  BY <1>2, PartitionIsExact
<1>9. c \in Nat /\ p < c + 2 * MB
  BY <1>8, Shrinks DEF ShrunkSize
<1>10. fs \in Nat /\ x - fs \in 0 .. Block - 1 /\ fs >= DefaultOEM * MB
  <2> HIDE DEF x
  <2> QED BY <1>3, <1>6, RoundsToBlocks
<1>11. 3 * MB <= x
  <2>1. MB * 3 <= MB * DefaultOEM
    BY <1>1, Monotonic
  <2>2. MB * 3 = 3 * MB /\ MB * DefaultOEM = DefaultOEM * MB
        /\ DefaultOEM * MB \in Nat
    BY <1>1
  <2> HIDE DEF x
  <2> QED BY <1>1, <1>3, <1>6, <2>1, <2>2
<1>12. fs + fs \div 4 <= c
  <2>1. Block \in Nat
    BY SizingAssumption
  <2> HIDE DEF x, p, c, fs
  <2>2. fs <= x
    BY <1>3, <1>10, <2>1
  <2>3. fs \div 4 \in Nat /\ 4 * (fs \div 4) <= fs
    BY <1>10, Quarter
  <2> QED BY <1>1, <1>3, <1>7, <1>9, <1>10, <1>11, <2>2, <2>3
<1>13. /\ boot'.oemSize = ShrunkSize
       /\ boot'.fsSize4K = x \div Block
       /\ UNCHANGED oemFlag
  BY <1>5 DEF SizeByFlag, Keep, TypeOK
<1>14. boot'.fsSize4K * Block = fs /\ ConvertSizeToBytes(boot.oemSize)' = c
       /\ Exact(oemFlag)' = x
  BY <1>13 DEF ConvertSizeToBytes, Exact
<1> HIDE DEF x, c, fs
<1> QED BY <1>10, <1>12, <1>14 DEF HashRoom

\* The file system of a partition that is sealed as it is.
LEMMA HashByDefault ==
  ASSUME SizingInv, SizeByDefault, seals
  PROVE  HashRoom'
<1> USE DEF SizingInv
<1> DEFINE d == DefaultOEM * MB
           fs == (d \div Block) * Block
<1>1. d \in Nat
  BY UnitsArePositive, SizingAssumption, ProductIsNat
<1>2. /\ boot'.oemSize = Size(2 * DefaultOEM, "M")
      /\ boot'.fsSize4K = d \div Block
      /\ UNCHANGED oemFlag /\ oemFlag = NoSize
  BY DEF SizeByDefault, Keep, Move, TypeOK
<1>3. ~Parses(oemFlag)
  BY <1>2 DEF Parses, NoSize, UnitNames
<1>4. fs \in Nat /\ fs >= d /\ fs <= d
  <2>1. Block \in Nat
    BY SizingAssumption
  <2>2. fs \in Nat /\ d - fs \in 0 .. Block - 1 /\ fs >= d
    BY <1>1, RoundsToBlocks
  <2> HIDE DEF d, fs
  <2> QED BY <1>1, <2>1, <2>2
<1>5. ConvertSizeToBytes(boot.oemSize)' = 2 * d
  <2>1. 2 * DefaultOEM * MB = 2 * d /\ MB = UnitSize["M"]
    BY UnitsArePositive, SizingAssumption DEF MB
  <2>2. 2 * d < Word
    BY <2>1, SizingAssumption
  <2>3. (2 * d) % Word = 2 * d
    <3> HIDE DEF d
    <3> QED BY <1>1, <2>2, NoOverflow
  <2> QED BY <1>2, <2>1, <2>3 DEF ConvertSizeToBytes, Exact, Size
<1>6. fs + fs \div 4 <= 2 * d
  <2> HIDE DEF d, fs
  <2>1. fs \div 4 \in Nat /\ 4 * (fs \div 4) <= fs
    BY <1>4, Quarter
  <2> QED BY <1>1, <1>4, <2>1
<1>7. boot'.fsSize4K * Block = fs
  BY <1>2
<1>8. ~Parses(oemFlag)'
  BY <1>2, <1>3 DEF Parses
<1> HIDE DEF fs
<1> QED BY <1>4, <1>5, <1>6, <1>7, <1>8 DEF HashRoom

LEMMA HashInvStep == SizingInv /\ HashInv /\ [Next]_vars => HashInv'
<1> SUFFICES ASSUME SizingInv, HashInv, [Next]_vars PROVE HashInv'
  OBVIOUS
<1> USE DEF Move, Keep
<1>1. CASE Validate \/ LoadConfigs \/ DiskTooSmall
  BY <1>1 DEF Validate, LoadConfigs, DiskTooSmall, HashInv
<1>2. CASE SizeByDefault
  <2>1. CASE seals
    BY <1>2, <2>1, HashByDefault DEF HashInv
  <2>2. CASE ~seals
    BY <1>2, <2>2 DEF SizeByDefault, HashInv
  <2> QED BY <2>1, <2>2
<1>3. CASE SizeByFlag
  <2>1. seals' = seals /\ (NoWrap' <=> NoWrap)
    BY <1>3 DEF SizeByFlag, NoWrap, Factor
  <2> QED BY <1>3, <2>1, HashByFlag DEF HashInv
<1>4. CASE Configure
  <2>1. boot'.oemSize = boot.oemSize /\ boot'.fsSize4K = boot.fsSize4K
        /\ UNCHANGED <<oemFlag, seals>> /\ stage = "sized"
    BY <1>4 DEF Configure, SizingInv, TypeOK
  <2>2. (NoWrap' <=> NoWrap) /\ (HashRoom' <=> HashRoom)
    BY <2>1 DEF NoWrap, Factor, HashRoom, ConvertSizeToBytes, Exact
  <2> QED BY <2>1, <2>2 DEF HashInv
<1>5. CASE UNCHANGED vars
  <2>1. (NoWrap' <=> NoWrap) /\ (HashRoom' <=> HashRoom)
    BY <1>5 DEF vars, NoWrap, Factor, HashRoom, ConvertSizeToBytes, Exact
  <2> QED BY <1>5, <2>1 DEF vars, HashInv
<1> QED BY <1>1, <1>2, <1>3, <1>4, <1>5 DEF Next, Finished

\* An accepted build that seals leaves at least a quarter of the file system
\* for the hash tree and a file system of the size asked for, in whole blocks
\* (validateOEM).
THEOREM HashTreeHasItsPlace == Spec => []HashTreePlanned
<1>1. Init => HashInv
  BY DEF Init, HashInv
<1>2. HashInv => HashTreePlanned
  BY DEF HashInv, HashTreePlanned, HashRoom, Accepted
<1> QED
  BY <1>1, <1>2, HashInvStep, SizingCorrect, PTL DEF Spec

LEMMA DiskIsPlanned == SizingInv => DiskIsAsAsked
<1> SUFFICES ASSUME SizingInv, stage = "configured"
             PROVE  /\ boot.wait <=> disk.resized # 0
                    /\ disk.resized # 0 => disk.created < disk.resized
                    /\ diskFlag > ImgSize =>
                         diskFlag \in {disk.created, disk.resized}
                    /\ disk.created > ImgSize =>
                         boot.oemSize = NoSize /\ ~boot.reclaim
  BY DEF DiskIsAsAsked
<1>1. ImgSize \in Nat /\ diskFlag \in Int /\ boot.reclaim \in BOOLEAN
  BY SizingAssumption DEF SizingInv, TypeOK
<1>2. /\ disk.created = IF CreatedAtSize THEN diskFlag ELSE ImgSize
      /\ disk.resized = IF NeedDiskResize THEN diskFlag ELSE 0
      /\ boot.wait <=> NeedDiskResize
  BY DEF SizingInv
<1> QED BY <1>1, <1>2 DEF CreatedAtSize, NeedDiskResize

\* The disk of an image gets the size that was asked for, in exactly one of
\* the two ways there are (needDiskResize and daisyArgs).
THEOREM DiskHasItsSize == Spec => []DiskIsAsAsked
BY DiskIsPlanned, SizingCorrect, PTL

-----------------------------------------------------------------------------
(* SizedBuild: what is handed over to the VM, and what the VM makes of it. *)

\* The size that is written into the provisioner config: whole megabytes, no
\* more than two of which are missing from what was asked for.
SizedInv ==
  stage \in {"sized", "configured"} =>
    /\ seals \/ Parses(oemFlag) <=> boot.oemSize # NoSize
    /\ boot.oemSize # NoSize => Parses(boot.oemSize)
    /\ boot.oemSize # NoSize /\ NoWrap =>
         /\ \E k \in Nat : ConvertSizeToBytes(boot.oemSize) = k * MB
         /\ ~seals =>
              Exact(oemFlag) < ConvertSizeToBytes(boot.oemSize) + 2 * MB
         /\ seals => DefaultOEM * MB < ConvertSizeToBytes(boot.oemSize)

LEMMA SizedInvStep ==
  ASSUME SizingInv, SizedInv, [Next]_vars
  PROVE  SizedInv'
<1> USE DEF Move, Keep
<1>1. CASE Validate \/ LoadConfigs \/ DiskTooSmall
  BY <1>1 DEF Validate, LoadConfigs, DiskTooSmall, SizedInv
<1>2. CASE SizeByDefault
  <2>1. /\ ~Parses(oemFlag) /\ UNCHANGED <<oemFlag, seals>>
        /\ boot' = IF seals
                   THEN [boot EXCEPT !.oemSize = Size(2 * DefaultOEM, "M"),
                                     !.fsSize4K = (DefaultOEM * MB) \div Block]
                   ELSE boot
        /\ boot.oemSize = NoSize
    BY <1>2 DEF SizeByDefault, SizingInv, Parses, NoSize, UnitNames
  <2>2. CASE seals
    <3>1. boot'.oemSize = Size(2 * DefaultOEM, "M")
      BY <2>1, <2>2 DEF SizingInv, TypeOK
    <3>2. boot'.oemSize # NoSize /\ Parses(boot'.oemSize)
      BY <3>1 DEF Parses, Size, NoSize, UnitNames
    <3>3. /\ ConvertSizeToBytes(boot'.oemSize) = (2 * DefaultOEM) * MB
          /\ 2 * DefaultOEM \in Nat
          /\ DefaultOEM * MB < (2 * DefaultOEM) * MB
      <4>1. DefaultOEM \in Nat /\ DefaultOEM >= 3 /\ MB \in Nat /\ MB > 0
        BY UnitsArePositive, SizingAssumption
      <4>2. \A a, b \in Nat : a >= 3 /\ b > 0 => a * b < (2 * a) * b
        OBVIOUS
      <4> QED BY <3>1, <4>1, <4>2, DefaultFits
    <3>4. ConvertSizeToBytes(boot.oemSize)' = ConvertSizeToBytes(boot'.oemSize)
      BY DEF ConvertSizeToBytes, Exact
    <3> QED BY <2>1, <2>2, <3>2, <3>3, <3>4 DEF SizedInv, Parses
  <2>3. CASE ~seals
    <3>1. boot' = boot
      BY <2>1, <2>3
    <3> QED BY <2>1, <2>3, <3>1 DEF SizedInv, Parses
  <2> QED BY <2>2, <2>3
<1>3. CASE SizeByFlag
  <2>1. /\ boot.oemSize = oemFlag /\ Parses(oemFlag) /\ FlagIsValid /\ TypeOK
        /\ UNCHANGED <<oemFlag, seals>>
    BY <1>3 DEF SizeByFlag, SizingInv, FlagIsValid
  <2>2. boot'.oemSize = ShrunkSize
    BY <1>3 DEF SizeByFlag, SizingInv, TypeOK
  <2>3. boot'.oemSize # NoSize /\ Parses(boot'.oemSize)
    BY <2>2 DEF ShrunkSize, Parses, Size, NoSize, UnitNames
  <2>4. (NoWrap' <=> NoWrap) /\ Exact(oemFlag)' = Exact(oemFlag)
        /\ ConvertSizeToBytes(boot.oemSize)' = ConvertSizeToBytes(ShrunkSize)
    BY <2>1, <2>2 DEF NoWrap, Factor, Exact, Parses, ConvertSizeToBytes
  <2>5. ASSUME NoWrap
        PROVE  /\ \E k \in Nat : ConvertSizeToBytes(ShrunkSize) = k * MB
               /\ ~seals =>
                    Exact(oemFlag) < ConvertSizeToBytes(ShrunkSize) + 2 * MB
               /\ seals => DefaultOEM * MB < ConvertSizeToBytes(ShrunkSize)
    <3>1. /\ PartitionBytes \in Nat /\ PartitionBytes < Word
          /\ 2 * MB <= PartitionBytes
          /\ Exact(oemFlag) \in Nat
          /\ PartitionBytes = Factor * Exact(oemFlag)
      BY <2>1, <2>5, PartitionIsExact
    <3>2. /\ PartitionBytes < ConvertSizeToBytes(ShrunkSize) + 2 * MB
          /\ \E k \in Nat : ConvertSizeToBytes(ShrunkSize) = k * MB
      BY <3>1, Shrinks DEF ShrunkSize
    <3>3. ~seals => PartitionBytes = Exact(oemFlag)
      BY <3>1 DEF Factor
    <3>4. ASSUME seals
          PROVE  DefaultOEM * MB < ConvertSizeToBytes(ShrunkSize)
      <4> DEFINE d == DefaultOEM * MB
                 c == ConvertSizeToBytes(ShrunkSize)
      <4>1. d <= Exact(oemFlag) /\ PartitionBytes = 2 * Exact(oemFlag)
        BY <2>1, <2>5, <3>1, <3>4, PartitionIsExact DEF Factor
      <4>2. MB \in Nat /\ d \in Nat /\ 2 * MB <= d
        <5>1. DefaultOEM \in Nat /\ DefaultOEM >= 3 /\ MB \in Nat
          BY UnitsArePositive, SizingAssumption
        <5>2. \A a, b \in Nat : a >= 3 => 2 * b <= a * b /\ a * b \in Nat
          OBVIOUS
        <5> QED BY <5>1, <5>2
      <4>3. c \in Nat
        <5>1. MB \in Nat
          BY UnitsArePositive
        <5> QED BY <3>2, <5>1, ProductIsNat
      <4> HIDE DEF c, d
      <4>4. d < c
        BY <3>1, <3>2, <4>1, <4>2, <4>3 DEF c
      <4> QED BY <4>4 DEF c, d
    <3> QED BY <3>2, <3>3, <3>4
  <2> QED BY <2>1, <2>3, <2>4, <2>5 DEF SizedInv, Parses
<1>4. CASE Configure
  <2>1. boot'.oemSize = boot.oemSize
        /\ UNCHANGED <<oemFlag, seals>> /\ stage = "sized"
    BY <1>4 DEF Configure, SizingInv, TypeOK
  <2>2. /\ NoWrap' <=> NoWrap
        /\ Exact(oemFlag)' = Exact(oemFlag)
        /\ ConvertSizeToBytes(boot.oemSize)' = ConvertSizeToBytes(boot.oemSize)
    BY <2>1 DEF NoWrap, Factor, Parses, ConvertSizeToBytes, Exact
  <2> QED BY <2>1, <2>2 DEF SizedInv, Parses
<1>5. CASE UNCHANGED vars
  <2>1. /\ NoWrap' <=> NoWrap
        /\ Exact(oemFlag)' = Exact(oemFlag)
        /\ ConvertSizeToBytes(boot.oemSize)' = ConvertSizeToBytes(boot.oemSize)
    BY <1>5 DEF vars, NoWrap, Factor, Parses, ConvertSizeToBytes, Exact
  <2> QED BY <1>5, <2>1 DEF vars, SizedInv, Parses
<1> QED BY <1>1, <1>2, <1>3, <1>4, <1>5 DEF Next, Finished

\* Sectors and bytes.
LEMMA SectorIsPositive == Sector \in Nat /\ Sector > 0
BY UnitsArePositive DEF Sector, UnitNames

LEMMA CancelSector ==
  ASSUME NEW a \in Int, NEW b \in Int, a * Sector <= b * Sector
  PROVE  a <= b
<1>1. Sector \in Nat /\ Sector > 0
  BY SectorIsPositive
<1>2. \A s \in Nat : s > 0 /\ a * s <= b * s => a <= b
  OBVIOUS
<1> QED BY <1>1, <1>2

\* Division by a sector takes back a multiplication by it.
LEMMA DividesExactly ==
  ASSUME NEW a \in Nat
  PROVE  (a * Sector) \div Sector = a
<1> DEFINE x == a * Sector
           q == x \div Sector
<1>1. Sector \in Nat /\ Sector > 0
  BY SectorIsPositive
<1>2. x \in Nat
  BY <1>1, ProductIsNat
<1>3. q \in Nat /\ x % Sector \in 0 .. Sector - 1
      /\ x = Sector * q + (x % Sector)
  BY <1>1, <1>2, Division
<1>4. q * Sector <= a * Sector /\ a * Sector < (q + 1) * Sector
  <2>1. q * Sector = Sector * q /\ (q + 1) * Sector = Sector * q + Sector
        /\ Sector * q \in Nat
    BY <1>1, <1>3, ProductIsNat
  <2> HIDE DEF q
  <2> QED BY <1>1, <1>2, <1>3, <2>1 DEF x
<1> HIDE DEF q, x
<1>5. q <= a
  BY <1>3, <1>4, CancelSector
<1>6. ~(q + 1 <= a)
  <2>1. \A s \in Nat : q + 1 <= a => (q + 1) * s <= a * s
    BY <1>3
  <2>2. a * Sector \in Nat /\ (q + 1) * Sector \in Nat
    BY <1>1, <1>3, ProductIsNat
  <2> QED BY <1>1, <1>4, <2>1, <2>2
<1> QED BY <1>3, <1>5, <1>6 DEF q, x

\* Rounding down to sectors loses nothing of a multiple of one.
LEMMA WholeSectors ==
  ASSUME NEW x \in Nat, x % Sector = 0
  PROVE  (x \div Sector) * Sector = x
<1>1. Sector \in Nat /\ Sector > 0
  BY SectorIsPositive
<1>2. x \div Sector \in Nat /\ x = Sector * (x \div Sector) + (x % Sector)
  BY <1>1, Division
<1> QED BY <1>1, <1>2

\* A whole number of megabytes is a whole number of 4 KB in sectors.
LEMMA MegabytesAreSectors ==
  ASSUME NEW k \in Nat
  PROVE  \E n \in Nat : k * MB = (Align * n) * Sector
<1> DEFINE m == MB \div Block
<1>1. Block \in Nat /\ Block > 0 /\ MB \in Nat /\ MB % Block = 0
      /\ Block = Align * Sector /\ Align \in Nat /\ Sector \in Nat
  BY SizingAssumption, UnitsArePositive, HandOverAssumption,
     GeometryAssumption, SectorIsPositive
<1>2. m \in Nat /\ MB = Block * m
  BY <1>1, Division
<1> HIDE DEF m
<1>3. k * MB = (Align * (k * m)) * Sector
  BY <1>1, <1>2
<1>4. k * m \in Nat
  BY <1>2, ProductIsNat
<1> QED BY <1>3, <1>4

\* The size that the VM reads, in whole sectors of its word.
LEMMA SizeIsTyped ==
  ASSUME SizingInv, SizedInv, stage = "configured"
  PROVE  /\ OEMSectors \in Nat
         /\ OEMSectors <= Word \div Sector
<1> DEFINE c == ConvertSizeToBytes(boot.oemSize)
<1>1. Sector \in Nat /\ Sector > 0 /\ Word \in Nat /\ Word > 0
  BY SectorIsPositive, UnitsArePositive, SizingAssumption
<1>2. CASE boot.oemSize = NoSize
  <2>1. Word \div Sector \in Nat
    BY <1>1, Division
  <2> QED BY <1>2, <2>1 DEF OEMSectors
<1>3. CASE boot.oemSize # NoSize
  <2>1. boot.oemSize.number \in Nat /\ boot.oemSize.unit \in UnitNames
    BY <1>3 DEF SizedInv, SizingInv, TypeOK, Sizes, Parses, NoSize,
                Malformed, UnitNames
  <2>2. Exact(boot.oemSize) \in Nat
    BY <2>1, UnitsArePositive, ProductIsNat DEF Exact
  <2>3. c \in Nat /\ c < Word
    BY <1>1, <2>2, Division DEF ConvertSizeToBytes
  <2> HIDE DEF c
  <2>4. c \div Sector \in Nat /\ c % Sector \in 0 .. Sector - 1
        /\ c = Sector * (c \div Sector) + (c % Sector)
    BY <1>1, <2>3, Division
  <2>5. Word \div Sector \in Nat /\ Word % Sector \in 0 .. Sector - 1
        /\ Word = Sector * (Word \div Sector) + (Word % Sector)
    BY <1>1, Division
  <2>6. c \div Sector <= Word \div Sector
    <3> DEFINE q == c \div Sector
               w == Word \div Sector
    <3> HIDE DEF q, w
    <3>1. q \in Nat /\ w \in Nat
      BY <2>4, <2>5 DEF q, w
    <3>2. Sector * q < Sector * w + Sector
      <4>1. Sector * q \in Nat /\ Sector * w \in Nat
        BY <1>1, <3>1, ProductIsNat
      <4> QED BY <1>1, <2>3, <2>4, <2>5, <4>1 DEF q, w
    <3>3. \A s \in Nat : s * q < s * w + s => q <= w
      BY <3>1
    <3> QED BY <1>1, <3>2, <3>3 DEF q, w
  <2> QED BY <1>3, <2>4, <2>6 DEF OEMSectors, c
<1> QED BY <1>2, <1>3

\* Without overflow the VM reads what was written, to the last byte.
LEMMA SizeIsHandedOver ==
  ASSUME SizingInv, SizedInv, stage = "configured", boot.oemSize # NoSize,
         NoWrap
  PROVE  /\ OEMSectors * Sector = ConvertSizeToBytes(boot.oemSize)
         /\ OEMSectors % Align = 0
<1>1. PICK k \in Nat : ConvertSizeToBytes(boot.oemSize) = k * MB
  BY DEF SizedInv
<1>2. PICK n \in Nat : k * MB = (Align * n) * Sector
  BY MegabytesAreSectors
<1>3. Align * n \in Nat /\ (Align * n) % Align = 0
  BY ProductIsMultiple
<1>4. OEMSectors = Align * n
  BY <1>1, <1>2, <1>3, DividesExactly DEF OEMSectors
<1> QED BY <1>1, <1>2, <1>3, <1>4

\* The disk that the VM sees has the size that finish-image-build counted on.
LEMMA DiskIsHandedOver ==
  ASSUME SizingInv, stage = "configured",
         boot.reclaim \/ boot.oemSize # NoSize
  PROVE  /\ DiskSectors \in DiskEnds
         /\ DiskSectors * Sector =
              (IF diskFlag > ImgSize THEN diskFlag ELSE ImgSize) * GB
         /\ ImageEnd <= DiskSectors
<1> DEFINE d == IF diskFlag > ImgSize THEN diskFlag ELSE ImgSize
<1>1. /\ GB \in Nat /\ GB > 0 /\ GB % Sector = 0 /\ ImgSize \in Nat
      /\ Sector \in Nat /\ Sector > 0
      /\ diskFlag \in Int /\ diskFlag \in DiskFlags
  BY UnitsArePositive, SectorIsPositive, HandOverAssumption, SizingAssumption
     DEF SizingInv, TypeOK
<1>2. d \in Nat /\ ImgSize <= d
  BY <1>1
<1>3. DiskSectors = (d * GB) \div Sector
  <2>1. NeedDiskResize <=> diskFlag > ImgSize
    BY DEF NeedDiskResize
  <2>2. /\ boot.wait <=> NeedDiskResize
        /\ disk = [created |-> ImgSize,
                   resized |-> IF NeedDiskResize THEN diskFlag ELSE 0]
    BY DEF SizingInv, CreatedAtSize
  <2> QED BY <2>1, <2>2 DEF DiskSectors
<1> HIDE DEF d
<1>4. d * GB \in Nat /\ (d * GB) % Sector = 0
  <2> DEFINE g == GB \div Sector
  <2>1. g \in Nat /\ GB = Sector * g
    BY <1>1, Division
  <2> HIDE DEF g
  <2>2. d * GB = (d * g) * Sector /\ d * g \in Nat /\ d * GB \in Nat
    BY <1>1, <1>2, <2>1
  <2>3. ((d * g) * Sector) \div Sector = d * g
    BY <2>2, DividesExactly
  <2>4. d * GB = Sector * (d * g) + ((d * GB) % Sector)
        /\ (d * GB) % Sector \in Nat
    BY <1>1, <2>2, <2>3, Division
  <2>5. Sector * (d * g) = (d * g) * Sector
    BY <1>1, <2>2
  <2>6. (d * g) * Sector \in Nat
    BY <2>2
  <2> QED BY <2>2, <2>4, <2>5, <2>6
<1>5. DiskSectors * Sector = d * GB
  BY <1>3, <1>4, WholeSectors
<1>6. DiskSectors \in Nat
  BY <1>1, <1>3, <1>4, Division
<1>7. ImageEnd * Sector <= DiskSectors * Sector
  <2>1. \A a, b, c \in Nat : a <= b => a * c <= b * c
    OBVIOUS
  <2>2. ImgSize * GB <= d * GB
    BY <1>1, <1>2, <2>1
  <2> QED BY <1>5, <2>2, HandOverAssumption
<1>8. ImageEnd \in Nat /\ ImageEnd \in DiskEnds
  BY DiskAssumption
<1>9. ImageEnd <= DiskSectors
  BY <1>6, <1>7, <1>8, CancelSector
<1>10. DiskSectors \in DiskEnds
  <2>1. CASE diskFlag > ImgSize
    BY <1>1, <1>3, <2>1, HandOverAssumption DEF d
  <2>2. CASE ~(diskFlag > ImgSize)
    <3>1. DiskSectors = (ImageEnd * Sector) \div Sector
      BY <1>3, <2>2, HandOverAssumption DEF d
    <3> QED BY <1>8, <3>1, DividesExactly
  <2> QED BY <2>1, <2>2
<1> QED BY <1>5, <1>9, <1>10 DEF d

\* Until the VM runs the disk layout program nothing of it has changed.
BeforeVM ==
  hook = "idle" =>
    /\ table = InitTable /\ startPoint = 0 /\ newState = 0 /\ faults = 0
    /\ conf = NoConfig /\ diskEnd = ImageEnd

\* From then on it has the configuration and the disk that were handed over.
HandedOver ==
  hook # "idle" =>
    /\ stage = "configured"
    /\ boot.reclaim \/ boot.oemSize # NoSize
    /\ conf = [reclaim |-> boot.reclaim, oemSize |-> OEMSectors]
    /\ diskEnd = DiskSectors

FirstStart ==
  IF conf.reclaim THEN ReclaimedStart(InitTable) ELSE InitTable["state"].start

\* Without sda3 the start point depends on what earlier attempts did; the
\* first attempt has nothing to be refused, and finds the image.
FirstAttempt ==
  Sound /\ ~conf.reclaim /\ faults = 0 =>
    /\ hook # "error"
    /\ hook \in {"idle", "begin", "state"} =>
         table["state"].start = InitTable["state"].start

StatePlace ==
  Sound /\ (conf.reclaim \/ faults = 0) =>
    \/ table["state"].start = InitTable["state"].start
    \/ table["state"].start <= FirstStart + conf.oemSize

OEMKept == table["oem"].size >= InitTable["oem"].size

BuildInv ==
  /\ SizingInv /\ HashInv /\ SizedInv
  /\ LayoutInv /\ AttemptInv
  /\ BeforeVM /\ HandedOver
  /\ FirstAttempt /\ StatePlace /\ OEMKept

\* The room that validateOEM has found, in bytes and gigabytes, is there in
\* sectors: for every size, with sda3 or without, enlarged disk or not.
LEMMA RoomIsHandedOver ==
  ASSUME SizingInv, SizedInv, HandedOver, hook # "idle", Sound
  PROVE  /\ RoomEnough
         /\ conf.oemSize % Align = 0
         /\ \/ FirstStart + conf.oemSize <= InitTable["state"].start
            \/ (FirstStart + conf.oemSize + InitTable["state"].size) * Sector
                 + MB <= diskEnd * Sector
<1> DEFINE S  == Sector
           e  == conf.oemSize
           s0 == InitTable["state"].start
           r0 == ReclaimedStart(InitTable)
           w  == InitTable["state"].size
           c  == ConvertSizeToBytes(boot.oemSize)
<1>1. /\ S \in Nat /\ S > 0 /\ MB \in Nat /\ MB > 0 /\ GB \in Nat
      /\ ReclaimedBytes \in Nat /\ ImgSize \in Nat
      /\ s0 \in Nat /\ r0 \in Nat /\ w \in Nat /\ r0 <= s0
      /\ s0 + w <= ImageEnd /\ ImageEnd \in Nat
      /\ ReclaimedBytes <= (s0 - r0) * S
      /\ ImgSize * GB = ImageEnd * S
  BY SectorIsPositive, UnitsArePositive, SizingAssumption, ImageAssumption,
     DiskAssumption, GeometryAssumption, HandOverAssumption
     DEF Table, Extent, Parts, After, ReclaimedStart
<1>2. /\ stage = "configured" /\ (boot.reclaim \/ boot.oemSize # NoSize)
      /\ conf.reclaim = boot.reclaim /\ e = OEMSectors
      /\ diskEnd = DiskSectors /\ NoWrap /\ diskFlag >= 0
      /\ boot.reclaim \in BOOLEAN
  BY DEF HandedOver, Sound, SizingInv, TypeOK
<1>3. diskEnd \in Nat /\ ImageEnd <= diskEnd
      /\ diskEnd * S = (IF diskFlag > ImgSize THEN diskFlag ELSE ImgSize) * GB
  BY <1>2, DiskIsHandedOver, DiskAssumption
<1>4. e \in Nat
  BY <1>2, SizeIsTyped
<1>5. RoomEnough <=> FirstStart + e + w <= diskEnd
  BY DEF RoomEnough, FirstStart
<1>6. FirstStart \in Nat /\ FirstStart <= s0
  BY <1>1 DEF FirstStart
<1>7. ASSUME FirstStart + e <= s0
      PROVE  RoomEnough
  <2> HIDE DEF e, s0, w
  <2> QED BY <1>1, <1>3, <1>4, <1>5, <1>6, <1>7
<1>8. CASE boot.oemSize = NoSize
  <2>1. e = 0
    BY <1>2, <1>8 DEF OEMSectors
  <2>2. e % Align = 0
    BY <2>1, GeometryAssumption
  <2>3. FirstStart + e <= s0
    BY <1>6, <2>1
  <2> QED BY <1>7, <2>2, <2>3
<1>9. CASE boot.oemSize # NoSize
  <2>1. e * S = c /\ e % Align = 0
    BY <1>2, <1>9, SizeIsHandedOver
  <2>2. Room
    BY <1>2, <1>9 DEF SizingInv
  <2>3. Shift = c - (IF conf.reclaim THEN ReclaimedBytes ELSE 0)
    BY <1>2 DEF Shift
  <2> DEFINE f == FirstStart
  <2>4. (f + e) * S <= s0 * S + Shift
    <3>1. (f + e) * S = f * S + c /\ c \in Nat
      <4>1. e * S \in Nat /\ f \in Nat
        BY <1>1, <1>4, <1>6, ProductIsNat
      <4>2. (f + e) * S = f * S + e * S
        BY <1>1, <1>4, <4>1
      <4> HIDE DEF c, e, f, S
      <4> QED BY <2>1, <4>1, <4>2
    <3>2. CASE conf.reclaim
      <4>1. f = r0 /\ Shift = c - ReclaimedBytes
        BY <2>3, <3>2 DEF FirstStart
      <4>2. (s0 - r0) * S = s0 * S - r0 * S
            /\ s0 * S \in Nat /\ r0 * S \in Nat
        BY <1>1
      <4> HIDE DEF c, s0, r0, S, e, f
      <4> QED BY <1>1, <3>1, <4>1, <4>2
    <3>3. CASE ~conf.reclaim
      <4>1. f = s0 /\ Shift = c
        BY <2>3, <3>1, <3>3 DEF FirstStart
      <4>2. s0 * S \in Nat
        BY <1>1, ProductIsNat
      <4> HIDE DEF c, s0, r0, S, e, f
      <4> QED BY <3>1, <4>1, <4>2
    <3> QED BY <3>2, <3>3
  <2>5. Shift \in Int /\ f \in Nat
    BY <1>1, <1>4, <1>6, <2>1, <2>3, ProductIsNat
  <2> HIDE DEF f, c
  <2>6. CASE Shift <= 0
    <3>1. (f + e) * S <= s0 * S
      <4>1. (f + e) * S \in Int /\ s0 * S \in Int
        BY <1>1, <1>4, <2>5
      <4> QED BY <2>4, <2>5, <2>6, <4>1
    <3>2. f + e <= s0
      BY <1>1, <1>4, <2>5, <3>1, CancelSector
    <3> QED BY <1>7, <2>1, <3>2 DEF f
  <2>7. CASE diskFlag > ImgSize /\ Shift + MB <= (diskFlag - ImgSize) * GB
    <3>1. (f + e + w) * S = (f + e) * S + w * S
          /\ (s0 + w) * S = s0 * S + w * S
          /\ (f + e) * S \in Nat /\ w * S \in Nat /\ s0 * S \in Nat
          /\ (s0 + w) * S \in Nat
      BY <1>1, <1>4, <2>5
    <3>2. (s0 + w) * S <= ImageEnd * S
      <4>1. \A a, b, g \in Nat : a <= b => a * g <= b * g
        OBVIOUS
      <4>2. s0 + w \in Nat
        BY <1>1
      <4> HIDE DEF s0, w, S
      <4> QED BY <1>1, <4>1, <4>2
    <3>3. (diskFlag - ImgSize) * GB + ImageEnd * S = diskEnd * S
          /\ diskEnd * S \in Nat /\ ImageEnd * S \in Nat
          /\ (diskFlag - ImgSize) * GB \in Int
      <4>1. diskFlag \in Int
        BY SizingAssumption DEF SizingInv, TypeOK
      <4>2. (diskFlag - ImgSize) * GB = diskFlag * GB - ImgSize * GB
            /\ diskFlag * GB \in Int /\ ImgSize * GB \in Int
        BY <1>1, <4>1
      <4>3. diskEnd * S = diskFlag * GB
        BY <1>3, <2>7
      <4>4. ImageEnd * S \in Nat /\ diskEnd * S \in Nat
        BY <1>1, <1>3, ProductIsNat
      <4> QED BY <1>1, <4>2, <4>3, <4>4
    <3>4. (f + e + w) * S + MB <= diskEnd * S
      <4> HIDE DEF e, s0, w, S
      <4> QED BY <1>1, <2>4, <2>5, <2>7, <3>1, <3>2, <3>3
    <3>5. (f + e + w) * S <= diskEnd * S
      BY <1>1, <3>1, <3>3, <3>4
    <3>6. f + e + w <= diskEnd
      BY <1>1, <1>3, <1>4, <2>5, <3>5, CancelSector
    <3> QED BY <1>5, <2>1, <3>4, <3>6 DEF f
  <2> QED BY <2>2, <2>6, <2>7 DEF Room
<1> QED BY <1>8, <1>9

LEMMA BuildInvInit == BuildInit => BuildInv
<1> SUFFICES ASSUME BuildInit PROVE BuildInv
  OBVIOUS
<1>1. SizingInv /\ HashInv /\ SizedInv
  <2>1. SizingInv
    BY SizingInit DEF BuildInit
  <2>2. stage = "flags"
    BY DEF BuildInit, Init
  <2> QED BY <2>1, <2>2 DEF HashInv, SizedInv
<1>2. LayoutInv /\ AttemptInv
  BY LayoutInvInit, AttemptInvInit DEF BuildInit
<1>3. hook = "idle" /\ table = InitTable /\ BeforeVM /\ HandedOver
  BY DEF BuildInit, HookInit, BeforeVM, HandedOver
<1>4. OEMKept
  BY <1>3, ImageAssumption DEF OEMKept, Table, Extent, Parts
<1>5. FirstAttempt /\ StatePlace
  BY <1>3 DEF FirstAttempt, StatePlace
<1> QED BY <1>1, <1>2, <1>3, <1>4, <1>5 DEF BuildInv

\* What holds of the VM while it has not begun.
LEMMA BeforeVMImplies ==
  ASSUME BeforeVM, hook = "idle"
  PROVE  HandedOver /\ FirstAttempt /\ StatePlace /\ OEMKept
<1>1. OEMKept
  BY ImageAssumption DEF BeforeVM, OEMKept, Table, Extent, Parts
<1> QED BY <1>1 DEF BeforeVM, HandedOver, FirstAttempt, StatePlace

\* A step of the build that leaves the VM's variables alone.
LEMMA SizingKeepsBuildInv ==
  ASSUME BuildInv, [Next]_vars, UNCHANGED <<conf, diskEnd, hookVars>>
  PROVE  BuildInv'
<1> USE DEF BuildInv
<1>1. SizingInv' /\ HashInv' /\ SizedInv'
  BY SizingInvStep, HashInvStep, SizedInvStep
<1>2. LayoutInv' /\ AttemptInv'
  BY LayoutInvNext, AttemptInvNext
<1>3. BeforeVM'
  BY DEF BeforeVM, hookVars
<1>4. OEMKept'
  BY DEF OEMKept, hookVars
<1>5. CASE hook = "idle"
  <2>1. hook' = "idle"
    BY <1>5 DEF hookVars
  <2>2. OEMKept' /\ HandedOver'
    BY <1>4, <2>1 DEF HandedOver
  <2>3. FirstAttempt'
    BY <1>3, <2>1 DEF BeforeVM, FirstAttempt
  <2>4. StatePlace'
    BY <1>3, <2>1 DEF BeforeVM, StatePlace
  <2> QED BY <1>1, <1>2, <1>3, <2>2, <2>3, <2>4
<1>6. CASE hook # "idle"
  <2>1. UNCHANGED vars
    <3>1. stage = "configured"
      BY <1>6 DEF HandedOver
    <3> QED
      BY <3>1 DEF Next, Validate, LoadConfigs, SizeByDefault, SizeByFlag,
                  DiskTooSmall, Configure, Finished, Move
  <2>2. Sound' <=> Sound
    BY <2>1 DEF vars, Sound, NoWrap, Parses, Factor, Exact
  <2>3. HandedOver'
    <3>1. OEMSectors' = OEMSectors /\ DiskSectors' = DiskSectors
      BY <2>1 DEF vars, OEMSectors, DiskSectors, ConvertSizeToBytes, Exact
    <3> QED BY <2>1, <3>1 DEF vars, hookVars, HandedOver
  <2>4. FirstAttempt'
    BY <2>2 DEF FirstAttempt, hookVars
  <2>5. StatePlace'
    BY <2>2 DEF StatePlace, FirstStart, hookVars
  <2> QED BY <1>1, <1>2, <1>3, <1>4, <2>3, <2>4, <2>5
<1> QED BY <1>5, <1>6

\* The VM starts the program on the image, with what it was handed.
LEMMA HandOverKeepsBuildInv ==
  ASSUME BuildInv, LayoutBegins
  PROVE  BuildInv'
<1> USE DEF BuildInv
<1>1. /\ stage = "configured" /\ (boot.reclaim \/ boot.oemSize # NoSize)
      /\ table = InitTable /\ startPoint = 0 /\ newState = 0 /\ faults = 0
      /\ hook' = "begin"
      /\ conf' = [reclaim |-> boot.reclaim, oemSize |-> OEMSectors]
      /\ diskEnd' = DiskSectors
      /\ UNCHANGED <<vars, table, startPoint, newState, faults>>
  BY DEF LayoutBegins, BeforeVM
<1>2. SizingInv' /\ HashInv' /\ SizedInv'
  BY <1>1, SizingInvStep, HashInvStep, SizedInvStep
<1>3. conf' \in Configs /\ diskEnd' \in DiskEnds
  <2>1. boot.reclaim \in BOOLEAN
    BY DEF SizingInv, TypeOK
  <2>2. Word \div Sector \in Nat
    BY SectorIsPositive, UnitsArePositive, Division
  <2>3. OEMSectors \in 0 .. Word \div Sector
    BY <1>1, <2>2, SizeIsTyped
  <2>4. conf' \in [reclaim : BOOLEAN, oemSize : 0 .. Word \div Sector]
    BY <1>1, <2>1, <2>3
  <2> QED BY <1>1, <2>4, HandOverAssumption, DiskIsHandedOver
<1>4. LayoutInv'
  <2>1. HookTypeOK'
    BY <1>1, <1>3 DEF LayoutInv, HookTypeOK, HookPositions
  <2>2. RootsInPlace' /\ Aligned' /\ PlanHolds'
    BY <1>1 DEF LayoutInv, RootsInPlace, Aligned, PlanHolds
  <2>3. StateAfterSDA3'
    BY <1>1, ImageAssumption, GeometryAssumption
       DEF StateAfterSDA3, ReclaimedStart, Table, Extent, Parts
  <2> QED BY <2>1, <2>2, <2>3 DEF LayoutInv
<1>5. AttemptInv'
  BY <1>1 DEF AttemptInv, CompletedLayout, OEMSmaller
<1>6. BeforeVM'
  BY <1>1 DEF BeforeVM
<1>7. HandedOver'
  <2>1. OEMSectors' = OEMSectors /\ DiskSectors' = DiskSectors
    BY <1>1 DEF vars, OEMSectors, DiskSectors, ConvertSizeToBytes, Exact
  <2> QED BY <1>1, <2>1 DEF vars, HandedOver
<1>8. FirstAttempt' /\ StatePlace'
  BY <1>1 DEF FirstAttempt, StatePlace
<1>9. OEMKept'
  BY <1>1 DEF OEMKept
<1> QED BY <1>2, <1>4, <1>5, <1>6, <1>7, <1>8, <1>9

\* No edit is refused, as long as the start point is what it was at first.
LEMMA EveryEditFits ==
  ASSUME BuildInv, hook # "idle", Sound, conf.reclaim \/ faults = 0
  PROVE  /\ hook \in {"stateOnly", "state"} => StateFits
         /\ hook = "oem" => OemFits
         /\ hook = "extend" => Grows /\ ExtendFits
<1> USE DEF BuildInv
<1>1. RoomEnough /\ conf.oemSize % Align = 0
  BY RoomIsHandedOver
<1>2. NoRefusalAfterStateMove /\ StateMoveFits
  BY LayoutInvImplies, FirstEditFits
<1>3. ASSUME hook \in {"stateOnly", "state"}, ~conf.reclaim
      PROVE  table["state"].start = InitTable["state"].start
  <2>1. hook = "state"
    BY <1>3 DEF LayoutInv, PlanHolds
  <2> QED BY <1>3, <2>1 DEF FirstAttempt
<1> QED
  BY <1>1, <1>2, <1>3 DEF NoRefusalAfterStateMove, StateMoveFits

\* The stateful partition goes no further than the OEM partition needs it to.
LEMMA StateStaysInPlace ==
  ASSUME BuildInv, HookStep, UNCHANGED <<conf, diskEnd, vars>>
  PROVE  StatePlace'
<1> USE DEF BuildInv
<1>1. FirstStart' = FirstStart /\ (Sound' <=> Sound)
  BY DEF vars, FirstStart, Sound, NoWrap, Parses, Factor, Exact
<1>2. faults' = 0 => faults = 0
  BY DEF HookStep, HookShrink, HookPlan, HookMoveState, HookMoveOem,
         HookExtend, HookRefused, HookFault, LayoutInv, HookTypeOK
<1>3. CASE HookMoveState
  <2>1. table'["state"].start = StateTarget
    BY <1>3 DEF HookMoveState, MovePartition, LayoutInv, HookTypeOK, Table,
                Extent, Parts
  <2>2. SUFFICES ASSUME Sound, conf.reclaim \/ faults = 0
                 PROVE  StateTarget <= FirstStart + conf.oemSize
    BY <1>1, <1>2, <2>1 DEF StatePlace
  <2>3. startPoint = FirstStart
    <3>1. CASE conf.reclaim
      BY <1>3, <3>1 DEF HookMoveState, LayoutInv, PlanHolds, FirstStart
    <3>2. CASE ~conf.reclaim
      <4>1. hook = "state"
        BY <1>3, <3>2 DEF HookMoveState, LayoutInv, PlanHolds
      <4>2. table["state"].start = InitTable["state"].start
        BY <2>2, <3>2, <4>1 DEF FirstAttempt
      <4> QED BY <3>2, <4>1, <4>2 DEF AttemptInv, FirstStart
    <3> QED BY <3>1, <3>2
  <2>4. conf.oemSize \in Nat /\ startPoint \in Nat
        /\ startPoint + conf.oemSize \in Nat
    BY ConfigAssumption DEF LayoutInv, HookTypeOK
  <2>5. CASE hook = "stateOnly"
    BY <2>3, <2>4, <2>5 DEF StateTarget
  <2>6. CASE hook = "state"
    <3>1. newState = FindLast4KSector(startPoint + conf.oemSize)
      BY <2>6 DEF LayoutInv, PlanHolds
    <3>2. newState <= startPoint + conf.oemSize
      BY <2>4, <3>1, RoundsDown
    <3> QED BY <2>3, <2>6, <3>2 DEF StateTarget
  <2> QED BY <1>3, <2>5, <2>6 DEF HookMoveState
<1>4. CASE ~HookMoveState
  <2>1. table'["state"] = table["state"]
    BY <1>4 DEF HookStep, HookShrink, HookPlan, HookMoveOem, HookExtend,
                HookRefused, HookFault, MinimizePartition, MovePartition,
                ExtendPartition, LayoutInv, HookTypeOK, Table, Extent, Parts
  <2> QED BY <1>1, <1>2, <2>1 DEF StatePlace
<1> QED BY <1>3, <1>4

\* A step of the program on the VM.
LEMMA ProgramKeepsBuildInv ==
  ASSUME BuildInv, LayoutGoesOn
  PROVE  BuildInv'
<1> USE DEF BuildInv
<1>1. hook # "idle" /\ HookNext /\ UNCHANGED <<vars, conf, diskEnd>>
  BY DEF LayoutGoesOn, HookNext
<1>2. SizingInv' /\ HashInv' /\ SizedInv'
  BY <1>1, SizingInvStep, HashInvStep, SizedInvStep
<1>3. LayoutInv' /\ AttemptInv'
  BY <1>1, LayoutInvNext, AttemptInvNext
<1>4. hook' # "idle"
  BY <1>1 DEF HookNext, Invoke, HookStep, HookShrink, HookPlan, HookMoveState,
              HookMoveOem, HookExtend, HookRefused, HookFault
<1>5. BeforeVM'
  BY <1>4 DEF BeforeVM
<1>6. HandedOver'
  <2>1. OEMSectors' = OEMSectors /\ DiskSectors' = DiskSectors
    BY <1>1 DEF vars, OEMSectors, DiskSectors, ConvertSizeToBytes, Exact
  <2> QED BY <1>1, <2>1 DEF vars, HandedOver
<1>7. Sound' <=> Sound
  BY <1>1 DEF vars, Sound, NoWrap, Parses, Factor, Exact
<1>8. CASE HookStep
  <2>1. StatePlace'
    BY <1>1, <1>8, StateStaysInPlace
  <2>2. OEMKept'
    <3>1. CASE HookExtend
      <4>1. table'["oem"].size > table["oem"].size
        BY <3>1 DEF HookExtend, ExtendPartition, Grows, LayoutInv, HookTypeOK,
                    Table, Extent, Parts
      <4>2. /\ table["oem"].size \in Int /\ table'["oem"].size \in Int
            /\ InitTable["oem"].size \in Int
        BY <1>3, ImageAssumption
           DEF LayoutInv, HookTypeOK, Table, Extent, Parts
      <4> QED BY <4>1, <4>2 DEF OEMKept
    <3>2. CASE ~HookExtend
      <4>1. table'["oem"].size = table["oem"].size
        BY <1>8, <3>2
           DEF HookStep, HookShrink, HookPlan, HookMoveState, HookMoveOem,
               HookRefused, HookFault, MinimizePartition, MovePartition,
               LayoutInv, HookTypeOK, Table, Extent, Parts
      <4> QED BY <4>1 DEF OEMKept
    <3> QED BY <3>1, <3>2
  <2>3. ASSUME Sound', (~conf.reclaim)', (faults = 0)'
        PROVE  FirstAttempt'
    <3>1. faults = 0 /\ ~HookFault /\ ~conf.reclaim /\ Sound
      BY <1>1, <1>7, <1>8, <2>3
         DEF HookStep, HookShrink, HookPlan, HookMoveState, HookMoveOem,
             HookExtend, HookRefused, HookFault, LayoutInv, HookTypeOK
    <3>2. ~HookRefused
      BY <1>1, <3>1, EveryEditFits DEF HookRefused
    <3>3. hook' # "error"
      BY <1>8, <2>3, <3>1, <3>2
         DEF HookStep, HookShrink, HookPlan, HookMoveState, HookMoveOem,
             HookExtend
    <3>4. ASSUME hook' \in {"idle", "begin", "state"}
          PROVE  hook = "begin" /\ table' = table
      BY <1>8, <3>1, <3>2, <3>4
         DEF HookStep, HookShrink, HookPlan, HookMoveState, HookMoveOem,
             HookExtend
    <3> QED BY <3>1, <3>3, <3>4 DEF FirstAttempt
  <2>4. FirstAttempt'
    BY <2>3 DEF FirstAttempt
  <2> QED BY <1>2, <1>3, <1>5, <1>6, <2>1, <2>2, <2>4
<1>9. CASE Invoke
  <2>1. OEMKept'
    BY <1>9 DEF Invoke, OEMKept
  <2>2. StatePlace'
    BY <1>1, <1>7, <1>9 DEF Invoke, StatePlace, FirstStart
  <2>3. FirstAttempt'
    <3>1. conf.reclaim \/ hook = "error"
      BY <1>1, <1>9 DEF Invoke
    <3> QED BY <1>1, <1>7, <1>9, <3>1 DEF Invoke, FirstAttempt
  <2> QED BY <1>2, <1>3, <1>5, <1>6, <2>1, <2>2, <2>3
<1> QED BY <1>1, <1>8, <1>9 DEF HookNext

LEMMA BuildInvStep == BuildInv /\ [BuildNext]_buildVars => BuildInv'
<1> SUFFICES ASSUME BuildInv, [BuildNext]_buildVars PROVE BuildInv'
  OBVIOUS
<1>1. CASE Next /\ UNCHANGED <<conf, diskEnd, hookVars>>
  BY <1>1, SizingKeepsBuildInv
<1>2. CASE LayoutBegins
  BY <1>2, HandOverKeepsBuildInv
<1>3. CASE LayoutGoesOn
  BY <1>3, ProgramKeepsBuildInv
<1>4. CASE UNCHANGED buildVars
  <2>1. UNCHANGED vars /\ UNCHANGED <<conf, diskEnd, hookVars>>
    BY <1>4 DEF buildVars
  <2> QED BY <2>1, SizingKeepsBuildInv
<1> QED BY <1>1, <1>2, <1>3, <1>4 DEF BuildNext

LEMMA BuildInvCorrect == BuildSpec => []BuildInv
BY BuildInvInit, BuildInvStep, PTL DEF BuildSpec

\* The sizes that finish-image-build makes of any flags are sizes that the
\* disk layout program can take, also those that wrapped around: no program
\* of the two leaves its types.
THEOREM BuildIsTyped == BuildSpec => []BuildTypeOK
<1>1. BuildInv => BuildTypeOK
  BY DEF BuildInv, SizingInv, LayoutInv, BuildTypeOK
<1> QED BY <1>1, BuildInvCorrect, PTL

\* What each of the two programs promises on its own holds of the two
\* together: the hash tree has its room, the disk its size (validateOEM,
\* needDiskResize), no edit after the first is refused, and a completed
\* attempt is complete (HandleDiskLayout), for the sizes and on the disks that
\* the first program hands to the second, those that wrapped around included.
THEOREM BuildKeepsPromises ==
  BuildSpec => [](/\ HashTreePlanned /\ DiskIsAsAsked
                  /\ NoRefusalAfterStateMove /\ CompletedLayout)
<1>1. BuildInv => HashTreePlanned
  BY DEF BuildInv, HashInv, HashTreePlanned, HashRoom, Accepted
<1>2. BuildInv => DiskIsAsAsked
  BY DiskIsPlanned DEF BuildInv
<1>3. BuildInv => NoRefusalAfterStateMove /\ CompletedLayout
  BY LayoutInvImplies DEF BuildInv, AttemptInv
<1> QED BY <1>1, <1>2, <1>3, BuildInvCorrect, PTL

\* For every image, unit, size and disk size: what validateOEM accepts on the
\* workstation, HandleDiskLayout never refuses on the VM.
THEOREM NeverRefused == BuildSpec => []AcceptedIsNotRefused
<1>1. BuildInv => AcceptedIsNotRefused
  <2> SUFFICES ASSUME BuildInv, Sound, conf.reclaim \/ faults = 0
               PROVE  /\ hook \in {"stateOnly", "state"} => StateFits
                      /\ hook = "oem" => OemFits
                      /\ hook = "extend" => Grows /\ ExtendFits
    BY DEF AcceptedIsNotRefused
  <2>1. CASE hook # "idle"
    BY <2>1, EveryEditFits
  <2>2. CASE hook = "idle"
    BY <2>2
  <2> QED BY <2>1, <2>2
<1> QED BY <1>1, BuildInvCorrect, PTL

\* The megabyte that validateOEM takes off the size is the one that the
\* second partition table needs: wherever the stateful partition is moved to,
\* in whichever attempt, it leaves it free.
THEOREM MegabyteIsSpared == BuildSpec => []EndOfDiskIsSpared
<1>1. BuildInv => EndOfDiskIsSpared
  <2> SUFFICES ASSUME BuildInv, Sound, conf.reclaim \/ faults = 0,
                      table["state"].start > InitTable["state"].start
               PROVE  After(table, "state") * Sector + MB <= diskEnd * Sector
    BY DEF EndOfDiskIsSpared
  <2> DEFINE s == table["state"].start
             s0 == InitTable["state"].start
             w == InitTable["state"].size
             f == FirstStart + conf.oemSize
  <2>1. /\ s \in Nat /\ s0 \in Nat /\ w \in Nat /\ f \in Nat
        /\ Sector \in Nat /\ MB \in Nat /\ diskEnd \in Nat
    BY SectorIsPositive, UnitsArePositive, ImageAssumption, ConfigAssumption,
       GeometryAssumption, DiskAssumption
       DEF BuildInv, LayoutInv, HookTypeOK, Table, Extent, Parts, FirstStart,
           ReclaimedStart
  <2>2. hook # "idle"
    BY <2>1 DEF BuildInv, BeforeVM
  <2>3. f <= s0 \/ (f + w) * Sector + MB <= diskEnd * Sector
    BY <2>2, RoomIsHandedOver DEF BuildInv
  <2>4. s <= f
    <3> HIDE DEF f
    <3>1. s # s0
      BY <2>1
    <3> QED BY <3>1 DEF BuildInv, StatePlace, f
  <2>5. After(table, "state") = s + w
    BY DEF BuildInv, AttemptInv, After
  <2> HIDE DEF f, s, s0, w
  <2>6. s0 < s
    BY DEF s, s0
  <2>7. (f + w) * Sector + MB <= diskEnd * Sector
    BY <2>1, <2>3, <2>4, <2>6
  <2>8. (s + w) * Sector <= (f + w) * Sector
    <3>1. \A a, b, c \in Nat : a <= b => a * c <= b * c
      OBVIOUS
    <3>2. s + w \in Nat /\ f + w \in Nat /\ s + w <= f + w
      BY <2>1, <2>4
    <3> QED BY <2>1, <3>1, <3>2
  <2>9. (s + w) * Sector \in Nat /\ (f + w) * Sector \in Nat
        /\ diskEnd * Sector \in Nat
    BY <2>1, ProductIsNat
  <2> QED BY <2>1, <2>5, <2>7, <2>8, <2>9
<1> QED BY <1>1, BuildInvCorrect, PTL

\* No sector that was asked for is missing from a completed layout, since all
\* sizes are in whole 4 KB.
LEMMA CompletedSize ==
  ASSUME BuildInv, hook = "done", startPoint # 0, conf.oemSize % Align = 0
  PROVE  conf.oemSize <= table["oem"].size
<1> DEFINE size == table["oem"].size
           e == conf.oemSize
<1>1. /\ size \in Nat /\ e \in Nat /\ InitTable["oem"].size \in Nat
      /\ Align \in Nat /\ Align > 0
      /\ size % Align = 0 /\ e % Align = 0
  BY ImageAssumption, ConfigAssumption, GeometryAssumption
     DEF BuildInv, LayoutInv, HookTypeOK, Aligned, Table, Extent, Parts
<1>2. CASE OEMSmaller(InitTable)
  BY <1>1, <1>2 DEF OEMSmaller, BuildInv, OEMKept
<1>3. CASE ~OEMSmaller(InitTable)
  <2>1. size + Align > e
    BY <1>3 DEF BuildInv, AttemptInv, CompletedLayout
  <2> HIDE DEF size, e
  <2>2. ASSUME size < e PROVE FALSE
    <3>1. (e - size) % Align = 0
      <4>1. size <= e
        BY <1>1, <2>2
      <4> QED BY <1>1, <4>1, MultiplesSubtract
    <3>2. e - size \in Nat /\ 0 < e - size /\ e - size < Align
      BY <1>1, <2>1, <2>2
    <3>3. (e - size) % Align = e - size
      BY <1>1, <3>2
    <3> QED BY <3>1, <3>2, <3>3
  <2>3. e <= size
    BY <1>1, <2>2
  <2> QED BY <2>3 DEF e, size
<1> QED BY <1>2, <1>3

\* The size that the user asks for is the size that the partition has in the
\* image, and a sealed one has room for its hash tree, through every change
\* of unit and every rounding of the two programs.
THEOREM SizeIsAsAsked == BuildSpec => []OEMIsAsAsked
<1>1. BuildInv => OEMIsAsAsked
  <2> DEFINE bytes == table["oem"].size * Sector
             fs    == boot.fsSize4K * Block
             c     == ConvertSizeToBytes(boot.oemSize)
  <2> SUFFICES ASSUME BuildInv, hook = "done", startPoint # 0, NoWrap
               PROVE  IF seals THEN fs + fs \div 4 <= bytes
                      ELSE Parses(oemFlag) => Exact(oemFlag) < bytes + 2 * MB
    BY DEF OEMIsAsAsked
  <2>1. /\ stage = "configured" /\ conf.oemSize = OEMSectors
        /\ seals \/ Parses(oemFlag) => boot.oemSize # NoSize
    BY DEF BuildInv, HandedOver, SizedInv
  <2>2. SUFFICES ASSUME boot.oemSize # NoSize
                 PROVE  /\ seals => fs + fs \div 4 <= bytes
                        /\ ~seals /\ Parses(oemFlag) =>
                             Exact(oemFlag) < bytes + 2 * MB
    BY <2>1
  <2>3. conf.oemSize * Sector = c /\ conf.oemSize % Align = 0
    BY <2>1, <2>2, SizeIsHandedOver DEF BuildInv
  <2>4. conf.oemSize <= table["oem"].size
    BY <2>3, CompletedSize
  <2>5. /\ conf.oemSize \in Nat /\ table["oem"].size \in Nat
        /\ Sector \in Nat /\ MB \in Nat
    BY SectorIsPositive, UnitsArePositive, ConfigAssumption
       DEF BuildInv, LayoutInv, HookTypeOK, Table, Extent, Parts
  <2>6. c <= bytes /\ c \in Nat /\ bytes \in Nat
    <3>1. \A a, b, d \in Nat : a <= b => a * d <= b * d
      OBVIOUS
    <3>2. conf.oemSize * Sector <= table["oem"].size * Sector
      BY <2>4, <2>5, <3>1
    <3> QED BY <2>3, <2>5, <3>2, ProductIsNat
  <2>7. ASSUME seals PROVE fs + fs \div 4 <= bytes
    <3>1. fs + fs \div 4 <= c
      BY <2>1, <2>2, <2>7 DEF BuildInv, HashInv, HashRoom
    <3>2. fs \in Nat /\ fs \div 4 \in Nat
      BY SizingAssumption, ProductIsNat, Quarter
         DEF BuildInv, SizingInv, TypeOK
    <3> HIDE DEF fs, c, bytes
    <3> QED BY <2>6, <3>1, <3>2
  <2>8. ASSUME ~seals, Parses(oemFlag)
        PROVE  Exact(oemFlag) < bytes + 2 * MB
    <3>1. Exact(oemFlag) < c + 2 * MB
      BY <2>1, <2>2, <2>8 DEF BuildInv, SizedInv
    <3>2. Exact(oemFlag) \in Int
      <4>1. oemFlag.number \in Nat /\ oemFlag.unit \in UnitNames
        BY <2>8 DEF BuildInv, SizingInv, TypeOK, Parses, Sizes, NoSize,
                    Malformed, UnitNames
      <4> QED BY <4>1, UnitsArePositive, ProductIsNat DEF Exact
    <3> HIDE DEF c, bytes
    <3> QED BY <2>5, <2>6, <3>1, <3>2
  <2> QED BY <2>7, <2>8
<1> QED BY <1>1, BuildInvCorrect, PTL

-----------------------------------------------------------------------------
(* What the provisioner's builds are assumed to be (BuildsFit in           *)
(* ProvisionerRebootProofs), of the builds that finish-image-build accepts. *)

\* A size that is still larger than the partition of the image without the
\* two megabytes that rounding may take: from 18M on.
IsLarger ==
  ~seals /\ Parses(oemFlag) => Exact(oemFlag) >= (DefaultOEM + 2) * MB

LEMMA SizeIsLarger ==
  ASSUME BuildInv, hook # "idle", NoWrap, IsLarger, conf.oemSize # 0
  PROVE  conf.oemSize > InitTable["oem"].size
<1> DEFINE e == conf.oemSize
           o == InitTable["oem"].size
           c == ConvertSizeToBytes(boot.oemSize)
           d == DefaultOEM * MB
<1>1. stage = "configured" /\ boot.oemSize # NoSize /\ e = OEMSectors
  BY DEF BuildInv, HandedOver, OEMSectors
<1>2. e * Sector = c
  BY <1>1, SizeIsHandedOver DEF BuildInv
<1>3. o * Sector = d
  BY HandOverAssumption
<1>4. /\ e \in Nat /\ o \in Nat /\ Sector \in Nat /\ Sector > 0
      /\ DefaultOEM \in Nat /\ DefaultOEM >= 3 /\ MB \in Nat /\ MB > 0
  BY SectorIsPositive, UnitsArePositive, SizingAssumption, ImageAssumption,
     ConfigAssumption
     DEF BuildInv, LayoutInv, HookTypeOK, Table, Extent, Parts
<1>5. (DefaultOEM + 2) * MB = d + 2 * MB /\ d \in Nat /\ c \in Nat
  <2>1. (DefaultOEM + 2) * MB = d + 2 * MB /\ d \in Nat
    BY <1>4
  <2>2. c \in Nat
    BY <1>2, <1>4, ProductIsNat
  <2> QED BY <2>1, <2>2
<1>6. d < c
  <2>1. CASE seals
    BY <1>1, <2>1 DEF BuildInv, SizedInv
  <2>2. CASE ~seals
    <3>1. Parses(oemFlag) /\ Exact(oemFlag) < c + 2 * MB
      BY <1>1, <2>2 DEF BuildInv, SizedInv
    <3>2. Exact(oemFlag) >= d + 2 * MB
      BY <1>5, <2>2, <3>1 DEF IsLarger
    <3>3. Exact(oemFlag) \in Int
      <4>1. oemFlag.number \in Nat /\ oemFlag.unit \in UnitNames
        BY <3>1 DEF BuildInv, SizingInv, TypeOK, Parses, Sizes, NoSize,
                    Malformed, UnitNames
      <4> QED BY <4>1, UnitsArePositive, ProductIsNat DEF Exact
    <3> HIDE DEF c, d
    <3> QED BY <1>4, <1>5, <3>1, <3>2, <3>3
  <2> QED BY <2>1, <2>2
<1>7. ASSUME e <= o PROVE FALSE
  <2>1. \A a, b, g \in Nat : a <= b => a * g <= b * g
    OBVIOUS
  <2>2. e * Sector <= o * Sector
    BY <1>4, <1>7, <2>1
  <2>3. c <= d
    BY <1>2, <1>3, <2>2
  <2> HIDE DEF c, d
  <2> QED BY <1>5, <1>6, <2>3
<1> QED BY <1>4, <1>7

\* The two hypotheses under which a build on the VM is proved to come to an
\* end are what finish-image-build establishes: the disk has room for what
\* is to be relocated, with the size it will have then (validateOEM), and an
\* OEM size from 18M on, or a sealed one, enlarges the partition.
THEOREM AcceptedBuildsFit ==
  BuildSpec => [](hook # "idle" /\ Sound /\ IsLarger =>
                    /\ RoomEnough
                    /\ conf.oemSize # 0 =>
                         conf.oemSize > InitTable["oem"].size)
<1>1. BuildInv /\ hook # "idle" /\ Sound /\ IsLarger =>
        /\ RoomEnough
        /\ conf.oemSize # 0 => conf.oemSize > InitTable["oem"].size
  BY RoomIsHandedOver, SizeIsLarger DEF BuildInv, Sound
<1> QED BY <1>1, BuildInvCorrect, PTL
=============================================================================
