------------------------- MODULE Scheduling_proofs --------------------------
(***************************************************************************)
(* Facts about the arithmetic of the drive and about the order of service  *)
(* that the proofs of GetNext and PPD rest on.                             *)
(***************************************************************************)
EXTENDS Scheduling, TLAPS

-----------------------------------------------------------------------------
(* Arithmetic.                                                              *)

LEMMA TrackSize == Sector * Heads \in Nat \ {0}
  BY GeometryAssumption

LEMMA DivMod ==
  ASSUME NEW n \in Nat, NEW d \in Nat \ {0}
  PROVE  n \div d \in Nat /\ n % d \in Nat /\ n % d < d /\ n = d * (n \div d) + (n % d)
  OBVIOUS

LEMMA MulMonotone ==
  ASSUME NEW a \in Nat, NEW b \in Nat, NEW c \in Nat, a >= b
  PROVE  c * a >= c * b
<1>1. PICK k \in Nat : a = b + k
  <2>1. a - b \in Nat /\ a = b + (a - b)
    OBVIOUS
  <2> QED
    BY <2>1
<1>2. c * a = c * b + c * k /\ c * k \in Nat /\ c * b \in Nat
  BY <1>1
<1> QED
  BY <1>2

LEMMA SectorNumsNat == SectorNums \subseteq Nat
<1>1. Cylinder * Heads * Sector \in Nat
  BY GeometryAssumption
<1> QED
  BY <1>1 DEF SectorNums

\* turnToCHS returns an address: no component is negative.
LEMMA TurnToCHSType ==
  ASSUME NEW n \in Nat
  PROVE  turnToCHS(n) \in CHS
<1>1. n \div (Sector * Heads) \in Nat /\ n % (Sector * Heads) \in Nat
  BY TrackSize, DivMod
<1>2. (n % (Sector * Heads)) \div Sector \in Nat
  BY <1>1, DivMod, GeometryAssumption
<1>3. (n % (Sector * Heads)) % Sector \in Nat
  BY <1>1, DivMod, GeometryAssumption
<1> QED
  BY <1>1, <1>2, <1>3 DEF turnToCHS, CHS

LEMMA TurnToSectorNumType ==
  ASSUME NEW chs \in CHS
  PROVE  turnToSectorNum(chs) \in Nat
  BY GeometryAssumption DEF turnToSectorNum, CHS

\* The head stays on the disk's addresses after every request ...
LEMMA UpdateHPosType ==
  ASSUME NEW n \in Nat
  PROVE  updateHPos(n) \in Nat
<1>1. CASE (n + 1) % Sector # 0
  BY <1>1 DEF updateHPos
<1>2. CASE (n + 1) % Sector = 0
  <2>1. n + 1 = Sector * ((n + 1) \div Sector)
    BY <1>2, DivMod, GeometryAssumption
  <2>2. (n + 1) \div Sector >= 1
    BY <2>1, DivMod, GeometryAssumption
  <2>3. n + 1 >= Sector
    BY <2>1, <2>2, DivMod, GeometryAssumption
  <2> QED
    BY <1>2, <2>3, GeometryAssumption DEF updateHPos
<1> QED
  BY <1>1, <1>2

\* ... and after every seek to the end of the sweep.
LEMMA MoveToCylinderType ==
  ASSUME NEW n \in Nat, NEW dest \in Nat
  PROVE  moveToCylinder(dest, n) \in Nat
<1> DEFINE from == turnToCHS(n)
<1>1. from \in CHS
  BY TurnToCHSType
<1>2. reachedSector(dest, from) \in Nat
  <2> DEFINE cDistance == AbsDiff(dest, from.cylinder)
             perTrack == (TrackJumpTime - 1) \div SectorJumpTime + 1
  <2>1. cDistance \in Nat
    BY <1>1 DEF AbsDiff, CHS
  <2>2. perTrack \in Nat
    BY DivMod, GeometryAssumption
  <2>3. cDistance * perTrack \in Nat
    BY <2>1, <2>2
  <2>4. (cDistance * perTrack) % Sector \in Nat
    BY <2>3, DivMod, GeometryAssumption
  <2>5. (((cDistance * perTrack) % Sector) + from.sector) % Sector \in Nat
    BY <2>4, <1>1, DivMod, GeometryAssumption DEF CHS
  <2> QED
    BY <2>5, <1>1 DEF reachedSector, CHS
<1>3. [cylinder |-> dest, head |-> from.head, sector |-> reachedSector(dest, from)] \in CHS
  BY <1>1, <1>2 DEF CHS
<1> QED
  BY <1>3, TurnToSectorNumType DEF moveToCylinder

\* Whatever the number of heads, the sector worked on is never beyond the
\* sector named: the taker stays inside the mapped file.
LEMMA AddressedType ==
  ASSUME NEW n \in SectorNums
  PROVE  addressed(n) \in SectorNums
<1> DEFINE SH == Sector * Heads
           q == n \div SH
           r == n % SH
<1>1. n \in Nat /\ n <= Cylinder * Heads * Sector - 1
  BY SectorNumsNat, GeometryAssumption DEF SectorNums
<1>2. SH \in Nat \ {0}
  BY TrackSize
<1> HIDE DEF SH
<1>3. q \in Nat /\ r \in Nat /\ n = SH * q + r
  BY <1>1, <1>2, DivMod
<1> HIDE DEF q, r
<1>4. /\ r \div Sector \in Nat /\ r % Sector \in Nat
      /\ r = Sector * (r \div Sector) + (r % Sector)
  BY <1>3, DivMod, GeometryAssumption
<1>5. SH * q >= Sector * q
  <2>1. q * SH >= q * Sector
    <3>1. SH >= Sector
      <4>1. Sector * Heads >= Sector * 1
        BY MulMonotone, GeometryAssumption
      <4> QED
        BY <4>1, GeometryAssumption DEF SH
    <3> QED
      BY <1>2, <1>3, <3>1, MulMonotone, GeometryAssumption
  <2> QED
    BY <1>2, <1>3, <2>1, GeometryAssumption
<1>6. addressed(n) = Sector * (q + r \div Sector) + (r % Sector)
  BY DEF addressed, turnToSectorNum, turnToCHS, q, r, SH
<1>7. Sector * (q + r \div Sector) = Sector * q + Sector * (r \div Sector)
  BY <1>3, <1>4, GeometryAssumption
<1>8. addressed(n) <= n /\ addressed(n) \in Nat
  BY <1>2, <1>3, <1>4, <1>5, <1>6, <1>7, GeometryAssumption
<1>9. Cylinder * Heads * Sector \in Nat
  BY GeometryAssumption
<1> QED
  BY <1>1, <1>8, <1>9 DEF SectorNums

LEMMA SweepEndType ==
  ASSUME NEW direction
  PROVE  sweepEnd(direction) \in Nat
  BY GeometryAssumption DEF sweepEnd

-----------------------------------------------------------------------------
(* One head, as in ppd.config: the only geometry for which the two address *)
(* conversions of the source are inverse to each other.                    *)

LEMMA QuotientUnique ==
  ASSUME NEW d \in Nat \ {0}, NEW q \in Nat, NEW r \in Nat, r < d
  PROVE  (d * q + r) \div d = q /\ (d * q + r) % d = r
  OBVIOUS

\* With one head the taker works on the sector that the client named.
LEMMA OneHeadAddress ==
  ASSUME Heads = 1, NEW n \in Nat
  PROVE  /\ addressed(n) = n
         /\ turnToCHS(n).cylinder = n \div Sector
<1>1. Sector * Heads = Sector
  BY GeometryAssumption
<1>2. n % Sector < Sector /\ n % Sector \in Nat /\ n \div Sector \in Nat
  BY DivMod, GeometryAssumption
<1>3. n % Sector = Sector * 0 + (n % Sector)
  BY <1>2, GeometryAssumption
<1>4. (n % Sector) \div Sector = 0 /\ (n % Sector) % Sector = n % Sector
  BY <1>2, <1>3, QuotientUnique, GeometryAssumption
<1>5. n = Sector * (n \div Sector) + (n % Sector)
  BY DivMod, GeometryAssumption
<1> QED
  BY <1>1, <1>2, <1>4, <1>5 DEF addressed, turnToSectorNum, turnToCHS

LEMMA CylinderBound ==
  ASSUME Heads = 1, NEW n \in SectorNums
  PROVE  turnToCHS(n).cylinder \in 0 .. Cylinder - 1
<1>1. n \in Nat /\ n < Cylinder * Sector /\ Cylinder * Sector = Sector * Cylinder
  BY GeometryAssumption DEF SectorNums
<1>2. turnToCHS(n).cylinder = n \div Sector
  BY <1>1, OneHeadAddress
<1>3. n \div Sector \in Nat /\ n = Sector * (n \div Sector) + (n % Sector) /\ n % Sector \in Nat
  BY <1>1, DivMod, GeometryAssumption
<1>4. n \div Sector < Cylinder
  <2>1. SUFFICES ASSUME n \div Sector >= Cylinder PROVE FALSE
    BY <1>3, GeometryAssumption
  <2>2. Sector * (n \div Sector) >= Sector * Cylinder
    BY <1>3, <2>1, MulMonotone, GeometryAssumption
  <2> QED
    BY <1>1, <1>3, <2>2, GeometryAssumption
<1> QED
  BY <1>2, <1>3, <1>4, GeometryAssumption

\* FSCAN_moveToCylinder reaches the cylinder it is asked for.
LEMMA MoveReachesCylinder ==
  ASSUME Heads = 1, NEW n \in Nat, NEW dest \in Nat
  PROVE  turnToCHS(moveToCylinder(dest, n)).cylinder = dest
<1> DEFINE from == turnToCHS(n)
           s == reachedSector(dest, from)
<1>1. from \in CHS
  BY TurnToCHSType
<1>2. from.head = 0 /\ from.sector \in Nat /\ from.sector < Sector
  <2>1. Sector * Heads = Sector
    BY GeometryAssumption
  <2>2. n % Sector < Sector /\ n % Sector \in Nat
    BY DivMod, GeometryAssumption
  <2>3. n % Sector = Sector * 0 + (n % Sector)
    BY <2>2, GeometryAssumption
  <2>4. (n % Sector) \div Sector = 0 /\ (n % Sector) % Sector = n % Sector
    BY <2>2, <2>3, QuotientUnique, GeometryAssumption
  <2> QED
    BY <2>1, <2>2, <2>4 DEF turnToCHS
<1>3. s \in Nat /\ s < Sector
  <2> DEFINE cDistance == AbsDiff(dest, from.cylinder)
             perTrack == (TrackJumpTime - 1) \div SectorJumpTime + 1
  <2>1. cDistance * perTrack \in Nat
    <3>1. cDistance \in Nat
      BY <1>1 DEF AbsDiff, CHS
    <3>2. perTrack \in Nat
      BY DivMod, GeometryAssumption
    <3> QED
      BY <3>1, <3>2
  <2>2. (cDistance * perTrack) % Sector \in Nat
    BY <2>1, DivMod, GeometryAssumption
  <2>3. (((cDistance * perTrack) % Sector) + from.sector) % Sector \in 0 .. Sector - 1
    BY <2>2, <1>2, DivMod, GeometryAssumption
  <2> QED
    BY <2>3, <1>2, GeometryAssumption DEF reachedSector
<1>4. moveToCylinder(dest, n) = Sector * dest + s
  BY <1>2, <1>3, GeometryAssumption DEF moveToCylinder, turnToSectorNum
<1> HIDE DEF s, from
<1>5. Sector * dest + s \in Nat /\ (Sector * dest + s) \div Sector = dest
  BY <1>3, QuotientUnique, GeometryAssumption
<1> QED
  BY <1>4, <1>5, OneHeadAddress

-----------------------------------------------------------------------------
(* The order of service.                                                    *)

LEMMA DistanceType ==
  ASSUME NEW r, r.sector \in Nat, NEW p \in Nat
  PROVE  cylinderOf(r) \in Nat /\ cylinderDistance(r, p) \in Nat
<1>1. turnToCHS(r.sector).cylinder \in Nat /\ turnToCHS(p).cylinder \in Nat
  BY TurnToCHSType DEF CHS
<1> QED
  BY <1>1 DEF cylinderOf, cylinderDistance, AbsDiff

\* TAKER_near is a strict order on requests, weak in the sense that being
\* not preferred is transitive: the scan needs both.
LEMMA NearTransitive ==
  ASSUME NEW a, NEW b, NEW c, NEW p \in Nat, NEW d,
         a.sector \in Nat, b.sector \in Nat, c.sector \in Nat,
         near(a, b, p, d), near(b, c, p, d)
  PROVE  near(a, c, p, d)
<1>1. /\ cylinderDistance(a, p) \in Nat
      /\ cylinderDistance(b, p) \in Nat
      /\ cylinderDistance(c, p) \in Nat
  BY DistanceType
<1> QED
  BY <1>1 DEF near

LEMMA NearNegativelyTransitive ==
  ASSUME NEW a, NEW b, NEW c, NEW p \in Nat, NEW d,
         a.sector \in Nat, b.sector \in Nat, c.sector \in Nat,
         near(a, b, p, d), ~ near(c, b, p, d)
  PROVE  near(a, c, p, d)
<1>1. /\ cylinderDistance(a, p) \in Nat
      /\ cylinderDistance(b, p) \in Nat
      /\ cylinderDistance(c, p) \in Nat
  BY DistanceType
<1> QED
  BY <1>1 DEF near

\* There is at most one next request.
LEMMA NextUnique ==
  ASSUME NEW q, NEW p, NEW d, Len(q) \in Nat,  DOMAIN q = 1 .. Len(q),
         NEW i \in nextNodes(q, p, d), NEW j \in nextNodes(q, p, d)
  PROVE  i = j
  BY DEF nextNodes

\* The next request passes no earlier write of its sector.
LEMMA NextPassesNoWrite ==
  ASSUME NEW q, NEW p \in Nat, NEW d, Len(q) \in Nat, DOMAIN q = 1 .. Len(q),
         \A k \in DOMAIN q : q[k].sector \in Nat,
         NEW i \in nextNodes(q, p, d), NEW j \in 1 .. i - 1
  PROVE  ~ (q[j].type = WRITE /\ q[j].sector = q[i].sector)
<1>1. i \in 1 .. Len(q) /\ j \in 1 .. Len(q) /\ near(q[i], q[j], p, d)
  BY DEF nextNodes
<1>2. cylinderDistance(q[i], p) \in Nat
  BY <1>1, DistanceType
<1>3. SUFFICES ASSUME q[j].sector = q[i].sector PROVE q[j].type # WRITE
  OBVIOUS
<1>4. /\ condition(d, q[j], p) <=> condition(d, q[i], p)
      /\ cylinderDistance(q[j], p) = cylinderDistance(q[i], p)
  BY <1>3 DEF condition, cylinderDistance, cylinderOf
<1> QED
  BY <1>1, <1>2, <1>4 DEF near
=============================================================================
