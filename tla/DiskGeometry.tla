---------------------------- MODULE DiskGeometry ----------------------------
(***************************************************************************)
(* The arithmetic of the simulated drive (PPD/src/ppd_common.c and         *)
(* ppd_taker.c): addresses, the rotation of the platter while the head     *)
(* seeks, and where the head rests after a request.  Everything here is a  *)
(* function of the geometry that ppd.config gives.                         *)
(*                                                                         *)
(* The program computes on uint32_t; the geometries of the configurations  *)
(* keep every intermediate value far below 2^32, so plain naturals are     *)
(* used and the differences the program takes with abs() are AbsDiff.      *)
(***************************************************************************)
EXTENDS Integers

CONSTANTS
    Cylinder,        \* number of cylinders
    Heads,           \* number of heads (Head in the source)
    Sector,          \* sectors per track
    TrackJumpTime,   \* ms to cross one track
    SectorJumpTime   \* "ms" per sector, derived from RPM (ppd_common.c:219)

\* A drive has at least one of each.  SectorJumpTime divides in reachedSector,
\* and RPM*Sector < 60000 would make it 0; TrackJumpTime-1 must not wrap.
ASSUME GeometryAssumption ==
    /\ Cylinder \in Nat \ {0}
    /\ Heads \in Nat \ {0}
    /\ Sector \in Nat \ {0}
    /\ TrackJumpTime \in Nat \ {0}
    /\ SectorJumpTime \in Nat \ {0}

\* Sector numbers a client may name, and their cylinder/head/sector addresses.
SectorNums == 0 .. Cylinder * Heads * Sector - 1
CHS == [cylinder : Nat, head : Nat, sector : Nat]

AbsDiff(a, b) == IF a < b THEN b - a ELSE a - b

-----------------------------------------------------------------------------
\* COMMON_turnToCHS
turnToCHS(n) ==
    [cylinder |-> n \div (Sector * Heads),
     head     |-> (n % (Sector * Heads)) \div Sector,
     sector   |-> (n % (Sector * Heads)) % Sector]

\* TAKER_turnToSectorNum: the head count does not weigh the cylinder.
turnToSectorNum(chs) == Sector * (chs.cylinder + chs.head) + chs.sector

\* The sector number the taker works on, for a request that named n.
addressed(n) == turnToSectorNum(turnToCHS(n))

\* TAKER_reachedSector: the sector under the head after seeking from a CHS.
reachedSector(cylinder, from) ==
    LET cDistance == AbsDiff(cylinder, from.cylinder)
        perTrack  == (TrackJumpTime - 1) \div SectorJumpTime + 1
    IN  IF cDistance = 0 THEN from.sector
        ELSE (((cDistance * perTrack) % Sector) + from.sector) % Sector

\* FSCAN_moveToCylinder: where a full seek leaves the trace position.
moveToCylinder(dest, tracePosition) ==
    LET from == turnToCHS(tracePosition)
    IN  turnToSectorNum([cylinder |-> dest, head |-> from.head,
                             sector |-> reachedSector(dest, from)])

\* TAKER_updateHPos: one past the sector served, wrapping inside the track.
updateHPos(sectorNum) ==
    LET next == sectorNum + 1
    IN  IF next % Sector = 0 THEN next - Sector ELSE next
=============================================================================
