--------------------------- MODULE SignatureScanner ---------------------------
(***************************************************************************)
(* The carve scan (carve/SignatureScanner.cpp, WindowMatch.cpp,            *)
(* CarveMatches.cpp, SignatureTable.cpp, PrefilterAvx2.cpp): a region is   *)
(* read in overlapping windows through the RetryingDevice, every signature *)
(* whole in the window is a match, and each match is carved unless an      *)
(* earlier candidate of the window reached past it.                        *)
(*                                                                         *)
(* A carver is one signature and what Carve answers over the bytes from    *)
(* the candidate's start; plausibility is part of its answer.              *)
(***************************************************************************)
EXTENDS RetryingDevice

CONSTANTS
  Signatures,    \* by carver, in registration order: [magic, offset]
  Carve(_, _),   \* Carve(carver, bytes): [confidence, length]
  WindowBytes,   \* ScanConfig::windowBytes
  MaxCarveBytes, \* ScanConfig::maxCarveBytes
  PrefilterBytes,\* kPrefilterChunkBytes, or 0 without the fast path
  Plans          \* the sequences of regions a run may scan

widestSignature(s) == Len(s.magic) + s.offset
maxSignatureBytes == Max({widestSignature(Signatures[i]) : i \in DOMAIN Signatures} \cup {0})

ByteValues == {0} \cup UNION {ToSet(c) : c \in Contents}

ASSUME ScanAssumption ==
  /\ Signatures \in Seq([magic : Seq(Nat) \ {<<>>}, offset : Nat])
  /\ WindowBytes \in Nat \ {0} /\ MaxCarveBytes \in Nat /\ PrefilterBytes \in Nat
  /\ WindowBytes >= maxSignatureBytes /\ MaxCarveBytes >= WindowBytes
  \* A plan goes forward over ranges that are not empty.
  /\ \A p \in Plans :
       /\ p \in Seq([start : Nat, end : Nat])
       /\ \A i \in DOMAIN p : p[i].start < p[i].end
       /\ \A i, j \in DOMAIN p : i < j => p[i].end <= p[j].start

(* What a carver takes is in the bytes it was given (CarveWalkProofs!VerdictsStayInside). *)
ASSUME CarveAssumption ==
  \A i \in DOMAIN Signatures, n \in 0..MaxCarveBytes :
    \A bytes \in [1..n -> ByteValues] :
      /\ Carve(i, bytes).length \in Nat
      /\ Carve(i, bytes).confidence # "rejected" => Carve(i, bytes).length <= n

VARIABLES
  pc,            \* "idle", "next", "window", "match", "carve" or "failed"
  plan,          \* the regions of this run
  scanned,       \* how many of them are done
  cursor,        \* where the next window starts
  windowEnd,     \* one past the last byte of the window just read
  overlap,       \* how far the next window slides back
  matches,       \* the matches of the window not yet looked at: a set
  resumeCursor,  \* MatchOutcome::resumeCursor
  reported       \* the candidates reported so far

scanVars == <<pc, plan, scanned, cursor, windowEnd, overlap, matches, resumeCursor, reported>>
vars == <<deviceVars, scanVars>>

Init ==
  /\ DeviceInit
  /\ pc = "idle"
  /\ plan \in Plans
  /\ scanned = 0
  /\ cursor = 0
  /\ windowEnd = 0
  /\ overlap = 0
  /\ matches = {}
  /\ resumeCursor = 0
  /\ reported = {}

Region == plan[scanned + 1]

scanRegion ==
  /\ pc = "idle" /\ scanned < Len(plan)
  /\ cursor' = Region.start
  /\ pc' = "next"
  /\ UNCHANGED <<deviceVars, plan, scanned, windowEnd, overlap, matches, resumeCursor, reported>>

(* Mutant of windowSlice: nothing past the region is read. *)
windowSlice_clipped(from, end) == Min({WindowBytes, end - from})

(* One signature's reach past the region: a candidate may start on its last
   byte. *)
windowSlice(from, end) ==
  IF end - from >= WindowBytes
  THEN WindowBytes
  ELSE Min({WindowBytes, end - from + maxSignatureBytes})

scanOneWindow ==
  /\ pc = "next" /\ cursor < Region.end
  /\ readAt(cursor, windowSlice(cursor, Region.end))
  /\ pc' = "window"
  /\ UNCHANGED <<device, bad, contiguousLost, lostRunStart, invented, answeredTo, plan,
                 scanned, cursor, windowEnd, overlap, matches, resumeCursor, reported>>

runScanLoop ==
  /\ pc = "next" /\ cursor >= Region.end
  /\ scanned' = scanned + 1
  /\ pc' = "idle"
  /\ UNCHANGED <<deviceVars, plan, cursor, windowEnd, overlap, matches, resumeCursor, reported>>

FirstBytes == {Signatures[i].magic[1] : i \in DOMAIN Signatures}

(* The vector-shaped reject: the nibbles of a first byte share a bit, which a
   high nibble also shares with that nibble plus eight. *)
BitOf(high) == high % 8

nibbleFilter(byte) ==
  LET low == {BitOf(b \div 16) : b \in {f \in FirstBytes : f % 16 = byte % 16}}
      high == {BitOf(b \div 16) : b \in {f \in FirstBytes : f \div 16 = byte \div 16}}
  IN low \cap high # {}

(* The positions asked the exact question: whole batches through the filter,
   the rest by their first byte. *)
Asked(bytes) ==
  LET batched == IF PrefilterBytes = 0 THEN 0
                 ELSE (Len(bytes) \div PrefilterBytes) * PrefilterBytes
  IN {p \in 1..Len(bytes) : IF p <= batched THEN nibbleFilter(bytes[p])
                            ELSE bytes[p] \in FirstBytes}

magicIsAt(bytes, p, s) ==
  /\ p + Len(s.magic) - 1 <= Len(bytes)
  /\ SubSeq(bytes, p, p + Len(s.magic) - 1) = s.magic

(* Every signature whole in bytes, which begin at device offset at, by where
   its candidate starts; a candidate cannot start before the device does. *)
matchWindow(bytes, at) ==
  UNION {{[offset |-> at + p - 1 - Signatures[i].offset, carver |-> i] :
            p \in {q \in Asked(bytes) : /\ magicIsAt(bytes, q, Signatures[i])
                                        /\ at + q - 1 >= Signatures[i].offset}} :
           i \in DOMAIN Signatures}

Before(m, n) == m.offset < n.offset \/ (m.offset = n.offset /\ m.carver < n.carver)

(* The first in the order they are looked at. *)
canonicallyFirst(found) == CHOOSE m \in found : \A n \in found : ~Before(n, m)

firstMatch == canonicallyFirst(matches)

overlapBytes(bytesRead) ==
  IF maxSignatureBytes = 0 THEN 0 ELSE Min({maxSignatureBytes - 1, bytesRead})

(* Mutant of WithinRegion: a match before the cursor is looked at again. *)
WithinRegion_unfiltered(m, from, end) == m.offset < end

(* Before the cursor a match has been resolved, at the region's end it is
   another's. *)
WithinRegion(m, from, end) == m.offset >= from /\ m.offset < end

readAndMatch ==
  /\ pc = "window" /\ read.state = "ok" /\ read.got # <<>>
  /\ matches' = {m \in matchWindow(read.got, cursor) : WithinRegion(m, cursor, Region.end)}
  /\ windowEnd' = cursor + Len(read.got)
  /\ overlap' = overlapBytes(Len(read.got))
  /\ resumeCursor' = 0
  /\ pc' = "match"
  /\ UNCHANGED <<deviceVars, plan, scanned, cursor, reported>>

endOfDevice ==
  /\ pc = "window" /\ read.state = "ok" /\ read.got = <<>>
  /\ cursor' = Region.end
  /\ pc' = "next"
  /\ UNCHANGED <<deviceVars, plan, scanned, windowEnd, overlap, matches, resumeCursor, reported>>

skipMatch ==
  /\ pc = "match" /\ matches # {} /\ firstMatch.offset < resumeCursor
  /\ matches' = matches \ {firstMatch}
  /\ UNCHANGED <<deviceVars, pc, plan, scanned, cursor, windowEnd, overlap, resumeCursor,
                 reported>>

attemptCarve ==
  /\ pc = "match" /\ matches # {} /\ firstMatch.offset >= resumeCursor
  /\ readAt(firstMatch.offset, MaxCarveBytes)
  /\ pc' = "carve"
  /\ UNCHANGED <<device, bad, contiguousLost, lostRunStart, invented, answeredTo, plan,
                 scanned, cursor, windowEnd, overlap, matches, resumeCursor, reported>>

(* Mutant of resumeOffset: a rejected match is stepped over whole. *)
resumeOffset_wholeExtent(offset, result) == offset + Max({result.length, 1})

resumeOffset(offset, result) ==
  IF result.confidence = "rejected" THEN offset + 1 ELSE offset + Max({result.length, 1})

applyMatch ==
  LET m == firstMatch
      result == Carve(m.carver, read.got)
  IN /\ pc = "carve" /\ read.state = "ok"
     /\ reported' = reported \cup {[region |-> scanned + 1, match |-> m, result |-> result]}
     /\ resumeCursor' = resumeOffset(m.offset, result)
     /\ matches' = matches \ {m}
     /\ pc' = "match"
     /\ UNCHANGED <<deviceVars, plan, scanned, cursor, windowEnd, overlap>>

(* Mutant of nextCursor: a short tail window is read again. *)
nextCursor_slidBack(from, end, back, resume) == Max({end - back, resume})

nextCursor(from, end, back, resume) ==
  LET slidBack == Max({end - back, resume})
  IN IF slidBack > from THEN slidBack ELSE end

stepWindow ==
  /\ pc = "match" /\ matches = {}
  /\ cursor' = nextCursor(cursor, windowEnd, overlap, resumeCursor)
  /\ pc' = "next"
  /\ UNCHANGED <<deviceVars, plan, scanned, windowEnd, overlap, matches, resumeCursor, reported>>

scanFails ==
  /\ pc \in {"window", "carve"} /\ read.state = "lost"
  /\ pc' = "failed"
  /\ UNCHANGED <<deviceVars, plan, scanned, cursor, windowEnd, overlap, matches, resumeCursor,
                 reported>>

ScanStep ==
  \/ scanRegion \/ scanOneWindow \/ runScanLoop \/ readAndMatch \/ endOfDevice
  \/ skipMatch \/ attemptCarve \/ applyMatch \/ stepWindow \/ scanFails

Over == pc = "failed" \/ (pc = "idle" /\ scanned = Len(plan))

Next ==
  \/ ScanStep
  \/ ~Over /\ DeviceStep /\ UNCHANGED scanVars

(* The scan is one thread, and every read of the system below it returns. *)
Spec == Init /\ [][Next]_vars /\ WF_vars(ScanStep \/ (~Over /\ DeviceStep /\ UNCHANGED scanVars))

------------------------------------------------------------------------------

(* What one pass over all the bytes of a device finds from an offset on: the first match
   there, then the first one past it. *)
WholeScan(bytes, end) ==
  LET all == matchWindow(bytes, 0)
      from[p \in 0..end] ==
        LET rest == {m \in all : p <= m.offset /\ m.offset < end}
            m == canonicallyFirst(rest)
            result == Carve(m.carver, sliceOf(bytes, m.offset, MaxCarveBytes))
        IN IF rest = {} THEN {}
           ELSE {[match |-> m, result |-> result]}
                  \cup from[Min({end, resumeOffset(m.offset, result)})]
  IN from

(* However the windows fall, a region that was read without loss reports what
   one pass over the whole device would: nothing straddling two windows or the
   region's end is missed, and nothing is reported twice. *)
ScanIsExact ==
  invented = {} =>
    \A r \in 1..scanned :
      {[match |-> c.match, result |-> c.result] : c \in {d \in reported : d.region = r}}
        = WholeScan(content, plan[r].end)[plan[r].start]

(* A device that has gone is not transcribed as zeros to its end: when a scan
   completes, less than the bound of what it scanned lies behind the last byte
   the device really gave (kLostSourceRunBytes, RetryingDevice.hpp). *)
GoneIsNoticed ==
  pc = "idle" /\ scanned = Len(plan) =>
    Cardinality({b \in answeredTo..(sizeInBytes - 1) :
                   \E r \in 1..scanned : plan[r].start <= b /\ b < plan[r].end})
      < kLostSourceRunBytes

(* Whatever the windows hold and the device does, the scan comes to its end, or
   to a lost source. *)
ScanEnds == <>Over

------------------------------------------------------------------------------

(* What is written below is for the proofs. *)

DeviceTypes ==
  /\ content \in Contents
  /\ bad \in Seq([offsetBytes : Nat, lengthBytes : Nat \ {0}])
  /\ contiguousLost \in Nat /\ lostRunStart \in Nat /\ answeredTo \in Nat
  /\ invented \subseteq Nat
  /\ read \in [at : Nat, want : Nat, got : Seq(ByteValues),
              state : {"none", "whole", "sectors", "ok", "lost"}]

ScanTypes ==
  /\ pc \in {"idle", "next", "window", "match", "carve", "failed"}
  /\ plan \in Plans /\ scanned \in 0..Len(plan)
  /\ cursor \in Nat /\ windowEnd \in Nat /\ overlap \in Nat /\ resumeCursor \in Nat
  /\ matches \subseteq [offset : Nat, carver : DOMAIN Signatures]

(* A read comes back whole, or up to the device's end, and short of the bound; what it
   holds of a device nothing was lost of is what is there. *)
ReadInv ==
  /\ Len(read.got) <= read.want
  /\ read.state \in {"none", "whole"} => read.got = <<>>
  /\ read.state \in {"whole", "sectors"} => read.want > 0
  /\ read.state \in {"none", "whole", "ok"} => contiguousLost < kLostSourceRunBytes
  /\ read.state = "ok" => Len(read.got) = read.want \/ Here >= sizeInBytes
  /\ invented = {} => read.got = Slice(read.at, Len(read.got))

InSomeRegion(b) == \E r \in DOMAIN plan : plan[r].start <= b /\ b < plan[r].end

(* What is scanned below p has been read up to. *)
Reached(p) == \A b \in Here..(p - 1) : b < sizeInBytes => ~InSomeRegion(b)

InRegion == pc \in {"next", "window", "match", "carve"}

WindowInv ==
  /\ InRegion => scanned < Len(plan) /\ Region.start <= cursor
  /\ pc = "idle" /\ scanned > 0 => Reached(plan[scanned].end)
  /\ pc = "idle" => read.state \in {"none", "ok"} /\ (scanned = 0 => read = NoRead)
  /\ pc = "next" => Reached(cursor) /\ read.state \in {"none", "ok"}
  /\ pc \in {"window", "match", "carve"} => cursor < Region.end
  /\ pc = "window" =>
       /\ read.at = cursor /\ read.want = windowSlice(cursor, Region.end)
       /\ read.state # "none"
  /\ pc \in {"match", "carve"} =>
       /\ windowEnd \in cursor..(cursor + WindowBytes)
       /\ \A m \in matches : cursor <= m.offset /\ m.offset < windowEnd /\ m.offset < Region.end
  /\ pc = "match" => read.state = "ok" /\ Reached(windowEnd) /\ Reached(resumeCursor)
  /\ pc = "carve" =>
       /\ matches # {} /\ firstMatch.offset >= resumeCursor
       /\ read.at = firstMatch.offset /\ read.want = MaxCarveBytes /\ read.state # "none"

(* The scanned bytes below p that the device has not given, nor any behind them. *)
Unheard(p) == {b \in answeredTo..(sizeInBytes - 1) : b < p /\ InSomeRegion(b)}

GoneInv ==
  \/ Cardinality(Unheard(Here)) <= contiguousLost
  \/ Cardinality(Unheard(sizeInBytes)) < kLostSourceRunBytes

reachOf(m) == m.offset + widestSignature(Signatures[m.carver])

AllMatches == matchWindow(content, 0)

(* A match that begins before another does not end behind it. *)
MatchesEndInOrder == \A m, n \in AllMatches : Before(m, n) => reachOf(m) <= reachOf(n)

ReportedIn(r) == {[match |-> c.match, result |-> c.result] : c \in {d \in reported : d.region = r}}

(* From here on the region is still to be looked at. *)
Position == IF pc \in {"match", "carve"} THEN Max({cursor, resumeCursor}) ELSE cursor

RegionsInv ==
  \A c \in reported : c.region \in 1..(scanned + 1) /\ (pc = "idle" => c.region <= scanned)

PastExact ==
  \A r \in 1..scanned : ReportedIn(r) = WholeScan(content, plan[r].end)[plan[r].start]

HereExact ==
  InRegion =>
    WholeScan(content, Region.end)[Region.start]
      = ReportedIn(scanned + 1) \cup WholeScan(content, Region.end)[Min({Region.end, Position})]

(* The matches left are those of the whole device that lie in the window. *)
MatchesExact ==
  pc \in {"match", "carve"} =>
    /\ windowEnd = Min({cursor + windowSlice(cursor, Region.end), sizeInBytes})
    /\ overlap = overlapBytes(windowEnd - cursor)
    /\ {m \in matches : m.offset >= resumeCursor}
         = {m \in AllMatches : /\ m.offset >= Position /\ m.offset < Region.end
                               /\ reachOf(m) <= windowEnd}

ExactInv == RegionsInv /\ (invented = {} => PastExact /\ HereExact /\ MatchesExact)
===============================================================================
