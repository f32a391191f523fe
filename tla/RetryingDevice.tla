---------------------------- MODULE RetryingDevice ----------------------------
(***************************************************************************)
(* The source every run reads through (core/io/RetryingDevice.cpp, alone   *)
(* in core/io/SourceStack.cpp): a read that fails is retried whole, then   *)
(* sector by sector; a sector that still fails comes back as zeros and is  *)
(* written into the bad-sector map, until so much is lost in a row that    *)
(* the source itself is called lost.                                       *)
(*                                                                         *)
(* The attempts and the pauses of one read are folded into its outcome: it *)
(* fails when every attempt does.  A sector is good, bad, or flaky: it may *)
(* answer or not.  A device that is gone answers nothing.                  *)
(***************************************************************************)
EXTENDS Naturals, FiniteSets, SequencesExt

CONSTANTS
  SectorSize,          \* sectorSize()
  kLostSourceRunBytes,
  Contents,            \* the devices of the model: sequences of bytes
  Healths              \* Healths: from sector to "good", "flaky" or "bad"

ASSUME DeviceAssumption ==
  /\ SectorSize \in Nat \ {0} /\ kLostSourceRunBytes \in Nat \ {0}
  /\ \A c \in Contents : c \in Seq(Nat)

VARIABLES
  content,         \* the device: content[b + 1] is byte b
  health,          \* the state of its sectors
  gone,            \* the device has stopped answering
  bad,             \* bad_: ranges in offset order
  contiguousLost,  \* contiguousLost_
  lostRunStart,    \* lostRunStart_
  read,            \* the read in progress, or the last one
  invented,        \* history: every byte handed back as a zero in its place
  answeredTo       \* history: one past the last byte the device really gave

device == <<content, health, gone>>
deviceVars == <<device, bad, contiguousLost, lostRunStart, read, invented, answeredTo>>

sizeInBytes == Len(content)

NoRead == [at |-> 0, want |-> 0, got |-> <<>>, state |-> "none"]

DeviceInit ==
  /\ content \in Contents
  /\ health \in Healths
  /\ gone = FALSE
  /\ bad = <<>>
  /\ contiguousLost = 0
  /\ lostRunStart = 0
  /\ read = NoRead
  /\ invented = {}
  /\ answeredTo = 0

(* The sectors a read of the device below touches; past its end there are none. *)
Sectors(at, count) ==
  {b \div SectorSize : b \in {x \in at..(at + count - 1) : x < sizeInBytes}}

(* A read from the end on is cut to nothing and asks the device nothing
   (clampReadRange): it cannot fail. *)
MayAnswer(at, count) ==
  at >= sizeInBytes \/ (~gone /\ \A s \in Sectors(at, count) : health[s] # "bad")

MayRefuse(at, count) ==
  at < sizeInBytes /\ (gone \/ \E s \in Sectors(at, count) : health[s] # "good")

(* What the device below answers with: cut short at its end. *)
sliceOf(bytes, at, count) == SubSeq(bytes, at + 1, Min({at + count, Len(bytes)}))

Slice(at, count) == sliceOf(content, at, count)

Furthest(at, count) ==
  IF Slice(at, count) = <<>> THEN answeredTo ELSE Max({answeredTo, at + Len(Slice(at, count))})

Zeros(count) == [i \in 1..count |-> 0]

(* A reader asks; nothing is read yet. *)
readAt(at, count) == read' = [at |-> at, want |-> count, got |-> <<>>, state |-> "whole"]

readWhole ==
  /\ read.state = "whole" /\ MayAnswer(read.at, read.want)
  /\ read' = [read EXCEPT !.got = Slice(read.at, read.want), !.state = "ok"]
  /\ contiguousLost' = 0
  /\ answeredTo' = Furthest(read.at, read.want)
  /\ UNCHANGED <<device, bad, lostRunStart, invented>>

wholeFails ==
  /\ read.state = "whole" /\ MayRefuse(read.at, read.want)
  /\ read' = [read EXCEPT !.state = "sectors"]
  /\ UNCHANGED <<device, bad, contiguousLost, lostRunStart, invented, answeredTo>>

(* Where the walk over the sectors is, and how much it asks for next. *)
Here == read.at + Len(read.got)

Step == Min({read.want - Len(read.got), SectorSize})

Walking ==
  /\ read.state = "sectors"
  /\ Len(read.got) < read.want /\ contiguousLost < kLostSourceRunBytes

(* An answer of no bytes is the end of the device. *)
readOneSector ==
  /\ Walking /\ MayAnswer(Here, Step)
  /\ read' = IF Slice(Here, Step) = <<>>
             THEN [read EXCEPT !.state = "ok"]
             ELSE [read EXCEPT !.got = @ \o Slice(Here, Step)]
  /\ contiguousLost' = 0
  /\ answeredTo' = Furthest(Here, Step)
  /\ UNCHANGED <<device, bad, lostRunStart, invented>>

BadRange(offset, length) == [offsetBytes |-> offset, lengthBytes |-> length]

endOfRange(range) == range.offsetBytes + range.lengthBytes

(* One range met in offset order: folded into the last when it touches it. *)
folded(merged, one) ==
  IF merged # <<>> /\ one.offsetBytes <= endOfRange(Last(merged))
  THEN [merged EXCEPT ![Len(merged)].lengthBytes =
          Max({endOfRange(Last(merged)), endOfRange(one)}) - Last(merged).offsetBytes]
  ELSE Append(merged, one)

coalesce(ranges) ==
  LET merged[k \in 0..Len(ranges)] ==
        IF k = 0 THEN <<>> ELSE folded(merged[k - 1], ranges[k])
  IN merged[Len(ranges)]

(* Mutant of recordBad: a log of the reads rather than a set of ranges. *)
recordBad_log(ranges, range) == Append(ranges, range)

(* Inserted behind every range that starts no later. *)
recordBad(ranges, range) ==
  LET after == Cardinality({i \in DOMAIN ranges : ranges[i].offsetBytes <= range.offsetBytes})
  IN coalesce(InsertAt(ranges, after + 1, range))

(* Mutant of giveUpOn: every sector begins a run of its own. *)
giveUpOn_uncounted ==
  /\ Walking /\ MayRefuse(Here, Step)
  /\ read' = [read EXCEPT !.got = @ \o Zeros(Step)]
  /\ bad' = recordBad(bad, BadRange(Here, Step))
  /\ lostRunStart' = Here
  /\ contiguousLost' = Step
  /\ invented' = invented \cup (Here..(Here + Step - 1))
  /\ UNCHANGED <<device, answeredTo>>

giveUpOn ==
  /\ Walking /\ MayRefuse(Here, Step)
  /\ read' = [read EXCEPT !.got = @ \o Zeros(Step)]
  /\ bad' = recordBad(bad, BadRange(Here, Step))
  /\ lostRunStart' = IF contiguousLost = 0 THEN Here ELSE lostRunStart
  /\ contiguousLost' = contiguousLost + Step
  /\ invented' = invented \cup (Here..(Here + Step - 1))
  /\ UNCHANGED <<device, answeredTo>>

(* The buffer is full, or the source is lost: even when both happen at once. *)
readSectorwise ==
  /\ read.state = "sectors" /\ ~Walking
  /\ read' = [read EXCEPT !.state =
                IF contiguousLost >= kLostSourceRunBytes THEN "lost" ELSE "ok"]
  /\ UNCHANGED <<device, bad, contiguousLost, lostRunStart, invented, answeredTo>>

(* The device is unplugged. *)
vanish ==
  /\ ~gone
  /\ gone' = TRUE
  /\ UNCHANGED <<content, health, bad, contiguousLost, lostRunStart, read, invented,
                 answeredTo>>

DeviceStep ==
  \/ readWhole \/ wholeFails \/ readOneSector \/ giveUpOn \/ readSectorwise \/ vanish

------------------------------------------------------------------------------

BytesOfRange(range) == range.offsetBytes..(endOfRange(range) - 1)

(* The map is exactly what was invented so far, as a set in offset order:
   however often a sector is met, from whichever offset, no two ranges touch
   (RetryingDevice::recordBad). *)
BadMapIsTheInvented ==
  /\ UNION {BytesOfRange(bad[i]) : i \in DOMAIN bad} = invented
  /\ \A i, j \in DOMAIN bad : i < j => endOfRange(bad[i]) < bad[j].offsetBytes
===============================================================================
