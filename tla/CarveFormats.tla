----------------------------- MODULE CarveFormats -----------------------------
(***************************************************************************)
(* The six format carvers: what each one's walk does with one marker,      *)
(* chunk, box or table, and the verdict it comes to (carve/formats).       *)
(*                                                                         *)
(* A window w is the sequence of cells a carver may read; positions count  *)
(* from zero.  A cell is a keyword of a format (a number from 40 on) or a  *)
(* number below Base, and the fields that hold one number take one cell,   *)
(* a TIFF LONG two.  A verdict is [length, confidence, extension].         *)
(***************************************************************************)
EXTENDS Integers, Sequences, FiniteSets, SequencesExt

CONSTANTS Base, kMaxIfds, kMaxStrips, kTrailerLookback, kNameSample

ASSUME FormatAssumption == {Base, kMaxIfds, kMaxStrips, kTrailerLookback, kNameSample} \subseteq Nat \ {0}

Has(w, pos, n) == pos >= 0 /\ n >= 0 /\ pos + n <= Len(w)
At(w, pos) == w[pos + 1]
Cells(w, pos, n) == SubSeq(w, pos + 1, pos + n)
Offsets(w) == 0..(Len(w) - 1)
Verdict(length, confidence, extension) ==
  [length |-> length, confidence |-> confidence, extension |-> extension]
Rejected(extension) == Verdict(0, "rejected", extension)

(***************************************************************************)
(* JPEG (JpegMarkerWalk.cpp, JpegEntropyScan.cpp, JpegCarver.cpp).         *)
(***************************************************************************)

kMarkerPrefix == 40
SOI == 41
kMarkerEoi == 42
kMarkerSos == 43
kMarkerRst == 44
kMarkerTem == 45
APP == 46
kSoiSignature == <<kMarkerPrefix, SOI, kMarkerPrefix>>
kMinSegmentLength == 1   \* the length counts its own cell

isStandalone(code) == code \in {kMarkerTem, kMarkerRst}

(* The last prefix of a run of them. *)
skipFillBytes(w, pos) ==
  CHOOSE p \in pos..Len(w) : /\ \A q \in pos..(p - 1) : At(w, q + 1) = kMarkerPrefix
                             /\ ~Has(w, p + 1, 1) \/ At(w, p + 1) # kMarkerPrefix

(* Mutant of scanEntropyData: a restart marker ends the data. *)
scanEntropyData_restart(w, pos) ==
  LET ends == {p \in Offsets(w) : p >= pos /\ At(w, p) = kMarkerPrefix
                                  /\ (Has(w, p + 1, 1) => At(w, p + 1) # 0)}
      first == IF ends = {} THEN Len(w) ELSE Min(ends)
  IN [pos |-> first, foundTerminator |-> Has(w, first + 1, 1)]

(* Where the data after a scan header ends: at a prefix that is neither stuffed nor of a
   restart marker.  Nothing is found when the window ends first. *)
scanEntropyData(w, pos) ==
  LET ends == {p \in Offsets(w) : p >= pos /\ At(w, p) = kMarkerPrefix
                                  /\ (Has(w, p + 1, 1) => At(w, p + 1) \notin {0, kMarkerRst})}
      first == IF ends = {} THEN Len(w) ELSE Min(ends)
  IN [pos |-> first, foundTerminator |-> Has(w, first + 1, 1)]

JpegStart == [pos |-> 2, sawSos |-> FALSE, step |-> "continue"]
brokenAt(walk) == [walk EXCEPT !.step = "broken"]

(* Mutant of validatedSegmentEnd: the declared end is not measured against the window. *)
validatedSegmentEnd_declared(w, pos) ==
  IF ~Has(w, pos, 1) THEN -1 ELSE IF At(w, pos) < kMinSegmentLength THEN -1 ELSE pos + At(w, pos)

(* Where the segment whose length stands at pos ends, or -1. *)
validatedSegmentEnd(w, pos) ==
  IF ~Has(w, pos, 1) THEN -1
  ELSE IF At(w, pos) < kMinSegmentLength \/ ~Has(w, pos, At(w, pos)) THEN -1 ELSE pos + At(w, pos)

applySegmentMarker(w, walk, code) ==
  LET after == validatedSegmentEnd(w, walk.pos)
      entropy == scanEntropyData(w, after)
      passed == [walk EXCEPT !.pos = entropy.pos, !.sawSos = TRUE]
  IN IF after = -1 THEN brokenAt(walk)
     ELSE IF code # kMarkerSos THEN [walk EXCEPT !.pos = after]
     ELSE IF entropy.foundTerminator THEN passed ELSE brokenAt(passed)

applyMarker(w, walk, code) ==
  IF code = kMarkerEoi THEN [walk EXCEPT !.step = "eoi"]
  ELSE IF isStandalone(code) THEN walk
  ELSE applySegmentMarker(w, walk, code)

(* Where the marker's code stands, behind its prefix and the fill, or -1. *)
readMarkerCode(w, pos) ==
  IF ~Has(w, pos, 1) THEN -1
  ELSE IF At(w, pos) # kMarkerPrefix \/ ~Has(w, skipFillBytes(w, pos) + 1, 1) THEN -1
  ELSE skipFillBytes(w, pos) + 1

advanceOneMarker(w, walk) ==
  LET code == readMarkerCode(w, walk.pos)
  IN IF code = -1 THEN brokenAt(walk)
     ELSE applyMarker(w, [walk EXCEPT !.pos = code + 1], At(w, code))

JpegVerdict(walk) ==
  IF ~walk.sawSos THEN Rejected("jpg")
  ELSE Verdict(walk.pos, IF walk.step = "eoi" THEN "valid" ELSE "uncertain", "jpg")

(***************************************************************************)
(* PNG (PngChunkWalk.cpp, PngCarver.cpp).  A chunk is its length, its      *)
(* type, its data and the CRC of the last two.                             *)
(***************************************************************************)

PngMagic == 50
kIhdr == 51
IDAT == 52
kIend == 53
crc32(cells) ==
  LET sum[n \in 0..Len(cells)] == IF n = 0 THEN 0 ELSE sum[n - 1] + cells[n]
  IN 54 + (sum[Len(cells)] % 5)
kMaxChunkData == Base - 1

PngStart == [pos |-> 1, end |-> 1, sawIhdr |-> FALSE, step |-> "continue"]

readChunk(w, pos) ==
  LET length == At(w, pos)
      covered == Cells(w, pos + 1, 1 + length)
      next == pos + 3 + length
  IN IF Has(w, pos, 1) /\ length <= kMaxChunkData /\ Has(w, pos, 3 + length)
     THEN [ok |-> At(w, next - 1) = crc32(covered), type |-> covered[1], next |-> next]
     ELSE [ok |-> FALSE]

stepChunk(w, walk) ==
  LET chunk == readChunk(w, walk.pos)
  IN IF ~chunk.ok THEN [walk EXCEPT !.step = "stop"]
     ELSE IF ~walk.sawIhdr /\ chunk.type # kIhdr THEN [walk EXCEPT !.step = "notPng"]
     ELSE [pos |-> chunk.next, end |-> chunk.next, sawIhdr |-> TRUE,
           step |-> IF chunk.type = kIend THEN "iend" ELSE "continue"]

PngVerdict(walk) ==
  IF ~walk.sawIhdr THEN Rejected("png")
  ELSE Verdict(walk.end, IF walk.step = "iend" THEN "valid" ELSE "uncertain", "png")

(***************************************************************************)
(* MP4 and MOV (Mp4BoxWalk.cpp, Mp4Carver.cpp).  A box is its size and its *)
(* type, and the large size when the size is 1.                            *)
(***************************************************************************)

kFtyp == 70
kMoov == 71
kMdat == 72
FREE == 73
kQuickTimeBrand == 79
typeIsPrintable(type) == type \in kFtyp..kQuickTimeBrand
kLargeSizeMarker == 1
kShortHeader == 2
kLongHeader == 3

Mp4Start == [pos |-> 0, end |-> 0, sawFtyp |-> FALSE, sawMoov |-> FALSE, sawMdat |-> FALSE,
             step |-> "continue"]

(* Mutant of readBoxSize: a size of zero is taken for a size. *)
readBoxSize_any(w, pos) ==
  IF ~Has(w, pos, 2) THEN -1
  ELSE IF At(w, pos) # kLargeSizeMarker THEN At(w, pos)
  ELSE IF Has(w, pos + 2, 1) /\ At(w, pos + 2) >= kLongHeader THEN At(w, pos + 2) ELSE -1

readBoxSize(w, pos) ==
  LET declared == At(w, pos)
      large == At(w, pos + 2)
  IN IF ~Has(w, pos, 1) THEN -1
     ELSE IF declared = kLargeSizeMarker
          THEN IF Has(w, pos + 2, 1) THEN (IF large >= kLongHeader THEN large ELSE -1) ELSE -1
     ELSE IF declared >= kShortHeader THEN declared ELSE -1

readBox(w, pos) ==
  LET size == readBoxSize(w, pos)
  IN IF size = -1 \/ ~Has(w, pos, size) THEN [ok |-> FALSE]
     ELSE [ok |-> typeIsPrintable(At(w, pos + 1)), type |-> At(w, pos + 1), next |-> pos + size]

stepBox(w, walk) ==
  LET box == readBox(w, walk.pos)
  IN IF ~box.ok THEN [walk EXCEPT !.step = "stop"]
     ELSE IF ~walk.sawFtyp /\ box.type # kFtyp THEN [walk EXCEPT !.step = "notMp4"]
     ELSE [walk EXCEPT !.pos = box.next, !.end = box.next, !.sawFtyp = TRUE,
                       !.sawMoov = @ \/ box.type = kMoov, !.sawMdat = @ \/ box.type = kMdat]

Mp4Extension(w) == IF Has(w, 2, 1) /\ At(w, 2) = kQuickTimeBrand THEN "mov" ELSE "mp4"

Mp4Verdict(w, walk) ==
  IF ~walk.sawFtyp THEN Rejected(Mp4Extension(w))
  ELSE Verdict(walk.end, IF walk.sawMoov /\ walk.sawMdat THEN "valid" ELSE "uncertain",
               Mp4Extension(w))

(***************************************************************************)
(* TIFF and the RAW formats on it (TiffEntry.cpp, TiffIfdWalk.cpp,         *)
(* RawCarver.cpp).  A table is its count, entries of five cells (tag,      *)
(* type, count, value in two) and the next table's offset.                 *)
(***************************************************************************)

kLittleEndianMagic == 60
kBigEndianMagic == 61
kCanonMarker == 62
NIKON == 63
SONY == 64
kMakeTag == 1
kStripOffsetsTag == 2
kStripByteCountsTag == 3
kTileOffsetsTag == 4
kTileByteCountsTag == 5
ASCII == 2
kShortType == 3
kLongType == 4
kTypeCells == [type \in {ASCII, kShortType, kLongType} |-> IF type = kLongType THEN 2 ELSE 1]
kInlineCells == 2
kEntryCells == 5

bigEndian(w) == At(w, 0) = kBigEndianMagic

(* A LONG, in the file's order. *)
readU32(w, pos) ==
  IF bigEndian(w) THEN At(w, pos) * Base + At(w, pos + 1) ELSE At(w, pos + 1) * Base + At(w, pos)

readEntry(w, pos) ==
  [tag |-> At(w, pos), type |-> At(w, pos + 1), count |-> At(w, pos + 2),
   valueOffset |-> readU32(w, pos + 3)]
NoEntry == [tag |-> 0, type |-> 0, count |-> 0, valueOffset |-> 0]

valueCells(entry) == IF entry.type \in DOMAIN kTypeCells THEN kTypeCells[entry.type] * entry.count ELSE 0
valueEnd(entry) ==
  IF valueCells(entry) <= kInlineCells THEN 0 ELSE entry.valueOffset + valueCells(entry)

readElementAt(type, w, pos) ==
  IF ~Has(w, pos, kTypeCells[type]) THEN -1
  ELSE IF type = kShortType THEN At(w, pos) ELSE readU32(w, pos)

(* An element of a SHORT or LONG array, or -1.  The one inline element is the value
   field, read as a LONG whatever its type. *)
arrayElement(w, entry, index) ==
  IF index >= entry.count \/ entry.type \notin {kShortType, kLongType} THEN -1
  ELSE IF valueCells(entry) <= kInlineCells
       THEN IF entry.count = 1 THEN entry.valueOffset ELSE -1
  ELSE readElementAt(entry.type, w, entry.valueOffset + index * kTypeCells[entry.type])

(* The last of the table's entries with a tag. *)
Tagged(entries, tag) ==
  LET found == {i \in DOMAIN entries : entries[i].tag = tag}
  IN IF found = {} THEN NoEntry ELSE entries[Max(found)]

pieceEnd(w, offsets, counts, index) ==
  LET start == arrayElement(w, offsets, index)
      length == arrayElement(w, counts, index)
  IN IF start = -1 \/ length = -1 THEN 0 ELSE start + length

imageDataEnd(w, offsets, counts) ==
  IF offsets.tag # 0 /\ offsets.count = counts.count /\ offsets.count <= kMaxStrips
  THEN Max({0} \cup {pieceEnd(w, offsets, counts, i) : i \in 0..(offsets.count - 1)})
  ELSE 0

scanIfd(w, pos) ==
  LET count == At(w, pos)
      entries == [i \in 1..count |-> readEntry(w, pos + 1 + (i - 1) * kEntryCells)]
      tableEnd == pos + 1 + count * kEntryCells + 2
  IN IF ~Has(w, pos, 1) THEN [ok |-> FALSE]
     ELSE IF ~Has(w, pos + 1, count * kEntryCells) THEN [ok |-> FALSE]
     ELSE [ok |-> TRUE, entries |-> entries, tableEnd |-> tableEnd,
           end |-> Max({tableEnd} \cup {valueEnd(entries[i]) : i \in 1..count})]

RawStart(w) == [next |-> IF Has(w, 1, 2) THEN readU32(w, 1) ELSE -1, seen |-> 0, end |-> 0,
                sawIfd |-> FALSE, sawImageData |-> FALSE, make |-> NoEntry]

absorb(w, walk, scan) ==
  LET tagged(tag) == Tagged(scan.entries, tag)
      dataEnd == Max({imageDataEnd(w, tagged(kStripOffsetsTag), tagged(kStripByteCountsTag)),
                      imageDataEnd(w, tagged(kTileOffsetsTag), tagged(kTileByteCountsTag))})
  IN [walk EXCEPT !.sawIfd = TRUE, !.sawImageData = @ \/ dataEnd > 0,
                  !.end = Max({@, scan.end, dataEnd}),
                  !.make = IF @.tag = 0 THEN tagged(kMakeTag) ELSE @]

nextIfdOffset(w, scan) == IF Has(w, scan.tableEnd - 2, 2) THEN readU32(w, scan.tableEnd - 2) ELSE 0

stepIfd(w, walk) ==
  LET scan == scanIfd(w, walk.next)
      counted == [walk EXCEPT !.seen = @ + 1]
  IN IF ~scan.ok THEN [counted EXCEPT !.next = -1]
     ELSE [absorb(w, counted, scan) EXCEPT !.next = nextIfdOffset(w, scan)]

chainGoesOn(walk) == walk.seen < kMaxIfds /\ walk.next \notin {-1, 0}

makeText(w, make) ==
  IF make.tag # 0 /\ make.count > 0 /\ Has(w, make.valueOffset, 1) THEN At(w, make.valueOffset) ELSE 0

RawExtension(w, walk) ==
  CASE Has(w, 3, 1) /\ At(w, 3) = kCanonMarker -> "cr2"
    [] makeText(w, walk.make) = NIKON -> "nef"
    [] makeText(w, walk.make) = SONY -> "arw"
    [] OTHER -> "tif"

RawVerdict(w, walk) ==
  IF ~walk.sawIfd THEN Rejected("tif")
  ELSE Verdict(Min({walk.end, Len(w)}),
               IF walk.sawImageData /\ walk.end <= Len(w) /\ walk.next = 0
               THEN "valid" ELSE "uncertain",
               RawExtension(w, walk))

(***************************************************************************)
(* ZIP (ZipEndRecord.cpp, ZipCarver.cpp).  The end record is its mark, the *)
(* directory's size and offset, and the length of a comment behind it.     *)
(***************************************************************************)

kLocalHeader == 80
kDirectoryHeader == 81
kEndSignature == 82
WORD == 83
XL == 84
PPT == 85
kEndRecord == 4

lastOf(w, mark) == Max({p \in Offsets(w) : At(w, p) = mark} \cup {-1})

directoryChecksOut(w, eocd, directory) ==
  /\ directory + At(w, eocd + 1) = eocd
  /\ Has(w, directory, 1) /\ At(w, directory) = kDirectoryHeader

(* The sample is all or nothing. *)
ZipExtension(w, directory) ==
  LET sample == IF Has(w, directory, kNameSample) THEN ToSet(Cells(w, directory, kNameSample)) ELSE {}
  IN CASE WORD \in sample -> "docx" [] XL \in sample -> "xlsx" [] PPT \in sample -> "pptx"
       [] OTHER -> "zip"

(* Mutant of ZipVerdict: the comment is not measured against the window. *)
ZipVerdict_unbounded(w) ==
  LET eocd == lastOf(w, kEndSignature)
      directory == At(w, eocd + 2)
      end == eocd + kEndRecord + At(w, eocd + 3)
  IN IF eocd = -1 \/ ~Has(w, eocd, kEndRecord) THEN Rejected("zip")
     ELSE Verdict(Min({end, Len(w)}),
                  IF directoryChecksOut(w, eocd, directory) THEN "valid" ELSE "uncertain",
                  ZipExtension(w, directory))

ZipVerdict(w) ==
  LET eocd == lastOf(w, kEndSignature)
      directory == At(w, eocd + 2)
      end == eocd + kEndRecord + At(w, eocd + 3)
  IN IF eocd = -1 \/ ~Has(w, eocd, kEndRecord) THEN Rejected("zip")
     ELSE Verdict(Min({end, Len(w)}),
                  IF directoryChecksOut(w, eocd, directory) /\ end <= Len(w)
                  THEN "valid" ELSE "uncertain",
                  ZipExtension(w, directory))

(***************************************************************************)
(* PDF (PdfTrailer.cpp, PdfCarver.cpp).  A number is a run of digits.      *)
(***************************************************************************)

kPdfHeader == 90
kEofMarker == 91
kStartxref == 92
kXrefKeyword == 93
kLineFeed == 94
kCarriageReturn == 95
kResolveSample == 2
isDigits(cell) == cell < Base

lineEndCells(w, after) ==
  IF Has(w, after, 2) /\ Cells(w, after, 2) = <<kCarriageReturn, kLineFeed>> THEN 2
  ELSE IF Has(w, after, 1) /\ At(w, after) \in {kCarriageReturn, kLineFeed} THEN 1 ELSE 0

(* The number behind the last `startxref` that lies close before the marker, or -1. *)
startxrefOffset(w, marker) ==
  LET from == Max({marker - kTrailerLookback, 0})
      keyword == Max({p \in from..(marker - 1) : At(w, p) = kStartxref} \cup {-1})
      digits == {p \in from..(marker - 1) : p > keyword /\ isDigits(At(w, p))}
  IN IF keyword = -1 \/ digits = {} THEN -1 ELSE At(w, Min(digits))

resolvesAt(w, pos) ==
  Has(w, pos, kResolveSample) /\ (At(w, pos) = kXrefKeyword \/ isDigits(At(w, pos)))

PdfVerdict(w) ==
  LET marker == lastOf(w, kEofMarker)
      end == marker + 1 + lineEndCells(w, marker + 1)
  IN IF marker = -1 THEN Rejected("pdf")
     ELSE Verdict(Min({end, Len(w)}),
                  IF resolvesAt(w, startxrefOffset(w, marker)) THEN "valid" ELSE "uncertain", "pdf")
===============================================================================
