------------------------------ MODULE MCCarveWalk -----------------------------
(***************************************************************************)
(* Small files of every format, each with the parts a walk can trip over:  *)
(* a thumbnail inside a segment, fill, stuffed and restart markers; a      *)
(* large box; tables out of order and values behind the image; an archive  *)
(* in an archive and a comment; two revisions.                             *)
(***************************************************************************)
EXTENDS CarveWalk

X == 99   \* content

File(kind, extension, ends, cells) ==
  [format |-> kind, extension |-> extension, ends |-> ends, cells |-> cells]

Jpeg == File("jpeg", "jpg", {},
  <<40, 41, 40, 46, 6, 40, 41, 40, 43, 42,      \* a segment with a whole thumbnail in it
    40, 40, 45, 40, 43, 2, X, X, 40, 0, 40, 44, X, 40, 40, 42>>)
Chunk(type, data) == <<Len(data), type>> \o data \o <<crc32(<<type>> \o data)>>
Png == File("png", "png", {},
  <<50>> \o Chunk(51, <<7>>) \o Chunk(52, <<53, 0, 53>>) \o Chunk(52, <<X>>) \o Chunk(53, <<>>))
TinyPng == File("png", "png", {}, <<50>> \o Chunk(51, <<>>) \o Chunk(53, <<>>))
Mp4 == File("mp4", "mp4", {12}, <<3, 70, X, 4, 71, 70, X, 1, 72, 5, X, X, 2, 73>>)
Mov == File("mp4", "mov", {}, <<3, 70, 79, 5, 72, 0, 1, X, 2, 73, 3, 71, 40>>)
(* The first table stands behind the second, and the maker's name behind the image. *)
TiffLittle == File("raw", "nef", {},
  <<60, 15, 0>> \o <<1, 2, 4, 1, 13, 0, 0, 0>> \o <<X, X, X, X>>
    \o <<3, 2, 4, 1, 11, 0, 3, 4, 1, 4, 0, 1, 2, 3, 33, 0, 3, 0>> \o <<63, X, X>>)
TiffBig == File("raw", "cr2", {},
  <<61, 0, 4, 62>> \o <<2, 4, 4, 3, 0, 17, 5, 3, 3, 0, 23, 0, 0>> \o <<0, 26, 0, 28, 0, 30>>
    \o <<2, 2, 2>> \o <<X, X, X, X, X, X>>)
Docx == File("zip", "docx", {},
  <<80, X, 80, X, 81, X, 82, 2, 2, 0, X, 81, 83, 82, 2, 11, 2, X, X>>)
Pdf == File("pdf", "pdf", {8, 9, 16, 17},
  <<90, X, 93, X, X, 92, 2, 91, 94, X, 7, X, 92, 10, 94, 91, 95, 94>>)

MCFiles == {Jpeg, Png, TinyPng, Mp4, Mov, TiffLittle, TiffBig, Docx, Pdf}
MCFloors == [png |-> 8, jpg |-> 5, docx |-> 6]
MCAllowlists == {{}, {"png", "mov"}}
===============================================================================
