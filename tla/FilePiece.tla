------------------------------ MODULE FilePiece ------------------------------
(***************************************************************************)
(* util/file_piece.cc over util/read_compressed.cc and util/file.cc: a     *)
(* window of a file that moves on as lines are read.  A file that can be   *)
(* mapped is mapped from a page on; where it cannot, or is compressed, the *)
(* window is a buffer that read fills.  A file is a sequence of cells: a   *)
(* line ends with the cell Newline.  Compressed files are cells between    *)
(* the cells Packed and Unpacked, once or several times.                   *)
(*                                                                         *)
(* The functions are on records: of a FilePiece the window data with the   *)
(* place position in it, atEnd, mapSize (default_map_size_), mapped        *)
(* (mapped_offset_), fallback, reader (fell_back_) and skip, the variable  *)
(* of ReadLine; of a reader its kind, remain (what it holds) and at, the   *)
(* offset of the descriptor.                                               *)
(***************************************************************************)
EXTENDS Integers, SequencesExt, FiniteSetsExt

CONSTANTS Page,          \* kPageSize
          MinBuffer,     \* min_buffer
          MagicSize,     \* ReadCompressed::kMagicSize
          InputBuffer    \* kInputBuffer

ASSUME FilePieceAssumption ==
  /\ Page \in Nat \ {0} /\ MinBuffer \in Nat
  /\ MagicSize \in 1 .. 2 * Page /\ InputBuffer \in Nat \ {0}

Newline == "\n"
Return == "\r"
Packed == "pack"
Unpacked == "end of pack"

Least(a, b) == IF a < b THEN a ELSE b
Cells(bytes, at, n) == SubSeq(bytes, at + 1, Least(at + n, Len(bytes)))

------------------------------------------------------------------------------
\* ReadCompressed

Reader(kind, remain, at) == [kind |-> kind, remain |-> remain, at |-> at]

\* ReadFactory: what follows is decided by the first cells, some of which the reader
\* before it may hold already.  Behind a compressed part it throws for any other.
ReadFactory(bytes, at, already, requireCompressed) ==
  LET got == IF Len(already) < MagicSize THEN Cells(bytes, at, MagicSize - Len(already)) ELSE << >>
      header == already \o got
  IN  Reader(IF header = << >> THEN "Complete"
             ELSE IF header[1] = Packed THEN "StreamCompressed"
             ELSE IF requireCompressed THEN "Threw" ELSE "UncompressedWithHeader",
             header, at + Len(got))

\* Process, the library's: it goes on until there is no input, no room, or the end.
\* The cells it has used, and whether it has come to the end.
Used(input, room) ==
  LET over == {n \in 1 .. Len(input) : input[n] = Unpacked}
      full == {n \in 0 .. Len(input) :
                 Cardinality({i \in 1 .. n : input[i] # Packed}) = room}
  IN  Min({Len(input)} \cup over \cup full)
Output(used) == SelectSeq(used, LAMBDA c : c \notin {Packed, Unpacked})

\* Read: at most so many cells, and the reader behind them.  A read of the system
\* returns at least one cell and at most "partial", until the file ends.  What a read
\* got whose reader threw is lost with the exception.
RECURSIVE Read(_, _, _, _)
Read(bytes, r, amount, partial) ==
  CASE r.kind \in {"Complete", "Threw"} -> [got |-> << >>, reader |-> r]
    [] r.kind = "Uncompressed" ->
         LET got == Cells(bytes, r.at, Least(amount, partial))
         IN  [got |-> got, reader |-> [r EXCEPT !.at = @ + Len(got)]]
    [] r.kind = "UncompressedWithHeader" ->
         LET got == Cells(r.remain, 0, amount)
             left == SubSeq(r.remain, Len(got) + 1, Len(r.remain))
         IN  [got |-> got, reader |-> Reader(IF left = << >> THEN "Uncompressed" ELSE r.kind, left, r.at)]
    [] r.kind = "StreamCompressed" ->
         LET more == IF r.remain = << >> THEN Cells(bytes, r.at, InputBuffer) ELSE << >>
             input == r.remain \o more
             used == SubSeq(input, 1, Used(input, amount))
             left == SubSeq(input, Len(used) + 1, Len(input))
             next == IF Last(used) = Unpacked THEN ReadFactory(bytes, r.at + Len(more), left, TRUE)
                     ELSE Reader(r.kind, left, r.at + Len(more))
         IN  IF amount = 0 THEN [got |-> << >>, reader |-> r]
             ELSE IF Output(used) # << >> THEN [got |-> Output(used), reader |-> next]
             ELSE Read(bytes, next, amount, partial)

------------------------------------------------------------------------------
\* FilePiece

\* InitializeNoRead
NewPiece(start) ==
  [data |-> << >>, position |-> 0, atEnd |-> FALSE,
   mapSize |-> Page * Max({(MinBuffer \div Page) + 1, 2}),
   mapped |-> start, fallback |-> FALSE, reader |-> Reader("none", << >>, start), skip |-> 0]

\* TransitionToRead, where the descriptor has been put at "at".
TransitionToRead(bytes, p, at) ==
  [p EXCEPT !.fallback = TRUE, !.data = << >>, !.position = 0, !.atEnd = FALSE,
            !.reader = ReadFactory(bytes, at, << >>, FALSE)]

Desired(p) == p.position + p.mapped

\* "Duplicate request for Shift means give more data."
Grown(p) ==
  IF p.position = Desired(p) % Page /\ p.data # << >> THEN [p EXCEPT !.mapSize = 2 * @] ELSE p

\* What MMapShift maps: from the page of what is to be read next.
Map(bytes, p) ==
  LET ignore == Desired(p) % Page
      from == Desired(p) - ignore
  IN  [p EXCEPT !.data = Cells(bytes, from, p.mapSize), !.position = ignore,
                !.mapped = from, !.atEnd = p.mapSize >= Len(bytes) - from]

\* Mutant: what has not been consumed is not moved to the front of the buffer.
ReadShiftUnmoved(bytes, p, partial) ==
  LET kept == IF p.position = Len(p.data) THEN << >> ELSE p.data
      position == IF kept = << >> THEN 0 ELSE p.position
      full == Len(kept) = p.mapSize
      size == IF full /\ position = 0 THEN 2 * p.mapSize ELSE p.mapSize
      data == IF full /\ position # 0 THEN SubSeq(kept, 1, Len(kept) - position) ELSE kept
      read == Read(bytes, p.reader, size - Len(data), partial)
  IN  [p EXCEPT !.data = data \o read.got, !.position = IF full THEN 0 ELSE position,
                !.mapSize = size, !.atEnd = read.got = << >>, !.reader = read.reader]

\* A buffer that is full is moved to its front, or doubled when it is one line.
ReadShift(bytes, p, partial) ==
  LET kept == IF p.position = Len(p.data) THEN << >> ELSE p.data
      position == IF kept = << >> THEN 0 ELSE p.position
      full == Len(kept) = p.mapSize
      size == IF full /\ position = 0 THEN 2 * p.mapSize ELSE p.mapSize
      data == IF full THEN SubSeq(kept, position + 1, Len(kept)) ELSE kept
      read == Read(bytes, p.reader, size - Len(data), partial)
  IN  [p EXCEPT !.data = data \o read.got, !.position = IF full THEN 0 ELSE position,
                !.mapSize = size, !.atEnd = read.got = << >>, !.reader = read.reader]

\* Shift: the map may fail at any time, and what it was to map is then read.
Shift(bytes, p, partial, fails) ==
  IF p.fallback THEN ReadShift(bytes, p, partial)
  ELSE IF fails THEN ReadShift(bytes, TransitionToRead(bytes, Grown(p), Desired(p)), partial)
  ELSE Map(bytes, Grown(p))

\* Initialize: what cannot be mapped is read; so is what turns out to be compressed.
Initialize(bytes, start, pipe, partial, fails) ==
  LET new == NewPiece(start)
      p == Shift(bytes, IF pipe THEN TransitionToRead(bytes, new, start) ELSE new, partial, fails)
  IN  IF ~p.fallback /\ Len(p.data) >= p.position + MagicSize /\ p.data[p.position + 1] = Packed
      THEN TransitionToRead(bytes, p, start) ELSE p

\* ReadLine looks for the end of the line in what it has not searched yet.
SearchBegin(p) == p.position + p.skip
Newlines(p) == {i \in SearchBegin(p) + 1 .. Len(p.data) : p.data[i] = Newline}
LineReady(p) == Newlines(p) # {} \/ p.atEnd

\* What it does where there is none: after skip, the window moves on.
ShiftInLine(bytes, p, partial, fails) ==
  Shift(bytes, [p EXCEPT !.skip = Len(p.data) - p.position], partial, fails)
\* The range that is searched next begins behind the end of the window: a map has
\* failed, and the first read returned less than what had been searched.
Astray(p) == SearchBegin(p) > Len(p.data)
Threw(p) == p.reader.kind = "Threw"

\* The line, once the window has the end of it or of the file.
EndOfFile(p) == p.atEnd /\ p.position = Len(p.data)
ReadLine(p) ==
  LET i == IF Newlines(p) # {} THEN Min(Newlines(p)) ELSE Len(p.data) + 1
      cr == i <= Len(p.data) /\ i > p.position + 1 /\ p.data[i - 1] = Return
  IN  SubSeq(p.data, p.position + 1, IF cr THEN i - 2 ELSE i - 1)
AfterLine(p) ==
  [p EXCEPT !.position = IF Newlines(p) # {} THEN Min(Newlines(p)) ELSE Len(p.data), !.skip = 0]
==============================================================================
