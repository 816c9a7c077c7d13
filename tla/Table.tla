------------------------------- MODULE Table --------------------------------
(***************************************************************************)
(* The serializers of the C library (c/pxprpc/serializer.c) and the tables *)
(* of the C++ wrapper (TableSerializer of c/include/pxprpc_ext.hpp): a     *)
(* callable fills a table cell by cell or row by row and builds it; the    *)
(* other end loads what it receives.                                       *)
(*                                                                         *)
(* A buffer is a sequence of bytes and a byte a number below Base.  The    *)
(* columns of fixed width (i, l, f and d) differ only in it, and those of  *)
(* bytes and strings (b and s) not at all: i and s stand for them.         *)
(***************************************************************************)
EXTENDS Integers, Sequences, SequencesExt

CONSTANTS
  Base,       \* the values of a byte: 256
  IntSize,    \* the bytes of an integer: 4
  ColumnInfo, \* the columns callers ask for: sequences of types, with names?
  Ints, Strings, \* the numbers and strings they add
  MaxRow      \* bound: the rows of a table

Marker == Base - 1 \* 0xff

ASSUME TableAssumption ==
  /\ Base \in Nat \ {0, 1} /\ IntSize \in Nat \ {0} /\ MaxRow \in Nat
  /\ ColumnInfo \subseteq [types : Seq({"i", "s", "c"}), named : BOOLEAN]
  /\ Ints \subseteq 0 .. Base ^ IntSize - 1
  /\ Strings \subseteq Seq(0 .. Base - 1)

VARIABLES
  info,          \* columnsType, and whether columnsName is empty
  cols,          \* the cells of each column
  rowCnt,
  posX,          \* currentAddValuePosX
  buf,           \* what buildSer wrote
  got,           \* what load read: the columns, and where its cursor stopped
  meant,         \* history: the values added, from left to right
  mixed, literal \* history: addRow was called inside a row; addValue was
                 \* called with a string literal

vars == <<info, cols, rowCnt, posX, buf, got, meant, mixed, literal>>

-----------------------------------------------------------------------------
(* serializer.c: what each put appends, and what each get reads at an      *)
(* offset.  Memory past the buffer reads as 0; the offset tells.           *)

PutInt(v) == [k \in 1 .. IntSize |-> (v \div Base ^ (k - 1)) % Base]

PutVarint_short(v) == \* mutant: the long form is cut to one byte less
  IF v <= Marker THEN <<v>> ELSE <<Marker>> \o Tail(PutInt(v))

PutVarint(v) == IF v <= Marker THEN <<v>> ELSE <<Marker>> \o PutInt(v)

PutBytes(s) == PutVarint(Len(s)) \o s

Read(b, pos) == IF pos < Len(b) THEN b[pos + 1] ELSE 0

GetInt(b, pos) ==
  [val |-> FoldLeft(LAMBDA acc, k : acc + Read(b, pos + k - 1) * Base ^ (k - 1),
                    0, [k \in 1 .. IntSize |-> k]),
   pos |-> pos + IntSize]

GetVarint(b, pos) ==
  IF Read(b, pos) = Marker THEN GetInt(b, pos + 1)
  ELSE [val |-> Read(b, pos), pos |-> pos + 1]

GetBytes(b, pos) ==
  LET size == GetVarint(b, pos) IN
  [val |-> [k \in 1 .. size.val |-> Read(b, size.pos + k - 1)],
   pos |-> size.pos + size.val]

(* The letter of a column's type, as a byte of columnsType. *)
Letter == [i |-> 0, s |-> 1, c |-> Base - 2]
TypeOf(byte) == {t \in {"i", "s", "c"} : Letter[t] = byte}

-----------------------------------------------------------------------------
(* TableSerializer. *)

(* TableCellValue: a number (the union) and a string. *)
Cell(num, str) == [num |-> num, str |-> str]

(* What callers add.  A string literal converts to bool, a standard        *)
(* conversion, before it converts to std::string: of the overloads of      *)
(* addValue it takes addValue(bool).                                       *)
Values(type) ==
  CASE type = "i" -> [kind : {"int"}, cell : {Cell(v, <<>>) : v \in Ints}]
    [] type = "s" -> [kind : {"string", "literal"}, cell : {Cell(0, v) : v \in Strings}]
    [] type = "c" -> [kind : {"bool"}, cell : {Cell(v, <<>>) : v \in 0 .. 1}]

addValueCell(value) ==
  IF value.kind = "literal" THEN Cell(1, <<>>) ELSE value.cell

PutCell(type, cell) ==
  CASE type = "i" -> PutInt(cell.num)
    [] type = "s" -> PutBytes(cell.str)
    [] type = "c" -> PutVarint(IF cell.num # 0 THEN 1 ELSE 0)

GetCell(type, b, pos) ==
  LET num == IF type = "i" THEN GetInt(b, pos) ELSE GetVarint(b, pos)
      str == GetBytes(b, pos)
  IN CASE type = "i" -> [cell |-> Cell(num.val, <<>>), pos |-> num.pos]
       [] type = "s" -> [cell |-> Cell(0, str.val), pos |-> str.pos]
       [] type = "c" -> [cell |-> Cell(IF num.val # 0 THEN 1 ELSE 0, <<>>),
                         pos |-> num.pos]

N == Len(info.types)
Name(k) == <<0>>

(* flag, rowCnt, columnsType, the names unless there are none, then the    *)
(* cells that every column has, column by column.                          *)
buildSer ==
  PutVarint(IF info.named THEN 0 ELSE 1) \o PutVarint(rowCnt)
    \o PutBytes([k \in 1 .. N |-> Letter[info.types[k]]])
    \o (IF info.named THEN FlattenSeq([k \in 1 .. N |-> PutBytes(Name(k))]) ELSE <<>>)
    \o FlattenSeq([k \in 1 .. N |->
         FlattenSeq([r \in DOMAIN cols[k] |-> PutCell(info.types[k], cols[k][r])])])

(* One column of n cells; a letter that is no type takes nothing and adds  *)
(* no column.                                                              *)
GetColumn(table, byte, n, b) ==
  IF TypeOf(byte) = {} THEN table
  ELSE LET type == CHOOSE t \in TypeOf(byte) : TRUE
           col == FoldLeft(LAMBDA acc, k :
                             LET cell == GetCell(type, b, acc.pos) IN
                             [cells |-> Append(acc.cells, cell.cell), pos |-> cell.pos],
                           [cells |-> <<>>, pos |-> table.pos],
                           [k \in 1 .. n |-> k])
       IN [cols |-> Append(table.cols, col.cells), pos |-> col.pos]

load(b) ==
  LET flag == GetVarint(b, 0)
      rows == GetVarint(b, flag.pos)
      types == GetBytes(b, rows.pos)
      start == IF flag.val % 2 = 1 THEN types.pos
               ELSE FoldLeft(LAMBDA pos, t : GetBytes(b, pos).pos,
                             types.pos, types.val)
  IN FoldLeft(LAMBDA table, byte : GetColumn(table, byte, rows.val, b),
              [cols |-> <<>>, pos |-> start], types.val)

-----------------------------------------------------------------------------
Nothing == [cols |-> <<>>, pos |-> 0]

(* A table on which setColumnsInfo was called, as every user begins. *)
Init ==
  /\ info \in ColumnInfo
  /\ cols = [k \in 1 .. Len(info.types) |-> <<>>]
  /\ rowCnt = 0 /\ posX = -1
  /\ buf = <<>> /\ got = Nothing
  /\ meant = <<>> /\ mixed = FALSE /\ literal = FALSE

Filling == buf = <<>>

(* moveToNextValuePosX: the first cell of a row counts the row. *)
NextX ==
  LET x == (posX + 1) % N IN
  posX' = x /\ rowCnt' = (IF x = 0 THEN rowCnt + 1 ELSE rowCnt)

addValue ==
  /\ Filling
  /\ NextX /\ rowCnt' <= MaxRow
  /\ \E value \in Values(info.types[posX' + 1]) :
       /\ cols' = [cols EXCEPT ![posX' + 1] = Append(@, addValueCell(value))]
       /\ meant' = Append(meant, value.cell)
       /\ literal' = (literal \/ value.kind = "literal")
  /\ UNCHANGED <<info, buf, got, mixed>>

addRow ==
  /\ Filling /\ rowCnt < MaxRow
  /\ \E row \in [1 .. N -> UNION {Values(t) : t \in {"i", "s", "c"}}] :
       /\ \A k \in 1 .. N : row[k] \in Values(info.types[k])
       /\ cols' = [k \in 1 .. N |-> Append(cols[k], row[k].cell)]
       /\ meant' = meant \o [k \in 1 .. N |-> row[k].cell]
  /\ rowCnt' = rowCnt + 1
  /\ mixed' = (mixed \/ posX \notin {-1, N - 1})
  /\ UNCHANGED <<info, posX, buf, got, literal>>

Build ==
  /\ Filling
  /\ buf' = buildSer
  /\ UNCHANGED <<info, cols, rowCnt, posX, got, meant, mixed, literal>>

Load ==
  /\ buf # <<>> /\ got = Nothing
  /\ got' = load(buf)
  /\ UNCHANGED <<info, cols, rowCnt, posX, buf, meant, mixed, literal>>

Next == addValue \/ addRow \/ Build \/ Load

Spec == Init /\ [][Next]_vars
-----------------------------------------------------------------------------
(* The rows are whole: none is begun and none was pushed into another. *)
Whole == ~mixed /\ posX \in {-1, N - 1}

(* A count that is written as one byte equal to the marker: put_varint     *)
(* writes 255 in one byte, get_varint takes that byte for the long form.   *)
Ambiguous ==
  \/ rowCnt = Marker
  \/ \E k \in 1 .. N : \E r \in DOMAIN cols[k] :
       info.types[k] = "s" /\ Len(cols[k][r].str) = Marker

(* A table of whole rows comes back as the values added, in their places,  *)
(* and load stops at the end of what buildSer wrote, so that whatever      *)
(* follows in a bound serializer is read from its beginning.  The two      *)
(* exceptions are the count that equals the marker and the string literal. *)
RoundTrip ==
  got # Nothing /\ Whole /\ ~Ambiguous /\ ~literal =>
    /\ got.pos = Len(buf)
    /\ Len(got.cols) = N
    /\ \A k \in 1 .. N :
         got.cols[k] = [r \in 1 .. rowCnt |-> meant[(r - 1) * N + k]]
=============================================================================
