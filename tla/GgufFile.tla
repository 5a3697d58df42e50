------------------------------ MODULE GgufFile ------------------------------
(***************************************************************************)
(* gguf_open and gguf_close (src/gguf.c): a file is mapped and read field  *)
(* by field; strings and arrays are copied to the heap; whatever goes      *)
(* wrong, gguf_close releases what has been taken so far.                  *)
(*                                                                         *)
(* A file is a record of what it declares (metadata entries and tensor     *)
(* descriptors) and of its size, which may be too small for that.  The     *)
(* fields a reader has set are triples <<kind, entry, item>>; the same     *)
(* triple names the memory the field points to.                            *)
(***************************************************************************)
EXTENDS GgmlTypes, Integers, Sequences, FiniteSets

SX == INSTANCE SequencesExt

CONSTANTS
    Inputs,         \* set of records: file, options, machine
    NameLength,     \* of every key and every tensor name
    Word            \* 2^64, scaled down: the modulus of offsets and sizes

ASSUME InputAssumption ==
    /\ NameLength \in Nat /\ Word \in Nat \ {0}
    /\ \A input \in Inputs : 2 * input.file.size < Word

Sequence(s) == s \in Seq(SX!ToSet(s))

(* What the reader can meet: the fields of a value are those of its type.  *)
ProperValue(v) ==
    /\ v.type \in {"uint", "bool"} => v.number \in Nat
    /\ v.type = "int" => v.number \in Int
    /\ v.type \notin {"string", "array", "unknown"} => v.bytes \in Nat
    /\ v.type = "string" => v.length \in Nat
    /\ v.type = "array" /\ v.elem = "string" =>
          /\ v.items \in Seq(Nat)
          /\ v.items # <<>> => v.endoftext \subseteq DOMAIN v.items
    /\ v.type = "array" /\ v.elem # "string" => v.bytes \in Nat /\ v.count \in Nat

ProperFile(f) ==
    /\ f.size \in Nat /\ f.magic \in BOOLEAN /\ f.counts \in BOOLEAN
    /\ Sequence(f.metadata) /\ Sequence(f.tensors)
    /\ \A i \in DOMAIN f.metadata : ProperValue(f.metadata[i].value)
    /\ \A i \in DOMAIN f.tensors :
          f.tensors[i].dims \in Seq(Nat) /\ f.tensors[i].offset \in 0 .. Word - 1

ASSUME FileAssumption == \A input \in Inputs : ProperFile(input.file)

VARIABLES
    file,       \* the file of this run of the program
    stage,      \* what the program is doing
    cause,      \* why it did not do what was asked
    ending,     \* what main still has to release before it returns
    heap,       \* what has been taken from the system and not given back
    misfreed,   \* what was given back without being held
    todo,       \* the pieces of the file that are still to be read
    cursor,     \* Reader.cursor
    fields,     \* the fields of GGUFFile that are set
    data_offset

processVars == <<file, stage, cause, ending, heap, misfreed>>
fileVars == <<todo, cursor, fields, data_offset>>

----------------------------------------------------------------------------
(* What the parsed file answers.                                           *)

(* gguf_find_metadata, gguf_find_tensor: the first entry of that name.     *)
Found(list, name) == \E i \in DOMAIN list : list[i].name = name
Entry(list, name) ==
    list[CHOOSE i \in DOMAIN list :
            list[i].name = name /\ \A j \in 1 .. i - 1 : list[j].name # name]

Value(f, key) == Entry(f.metadata, key).value

(* gguf_get_u64: an unsigned, boolean or non-negative signed number.       *)
HasNumber(f, key) ==
    /\ Found(f.metadata, key)
    /\ LET value == Value(f, key)
       IN \/ value.type \in {"uint", "bool"}
          \/ value.type = "int" /\ value.number >= 0
Number(f, key) == Value(f, key).number

(* gguf_get_array.                                                         *)
HasArray(f, key, elem) ==
    /\ Found(f.metadata, key)
    /\ Value(f, key).type = "array" /\ Value(f, key).elem = elem

Alignment(f) ==
    IF HasNumber(f, "alignment") /\ Number(f, "alignment") > 0
    THEN Number(f, "alignment") ELSE 32

PowerOfTwo(n) == \E k \in 0 .. n : n = 2 ^ k

Elements(t) ==
    LET product[d \in 0 .. Len(t.dims)] ==
            IF d = 0 THEN 1 ELSE product[d - 1] * t.dims[d]
    IN product[Len(t.dims)]

(* What the elements of a tensor take: nothing for an unknown type and for *)
(* a broken block.  quant_nbytes counts that in 64 bits.                   *)
Stored(t) ==
    IF t.type \notin DOMAIN Block \/ Elements(t) % Block[t.type][1] # 0 THEN 0
    ELSE (Elements(t) \div Block[t.type][1]) * Block[t.type][2]

Bytes(t) == Stored(t) % Word

AbsoluteOffset(t, from) == (from + t.offset) % Word

(* The test of validate_tensor_ranges and of gguf_tensor_data.             *)
InRangeByOffset(t, from) == AbsoluteOffset(t, from) <= file.size    \* seeded fault
InRange(t, from) ==
    /\ AbsoluteOffset(t, from) <= file.size
    /\ Bytes(t) <= file.size - AbsoluteOffset(t, from)

----------------------------------------------------------------------------
(* The pieces a file is read in.  A piece is refused when the file ends    *)
(* before it or when it is not valid.                                      *)

Piece(kind, i, j, bytes, valid) ==
    [field |-> <<kind, i, j>>, bytes |-> bytes, valid |-> valid]

Header(f) ==
    <<Piece("magic", 0, 0, 4, f.magic),
      Piece("version", 0, 0, 4, f.version \in 2 .. 3),
      Piece("counts", 0, 0, 16, f.counts)>>

(* parse_value and parse_array.                                            *)
ValuePieces(i, v) ==
    CASE v.type = "string" -> <<Piece("text", i, 0, 8 + v.length, TRUE)>>
      [] v.type = "array" /\ v.elem = "string" ->
            <<Piece("elem", i, 0, 12, TRUE), Piece("data", i, 0, 0, TRUE)>>
            \o [j \in DOMAIN v.items |-> Piece("item", i, j, 8 + v.items[j], TRUE)]
      [] v.type = "array" /\ v.elem # "string" ->
            <<Piece("elem", i, 0, 12, v.elem # "unknown"),
              Piece("data", i, 0, v.count * v.bytes, TRUE)>>
      [] v.type = "unknown" -> <<>>
      [] OTHER -> <<Piece("scalar", i, 0, v.bytes, TRUE)>>

EntryPieces(f, i) ==
    LET v == f.metadata[i].value
    IN <<Piece("key", i, 0, 8 + NameLength, TRUE),
         Piece("type", i, 0, 4, v.type # "unknown")>> \o ValuePieces(i, v)

(* Dimensions must be one to four, none zero and their product below 2^64. *)
TensorPieces(f, i) ==
    LET t == f.tensors[i]
    IN <<Piece("name", i, 0, 8 + NameLength, TRUE),
         Piece("descriptor", i, 0, 16 + 8 * Len(t.dims),
               /\ Len(t.dims) \in 1 .. 4
               /\ \A d \in DOMAIN t.dims : t.dims[d] > 0
               /\ Elements(t) < Word)>>

Layout(f) ==
    Header(f)
    \o <<Piece("metadata", 0, 0, 0, TRUE)>>
    \o SX!FlattenSeq([i \in DOMAIN f.metadata |-> EntryPieces(f, i)])
    \o <<Piece("alignment", 0, 0, 0, PowerOfTwo(Alignment(f))),
         Piece("tensors", 0, 0, 0, TRUE)>>
    \o SX!FlattenSeq([i \in DOMAIN f.tensors |-> TensorPieces(f, i)])

NextPiece == Head(todo)
Fits == NextPiece.bytes <= file.size - cursor

(* chris_xcalloc and chris_xmalloc: parse_array takes the memory of an     *)
(* array before its elements are read, read_string takes its own after the *)
(* length.                                                                 *)
TakenBefore(piece) == IF piece.field[1] \in {"metadata", "tensors", "data"} THEN {piece.field} ELSE {}
TakenAfter(piece)  == IF piece.field[1] \in {"key", "text", "item", "name"} THEN {piece.field} ELSE {}

----------------------------------------------------------------------------
(* gguf_close.                                                             *)

Fd  == <<"fd", 0, 0>>
Map == <<"map", 0, 0>>

TypeRead(i, type, set) == /\ <<"type", i, 0>> \in set
                          /\ file.metadata[i].value.type = type
ItemsRead(i, set) == /\ <<"elem", i, 0>> \in set
                     /\ file.metadata[i].value.elem = "string"
                     /\ <<"data", i, 0>> \in set

(* free_value: what it frees depends on the types that were read.          *)
ValueFreesWithoutItems(i, set) ==                              \* seeded fault
    IF TypeRead(i, "string", set) THEN {<<"text", i, 0>>}
    ELSE IF TypeRead(i, "array", set) THEN {<<"data", i, 0>>} ELSE {}
ValueFrees(i, set) ==
    IF TypeRead(i, "string", set) THEN {<<"text", i, 0>>}
    ELSE IF TypeRead(i, "array", set)
    THEN {<<"data", i, 0>>}
         \cup (IF ItemsRead(i, set)
               THEN {<<"item", i, j>> : j \in DOMAIN file.metadata[i].value.items}
               ELSE {})
    ELSE {}

CloseFrees(set) ==
    (IF <<"metadata", 0, 0>> \in set
     THEN (UNION {{<<"key", i, 0>>} \cup ValueFrees(i, set) : i \in DOMAIN file.metadata})
          \cup {<<"metadata", 0, 0>>}
     ELSE {})
    \cup (IF <<"tensors", 0, 0>> \in set
          THEN {<<"name", i, 0>> : i \in DOMAIN file.tensors} \cup {<<"tensors", 0, 0>>}
          ELSE {})
    \cup {Fd, Map}

Give(gone, live) ==
    /\ heap' = live \ gone
    /\ misfreed' = misfreed \cup (gone \ live)

(* free(NULL) does nothing: only fields that are set are freed.            *)
Close(set, live) ==
    /\ Give(CloseFrees(set) \cap set, live)
    /\ fields' = {}

(* Every failure of gguf_open: close, return -1; main returns 1.           *)
OpenFails(set, live, why) ==
    /\ Close(set, live)
    /\ stage' = "exited" /\ cause' = why
    /\ UNCHANGED <<file, ending, todo, cursor, data_offset>>

----------------------------------------------------------------------------
FileInit ==
    /\ todo = <<>> /\ cursor = 0 /\ fields = {} /\ data_offset = 0

(* The system may refuse to open, to describe or to map the file.          *)
OpenRefused ==
    /\ stage = "open"
    /\ stage' = "exited" /\ cause' = "system"
    /\ UNCHANGED <<file, ending, heap, misfreed, fileVars>>

Open ==
    /\ stage = "open"
    /\ stage' = "map"
    /\ heap' = heap \cup {Fd} /\ fields' = {Fd}
    /\ UNCHANGED <<file, cause, ending, misfreed, todo, cursor, data_offset>>

MapRefused ==
    /\ stage = "map"
    /\ OpenFails(fields, heap, "system")

MapFile ==
    /\ stage = "map" /\ file.size > 0
    /\ stage' = "read"
    /\ heap' = heap \cup {Map} /\ fields' = fields \cup {Map}
    /\ todo' = Layout(file)
    /\ UNCHANGED <<file, cause, ending, misfreed, cursor, data_offset>>

ReadPiece ==
    /\ stage = "read" /\ todo # <<>>
    /\ Fits /\ NextPiece.valid
    /\ cursor' = cursor + NextPiece.bytes
    /\ todo' = Tail(todo)
    /\ fields' = fields \cup {NextPiece.field}
    /\ heap' = heap \cup TakenBefore(NextPiece) \cup TakenAfter(NextPiece)
    /\ UNCHANGED <<file, stage, cause, ending, misfreed, data_offset>>

(* A value is stored before it is looked at; an array's memory is there    *)
(* before its elements are.                                                *)
ReadFails ==
    /\ stage = "read" /\ todo # <<>>
    /\ ~(Fits /\ NextPiece.valid)
    /\ OpenFails(fields \cup (IF Fits THEN {NextPiece.field} ELSE TakenBefore(NextPiece)),
                 heap \cup TakenBefore(NextPiece), "file")

(* (end + alignment - 1) & ~(alignment - 1), for a power of two.  Of 64    *)
(* bits it is at most 2^63 and the cursor is less, so the sum never wraps. *)
RoundedDown(n, unit) == n - (n % unit)                           \* seeded fault
Rounded(n, unit) == (n + unit - 1) - ((n + unit - 1) % unit)

RangesFit(from) ==
    /\ from <= file.size
    /\ \A i \in DOMAIN file.tensors :
          Bytes(file.tensors[i]) = 0 \/ InRange(file.tensors[i], from)

Opened ==
    /\ stage = "read" /\ todo = <<>>
    /\ RangesFit(Rounded(cursor, Alignment(file)))
    /\ data_offset' = Rounded(cursor, Alignment(file))
    /\ stage' = "inspect"
    /\ UNCHANGED <<file, cause, ending, heap, misfreed, todo, cursor, fields>>

RangesOutside ==
    /\ stage = "read" /\ todo = <<>>
    /\ ~RangesFit(Rounded(cursor, Alignment(file)))
    /\ OpenFails(fields, heap, "file")

FileNext ==
    \/ OpenRefused \/ Open \/ MapRefused \/ MapFile
    \/ ReadPiece \/ ReadFails \/ Opened \/ RangesOutside

----------------------------------------------------------------------------
(* What it means for a file to be complete, without reading it: the sizes  *)
(* of everything it declares add up to no more than its size, the data     *)
(* begins at the first multiple of the alignment after that, and every     *)
(* tensor of a known type lies in the file.                                *)
Declared ==
    LET pieces == Layout(file)
        sum[n \in 0 .. Len(pieces)] == IF n = 0 THEN 0 ELSE sum[n - 1] + pieces[n].bytes
    IN sum[Len(pieces)]

FirstMultiple(from) ==
    CHOOSE n \in from .. from + Alignment(file) :
        /\ n % Alignment(file) = 0
        /\ \A m \in from .. n - 1 : m % Alignment(file) # 0

(* Without any modulus: the last byte of the tensor is one of the file.    *)
InFile(t, start) == start + t.offset + Stored(t) <= file.size

(* A sum of 64 bits is not the sum.                                        *)
Wraps(t, start) == start + t.offset >= Word \/ Stored(t) >= Word

(* Complete but for the tensors' data.                                     *)
PiecesWellFormed ==
    /\ \A piece \in SX!ToSet(Layout(file)) : piece.valid
    /\ Declared <= file.size /\ FirstMultiple(Declared) <= file.size

WellFormed ==
    /\ PiecesWellFormed
    /\ LET start == FirstMultiple(Declared)
       IN \A i \in DOMAIN file.tensors :
              Stored(file.tensors[i]) > 0 => InFile(file.tensors[i], start)

IsOpen == fields # {} /\ stage \notin {"map", "read"}

(* gguf_open opens every well-formed file, unless the system refuses, and  *)
(* no other one but for its sums: a tensor that is not in the file can be  *)
(* taken for one that is only if its offset or its size wraps (gguf.c:510, *)
(* quant.c:113).  No file is given up half read or taken half checked.     *)
OpensWellFormed ==
    /\ IsOpen =>
          /\ PiecesWellFormed
          /\ LET start == FirstMultiple(Declared)
             IN \A i \in DOMAIN file.tensors :
                    LET t == file.tensors[i]
                    IN Stored(t) > 0 => InFile(t, start) \/ Wraps(t, start)
    /\ cause = "file" => ~WellFormed

(* An offset is relative to the tensor data section (gguf.h:50): what      *)
(* gguf_tensor_data points to is in that section, and so are all the bytes *)
(* that the elements take.                                                 *)
TensorsInDataSection ==
    IsOpen =>
        \A i \in DOMAIN file.tensors :
            LET t == file.tensors[i]
            IN Bytes(t) > 0 => AbsoluteOffset(t, data_offset)
                                   \in data_offset .. file.size - Stored(t)
=============================================================================
