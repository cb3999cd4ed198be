---- MODULE SegmentCodec ----
(***************************************************************************)
(* Writing the rows of a group as a segment and reading them back          *)
(* (localtables-format/src/columnar/segment.rs, encode.rs, decode.rs,      *)
(* codec.rs, page.rs, and codec_for of config.rs).                         *)
(*                                                                         *)
(* A segment's bytes are the stored buffers in the order they were         *)
(* appended, each with its offset and length; a buffer's content is a      *)
(* sequence of cells, packed or not.  A checksum stands for the content it *)
(* was taken of.  Rows count from 0 in ranges, as in the code.             *)
(***************************************************************************)
EXTENDS ArrowBatches

CONSTANTS
    BUFFER_ALIGN,
    PackedSize(_)       \* the codec: bytes a buffer of that many packs into

ASSUME SegmentCodecAssumption == BUFFER_ALIGN \in Nat \ {0}

DivUp(a, b) == (a + b - 1) \div b
AlignUp(n, to) == DivUp(n, to) * to
SumOf(s) ==
    LET sum[i \in 0..Len(s)] == IF i = 0 THEN 0 ELSE sum[i - 1] + s[i]
    IN  sum[Len(s)]

(***************************************************************************)
(* Encoding a column.                                                      *)
(***************************************************************************)
\* The bytes of one value; the slot of a null holds a zero nobody reads.
Slot(v) == IF v = Null THEN 0 ELSE v
Width(type) == IF type = "index" THEN 4 ELSE 8

CarriesOnlyItsOwnRows(a) == a.off = 0 /\ a.len = Len(a.held)

\* compact, or the array itself where Arrow cannot compact its type.
Compacted(a) ==
    IF CarriesOnlyItsOwnRows(a) \/ a.type = "odd" THEN a ELSE Array(a.type, Rows(a))

Buffer(role, cells, size) == [role |-> role, cells |-> cells, size |-> size]

\* Mutant of ValidityBits: the bitmap is stored as the parent holds it.
ParentBits(a) == [i \in DOMAIN a.held |-> a.held[i] # Null]

\* BooleanBuffer::sliced: the bits of these rows, the first at bit zero.
ValidityBits(a) == [i \in 1..a.len |-> a.held[a.off + i] # Null]

Validity(a, bits) ==
    IF \A i \in 1..a.len : a.held[a.off + i] # Null THEN <<>>
    ELSE <<Buffer("validity", bits, DivUp(a.len, 8))>>

\* Offsets and values, or values alone.
DataBuffers(type, cells) ==
    IF type = "text"
    THEN <<Buffer("data", [i \in 1..(Len(cells) + 1) |-> SumOf(SubSeq(cells, 1, i - 1))],
                  4 * (Len(cells) + 1)),
           Buffer("data", cells, SumOf(cells))>>
    ELSE <<Buffer("data", cells, Width(type) * Len(cells))>>

EncodedAs(a) ==
    [encoding |-> "plain", len |-> a.len, offset |-> a.off,
     buffers |-> Validity(a, ValidityBits(a))
                 \o DataBuffers(a.type, [i \in DOMAIN a.held |-> Slot(a.held[i])]),
     children |-> <<>>]

EncodePlain(a) == EncodedAs(Compacted(a))

\* EncodedColumn::describing, for a column whose blocks hold the data.
Describing(a) ==
    [encoding |-> "plain", len |-> a.len, offset |-> 0, buffers |-> <<>>, children |-> <<>>]

BuffersLen(e) == SumOf([i \in DOMAIN e.buffers |-> e.buffers[i].size])
ByteLen(e) == BuffersLen(e) + SumOf([i \in DOMAIN e.children |-> BuffersLen(e.children[i])])

WorthReEncoding(a) == a.type \in {"fixed", "text"} /\ a.len > 0

\* The distinct values in the order the cast meets them, and the last rows of
\* the runs.
Distinct(rows) ==
    Picked(rows, {i \in DOMAIN rows :
                    rows[i] # Null /\ \A j \in 1..(i - 1) : rows[j] # rows[i]})
RunEnds(rows) ==
    Ascending({i \in DOMAIN rows : i = Len(rows) \/ rows[i] # rows[i + 1]})

\* Indices keep the nulls; the distinct values are a child.
Keys(rows, d) ==
    [i \in DOMAIN rows |->
        IF rows[i] = Null THEN Null ELSE CHOOSE k \in DOMAIN d : d[k] = rows[i]]
Dictionary(a, d) ==
    [EncodePlain(Array("index", Keys(Rows(a), d))) EXCEPT
        !.encoding = "dictionary", !.children = <<EncodePlain(Array(a.type, d))>>]
TryDictionary(a, d) ==
    IF WorthReEncoding(a) /\ 2 * Len(d) < a.len THEN {Dictionary(a, d)} ELSE {}

\* No buffer of its own: the run ends and one value per run are children.
RunLength(a, ends) ==
    [Describing(a) EXCEPT
        !.encoding = "runs",
        !.children = <<EncodePlain(Array("index", ends)),
                       EncodePlain(Array(a.type, [i \in DOMAIN ends |-> Rows(a)[ends[i]]]))>>]
TryRunLength(a, ends) ==
    IF WorthReEncoding(a) /\ 2 * Len(ends) < a.len THEN {RunLength(a, ends)} ELSE {}

\* A candidate only replaces what is larger, so plain wins ties.
Smaller(best, candidates) ==
    IF \E c \in candidates : ByteLen(c) < ByteLen(best)
    THEN CHOOSE c \in candidates : TRUE ELSE best

EncodeColumn(a, o) ==
    Smaller(Smaller(EncodePlain(a),
                    IF o.dictionaryEncoding THEN TryDictionary(a, Distinct(Rows(a))) ELSE {}),
            IF o.rleEncoding THEN TryRunLength(a, RunEnds(Rows(a))) ELSE {})

(***************************************************************************)
(* Storing it.  `bytes` is what the segment holds so far.                  *)
(***************************************************************************)
CodecFor(o, type) ==
    IF o.compression = "auto" THEN (IF type = "text" THEN "lz4" ELSE "none")
    ELSE o.compression

Shrinks(codec, size) == codec # "none" /\ PackedSize(size) < size

\* compress_buffers: packed where that is smaller, as it stands elsewhere.
Compress(codec, b) ==
    [role |-> b.role, cells |-> b.cells, uncompressed |-> b.size,
     packed |-> Shrinks(codec, b.size),
     len |-> IF Shrinks(codec, b.size) THEN PackedSize(b.size) ELSE b.size]
CompressAll(codec, buffers) == [i \in DOMAIN buffers |-> Compress(codec, buffers[i])]

End(bytes) == IF bytes = <<>> THEN 0 ELSE Last(bytes).off + Last(bytes).len

\* One buffer after the other, each after pad_to_alignment.
Place(bytes, stored) ==
    LET end[i \in 0..Len(stored)] ==
            IF i = 0 THEN End(bytes)
            ELSE AlignUp(end[i - 1], BUFFER_ALIGN) + stored[i].len
    IN  bytes \o [i \in DOMAIN stored |->
            [off |-> AlignUp(end[i - 1], BUFFER_ALIGN), len |-> stored[i].len,
             cells |-> stored[i].cells, packed |-> stored[i].packed]]

SpecOf(stored, piece) ==
    [role |-> stored.role, off |-> piece.off, len |-> piece.len,
     uncompressed |-> stored.uncompressed,
     checksum |-> [cells |-> piece.cells, packed |-> piece.packed]]

Chunk(e, codec, specs) ==
    [encoding |-> e.encoding, len |-> e.len, offset |-> e.offset, codec |-> codec,
     buffers |-> specs, children |-> <<>>, blockRows |-> 0, blocks |-> <<>>]

\* The codec of a chunk is recorded when one of its data buffers shrank.
CodecUsed(codec, stored) ==
    IF \E i \in DOMAIN stored : stored[i].packed THEN codec ELSE "none"

Written(e, codec, stored, before, bytes) ==
    [bytes |-> bytes,
     chunk |-> Chunk(e, CodecUsed(codec, stored),
                     [i \in DOMAIN stored |-> SpecOf(stored[i], bytes[before + i])])]

StoreBuffers(bytes, e, codec, stored) ==
    Written(e, codec, stored, Len(bytes), Place(bytes, stored))

\* write_chunk without its children: the buffers the codec decision is about,
\* then the side buffers, raw.
WriteBuffers(bytes, e, codec, side) ==
    StoreBuffers(bytes, e, codec, CompressAll(codec, e.buffers) \o CompressAll("none", side))

\* Writing several chunks one after the other: the bytes and the chunks so far.
Nothing(bytes) == [bytes |-> bytes, chunks |-> <<>>]
Then(so, write) == [bytes |-> write.bytes, chunks |-> Append(so.chunks, write.chunk)]

WithChildren(own, kids) ==
    [bytes |-> kids.bytes, chunk |-> [own.chunk EXCEPT !.children = kids.chunks]]
WriteKids(bytes, kids, codec) ==
    LET so[i \in 0..Len(kids)] ==
            IF i = 0 THEN Nothing(bytes)
            ELSE Then(so[i - 1], WriteBuffers(so[i - 1].bytes, kids[i], codec, <<>>))
    IN  so[Len(kids)]
WriteChildren(own, e, codec) ==
    WithChildren(own, WriteKids(own.bytes, e.children, codec))

WriteChunk(bytes, e, codec, side) ==
    WriteChildren(WriteBuffers(bytes, e, codec, side), e, codec)

BlocksWanted(a, codec, o) ==
    o.blockRows > 0 /\ a.len > o.blockRows /\ (codec # "none" \/ a.type = "text")

Pieces(a, size) ==
    [i \in 1..DivUp(a.len, size) |->
        Slice(a, (i - 1) * size, Min({size, a.len - (i - 1) * size}))]

\* page_zones: what each page holds, where there are two pages or more.
PageCount(rows, pageRows) == IF pageRows = 0 THEN 0 ELSE DivUp(rows, pageRows)
ZonesOf(pages) == <<Buffer("zones", [i \in DOMAIN pages |-> ToSet(Rows(pages[i]))], Len(pages))>>

\* Mutant of PageZones: no bounds for a last page that is not full.
FullPageZones(a, o) ==
    IF PageCount(a.len, o.pageRows) < 2 THEN <<>>
    ELSE ZonesOf(SubSeq(Pieces(a, o.pageRows), 1, a.len \div o.pageRows))

PageZones(a, o) ==
    IF PageCount(a.len, o.pageRows) < 2 THEN <<>> ELSE ZonesOf(Pieces(a, o.pageRows))

\* The chunk above the blocks holds no data; its codec is that of its blocks.
OuterChunk(outer, blocks, blockRows, codec) ==
    [bytes |-> outer.bytes,
     chunk |-> [outer.chunk EXCEPT
                   !.blockRows = blockRows, !.blocks = blocks,
                   !.codec = IF \E i \in DOMAIN blocks : blocks[i].codec # "none"
                             THEN codec ELSE "none"]]
WriteOuter(cut, a, codec, o) ==
    OuterChunk(WriteBuffers(cut.bytes, Describing(a), "none", PageZones(a, o)),
               cut.chunks, o.blockRows, codec)

WriteBlocks(bytes, pieces, codec, o) ==
    LET so[i \in 0..Len(pieces)] ==
            IF i = 0 THEN Nothing(bytes)
            ELSE Then(so[i - 1], WriteChunk(so[i - 1].bytes, EncodeColumn(pieces[i], o), codec, <<>>))
    IN  so[Len(pieces)]

WriteCoded(bytes, a, codec, o) ==
    IF BlocksWanted(a, codec, o)
    THEN WriteOuter(WriteBlocks(bytes, Pieces(a, o.blockRows), codec, o), a, codec, o)
    ELSE WriteChunk(bytes, EncodeColumn(a, o), codec, PageZones(a, o))

WriteColumn(bytes, a, o) == WriteCoded(bytes, a, CodecFor(o, a.type), o)

\* concat_columns: one batch is taken as it stands, several are joined.
ConcatColumns(group) ==
    [c \in DOMAIN Types |->
        IF Len(group) = 1 THEN group[1][c]
        ELSE Concat(Types[c], [b \in DOMAIN group |-> group[b][c]])]

SegmentMeta(built, rows, o) ==
    [bytes |-> built.bytes, columns |-> built.chunks, rowCount |-> rows,
     pageRows |-> IF PageCount(rows, o.pageRows) > 1 THEN o.pageRows ELSE 0,
     blockRows |-> IF \E c \in DOMAIN built.chunks : built.chunks[c].blocks # <<>>
                   THEN o.blockRows ELSE 0]

WriteColumns(arrays, o) ==
    LET so[i \in 0..Len(arrays)] ==
            IF i = 0 THEN Nothing(<<>>)
            ELSE Then(so[i - 1], WriteColumn(so[i - 1].bytes, arrays[i], o))
    IN  so[Len(arrays)]

BuildSegment(group, o) ==
    SegmentMeta(WriteColumns(ConcatColumns(group), o), TotalRows(group), o)

(***************************************************************************)
(* Reading it.  A result is the cells or rows read, or none after an error. *)
(***************************************************************************)
Ok(x) == [ok |-> TRUE, cells |-> x]
Corrupt == [ok |-> FALSE, cells |-> <<>>]

\* The stored buffer at an extent; none when the extent runs past the segment.
Fetch(bytes, spec) ==
    {bytes[i] : i \in {j \in DOMAIN bytes : bytes[j].off = spec.off /\ bytes[j].len = spec.len}}

\* Mutant of Verified: the checksum is not looked at.
Unverified(piece, spec) == TRUE

Verified(piece, spec) == [cells |-> piece.cells, packed |-> piece.packed] = spec.checksum

\* Bytes that were packed make no sense to Arrow, and raw ones not to a codec.
Unpacks(piece, spec, codec) ==
    piece.packed # (codec = "none" \/ piece.len = spec.uncompressed)

FirstOk(pieces) == IF pieces = {} THEN Corrupt ELSE Ok((CHOOSE p \in pieces : TRUE).cells)

Load(spec, codec, bytes) ==
    FirstOk({p \in Fetch(bytes, spec) : Verified(p, spec) /\ Unpacks(p, spec, codec)})

\* Where in a chunk the buffers of a role are.
BuffersOf(chunk, role) == {i \in DOMAIN chunk.buffers : chunk.buffers[i].role = role}

\* The null bitmap, and Arrow's buffers for the array, where all of them load.
DecodeNulls(chunk, at, bytes) ==
    IF at = {} THEN Ok([i \in 1..chunk.len |-> TRUE])
    ELSE Load(chunk.buffers[Min(at)], chunk.codec, bytes)
LoadData(chunk, at, bytes) ==
    IF \A i \in at : Load(chunk.buffers[i], chunk.codec, bytes).ok
    THEN Load(chunk.buffers[Max(at)], chunk.codec, bytes) ELSE Corrupt

\* ArrayDataBuilder::build and its checks.
BuildArray(len, offset, nulls, data) ==
    IF \/ ~nulls.ok \/ Len(nulls.cells) < len
       \/ ~data.ok \/ Len(data.cells) < offset + len
    THEN Corrupt
    ELSE Ok([i \in 1..len |-> IF nulls.cells[i] THEN data.cells[offset + i] ELSE Null])

\* rebuild of a chunk's own buffers.
Rebuild(chunk, bytes) ==
    BuildArray(chunk.len, chunk.offset,
               DecodeNulls(chunk, BuffersOf(chunk, "validity"), bytes),
               LoadData(chunk, BuffersOf(chunk, "data"), bytes))

\* The cast of a dictionary or of runs back to the type of the column.
Looked(keys, values) ==
    IF keys.ok /\ values.ok
    THEN Ok([i \in DOMAIN keys.cells |->
                IF keys.cells[i] = Null THEN Null ELSE values.cells[keys.cells[i]]])
    ELSE Corrupt
Expanded(len, ends, values) ==
    IF ends.ok /\ values.ok
    THEN Ok([i \in 1..len |-> values.cells[SelectInSeq(ends.cells, LAMBDA e : e >= i)]])
    ELSE Corrupt

RebuildAs(chunk, bytes) ==
    CASE chunk.encoding = "plain" -> Rebuild(chunk, bytes)
      [] chunk.encoding = "dictionary" ->
            Looked(Rebuild(chunk, bytes), Rebuild(chunk.children[1], bytes))
      [] chunk.encoding = "runs" ->
            Expanded(chunk.len, Rebuild(chunk.children[1], bytes), Rebuild(chunk.children[2], bytes))

Sliced(result, start, len) ==
    IF result.ok THEN Ok(SubSeq(result.cells, start + 1, start + len)) ELSE Corrupt

\* A range of a chunk that is not cut.
DecodeUncut(chunk, bytes, start, len) ==
    IF start + len > chunk.len THEN Corrupt ELSE Sliced(RebuildAs(chunk, bytes), start, len)

LastBlock(chunk, start, len) == (start + len - 1) \div chunk.blockRows

\* The rows start..end of a block whose first row is row `at` of the chunk.
DecodeBlock(block, bytes, at, start, end) ==
    DecodeUncut(block, bytes, Max({start, at}) - at,
                Min({end, at + block.len}) - Max({start, at}))

Joined(parts) ==
    IF \A k \in DOMAIN parts : parts[k].ok
    THEN Ok(FlattenSeq([k \in DOMAIN parts |-> parts[k].cells])) ELSE Corrupt

\* Blocks first..last, counted from 0; a block that is missing is an error.
DecodeBlockRun(chunk, bytes, first, last, start, end) ==
    IF last >= Len(chunk.blocks) THEN Corrupt
    ELSE Joined([k \in 1..(last - first + 1) |->
                    DecodeBlock(chunk.blocks[first + k], bytes,
                                (first + k - 1) * chunk.blockRows, start, end)])

DecodeBlocks(chunk, bytes, start, len) ==
    IF len = 0 THEN Ok(<<>>)
    ELSE DecodeBlockRun(chunk, bytes, start \div chunk.blockRows, LastBlock(chunk, start, len),
                        start, start + len)

DecodeColumnRows(chunk, bytes, start, len) ==
    IF start + len > chunk.len THEN Corrupt
    ELSE IF chunk.blocks # <<>> THEN DecodeBlocks(chunk, bytes, start, len)
    ELSE DecodeUncut(chunk, bytes, start, len)

\* A column the segment is older than has no value for its rows.
ColumnRows(seg, c, start, len) ==
    IF c > Len(seg.columns) THEN Ok([i \in 1..len |-> Null])
    ELSE DecodeColumnRows(seg.columns[c], seg.bytes, start, len)

\* side_buffer of the page bounds: none, the zones, or an error.
SideBuffer(chunk, at, bytes) ==
    IF at = {} THEN Ok(<<>>)
    ELSE FirstOk({p \in Fetch(bytes, chunk.buffers[Min(at)]) :
                    Verified(p, chunk.buffers[Min(at)])})
ReadPageZones(seg, c) ==
    SideBuffer(seg.columns[c], BuffersOf(seg.columns[c], "zones"), seg.bytes)

\* page_range: the first row of a page and its length.
PageRange(seg, page) ==
    [start |-> page * seg.pageRows, len |-> Min({seg.pageRows, seg.rowCount - page * seg.pageRows})]
====
