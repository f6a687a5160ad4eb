----------------------------- MODULE PolicyPath ------------------------------
(***************************************************************************)
(* The way of a redundancy policy: text given to tartinectl                *)
(* (redundancy_spec.rs), ioctl buffer (tartine-fuse/ioctl.rs), operation   *)
(* in the log and record in the INODES table (codec.rs, store.rs), and     *)
(* back to text.  The log holds other operations on the same file too, and *)
(* a restart builds the record again from the log.                         *)
(*                                                                         *)
(* A text is what the grammar of redundancy_spec.rs distinguishes, after   *)
(* trimming: nothing, a count, a list of terms, or an "rs:" form; a term   *)
(* is a word, and behind "disk:" the hexadecimal digits of an id.  An id   *)
(* is <<lo, hi>>, and as in Codec each half is a number of one byte.       *)
(***************************************************************************)
EXTENDS MetaCodec

CONSTANTS
    MaxSelect,   \* MAX_SELECT, slots an ioctl buffer has room for
    Specs,       \* texts somebody may give
    Record,      \* InodeRecord create_file logs for the file
    Others,      \* other operations, on the file or not
    Orders,      \* orders in which the pool map's HashMap may iterate
    MaxOps       \* bound: operations in the log

ASSUME PathAssumption == MaxSelect \in Nat /\ MaxOps \in Nat

VARIABLES
    up,       \* the daemon runs
    log,      \* payloads of the frames in the log
    ops,      \* history: the operations they were made from
    table,    \* the file's value in INODES, <<>> if none
    asked,    \* history: the policy last set successfully
    shown     \* text get-redundancy has printed, Nothing if none since a change

vars == <<up, log, ops, table, asked, shown>>

Nothing == [form |-> "nothing"]

Replicated(slots)  == [tag |-> "Replicated", slots |-> slots]
ErasureCoded(k, m) == [tag |-> "ErasureCoded", data_shards |-> k, parity_shards |-> m]
AnySlot    == [tag |-> "Any"]
Class(c)   == [tag |-> "Class", class |-> [tag |-> c]]
Pinned(id) == [tag |-> "Pinned", id |-> id]

-----------------------------------------------------------------------------
(* redundancy_spec.rs.                                                      *)
SlotWord  == [any |-> AnySlot, hdd |-> Class("Hdd"), ssd |-> Class("Ssd"), nvme |-> Class("Nvme")]

ParseError == [tag |-> "ParseError"]

Dash == 16    \* '-', next to the digits 0 to 15

HexValue(digits) == FoldLeft(LAMBDA n, d : 16 * n + d, 0, digits)

(* from_str_radix takes any number of digits but none, and refuses values   *)
(* of more than 128 bits, which are 32 digits.                              *)
ParseUuidHex(text) ==
    LET digits == SelectSeq(text, LAMBDA c : c # Dash)
        padded == Zeros(32) \o digits
        n      == Len(padded)
    IN IF digits = <<>> \/ \E i \in 1 .. n - 32 : padded[i] # 0 THEN ParseError
       ELSE Pinned(<<HexValue(SubSeq(padded, n - 15, n)), HexValue(SubSeq(padded, n - 31, n - 16))>>)

ParseSlot(term) ==
    IF term.word \in DOMAIN SlotWord THEN SlotWord[term.word]
    ELSE IF term.word = "disk:" THEN ParseUuidHex(term.text)
    ELSE ParseError

(* Mutant of Parse: lists of terms are not limited.                         *)
ParseUnlimited(spec) ==
    CASE spec.form = "empty" -> ParseError
      [] spec.form = "rs"    -> IF spec.k > 255 \/ spec.m > 255 THEN ParseError
                                ELSE ErasureCoded(spec.k, spec.m)
      [] spec.form = "count" -> IF spec.n > MaxSelect THEN ParseError
                                ELSE Replicated([i \in 1 .. spec.n |-> AnySlot])
      [] spec.form = "list"  ->
             LET slots == [i \in 1 .. Len(spec.terms) |-> ParseSlot(spec.terms[i])]
             IN IF \E i \in DOMAIN slots : slots[i] = ParseError THEN ParseError
                ELSE Replicated(slots)

Parse(spec) ==
    CASE spec.form = "empty" -> ParseError
      [] spec.form = "rs"    -> IF spec.k > 255 \/ spec.m > 255 THEN ParseError
                                ELSE ErasureCoded(spec.k, spec.m)
      [] spec.form = "count" -> IF spec.n > MaxSelect THEN ParseError
                                ELSE Replicated([i \in 1 .. spec.n |-> AnySlot])
      [] spec.form = "list"  ->
             LET slots == [i \in 1 .. Len(spec.terms) |-> ParseSlot(spec.terms[i])]
             IN IF Len(slots) > MaxSelect \/ \E i \in DOMAIN slots : slots[i] = ParseError
                THEN ParseError ELSE Replicated(slots)

(* One half of an id as 16 digits, the highest first.                       *)
Hex(v) == Zeros(14) \o <<v \div 16, v % 16>>

(* Mutant of FormatSlot: the digits of an id are not padded, {:x}{:x} of    *)
(* its halves.                                                              *)
FormatSlotUnpadded(slot) ==
    LET Short(v) == IF v < 16 THEN <<v>> ELSE <<v \div 16, v % 16>>
    IN CASE slot.tag = "Any"    -> [word |-> "any"]
         [] slot.tag = "Class"  ->
                [word |-> CASE slot.class.tag = "Hdd"  -> "hdd"
                            [] slot.class.tag = "Ssd"  -> "ssd"
                            [] slot.class.tag = "Nvme" -> "nvme"]
         [] slot.tag = "Pinned" ->
                [word |-> "disk:", text |-> Short(slot.id[2]) \o Short(slot.id[1])]

FormatSlot(slot) ==
    CASE slot.tag = "Any"    -> [word |-> "any"]
      [] slot.tag = "Class"  ->
             [word |-> CASE slot.class.tag = "Hdd"  -> "hdd"
                         [] slot.class.tag = "Ssd"  -> "ssd"
                         [] slot.class.tag = "Nvme" -> "nvme"]
      [] slot.tag = "Pinned" -> [word |-> "disk:", text |-> Hex(slot.id[2]) \o Hex(slot.id[1])]

Format(scheme) ==
    CASE scheme.tag = "ErasureCoded" ->
             [form |-> "rs", k |-> scheme.data_shards, m |-> scheme.parity_shards]
      [] scheme.slots = <<>> -> [form |-> "empty"]
      [] OTHER -> [form |-> "list",
                   terms |-> [i \in 1 .. Len(scheme.slots) |-> FormatSlot(scheme.slots[i])]]

-----------------------------------------------------------------------------
(* ioctl.rs.  CLASS_ANY is 0, and disk_id_to_hi_lo puts the high half first.*)
DiskClassToWire(c) ==
    CASE c = "Hdd" -> 1 [] c = "Ssd" -> 2 [] c = "Nvme" -> 3

DiskClassFromWire(v) ==
    CASE v = 1 -> Class("Hdd") [] v = 2 -> Class("Ssd") [] v = 3 -> Class("Nvme") [] OTHER -> None

SlotToWire(slot) ==
    LET class == IF slot.tag = "Class" THEN DiskClassToWire(slot.class.tag) ELSE 0
        id    == IF slot.tag = "Pinned" THEN slot.id ELSE <<0, 0>>
    IN <<class, Bool(slot.tag = "Pinned")>> \o Zeros(6) \o Num(8, id[2]) \o Num(8, id[1])

EncodeSetRedundancy(scheme) ==
    IF scheme.tag = "Replicated"
    THEN LET n == IF Len(scheme.slots) < MaxSelect THEN Len(scheme.slots) ELSE MaxSelect
         IN Num(4, 0) \o Num(4, n) \o Zeros(8)
                \o FlattenSeq([i \in 1 .. n |-> SlotToWire(scheme.slots[i])])
                \o Zeros(24 * (MaxSelect - n))
    ELSE Num(4, 1) \o Num(4, 0) \o <<scheme.data_shards, scheme.parity_shards>>
             \o Zeros(6 + 24 * MaxSelect)

(* A slot whose bytes begin behind offset base.                             *)
SlotFromWire(buf, base) ==
    LET class  == buf[base + 1]
        pinned == buf[base + 2]
        hi     == ReadInt(8, buf, base + 9).val
        lo     == ReadInt(8, buf, base + 17).val
    IN IF pinned # 0 THEN Pinned(<<lo, hi>>)
       ELSE IF class = 0 THEN AnySlot
       ELSE DiskClassFromWire(class)

DecodeSetRedundancy(buf) ==
    LET kind  == ReadInt(4, buf, 1).val
        n     == ReadInt(4, buf, 5).val
        slots == [i \in 1 .. n |-> SlotFromWire(buf, 16 + 24 * (i - 1))]
    IN CASE Len(buf) # 16 + 24 * MaxSelect -> None
         [] kind = 0 -> IF n \notin 0 .. MaxSelect \/ \E i \in 1 .. n : slots[i] = None
                        THEN None ELSE Replicated(slots)
         [] kind = 1 -> ErasureCoded(buf[9], buf[10])
         [] OTHER -> None

-----------------------------------------------------------------------------
(* read_inode and write_inode.  A record holds no HashMap.                  *)
ReadInode(bytes) == Read(DecodeInodeRecord, bytes, 1).val
WriteInode(rec)  == Write(EncodeInodeRecord, rec, <<>>)

(* The end of an extent map.                                                *)
ExtentsEnd(extents) ==
    Max({0} \cup {extents[i].file_offset + extents[i].len : i \in DOMAIN extents})

(* What apply_locally accepts.                                              *)
Allowed(bytes, o) ==
    LET rec == ReadInode(bytes) IN
    CASE o.tag = "AppendChunk"     -> rec.data.tag = "ChunkLog"
      [] o.tag = "BeginConvert"    -> rec.mode.tag = "AppendOnly"
      [] o.tag = "CompleteConvert" -> rec.mode.tag = "Converting"
      [] o.tag = "UpdateExtents"   -> rec.mode.tag = "Writable"
      [] OTHER -> TRUE

(* What apply_locally makes of the file's value.                            *)
ApplyLocally(bytes, o) ==
    LET rec     == ReadInode(bytes)
        extents == [tag |-> "Extents", extents |-> o.extents]
    IN CASE o.tag = "CreateInode"  -> WriteInode(o.record)
         [] o.tag = "AppendChunk"  ->
                WriteInode([rec EXCEPT !.data.chunks = Append(@, o.chunk), !.size = @ + o.chunk.len])
         [] o.tag = "BeginConvert" -> WriteInode([rec EXCEPT !.mode.tag = "Converting"])
         [] o.tag = "CompleteConvert" ->
                WriteInode([rec EXCEPT !.mode.tag = "Writable", !.data = extents])
         [] o.tag = "UpdateExtents" ->
                WriteInode([rec EXCEPT !.size = ExtentsEnd(o.extents), !.data = extents])
         [] o.tag = "SetRedundancyScheme" -> WriteInode([rec EXCEPT !.redundancy = o.scheme])
         [] OTHER -> bytes

(* MetaStore::apply of an operation that apply_locally accepts; module      *)
(* MetaStore has the others.  order is how a HashMap in it iterates.        *)
Apply(o, order) ==
    /\ Len(log) < MaxOps
    /\ log' = Append(log, Write(EncodeOp, o, order))
    /\ ops' = Append(ops, o)
    /\ table' = ApplyLocally(table, o)
    /\ shown' = Nothing

-----------------------------------------------------------------------------
Init ==
    /\ up = TRUE /\ log = <<>> /\ ops = <<>> /\ table = <<>>
    /\ asked = Record.redundancy /\ shown = Nothing

(* Pool::create_file.                                                       *)
CreateFile ==
    /\ up /\ log = <<>>
    /\ Apply([tag |-> "CreateInode", record |-> Record], <<>>)
    /\ UNCHANGED <<up, asked>>

OtherOp(o) ==
    /\ up /\ log # <<>> /\ Allowed(table, o)
    /\ \E order \in Orders : Apply(o, order)
    /\ UNCHANGED <<up, asked>>

(* tartinectl file set-redundancy, and TARTINE_IOC_SET_REDUNDANCY in the    *)
(* daemon.  A text that does not parse goes nowhere; the daemon refuses     *)
(* erasure coding.                                                          *)
SetRedundancy(spec) ==
    LET parsed == Parse(spec)
        scheme == DecodeSetRedundancy(EncodeSetRedundancy(parsed))
    IN /\ up /\ log # <<>>
       /\ parsed # ParseError
       /\ scheme # None /\ scheme.tag # "ErasureCoded"
       /\ Apply([tag |-> "SetRedundancyScheme", inode |-> Record.inode, scheme |-> scheme], <<>>)
       /\ asked' = parsed
       /\ UNCHANGED up

(* tartinectl file get-redundancy, and TARTINE_IOC_GET_REDUNDANCY.          *)
GetRedundancy ==
    /\ up /\ table # <<>>
    /\ shown' = Format(DecodeSetRedundancy(EncodeSetRedundancy(ReadInode(table).redundancy)))
    /\ UNCHANGED <<up, log, ops, table, asked>>

Stop ==
    /\ up
    /\ up' = FALSE /\ table' = <<>> /\ shown' = Nothing
    /\ UNCHANGED <<log, ops, asked>>

(* MetaStore::open; decode_op panics on a payload it cannot read.           *)
Restart ==
    LET op == [i \in 1 .. Len(log) |-> Read(DecodeOp, log[i], 1)]
    IN /\ ~up /\ \A i \in DOMAIN op : op[i].ok
       /\ up' = TRUE
       /\ table' = FoldLeft(LAMBDA bytes, r : ApplyLocally(bytes, r.val), <<>>, op)
       /\ UNCHANGED <<log, ops, asked, shown>>

Next ==
    \/ CreateFile
    \/ \E o \in Others : OtherOp(o)
    \/ \E spec \in Specs : SetRedundancy(spec)
    \/ GetRedundancy
    \/ Stop
    \/ Restart

Spec == Init /\ [][Next]_vars

-----------------------------------------------------------------------------
(* decode_op gives back each operation encode_op was given, and reads       *)
(* neither less nor more than its payload: the two sides of codec.rs agree  *)
(* on every field, its width and its place, whatever order a HashMap was    *)
(* written in.                                                              *)
LogDecodes ==
    log # <<>> => Read(DecodeOp, Last(log), 1) = Got(Last(ops), Len(Last(log)) + 1)

(* No part of a payload that was cut short reads as an operation, another   *)
(* or the same: decode_op panics.                                           *)
NoShorterReading ==
    log # <<>> =>
        LET payload == Last(log)
        IN \A n \in 0 .. Len(payload) - 1 : ~Read(DecodeOp, SubSeq(payload, 1, n), 1).ok

(* The file's record holds the policy that was asked for, slot by slot and  *)
(* to the last of them, through both wire formats, the other operations on  *)
(* the record, and restarts.                                                *)
PolicyKept == table # <<>> => ReadInode(table).redundancy = asked

(* What get-redundancy prints can be given to set-redundancy, and sets the  *)
(* policy last asked for: format against parse, in words and digits, behind *)
(* both wire formats and a restart.  The policy without slots, which "0"    *)
(* asks for, is left out: it is printed as nothing, and nothing is refused. *)
ShownParses ==
    shown # Nothing /\ asked # Replicated(<<>>) => Parse(shown) = asked
=============================================================================
