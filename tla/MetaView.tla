------------------------------ MODULE MetaView -------------------------------
(***************************************************************************)
(* What a metadata operation means: MetaStore::apply_locally (store.rs),   *)
(* the state machine of a file's mode it takes from tartine-kcore's        *)
(* write_path.rs, and the materialized tables it works on.                 *)
(*                                                                         *)
(* Only the root is a directory, so that a directory key is a name.  Of a  *)
(* file's content the module keeps how many bytes its locator covers.      *)
(***************************************************************************)
EXTENDS Integers

CONSTANTS
    Names,         \* file names
    Schemes,       \* redundancy schemes
    DefaultScheme, \* default_redundancy of tartine-fuse
    MaxInodes,     \* bound: inode numbers
    MaxSize        \* bound: where a write may end

ASSUME ViewAssumption ==
    /\ DefaultScheme \in Schemes
    /\ MaxInodes \in Nat \ {0}
    /\ MaxSize \in Nat

Inode   == 1 .. MaxInodes
Root    == 1
NoInode == 0
Size    == 0 .. MaxSize

Modes == {"AppendOnly", "Converting", "Writable"}
Rank  == [AppendOnly |-> 0, Converting |-> 1, Writable |-> 2]

(* InodeRecord: stored is the number of bytes its DataLocator covers.       *)
(* MaxSize bounds what a write asks for; the log can hold more appends than *)
(* one run of the process asked for, so that the record has no bound.       *)
Record == [mode : Modes, data : {"ChunkLog", "Extents"}, size : Nat,
           stored : Nat, scheme : Schemes]
Absent == [mode |-> "none"]

(* The redb tables and next_inode.                                          *)
Tables == [inodes : [Inode -> Record \cup {Absent}],
           dirs   : [Names -> Inode \cup {NoInode}],
           next   : 1 .. MaxInodes + 1]

EmptyTables == [inodes |-> [i \in Inode |-> Absent],
                dirs   |-> [n \in Names |-> NoInode],
                next   |-> 1]

Files(t) == {i \in Inode : t.inodes[i] # Absent}

(* The MetaOp variants the store is given.                                  *)
CreateInode(i, rec)       == [type |-> "CreateInode", inode |-> i, rec |-> rec]
Link(n, i)                == [type |-> "Link", name |-> n, inode |-> i]
Unlink(n)                 == [type |-> "Unlink", name |-> n]
AppendChunk(i, len)       == [type |-> "AppendChunk", inode |-> i, len |-> len]
BeginConvert(i)           == [type |-> "BeginConvert", inode |-> i]
CompleteConvert(i, len)   == [type |-> "CompleteConvert", inode |-> i, len |-> len]
SetRedundancyScheme(i, s) == [type |-> "SetRedundancyScheme", inode |-> i, scheme |-> s]
UpdateExtents(i, len)     == [type |-> "UpdateExtents", inode |-> i, len |-> len]

NewFile ==
    [mode |-> "AppendOnly", data |-> "ChunkLog", size |-> 0, stored |-> 0,
     scheme |-> DefaultScheme]
RootDir ==
    [mode |-> "Writable", data |-> "Extents", size |-> 0, stored |-> 0,
     scheme |-> DefaultScheme]

-----------------------------------------------------------------------------
(* tartine_classify_write: 0 refused, else what the write is.               *)
ClassifyWrite(mode, size, offset) ==
    IF mode = "Writable" THEN "RandomWrite"
    ELSE IF offset = size THEN "Append"
    ELSE IF mode = "AppendOnly" THEN "NotAppendOnlyOrder" ELSE "ConversionInProgress"

(* The modes in which tartine_begin_convert and tartine_complete_convert    *)
(* succeed.                                                                 *)
MayBegin(mode)    == mode = "AppendOnly"
MayComplete(mode) == mode = "Converting"

(* apply_locally returns Ok.                                                *)
Valid(t, op) ==
    IF op.type \in {"CreateInode", "Link", "Unlink"} THEN TRUE
    ELSE LET rec == t.inodes[op.inode] IN
         /\ rec # Absent
         /\ op.type = "AppendChunk"     => rec.data = "ChunkLog"
         /\ op.type = "BeginConvert"    => MayBegin(rec.mode)
         /\ op.type = "CompleteConvert" => MayComplete(rec.mode)
         /\ op.type = "UpdateExtents"   => rec.mode = "Writable"

PutInode(t, i, rec) == [t EXCEPT !.inodes = [@ EXCEPT ![i] = rec]]

(* Mutant of Rewritten: the size is not set.                                *)
RewrittenNoSize(rec, len) == [rec EXCEPT !.data = "Extents", !.stored = len]

(* What an operation makes of the record of an existing file.               *)
Appended(rec, len)  == [rec EXCEPT !.stored = @ + len, !.size = @ + len]
Converted(rec, len) == [rec EXCEPT !.mode = "Writable", !.data = "Extents", !.stored = len]
Rewritten(rec, len) == [rec EXCEPT !.size = len, !.data = "Extents", !.stored = len]
NewRecord(rec, op) ==
    CASE op.type = "AppendChunk"         -> Appended(rec, op.len)
      [] op.type = "BeginConvert"        -> [rec EXCEPT !.mode = "Converting"]
      [] op.type = "CompleteConvert"     -> Converted(rec, op.len)
      [] op.type = "SetRedundancyScheme" -> [rec EXCEPT !.scheme = op.scheme]
      [] op.type = "UpdateExtents"       -> Rewritten(rec, op.len)

(* Mutants of NextAfter: replay does not raise next_inode; raises it by one *)
(* too many.                                                                *)
NextKept(next, i)  == next
NextSkips(next, i) == IF next > i + 2 THEN next ELSE i + 2

(* next_inode after inode i was created.                                    *)
NextAfter(next, i) == IF next > i + 1 THEN next ELSE i + 1

(* MetaStore::apply_locally: one redb transaction, dropped on an error.     *)
ApplyLocally(t, op) ==
    CASE op.type = "CreateInode" ->
           [PutInode(t, op.inode, op.rec) EXCEPT !.next = NextAfter(@, op.inode)]
      [] op.type = "Link"   -> [t EXCEPT !.dirs = [@ EXCEPT ![op.name] = op.inode]]
      [] op.type = "Unlink" -> [t EXCEPT !.dirs = [@ EXCEPT ![op.name] = NoInode]]
      [] OTHER -> IF Valid(t, op)
                  THEN PutInode(t, op.inode, NewRecord(t.inodes[op.inode], op))
                  ELSE t
=============================================================================
