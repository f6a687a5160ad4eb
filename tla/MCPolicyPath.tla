---------------------------- MODULE MCPolicyPath -----------------------------
(* An instance of PolicyPath for TLC: every form of text, up to one slot    *)
(* beyond the limit, and every other operation the codec knows.             *)
EXTENDS PolicyPath

id1 == <<1, 2>>
id2 == <<3, 0>>

\* The digits of id1, the high half cut short and set off by a dash.
Disk(text) == [word |-> "disk:", text |-> text]
Text1      == <<2, Dash>> \o Zeros(15) \o <<1>>

Nvme    == [word |-> "nvme"]
Singles == {[word |-> w] : w \in {"any", "hdd", "ssd", "tape"}}
               \cup {Disk(<<>>), Disk(<<1>> \o Zeros(32))}
Lists   == {<<Nvme, Disk(Text1)>>, <<Disk(Text1), Nvme>>, <<Nvme, Disk(Text1), Nvme>>}

MCSpecs ==
    {[form |-> "empty"]}
        \cup {[form |-> "rs", k |-> k, m |-> 2] : k \in {4, 256}}
        \cup {[form |-> "count", n |-> n] : n \in 0 .. MaxSelect + 1}
        \cup {[form |-> "list", terms |-> t] :
                  t \in {<<term>> : term \in Singles} \cup Lists}

Chunk  == [chunk_seq |-> 1, len |-> 5, checksum |-> 9,
           replicas |-> <<[disk |-> id1, offset |-> 7], [disk |-> id2, offset |-> 8]>>]
Piece(offset) == [file_offset |-> offset, len |-> 5, checksum |-> 9,
                  replicas |-> <<[disk |-> id2, offset |-> 7]>>]
Entry(data, state) == [roles |-> [data |-> data, metadata |-> ~data], state |-> [tag |-> state],
                       class |-> [tag |-> "Nvme"], weight |-> 3, used_bytes |-> 1,
                       capacity_bytes |-> 6]

MCRecord == [inode |-> 2, mode |-> [tag |-> "AppendOnly"], size |-> 0,
             redundancy |-> Replicated(<<AnySlot, AnySlot>>),
             data |-> [tag |-> "ChunkLog", chunks |-> <<>>],
             uid |-> 4, gid |-> 5, unix_mode |-> 6, mtime_unix |-> 7]

MCOthers == {
    [tag |-> "Link", parent |-> 1, name |-> <<97, 98>>, child |-> 2],
    [tag |-> "Unlink", parent |-> 1, name |-> <<97>>],
    [tag |-> "AppendChunk", inode |-> 2, chunk |-> Chunk],
    [tag |-> "BeginConvert", inode |-> 2],
    [tag |-> "CompleteConvert", inode |-> 2, extents |-> <<Piece(0)>>],
    [tag |-> "UpdateExtents", inode |-> 2, extents |-> <<Piece(0), Piece(5)>>],
    [tag |-> "UpdateExtents", inode |-> 2, extents |-> <<>>],
    [tag |-> "PoolMapChange", map |-> [epoch |-> 3,
        disks |-> [id \in {id1, id2} |-> Entry(id = id1, IF id = id1 THEN "Active" ELSE "Dead")]]],
    [tag |-> "MetaGroupChange", group |-> [primary |-> id1, backup |-> None, epoch |-> 1]],
    [tag |-> "MetaGroupChange", group |-> [primary |-> id1, backup |-> [some |-> id2], epoch |-> 1]]}

MCOrders == {<<id1, id2>>, <<id2, id1>>}
=============================================================================
