------------------------------ MODULE MetaCodec ------------------------------
(***************************************************************************)
(* The layouts of codec.rs.  What a function writes is listed in the order *)
(* of its statements, and so is what its counterpart reads.                *)
(***************************************************************************)
EXTENDS Codec

EncodeDiskClass == Units(<<"Hdd", "Ssd", "Nvme">>)
DecodeDiskClass == Units(<<"Hdd", "Ssd", "Nvme">>)

EncodeReplicaSlot == OneOf(<<
    <<"Any", <<>>>>,
    <<"Class", <<<<"class", EncodeDiskClass>>>>>>,
    <<"Pinned", <<<<"id", UuidLayout>>>>>> >>)
DecodeReplicaSlot == OneOf(<<
    <<"Any", <<>>>>,
    <<"Class", <<<<"class", DecodeDiskClass>>>>>>,
    <<"Pinned", <<<<"id", UuidLayout>>>>>> >>)

EncodeRedundancyScheme == OneOf(<<
    <<"Replicated", <<<<"slots", Vec(EncodeReplicaSlot)>>>>>>,
    <<"ErasureCoded", <<<<"data_shards", U(1)>>, <<"parity_shards", U(1)>>>>>> >>)
DecodeRedundancyScheme == OneOf(<<
    <<"Replicated", <<<<"slots", Vec(DecodeReplicaSlot)>>>>>>,
    <<"ErasureCoded", <<<<"data_shards", U(1)>>, <<"parity_shards", U(1)>>>>>> >>)

EncodeInodeMode == Units(<<"AppendOnly", "Converting", "Writable">>)
DecodeInodeMode == Units(<<"AppendOnly", "Converting", "Writable">>)

EncodeReplicaOffsets == Vec(Struct(<<<<"disk", UuidLayout>>, <<"offset", U(8)>>>>))
DecodeReplicaOffsets == Vec(Struct(<<<<"disk", UuidLayout>>, <<"offset", U(8)>>>>))

EncodeChunkPointer == Struct(<<
    <<"chunk_seq", U(8)>>, <<"replicas", EncodeReplicaOffsets>>,
    <<"len", U(4)>>, <<"checksum", U(4)>> >>)
DecodeChunkPointer == Struct(<<
    <<"chunk_seq", U(8)>>, <<"replicas", DecodeReplicaOffsets>>,
    <<"len", U(4)>>, <<"checksum", U(4)>> >>)

EncodeExtent == Struct(<<
    <<"file_offset", U(8)>>, <<"len", U(4)>>,
    <<"replicas", EncodeReplicaOffsets>>, <<"checksum", U(4)>> >>)

(* Mutant of DecodeExtent: the order of fields of a chunk pointer.          *)
DecodeExtentLikeChunk == Struct(<<
    <<"file_offset", U(8)>>, <<"replicas", DecodeReplicaOffsets>>,
    <<"len", U(4)>>, <<"checksum", U(4)>> >>)

DecodeExtent == Struct(<<
    <<"file_offset", U(8)>>, <<"len", U(4)>>,
    <<"replicas", DecodeReplicaOffsets>>, <<"checksum", U(4)>> >>)

EncodeDataLocator == OneOf(<<
    <<"ChunkLog", <<<<"chunks", Vec(EncodeChunkPointer)>>>>>>,
    <<"Extents", <<<<"extents", Vec(EncodeExtent)>>>>>> >>)
DecodeDataLocator == OneOf(<<
    <<"ChunkLog", <<<<"chunks", Vec(DecodeChunkPointer)>>>>>>,
    <<"Extents", <<<<"extents", Vec(DecodeExtent)>>>>>> >>)

EncodeInodeRecord == Struct(<<
    <<"inode", U(8)>>, <<"mode", EncodeInodeMode>>, <<"size", U(8)>>,
    <<"redundancy", EncodeRedundancyScheme>>, <<"data", EncodeDataLocator>>,
    <<"uid", U(4)>>, <<"gid", U(4)>>, <<"unix_mode", U(4)>>, <<"mtime_unix", U(8)>> >>)
DecodeInodeRecord == Struct(<<
    <<"inode", U(8)>>, <<"mode", DecodeInodeMode>>, <<"size", U(8)>>,
    <<"redundancy", DecodeRedundancyScheme>>, <<"data", DecodeDataLocator>>,
    <<"uid", U(4)>>, <<"gid", U(4)>>, <<"unix_mode", U(4)>>, <<"mtime_unix", U(8)>> >>)

EncodeDiskState == Units(<<"Active", "Draining", "Dead">>)
DecodeDiskState == Units(<<"Active", "Draining", "Dead">>)

EncodeDiskEntry == Struct(<<
    <<"roles", Roles>>, <<"state", EncodeDiskState>>, <<"class", EncodeDiskClass>>,
    <<"weight", U(8)>>, <<"used_bytes", U(8)>>, <<"capacity_bytes", U(8)>> >>)
DecodeDiskEntry == Struct(<<
    <<"roles", Roles>>, <<"state", DecodeDiskState>>, <<"class", DecodeDiskClass>>,
    <<"weight", U(8)>>, <<"used_bytes", U(8)>>, <<"capacity_bytes", U(8)>> >>)

EncodePoolMap == Struct(<<<<"epoch", U(8)>>, <<"disks", MapOf(EncodeDiskEntry)>>>>)
DecodePoolMap == Struct(<<<<"epoch", U(8)>>, <<"disks", MapOf(DecodeDiskEntry)>>>>)

EncodeMetaGroup == Struct(<<
    <<"primary", UuidLayout>>, <<"backup", Optional(UuidLayout)>>, <<"epoch", U(8)>> >>)
DecodeMetaGroup == Struct(<<
    <<"primary", UuidLayout>>, <<"backup", Optional(UuidLayout)>>, <<"epoch", U(8)>> >>)

EncodeOp == OneOf(<<
    <<"CreateInode", <<<<"record", EncodeInodeRecord>>>>>>,
    <<"Link", <<<<"parent", U(8)>>, <<"name", Vec(U(1))>>, <<"child", U(8)>>>>>>,
    <<"Unlink", <<<<"parent", U(8)>>, <<"name", Vec(U(1))>>>>>>,
    <<"AppendChunk", <<<<"inode", U(8)>>, <<"chunk", EncodeChunkPointer>>>>>>,
    <<"BeginConvert", <<<<"inode", U(8)>>>>>>,
    <<"CompleteConvert", <<<<"inode", U(8)>>, <<"extents", Vec(EncodeExtent)>>>>>>,
    <<"SetRedundancyScheme", <<<<"inode", U(8)>>, <<"scheme", EncodeRedundancyScheme>>>>>>,
    <<"PoolMapChange", <<<<"map", EncodePoolMap>>>>>>,
    <<"MetaGroupChange", <<<<"group", EncodeMetaGroup>>>>>>,
    <<"UpdateExtents", <<<<"inode", U(8)>>, <<"extents", Vec(EncodeExtent)>>>>>> >>)
DecodeOp == OneOf(<<
    <<"CreateInode", <<<<"record", DecodeInodeRecord>>>>>>,
    <<"Link", <<<<"parent", U(8)>>, <<"name", Vec(U(1))>>, <<"child", U(8)>>>>>>,
    <<"Unlink", <<<<"parent", U(8)>>, <<"name", Vec(U(1))>>>>>>,
    <<"AppendChunk", <<<<"inode", U(8)>>, <<"chunk", DecodeChunkPointer>>>>>>,
    <<"BeginConvert", <<<<"inode", U(8)>>>>>>,
    <<"CompleteConvert", <<<<"inode", U(8)>>, <<"extents", Vec(DecodeExtent)>>>>>>,
    <<"SetRedundancyScheme", <<<<"inode", U(8)>>, <<"scheme", DecodeRedundancyScheme>>>>>>,
    <<"PoolMapChange", <<<<"map", DecodePoolMap>>>>>>,
    <<"MetaGroupChange", <<<<"group", DecodeMetaGroup>>>>>>,
    <<"UpdateExtents", <<<<"inode", U(8)>>, <<"extents", Vec(DecodeExtent)>>>>>> >>)
=============================================================================
