------------------------------ MODULE MC_IntelHex ------------------------------
(***************************************************************************)
(* Checks the writers of IntelHexFile against its reader.  Each step adds  *)
(* data at an address, as a patch does, so the image ranges over what      *)
(* add_data_at_address can build from an empty file around a 64 KiB       *)
(* boundary; the invariants save it and load it back.                      *)
(***************************************************************************)
EXTENDS IntelHex

CONSTANTS Addr,       \* addresses data may be added at
          Vals,       \* byte values
          MaxData,    \* longest data added in one call
          MaxBlocks   \* number of distinct block addresses

VARIABLE img

NewFile == [data |-> EmptyDict, memory_blocks |-> EmptyDict, start_address |-> 0]

Init == img = NewFile

\* add_data_at_address(address, data); a further block address only while
\* fewer than MaxBlocks exist.
AddData == \E address \in Addr, data \in BoundedSeq(Vals, MaxData) :
              /\ address \in DOMAIN img.memory_blocks
                 \/ Cardinality(DOMAIN img.memory_blocks) < MaxBlocks
              /\ img' = add_data_at_address(img, address, data)

Next == AddData

Spec == Init /\ [][Next]_img

\* The file the image is saved to, read back by load_from_file.
Reloaded(lines) == load_from_file(lines)

\* A block fits in one record and no two blocks overlap: the shape of the
\* blocks load_from_file produces from a file of disjoint records.
RecordShaped(blocks) ==
    /\ \A a \in DOMAIN blocks : Len(blocks[a]) \in 1..MAX_RECORD_BYTES
    /\ \A a, b \in DOMAIN blocks :
          a < b => a + Len(blocks[a]) <= b

\* The bytes the blocks denote, when they do not overlap.
BlocksData(blocks) ==
    [a \in UNION {{s + i - 1 : i \in 1..Len(blocks[s])} : s \in DOMAIN blocks} |->
        LET s == CHOOSE s \in DOMAIN blocks : a - s \in 0..(Len(blocks[s]) - 1)
        IN  blocks[s][a - s + 1]]

\* Saving through memory blocks (the path save_to_file takes whenever there
\* are blocks) and loading again gives back every byte and every block,
\* across the 64 KiB boundary and its Extended Linear Address records, as
\* long as the blocks are shaped like the records they were loaded from
\* and hold every byte of self.data.
RecordBlocksRoundTrip ==
    RecordShaped(img.memory_blocks) /\ img.data = BlocksData(img.memory_blocks) =>
        LET back == Reloaded(get_memory_block_data_record(img) \o <<EofLine>>)
        IN  /\ back.data = img.data
            /\ back.memory_blocks = img.memory_blocks

\* get_individual_byte_data_record groups the sorted byte addresses into
\* runs of consecutive addresses of at most 16 (here MAX_RECORD_BYTES)
\* bytes inside one 64 KiB segment; reading its records back gives exactly
\* the bytes of self.data.
ByteRecordsRoundTrip ==
    Reloaded(get_individual_byte_data_record(img) \o <<EofLine>>).data = img.data

=============================================================================
