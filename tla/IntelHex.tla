------------------------------- MODULE IntelHex -------------------------------
(***************************************************************************)
(* The Intel HEX classes of tools/cmake/intel_hex_utils.py.                *)
(*                                                                         *)
(* An IntelHexFile is a record of its two stores: data, a function from    *)
(* addresses to byte values (the dict self.data), and memory_blocks, a     *)
(* function from block start addresses to byte sequences.  A HEX file is   *)
(* a sequence of lines; a line is the record it encodes together with its  *)
(* checksum field.  to_hex_line prints every field at a fixed width        *)
(* (:%02X%04X%02X<data>%02X) and from_line reads the fields back at the    *)
(* same offsets, so a line is modelled by those fields; a field printed    *)
(* wider than its slot (an address above 0xFFFF) shifts every later field  *)
(* and the line is rejected as invalid.                                    *)
(***************************************************************************)
EXTENDS Integers, Sequences, SequencesExt, FiniteSets

CONSTANT MAX_RECORD_BYTES    \* data bytes per record written by save_to_file (16)

\* An empty dict.
EmptyDict == [a \in {} |-> 0]

\* int.from_bytes(bs, 'big')
FromBytesBig(bs) == FoldLeft(LAMBDA acc, b : acc * 256 + b, 0, bs)

\* int.to_bytes(2, 'big')
ToBytes2(n) == <<n \div 256, n % 256>>

\* addr & 0xFFFF0000, for the 32-bit addresses of a HEX file.
UpperHalf(addr) == addr - (addr % 65536)

IntelHexRecord(byte_count, address, record_type, data) ==
    [byte_count |-> byte_count, address |-> address,
     record_type |-> record_type, data |-> data]

\* (0x100 - (sum of the fields & 0xFF)) & 0xFF
calculate_checksum(r) ==
    (256 - ((r.byte_count + (r.address \div 256) + (r.address % 256) + r.record_type
             + FoldSeq(+, 0, r.data)) % 256)) % 256

to_hex_line(r) ==
    [byte_count |-> r.byte_count, address |-> r.address,
     record_type |-> r.record_type, data |-> r.data,
     checksum |-> calculate_checksum(r)]

\* IntelHexRecord.from_line succeeds: the fields sit at their offsets and
\* the checksum matches; otherwise it raises ValueError.
ParsesAsRecord(line) ==
    /\ line.address <= 65535
    /\ line.byte_count = Len(line.data)
    /\ line.checksum = calculate_checksum(line)

\* self.data[address + i] = byte_val for every byte of bs.
PutBytes(d, address, bs) ==
    [a \in {address + i - 1 : i \in 1..Len(bs)} |-> bs[a - address + 1]] @@ d

\* One iteration of the loop of load_from_file, with the loop's state in
\* st: the two stores, current_extended_addr and whether EOF was seen.
LoadLine(st, line) ==
    IF st.eof \/ ~ParsesAsRecord(line) THEN st      \* after break; except ValueError: continue
    ELSE CASE line.record_type = 0 ->
                LET base_addr == st.ext + line.address
                IN  [st EXCEPT !.data = PutBytes(@, base_addr, line.data),
                               !.memory_blocks = IF line.data = <<>> THEN @
                                                 ELSE (base_addr :> line.data) @@ @]
           [] line.record_type = 1 -> [st EXCEPT !.eof = TRUE]
           [] line.record_type = 2 -> [st EXCEPT !.ext = FromBytesBig(line.data) * 16]
           [] line.record_type = 4 -> [st EXCEPT !.ext = FromBytesBig(line.data) * 65536]
           [] line.record_type = 5 -> [st EXCEPT !.start_address = FromBytesBig(line.data)]
           [] OTHER -> st

\* IntelHexFile() followed by load_from_file of a file holding lines.
load_from_file(lines) ==
    LET st == FoldLeft(LoadLine,
                       [data |-> EmptyDict, memory_blocks |-> EmptyDict,
                        start_address |-> 0, ext |-> 0, eof |-> FALSE],
                       lines)
    IN  [data |-> st.data, memory_blocks |-> st.memory_blocks,
         start_address |-> st.start_address]

merge_with(self, other) ==
    [self EXCEPT !.data = other.data @@ @,
                 !.memory_blocks = other.memory_blocks @@ @]

add_data_at_address(self, address, data) ==
    [self EXCEPT !.data = PutBytes(@, address, data),
                 !.memory_blocks = (address :> data) @@ @]

\* The Extended Linear Address record written when the upper half of the
\* address changes; current_extended_addr = None is -1.
ExtendedAddressLines(extended_addr, current) ==
    IF extended_addr # current /\ extended_addr > 65535
    THEN <<to_hex_line(IntelHexRecord(2, 0, 4, ToBytes2(extended_addr \div 65536)))>>
    ELSE <<>>

\* Mutant of ChunkLines: record_addr keeps the upper address bits.
RECURSIVE ChunkLinesUnmasked(_, _, _)
ChunkLinesUnmasked(addr, data, offset) ==
    IF offset >= Len(data) THEN <<>>
    ELSE LET chunk_size == IF MAX_RECORD_BYTES < Len(data) - offset
                           THEN MAX_RECORD_BYTES ELSE Len(data) - offset
         IN  <<to_hex_line(IntelHexRecord(chunk_size, addr + offset, 0,
                                          SubSeq(data, offset + 1, offset + chunk_size)))>>
             \o ChunkLinesUnmasked(addr, data, offset + chunk_size)

\* The while loop cutting one memory block into data records.
RECURSIVE ChunkLines(_, _, _)
ChunkLines(addr, data, offset) ==
    IF offset >= Len(data) THEN <<>>
    ELSE LET chunk_size == IF MAX_RECORD_BYTES < Len(data) - offset
                           THEN MAX_RECORD_BYTES ELSE Len(data) - offset
         IN  <<to_hex_line(IntelHexRecord(chunk_size, (addr + offset) % 65536, 0,
                                          SubSeq(data, offset + 1, offset + chunk_size)))>>
             \o ChunkLines(addr, data, offset + chunk_size)

\* The for loop over the sorted block addresses.
RECURSIVE BlockLines(_, _, _)
BlockLines(blocks, addresses, current) ==
    IF addresses = <<>> THEN <<>>
    ELSE LET addr == Head(addresses)
         IN  ExtendedAddressLines(UpperHalf(addr), current)
             \o ChunkLines(addr, blocks[addr], 0)
             \o BlockLines(blocks, Tail(addresses), UpperHalf(addr))

get_memory_block_data_record(self) ==
    BlockLines(self.memory_blocks, SetToSortSeq(DOMAIN self.memory_blocks, <), -1)

\* Mutant of RunLength: addresses[i] == start_addr + byte_count is not
\* tested, so a gap between addresses does not end the record.
RECURSIVE RunLengthWithGaps(_, _, _, _)
RunLengthWithGaps(addresses, i, extended_addr, byte_count) ==
    IF /\ i + byte_count <= Len(addresses)
       /\ byte_count < MAX_RECORD_BYTES
       /\ UpperHalf(addresses[i + byte_count]) = extended_addr
    THEN RunLengthWithGaps(addresses, i, extended_addr, byte_count + 1)
    ELSE byte_count

\* The inner while loop of get_individual_byte_data_record: how many
\* consecutive addresses from index i go into one record.
RECURSIVE RunLength(_, _, _, _)
RunLength(addresses, i, extended_addr, byte_count) ==
    IF /\ i + byte_count <= Len(addresses)
       /\ byte_count < MAX_RECORD_BYTES
       /\ addresses[i + byte_count] = addresses[i] + byte_count
       /\ UpperHalf(addresses[i + byte_count]) = extended_addr
    THEN RunLength(addresses, i, extended_addr, byte_count + 1)
    ELSE byte_count

\* The outer while loop of get_individual_byte_data_record from index i.
RECURSIVE ByteLines(_, _, _, _)
ByteLines(data, addresses, i, current) ==
    IF i > Len(addresses) THEN <<>>
    ELSE LET start_addr    == addresses[i]
             extended_addr == UpperHalf(start_addr)
             byte_count    == RunLength(addresses, i, extended_addr, 0)
         IN  ExtendedAddressLines(extended_addr, current)
             \o <<to_hex_line(IntelHexRecord(byte_count, (start_addr % 65536), 0,
                                  [k \in 1..byte_count |-> data[addresses[i + k - 1]]]))>>
             \o ByteLines(data, addresses, i + byte_count, extended_addr)

get_individual_byte_data_record(self) ==
    ByteLines(self.data, SetToSortSeq(DOMAIN self.data, <), 1, -1)

EofLine == to_hex_line(IntelHexRecord(0, 0, 1, <<>>))

\* The lines save_to_file writes, or old (the file is left as it was) when
\* both stores are empty and it returns early.
save_to_file(self, old) ==
    IF DOMAIN self.data = {} /\ DOMAIN self.memory_blocks = {} THEN old
    ELSE (IF DOMAIN self.memory_blocks # {}
          THEN get_memory_block_data_record(self)
          ELSE get_individual_byte_data_record(self))
         \o <<EofLine>>
=============================================================================
