# TLA+ models of the ISP tool and its frame codec

This directory holds TLA+ models of these parts of the repository:
- `src/tridentiot-sdk/z-wave/tools/isp_tool.py`, the in-system-programming
  (ISP) client that talks to the bootROM of a secure microcontroller over a
  serial port;
- the Intel HEX build tools under `src/tridentiot-sdk/tools/cmake`
  (`intel_hex_utils.py`, `merge_hexfiles.py`, `tokens_patch.py`) and the
  bootloader/application merge built on them (`bootloader_app_merge.py`);
- the image signer `tools/cmake/sign_binary.py`;
- the secure-boot tools: `tools/cmake/public_key_json.py`, which writes the
  bootloader key as a token data file for `tokens_patch.py`, and
  `z-wave/tools/bootloader_image_signer.py`, which builds the signed
  bootloader image.

Every module is written from the Python source. `PROJECT.json` maps each
definition to the lines it models.

## 1. The system

### Parts

| Part | Source | State | Operations |
|---|---|---|---|
| Frame codec | `isp_tool.py` 59-121 | none (pure) | `calculate_checksum`, `calculate_crc8`, `calculate_crc16_ccitt`, `encode_isp_cmd`, `creat_isp_frame` |
| Payload builders | `isp_tool.py` 124-155 | none | `request_debug_secure_debug`, `send_challenge_response` (used); `create_write_key_cmd`, `create_earse_secure_page`, `read_register(seq)` (never called) |
| Handshake | `main()` 510-544 | `link_phase`, the attempt counter, the port's input buffer | the for loop: reset input, write 0xAA or 0x69, flush, `read(1)`, compare |
| Command executor | `ISP.send_cmd`, `ISP.execute_cmd` 189-214 | port timeout, input buffer | write, flush, timed read of `rx_count` bytes, buffer reset, optional status check with up to 3 attempts |
| Register/OTP layer | `ISP` 216-340 | `sequence_number`, `confirm` | `get_flash_id`, `read_register`, `verify_bootloader_signature`, `write_register`, `_write_otp_register`, `_write_otp_key`, the key write and key read wrappers |
| Secure debug | `ISP.enable_debug_interface` 393-432, `test_adac` 342-391 | none | request 0x0F, slice the challenge, sign, send 0x10 |
| CLI session | `main()` 442-625 | the CLI arguments, the port | open the port, handshake (with `--confirm` only), `ISP(...)`, `get_flash_id`, dispatch on the command and key name, `ser.close()`, the `sys.exit` paths, the `except` handlers |
| Intel HEX utilities | `tools/cmake/intel_hex_utils.py`, `merge_hexfiles.py` | `self.data` (address to byte) and `self.memory_blocks` (start address to bytes) | `load_from_file`, `merge_with`, `add_data_at_address`, `save_to_file` |
| Token patcher | `tools/cmake/tokens_patch.py` | the HEX files of the build | `patch_hex_file` (--address, --token), `patch_multiple_tokens` (--multi-token) |
| Bootloader/app merge | `tools/cmake/bootloader_app_merge.py` | the input binaries, `combo.bin`, the `.hex` files | `main()`: pad the bootloader to 32 KiB, append the application, objcopy both binaries to HEX and merge them |
| Binary signing | `tools/cmake/sign_binary.py` | the input, a temporary .bin and .der, the output | `main()`: stamp the length, openssl, `extract_key`, `align_to_256_bytes`, write; optional lzma compression |
| Bootloader image signer | `z-wave/tools/bootloader_image_signer.py` | the input files, the output image | `main()`: read the bootloader, openssl's public key, parse the option bytes, `build_certificate_1`, `build_signed_bootloader`, write |
| Public key token file | `tools/cmake/public_key_json.py` | the DER key, the AES key file, the JSON output | `main()`: getopt, `extract_key`, `parse_encryption_key`, `write_to_json` with `bytes_to_hex` |
| Ozone project generator | `tools/cmake/gen_ozone_project.py` | none | renders a jinja template |

### How they interact

`main()` opens the port with a 1 ms timeout. With `--confirm` it runs the
handshake, and exits with -100 if no 0x6A arrives within the attempt budget.
It then creates `ISP(ser, confirm)`, whose sequence number starts at 1, and
always issues `get_flash_id`. Depending on the command it then does one of:
- 16 `read_register` calls for `key read` of root (OTP2 words 0-15) or
  adac (words 16-31), and "Unknown key name" for another name;
- one confirm-gated `_write_otp_key` for `key write` of root (offset 0x00)
  or adac (offset 0x40), and nothing for another name;
- a confirm-gated `verify_bootloader_signature` for `key verify`;
- the two-frame debug exchange for `debug`;
- nothing on the link, for `test` and `register`.

After that it closes the port. The whole of this runs inside one `try`:
a `SerialException` (a port that cannot be opened, or a device unplugged
during a read or write) and Ctrl+C (`KeyboardInterrupt`) go to handlers that
only print, and `main()` returns without `ser.close()`.

Every operation builds a frame with the current sequence number and then
increments the counter. This happens before the confirm gate. The operation
then calls `execute_cmd(frame, None, ...)`. Every call in the program passes
`status=None`, so `execute_cmd` writes, reads until `rx_count` bytes or the
timeout, resets both buffers and returns `True`. Its status comparison and
retry loop are never reached.

The HEX tools run one after another in a build, and each rewrites a file
that a later one reads:
- `merge_hexfiles.main` loads two files, merges the second into the first
  (`merge_with`) and saves the result;
- `tokens_patch.py` loads a file, adds token values (`add_data_at_address`)
  and saves it, through a temporary file when input and output are the same;
- `sign_binary.py` stamps a binary's length into it, has openssl sign it and
  appends the id, the length and the signature, aligned to 256 bytes;
- `bootloader_app_merge.main` writes `combo.bin` (the bootloader padded to
  32 KiB, then the application) and, with `-f -s -j`, runs objcopy on each
  binary and `merge_hexfiles.main` on the two results to write `combo.hex`.

The secure-boot tools hand data to each other as text and bytes:
- `public_key_json.py` cuts X and Y out of the DER public key at fixed
  offsets, reverses them and writes them, with an optional AES key, as
  `"0xAB CD ..."` strings of `value_type` "hex"; `tokens_patch.py
  --multi-token` reads that file back with `parse_token_value`, which
  removes the spaces and "0x" and calls `bytes.fromhex`;
- `bootloader_image_signer.py` pads the bootloader to 256 bytes and appends
  certificate 1 (`"@$PK"`, its length, the bootloader key from openssl, the
  option bytes, the root key's signature), then `"SFSR"`, the length of
  everything so far and the bootloader key's signature. The bootROM finds
  the signatures through the two length fields.

`IntelHexFile` keeps every byte twice:
- `self.data`, where the last write wins;
- `self.memory_blocks`, keyed by the address each block was loaded or added
  at.

`save_to_file` writes only the blocks whenever there are any.

### What makes it hard

The client is single-threaded, but the serial link and the device are two more
actors:
- device answers can arrive after the read that waited for them has timed out
  (the handshake read waits only 1 ms);
- bytes can be lost or corrupted;
- the input buffer is reset only at some points.

Which bytes end up in which response is therefore decided by the interleaving
of the client's reads and resets with the arrivals. No unit test reaches this.

In the HEX tools, what a saved file holds depends on three things:
- the order of earlier loads, merges and patches;
- where blocks start;
- how long they are, relative to records and to 64 KiB segments.

Tests use aligned inputs and short patches, so they rarely meet this.

## 2. Modules

| Module | Models | Notes |
|---|---|---|
| `IspFrame` | the frame codec | pure operators. `Xor`/`Bit` stand for Python's `^`/`&`. The byte loops of the CRCs are recursive functions. A reference decoder (`Unstuff`, `DecodeIspFrame`) and a CRC by polynomial long division (`CrcRef`) are written from the mathematics, not from the code. |
| `MC_IspFrame` | one frame built per step | state is the sequence number, the payload and the encoded frame |
| `HandshakeAbstract` | what the handshake promises | `hsState` goes from idle to ready (only while `devReady`) or to failed; the device enters ISP mode at most once |
| `Handshake` | the handshake loop, the link and the bootROM | see below |
| `MC_Handshake` | instance and properties of `Handshake` | |
| `IspSession` | a whole run of `main()` | EXTENDS `Handshake`; adds `execute_cmd`, the ISP methods `main()` calls, the `except` handlers, and the device's ISP mode |
| `MC_IspSession` | instance and properties of `IspSession` | |
| `IntelHex` | `IntelHexRecord` and `IntelHexFile` | pure operators, one per method, with `self` as a record `[data, memory_blocks, start_address]`. A line is the record's fields plus its checksum: `to_hex_line` prints fixed-width fields and `from_line` reads them back at the same offsets. A line whose address does not fit in 4 digits is rejected, as `from_line` rejects a misaligned line. The loops are recursive operators or `FoldLeft`; `sorted(...)` is `SetToSortSeq`. |
| `MC_IntelHex` | the writers checked against the reader | state is an image built by `add_data_at_address` calls |
| `HexTools` | the three tool invocations of a build | EXTENDS `IntelHex` |
| `MC_HexTools` | instance and properties of `HexTools` | |
| `BinMerge` | `bootloader_app_merge.py` | EXTENDS `HexTools`; see below |
| `MC_BinMerge` | instance and properties of `BinMerge` | |
| `SignBinary` | `sign_binary.py` without `-c` | one action, `sign_binary_main`, for the whole of `main()`; openssl either fails or writes `Der(r, s)`, the minimal DER encoding of the signature |
| `MC_SignBinary` | instance and property of `SignBinary` | `RefImage`, the layout the docstring of `main()` describes, written independently of the code |
| `PySeq` | Python's `s[a:b]` | shared by the modules that slice DER files |
| `TokenValue` | `tokens_patch.parse_token_value` and the Python text conversions under it | a hex value is a sequence of one-character strings; `str.replace`, `str.strip` and `bytes.fromhex` (which skips whitespace between byte pairs) are modelled by what they do |
| `PublicKeyJson` | `public_key_json.py` | one action, `main`; see below |
| `BootloaderImageSigner` | `bootloader_image_signer.py` | one action, `main`; see below |
| `MC_SigningTools` | both tools, side by side | each runs once; `JsonTokensReadBack` reads the JSON back with `TokenValue`, and `SignedImageLayout` takes the image apart from its length fields |

### `Handshake`

The client variables are:
- `linkPhase`, which is `link_phase`;
- `hsPc`, one of send, read, ok or failed;
- `attempt`, the loop variable;
- `waitedMs`, a history variable: the time spent in timed-out reads.

The client actions are:
- `HsSend`: `reset_input_buffer`, `write`, `flush`;
- `HsRead`: `read(1)` and the comparison with 0x55 or 0x6A;
- `HsGiveUp`: the loop is exhausted and the program reaches `sys.exit(-100)`.

The link is modelled by:
- `toDevice`, the frames and bytes written to the device;
- `toHost`, the chunks the device has sent;
- `rx`, the port's input buffer;
- the actions `Deliver`, `LoseToDevice`, `LoseToHost` and `Glitch`. Losses and
  glitches are bounded by `MaxLoss` and `MaxNoise`.

`LateReplies` decides whether a read may return before the device has answered
and the answer has arrived.

The bootROM is not code of this repository. Its behaviour is an assumption
taken from the protocol, and it is deliberately permissive:
- off: ignores everything;
- boot: answers 0xAA with 0x55;
- acked: answers 0xAA with 0x55 and 0x69 with 0x6A, and enters ISP mode;
- ISP mode: answers every further 0x69 with 0x6A.

`Abs` maps the state onto `HandshakeAbstract`: send and read map to idle, ok to
ready, failed to failed, and `devReady` is `devMode = "isp"`.

### `IspSession`

`IspSession` adds the following session variables:
- `confirm`, `command` and `pemOk`, the CLI inputs chosen in `Init`
  (`command` folds in the key action and `--name`: "key_read_adac",
  "key_write_other", ...);
- `pc`, the position in `main()`;
- `seqNo`, which is `sequence_number`;
- `ePc`, `eFrame` and `resp`, the state of `execute_cmd`;
- `flashId`, `words` and `challenge`, the values sliced out of responses;
- `devLog`, a history of the frames the device consumed.

A frame is abstracted to its sequence number, opcode and argument: the
register address of a key read (`OTP2_BASE_ADDRESS + index * 4`), the key
offset of an OTP key write, 0 otherwise. The device's reply to
frame `s` is bytes 0..`REPLY_LEN`-1, each labelled `[sq |-> s, off |-> k]` and
sent in two chunks. That labelling makes it possible to say which reply every
byte of a response came from. `PySlice` is Python slicing.

The actions follow the methods one to one. Each `*Done` action is the part of
a method that runs after `execute_cmd` has returned:
- `GetFlashId` and `GetFlashIdDone`;
- `ReadRegister` and `ReadRegisterDone`, which include the `for index in
  range(16)` loop;
- `WriteOtpKey` and `VerifyBootloaderSignature`, both through `GatedOp`, with
  the sequence number incremented before the confirm gate;
- `RequestDebug`, `SendChallengeResponse` and `DebugDone`;
- `DebugPemCheck`, whose failure branch is `sys.exit(1)`;
- `OpenPort` (`serial.Serial(...)`) and `Close`;
- `SerialError` and `Interrupt`, the `except` clauses, possible only with
  the constant `Faults`. A `SerialException` can happen while the port does
  I/O (`DoingIo`: opening, a handshake attempt, `send_cmd` and the buffer
  resets); a `KeyboardInterrupt` at any point before `main()` ends. Both
  take `Abort`: the exception unwinds `execute_cmd` (`ePc` back to idle) and
  `pc` becomes "excepted". `SerialTimeoutException` is only raised by a
  write with a `write_timeout`, which `main()` never sets, so it is not an
  action.

`execute_cmd` itself is `ExecTx`, `ExecRx` and `ExecReset`. The read and the
reset are separate steps because bytes can arrive between them.

### `HexTools`

`HexTools` has these variables:
- `files`, the lines of every file;
- `saved`, a history variable: the `self.data` of the image last saved to
  each file;
- `lastRun`, what the last invocation did;
- `runs`, a bound on the number of invocations.

Each tool invocation is one action. It loads, changes the image and saves,
and it includes every error exit:
- `merge_hexfiles_main` is `merge_hexfiles.main`.
- `patch_hex_file` is `process_single_data_args` followed by
  `patch_hex_file`. An unknown token or an oversized value ends in
  `sys.exit(1)` before anything is written.
- `patch_multiple_tokens` is `process_multi_token_args` followed by
  `patch_multiple_tokens`. Its loop is `PatchToken`:
  - an undefined name is skipped;
  - a rejected or oversized value raises, and nothing is saved.

A file may be `Missing` (not there yet). `merge_hexfiles.main` then raises
`FileNotFoundError` on a missing input and creates a missing output;
`tokens_patch.main` prints "does not exist, skipping tokens patch" and
returns, for a missing input and for a missing output alike
(`PatchTargetsExist`).

Token definitions are given as addresses and sizes. A hex string, whether a
`--data` argument or a token value of type "hex", is a sequence of
characters, parsed by `TokenValue!ParseHex`: spaces and "0x" removed, the
odd-length `ValueError`, then `bytes.fromhex`. `parse_token_value` covers the "hex", "int" (0..255) and "ascii" types and
rejects any other. A token data file is a sequence of entries in
`json.load`'s order, each token named once, as in a JSON object.

### `BinMerge`

`BinMerge` adds to the `HexTools` state:
- `bins`, each binary's content: a byte sequence, `Absent` (no such file) or
  `Unreadable` (`open` or `read` raises);
- `combo`, `combo.bin` as `[boot, pad, app]`: the bootloader bytes, the count
  of 0xFF bytes `align_to_32k_bytes` appended, the application bytes;
- `outcome`, the exit status of the last run and whether it printed
  "combo.hex created successfully".

`bootloader_app_merge_main` is the whole of `main()`, in the code's order:
- a missing input returns (status 0) before anything is written;
- `check_for_hex_file_gen` exits 1 when `-f`, `-s` or `-j` is missing or the
  objcopy path does not exist. It is called whatever the options are;
- an unreadable input leaves its data `None`: the output is opened `"wb"`
  and the `TypeError` that follows is only printed, so `combo.bin` is empty
  and the status is 0. An empty input raises `MyCustomError`, which is only
  printed, and its empty data is used;
- otherwise `combo.bin` is written, and `HexStep` runs objcopy on the
  bootloader and on the application (each may fail with `sys.exit(1)`) and
  `merge_hexfiles.main` into `combo.hex`.

`padding_size` keeps the code's `32*2014`. objcopy is an external tool; the
model writes what it produces, the binary's bytes at the address as HEX
records (`ObjcopyHex`), or the end-of-file record alone for an empty binary.
`Relink` lets the build rewrite a binary between two runs.

### `PublicKeyJson` and `BootloaderImageSigner`

Each tool's `main()` is one action from `pc = "start"` to `"done"`, setting
`exitCode` and the file it writes (`jsonFile`, `outFile`) or leaving that
`None`. The branches come in the code's order.

`PublicKeyJson`:
- `argv` abstracts getopt to its five outcomes (error: 2; no options: 3;
  `-h`: 0; no `-o`; usable).
- A missing `-i` file raises.
- An `-e` that is not a file is ignored. A stripped key that is not 32
  characters long exits 1, and one that is not hex raises in `fromhex`.
- Without `-o`, `open(None)` raises.
- Otherwise `write_to_json` writes the X and Y entries, and the AES entry
  only for a non-empty key.

`BootloaderImageSigner`, in the order of `main()`:
- the bootloader is read;
- openssl's output must be `0x04` followed by 64 bytes, or
  `derive_raw_pubkey_from_pem` raises;
- `--option-bytes` falls back to 16 zero bytes when it is absent or empty;
- otherwise the option bytes are stripped, an odd length gets a `"0"` in
  front, and they go through `bytes.fromhex`;
- more than 48 option bytes exit 2;
- the key files must be readable;
- the image is built and written.

Both length fields use `--endian`. The signatures are abstracted to 64
opaque bytes. `r.to_bytes(32, 'little')` always gives 32 bytes, so
`sign_binary.py`'s short-integer bug cannot happen here.

## 3. Runs

All runs are listed in `PROJECT.json`.

**`frame_codec`** (`MC_IspFrame.cfg`, passes, 155 states). The inputs are every
sequence number in {1, 0x52, 0xC0, 0xDB, 0xFF} and every payload of up to 2
bytes over {00, C0, DB, DC, DD}. Those values exercise every escape and the
bytes that resemble escapes. The run checks:
- `FrameRoundTrip`: `DecodeIspFrame(creat_isp_frame(s, p))` is the raw frame;
- `Crc16MatchesReference`: the bitwise loop equals polynomial division, and
  "123456789" gives 0x29B1;
- `Crc8MatchesReference`: likewise, and "123456789" gives 0xBC.

**`handshake_refinement`** (passes, 4786 states). The setting is a budget of 4
attempts, late answers, one lost byte, one glitch byte (0x00 or a stray 0x55),
and every starting mode of the device. The run checks `HandshakeRefinement`:
the loop implements `HandshakeAbstract`, including its fairness. That means:
- the client reports the link up only while the device is in ISP mode;
- it always reaches a verdict.

The code's own budget is not a run: `HANDSHAKE_MAX_ATTEMPTS = 5 *
int(1000 / 0.02) = 250000` at a 1 ms port timeout waits about 250 s against
a silent device, against the 5 s of spec §4.2/§6. That is the arithmetic of
lines 39-41 and 508 alone: a slow failure, not a state a model checker
explores, so it is neither a run nor a hazard.

**`session`** (passes, 2062 states). The inputs are every command and key name, both values
of `--confirm` and of the pem check, and devices that are off, in the bootROM
or already in ISP mode. Answers arrive within the timeouts. The run checks:
- `WritesOnlyWhenConfirmed`;
- `FramesReachIspDevice`: with `--confirm`, no frame reaches a device outside
  ISP mode;
- `SeqNumbersIncrease`;
- `KeyWordsFromKeyRegion`: word k of the key a key read assembles is the
  reply to a read of OTP2 word k of the region the key write of the same
  name writes. It ties the read loop's index range and address arithmetic,
  and the `key.extend` order, to the write's key offsets;
- `SessionTerminates`;
- `ReliableLinkSucceeds`: with `--confirm` and a device waiting in the
  bootROM, the handshake always ends with 0x6A received, never with
  `sys.exit(-100)`.

**`session_lossy`** (passes, 970615 states). Answers may be late, one byte or
chunk may be lost, and one glitch may occur. With `Faults`, the port may fail
to open or fail at any I/O, and Ctrl+C may come at any point. The run checks
that under all of these `FramesReachIspDevice` still holds and
`SessionTerminates`: `main()` ends whichever I/O step an exception
interrupts. The confirm gate and the sequence numbers do not depend on the
link, so `session` checks them once.

**`session_late`** (violation). A `key read` run with `--confirm` and late
answers. `ResponsesFromOwnReplies` says the flash id, each key word and the
challenge consist only of their own reply's bytes at the offsets sliced;
with timely answers it holds by construction, so it is checked only here.
A 0x6A answering a retried 0x69 stays in the input buffer, because
`send_cmd` never resets it before writing. `get_flash_id`'s response then
starts with that byte, and `response[8:12]` is taken one byte early.

**`session_dryrun`** (violation). Without `--confirm`, `get_flash_id` is still
transmitted. Spec §3 says a dry run never transmits.

**`intelhex_roundtrip`** (`MC_IntelHex.cfg`, passes, 11915 states). It
covers every image that up to two `add_data_at_address` calls build, with
blocks of up to 3 bytes at 0, 0xFFFE, 0xFFFF and 0x10000. Records are 2 bytes,
so a block is cut into several records. The run checks:
- `RecordBlocksRoundTrip`: when the blocks are shaped like loaded records and
  agree with `self.data`, saving and loading gives back every byte and block.
  This includes across 0x10000 and its Extended Linear Address record.
- `ByteRecordsRoundTrip`: the byte-by-byte writer always round-trips.

**`hextools`** (passes, 10399 states). Two files start as linker outputs on
either side of 0x10000 or are missing, followed by two invocations of any tool. `--data` is
"03", "0x03 03", an odd "3" or empty. The token data files hold up to two
entries over the names t1, t2 and an undefined tx, with the values hex "0x03",
"03 03" and "3", int 256 and ascii "A". The run checks:
- `TypeOK`: every written line's fields fit their widths;
- `PatchChangesOnlyTokenRegions`, an action property: the image a successful
  token patch saves (`saved'`) differs from its input's image only inside
  its tokens' regions. Every address of either image is compared, so a byte
  dropped outside the regions fails it as much as one changed. The file on
  disk is not compared: a 1-byte token at 0xFFFE drops 0xFFFF from the saved
  file (below), and that is `SavedFileHoldsImage`'s to show. The tokens are
  at most one record long here; a longer token crossing 0x10000 meets the
  segment bug below.

**`hextools_truncate`** (violation). `SavedFileHoldsImage` says that every
file reads back as the `self.data` that was saved to it. The inputs add a
file holding only the end-of-file record, which is what objcopy writes for
an empty binary. TLC's trace merges that file with itself into a file that
holds data: `save_to_file` returns without writing for an empty image, so
the output keeps its old record while the tool reports success. Without the
end-of-file-only input the property fails when a 1-byte token is patched at
0xFFFE, where a 2-byte record starts: the token's block replaces the
record's block, and the saved file loses 0xFFFF.

With other inputs, TLC also violates `SavedFileHoldsImage` in two more ways.
These are not kept as runs, and are listed as hazards:
- Merging `FFFE: 01 01` into `FFFF: 02 02` reads 0xFFFF back as 02. The blocks
  are written in address order, so the later-starting block wins, not the
  last write.
- A 3-byte `--address` patch at 0xFFFF has its third byte read back at
  0x0001. Record addresses are masked to 16 bits without a new
  Extended Linear Address record.

**`sign_short_integer`** (`MC_SignBinary.cfg`, violation). Binaries of 48
and 256 bytes, every `-s` value, openssl failing or producing one of 81
signatures whose r and s have top bytes 00, 01 or 80. `SignedImageLayout`
says a signed output is `RefImage`: the binary with its length at bytes
40..43, 0xFF up to 256, `53 4E BF 58`, the length, r and s as 32-byte
little-endian values (spec §2), and 184 bytes of 0xFF. It fails as soon as r
or s starts with a zero byte. The DER INTEGER is then 31 bytes or shorter,
`extract_key` reads the length byte as "not 32, so 33" and slices from
offset 5. With the top bytes restricted to 01 and 80 the property holds,
so the rest of the layout is as documented. (The docstring writes the id as
`0x53 0x4e 0xbf 0x85`; the model follows the code's `0x534EBF58`.)

**`binmerge`** (`MC_BinMerge.cfg`, passes, 924 states). Three steps of runs
of `bootloader_app_merge.py` and relinks. The bootloader is empty or 1 or 2
bytes, missing or unreadable; the application 1 or 2 bytes, missing or
unreadable; `-f 0 -s 0x8000`, each possibly missing, objcopy present or not,
and either objcopy run may fail. The run checks:
- `ComboHexMatchesComboBin`, an action property: when the run prints
  "combo.hex created successfully", the reloaded `combo.hex` holds exactly the
  non-padding bytes of `combo.bin`, placed from the `-f` address. This ties
  the padding arithmetic, objcopy's addresses and the merge together.

The application is never empty here: two empty binaries give the stale
output of `hextools_truncate`.

**`signing_tools`** (`MC_SigningTools.cfg`, passes, 56400 states). The two
tools run once each, in either order.

`public_key_json.py` inputs:
- all five command-line outcomes;
- the P-256 key as a DER SubjectPublicKeyInfo, or no file;
- `-e` files: the AES key as 32 digits, the same with a newline, 31 digits,
  a non-hex digit, or no file.

The X coordinate starts with 0x0A, so a lost leading zero shows.

`bootloader_image_signer.py` inputs:
- a bootloader of 100 bytes (padded) or 256 bytes (not padded), or none;
- openssl printing the uncompressed point, a compressed one, or failing;
- `--option-bytes` absent, "", " ", "A", "0A1B", 49 zero bytes or "0x0A";
- both endians, key files readable or not, and two signatures per key.

The run checks:
- `JsonTokensReadBack`: `parse_token_value` applied to each written value
  gives X and Y least significant byte first. The AES token is present
  exactly when a valid key file was given, and reads back as that key.
  This ties `extract_key`'s offsets, `bytes_to_hex`'s format,
  `parse_encryption_key` and `tokens_patch`'s parser together.
- `SignedImageLayout`: every written image can be taken apart the way a
  reader of the format must:
  - the bootloader, then 0xFF up to a multiple of 256;
  - `"@$PK"` and a `length_x` between 72 and 120;
  - the reversed key and a signature at `length_x`;
  - `"SFSR"`, and a `len_before` equal to the offset of the final
    signature, which ends the file.
- `TypeOK`: every byte of the image is below 256.

Each property of a passing run has a mutant in `PROJECT.json`: a plausible bug
in the mapped code that makes TLC report the property violated. Examples:
- the missing `0xDB` escape;
- the missing confirm gate;
- an unmasked record address;
- a missing `validate_data_size`;
- a missing `sequence_number += 1`;
- a slice one byte early;
- a read without timeout;
- phase 1 accepting any byte.

### Bounds

- **Attempt budget of 3-4.** This is enough for the handshake to succeed after
  one wasted attempt and still exhaust the budget.
- **`KeyWords = 2`.** The code reads 16 words. Two reads already cover every
  ordering between consecutive commands, and a later word cannot differ from
  the second.
- **`REPLY_LEN = 12`.** This is the shortest reply that contains
  `response[8:12]`. The debug challenge is then the two bytes 10-11 of its
  reply.
- **At most one exception.** Every exception ends `main()`, so a run has at
  most one; with `Faults` it may come at every step of every run.
- **One loss and one glitch.** Each fault adds a branch to every later step,
  and a second one only repeats it.
- **HEX: 2-byte records instead of 16.** `MAX_RECORD_BYTES` is a constant.
  With 2, a 3-byte block already needs two records. No operator depends on
  the value 16.
- **HEX: addresses 0xFFFE-0x10001 plus 0.** This puts records on both sides
  of a segment boundary and in the Extended Linear Address logic. It also
  includes the case where the upper address stays the same.
- **HEX: two invocations.** One invocation exposes each save/load defect;
  two let a patch follow a merge.
- **Merge: binaries of up to 2 bytes, three steps.** A 2-byte binary fills
  one record of `MAX_RECORD_BYTES = 2`; with the 1-byte and the empty
  bootloader this covers paddings of 32768, 32767 and 32766 bytes.
  Three steps let a relink come between two merges. A bootloader of 32 KiB
  or more, where the `32*2014` typo changes the padding, cannot be held as a
  byte sequence.

- **Signing tools: one key, one AES key, 100- and 256-byte bootloaders.**
  The tools' branches depend on lengths and formats, not on key values. A
  bootloader of 256 bytes meets `align_to_256_bytes`'s zero-padding case,
  and 49 option bytes is the smallest count that is refused.

### Fairness

The client is weakly fair: `main()` is a single thread that always has its next
statement enabled. So are the device's consumption of what was written and the
link's delivery of what was sent. Loss, glitches, serial errors and Ctrl+C
are never forced.
`CHECK_DEADLOCK FALSE` is set in every handshake and session cfg, because the
program does end: the port is closed or `sys.exit` is called. It is also set
in the HEX tool and signing tool cfgs, because a build ends after its
invocations.

The HEX models have no fairness: each tool is a single sequential run.

## 4. Not modelled, and why

- **`execute_cmd` with a status.** The `cmd_rx[7] == status` test, its
  `IndexError` on a short reply and the 3-attempt retry are never reached:
  every caller passes `status=None`.
- **`write_register` and `_write_otp_register`.** They are never called by
  `main()`. Their opcodes are only part of the gated set.
- **Cryptography.** SHA-256, ECDSA, DER and PEM parsing are pure computations
  on key material and are out of TLC's reach. `test_adac` does no I/O.
- **`SerialTimeoutException`.** pyserial raises it only from a write with a
  `write_timeout`; `main()` never sets one, so its handler is unreachable.
- **The `--der` file of `key write`.** A frame carries the key offset, not the
  key bytes, so the slicing `[27:59]`/`[59:]` is abstracted (the same slicing
  is `public_key_json.extract_key`, checked in `signing_tools`). A DER that is
  not a 91-byte P-256 SubjectPublicKeyInfo is a hazard without a run.
- **Unused or abstracted HEX code.** `get_memory_dict` and `set_memory_dict`
  have no caller. The JSON loading is abstracted to token addresses, sizes
  and values; `load_token_definitions`' field checks are left out. A corrupted input line is
  skipped by `load_from_file` as in the code, but no property judges it: the
  code states no promise about such a line.
- **`bootloader_app_merge.py`'s docstring.** It says `-b -a -o` alone writes
  `combo.bin`; the code exits 1 in `check_for_hex_file_gen` first. The model
  has the exit, but no violation run states the docstring (a hazard).
- **`sign_binary.py -c`.** lzma compression is out of TLC's reach, and the
  sizes of that path depend on the compressed bytes. Without `-s`,
  `Path(None)` raises before anything is done, so the unsigned branches
  (`private_key_file == None`) are dead code; the model has the crash.
- **Inside `bootloader_image_signer.py`.** openssl's text parsing in
  `derive_raw_pubkey_from_pem` is abstracted to the bytes it collects, and the
  ECDSA signatures to 64 opaque bytes. `parse_asn1_text` is never called; it
  left-pads short integers, which is what `sign_binary.py`'s `extract_key`
  misses. `Certificate.__str__` is logging.
- **`gen_ozone_project.py`.** It renders a jinja template with relative
  paths: text formatting with no branching a property could judge.
- **Key formats `public_key_json.py` does not check.** The `-i` file is the
  P-256 DER key the tool expects. It never checks its input, so another
  format silently gives wrong tokens; this is listed as a hazard.
- **The missing `ser.close()` on the `sys.exit` paths.** It is listed as a
  hazard without a run, because the process exit releases the port.

## 5. Plan

Done in the first sitting, most important first:
1. the frame codec (`IspFrame`);
2. the handshake, with its abstract specification and refinement
   (`Handshake`, `HandshakeAbstract`);
3. the session, composing the handshake with the command executor and the ISP
   operations (`IspSession`);
4. the Intel HEX classes and the merge and token-patch tools built on them
   (`IntelHex`, `HexTools`).

Done in the second sitting:
5. the handshake's success on a reliable link, checked inside the session
   run (`ReliableLinkSucceeds`);
6. HEX files with no data record, and the stale output of `save_to_file`'s
   early return (`hextools_truncate`);
7. `bootloader_app_merge.main` as one action with all its exits, composed
   with objcopy and `merge_hexfiles.main` (`BinMerge`);
8. `sign_binary.main` without compression, and the short-integer bug of
   `extract_key` (`SignBinary`);
9. `parse_token_value` and the `--data` hex parsing, replacing the
   "bytes or rejected" abstraction of token values.

Done in the third sitting:
10. `public_key_json.py` (`PublicKeyJson`), its token data file read back by
    `tokens_patch.parse_token_value`, whose hex parsing is now modelled at
    the level of characters (`TokenValue`), shared by `HexTools`;
11. `bootloader_image_signer.py` (`BootloaderImageSigner`) and the layout
    of the signed bootloader image (`signing_tools`). The run slot came from
    the handshake budget run, whose finding is plain arithmetic and is now
    a hazard.

Done in the fourth sitting:
12. the `main()` exception paths of `isp_tool.py` (`OpenPort`,
    `SerialError`, `Interrupt`), checked in `session_lossy` with
    `SessionTerminates`; the key names of `key read`/`key write` and the
    `register` command, with the OTP addresses checked by
    `KeyWordsFromKeyRegion`;
13. `tokens_patch.main`'s skip of a missing input or output file, and
    `merge_hexfiles.main` on a missing file (`HexTools`).

Done in the fifth sitting: properties that restated one assignment or held
by the model's shape were dropped (the header checksum identity, the Intel
HEX line checksum, the 32 KiB slot identity, nothing sent after the end,
and the gate and numbering repeated in `session_lossy`);
`PatchChangesOnlyTokenRegions` now compares every address of both images.

Next:
14. A device reset (the bootROM going back to boot mode mid-session), to see
    which session properties survive it.
15. A pass run for `SignBinary` (exit status 0 means a complete signed
    image; the temporary file is removed), and a violation run for a `key
    write` DER that is not a P-256 SubjectPublicKeyInfo, should run slots
    free up.
