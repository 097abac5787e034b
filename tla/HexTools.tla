------------------------------- MODULE HexTools -------------------------------
(***************************************************************************)
(* The build-step tools that rewrite HEX files through IntelHexFile:       *)
(* merge_hexfiles.py main() and the two modes of tokens_patch.py           *)
(* (patch_hex_file for --address/--token, patch_multiple_tokens for        *)
(* --multi-token).  Each invocation is one action that loads its inputs,   *)
(* changes the image and saves it, or fails with sys.exit(1) before it     *)
(* writes anything.  A file of the build may not exist (Missing): opening  *)
(* it for reading raises FileNotFoundError, and tokens_patch.py returns    *)
(* early, patching nothing, when its input or output file is missing.     *)
(*                                                                         *)
(* Token definitions are given as addresses and sizes (the JSON parsing of *)
(* get_token_info is left out).  A hex string (--data, or a token value of *)
(* value_type "hex") is parsed character by character by TokenValue; an   *)
(* ascii value is its character codes.                                     *)
(***************************************************************************)
EXTENDS IntelHex, TokenValue

CONSTANTS FileNames,    \* the HEX files of the build
          InputFiles,   \* contents a file may have when the build starts
          TokenDefs,    \* token name -> [address, size], the --token-file
          TokenNames,   \* names that may appear in a token data file
          DataArgs,     \* --data hex strings
          TokenValues,  \* [value, value_type] entries of a token data file
          PatchAddrs,   \* --address values
          MaxTokens,    \* entries in a --multi-token data file
          MaxRuns,      \* tool invocations per behaviour
          Missing       \* the contents of a file that does not exist

VARIABLES files,    \* file name -> the lines it holds
          saved,    \* file name -> self.data of the image last saved there
          lastRun,  \* what the last invocation did, for the action property
          runs      \* invocations so far

vars == <<files, saved, lastRun, runs>>

Init == /\ files \in [FileNames -> InputFiles]
        /\ saved = [f \in FileNames |-> IF files[f] = Missing THEN EmptyDict
                                        ELSE load_from_file(files[f]).data]
        /\ lastRun = [tool |-> "none", input |-> CHOOSE f \in FileNames : TRUE,
                      output |-> CHOOSE f \in FileNames : TRUE, regions |-> {}, ok |-> FALSE]
        /\ runs = 0

\* save_to_file to output; when input and output are the same file the
\* image goes to a fresh temporary file that then replaces the output.
SaveImage(img, input, output) ==
    IF input = output THEN save_to_file(img, <<>>) ELSE save_to_file(img, files[output])

Written(output, img, lines) ==
    /\ files' = [files EXCEPT ![output] = lines]
    /\ saved' = [saved EXCEPT ![output] = img.data]

Failed == UNCHANGED <<files, saved>>

\* merge_hexfiles.py main(hex1, hex2, output); open() of a missing hex1
\* or hex2 raises FileNotFoundError, uncaught; a missing output is created.
merge_hexfiles_main ==
    /\ runs < MaxRuns
    /\ \E hex1, hex2, output \in FileNames :
          LET ok  == files[hex1] # Missing /\ files[hex2] # Missing
              img == merge_with(load_from_file(files[hex1]), load_from_file(files[hex2]))
          IN  /\ IF ok THEN Written(output, img, save_to_file(img, files[output])) ELSE Failed
              /\ lastRun' = [tool |-> "merge", input |-> hex1, output |-> output,
                             regions |-> {}, ok |-> ok]
    /\ runs' = runs + 1

\* tokens_patch.py main(): "does not exist, skipping tokens patch" and
\* return, for a missing input file and for a missing output file.
PatchTargetsExist(input, output) == files[input] # Missing /\ files[output] # Missing

\* validate_data_size
DataFits(data, token_size) == Len(data) <= token_size

\* The bytes of a token: [address, address + size).
Region(def) == {def.address + i : i \in 0..(def.size - 1)}

\* process_single_data_args and patch_hex_file: --address (token = "")
\* or --token with its definition; an empty --data, an unknown token
\* (get_token_info), an odd hex string or data larger than the token
\* (validate_data_size) ends in sys.exit(1).
patch_hex_file ==
    /\ runs < MaxRuns
    /\ \E input, output \in FileNames, arg \in DataArgs,
          token \in TokenNames \cup {""}, address \in PatchAddrs :
          LET known         == token \in DOMAIN TokenDefs
              data          == ParseHex(arg)
              flash_address == IF known THEN TokenDefs[token].address ELSE address
              ok            == /\ PatchTargetsExist(input, output)
                               /\ arg # <<>>
                               /\ token = "" \/ known
                               /\ data # BadValue
                               /\ token = "" \/ DataFits(data, TokenDefs[token].size)
              img           == add_data_at_address(load_from_file(files[input]), flash_address, data)
          IN  /\ IF ok THEN Written(output, img, SaveImage(img, input, output)) ELSE Failed
              /\ lastRun' = [tool |-> IF token = "" THEN "address" ELSE "token",
                             input |-> input, output |-> output,
                             regions |-> IF known THEN Region(TokenDefs[token]) ELSE {},
                             ok |-> ok]
    /\ runs' = runs + 1

\* Mutant of PatchToken: validate_data_size is not called.
PatchTokenUnchecked(st, entry) ==
    LET patch_data == parse_token_value(entry[2])
    IN  IF st.err \/ entry[1] \notin DOMAIN TokenDefs THEN st
        ELSE IF patch_data = BadValue THEN [st EXCEPT !.err = TRUE]
        ELSE [st EXCEPT !.img = add_data_at_address(@, TokenDefs[entry[1]].address, patch_data)]

\* One iteration of the loop of patch_multiple_tokens over the entries
\* <<name, token_info>> of the token data file: an undefined name is
\* skipped, a value parse_token_value or validate_data_size rejects raises.
PatchToken(st, entry) ==
    LET patch_data == parse_token_value(entry[2])
    IN  IF st.err \/ entry[1] \notin DOMAIN TokenDefs THEN st
        ELSE IF patch_data = BadValue THEN [st EXCEPT !.err = TRUE]
        ELSE IF ~DataFits(patch_data, TokenDefs[entry[1]].size) THEN [st EXCEPT !.err = TRUE]
        ELSE [st EXCEPT !.img = add_data_at_address(@, TokenDefs[entry[1]].address, patch_data)]

\* The entries of a token data file, in json.load's order: a JSON object
\* names each token once.
TokenDataFiles ==
    {d \in BoundedSeq(TokenNames \X TokenValues, MaxTokens) :
        \A i, j \in DOMAIN d : d[i][1] = d[j][1] => i = j}

\* process_multi_token_args and patch_multiple_tokens; an exception in
\* the loop reaches main()'s handler (sys.exit(1)) before the file is saved.
patch_multiple_tokens ==
    /\ runs < MaxRuns
    /\ \E input, output \in FileNames,
          token_data \in TokenDataFiles :
          LET st == FoldLeft(PatchToken, [img |-> load_from_file(files[input]), err |-> FALSE],
                             token_data)
              ok == PatchTargetsExist(input, output) /\ ~st.err
          IN  /\ IF ok THEN Written(output, st.img, SaveImage(st.img, input, output))
                        ELSE Failed
              /\ lastRun' = [tool |-> "tokens", input |-> input, output |-> output,
                             regions |-> UNION {Region(TokenDefs[e[1]]) :
                                                e \in {e \in Range(token_data) : e[1] \in DOMAIN TokenDefs}},
                             ok |-> ok]
    /\ runs' = runs + 1

Next == merge_hexfiles_main \/ patch_hex_file \/ patch_multiple_tokens

Spec == Init /\ [][Next]_vars
=============================================================================
