------------------------------ MODULE TokenValue ------------------------------
(***************************************************************************)
(* The text-to-bytes conversions of tokens_patch.py, at the level of       *)
(* characters: a hex value is a sequence of one-character strings, so that *)
(* what public_key_json.py writes can be read back the way tokens_patch.py *)
(* reads it.  Only the characters the tools write or are given in the      *)
(* models occur: the digits, A-F, "x", the space and the newline.          *)
(***************************************************************************)
EXTENDS Integers, Sequences, SequencesExt

CONSTANT BadValue   \* the ValueError of a conversion

HexChars == <<"0", "1", "2", "3", "4", "5", "6", "7",
              "8", "9", "A", "B", "C", "D", "E", "F">>

\* f"{n:X}" for one digit 0 <= n < 16, and its inverse.
HexChar(n) == HexChars[n + 1]
IsHexDigit(c) == \E n \in 0..15 : HexChar(n) = c
HexValue(c) == CHOOSE n \in 0..15 : HexChar(n) = c

\* Python's whitespace among these characters (str.strip, bytes.fromhex).
IsSpace(c) == c \in {" ", "\n"}

\* str.strip()
Strip(s) ==
    LET kept == {i \in DOMAIN s : ~IsSpace(s[i])}
    IN  IF kept = {} THEN <<>> ELSE SubSeq(s, Min(kept), Max(kept))

\* bytes.fromhex(s): whitespace before a byte is skipped; otherwise two
\* hex digits must follow, or it raises ValueError.  The non-space
\* characters at positions p[1], p[2], ... are thus read in pairs, and
\* the two of a pair must be neighbours.
fromhex(s) ==
    LET p == SelectSeq([i \in DOMAIN s |-> i], LAMBDA i : ~IsSpace(s[i]))
    IN  IF \/ Len(p) % 2 # 0
           \/ \E k \in DOMAIN p : ~IsHexDigit(s[p[k]])
           \/ \E k \in 1..(Len(p) \div 2) : p[2 * k] # p[2 * k - 1] + 1
        THEN BadValue
        ELSE [k \in 1..(Len(p) \div 2) |-> 16 * HexValue(s[p[2 * k - 1]]) + HexValue(s[p[2 * k]])]

\* str.replace('0x', ''): an "x" is never a "0", so the occurrences never
\* overlap and every "0" followed by "x" goes, with its "x".
DropAll0x(s) ==
    LET starts == {i \in 1..(Len(s) - 1) : s[i] = "0" /\ s[i + 1] = "x"}
        kept   == SelectSeq([i \in DOMAIN s |-> i], LAMBDA i : i \notin starts /\ i - 1 \notin starts)
    IN  [k \in 1..Len(kept) |-> s[kept[k]]]

\* value.replace(' ', '').replace('0x', '') and the even-length check
\* before bytes.fromhex, as both parse_token_value and --data do it.
ParseHex(value) ==
    LET hex_string == DropAll0x(SelectSeq(value, LAMBDA c : c # " "))
    IN  IF Len(hex_string) % 2 # 0 THEN BadValue ELSE fromhex(hex_string)

\* token_info is [value, value_type], or [int, value_type] for an "int"
\* value, whose int(value) is kept as a number, or [codes, value_type]
\* for an "ascii" value, the code points of its characters.
parse_token_value(token_info) ==
    CASE token_info.value_type = "hex"   -> ParseHex(token_info.value)
      [] token_info.value_type = "int"   -> IF token_info.int < 0 \/ token_info.int > 255
                                            THEN BadValue ELSE <<token_info.int>>
      [] token_info.value_type = "ascii" -> IF \A i \in DOMAIN token_info.codes : token_info.codes[i] < 128
                                            THEN token_info.codes ELSE BadValue
      [] OTHER                           -> BadValue
=============================================================================
