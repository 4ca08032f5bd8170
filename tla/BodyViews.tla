----------------------------- MODULE BodyViews -----------------------------
(***************************************************************************)
(* What the log prints of a body and what the modules are given of it      *)
(* (src/snooper/logging.go, src/snooper/truncate.go).  A body is its kind, *)
(* its size and one string value inside it, of which only the length and   *)
(* whether it looks like hex matter.                                       *)
(***************************************************************************)
EXTENDS Integers

CONSTANTS Threshold,     \* hexTruncateThreshold, 256
          Preview        \* hexTruncatePreviewLen, 32

(* The previews lie inside every string that is truncated. *)
ASSUME PreviewAssumption ==
  /\ Threshold \in Nat /\ Preview \in Nat
  /\ Preview % 2 = 0
  /\ 2 * Preview + 2 <= Threshold

(* "object", "batch" and "text" parse as a JSON object, array and string,   *)
(* "null" as nil, and "other" does not parse.                               *)
Bodies == [kind : {"object", "batch", "text", "null", "other"},
           size : Nat,
           leaf : [len : Nat, hex : BOOLEAN]]

Hex(bytes) == [len |-> 2 + 2 * bytes, hex |-> TRUE]

(* "0x<preview>...<preview> <n bytes>" *)
Cut(shown, bytes) == [shown |-> shown, bytes |-> bytes]

TruncateHexValue(s) ==
  IF s.len > Threshold /\ s.hex THEN Cut(Preview, (s.len - 2) \div 2) ELSE s

TruncateHexInTree(tree) == [tree EXCEPT !.leaf = TruncateHexValue(@)]

(* Takes the threshold for bytes. *)
FormatHexBodyForLog_SlipBytes(truncate, bytes) ==
  IF truncate /\ bytes > Threshold
  THEN Cut(2 * (Preview \div 2), bytes)
  ELSE Hex(bytes)

(* A long body is cut before it is encoded, another one after. *)
FormatHexBodyForLog(truncate, bytes) ==
  IF truncate /\ bytes > Threshold \div 2
  THEN Cut(2 * (Preview \div 2), bytes)
  ELSE IF truncate THEN TruncateHexValue(Hex(bytes)) ELSE Hex(bytes)

(* What the logger parses for itself, apart from what it prints. *)
Parsed(body) == body.kind \notin {"null", "other"}

BeautifyJSONForLog(truncate, body) == IF truncate THEN TruncateHexInTree(body) ELSE body

(* The length comes first, then the content type, then what parses. *)
LoggedBody(options, message) ==
  LET body == message.body IN
  IF options.hide \/ message.empty THEN [type |-> "none"]
  ELSE IF "application/octet-stream" \in message.contentType
  THEN [type |-> "ssz", value |-> FormatHexBodyForLog(options.truncate, body.size)]
  ELSE IF body.kind = "other"
  THEN [type |-> "unknown", value |-> FormatHexBodyForLog(options.truncate, body.size)]
  ELSE [type |-> "json", value |-> BeautifyJSONForLog(options.truncate, body).leaf]

(* What modules find in Body, and the length of BodyBytes: the tree if      *)
(* there is one, and bytes, which binary content has in hex.                *)
ModuleBody(message) ==
  LET body == message.body IN
  IF message.empty THEN [form |-> "bytes", kind |-> "other", size |-> 0]
  ELSE IF "application/octet-stream" \in message.contentType
  THEN [form |-> "bytes", kind |-> "other", size |-> 2 * body.size]
  ELSE IF Parsed(body)
  THEN [form |-> "tree", kind |-> body.kind, size |-> body.size, leaf |-> body.leaf]
  ELSE [form |-> "bytes", kind |-> body.kind, size |-> body.size]
============================================================================
