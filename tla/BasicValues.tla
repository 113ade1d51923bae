------------------------------ MODULE BasicValues ------------------------------
(***************************************************************************)
(* What becomes of a Lua value on its way into a message and out again:    *)
(* append_basic and get_basic of src/src/message_iter.c, and the timeouts  *)
(* of src/src/connection.c.  append_basic writes one member of a union of  *)
(* eight bytes and hands libdbus the address of the union: libdbus reads   *)
(* the member of the type asked for, which need not be the one written.    *)
(***************************************************************************)
EXTENDS Integers

CONSTANTS
  Byte,          \* how many values a byte has: 256, or less for TLC
  LittleEndian,  \* whether the lowest byte of an integer comes first
  Exact,         \* integers up to this size are exact as doubles
  LuaInteger,    \* inputs: integers of Lua
  Halves,        \* inputs: floats of Lua, counted in halves
  String         \* inputs: strings

M16 == Byte * Byte
M32 == M16 * M16
M64 == M32 * M32

ASSUME ByteAssumption == Byte \in Nat /\ Byte >= 2 /\ Byte % 2 = 0
ASSUME OrderAssumption == LittleEndian \in BOOLEAN
ASSUME ExactAssumption == Exact \in Nat \ {0}
ASSUME InputAssumption ==
  /\ LuaInteger \subseteq Int /\ Halves \subseteq Int
  /\ \A i \in LuaInteger : -(M64 \div 2) <= i /\ i < M64 \div 2

SignedType == {"int16", "int32", "int64", "timeout"}
UnsignedType == {"byte", "uint16", "uint32", "uint64", "boolean"}
StringType == {"string", "object_path", "signature"}
Type == SignedType \cup UnsignedType \cup StringType \cup {"double"}

(* How many values a type of integers has.  ("timeout" is C's int, and no  *)
(* type of DBus; a boolean is a 32-bit integer.)                           *)
Size(t) ==
  CASE t = "byte" -> Byte
    [] t \in {"int16", "uint16"} -> M16
    [] t \in {"int32", "uint32", "boolean", "timeout"} -> M32
    [] OTHER -> M64

Lowest(t) == IF t \in SignedType THEN -(Size(t) \div 2) ELSE 0
Fits(i, t) == Lowest(t) <= i /\ i < Lowest(t) + Size(t)

VARIABLES
  given,  \* the Lua value last appended, or given as a timeout
  arg     \* what libdbus got: its type, and its bits as a natural number,
          \* the halves of a double, or the string

vars == <<given, arg>>

(* libdbus gets a value of the type it is told, and an address of          *)
(* characters exactly for a string of Lua: append_basic checks the type    *)
(* asked for in the branch of each type of Lua (src/src/message_iter.c).   *)
TypeOK ==
  /\ given.kind \in {"nil", "integer", "float", "boolean", "string"}
  /\ arg.type \in Type \cup {"invalid"}
  /\ arg.type \in SignedType \cup UnsignedType
       => arg.value \in 0 .. (Size(arg.type) - 1)
  /\ arg.type = "double" => arg.value \in Int
  /\ arg.type \in StringType => arg.value \in String
  /\ arg.type \in StringType <=> given.kind = "string"

Init ==
  /\ given = [kind |-> "nil", value |-> 0]
  /\ arg = [type |-> "invalid", value |-> 0]

----------------------------------------------------------------------------
(* The union, as the number in its eight bytes: the member that has m      *)
(* values, and the union after v was stored into that member.              *)
Member(u, m) == IF LittleEndian THEN u % m ELSE u \div (M64 \div m)

Store(u, m, v) ==
  IF LittleEndian THEN (u - (u % m)) + v
  ELSE v * (M64 \div m) + (u % (M64 \div m))

(* C converts doubles (here h halves) to integers towards zero, and the    *)
(* result is undefined when it does not fit.                               *)
Truncated(h) == IF h >= 0 THEN h \div 2 ELSE -((-h) \div 2)

FromDouble(h, t) ==
  IF Fits(Truncated(h), t) THEN {Truncated(h) % Size(t)}
                           ELSE 0 .. (Size(t) - 1)

(* ... and integers to doubles, within one unit of the last place.         *)
ToDouble(i) ==
  LET error == IF i \in -Exact .. Exact THEN 0
               ELSE (IF i < 0 THEN -i ELSE i) \div Exact
  IN  {2 * j : j \in (i - error) .. (i + error)}

(* Bug: an integer that does not fit becomes the largest one. *)
IntegerAsLargest(i, t) == {IF Fits(i, t) THEN i % Size(t) ELSE Size(t) - 1}

(* An integer is stored into the member of the type, cut to its width.     *)
IntegerAs(i, t) == {Member(Store(i % M64, Size(t), i % Size(t)), Size(t))}

(* A boolean is stored into the 32-bit member, whatever the type; the rest *)
(* of the union is not initialized.                                        *)
BooleanAs(b, t) ==
  {Member(Store(u, M32, b), Size(t)) : u \in 0 .. (M64 - 1)}

(* The type that append_basic picks by itself.                             *)
Natural(kind) ==
  CASE kind = "integer" -> "int64" [] kind = "float" -> "double"
    [] kind = "boolean" -> "boolean" [] OTHER -> "string"

(* What x becomes as a type of numbers. *)
NumberAs(x, t) ==
  CASE x.kind = "integer" ->
         IF t = "double" THEN ToDouble(x.value) ELSE IntegerAs(x.value, t)
    [] x.kind = "float" ->
         IF t = "double" THEN {x.value} ELSE FromDouble(x.value, t)
    [] x.kind = "boolean" ->
         IF t = "double" THEN {2 * x.value} ELSE BooleanAs(x.value, t)
    [] OTHER -> {}

(* Bug: a number is stored whatever the type, and read as an address.      *)
ConvertedUnchecked(x, t) ==
  IF t \in StringType THEN {x.value} ELSE NumberAs(x, t)

(* What can be appended for x as type t.  Numbers and booleans convert to  *)
(* each other, strings to strings; all else is an error of Lua.            *)
Converted(x, t) ==
  IF t \in StringType THEN (IF x.kind = "string" THEN {x.value} ELSE {})
                      ELSE NumberAs(x, t)

(* libdbus takes 0 and 1 for booleans and refuses the rest.                *)
Valid(v, t) == t = "boolean" => v \in {0, 1}

LuaValue ==
  [kind : {"integer"}, value : LuaInteger]
    \cup [kind : {"float"}, value : Halves]
    \cup [kind : {"boolean"}, value : {0, 1}]
    \cup [kind : {"string"}, value : String]

(* append_basic, with a type or without; nothing is appended on errors.    *)
AppendBasic(x, t) ==
  \E v \in Converted(x, t) :
    /\ Valid(v, t)
    /\ given' = x /\ arg' = [type |-> t, value |-> v]

(* send_with_reply and send_with_reply_and_block: h is the product of the  *)
(* seconds and 1000, in halves.                                            *)
SendWithReply(h) ==
  \E v \in FromDouble(h, "timeout") :
    /\ given' = [kind |-> "float", value |-> h]
    /\ arg' = [type |-> "timeout", value |-> v]

(* One value is enough: no call sees anything of another. *)
Next ==
  /\ arg.type = "invalid"
  /\ \/ \E x \in LuaValue :
          \/ AppendBasic(x, Natural(x.kind))
          \/ \E t \in Type \ {"timeout"} : AppendBasic(x, t)
     \/ \E h \in Halves : SendWithReply(h)

Spec == Init /\ [][Next]_vars

----------------------------------------------------------------------------
(* Bug: 16 bits are read without a sign. *)
IsSignedWide(t) == t \in {"int32", "int64", "timeout", "uint64"}

(* get_basic pushes an integer by the sign of the member, and lua_Integer  *)
(* is signed itself.                                                       *)
IsSigned(t) == t \in SignedType \cup {"uint64"}

(* get_basic: the number that Lua gets (in halves for a double, 0 or 1 for *)
(* a boolean), or what libdbus makes of a timeout.                         *)
GetBasic(a) ==
  IF IsSigned(a.type) /\ a.value >= Size(a.type) \div 2
  THEN a.value - Size(a.type) ELSE a.value

----------------------------------------------------------------------------
(* Properties.                                                             *)

(* What was given as a number, in halves. *)
HalvesGiven == IF given.kind = "float" THEN given.value ELSE 2 * given.value

(* y is h halves without the fraction. *)
WholePart(y, h) ==
  IF h >= 0 THEN 2 * y <= h /\ h < 2 * y + 2 ELSE h <= 2 * y /\ 2 * y - 2 < h

(* A boolean is not to be given as a type wider than 32 bits, and to a     *)
(* machine with the highest byte first only as one of 32 bits.             *)
BooleanFits ==
  given.kind = "boolean"
    => \/ Size(arg.type) = M32
       \/ (LittleEndian /\ Size(arg.type) < M32)

(* What fits the type it was given as comes back the same, fractions       *)
(* aside, and does not depend on what was in the union before.  For UINT64 *)
(* only half of the values fit a lua_Integer.                              *)
InRangeKept ==
  LET t == arg.type  h == HalvesGiven
  IN    /\ t \notin StringType \cup {"double", "invalid"} /\ BooleanFits
        /\ 2 * Lowest(t) - 2 < h /\ h < 2 * (Lowest(t) + Size(t)) /\ h < M64
      => WholePart(GetBasic(arg), h)

(* An integer that does not fit loses upper bits and nothing else: also    *)
(* large UINT64s, which Lua sees as negative.  Of a boolean given as a     *)
(* wider type the lower 32 bits are right.                                 *)
LowBitsKept ==
  LET t == arg.type
      kept == IF given.kind = "boolean" /\ Size(t) > M32 THEN M32 ELSE Size(t)
  IN    /\ t \notin StringType \cup {"double"}
        /\ given.kind = "integer" \/ (given.kind = "boolean" /\ LittleEndian)
      => (GetBasic(arg) - given.value) % kept = 0
=============================================================================
