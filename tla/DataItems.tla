------------------------------ MODULE DataItems ------------------------------
(***************************************************************************)
(* The data items of Hip_Native/cDatabase.cpp: an item has one of twelve   *)
(* HART types over a C variable of its own width.  A command sets it from  *)
(* a C value (setValue), from the bytes of a request (extractSelf) or from *)
(* another item (operator=, which ends in dataEqual), and puts it into a   *)
(* reply (insertSelf, with Hip_Native/InsertExtract.cpp).  What each call  *)
(* says has changed decides whether the configuration change counter moves.*)
(*                                                                         *)
(* Two items of one type: `here', which is set, and `there', which is sent *)
(* to it in a message or assigned to it.  The caller of setValue() counts  *)
(* the change it is told of, as commands 35 and 44 do; an assignment tells *)
(* nobody.  A byte has Byte values, 256 in the program; every width is a   *)
(* number of bytes.  A float holds a whole number or NaN and occupies four *)
(* parts of a message, which only come apart when a request is cut short.  *)
(***************************************************************************)
EXTENDS ResponseCodes, Sequences

CONSTANTS Byte,       \* values of a byte
          NaN,        \* the value of a float that is no number
          Given,      \* whole numbers an item may be set to
          MaxLen,     \* bound: the elements of an array, 32 in the program
          MaxCount    \* bound: where changeCnt is followed to

ASSUME ByteAssumption == Byte \in Nat /\ Byte >= 2
ASSUME GivenAssumption == Given \subseteq Int /\ NaN \notin Int
ASSUME BoundsAssumption == MaxLen \in Nat \ {0} /\ MaxCount \in Nat \ {0}

\* Bytes of a HART integer type, and of the C variable it is kept in.
Wide == [ht_int8  |-> 1, ht_int16 |-> 2, ht_int24 |-> 3, ht_int32 |-> 4,
         ht_int40 |-> 5, ht_int48 |-> 6, ht_int56 |-> 7, ht_int64 |-> 8]
Kept == [t \in DOMAIN Wide |-> CASE Wide[t] <= 2 -> Wide[t]
                                 [] Wide[t] \in {3, 4} -> 4
                                 [] OTHER -> 8]

\* The values of so many bytes.
Values[n \in 0 .. 8] == IF n = 0 THEN 1 ELSE Byte * Values[n - 1]

Whole     == DOMAIN Wide
Floating  == {"ht_float", "ht_double"}
TextTypes == {"ht_ascii", "ht_packed"}
Types     == Whole \union Floating \union TextTypes

\* What an element of an item has room for.
Room(t) == Values[IF t \in TextTypes THEN 1 ELSE Kept[t]]

Kinds(vol, con, types, lens) ==
  [volatile : vol, config : con, type : types, len : lens]

\* The items of the device: only bytes and packed text come as arrays.
DeviceItems ==
  Kinds({TRUE, FALSE}, {FALSE}, {"ht_int8"}, 1 .. MaxLen)
    \union Kinds({FALSE}, {TRUE}, {"ht_int8", "ht_packed"}, 1 .. MaxLen)
    \union Kinds({TRUE, FALSE}, {FALSE}, {"ht_int16"}, {1})
    \union Kinds({TRUE}, {FALSE}, {"ht_float", "ht_int32"}, {1})
    \union Kinds({FALSE}, {TRUE}, {"ht_float"}, {1})
    \union Kinds({FALSE}, {FALSE}, {"ht_double"}, {1})

\* Those of a device variable: its value and its simulation are volatile.
VariableItems ==
  Kinds({TRUE}, {FALSE}, {"ht_float", "ht_int8"}, {1})
    \union Kinds({FALSE}, {TRUE}, {"ht_int8", "ht_float", "ht_int32"}, {1})
    \union Kinds({FALSE}, {FALSE}, {"ht_int8", "ht_int24"}, {1})

\* Those of a burst message, and of the one commands make their changes in,
\* which is no configuration.
BurstItems ==
  Kinds({FALSE}, {TRUE, FALSE}, {"ht_int8", "ht_int16", "ht_int32", "ht_float"}, {1})

Declared == DeviceItems \union VariableItems \union BurstItems

\* The types that no item of the device has and the code still handles.
Undeclared == Kinds({FALSE}, {TRUE, FALSE}, {"ht_int40", "ht_int48", "ht_int56",
                                            "ht_int64", "ht_ascii"}, {1})

VARIABLES item,         \* what both items are
          here, there,  \* the elements of each
          message,      \* the bytes between them
          sent,         \* what `there' was when it was inserted
          changeCnt,    \* the changes counted
          writeNeeded,
          ret,          \* what the last insertSelf() or extractSelf() returned
          known,        \* for the properties: a count and a value a host has read
          silent        \* and whether a call that tells nobody changed it since

itemVars == <<item, here, there, message, sent, changeCnt, writeNeeded, ret, known, silent>>

-----------------------------------------------------------------------------
\* InsertExtract.cpp: the bytes of a number, most significant first, and back.
Bytes(x, n) == [i \in 1 .. n |-> (x \div Values[n - i]) % Byte]
Number(b)   == LET sum[i \in 0 .. Len(b)] == IF i = 0 THEN 0
                                             ELSE sum[i - 1] * Byte + b[i]
               IN  sum[Len(b)]

\* A float is four parts.
Parts(x)   == [i \in 1 .. 4 |-> x]

\* C's != of two values, one of them perhaps NaN.
Differs(a, b) == a # b \/ NaN \in {a, b}

\* static_cast of a floating value to an unsigned integer of n bytes: outside its
\* range C++ leaves the result open; the two ends stand for what it may be.
Cast(v, n) == IF v # NaN /\ v \in 0 .. (Values[n] - 1) THEN {v} ELSE {0, Values[n] - 1}

\* What a call leaves in the item and says of it.
Set(old, v, new) == [raw |-> new, changed |-> Differs(old, v)]
Untouched(old)   == [raw |-> old, changed |-> FALSE]

\* setValue() of an 8-bit parameter: every number type holds it.
setValue8(t, old, v) == IF t \in TextTypes THEN {Untouched(old)} ELSE {Set(old, v, v)}

\* setValue() of 16 bits: cut off for an 8-bit item, compared before it is cut.
setValue16(t, old, v) ==
  IF t \in TextTypes THEN {Untouched(old)}
  ELSE {Set(old, v, IF t = "ht_int8" THEN v % Byte ELSE v)}

\* setValue32() that does not cut off.
setValue32_Whole(t, old, v) ==
  IF t \in TextTypes THEN {Untouched(old)} ELSE {Set(old, v, v)}

\* setValue32() that compares after it has stored.
setValue32_Late(t, old, v) ==
  IF t \in TextTypes THEN {Untouched(old)}
  ELSE LET new == IF t \in {"ht_int8", "ht_int16"} THEN v % Values[Wide[t]] ELSE v
       IN  {[raw |-> new, changed |-> Differs(new, v)]}

\* setValue() of 32 bits: cut off for 8 and 16 bits; a 24-bit item keeps all 32.
setValue32(t, old, v) ==
  IF t \in TextTypes THEN {Untouched(old)}
  ELSE {Set(old, v, IF t \in {"ht_int8", "ht_int16"} THEN v % Values[Wide[t]] ELSE v)}

\* setValue() of 64 bits.  A 32-bit item is not cleared first, so the value is
\* added to what it held; a 48-bit item is set and never said to have changed.
setValue64(t, old, v) ==
  CASE t \in TextTypes  -> {Untouched(old)}
    [] t \in Floating   -> {Set(old, v, v)}
    [] t = "ht_int32"   -> {Set(old, v, (old + v) % Values[4])}
    [] t = "ht_int48"   -> {[raw |-> v % Values[6], changed |-> FALSE]}
    [] OTHER            -> {Set(old, v, v % Values[Wide[t]])}

\* setValue() of a float or a double: cast to 32 or to 64 bits and cut off.  Into
\* its own type it is copied and compared byte by byte, so NaN equals NaN.
setValueFloat(own, t, old, v) ==
  CASE t \in TextTypes -> {Untouched(old)}
    [] t = own        -> {[raw |-> v, changed |-> old # v]}
    [] t \in Floating \ {own} -> {Set(old, v, v)}
    [] OTHER -> {Set(old, v, c % Values[Wide[t]]) :
                   c \in Cast(v, IF Wide[t] <= 4 THEN 4 ELSE 8)}

setValue_float(t, old, v)  == setValueFloat("ht_float", t, old, v)
setValue_double(t, old, v) == setValueFloat("ht_double", t, old, v)

\* dataEqual(): one element of an array of bytes, all of a packed text, and no
\* more than 32 bits of anything wider.
dataEqual(t, to, from) ==
  CASE t \in TextTypes -> from
    [] t \in Floating -> from
    [] t = "ht_int24" -> <<from[1] % Values[3]>>
    [] t \in Whole /\ Wide[t] > 4 -> <<from[1] % Values[4]>>
    [] OTHER          -> [to EXCEPT ![1] = from[1]]

-----------------------------------------------------------------------------
\* The elements an item can hold.
Numbers(t) == IF t \in Floating THEN Given \union {NaN}
              ELSE {n \in Given : n \in 0 .. (Room(t) - 1)}

ItemInit ==
  /\ item \in Declared \union Undeclared
  /\ here  = [i \in 1 .. item.len |-> 0]
  /\ there \in [1 .. item.len -> Numbers(item.type)]
  /\ message = <<>> /\ sent = there
  /\ changeCnt = 0 /\ writeNeeded = FALSE
  /\ ret = RC_SUCCESS
  /\ known = [cnt |-> 0, value |-> here] /\ silent = FALSE

\* The parameter types of setValue(), their values, and the overload that takes
\* each; a signed one hands its value on as unsigned.
Exact == Values[3]     \* a float holds whole numbers up to here
Fitting(n) == Given \intersect (0 .. (Values[n] - 1))
Signed(n)  == Given \intersect (-(Values[n] \div 2) .. (Values[n] \div 2 - 1))
Reals      == (Given \intersect ((1 - Exact) .. (Exact - 1))) \union {NaN}

Outcomes(from, v) ==
  LET t == item.type  old == here[1] IN
  CASE from = "uint8"  -> setValue8(t, old, v)
    [] from = "int8"   -> setValue8(t, old, v % Byte)
    [] from = "uint16" -> setValue16(t, old, v)
    [] from = "int16"  -> setValue16(t, old, v % Values[2])
    [] from = "uint32" -> setValue32(t, old, v)
    [] from = "int32"  -> setValue32(t, old, v % Values[4])
    [] from = "uint64" -> setValue64(t, old, v)
    [] from = "int64"  -> setValue64(t, old, v % Values[8])
    [] from = "float"  -> setValue_float(t, old, v)
    [] from = "double" -> setValue_double(t, old, v)

\* The caller counts what it is told.
Count(changed) == changeCnt' = changeCnt + IF changed /\ item.config THEN 1 ELSE 0

\* The calls that go wrong, which no command of the device makes: a 32-bit item
\* set from 64 bits adds, a 48-bit one says nothing, and the overload for int8_t
\* ends without a return, so what it says is anybody's guess.
Wrong(from) == \/ from \in {"uint64", "int64"} /\ item.type \in {"ht_int32", "ht_int48"}
               \/ from = "int8"
Said(from, changed) == IF from = "int8" THEN BOOLEAN ELSE {changed}

setValue(from, v) ==
  /\ changeCnt < MaxCount
  /\ \E o \in Outcomes(from, v) :
       /\ here' = [here EXCEPT ![1] = o.raw]
       /\ \E changed \in Said(from, o.changed) : Count(changed)
  /\ silent' = (silent \/ (Wrong(from) /\ here' # here))
  /\ UNCHANGED <<item, there, message, sent, writeNeeded, ret, known>>

FromUnsigned == \/ \E v \in Fitting(1) : setValue("uint8", v)
                \/ \E v \in Fitting(2) : setValue("uint16", v)
                \/ \E v \in Fitting(4) : setValue("uint32", v)
                \/ \E v \in Fitting(8) : setValue("uint64", v)
FromSigned   == \/ \E v \in Signed(1) : setValue("int8", v)
                \/ \E v \in Signed(2) : setValue("int16", v)
                \/ \E v \in Signed(4) : setValue("int32", v)
                \/ \E v \in Signed(8) : setValue("int64", v)
FromReal     == \E v \in Reals : setValue("float", v) \/ setValue("double", v)

\* The value of an item for a host, with the count it has at the same time.
Read ==
  /\ known' = [cnt |-> changeCnt, value |-> here] /\ silent' = FALSE
  /\ UNCHANGED <<item, here, there, message, sent, changeCnt, writeNeeded, ret>>

\* operator= says nothing of a change, and nobody counts one: commands 105 and 6
\* assign configuration items so.
Assign ==
  /\ here' = dataEqual(item.type, here, there)
  /\ silent' = (silent \/ here' # here)
  /\ UNCHANGED <<item, there, message, sent, changeCnt, writeNeeded, ret, known>>

\* The bytes insertSelf() adds for an item; none for a type it does not know.
Inserted(t, elements) ==
  CASE t \in {"ht_int8", "ht_packed"} -> elements
    [] t \in {"ht_int16", "ht_int24", "ht_int32"} -> Bytes(elements[1], Wide[t])
    [] t = "ht_float" -> Parts(elements[1])
    [] OTHER -> <<>>

insertSelf ==
  /\ message = <<>>
  /\ message' = Inserted(item.type, there)
  /\ ret' = IF message' = <<>> THEN RC_NO_TYPE ELSE RC_SUCCESS
  /\ sent' = there
  /\ UNCHANGED <<item, here, there, changeCnt, writeNeeded, known, silent>>

\* What a host sends may be cut short.
Cut ==
  /\ message # <<>>
  /\ message' = SubSeq(message, 1, Len(message) - 1)
  /\ UNCHANGED <<item, here, there, sent, changeCnt, writeNeeded, ret, known, silent>>

\* What extractSelf() finds in a message that is long enough.
Extractable == {"ht_int8", "ht_packed", "ht_int16", "ht_int32", "ht_float"}
Needed(it) == CASE it.type \in {"ht_int8", "ht_packed"} -> it.len
                [] it.type = "ht_float" -> 4
                [] OTHER -> Wide[it.type]
Found(t, b) == CASE t \in {"ht_int8", "ht_packed"} -> b
                 [] t = "ht_float" -> <<b[1]>>
                 [] OTHER -> <<Number(b)>>

\* IsChange() of the first element alone.
IsChange_First(t, old, new) == Differs(old[1], new[1])

\* It is a change when the value differs, and always for bytes and packed text.
IsChange(t, old, new) == t \in {"ht_int8", "ht_packed"} \/ Differs(old[1], new[1])

\* Bytes are taken out one by one, also out of a request that is too short; the
\* item is written only when all are there.
extractSelf ==
  LET t == item.type  n == Needed(item) IN
  /\ changeCnt < MaxCount
  /\ IF t \notin Extractable
     THEN ret' = RC_NO_TYPE /\ UNCHANGED <<here, message, changeCnt, writeNeeded>>
     ELSE IF Len(message) < n
     THEN /\ ret' = RC_TOO_FEW
          /\ message' = IF t \in {"ht_int8", "ht_packed"} THEN <<>> ELSE message
          /\ UNCHANGED <<here, changeCnt, writeNeeded>>
     ELSE LET new == Found(t, SubSeq(message, 1, n))
              changed == IsChange(t, here, new)
          IN  /\ ret' = RC_SUCCESS
              /\ message' = SubSeq(message, n + 1, Len(message))
              /\ here' = IF changed THEN new ELSE here
              /\ Count(changed)
              /\ writeNeeded' = (writeNeeded \/ (changed /\ ~item.volatile))
  /\ UNCHANGED <<item, there, sent, known, silent>>

ItemNext ==
  \/ FromUnsigned \/ FromSigned \/ FromReal
  \/ Read \/ Assign \/ insertSelf \/ Cut \/ extractSelf

ItemSpec == ItemInit /\ [][ItemNext]_itemVars

-----------------------------------------------------------------------------
\* The type of the state: an item never holds more than its C variable can.
TypeOK ==
  /\ item \in Declared \union Undeclared
  /\ \A x \in {here, there} :
       /\ DOMAIN x = 1 .. item.len
       /\ \A i \in 1 .. item.len :
            IF item.type \in Floating THEN x[i] = NaN \/ x[i] \in Int
            ELSE x[i] \in 0 .. (Room(item.type) - 1)
  /\ changeCnt \in 0 .. MaxCount /\ writeNeeded \in BOOLEAN /\ silent \in BOOLEAN

\* A host that finds the count it knows finds the value it knows, however many
\* calls of setValue() and extractSelf() came between: the comparison before, the
\* cut to the item's width and the report agree for every pair of parameter and
\* item type.  The exceptions are named: an assignment, which reports nothing
\* (cDatabase.h:123), and the three calls of Wrong.
CountNamesValue ==
  item.config /\ ~silent /\ changeCnt = known.cnt => here = known.value

\* A request either brings what was inserted, all of it, or nothing: one that is
\* too short, or of a type extractSelf() does not know, leaves the item, the
\* count and the need to save alone; one that brings something new into an item
\* that is kept asks for a save.
BroughtWholeOrNot ==
  [][extractSelf =>
       IF ret' = RC_SUCCESS
       THEN /\ here' = sent
            /\ here' # here /\ ~item.volatile => writeNeeded'
       ELSE UNCHANGED <<here, changeCnt, writeNeeded>>]_itemVars
=============================================================================
