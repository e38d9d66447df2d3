---- MODULE EventCopyProofs ----
(***************************************************************************)
(* Proofs about the path of an event: for every event, any number of       *)
(* attributes and any limits, the first pass of ij_event_copy_from_input   *)
(* accepts what ij_validate_event accepts, the second writes inside the    *)
(* arena that the first one measured, a call that fails owns nothing, and  *)
(* an encoder accepts the payload exactly if it fits, and what it accepts  *)
(* reads back as the members of the event that the encoder emits.          *)
(*                                                                         *)
(* Neither pass knows the other's position, so ArenaSafe is not inductive. *)
(* ArenaInv says that there is one sequence of offsets f, one for every    *)
(* field and attribute, such that the first pass has measured f up to its  *)
(* position and the second pass has its cursor at the offset of its own.   *)
(* The offsets grow; that is part of ArenaInv, where each step of the      *)
(* first pass preserves it.  CopiedInv adds what the copied strings hold,  *)
(* VerdictInv that a scan has found fault exactly with what the validator  *)
(* rejects, and PayloadInv what an encoder was given and left.             *)
(*                                                                         *)
(* JsonReadsBack is then a fact about texts: Spells(e, s) says that e      *)
(* between quotes is read as the string s, Lexes(open, t, T) that t is     *)
(* read as the tokens T wherever it stands in a text, and the pieces of    *)
(* the encoder are taken through the two one by one.                       *)
(***************************************************************************)
EXTENDS EventPath, TextProofs

\* What the first pass adds to text_arena_size for an attribute and for the
\* k-th of the five fields and the attributes after them.
AttrRoom(a) == Len(a.key) + 1 + (IF IsString(a) THEN MeasuredRoom(a.value.data) + 1 ELSE 0)
Room(k) == IF k <= 5 THEN (IF fields[k] = Null THEN 0 ELSE Len(fields[k]) + 1)
           ELSE AttrRoom(attributes[k - 5])

\* The call has not failed and its copy was not disposed of.
Live == pc # "disposed" /\ (pc = "done" => status = "OK")

\* How far the two passes are.
Measured == IF pc = "header" THEN 0
            ELSE IF pc = "scan" THEN i - 1
            ELSE IF pc = "attrs" THEN 4 + i
            ELSE 5 + Len(attributes)
FieldsThere == IF pc \in {"header", "scan", "attrs"} THEN 0
               ELSE IF pc = "copy" THEN i - 1 ELSE 5
AttributesThere == IF pc = "values" THEN i - 1
                   ELSE IF pc = "done" THEN Len(attributes) ELSE 0

\* An attribute that the first pass accepted has a key, and a text if it is a
\* string.
Checked(a) == a.key # Null /\ (IsString(a) => a.value.data # Null)

IsSeq(s, n) == Len(s) = n /\ \E S : s \in Seq(S)
Shaped(c) == c = [fields |-> c.fields, attributes |-> c.attributes]

\* Where each pass can be, what it owns and how much of the copy there is.
PhaseInv ==
    /\ input \in Inputs
    /\ pc \in {"header", "scan", "attrs", "copy", "array", "values", "done", "disposed"}
    /\ pc \in {"header", "array"} => i = 1
    /\ pc \in {"scan", "copy"} => i \in 1 .. 6
    /\ pc \in {"attrs", "values"} => i \in 1 .. Len(attributes) + 1
    /\ pc \in {"header", "scan", "attrs"} \/ ~Live => heap = {} /\ copy = NoCopy
    /\ pc \in {"header", "scan", "attrs"} => cursor = 0
    /\ pc \notin {"done", "disposed"} => status = "none"
    /\ Shaped(copy)
    /\ Live => IsSeq(copy.fields, FieldsThere) /\ IsSeq(copy.attributes, AttributesThere)
    /\ Live => \A n \in 1 .. Len(attributes) : 5 + n <= Measured => Checked(attributes[n])

\* f gives the offsets in the arena of the first m fields and attributes.
Offsets(f, m) ==
    /\ f \in [Nat -> Nat] /\ f[0] = 0
    /\ \A k \in 1 .. m : f[k] = f[k - 1] + Room(k)
    /\ \A j, k \in 0 .. m : j <= k => f[j] <= f[k]

\* The copied strings start at these offsets, a value behind its key.
FieldsPlaced(f) ==
    \A n \in 1 .. Len(copy.fields) :
        IF fields[n] = Null THEN copy.fields[n] = Null
        ELSE copy.fields[n].at = f[n - 1] /\ copy.fields[n].text = fields[n]
AttributePlaced(owned, a, at) ==
    /\ owned.key.at = at /\ owned.key.text = a.key
    /\ IsString(owned) <=> IsString(a)
    /\ IsString(a) => /\ owned.value.data.at = at + (Len(a.key) + 1)
                      /\ owned.value.data.text \in {a.value.data, Literal}
AttributesPlaced(f) ==
    \A n \in 1 .. Len(copy.attributes) :
        AttributePlaced(copy.attributes[n], attributes[n], f[4 + n])

ArenaInv ==
    Live => \E f : /\ Offsets(f, Measured)
                   /\ f[Measured] = size
                   /\ f[FieldsThere + AttributesThere] = cursor
                   /\ FieldsPlaced(f) /\ AttributesPlaced(f)

----------------------------------------------------------------------------
(* The data *)

(* The shape of the caller's event. *)
LEMMA InputIs ==
    ASSUME input \in Inputs
    PROVE  /\ fields \in [1 .. 5 -> CString] /\ attributes \in Seq(Attribute)
           /\ Len(attributes) \in Nat
           /\ \A n \in 1 .. Len(attributes) :
                 /\ attributes[n].key \in CString /\ attributes[n].value.data \in CString
<1>1. fields \in [1 .. 5 -> CString] /\ attributes \in Seq(Attribute)
  BY EventCopyConstants DEF fields, attributes, event
<1>2. Len(attributes) \in Nat /\ \A n \in 1 .. Len(attributes) : attributes[n] \in Attribute
  BY <1>1, ElementOfSeq, LenProperties
<1>3. \A a \in Attribute : a.key \in CString /\ a.value.data \in CString
  BY DEF Attribute
<1> QED BY <1>1, <1>2, <1>3

(* A string has a length. *)
LEMMA LengthIs == ASSUME NEW s \in CString, s # Null PROVE Len(s) \in Nat
BY LenProperties DEF CString

(* Room for a text has room for the literal that may replace it. *)
LEMMA RoomForLiteral ==
    ASSUME NEW s \in CString, s # Null
    PROVE  /\ MeasuredRoom(s) \in Nat /\ CopiedRoom(s) = MeasuredRoom(s)
           /\ Len(s) <= MeasuredRoom(s) /\ Len(Literal) <= MeasuredRoom(s)
           /\ Len(Literal) \in Nat
<1>1. Len(s) \in Nat /\ Len(Literal) \in Nat
  BY LengthIs, EventCopyConstants, LenProperties
<1>2. ASSUME NEW a \in Nat, NEW b \in Nat
      PROVE  Max({a, b}) \in Nat /\ a <= Max({a, b}) /\ b <= Max({a, b})
  <2> DEFINE m == Max({a, b})
  <2>1. m = CHOOSE x \in {a, b} : \A y \in {a, b} : x >= y
    BY DEF Max
  <2>2. \E x \in {a, b} : \A y \in {a, b} : x >= y
    <3>1. CASE a >= b
      BY <3>1
    <3>2. CASE b >= a
      BY <3>2
    <3> QED BY <3>1, <3>2
  <2> HIDE DEF m
  <2>3. m \in {a, b} /\ \A y \in {a, b} : m >= y
    BY <2>1, <2>2
  <2>4. m \in Nat /\ a <= m /\ b <= m
    BY <2>3
  <2> QED BY <2>4 DEF m
<1> QED BY <1>1, <1>2 DEF MeasuredRoom, CopiedRoom

(* What an attribute that was accepted takes in the arena. *)
LEMMA AttributeRoom ==
    ASSUME NEW a, a.key \in CString, a.value.data \in CString, Checked(a)
    PROVE  /\ AttrRoom(a) \in Nat /\ Len(a.key) \in Nat /\ Len(a.key) + 1 <= AttrRoom(a)
           /\ IsString(a) =>
                /\ MeasuredRoom(a.value.data) \in Nat
                /\ AttrRoom(a) = Len(a.key) + 1 + (MeasuredRoom(a.value.data) + 1)
           /\ ~IsString(a) => AttrRoom(a) = Len(a.key) + 1
<1>1. Len(a.key) \in Nat
  BY LengthIs DEF Checked
<1>2. IsString(a) => MeasuredRoom(a.value.data) \in Nat
  BY RoomForLiteral DEF Checked
<1> QED BY <1>1, <1>2 DEF AttrRoom

(* What a field takes in the arena. *)
LEMMA FieldRoom ==
    ASSUME input \in Inputs, NEW k \in 1 .. 5
    PROVE  /\ Room(k) \in Nat
           /\ fields[k] = Null => Room(k) = 0
           /\ fields[k] # Null => Len(fields[k]) \in Nat /\ Room(k) = Len(fields[k]) + 1
<1>1. fields[k] \in CString /\ k <= 5
  BY InputIs
<1>2. fields[k] # Null => Len(fields[k]) \in Nat
  BY <1>1, LengthIs
<1> QED BY <1>1, <1>2 DEF Room

(* One more offset. *)
LEMMA OneMore ==
    ASSUME NEW f, NEW m \in Nat, Offsets(f, m), Room(m + 1) \in Nat
    PROVE  \E g : /\ Offsets(g, m + 1) /\ g[m + 1] = f[m] + Room(m + 1) /\ g[0] = f[0]
<1> DEFINE g == [f EXCEPT ![m + 1] = f[m] + Room(m + 1)]
<1>1. f \in [Nat -> Nat] /\ f[m] \in Nat /\ m + 1 \in Nat
  BY DEF Offsets
<1>2. g \in [Nat -> Nat]
  BY <1>1
<1>3. g[m + 1] = f[m] + Room(m + 1) /\ \A k \in 0 .. m : g[k] = f[k]
  BY <1>1
<1> HIDE DEF g
<1>4. g[0] = 0 /\ g[0] = f[0]
  BY <1>3 DEF Offsets
<1>5. ASSUME NEW k \in 1 .. m + 1 PROVE g[k] = g[k - 1] + Room(k)
  <2>1. CASE k = m + 1
    <3>1. k - 1 = m /\ m \in 0 .. m
      BY <2>1
    <3> QED BY <1>3, <2>1, <3>1
  <2>2. CASE k # m + 1
    <3>1. k \in 1 .. m /\ k \in 0 .. m /\ k - 1 \in 0 .. m
      BY <2>2
    <3> QED BY <1>3, <3>1 DEF Offsets
  <2> QED BY <2>1, <2>2
<1>6. ASSUME NEW j \in 0 .. m + 1, NEW k \in 0 .. m + 1, j <= k PROVE g[j] <= g[k]
  <2>1. CASE k \in 0 .. m
    <3>1. j \in 0 .. m
      BY <1>6, <2>1
    <3> QED BY <1>3, <1>6, <2>1, <3>1 DEF Offsets
  <2>2. CASE k = m + 1 /\ j \in 0 .. m
    <3>1. j <= m /\ m \in 0 .. m
      BY <2>2
    <3>2. f[j] <= f[m] /\ f[j] \in Nat
      BY <1>1, <2>2, <3>1 DEF Offsets
    <3>3. f[j] <= f[m] + Room(m + 1)
      BY <1>1, <3>2
    <3> QED BY <1>3, <2>2, <3>3
  <2>3. CASE k = m + 1 /\ j = m + 1
    BY <1>1, <1>2, <2>3
  <2> QED BY <2>1, <2>2, <2>3
<1>7. Offsets(g, m + 1)
  BY <1>2, <1>4, <1>5, <1>6 DEF Offsets
<1> QED BY <1>3, <1>4, <1>7

----------------------------------------------------------------------------
(* Steps *)

(* The call keeps its input. *)
LEMMA InputStays ==
    ASSUME input' = input
    PROVE  /\ fields' = fields /\ attributes' = attributes /\ event' = event
           /\ \A k : Room(k)' = Room(k)
           /\ \A a : IsString(a)' = IsString(a)
<1>1. fields' = fields /\ attributes' = attributes /\ event' = event
  BY DEF fields, attributes, event
<1>2. \A k : Room(k)' = Room(k)
  BY <1>1 DEF Room, AttrRoom, IsString, MeasuredRoom
<1> QED BY <1>1, <1>2 DEF IsString

(* What has to be shown of a step that leaves the call alive. *)
LEMMA ArenaIs ==
    ASSUME NEW f, NEW m, NEW t, input' = input, Offsets(f, m), Measured' = m,
           FieldsThere' + AttributesThere' = t, f[m] = size', f[t] = cursor',
           FieldsPlaced(f)', AttributesPlaced(f)'
    PROVE  ArenaInv'
<1>1. \A k : Room(k)' = Room(k)
  BY InputStays
<1>2. /\ f \in [Nat -> Nat] /\ f[0] = 0
      /\ \A k \in 1 .. Measured' : f[k] = f[k - 1] + Room(k)'
      /\ \A j, k \in 0 .. Measured' : j <= k => f[j] <= f[k]
  BY <1>1 DEF Offsets
<1> QED BY <1>2 DEF ArenaInv, Offsets

(* A step that moves neither pass keeps the offsets. *)
LEMMA ArenaSame ==
    ASSUME ArenaInv, Live, UNCHANGED <<input, size, cursor, copy>>,
           Measured' = Measured, FieldsThere' + AttributesThere' = FieldsThere + AttributesThere
    PROVE  ArenaInv'
<1>1. PICK f : /\ Offsets(f, Measured) /\ f[Measured] = size
               /\ f[FieldsThere + AttributesThere] = cursor
               /\ FieldsPlaced(f) /\ AttributesPlaced(f)
  BY DEF ArenaInv
<1>2. fields' = fields /\ attributes' = attributes /\ \A a : IsString(a)' = IsString(a)
  BY InputStays
<1>3. FieldsPlaced(f)'
  BY <1>1, <1>2 DEF FieldsPlaced
<1>4. AttributesPlaced(f)'
  BY <1>1, <1>2 DEF AttributesPlaced, AttributePlaced, IsString
<1> QED BY <1>1, <1>3, <1>4, ArenaIs

(* While the first pass measures, nothing is copied. *)
LEMMA ArenaMeasured ==
    ASSUME PhaseInv, ArenaInv, pc \in {"scan", "attrs"}, UNCHANGED <<input, pc, cursor, copy>>,
           Room(Measured + 1) \in Nat, Measured \in Nat, Measured' = Measured + 1,
           size' = size + Room(Measured + 1)
    PROVE  ArenaInv'
<1>0. Live
  BY DEF Live
<1>1. PICK f : Offsets(f, Measured) /\ f[Measured] = size
  BY <1>0 DEF ArenaInv
<1>2. PICK g : Offsets(g, Measured + 1) /\ g[Measured + 1] = f[Measured] + Room(Measured + 1)
  BY <1>1, OneMore
<1>3. copy = NoCopy /\ cursor = 0 /\ FieldsThere' + AttributesThere' = 0
  BY DEF PhaseInv, FieldsThere, AttributesThere
<1>4. g[0] = 0
  BY <1>2 DEF Offsets
<1>5. FieldsPlaced(g)' /\ AttributesPlaced(g)'
  BY <1>3 DEF FieldsPlaced, AttributesPlaced, NoCopy
<1> QED BY <1>1, <1>2, <1>3, <1>4, <1>5, ArenaIs

\* r is s, of length n, and e behind it.
Longer(r, s, n, e) == IsSeq(r, n + 1) /\ r[n + 1] = e /\ \A k \in 1 .. n : r[k] = s[k]

(* One string more. *)
LEMMA OneMoreCopied ==
    ASSUME NEW n \in Nat, NEW s, IsSeq(s, n), NEW e, NEW r, r = Append(s, e)
    PROVE  Longer(r, s, n, e)
<1>1. PICK S : s \in Seq(S)
  BY DEF IsSeq
<1>2. s \in Seq(S \cup {e}) /\ Len(s) = n
  BY <1>1 DEF IsSeq
<1>3. /\ Append(s, e) \in Seq(S \cup {e}) /\ Len(Append(s, e)) = Len(s) + 1
      /\ \A k \in 1 .. Len(s) : Append(s, e)[k] = s[k] /\ Append(s, e)[Len(s) + 1] = e
      /\ Append(s, e)[Len(s) + 1] = e
  <2>1. e \in S \cup {e}
    OBVIOUS
  <2> QED BY <1>2, <2>1, AppendProperties
<1> QED BY <1>2, <1>3 DEF IsSeq, Longer

(* The empty copy. *)
LEMMA NothingCopied ==
    /\ NoCopy.fields = << >> /\ NoCopy.attributes = << >> /\ IsSeq(<< >>, 0)
    /\ Shaped(NoCopy)
<1>1. << >> \in Seq({}) /\ Len(<< >>) = 0
  OBVIOUS
<1> QED BY <1>1 DEF NoCopy, IsSeq, Shaped

(* A call that fails owns nothing and has no copy. *)
LEMMA FailStep ==
    ASSUME PhaseInv, input' = input, pc' = "done", status' # "OK",
           heap' = {}, copy' = NoCopy
    PROVE  PhaseInv' /\ ArenaInv'
<1>1. ~Live'
  BY DEF Live
<1>2. ArenaInv'
  BY <1>1 DEF ArenaInv
<1>3. PhaseInv'
  BY <1>1 DEF PhaseInv, Shaped, NoCopy
<1> QED BY <1>2, <1>3

(* PhaseInv of a live call whose passes are where FieldsThere and          *)
(* AttributesThere say.                                                    *)
LEMMA PhaseIs ==
    ASSUME PhaseInv, input' = input, Live', pc' # "done" => status' = "none",
           pc' \in {"header", "scan", "attrs", "copy", "array", "values", "done"},
           pc' \in {"header", "array"} => i' = 1,
           pc' \in {"scan", "copy"} => i' \in 1 .. 6,
           pc' \in {"attrs", "values"} => i' \in 1 .. Len(attributes) + 1,
           pc' \in {"header", "scan", "attrs"} => heap' = {} /\ copy' = NoCopy /\ cursor' = 0,
           NEW x, NEW y, IsSeq(copy'.fields, x), IsSeq(copy'.attributes, y), Shaped(copy'),
           x = FieldsThere', y = AttributesThere',
           \A n \in 1 .. Len(attributes) : 5 + n <= Measured' => Checked(attributes[n])
    PROVE  PhaseInv'
<1>1. attributes' = attributes /\ \A a : IsString(a)' = IsString(a)
  BY InputStays
<1>2. \A n \in 1 .. Len(attributes') : 5 + n <= Measured' => Checked(attributes[n])'
  BY <1>1 DEF Checked, IsString
<1>3. IsSeq(copy.fields, FieldsThere)' /\ IsSeq(copy.attributes, AttributesThere)'
  BY DEF IsSeq
<1>4. input' \in Inputs
  BY DEF PhaseInv
<1>5. pc' # "disposed" /\ Shaped(copy)'
  BY DEF Shaped
<1> QED BY <1>1, <1>2, <1>3, <1>4, <1>5 DEF PhaseInv

(* The first pass starts, or the header is refused. *)
LEMMA HeaderStep == ASSUME PhaseInv, ArenaInv, CheckHeader PROVE PhaseInv' /\ ArenaInv'
<1>1. pc = "header" /\ UNCHANGED <<input, i, total, size, cursor, copy, heap>>
  BY DEF CheckHeader
<1>p. i = 1 /\ heap = {} /\ copy = NoCopy /\ cursor = 0 /\ status = "none" /\ Live
  BY <1>1 DEF PhaseInv, Live
<1>2. CASE pc' = "scan" /\ status' = status
  <2>1. /\ Measured = 0 /\ Measured' = 0 /\ FieldsThere = 0 /\ FieldsThere' = 0
        /\ AttributesThere = 0 /\ AttributesThere' = 0
    BY <1>1, <1>p, <1>2 DEF Measured, FieldsThere, AttributesThere
  <2>2. ArenaInv'
    BY <1>1, <1>p, <2>1, ArenaSame
  <2>3. PhaseInv'
    <3>1. IsSeq(copy'.fields, 0) /\ IsSeq(copy'.attributes, 0) /\ Live' /\ Shaped(copy')
      BY <1>1, <1>2, <1>p, NothingCopied DEF Live
    <3>2. \A n \in 1 .. Len(attributes) : ~(5 + n <= Measured')
      BY <2>1, InputIs DEF PhaseInv
    <3> QED BY <1>1, <1>2, <1>p, <2>1, <3>1, <3>2, PhaseIs
  <2> QED BY <2>2, <2>3
<1>3. CASE pc' = "done" /\ status' = "INVALID_ARGUMENT"
  BY <1>1, <1>p, <1>3, FailStep
<1> QED BY <1>2, <1>3 DEF CheckHeader, Return

(* A field is measured, or refused. *)
LEMMA ScanFieldStep == ASSUME PhaseInv, ArenaInv, ScanField PROVE PhaseInv' /\ ArenaInv'
<1>1. pc = "scan" /\ i \in 1 .. 5 /\ UNCHANGED <<input, cursor, copy, heap>>
  BY DEF ScanField
<1>p. heap = {} /\ copy = NoCopy /\ cursor = 0 /\ status = "none" /\ input \in Inputs
  BY <1>1 DEF PhaseInv
<1>r. /\ Room(i) \in Nat /\ (fields[i] = Null => Room(i) = 0)
      /\ (fields[i] # Null => Len(fields[i]) \in Nat /\ Room(i) = Len(fields[i]) + 1)
  BY <1>1, <1>p, FieldRoom
<1>s. size \in Nat
  <2>1. PICK f : Offsets(f, Measured) /\ f[Measured] = size
    BY <1>1 DEF ArenaInv, Live
  <2>2. Measured \in Nat
    BY <1>1 DEF Measured
  <2> QED BY <2>1, <2>2 DEF Offsets
<1>2. CASE i' = i + 1 /\ UNCHANGED <<pc, status>> /\ size' = size + Room(i)
  <2>1. Measured = i - 1 /\ Measured' = Measured + 1 /\ Measured \in Nat /\ Measured + 1 = i
    BY <1>1, <1>2 DEF Measured
  <2>2. ArenaInv'
    BY <1>1, <1>2, <1>r, <2>1, ArenaMeasured
  <2>3. PhaseInv'
    <3>1. /\ IsSeq(copy'.fields, 0) /\ IsSeq(copy'.attributes, 0) /\ Live'
          /\ FieldsThere' = 0 /\ AttributesThere' = 0 /\ Shaped(copy')
      BY <1>1, <1>2, <1>p, NothingCopied DEF Live, FieldsThere, AttributesThere
    <3>2. \A n \in 1 .. Len(attributes) : ~(5 + n <= Measured')
      BY <1>1, <2>1, InputIs DEF PhaseInv
    <3>3. i' \in 1 .. 6
      BY <1>1, <1>2
    <3> QED BY <1>1, <1>2, <1>p, <3>1, <3>2, <3>3, PhaseIs
  <2> QED BY <2>2, <2>3
<1>3. CASE pc' = "done" /\ status' = "INVALID_ARGUMENT"
  BY <1>1, <1>p, <1>3, FailStep
<1>4. ASSUME fields[i] = Null, UNCHANGED size PROVE size' = size + Room(i)
  BY <1>4, <1>r, <1>s
<1>5. ASSUME fields[i] # Null, size' = size + Len(fields[i]) + 1 PROVE size' = size + Room(i)
  BY <1>5, <1>r, <1>s
<1> QED BY <1>2, <1>3, <1>4, <1>5 DEF ScanField, Return

(* The fields are measured, or too long together. *)
LEMMA FieldsScannedStep == ASSUME PhaseInv, ArenaInv, FieldsScanned PROVE PhaseInv' /\ ArenaInv'
<1>1. pc = "scan" /\ i = 6 /\ UNCHANGED <<input, total, size, cursor, copy, heap>>
  BY DEF FieldsScanned
<1>p. heap = {} /\ copy = NoCopy /\ cursor = 0 /\ status = "none" /\ Live
  BY <1>1 DEF PhaseInv, Live
<1>2. CASE pc' = "attrs" /\ i' = 1 /\ status' = status
  <2>1. /\ Measured = 5 /\ Measured' = 5 /\ FieldsThere = 0 /\ FieldsThere' = 0
        /\ AttributesThere = 0 /\ AttributesThere' = 0
    BY <1>1, <1>2 DEF Measured, FieldsThere, AttributesThere
  <2>2. ArenaInv'
    BY <1>1, <1>p, <2>1, ArenaSame
  <2>3. PhaseInv'
    <3>1. IsSeq(copy'.fields, 0) /\ IsSeq(copy'.attributes, 0) /\ Live' /\ Shaped(copy')
      BY <1>1, <1>2, <1>p, NothingCopied DEF Live
    <3>2. Len(attributes) \in Nat
      BY InputIs DEF PhaseInv
    <3>3. i' \in 1 .. Len(attributes) + 1 /\ \A n \in 1 .. Len(attributes) : ~(5 + n <= Measured')
      BY <1>2, <2>1, <3>2
    <3> QED BY <1>1, <1>2, <1>p, <2>1, <3>1, <3>3, PhaseIs
  <2> QED BY <2>2, <2>3
<1>3. CASE pc' = "done" /\ status' = "INVALID_ARGUMENT"
  BY <1>1, <1>p, <1>3, FailStep
<1> QED BY <1>2, <1>3 DEF FieldsScanned, Return

(* An attribute is measured, or refused. *)
LEMMA ScanAttributeStep == ASSUME PhaseInv, ArenaInv, ScanAttribute PROVE PhaseInv' /\ ArenaInv'
<1> DEFINE a == attributes[i]
<1>1. pc = "attrs" /\ i <= Len(attributes) /\ UNCHANGED <<input, cursor, copy, heap>>
  BY DEF ScanAttribute
<1>p. /\ heap = {} /\ copy = NoCopy /\ cursor = 0 /\ status = "none" /\ input \in Inputs
      /\ i \in 1 .. Len(attributes) + 1
      /\ \A n \in 1 .. Len(attributes) : 5 + n <= Measured => Checked(attributes[n])
  BY <1>1 DEF PhaseInv, Live
<1>n. Len(attributes) \in Nat /\ i \in 1 .. Len(attributes)
  BY <1>1, <1>p, InputIs
<1>t. a.key \in CString /\ a.value.data \in CString
  BY <1>n, <1>p, InputIs
<1>m. Measured = 4 + i /\ Measured \in Nat /\ Measured + 1 = 5 + i
  BY <1>1, <1>n DEF Measured
<1>s. size \in Nat
  <2>1. PICK f : Offsets(f, Measured) /\ f[Measured] = size
    BY <1>1 DEF ArenaInv, Live
  <2> QED BY <1>m, <2>1 DEF Offsets
<1>2. CASE /\ Checked(a) /\ i' = i + 1 /\ UNCHANGED <<pc, status>>
           /\ size' = size + Len(a.key) + 1 +
                      (IF IsString(a) THEN MeasuredRoom(a.value.data) + 1 ELSE 0)
  <2>1. Measured' = Measured + 1 /\ Measured' = 5 + i
    BY <1>1, <1>2, <1>n, <1>m DEF Measured
  <2>2. Room(Measured + 1) = AttrRoom(a)
    <3>1. ~(5 + i <= 5) /\ (5 + i) - 5 = i
      BY <1>n
    <3> QED BY <1>m, <3>1 DEF Room
  <2>3. AttrRoom(a) \in Nat /\ size' = size + AttrRoom(a)
    <3>1. /\ AttrRoom(a) \in Nat /\ Len(a.key) \in Nat
          /\ IsString(a) => MeasuredRoom(a.value.data) \in Nat
      BY <1>2, <1>t, AttributeRoom
    <3> DEFINE r == IF IsString(a) THEN MeasuredRoom(a.value.data) + 1 ELSE 0
               l == Len(a.key)
    <3>2. r \in Nat /\ l \in Nat /\ size' = size + l + 1 + r
      BY <1>2, <3>1
    <3>3. AttrRoom(a) = l + 1 + r
      BY DEF AttrRoom
    <3> HIDE DEF r, l, a
    <3>4. size + l + 1 + r = size + (l + 1 + r)
      BY <1>s, <3>2
    <3> QED BY <3>1, <3>2, <3>3, <3>4
  <2>4. ArenaInv'
    BY <1>1, <1>2, <1>m, <2>1, <2>2, <2>3, ArenaMeasured
  <2>5. PhaseInv'
    <3>1. /\ IsSeq(copy'.fields, 0) /\ IsSeq(copy'.attributes, 0) /\ Live'
          /\ FieldsThere' = 0 /\ AttributesThere' = 0 /\ Shaped(copy')
      BY <1>1, <1>2, <1>p, NothingCopied DEF Live, FieldsThere, AttributesThere
    <3>2. \A n \in 1 .. Len(attributes) : 5 + n <= Measured' => Checked(attributes[n])
      <4>1. \A n \in 1 .. Len(attributes) : 5 + n <= 5 + i => 5 + n <= Measured \/ n = i
        BY <1>n, <1>m
      <4> QED BY <1>2, <1>p, <2>1, <4>1
    <3>3. i' \in 1 .. Len(attributes) + 1
      BY <1>2, <1>n
    <3> QED BY <1>1, <1>2, <1>p, <3>1, <3>2, <3>3, PhaseIs
  <2> QED BY <2>4, <2>5
<1>3. CASE pc' = "done" /\ status' = "INVALID_ARGUMENT"
  BY <1>1, <1>p, <1>3, FailStep
<1>4. ASSUME scan_string_field_copy(a.key, KeyMax, FALSE),
             IF IsString(a) THEN validate_attr_string_copy(a.value.data)
                            ELSE validate_attr_value(a.value)
      PROVE  Checked(a)
  BY <1>4 DEF Checked, scan_string_field_copy, validate_attr_string_copy
<1> QED BY <1>2, <1>3, <1>4 DEF ScanAttribute, Return

(* Both allocations, when there is no memory. *)
LEMMA AllocFailsStep == ASSUME PhaseInv, ArenaInv, AllocFails PROVE PhaseInv' /\ ArenaInv'
<1>1. /\ pc' = "done" /\ status' = "INTERNAL_ERROR" /\ input' = input
      /\ heap' = {} /\ copy' = NoCopy
  BY DEF AllocFails, Return, Disposed
<1> QED BY <1>1, FailStep

(* The steps of the second pass between the copies. *)
LEMMA BetweenStep ==
    ASSUME PhaseInv, ArenaInv,
           AllocArena \/ FieldsCopied \/ NoArray \/ AllocArray \/ AttributesCopied
    PROVE  PhaseInv' /\ ArenaInv'
<1>1. UNCHANGED <<input, size, cursor, copy>>
  BY DEF AllocArena, FieldsCopied, NoArray, AllocArray, AttributesCopied
<1>n. Len(attributes) \in Nat /\ attributes' = attributes
  BY <1>1, InputIs, InputStays DEF PhaseInv
<1>2. /\ Live /\ Live' /\ (pc' # "done" => status' = "none")
      /\ pc' \in {"copy", "array", "values", "done"}
      /\ pc' = "array" => i' = 1
      /\ pc' = "copy" => i' = 1
      /\ pc' = "values" => i' = 1
  <2>1. CASE AllocArena
    BY <2>1 DEF AllocArena, PhaseInv, Live
  <2>2. CASE FieldsCopied
    BY <2>2 DEF FieldsCopied, PhaseInv, Live
  <2>3. CASE NoArray
    BY <2>3 DEF NoArray, Return, PhaseInv, Live
  <2>4. CASE AllocArray
    BY <2>4 DEF AllocArray, PhaseInv, Live
  <2>5. CASE AttributesCopied
    BY <2>5 DEF AttributesCopied, Return, PhaseInv, Live
  <2> QED BY <2>1, <2>2, <2>3, <2>4, <2>5
<1>3. /\ Measured' = Measured /\ Measured = 5 + Len(attributes)
      /\ FieldsThere' = FieldsThere /\ AttributesThere' = AttributesThere
  <2>1. CASE AllocArena
    <3>1. pc = "attrs" /\ pc' = "copy" /\ i = Len(attributes) + 1 /\ i' = 1
      BY <2>1, <1>n DEF AllocArena, PhaseInv
    <3> QED BY <1>n, <3>1 DEF Measured, FieldsThere, AttributesThere
  <2>2. CASE FieldsCopied
    BY <1>n, <2>2 DEF FieldsCopied, Measured, FieldsThere, AttributesThere
  <2>3. CASE NoArray
    BY <1>n, <2>3 DEF NoArray, Return, Measured, FieldsThere, AttributesThere
  <2>4. CASE AllocArray
    <3>1. pc = "array" /\ pc' = "values" /\ i' = 1
      BY <2>4 DEF AllocArray, PhaseInv
    <3> QED BY <1>n, <3>1 DEF Measured, FieldsThere, AttributesThere
  <2>5. CASE AttributesCopied
    <3>1. pc = "values" /\ pc' = "done" /\ i = Len(attributes) + 1
      BY <2>5, <1>n DEF AttributesCopied, Return, PhaseInv
    <3> QED BY <1>n, <3>1 DEF Measured, FieldsThere, AttributesThere
  <2> QED BY <2>1, <2>2, <2>3, <2>4, <2>5
<1>4. ArenaInv'
  BY <1>1, <1>2, <1>3, ArenaSame
<1>5. PhaseInv'
  <2>1. IsSeq(copy.fields, FieldsThere) /\ IsSeq(copy.attributes, AttributesThere)
    BY <1>2 DEF PhaseInv
  <2>2. \A n \in 1 .. Len(attributes) : 5 + n <= Measured' => Checked(attributes[n])
    BY <1>2, <1>3 DEF PhaseInv
  <2>3. 1 \in 1 .. 6 /\ 1 \in 1 .. Len(attributes) + 1
    BY <1>n
  <2>4. /\ IsSeq(copy'.fields, FieldsThere) /\ IsSeq(copy'.attributes, AttributesThere)
        /\ Shaped(copy')
    BY <1>1, <2>1 DEF PhaseInv
  <2> QED BY <1>1, <1>2, <1>3, <2>2, <2>3, <2>4, PhaseIs
<1> QED BY <1>4, <1>5

\* e is copied behind the fields that are there.
FieldBehind(e) ==
    /\ copy'.attributes = copy.attributes /\ Shaped(copy')
    /\ IsSeq(copy'.fields, i) /\ copy'.fields[i] = e
    /\ \A k \in 1 .. i - 1 : copy'.fields[k] = copy.fields[k]
    /\ Len(copy.fields) = i - 1 /\ Len(copy'.fields) = i

(* One field more. *)
LEMMA FieldAppended ==
    ASSUME PhaseInv, pc = "copy", i \in Nat \ {0}, NEW e,
           copy' = [copy EXCEPT !.fields = Append(@, e)]
    PROVE  FieldBehind(e)
<1>1. Live /\ FieldsThere = i - 1
  BY DEF Live, FieldsThere
<1>2. copy'.fields = Append(copy.fields, e) /\ copy'.attributes = copy.attributes /\ Shaped(copy')
  BY DEF PhaseInv, Shaped
<1> DEFINE n == i - 1
           r == copy'.fields
           q == copy.fields
<1>3. n \in Nat /\ IsSeq(q, n) /\ r = Append(q, e) /\ n + 1 = i
  BY <1>1, <1>2 DEF PhaseInv
<1> HIDE DEF n, r, q
<1>4. Longer(r, q, n, e)
  BY <1>3, OneMoreCopied, Zenon
<1>5. IsSeq(r, n + 1) /\ r[n + 1] = e /\ \A k \in 1 .. n : r[k] = q[k]
  BY <1>4 DEF Longer
<1>6. Len(q) = n /\ Len(r) = i
  BY <1>3, <1>5 DEF IsSeq
<1> QED BY <1>2, <1>3, <1>5, <1>6 DEF n, r, q, FieldBehind

\* e is copied behind the attributes that are there.
AttributeBehind(e) ==
    /\ copy'.fields = copy.fields /\ Shaped(copy')
    /\ IsSeq(copy'.attributes, i) /\ copy'.attributes[i] = e
    /\ \A k \in 1 .. i - 1 : copy'.attributes[k] = copy.attributes[k]
    /\ Len(copy.attributes) = i - 1 /\ Len(copy'.attributes) = i

(* One attribute more. *)
LEMMA AttributeAppended ==
    ASSUME PhaseInv, pc = "values", i \in Nat \ {0}, NEW e,
           copy' = [copy EXCEPT !.attributes = Append(@, e)]
    PROVE  AttributeBehind(e)
<1>1. Live /\ AttributesThere = i - 1
  BY DEF Live, AttributesThere
<1>2. copy'.attributes = Append(copy.attributes, e) /\ copy'.fields = copy.fields /\ Shaped(copy')
  BY DEF PhaseInv, Shaped
<1> DEFINE n == i - 1
           r == copy'.attributes
           q == copy.attributes
<1>3. n \in Nat /\ IsSeq(q, n) /\ r = Append(q, e) /\ n + 1 = i
  BY <1>1, <1>2 DEF PhaseInv
<1> HIDE DEF n, r, q
<1>4. Longer(r, q, n, e)
  BY <1>3, OneMoreCopied, Zenon
<1>5. IsSeq(r, n + 1) /\ r[n + 1] = e /\ \A k \in 1 .. n : r[k] = q[k]
  BY <1>4 DEF Longer
<1>6. Len(q) = n /\ Len(r) = i
  BY <1>3, <1>5 DEF IsSeq
<1> QED BY <1>2, <1>3, <1>5, <1>6 DEF n, r, q, AttributeBehind

(* A field is copied to its offset. *)
LEMMA CopyFieldStep == ASSUME PhaseInv, ArenaInv, CopyField PROVE PhaseInv' /\ ArenaInv'
<1> DEFINE s == fields[i]
<1>1. pc = "copy" /\ i \in 1 .. 5 /\ i' = i + 1 /\ UNCHANGED <<input, pc, size, heap, status>>
  BY DEF CopyField
<1>p. /\ status = "none" /\ input \in Inputs /\ Live /\ Live'
      /\ IsSeq(copy.fields, FieldsThere) /\ IsSeq(copy.attributes, AttributesThere)
      /\ \A n \in 1 .. Len(attributes) : 5 + n <= Measured => Checked(attributes[n])
  BY <1>1 DEF PhaseInv, Live
<1>n. /\ Len(attributes) \in Nat /\ attributes' = attributes /\ fields' = fields
      /\ \A a : IsString(a)' = IsString(a)
  BY <1>1, <1>p, InputIs, InputStays
<1>m. /\ Measured = 5 + Len(attributes) /\ Measured' = Measured
      /\ FieldsThere = i - 1 /\ FieldsThere' = i /\ AttributesThere = 0 /\ AttributesThere' = 0
      /\ FieldsThere + AttributesThere = i - 1 /\ FieldsThere' + AttributesThere' = i
  BY <1>1, <1>n DEF Measured, FieldsThere, AttributesThere
<1>r. /\ Room(i) \in Nat /\ (s = Null => Room(i) = 0)
      /\ (s # Null => Len(s) \in Nat /\ Room(i) = Len(s) + 1)
  BY <1>1, <1>p, FieldRoom
<1>f. PICK f : /\ Offsets(f, Measured) /\ f[Measured] = size
               /\ f[FieldsThere + AttributesThere] = cursor
               /\ FieldsPlaced(f) /\ AttributesPlaced(f)
  BY <1>p DEF ArenaInv
<1>g. f[i - 1] = cursor /\ cursor \in Nat /\ f[i] = cursor + Room(i)
  <2>1. i - 1 \in Nat /\ i \in 1 .. Measured
    BY <1>1, <1>m, <1>n
  <2> QED BY <1>f, <1>m, <2>1 DEF Offsets
<1>2. PICK e : /\ copy' = [copy EXCEPT !.fields = Append(@, e)]
               /\ cursor' = cursor + Room(i)
               /\ IF s = Null THEN e = Null ELSE e.at = cursor /\ e.text = s
  <2>1. CASE s = Null
    BY <1>g, <1>r, <2>1 DEF CopyField
  <2>2. CASE s # Null
    <3> DEFINE e == Owned(s, cursor, Len(s))
    <3>1. copy' = [copy EXCEPT !.fields = Append(@, e)] /\ cursor' = cursor + e.room
      BY <2>2 DEF CopyField
    <3>2. e.at = cursor /\ e.text = s /\ e.room = Len(s) + 1
      BY DEF Owned, Footprint
    <3> HIDE DEF e
    <3> QED BY <1>r, <2>2, <3>1, <3>2
  <2> QED BY <2>1, <2>2
<1>d. FieldBehind(e)
  BY <1>1, <1>2, FieldAppended
<1>c. copy'.attributes = copy.attributes /\ Shaped(copy')
  BY <1>d DEF FieldBehind
<1>l. /\ IsSeq(copy'.fields, i) /\ copy'.fields[i] = e
      /\ \A k \in 1 .. i - 1 : copy'.fields[k] = copy.fields[k]
      /\ Len(copy.fields) = i - 1 /\ Len(copy'.fields) = i
  BY <1>d DEF FieldBehind
<1>3. FieldsPlaced(f)'
  <2> SUFFICES ASSUME NEW n \in 1 .. i
               PROVE  IF fields[n] = Null THEN copy'.fields[n] = Null
                      ELSE copy'.fields[n].at = f[n - 1] /\ copy'.fields[n].text = fields[n]
    BY <1>n, <1>l DEF FieldsPlaced
  <2>1. CASE n = i
    BY <1>2, <1>l, <1>g, <2>1
  <2>2. CASE n # i
    <3>1. n \in 1 .. i - 1
      BY <1>1, <2>2
    <3> QED BY <1>f, <1>l, <3>1 DEF FieldsPlaced
  <2> QED BY <2>1, <2>2
<1>4. AttributesPlaced(f)'
  BY <1>c, <1>f, <1>n DEF AttributesPlaced, AttributePlaced, IsString
<1>5. ArenaInv'
  <2>1. f[Measured] = size' /\ f[i] = cursor'
    BY <1>1, <1>2, <1>f, <1>g
  <2> QED BY <1>1, <1>m, <1>f, <1>3, <1>4, <2>1, ArenaIs
<1>6. PhaseInv'
  <2>1. IsSeq(copy'.attributes, 0) /\ i' \in 1 .. 6 /\ pc' = "copy" /\ status' = "none"
    BY <1>1, <1>c, <1>m, <1>p
  <2> QED BY <1>1, <1>c, <1>l, <1>m, <1>p, <2>1, PhaseIs
<1> QED BY <1>5, <1>6

(* An attribute is copied to its offset, the value behind the key. *)
LEMMA CopyAttributeStep == ASSUME PhaseInv, ArenaInv, CopyAttribute PROVE PhaseInv' /\ ArenaInv'
<1> DEFINE a == attributes[i]
<1>1. /\ pc = "values" /\ i <= Len(attributes) /\ i' = i + 1
      /\ UNCHANGED <<input, pc, size, heap, status>>
  BY DEF CopyAttribute
<1>p. /\ status = "none" /\ input \in Inputs /\ Live /\ Live'
      /\ i \in 1 .. Len(attributes) + 1
      /\ IsSeq(copy.fields, FieldsThere) /\ IsSeq(copy.attributes, AttributesThere)
      /\ \A n \in 1 .. Len(attributes) : 5 + n <= Measured => Checked(attributes[n])
  BY <1>1 DEF PhaseInv, Live
<1>n. /\ Len(attributes) \in Nat /\ attributes' = attributes /\ fields' = fields
      /\ \A b : IsString(b)' = IsString(b)
  BY <1>1, <1>p, InputIs, InputStays
<1>i. i \in 1 .. Len(attributes) /\ i \in Nat
  BY <1>1, <1>n, <1>p
<1>m. /\ Measured = 5 + Len(attributes) /\ Measured' = Measured
      /\ FieldsThere = 5 /\ FieldsThere' = 5
      /\ AttributesThere = i - 1 /\ AttributesThere' = i
      /\ FieldsThere + AttributesThere = 4 + i /\ FieldsThere' + AttributesThere' = 5 + i
  BY <1>1, <1>n, <1>i DEF Measured, FieldsThere, AttributesThere
<1>k. a.key \in CString /\ a.value.data \in CString /\ Checked(a)
  <2>1. 5 + i <= Measured
    BY <1>i, <1>m, <1>n
  <2> QED BY <1>i, <1>p, <2>1, InputIs
<1>r. /\ AttrRoom(a) \in Nat /\ Len(a.key) \in Nat
      /\ IsString(a) => /\ MeasuredRoom(a.value.data) \in Nat
                        /\ AttrRoom(a) = Len(a.key) + 1 + (MeasuredRoom(a.value.data) + 1)
      /\ ~IsString(a) => AttrRoom(a) = Len(a.key) + 1
  BY <1>k, AttributeRoom
<1>f. PICK f : /\ Offsets(f, Measured) /\ f[Measured] = size
               /\ f[FieldsThere + AttributesThere] = cursor
               /\ FieldsPlaced(f) /\ AttributesPlaced(f)
  BY <1>p DEF ArenaInv
<1>g. f[4 + i] = cursor /\ cursor \in Nat /\ f[5 + i] = cursor + AttrRoom(a)
  <2>1. 4 + i \in Nat /\ 5 + i \in 1 .. Measured /\ (5 + i) - 1 = 4 + i
    BY <1>i, <1>m, <1>n
  <2>2. Room(5 + i) = AttrRoom(a)
    <3>1. ~(5 + i <= 5) /\ (5 + i) - 5 = i
      BY <1>i
    <3> QED BY <3>1 DEF Room
  <2> QED BY <1>f, <1>m, <2>1, <2>2 DEF Offsets
<1>2. PICK e : /\ copy' = [copy EXCEPT !.attributes = Append(@, e)]
               /\ cursor' = cursor + AttrRoom(a)
               /\ AttributePlaced(e, a, cursor)
  <2> DEFINE key == Owned(a.key, cursor, Len(a.key))
             text == Owned(a.value.data, cursor + key.room, CopiedRoom(a.value.data))
             value == IF ~IsString(a) THEN a.value
                      ELSE [kind |-> "STRING",
                            data |-> IF should_redact(a) THEN Redacted(text) ELSE text]
             e == [key |-> key, value |-> value]
  <2>1. /\ copy' = [copy EXCEPT !.attributes = Append(@, e)]
        /\ cursor' = cursor + key.room + (IF IsString(a) THEN text.room ELSE 0)
    BY DEF CopyAttribute
  <2>2. key.at = cursor /\ key.text = a.key /\ key.room = Len(a.key) + 1
    BY DEF Owned, Footprint
  <2>3. IsString(a) => /\ text.at = cursor + (Len(a.key) + 1) /\ text.text = a.value.data
                       /\ text.room = MeasuredRoom(a.value.data) + 1
    <3>1. /\ text.at = cursor + key.room /\ text.text = a.value.data
          /\ text.room = CopiedRoom(a.value.data) + 1
      <4> HIDE DEF key
      <4> QED BY DEF Owned, Footprint
    <3>2. IsString(a) => CopiedRoom(a.value.data) = MeasuredRoom(a.value.data)
      BY <1>k, RoomForLiteral DEF Checked
    <3> HIDE DEF key, text
    <3> QED BY <2>2, <3>1, <3>2
  <2>t. /\ Redacted(text).at = text.at /\ Redacted(text).text = Literal
    <3>1. \A x, y, z, w : LET o == [at |-> x, text |-> y, room |-> z, escape |-> w]
                         IN  Redacted(o).at = x /\ Redacted(o).text = Literal
      BY DEF Redacted
    <3> HIDE DEF key
    <3> QED BY <3>1 DEF Owned
  <2> HIDE DEF key, text
  <2>4. AttributePlaced(e, a, cursor)
    <3>1. e.key = key /\ e.value = value
      OBVIOUS
    <3>2. IsString(e) <=> IsString(a)
      BY <3>1 DEF IsString
    <3>3. IsString(a) => /\ value.data.at = text.at
                         /\ value.data.text \in {text.text, Literal}
      BY <2>t
    <3> HIDE DEF value, e
    <3> QED BY <2>2, <2>3, <3>1, <3>2, <3>3 DEF AttributePlaced
  <2>5. cursor' = cursor + AttrRoom(a)
    <3>1. CASE IsString(a)
      <4>1. key.room \in Nat /\ text.room \in Nat /\ AttrRoom(a) = key.room + text.room
        BY <1>r, <2>2, <2>3, <3>1
      <4> QED BY <1>g, <2>1, <3>1, <4>1
    <3>2. CASE ~IsString(a)
      BY <1>g, <1>r, <2>1, <2>2, <3>2
    <3> QED BY <3>1, <3>2
  <2> HIDE DEF e
  <2> QED BY <2>1, <2>4, <2>5
<1>d. AttributeBehind(e)
  BY <1>1, <1>2, <1>i, AttributeAppended
<1>c. copy'.fields = copy.fields /\ Shaped(copy')
  BY <1>d DEF AttributeBehind
<1>l. /\ IsSeq(copy'.attributes, i) /\ copy'.attributes[i] = e
      /\ \A k \in 1 .. i - 1 : copy'.attributes[k] = copy.attributes[k]
      /\ Len(copy.attributes) = i - 1 /\ Len(copy'.attributes) = i
  BY <1>d DEF AttributeBehind
<1>3. AttributesPlaced(f)'
  <2> SUFFICES ASSUME NEW n \in 1 .. i
               PROVE  AttributePlaced(copy'.attributes[n], attributes[n], f[4 + n])
    BY <1>n, <1>l DEF AttributesPlaced, AttributePlaced, IsString
  <2>1. CASE n = i
    BY <1>2, <1>l, <1>g, <2>1
  <2>2. CASE n # i
    <3>1. n \in 1 .. i - 1
      BY <1>i, <2>2
    <3> QED BY <1>f, <1>l, <3>1 DEF AttributesPlaced
  <2> QED BY <2>1, <2>2
<1>4. FieldsPlaced(f)'
  BY <1>c, <1>f, <1>n DEF FieldsPlaced
<1>5. ArenaInv'
  <2>1. f[Measured] = size' /\ f[5 + i] = cursor'
    BY <1>1, <1>2, <1>f, <1>g
  <2> QED BY <1>1, <1>m, <1>f, <1>3, <1>4, <2>1, ArenaIs
<1>6. PhaseInv'
  <2>1. IsSeq(copy'.fields, 5)
    BY <1>c, <1>m, <1>p
  <2>2. i' \in 1 .. Len(attributes) + 1
    BY <1>1, <1>i, <1>n
  <2>3. pc' = "values" /\ status' = "none"
    BY <1>1, <1>p
  <2> QED BY <1>1, <1>c, <1>l, <1>m, <1>p, <2>1, <2>2, <2>3, PhaseIs
<1> QED BY <1>5, <1>6

(* A disposed copy owns nothing. *)
LEMMA DisposeStep == ASSUME PhaseInv, ArenaInv, Dispose PROVE PhaseInv' /\ ArenaInv'
<1>1. pc' = "disposed" /\ input' = input /\ heap' = {} /\ copy' = NoCopy
  BY DEF Dispose, Disposed
<1>2. ~Live'
  BY <1>1 DEF Live
<1>3. ArenaInv'
  BY <1>2 DEF ArenaInv
<1>4. PhaseInv'
  BY <1>1, <1>2 DEF PhaseInv, Shaped, NoCopy
<1> QED BY <1>3, <1>4

(* Every step of the call keeps both. *)
LEMMA CallStep == ASSUME PhaseInv, ArenaInv, [Next]_vars PROVE PhaseInv' /\ ArenaInv'
<1>1. CASE CheckHeader
  BY <1>1, HeaderStep
<1>2. CASE ScanField
  BY <1>2, ScanFieldStep
<1>3. CASE FieldsScanned
  BY <1>3, FieldsScannedStep
<1>4. CASE ScanAttribute
  BY <1>4, ScanAttributeStep
<1>5. CASE AllocFails
  BY <1>5, AllocFailsStep
<1>6. CASE AllocArena \/ FieldsCopied \/ NoArray \/ AllocArray \/ AttributesCopied
  BY <1>6, BetweenStep
<1>7. CASE CopyField
  BY <1>7, CopyFieldStep
<1>8. CASE CopyAttribute
  BY <1>8, CopyAttributeStep
<1>9. CASE Dispose
  BY <1>9, DisposeStep
<1>10. CASE UNCHANGED vars
  <2>1. UNCHANGED <<input, pc, i, size, cursor, copy, heap, status>>
    BY <1>10 DEF vars
  <2>2. fields' = fields /\ attributes' = attributes /\ \A a : IsString(a)' = IsString(a)
    BY <2>1, InputStays
  <2>3. /\ Live' <=> Live
        /\ Measured' = Measured /\ FieldsThere' = FieldsThere
        /\ AttributesThere' = AttributesThere
    BY <2>1, <2>2 DEF Live, Measured, FieldsThere, AttributesThere
  <2>4. ArenaInv'
    <3>1. CASE Live
      BY <2>1, <2>3, <3>1, ArenaSame
    <3>2. CASE ~Live
      BY <2>3, <3>2 DEF ArenaInv
    <3> QED BY <3>1, <3>2
  <2>5. PhaseInv'
    BY <2>1, <2>2, <2>3 DEF PhaseInv, Shaped, IsSeq, Checked, IsString
  <2> QED BY <2>4, <2>5
<1> QED BY <1>1, <1>2, <1>3, <1>4, <1>5, <1>6, <1>7, <1>8, <1>9, <1>10 DEF Next

(* Nothing is measured and nothing is copied when the call starts. *)
LEMMA CallInit == ASSUME Init PROVE PhaseInv /\ ArenaInv
<1>1. /\ input \in Inputs /\ pc = "header" /\ i = 1 /\ size = 0 /\ cursor = 0
      /\ copy = NoCopy /\ heap = {} /\ status = "none"
  BY DEF Init
<1>2. Live /\ Measured = 0 /\ FieldsThere = 0 /\ AttributesThere = 0
  BY <1>1 DEF Live, Measured, FieldsThere, AttributesThere
<1>3. Len(attributes) \in Nat
  BY <1>1, InputIs
<1>4. PhaseInv
  <2>1. IsSeq(copy.fields, FieldsThere) /\ IsSeq(copy.attributes, AttributesThere) /\ Shaped(copy)
    BY <1>1, <1>2, NothingCopied
  <2>2. \A n \in 1 .. Len(attributes) : ~(5 + n <= Measured)
    BY <1>2, <1>3
  <2> QED BY <1>1, <2>1, <2>2 DEF PhaseInv
<1>5. ArenaInv
  <2> DEFINE f == [n \in Nat |-> 0]
  <2>1. f \in [Nat -> Nat] /\ \A n \in Nat : f[n] = 0
    OBVIOUS
  <2>2. f[0] = 0
    BY <2>1
  <2> HIDE DEF f
  <2>3. Offsets(f, 0)
    <3>1. \A k \in 1 .. 0 : FALSE
      OBVIOUS
    <3>2. \A k \in 0 .. 0 : k = 0
      OBVIOUS
    <3> QED BY <2>1, <2>2, <3>1, <3>2 DEF Offsets
  <2>4. FieldsPlaced(f) /\ AttributesPlaced(f)
    BY <1>1 DEF FieldsPlaced, AttributesPlaced, NoCopy
  <2> QED BY <1>1, <1>2, <2>2, <2>3, <2>4 DEF ArenaInv
<1> QED BY <1>4, <1>5

----------------------------------------------------------------------------
(* Theorems *)

(* Wherever the call of ij_event_copy_from_input is, on the way of an event *)
(* through ij_logger_log, there are offsets that both of its passes follow. *)
THEOREM EventCopyInvariant == PathSpec => [](PhaseInv /\ ArenaInv)
<1>1. PathInit => PhaseInv /\ ArenaInv
  BY CallInit DEF PathInit
<1>2. PhaseInv /\ ArenaInv /\ [PathNext]_pathVars => PhaseInv' /\ ArenaInv'
  <2>1. [PathNext]_pathVars => [Next]_vars
    BY Zenon DEF PathNext, Copying, Compose, Encode, Finish, Next, pathVars
  <2> QED BY <2>1, CallStep
<1> QED BY <1>1, <1>2, PTL DEF PathSpec

(* A call that fails, at whichever check or allocation, owns nothing.      *)
THEOREM EventFailureReleases == PathSpec => []FailureReleases
<1>1. PhaseInv => FailureReleases
  BY DEF PhaseInv, Live, FailureReleases
<1> QED BY <1>1, EventCopyInvariant, PTL

\* The field or attribute, counted from 1, that the owned string at x is of, and
\* where its bytes are: between the offsets of this item and of the next one.
Item(x) == IF x[1] = "field" THEN x[2] ELSE 5 + x[2]
Within(x, f) ==
    /\ Item(x) \in 1 .. Measured
    /\ OwnedAt(x).at \in Nat /\ End(x) \in Nat
    /\ f[Item(x) - 1] <= OwnedAt(x).at /\ End(x) <= f[Item(x)]

(* What there is to copy was measured. *)
LEMMA BehindMeasured ==
    ASSUME PhaseInv, Live
    PROVE  /\ Measured \in Nat
           /\ \A n \in DOMAIN copy.fields :
                 n \in 1 .. 5 /\ n \in 1 .. Measured /\ n \in 1 .. Len(copy.fields)
           /\ \A n \in DOMAIN copy.attributes :
                 /\ n \in 1 .. Len(attributes) /\ 5 + n \in 1 .. Measured
                 /\ n \in 1 .. Len(copy.attributes)
           /\ copy.attributes # << >> => \A n \in 1 .. Len(attributes) : Checked(attributes[n])
<1>1. Len(attributes) \in Nat
  BY InputIs DEF PhaseInv
<1>2. IsSeq(copy.fields, FieldsThere) /\ IsSeq(copy.attributes, AttributesThere)
  BY DEF PhaseInv
<1>3. /\ DOMAIN copy.fields = 1 .. FieldsThere /\ Len(copy.fields) = FieldsThere
      /\ DOMAIN copy.attributes = 1 .. AttributesThere /\ Len(copy.attributes) = AttributesThere
  <2>1. \A s, n : IsSeq(s, n) => DOMAIN s = 1 .. n /\ Len(s) = n
    BY DEF IsSeq
  <2> QED BY <1>2, <2>1
<1>4. CASE pc \in {"header", "scan", "attrs"}
  <2>1. FieldsThere = 0 /\ AttributesThere = 0
    BY <1>4 DEF FieldsThere, AttributesThere
  <2>2. Measured \in Nat
    BY <1>1, <1>4 DEF Measured, PhaseInv
  <2>3. copy.attributes = << >>
    BY <1>4 DEF PhaseInv, NoCopy
  <2> QED BY <1>3, <2>1, <2>2, <2>3
<1>5. CASE pc \notin {"header", "scan", "attrs"}
  <2>1. Measured = 5 + Len(attributes)
    BY <1>5 DEF Measured
  <2>2. FieldsThere \in 0 .. 5 /\ AttributesThere \in 0 .. Len(attributes)
    BY <1>1, <1>5 DEF FieldsThere, AttributesThere, PhaseInv
  <2>3. \A n \in 1 .. Len(attributes) : Checked(attributes[n])
    BY <1>1, <2>1 DEF PhaseInv
  <2> QED BY <1>1, <1>3, <2>1, <2>2, <2>3
<1> QED BY <1>4, <1>5

(* A field lies within its item. *)
LEMMA FieldWithin ==
    ASSUME PhaseInv, Live, NEW f, Offsets(f, Measured), FieldsPlaced(f),
           NEW n \in DOMAIN copy.fields, copy.fields[n] # Null
    PROVE  Within(<<"field", n>>, f)
<1> DEFINE x == <<"field", n>>
<1>1. n \in 1 .. 5 /\ n \in 1 .. Measured /\ n \in 1 .. Len(copy.fields) /\ Measured \in Nat
  BY BehindMeasured
<1>2. fields[n] # Null /\ copy.fields[n].at = f[n - 1] /\ copy.fields[n].text = fields[n]
  BY <1>1 DEF FieldsPlaced
<1>3. Len(fields[n]) \in Nat /\ Room(n) = Len(fields[n]) + 1
  BY <1>1, <1>2, FieldRoom DEF PhaseInv
<1>4. OwnedAt(x) = copy.fields[n] /\ Item(x) = n
  BY DEF OwnedAt, Item
<1> HIDE DEF x
<1>5. End(x) = f[n - 1] + Len(fields[n]) + 1
  BY <1>2, <1>4 DEF End
<1>6. f[n] = f[n - 1] + Room(n) /\ f[n - 1] \in Nat
  <2>1. n - 1 \in Nat
    BY <1>1
  <2> QED BY <1>1, <2>1 DEF Offsets
<1>7. End(x) \in Nat /\ End(x) <= f[n]
  BY <1>3, <1>5, <1>6
<1>8. Within(x, f)
  BY <1>1, <1>2, <1>4, <1>6, <1>7 DEF Within
<1> QED BY <1>8 DEF x

(* A key and the string behind it lie within their item, one behind the other. *)
LEMMA AttributeWithin ==
    ASSUME PhaseInv, Live, NEW f, Offsets(f, Measured), AttributesPlaced(f),
           NEW n \in DOMAIN copy.attributes
    PROVE  /\ Within(<<"key", n>>, f)
           /\ IsString(copy.attributes[n]) =>
                 /\ Within(<<"value", n>>, f)
                 /\ End(<<"key", n>>) <= OwnedAt(<<"value", n>>).at
<1> DEFINE k == <<"key", n>>
           v == <<"value", n>>
           a == attributes[n]
           owned == copy.attributes[n]
           l == Len(a.key)
<1>1. /\ n \in 1 .. Len(attributes) /\ 5 + n \in 1 .. Measured
      /\ n \in 1 .. Len(copy.attributes) /\ Measured \in Nat /\ Checked(a)
  BY BehindMeasured
<1>2. AttributePlaced(owned, a, f[4 + n])
  BY <1>1 DEF AttributesPlaced
<1>3. a.key \in CString /\ a.value.data \in CString
  BY <1>1, InputIs DEF PhaseInv
<1>4. /\ AttrRoom(a) \in Nat /\ l \in Nat /\ l + 1 <= AttrRoom(a)
      /\ IsString(a) => /\ MeasuredRoom(a.value.data) \in Nat
                        /\ AttrRoom(a) = l + 1 + (MeasuredRoom(a.value.data) + 1)
  BY <1>1, <1>3, AttributeRoom
<1>5. /\ OwnedAt(k) = owned.key /\ OwnedAt(v) = owned.value.data
      /\ Item(k) = 5 + n /\ Item(v) = 5 + n
  BY DEF OwnedAt, Item
<1>6. f[5 + n] = f[4 + n] + AttrRoom(a) /\ f[4 + n] \in Nat /\ (5 + n) - 1 = 4 + n
  <2>1. 4 + n \in Nat /\ (5 + n) - 1 = 4 + n /\ ~(5 + n <= 5) /\ (5 + n) - 5 = n
    BY <1>1
  <2>2. Room(5 + n) = AttrRoom(a)
    BY <2>1 DEF Room
  <2> QED BY <1>1, <2>1, <2>2 DEF Offsets
<1> DEFINE at == f[4 + n]
           m == MeasuredRoom(a.value.data)
<1>7. OwnedAt(k).at = at /\ End(k) = at + l + 1
  BY <1>2, <1>5 DEF AttributePlaced, End
<1>8. IsString(a) => /\ OwnedAt(v).at = at + (l + 1)
                     /\ Len(OwnedAt(v).text) \in Nat /\ Len(OwnedAt(v).text) <= m
  <2>1. IsString(a) => /\ m \in Nat /\ Len(a.value.data) <= m /\ Len(Literal) <= m
                       /\ Len(a.value.data) \in Nat /\ Len(Literal) \in Nat
    BY <1>1, <1>3, RoomForLiteral, LengthIs DEF Checked
  <2> QED BY <1>2, <1>5, <2>1 DEF AttributePlaced
<1>9. IsString(owned) <=> IsString(a)
  BY <1>2 DEF AttributePlaced
<1> HIDE DEF k, v, a, owned, l, at, m
<1>10. Within(k, f)
  <2>1. End(k) \in Nat /\ End(k) <= f[5 + n] /\ at \in Nat
    BY <1>4, <1>6, <1>7 DEF at
  <2> QED BY <1>1, <1>5, <1>6, <1>7, <2>1 DEF Within, at
<1>11. ASSUME IsString(a) PROVE Within(v, f) /\ End(k) <= OwnedAt(v).at
  <2> DEFINE t == Len(OwnedAt(v).text)
  <2>1. /\ t \in Nat /\ t <= m /\ m \in Nat /\ at \in Nat /\ l \in Nat
        /\ f[5 + n] = at + (l + 1 + (m + 1)) /\ OwnedAt(v).at = at + (l + 1)
        /\ End(v) = OwnedAt(v).at + t + 1
    BY <1>4, <1>6, <1>8, <1>11 DEF at, m, End
  <2> HIDE DEF t
  <2>2. /\ OwnedAt(v).at \in Nat /\ End(v) \in Nat /\ End(v) <= f[5 + n]
        /\ at <= OwnedAt(v).at /\ End(k) <= OwnedAt(v).at
    BY <1>7, <2>1
  <2> QED BY <1>1, <1>5, <1>6, <2>2 DEF Within, at
<1> QED BY <1>9, <1>10, <1>11 DEF k, v, owned

(* Every byte that the second pass writes, for a NUL or for the literal of *)
(* a redacted value too, lies in the arena that the first pass measured,   *)
(* and in no other string.                                                 *)
THEOREM EventArenaSafe == PathSpec => []ArenaSafe
<1>1. ASSUME PhaseInv, ArenaInv, ~Live PROVE ArenaSafe
  <2>1. copy = NoCopy /\ ~(pc = "done" /\ status = "OK")
    BY <1>1 DEF PhaseInv, Live
  <2>2. DOMAIN copy.fields = {} /\ DOMAIN copy.attributes = {}
    BY <2>1 DEF NoCopy
  <2>3. Places = {}
    BY <2>2 DEF Places
  <2> QED BY <2>1, <2>3 DEF ArenaSafe
<1>2. ASSUME PhaseInv, ArenaInv, Live PROVE ArenaSafe
  <2>1. PICK f : /\ Offsets(f, Measured) /\ f[Measured] = size
                 /\ f[FieldsThere + AttributesThere] = cursor
                 /\ FieldsPlaced(f) /\ AttributesPlaced(f)
    BY <1>2 DEF ArenaInv
  <2>2. Measured \in Nat
    BY <1>2, BehindMeasured
  <2>3. \A x \in Places :
           \/ \E n \in DOMAIN copy.fields : x = <<"field", n>> /\ copy.fields[n] # Null
           \/ \E n \in DOMAIN copy.attributes : x = <<"key", n>>
           \/ \E n \in DOMAIN copy.attributes : x = <<"value", n>> /\ IsString(copy.attributes[n])
    BY DEF Places
  <2>4. ASSUME NEW x \in Places PROVE Within(x, f)
    BY <1>2, <2>1, <2>3, FieldWithin, AttributeWithin
  <2>5. ASSUME NEW x \in Places PROVE OwnedAt(x).at >= 0 /\ End(x) <= size
    <3> DEFINE k == Item(x)
    <3>1. k \in 1 .. Measured /\ OwnedAt(x).at \in Nat /\ End(x) \in Nat /\ End(x) <= f[k]
      BY <2>4 DEF Within
    <3> HIDE DEF k
    <3>2. f[k] <= f[Measured] /\ f[k] \in Nat /\ f[Measured] \in Nat
      BY <2>1, <2>2, <3>1 DEF Offsets
    <3> QED BY <2>1, <3>1, <3>2
  <2>6. ASSUME NEW x \in Places, NEW y \in Places, Item(x) < Item(y)
        PROVE  End(x) <= OwnedAt(y).at
    <3> DEFINE j == Item(x)
               k == Item(y)
    <3>1. /\ j \in 1 .. Measured /\ k \in 1 .. Measured /\ End(x) \in Nat /\ End(x) <= f[j]
          /\ OwnedAt(y).at \in Nat /\ f[k - 1] <= OwnedAt(y).at /\ j < k
      BY <2>4, <2>6 DEF Within
    <3> HIDE DEF j, k
    <3>2. j \in 0 .. Measured /\ k - 1 \in 0 .. Measured /\ j <= k - 1
      BY <2>2, <3>1
    <3>3. f[j] <= f[k - 1] /\ f[j] \in Nat /\ f[k - 1] \in Nat
      BY <2>1, <3>2 DEF Offsets
    <3> QED BY <3>1, <3>3
  <2>7. ASSUME NEW x \in Places, NEW y \in Places, Item(x) = Item(y), x # y
        PROVE  End(x) <= OwnedAt(y).at \/ End(y) <= OwnedAt(x).at
    <3>1. \A n \in DOMAIN copy.fields : n \in 1 .. 5
      BY <1>2, BehindMeasured
    <3>2. \A n \in DOMAIN copy.attributes : n \in Nat /\ n >= 1
      BY <1>2, BehindMeasured, InputIs DEF PhaseInv
    <3>3. \A n : /\ Item(<<"field", n>>) = n /\ Item(<<"key", n>>) = 5 + n
                 /\ Item(<<"value", n>>) = 5 + n
      BY DEF Item
    <3>4. \E n \in DOMAIN copy.attributes :
             /\ IsString(copy.attributes[n])
             /\ {x, y} = {<<"key", n>>, <<"value", n>>}
      <4>1. CASE \E n \in DOMAIN copy.fields : x = <<"field", n>>
        BY <2>3, <2>7, <3>1, <3>2, <3>3, <4>1
      <4>2. CASE \E n \in DOMAIN copy.attributes : x = <<"key", n>>
        BY <2>3, <2>7, <3>1, <3>2, <3>3, <4>2
      <4>3. CASE \E n \in DOMAIN copy.attributes :
                    x = <<"value", n>> /\ IsString(copy.attributes[n])
        BY <2>3, <2>7, <3>1, <3>2, <3>3, <4>3
      <4> QED BY <2>3, <4>1, <4>2, <4>3
    <3>5. PICK n \in DOMAIN copy.attributes :
             /\ IsString(copy.attributes[n])
             /\ {x, y} = {<<"key", n>>, <<"value", n>>}
      BY <3>4
    <3>6. End(<<"key", n>>) <= OwnedAt(<<"value", n>>).at
      BY <1>2, <2>1, <3>5, AttributeWithin
    <3>7. \/ x = <<"key", n>> /\ y = <<"value", n>>
          \/ y = <<"key", n>> /\ x = <<"value", n>>
      BY <2>7, <3>5
    <3> QED BY <3>6, <3>7
  <2>8. ASSUME NEW x \in Places, NEW y \in Places
        PROVE  x = y \/ End(x) <= OwnedAt(y).at \/ End(y) <= OwnedAt(x).at
    <3>1. Item(x) \in 1 .. Measured /\ Item(y) \in 1 .. Measured
      BY <2>4 DEF Within
    <3>2. Item(x) < Item(y) \/ Item(x) = Item(y) \/ Item(y) < Item(x)
      BY <2>2, <3>1
    <3> QED BY <2>6, <2>7, <3>2
  <2>9. pc = "done" /\ status = "OK" => cursor = size
    BY <2>1 DEF Measured, FieldsThere, AttributesThere
  <2> QED BY <2>5, <2>8, <2>9 DEF ArenaSafe
<1>3. PhaseInv /\ ArenaInv => ArenaSafe
  BY <1>1, <1>2
<1> QED BY <1>3, EventCopyInvariant, PTL

----------------------------------------------------------------------------
(* What the copies hold *)

\* A string and an attribute as the second pass copies them.
StringKept(owned, s) == \E at : owned = Owned(s, at, Len(s))
ValueKept(owned, a) ==
    \E at : LET text == Owned(a.value.data, at, CopiedRoom(a.value.data))
            IN  owned = IF should_redact(a) THEN Redacted(text) ELSE text
AttributeKept(owned, a) ==
    /\ StringKept(owned.key, a.key)
    /\ IsString(owned) <=> IsString(a)
    /\ IF IsString(a) THEN ValueKept(owned.value.data, a) ELSE owned.value = a.value

FieldHeld(owned, s) == IF s = Null THEN owned = Null ELSE StringKept(owned, s)

CopiedInv ==
    /\ \A n \in 1 .. Len(copy.fields) : FieldHeld(copy.fields[n], fields[n])
    /\ \A n \in 1 .. Len(copy.attributes) : AttributeKept(copy.attributes[n], attributes[n])

(* What has to be shown of a step. *)
LEMMA CopiedAfter ==
    ASSUME input' = input,
           \A n \in 1 .. Len(copy'.fields) :
              FieldHeld(copy'.fields[n], fields[n]),
           \A n \in 1 .. Len(copy'.attributes) :
              AttributeKept(copy'.attributes[n], attributes[n])
    PROVE  CopiedInv'
<1>1. fields' = fields /\ attributes' = attributes
  BY InputStays
<1>2. ASSUME NEW n \in 1 .. Len(copy'.fields)
      PROVE  FieldHeld(copy.fields[n], fields[n])'
  <2>1. FieldHeld(copy'.fields[n], fields[n])
    BY <1>2
  <2> QED BY <1>1, <2>1 DEF FieldHeld, StringKept, Owned, NeedsEscape
<1>3. ASSUME NEW n \in 1 .. Len(copy'.attributes)
      PROVE  AttributeKept(copy.attributes[n], attributes[n])'
  <2> DEFINE a == attributes[n]
  <2>1. AttributeKept(copy'.attributes[n], a)
    BY <1>3
  <2>2. StringKept(copy.attributes[n].key, attributes[n].key)'
    BY <1>1, <2>1 DEF AttributeKept, StringKept, Owned, NeedsEscape
  <2>3. (IsString(copy.attributes[n]) <=> IsString(attributes[n]))'
    BY <1>1, <2>1 DEF AttributeKept, IsString
  <2>4. (IsString(attributes[n]) => ValueKept(copy.attributes[n].value.data, attributes[n]))'
    BY <1>1, <2>1 DEF AttributeKept, ValueKept, IsString, Owned, NeedsEscape, should_redact,
                      Redacted, CopiedRoom
  <2>5. (~IsString(attributes[n]) => copy.attributes[n].value = attributes[n].value)'
    BY <1>1, <2>1 DEF AttributeKept, IsString
  <2> QED BY <2>2, <2>3, <2>4, <2>5 DEF AttributeKept
<1> QED BY <1>2, <1>3 DEF CopiedInv

(* A field is copied as it is. *)
LEMMA FieldKept == ASSUME PhaseInv, CopiedInv, CopyField PROVE CopiedInv'
<1>1. pc = "copy" /\ i \in 1 .. 5 /\ input' = input
  BY DEF CopyField
<1>2. PICK e : /\ copy' = [copy EXCEPT !.fields = Append(@, e)]
               /\ FieldHeld(e, fields[i])
  <2>1. CASE fields[i] = Null
    BY <2>1 DEF CopyField, FieldHeld
  <2>2. CASE fields[i] # Null
    <3> DEFINE e == Owned(fields[i], cursor, Len(fields[i]))
    <3>1. copy' = [copy EXCEPT !.fields = Append(@, e)]
      BY <2>2 DEF CopyField
    <3>2. StringKept(e, fields[i])
      BY DEF StringKept
    <3> HIDE DEF e
    <3> QED BY <2>2, <3>1, <3>2 DEF FieldHeld
  <2> QED BY <2>1, <2>2
<1>3. FieldBehind(e)
  <2>1. i \in Nat \ {0}
    BY <1>1
  <2> QED BY <1>1, <1>2, <2>1, FieldAppended
<1>4. /\ copy'.attributes = copy.attributes /\ copy'.fields[i] = e
      /\ \A k \in 1 .. i - 1 : copy'.fields[k] = copy.fields[k]
      /\ Len(copy.fields) = i - 1 /\ Len(copy'.fields) = i
  BY <1>3 DEF FieldBehind
<1>6. ASSUME NEW n \in 1 .. i
      PROVE  FieldHeld(copy'.fields[n], fields[n])
  <2>1. CASE n = i
    BY <1>2, <1>4, <1>6, <2>1
  <2>2. CASE n # i
    <3>1. n \in 1 .. i - 1
      BY <1>1, <2>2
    <3> QED BY <1>4, <1>6, <3>1 DEF CopiedInv
  <2> QED BY <2>1, <2>2
<1>7. \A n \in 1 .. Len(copy'.attributes) : AttributeKept(copy'.attributes[n], attributes[n])
  BY <1>4 DEF CopiedInv
<1>8. \A n \in 1 .. Len(copy'.fields) :
         FieldHeld(copy'.fields[n], fields[n])
  BY <1>4, <1>6
<1> QED BY <1>1, <1>7, <1>8, CopiedAfter

(* So is an attribute, but for the literal in place of a secret. *)
LEMMA AttributeKeptStep == ASSUME PhaseInv, CopiedInv, CopyAttribute PROVE CopiedInv'
<1> DEFINE a == attributes[i]
<1>1. pc = "values" /\ i <= Len(attributes) /\ input' = input
  BY DEF CopyAttribute
<1>i. i \in Nat \ {0}
  BY <1>1, InputIs DEF PhaseInv
<1>2. PICK e : /\ copy' = [copy EXCEPT !.attributes = Append(@, e)]
               /\ AttributeKept(e, a)
  <2> DEFINE key == Owned(a.key, cursor, Len(a.key))
             text == Owned(a.value.data, cursor + key.room, CopiedRoom(a.value.data))
             value == IF ~IsString(a) THEN a.value
                      ELSE [kind |-> "STRING",
                            data |-> IF should_redact(a) THEN Redacted(text) ELSE text]
             e == [key |-> key, value |-> value]
  <2>1. copy' = [copy EXCEPT !.attributes = Append(@, e)]
    BY DEF CopyAttribute
  <2>2. StringKept(key, a.key)
    BY DEF StringKept
  <2>3. ValueKept(IF should_redact(a) THEN Redacted(text) ELSE text, a)
    <3> HIDE DEF key
    <3> QED BY DEF ValueKept
  <2> HIDE DEF key, text
  <2>4. e.key = key /\ e.value = value
    OBVIOUS
  <2>5. IsString(e) <=> IsString(a)
    BY <2>4 DEF IsString
  <2>6. AttributeKept(e, a)
    BY <2>2, <2>3, <2>4, <2>5 DEF AttributeKept
  <2> HIDE DEF e
  <2> QED BY <2>1, <2>6
<1>3. AttributeBehind(e)
  BY <1>1, <1>2, <1>i, AttributeAppended
<1>4. /\ copy'.fields = copy.fields /\ copy'.attributes[i] = e
      /\ \A k \in 1 .. i - 1 : copy'.attributes[k] = copy.attributes[k]
      /\ Len(copy.attributes) = i - 1 /\ Len(copy'.attributes) = i
  BY <1>3 DEF AttributeBehind
<1>6. ASSUME NEW n \in 1 .. i PROVE AttributeKept(copy'.attributes[n], attributes[n])
  <2>1. CASE n = i
    BY <1>2, <1>4, <2>1
  <2>2. CASE n # i
    <3>1. n \in 1 .. i - 1
      BY <1>i, <2>2
    <3> QED BY <1>4, <3>1 DEF CopiedInv
  <2> QED BY <2>1, <2>2
<1>7. \A n \in 1 .. Len(copy'.attributes) : AttributeKept(copy'.attributes[n], attributes[n])
  BY <1>4, <1>6
<1>8. \A n \in 1 .. Len(copy'.fields) :
         FieldHeld(copy'.fields[n], fields[n])
  BY <1>4 DEF CopiedInv
<1> QED BY <1>1, <1>7, <1>8, CopiedAfter

(* No other step writes a string. *)
LEMMA CopiedStep == ASSUME PhaseInv, CopiedInv, [Next]_vars PROVE CopiedInv'
<1>1. CASE CopyField
  BY <1>1, FieldKept
<1>2. CASE CopyAttribute
  BY <1>2, AttributeKeptStep
<1>3. CASE UNCHANGED <<input, copy>>
  <2>1. /\ \A n \in 1 .. Len(copy'.fields) :
              FieldHeld(copy'.fields[n], fields[n])
        /\ \A n \in 1 .. Len(copy'.attributes) :
              AttributeKept(copy'.attributes[n], attributes[n])
    BY <1>3 DEF CopiedInv
  <2> QED BY <1>3, <2>1, CopiedAfter
<1>4. CASE copy' = NoCopy
  BY <1>4 DEF CopiedInv, NoCopy
<1>5. \/ CopyField \/ CopyAttribute \/ UNCHANGED <<input, copy>> \/ copy' = NoCopy
  BY DEF Next, vars, CheckHeader, ScanField, FieldsScanned, ScanAttribute, AllocArena,
         AllocFails, FieldsCopied, NoArray, AllocArray, AttributesCopied, Dispose
<1> QED BY <1>1, <1>2, <1>3, <1>4, <1>5

(* The invariant behind the next two theorems. *)
LEMMA CopiedAlways == PathSpec => [](PhaseInv /\ CopiedInv)
<1>1. PathInit => CopiedInv
  BY DEF PathInit, Init, CopiedInv, NoCopy
<1>2. PhaseInv /\ CopiedInv /\ [PathNext]_pathVars => CopiedInv'
  <2>1. [PathNext]_pathVars => [Next]_vars
    BY Zenon DEF PathNext, Copying, Compose, Encode, Finish, Next, pathVars
  <2> QED BY <2>1, CopiedStep
<1> QED BY <1>1, <1>2, EventCopyInvariant, PTL DEF PathSpec

(* needs_json_escape, computed by the loop of the copy or by the scan of    *)
(* the processor, says whether a byte must be escaped.                      *)
LEMMA FlagIs ==
    ASSUME NEW s \in Seq(Byte)
    PROVE  NeedsEscape(s) <=> \E j \in DOMAIN s : s[j] \in MustEscape
<1>1. Len(s) \in Nat /\ DOMAIN s = 1 .. Len(s) /\ \A j \in DOMAIN s : s[j] \in Byte
  BY LenProperties
<1>2. CASE Wide(s)
  <2> DEFINE n == json_escape_find_first_special(input.cpu, s)
  <2>1. IsFirst(s, n, MustEscape)
    BY EscapeScanExact
  <2>2. NeedsEscape(s) <=> n # Len(s)
    BY <1>2 DEF NeedsEscape
  <2> HIDE DEF n
  <2>3. ASSUME n # Len(s) PROVE \E j \in DOMAIN s : s[j] \in MustEscape
    <3>0. n \in 0 .. Len(s)
      BY <2>1 DEF IsFirst
    <3>1. n \in Nat /\ n < Len(s) /\ n + 1 \in 1 .. Len(s)
      <4>1. \A l \in Nat : \A m \in 0 .. l : m # l => m \in Nat /\ m < l /\ m + 1 \in 1 .. l
        OBVIOUS
      <4> QED BY <1>1, <2>3, <3>0, <4>1
    <3> QED BY <1>1, <2>1, <3>1 DEF IsFirst
  <2>4. ASSUME n = Len(s) PROVE \A j \in DOMAIN s : s[j] \notin MustEscape
    BY <1>1, <2>1, <2>4 DEF IsFirst
  <2> QED BY <2>2, <2>3, <2>4
<1>3. CASE ~Wide(s)
  <2>1. \A c \in Byte : ascii_needs_json_escape(c) <=> c \in MustEscape
    BY DEF ascii_needs_json_escape, MustEscape, Byte, Quote, Backslash
  <2> QED BY <1>1, <1>3, <2>1 DEF NeedsEscape
<1> QED BY <1>2, <1>3

(* A string without the flag may be copied into JSON as it is, one with it *)
(* may not, on every processor and for every text.                         *)
THEOREM EventEscapeFlagExact == PathSpec => []EscapeFlagExact
<1>1. ASSUME PhaseInv, CopiedInv PROVE EscapeFlagExact
  <2>1. ASSUME NEW o, NEW s \in Seq(Byte), NEW room, NEW at, o = Owned(s, at, room)
        PROVE  o.escape <=> \E j \in DOMAIN o.text : o.text[j] \in MustEscape
    <3>1. o.text = s /\ (o.escape <=> NeedsEscape(s))
      BY <2>1 DEF Owned
    <3> QED BY <3>1, FlagIs
  <2>2. ~Live => copy = NoCopy
    BY <1>1 DEF PhaseInv
  <2>3. CASE ~Live
    <3>1. Places = {}
      BY <2>2, <2>3 DEF Places, NoCopy
    <3> QED BY <3>1 DEF EscapeFlagExact
  <2>4. CASE Live
    <3>1. \A n \in DOMAIN copy.fields : n \in 1 .. 5 /\ n \in 1 .. Len(copy.fields)
      BY <1>1, <2>4, BehindMeasured
    <3>2. \A n \in DOMAIN copy.attributes :
             n \in 1 .. Len(attributes) /\ n \in 1 .. Len(copy.attributes)
      BY <1>1, <2>4, BehindMeasured
    <3>3. \A n \in DOMAIN copy.attributes : Checked(attributes[n])
      BY <1>1, <2>4, BehindMeasured
    <3> SUFFICES ASSUME NEW x \in Places, OwnedAt(x).text # Literal
                 PROVE  OwnedAt(x).escape <=>
                          \E j \in DOMAIN OwnedAt(x).text : OwnedAt(x).text[j] \in MustEscape
      BY DEF EscapeFlagExact
    <3>4. \E s \in Seq(Byte) : \E at, room : OwnedAt(x) = Owned(s, at, room)
      <4>1. ASSUME NEW n \in DOMAIN copy.fields, x = <<"field", n>>, copy.fields[n] # Null
            PROVE  \E s \in Seq(Byte) : \E at, room : OwnedAt(x) = Owned(s, at, room)
        <5>1. OwnedAt(x) = copy.fields[n]
          BY <4>1 DEF OwnedAt
        <5>2. fields[n] # Null /\ StringKept(copy.fields[n], fields[n])
          BY <1>1, <3>1, <4>1 DEF CopiedInv, FieldHeld
        <5>3. fields[n] \in Seq(Byte)
          BY <1>1, <3>1, <5>2, InputIs DEF PhaseInv, CString
        <5> QED BY <5>1, <5>2, <5>3 DEF StringKept
      <4>2. ASSUME NEW n \in DOMAIN copy.attributes, x = <<"key", n>>
            PROVE  \E s \in Seq(Byte) : \E at, room : OwnedAt(x) = Owned(s, at, room)
        <5>1. OwnedAt(x) = copy.attributes[n].key
          BY <4>2 DEF OwnedAt
        <5>2. StringKept(copy.attributes[n].key, attributes[n].key)
          BY <1>1, <3>2 DEF CopiedInv, AttributeKept
        <5>3. attributes[n].key \in Seq(Byte)
          BY <1>1, <3>2, <3>3, InputIs DEF PhaseInv, CString, Checked
        <5> QED BY <5>1, <5>2, <5>3 DEF StringKept
      <4>3. ASSUME NEW n \in DOMAIN copy.attributes, x = <<"value", n>>,
                   IsString(copy.attributes[n])
            PROVE  \E s \in Seq(Byte) : \E at, room : OwnedAt(x) = Owned(s, at, room)
        <5> DEFINE a == attributes[n]
        <5>1. OwnedAt(x) = copy.attributes[n].value.data
          BY <4>3 DEF OwnedAt
        <5>2. IsString(a) /\ ValueKept(copy.attributes[n].value.data, a)
          BY <1>1, <3>2, <4>3 DEF CopiedInv, AttributeKept
        <5>3. a.value.data \in Seq(Byte)
          BY <1>1, <3>2, <3>3, <5>2, InputIs DEF PhaseInv, CString, Checked
        <5> HIDE DEF a
        <5>4. PICK at : OwnedAt(x) = LET text == Owned(a.value.data, at, CopiedRoom(a.value.data))
                                     IN  IF should_redact(a) THEN Redacted(text) ELSE text
          BY <5>1, <5>2 DEF ValueKept
        <5>5. \A s, room : Redacted(Owned(s, at, room)).text = Literal
          BY DEF Redacted, Owned
        <5>6. OwnedAt(x) = Owned(a.value.data, at, CopiedRoom(a.value.data))
          BY <5>4, <5>5
        <5> QED BY <5>3, <5>6
      <4> QED BY <4>1, <4>2, <4>3 DEF Places
    <3> QED BY <2>1, <3>4
  <2> QED BY <2>3, <2>4
<1>2. PhaseInv /\ CopiedInv => EscapeFlagExact
  BY <1>1
<1> QED BY <1>2, CopiedAlways, PTL

(* The copy holds the literal exactly where a string stands under a key of *)
(* the denylist, and what the library's other redaction would have made of *)
(* it; all variants of the matching agree.                                 *)
THEOREM EventRedactExact == PathSpec => []RedactExact
<1>1. ASSUME PhaseInv, CopiedInv, pc = "done", input.locale = "C" PROVE RedactExact
  <2>1. ASSUME NEW key \in {attributes[n].key : n \in DOMAIN attributes} \ {Null}
        PROVE  key \in Seq(Byte)
    <3>1. DOMAIN attributes = 1 .. Len(attributes)
      BY <1>1, InputIs DEF PhaseInv
    <3> QED BY <1>1, <2>1, <3>1, InputIs DEF PhaseInv, CString
  <2>2. \A k \in Denylist : k \in Seq(Byte)
    <3>1. ASSUME NEW k \in Denylist PROVE k \in Seq(Byte)
      <4>1. k \in Seq(KeyBytes)
        BY BucketsRight, BucketsComplete DEF RightBucket, InBucket
      <4>2. KeyBytes \subseteq Byte
        BY DEF KeyBytes, Byte
      <4> QED BY <4>1, <4>2
    <3> QED BY <3>1
  <2>3. ASSUME NEW key \in {attributes[n].key : n \in DOMAIN attributes} \ {Null}
        PROVE  /\ key_should_redact_n("C", key) <=> Sensitive(key)
               /\ redact_has_dot_x86_avx2(key) <=> redact_has_dot_scalar(key)
               /\ redact_has_dot_arm_neon(key) <=> redact_has_dot_scalar(key)
    BY <2>1, <2>3, RedactKeyExact, RedactVariantsAgree
  <2>4. ASSUME NEW key \in {attributes[n].key : n \in DOMAIN attributes} \ {Null},
               NEW k \in Denylist
        PROVE  LET equal == redact_case_equal_scalar("C", key, k)
               IN  /\ redact_case_equal_x86_avx2("C", key, k) <=> equal
                   /\ redact_case_equal_arm_neon("C", key, k) <=> equal
    BY <2>1, <2>2, <2>4, RedactVariantsAgree
  <2>5. ASSUME input.enabled, NEW n \in DOMAIN copy.attributes, IsString(attributes[n])
        PROVE  LET kept == copy.attributes[n].value.data
                   plain == attributes[n].value.data
               IN  kept = redact_owned_attr_value_n("C", attributes[n].key,
                              [kept EXCEPT !.text = plain], CopiedRoom(plain))
    <3> DEFINE a == attributes[n]
               kept == copy.attributes[n].value.data
               plain == a.value.data
               room == CopiedRoom(plain)
    <3>0. Live
      <4>1. copy # NoCopy
        BY <2>5 DEF NoCopy
      <4> QED BY <1>1, <4>1 DEF PhaseInv
    <3>1. /\ n \in 1 .. Len(attributes) /\ n \in 1 .. Len(copy.attributes) /\ Checked(a)
      BY <1>1, <2>5, <3>0, BehindMeasured
    <3>2. ValueKept(kept, a)
      BY <1>1, <2>5, <3>1 DEF CopiedInv, AttributeKept
    <3>3. room \in Nat /\ Len(Literal) \in Nat /\ Len(Literal) <= room
      <4>1. plain \in CString /\ plain # Null
        BY <1>1, <2>5, <3>1, InputIs DEF PhaseInv, Checked
      <4> QED BY <4>1, RoomForLiteral
    <3>4. should_redact(a) <=> key_should_redact_n("C", a.key)
      BY <1>1, <2>5 DEF should_redact
    <3>5. PICK at : kept = LET text == Owned(plain, at, room)
                           IN  IF should_redact(a) THEN Redacted(text) ELSE text
      BY <3>2 DEF ValueKept
    <3> DEFINE text == Owned(plain, at, room)
    <3>6. /\ [text EXCEPT !.text = plain] = text
          /\ [Redacted(text) EXCEPT !.text = plain] = text
          /\ [text EXCEPT !.text = Literal] = Redacted(text)
      <4> DEFINE o(s) == [at |-> at, text |-> s, room |-> Footprint(room),
                          escape |-> NeedsEscape(plain)]
      <4>1. text = o(plain)
        BY DEF Owned
      <4>2. \A s, l : [o(s) EXCEPT !.text = l] = o(l)
        <5> HIDE DEF plain, room
        <5> QED OBVIOUS
      <4> HIDE DEF text, plain, room, o
      <4>3. Redacted(text) = o(Literal)
        BY <4>1, <4>2 DEF Redacted
      <4> QED BY <4>1, <4>2, <4>3
    <3>7. kept = IF should_redact(a) THEN Redacted(text) ELSE text
      BY <3>5
    <3> HIDE DEF text, a, kept, plain, room
    <3>8. [kept EXCEPT !.text = plain] = text
      BY <3>6, <3>7
    <3>9. redact_owned_attr_value_n("C", a.key, text, room) = kept
      BY <3>3, <3>4, <3>6, <3>7 DEF redact_owned_attr_value_n
    <3> QED BY <3>8, <3>9 DEF a, kept, plain, room
  <2> QED BY <2>3, <2>4, <2>5 DEF RedactExact
<1>2. PhaseInv /\ CopiedInv => RedactExact
  BY <1>1 DEF RedactExact
<1> QED BY <1>2, CopiedAlways, PTL

(* The validator of every text of an event accepts exactly well-formed UTF-8, *)
(* on every processor.                                                        *)
THEOREM EventUtf8Exact == PathSpec => []Utf8Exact
<1>1. ASSUME PhaseInv PROVE Utf8Exact
  <2>1. ASSUME NEW s \in Texts \ {Null}
        PROVE  s \in Seq(Byte)
    <3>1. DOMAIN attributes = 1 .. Len(attributes)
      BY <1>1, InputIs DEF PhaseInv
    <3>2. s \in CString
      BY <1>1, <2>1, <3>1, InputIs DEF PhaseInv, Texts
    <3> QED BY <2>1, <3>2 DEF CString
  <2> QED BY <2>1, Utf8ValidExact DEF Utf8Exact
<1>2. PhaseInv => Utf8Exact
  BY <1>1
<1> QED BY <1>2, EventCopyInvariant, PTL

----------------------------------------------------------------------------
(* The verdict *)

\* What ij_event_text_size adds for a field and for an attribute; an attribute
\* that no validator accepts counts nothing, so that the sums are defined.
TextLen(s) == IF s = Null THEN 0 ELSE Len(s)
FieldTexts == [k \in 1 .. 5 |-> TextLen(fields[k])]
AttributeTexts ==
    [k \in 1 .. Len(attributes) |->
        IF Checked(attributes[k]) THEN TextOf(attributes[k]) ELSE 0]

\* The text of the first m of the five fields and the attributes after them.
SumTo(v, n, k) == (CHOOSE f : IsSum(f, v, n))[1 .. k]
Total(m) == IF m <= 5 THEN SumTo(FieldTexts, 5, m)
            ELSE SumTo(FieldTexts, 5, 5) + SumTo(AttributeTexts, Len(attributes), m - 5)

(* The text of the fields and of the attributes, one after the other. *)
LEMMA SumToIs ==
    ASSUME NEW n \in Nat, NEW v, \A x \in 1 .. n : v[x] \in Nat
    PROVE  /\ SumTo(v, n, 0) = 0
           /\ \A k \in 1 .. n : SumTo(v, n, k) = SumTo(v, n, k - 1) + v[k]
           /\ \A k \in 0 .. n : SumTo(v, n, k) \in Nat /\ SumTo(v, n, k) <= SumTo(v, n, n)
<1> DEFINE f == CHOOSE g : IsSum(g, v, n)
<1>1. IsSum(f, v, n)
  BY SumExists
<1>2. \A k : SumTo(v, n, k) = f[1 .. k]
  BY DEF SumTo
<1> HIDE DEF f
<1>3. /\ f[1 .. 0] = 0
      /\ \A k \in 1 .. n : f[1 .. k] = f[1 .. k - 1] + v[k]
      /\ \A k \in 0 .. n : f[1 .. k] \in Nat /\ f[1 .. k] <= f[1 .. n]
  BY <1>1, PrefixSums
<1>4. ASSUME NEW k \in 1 .. n
      PROVE  SumTo(v, n, k) = SumTo(v, n, k - 1) + v[k]
  BY <1>2, <1>3
<1>5. ASSUME NEW k \in 0 .. n
      PROVE  SumTo(v, n, k) \in Nat /\ SumTo(v, n, k) <= SumTo(v, n, n)
  BY <1>2, <1>3
<1> QED BY <1>2, <1>3, <1>4, <1>5

LEMMA TextsAre ==
    ASSUME input \in Inputs
    PROVE  /\ \A k \in 1 .. 5 : FieldTexts[k] \in Nat
           /\ \A k \in 1 .. Len(attributes) :
                /\ AttributeTexts[k] \in Nat
                /\ Checked(attributes[k]) => AttributeTexts[k] = TextOf(attributes[k])
<1>1. ASSUME NEW k \in 1 .. 5
      PROVE  FieldTexts[k] \in Nat
  <2>1. fields[k] \in CString
    BY InputIs
  <2> QED BY <2>1, LengthIs DEF FieldTexts, TextLen
<1>2. ASSUME NEW k \in 1 .. Len(attributes)
      PROVE  /\ AttributeTexts[k] \in Nat
             /\ Checked(attributes[k]) => AttributeTexts[k] = TextOf(attributes[k])
  <2> DEFINE a == attributes[k]
  <2>1. AttributeTexts[k] = IF Checked(a) THEN TextOf(a) ELSE 0
    BY DEF AttributeTexts
  <2>2. a.key \in CString /\ a.value.data \in CString
    BY InputIs
  <2> HIDE DEF a
  <2>3. Checked(a) => TextOf(a) \in Nat
    <3>1. Checked(a) => Len(a.key) \in Nat
      BY <2>2, LengthIs DEF Checked
    <3>2. Checked(a) /\ IsString(a) => Len(a.value.data) \in Nat
      BY <2>2, LengthIs DEF Checked
    <3> DEFINE l == Len(a.key)
               d == IF IsString(a) THEN Len(a.value.data) ELSE 0
    <3>3. Checked(a) => l \in Nat /\ d \in Nat
      BY <3>1, <3>2
    <3>4. TextOf(a) = l + d
      BY DEF TextOf
    <3> HIDE DEF l, d
    <3> QED BY <3>3, <3>4
  <2>4. AttributeTexts[k] \in Nat /\ (Checked(a) => AttributeTexts[k] = TextOf(a))
    BY <2>1, <2>3
  <2> QED BY <2>4 DEF a
<1> QED BY <1>1, <1>2

LEMMA TotalIs ==
    ASSUME input \in Inputs
    PROVE  /\ Total(0) = 0
           /\ \A k \in 1 .. 5 : Total(k) = Total(k - 1) + FieldTexts[k]
           /\ \A k \in 1 .. Len(attributes) : Total(5 + k) = Total(4 + k) + AttributeTexts[k]
           /\ \A m \in 0 .. 5 + Len(attributes) :
                Total(m) \in Nat /\ Total(m) <= Total(5 + Len(attributes))
<1> DEFINE n == Len(attributes)
           F(k) == SumTo(FieldTexts, 5, k)
           A(k) == SumTo(AttributeTexts, n, k)
<1>1. n \in Nat
  BY InputIs
<1>2. /\ F(0) = 0 /\ \A k \in 1 .. 5 : F(k) = F(k - 1) + FieldTexts[k]
      /\ \A k \in 0 .. 5 : F(k) \in Nat /\ F(k) <= F(5)
  BY TextsAre, SumToIs
<1>3. /\ A(0) = 0 /\ \A k \in 1 .. n : A(k) = A(k - 1) + AttributeTexts[k]
      /\ \A k \in 0 .. n : A(k) \in Nat /\ A(k) <= A(n)
  BY <1>1, TextsAre, SumToIs
<1>4. /\ \A m \in 0 .. 5 : Total(m) = F(m)
      /\ \A k \in 1 .. n : Total(5 + k) = F(5) + A(k)
  <2>1. \A k \in 1 .. n : ~(5 + k <= 5) /\ (5 + k) - 5 = k
    BY <1>1
  <2>2. \A m \in 0 .. 5 : m <= 5
    OBVIOUS
  <2> QED BY <2>1, <2>2 DEF Total
<1> HIDE DEF n, F, A
<1>5. \A k \in 0 .. n : Total(5 + k) = F(5) + A(k)
  <2>1. ASSUME NEW k \in 0 .. n
        PROVE  Total(5 + k) = F(5) + A(k)
    <3>1. CASE k = 0
      <4>1. 5 + k = 5 /\ 5 \in 0 .. 5
        BY <3>1
      <4>2. F(5) + 0 = F(5)
        BY <1>2
      <4> QED BY <1>3, <1>4, <3>1, <4>1, <4>2
    <3>2. CASE k # 0
      <4>1. k \in 1 .. n
        BY <1>1, <3>2
      <4> QED BY <1>4, <4>1
    <3> QED BY <3>1, <3>2
  <2> QED BY <2>1
<1>6. \A k \in 1 .. 5 : Total(k) = Total(k - 1) + FieldTexts[k]
  <2>1. \A k \in 1 .. 5 : k \in 0 .. 5 /\ k - 1 \in 0 .. 5
    OBVIOUS
  <2> QED BY <1>2, <1>4, <2>1
<1>7. \A k \in 1 .. n : AttributeTexts[k] \in Nat
  BY TextsAre DEF n
<1>8. ASSUME NEW k \in 1 .. n
      PROVE  Total(5 + k) = Total(4 + k) + AttributeTexts[k]
  <2>1. k \in 0 .. n /\ k - 1 \in 0 .. n /\ 5 + (k - 1) = 4 + k
    BY <1>1
  <2>2. Total(5 + k) = F(5) + A(k) /\ Total(4 + k) = F(5) + A(k - 1)
    BY <1>5, <2>1
  <2>3. F(5) \in Nat /\ A(k - 1) \in Nat /\ AttributeTexts[k] \in Nat
    BY <1>2, <1>3, <1>7, <2>1
  <2>4. A(k) = A(k - 1) + AttributeTexts[k]
    BY <1>3
  <2> QED BY <2>2, <2>3, <2>4
<1>9. ASSUME NEW m \in 0 .. 5 + n
      PROVE  Total(m) \in Nat /\ Total(m) <= Total(5 + n)
  <2>0. n \in 0 .. n /\ 0 \in 0 .. n /\ 5 \in 0 .. 5
    BY <1>1
  <2>1. Total(5 + n) = F(5) + A(n) /\ F(5) \in Nat /\ A(n) \in Nat
    BY <1>2, <1>3, <1>5, <2>0
  <2>2. CASE m \in 0 .. 5
    BY <1>2, <1>4, <2>1, <2>2
  <2>3. CASE m \notin 0 .. 5
    <3>1. m - 5 \in 0 .. n /\ 5 + (m - 5) = m
      BY <1>1, <2>3
    <3>2. Total(m) = F(5) + A(m - 5) /\ A(m - 5) \in Nat /\ A(m - 5) <= A(n)
      BY <1>3, <1>5, <3>1
    <3> QED BY <2>1, <3>2
  <2> QED BY <2>2, <2>3
<1>10. Total(0) = 0
  BY <1>2, <1>4
<1> QED BY <1>6, <1>8, <1>9, <1>10 DEF n

\* What ij_validate_event asks of a field, and of an attribute and its place.
FieldFine(n) ==
    \/ fields[n] = Null /\ n > 2
    \/ validate_string_field(fields[n], Limit(n), AllowEmpty(n))
AttributeFine(n) ==
    /\ validate_string_field(attributes[n].key, KeyMax, FALSE)
    /\ validate_attr_value(attributes[n].value)
    /\ \A j \in 1 .. n - 1 : attributes[j].key # attributes[n].key

LEMMA FineIsChecked ==
    ASSUME NEW n, AttributeFine(n)
    PROVE  Checked(attributes[n])
BY DEF AttributeFine, validate_string_field, validate_attr_value, Checked, IsString

(* ij_event_text_size, which folds over the fields and over the attributes, *)
(* finds the same sum as a running total.                                   *)
LEMMA TextSizeIs ==
    ASSUME input \in Inputs, \A n \in 1 .. Len(attributes) : Checked(attributes[n])
    PROVE  TextSize = Total(5 + Len(attributes))
<1> DEFINE n == Len(attributes)
           f == CHOOSE g : IsSum(g, FieldTexts, 5)
           a == CHOOSE g : IsSum(g, AttributeTexts, n)
           F(it) == [s \in SUBSET DOMAIN fields |->
                       IF s = {} THEN 0
                       ELSE LET x == CHOOSE x \in s : TRUE
                            IN  it[s \ {x}] + TextLen(fields[x])]
           A(it) == [s \in SUBSET DOMAIN attributes |->
                       IF s = {} THEN 0
                       ELSE LET x == CHOOSE x \in s : TRUE
                            IN  it[s \ {x}] + TextOf(attributes[x])]
           fold == CHOOSE it : it = F(it)
           gold == CHOOSE it : it = A(it)
<1>1. n \in Nat /\ DOMAIN fields = 1 .. 5 /\ DOMAIN attributes = 1 .. n
  BY InputIs
<1>2. TextSize = fold[DOMAIN fields] + gold[DOMAIN attributes]
  BY DEF TextSize, FoldSeq, FoldFunction, FoldFunctionOnSet, MapThenFoldSet, TextLen
<1>3. \A it : F(it) = FoldOf(it, FieldTexts, 5)
  <2>1. \A x \in 1 .. 5 : FieldTexts[x] = TextLen(fields[x])
    BY DEF FieldTexts
  <2>2. ASSUME NEW it, NEW s \in SUBSET (1 .. 5)
        PROVE  (IF s = {} THEN 0
                ELSE LET x == CHOOSE x \in s : TRUE
                     IN  it[s \ {x}] + TextLen(fields[x]))
                 = (IF s = {} THEN 0
                    ELSE LET x == CHOOSE x \in s : TRUE
                         IN  it[s \ {x}] + FieldTexts[x])
    <3> DEFINE x == CHOOSE x \in s : TRUE
    <3>1. s # {} => x \in 1 .. 5
      OBVIOUS
    <3> QED BY <2>1, <3>1
  <2> QED BY <1>1, <2>2 DEF FoldOf
<1>4. \A it : A(it) = FoldOf(it, AttributeTexts, n)
  BY <1>1, TextsAre DEF FoldOf
<1>5. IsSum(f, FieldTexts, 5) /\ IsSum(a, AttributeTexts, n)
  BY <1>1, TextsAre, SumExists
<1>6. fold[1 .. 5] = f[1 .. 5]
  <2> HIDE DEF F, f
  <2>1. f = F(f)
    BY <1>3, <1>5, SumIsFold
  <2>2. fold = F(fold)
    BY <2>1
  <2> HIDE DEF fold
  <2>3. fold = FoldOf(fold, FieldTexts, 5)
    BY <1>3, <2>2
  <2> QED BY <1>5, <2>3, SumIsFold
<1>7. gold[1 .. n] = a[1 .. n]
  <2> HIDE DEF A, a, n
  <2>1. a = A(a)
    BY <1>1, <1>4, <1>5, SumIsFold
  <2>2. gold = A(gold)
    BY <2>1
  <2> HIDE DEF gold
  <2>3. gold = FoldOf(gold, AttributeTexts, n)
    BY <1>4, <2>2
  <2> QED BY <1>1, <1>5, <2>3, SumIsFold
<1>8. SumTo(FieldTexts, 5, 5) = f[1 .. 5] /\ SumTo(AttributeTexts, n, n) = a[1 .. n]
  BY DEF SumTo
<1> HIDE DEF f, a, fold, gold
<1>9. CASE n = 0
  <2>1. Total(5 + n) = SumTo(FieldTexts, 5, 5)
    BY <1>9 DEF Total
  <2>2. SumTo(AttributeTexts, n, n) = 0 /\ SumTo(FieldTexts, 5, 5) \in Nat
    <3>1. SumTo(AttributeTexts, n, 0) = 0
      BY <1>1, TextsAre, SumToIs
    <3>2. 5 \in 0 .. 5 /\ 5 \in Nat
      OBVIOUS
    <3>3. SumTo(FieldTexts, 5, 5) \in Nat
      BY <3>2, TextsAre, SumToIs
    <3> QED BY <1>9, <3>1, <3>3
  <2>3. \A x \in Nat : x + 0 = x
    OBVIOUS
  <2> QED BY <1>1, <1>2, <1>6, <1>7, <1>8, <2>1, <2>2, <2>3
<1>10. CASE n # 0
  <2>1. ~(5 + n <= 5) /\ (5 + n) - 5 = n
    BY <1>1, <1>10
  <2>2. Total(5 + n) = SumTo(FieldTexts, 5, 5) + SumTo(AttributeTexts, n, n)
    BY <2>1 DEF Total
  <2> QED BY <1>1, <1>2, <1>6, <1>7, <1>8, <2>2
<1> QED BY <1>9, <1>10

\* The verdict of ij_validate_event, in the order in which the copy finds it.
Accepts ==
    /\ HeaderOk
    /\ \A n \in 1 .. 5 : FieldFine(n)
    /\ \A n \in 1 .. Len(attributes) : AttributeFine(n)
    /\ Total(5 + Len(attributes)) <= TextMax
LEMMA VerdictIs ==
    ASSUME input \in Inputs
    PROVE  validate_event <=> Accepts
<1> DEFINE L == Len(attributes)
<1>1. L \in Nat /\ DOMAIN attributes = 1 .. L
  BY InputIs
<1> DEFINE Distinct == \A m, n \in 1 .. L : attributes[m].key = attributes[n].key => m = n
           Valid == \A n \in 1 .. L : /\ validate_string_field(attributes[n].key, KeyMax, FALSE)
                                      /\ validate_attr_value(attributes[n].value)
           Behind == \A n \in 1 .. L : \A j \in 1 .. n - 1 :
                        attributes[j].key # attributes[n].key
<1>2. Distinct <=> Behind
  <2>1. ASSUME Distinct, NEW n \in 1 .. L, NEW j \in 1 .. n - 1
        PROVE  attributes[j].key # attributes[n].key
    <3>1. j \in 1 .. L /\ j # n
      BY <1>1
    <3> QED BY <2>1, <3>1
  <2>2. ASSUME Behind, NEW m \in 1 .. L, NEW n \in 1 .. L, m # n
        PROVE  attributes[m].key # attributes[n].key
    <3>1. CASE m < n
      <4>1. m \in 1 .. n - 1
        BY <1>1, <3>1
      <4> QED BY <2>2, <4>1
    <3>2. CASE n < m
      <4>1. n \in 1 .. m - 1
        BY <1>1, <3>2
      <4> QED BY <2>2, <4>1
    <3> QED BY <1>1, <2>2, <3>1, <3>2
  <2> QED BY <2>1, <2>2
<1>3. (\A n \in 1 .. L : AttributeFine(n)) <=> Valid /\ Distinct
  <2>1. (\A n \in 1 .. L : AttributeFine(n)) <=> Valid /\ Behind
    BY DEF AttributeFine
  <2> HIDE DEF Valid, Behind, Distinct
  <2> QED BY <1>2, <2>1
<1>4. validate_event <=> /\ HeaderOk /\ \A n \in 1 .. 5 : FieldFine(n)
                         /\ Valid /\ Distinct /\ TextSize <= TextMax
  BY <1>1 DEF validate_event, FieldFine
<1>5. (\A n \in 1 .. L : AttributeFine(n)) => TextSize = Total(5 + L)
  BY FineIsChecked, TextSizeIs
<1> HIDE DEF Valid, Distinct
<1> QED BY <1>3, <1>4, <1>5 DEF Accepts

(* The scans of the copy and the validator's functions ask the same. *)
LEMMA ScansAgree ==
    ASSUME NEW s \in CString
    PROVE  /\ \A max, empty : scan_string_field_copy(s, max, empty) <=>
                                validate_string_field(s, max, empty)
           /\ validate_attr_string_copy(s) <=>
                s # Null /\ Len(s) <= ValueMax /\ utf8_is_valid_dispatch(input.cpu, s)
<1>1. s # Null /\ ~Wide(s) => utf8_is_valid_dispatch(input.cpu, s)
  BY AsciiIsValid DEF CString, Wide
<1> QED BY <1>1 DEF scan_string_field_copy, validate_string_field, validate_attr_string_copy

LEMMA AttributeScansAgree ==
    ASSUME NEW a, a.value.data \in CString
    PROVE  (IF IsString(a) THEN validate_attr_string_copy(a.value.data)
                           ELSE validate_attr_value(a.value)) <=> validate_attr_value(a.value)
<1>1. IsString(a) =>
        (validate_attr_value(a.value) <=>
           /\ a.value.data # Null /\ Len(a.value.data) <= ValueMax
           /\ utf8_is_valid_dispatch(input.cpu, a.value.data))
  BY DEF IsString, validate_attr_value
<1> QED BY <1>1, ScansAgree

\* A call that was refused had an event the validator refuses; of an event that
\* was not refused so far, all that was scanned is fine and counted.
VerdictInv ==
    /\ pc = "done" => status \in {"OK", "INVALID_ARGUMENT", "INTERNAL_ERROR"}
    /\ status = "INVALID_ARGUMENT" => ~Accepts
    /\ Live => /\ pc # "header" => HeaderOk
               /\ \A n \in 1 .. 5 : n <= Measured => FieldFine(n)
               /\ \A n \in 1 .. Len(attributes) : 5 + n <= Measured => AttributeFine(n)
               /\ total = Total(Measured)
               /\ pc \notin {"header", "scan"} => total <= TextMax

LEMMA VerdictStays ==
    ASSUME input' = input
    PROVE  /\ HeaderOk' <=> HeaderOk
           /\ \A n : FieldFine(n)' <=> FieldFine(n)
           /\ \A n : AttributeFine(n)' <=> AttributeFine(n)
           /\ \A m : Total(m)' = Total(m)
           /\ Accepts' <=> Accepts
<1>1. fields' = fields /\ attributes' = attributes /\ event' = event
  BY InputStays
<1>2. HeaderOk' <=> HeaderOk
  BY <1>1 DEF HeaderOk
<1>3. \A n : FieldFine(n)' <=> FieldFine(n)
  BY <1>1 DEF FieldFine, validate_string_field, Limit, AllowEmpty
<1>4. \A n : AttributeFine(n)' <=> AttributeFine(n)
  BY <1>1 DEF AttributeFine, validate_string_field, validate_attr_value
<1>5. \A m : Total(m)' = Total(m)
  BY <1>1 DEF Total, SumTo, IsSum, FieldTexts, AttributeTexts, Checked, TextOf, TextLen, IsString
<1>6. Accepts' <=> Accepts
  BY <1>1, <1>2, <1>3, <1>4, <1>5 DEF Accepts
<1> QED BY <1>2, <1>3, <1>4, <1>5, <1>6

(* A refused call. *)
LEMMA RefusedStep ==
    ASSUME input' = input, ~Accepts, pc' = "done", status' = "INVALID_ARGUMENT"
    PROVE  VerdictInv'
<1>1. ~Accepts'
  BY VerdictStays
<1>2. ~Live'
  BY DEF Live
<1> QED BY <1>1, <1>2 DEF VerdictInv

(* What has to be shown of a step that leaves the call alive. *)
LEMMA VerdictKept ==
    ASSUME input' = input, status' \in {"none", "OK"}, pc' = "done" => status' = "OK",
           HeaderOk, NEW m, Measured' = m,
           \A n \in 1 .. 5 : n <= m => FieldFine(n),
           \A n \in 1 .. Len(attributes) : 5 + n <= m => AttributeFine(n),
           total' = Total(m), pc' # "scan" => total' <= TextMax
    PROVE  VerdictInv'
<1>1. attributes' = attributes
  BY InputStays
<1> QED BY <1>1, VerdictStays DEF VerdictInv

LEMMA HeaderVerdict ==
    ASSUME PhaseInv, VerdictInv, CheckHeader
    PROVE  VerdictInv'
<1>1. /\ pc = "header" /\ UNCHANGED <<input, total, i>> /\ i = 1 /\ input \in Inputs
      /\ status = "none"
  BY DEF CheckHeader, PhaseInv
<1>2. CASE HeaderOk /\ pc' = "scan" /\ status' = status
  <2>1. Measured' = 0 /\ Measured = 0 /\ Live
    BY <1>1, <1>2 DEF Measured, Live
  <2>2. total' = Total(0)
    BY <1>1, <2>1 DEF VerdictInv
  <2>3. Len(attributes) \in Nat
    BY <1>1, InputIs
  <2>4. \A n \in 1 .. 5 : ~(n <= 0)
    OBVIOUS
  <2>5. \A n \in 1 .. Len(attributes) : ~(5 + n <= 0)
    BY <2>3
  <2> QED BY <1>1, <1>2, <2>1, <2>2, <2>4, <2>5, VerdictKept
<1>3. CASE ~HeaderOk /\ pc' = "done" /\ status' = "INVALID_ARGUMENT"
  BY <1>1, <1>3, RefusedStep DEF Accepts
<1> QED BY <1>2, <1>3 DEF CheckHeader, Return

LEMMA ScanFieldVerdict ==
    ASSUME PhaseInv, VerdictInv, ScanField
    PROVE  VerdictInv'
<1> DEFINE s == fields[i]
           scanned == scan_string_field_copy(s, Limit(i), AllowEmpty(i))
<1>1. /\ pc = "scan" /\ i \in 1 .. 5 /\ input' = input /\ input \in Inputs
      /\ status = "none" /\ Live
  BY DEF ScanField, PhaseInv, Live
<1>2. s \in CString /\ Len(attributes) \in Nat
  BY <1>1, InputIs
<1>3. Measured = i - 1 /\ HeaderOk /\ total = Total(i - 1)
      /\ \A n \in 1 .. 5 : n <= i - 1 => FieldFine(n)
  BY <1>1 DEF Measured, VerdictInv
<1>4. scanned <=> validate_string_field(s, Limit(i), AllowEmpty(i))
  BY <1>2, ScansAgree
<1>5. Total(i) = Total(i - 1) + TextLen(s) /\ Total(i - 1) \in Nat
  <2>1. FieldTexts[i] = TextLen(s)
    BY <1>1 DEF FieldTexts
  <2>2. i - 1 \in 0 .. 5 + Len(attributes)
    BY <1>1, <1>2
  <2> QED BY <1>1, <2>1, <2>2, TotalIs
<1>6. ASSUME FieldFine(i), total' = Total(i), i' = i + 1, UNCHANGED <<pc, status>>
      PROVE  VerdictInv'
  <2>1. Measured' = i
    BY <1>1, <1>6 DEF Measured
  <2>2. \A n \in 1 .. 5 : n <= i => FieldFine(n)
    <3>1. \A n \in 1 .. 5 : n <= i => n <= i - 1 \/ n = i
      BY <1>1
    <3> QED BY <1>3, <1>6, <3>1
  <2>3. \A n \in 1 .. Len(attributes) : ~(5 + n <= i)
    BY <1>1, <1>2
  <2> QED BY <1>1, <1>3, <1>6, <2>1, <2>2, <2>3, VerdictKept
<1>7. CASE s = Null /\ i > 2 /\ i' = i + 1 /\ UNCHANGED <<pc, total, size, status>>
  <2>1. TextLen(s) = 0 /\ total' = total
    BY <1>7 DEF TextLen
  <2>2. \A x \in Nat : x + 0 = x
    OBVIOUS
  <2>3. total' = Total(i)
    BY <1>3, <1>5, <2>1, <2>2
  <2> QED BY <1>6, <1>7, <2>3 DEF FieldFine
<1>8. CASE s # Null /\ scanned /\ i' = i + 1 /\ total' = total + Len(s) /\ UNCHANGED <<pc, status>>
  <2>1. TextLen(s) = Len(s)
    BY <1>8 DEF TextLen
  <2>2. total' = Total(i)
    BY <1>3, <1>5, <1>8, <2>1
  <2>3. FieldFine(i)
    BY <1>4, <1>8 DEF FieldFine
  <2> QED BY <1>6, <1>8, <2>2, <2>3
<1>9. CASE (s = Null => i <= 2) /\ ~scanned /\ pc' = "done" /\ status' = "INVALID_ARGUMENT"
  <2>1. ~FieldFine(i)
    <3>1. i <= 2 => ~(i > 2)
      BY <1>1
    <3> QED BY <1>4, <1>9, <3>1 DEF FieldFine
  <2>2. ~Accepts
    BY <1>1, <2>1 DEF Accepts
  <2> QED BY <1>1, <1>9, <2>2, RefusedStep
<1> QED BY <1>7, <1>8, <1>9 DEF ScanField, Return

LEMMA FieldsScannedVerdict ==
    ASSUME PhaseInv, VerdictInv, FieldsScanned
    PROVE  VerdictInv'
<1>1. /\ pc = "scan" /\ i = 6 /\ UNCHANGED <<input, total>> /\ input \in Inputs
      /\ status = "none" /\ Live
  BY DEF FieldsScanned, PhaseInv, Live
<1>2. /\ Measured = 5 /\ HeaderOk /\ total = Total(5)
      /\ \A n \in 1 .. 5 : n <= 5 => FieldFine(n)
  BY <1>1 DEF Measured, VerdictInv
<1>3. Len(attributes) \in Nat /\ TextMax \in Nat
  BY <1>1, InputIs, EventCopyConstants
<1>4. /\ Total(5) \in Nat /\ Total(5 + Len(attributes)) \in Nat
      /\ Total(5) <= Total(5 + Len(attributes))
  <2>1. 5 \in 0 .. 5 + Len(attributes) /\ 5 + Len(attributes) \in 0 .. 5 + Len(attributes)
    BY <1>3
  <2> QED BY <1>1, <2>1, TotalIs
<1>5. CASE ~(total > TextMax) /\ pc' = "attrs" /\ i' = 1 /\ status' = status
  <2>1. Measured' = 5
    BY <1>5 DEF Measured
  <2>2. \A n \in 1 .. Len(attributes) : ~(5 + n <= 5)
    BY <1>3
  <2>3. total' = Total(5) /\ total' <= TextMax
    BY <1>1, <1>2, <1>3, <1>4, <1>5
  <2> QED BY <1>1, <1>2, <1>5, <2>1, <2>2, <2>3, VerdictKept
<1>6. CASE total > TextMax /\ pc' = "done" /\ status' = "INVALID_ARGUMENT"
  <2>1. ~(Total(5 + Len(attributes)) <= TextMax)
    BY <1>2, <1>3, <1>4, <1>6
  <2>2. ~Accepts
    BY <2>1 DEF Accepts
  <2> QED BY <1>1, <1>6, <2>2, RefusedStep
<1> QED BY <1>5, <1>6 DEF FieldsScanned, Return, TooMuch

LEMMA ScanAttributeVerdict ==
    ASSUME PhaseInv, VerdictInv, ScanAttribute
    PROVE  VerdictInv'
<1> DEFINE a == attributes[i]
           key == scan_string_field_copy(a.key, KeyMax, FALSE)
           value == IF IsString(a) THEN validate_attr_string_copy(a.value.data)
                                   ELSE validate_attr_value(a.value)
           new == \A j \in 1 .. i - 1 : attributes[j].key # a.key
           much == total + TextOf(a) > TextMax
<1>1. /\ pc = "attrs" /\ i <= Len(attributes) /\ i \in 1 .. Len(attributes) + 1
      /\ input' = input /\ input \in Inputs /\ status = "none" /\ Live
  BY DEF ScanAttribute, PhaseInv, Live
<1>2. Len(attributes) \in Nat /\ TextMax \in Nat /\ i \in 1 .. Len(attributes)
  BY <1>1, InputIs, EventCopyConstants
<1>3. a.key \in CString /\ a.value.data \in CString
  BY <1>1, <1>2, InputIs
<1>4. /\ Measured = 4 + i /\ HeaderOk /\ total = Total(4 + i)
      /\ \A n \in 1 .. 5 : n <= 4 + i => FieldFine(n)
      /\ \A n \in 1 .. Len(attributes) : 5 + n <= 4 + i => AttributeFine(n)
  BY <1>1 DEF Measured, VerdictInv
<1>5. key /\ value /\ new <=> AttributeFine(i)
  <2>1. key <=> validate_string_field(a.key, KeyMax, FALSE)
    BY <1>3, ScansAgree
  <2>2. value <=> validate_attr_value(a.value)
    BY <1>3, AttributeScansAgree
  <2> QED BY <2>1, <2>2 DEF AttributeFine
<1>6. AttributeFine(i) => Total(5 + i) = total + TextOf(a)
  <2>1. AttributeFine(i) => AttributeTexts[i] = TextOf(a)
    BY <1>1, <1>2, FineIsChecked, TextsAre
  <2>2. Total(5 + i) = Total(4 + i) + AttributeTexts[i]
    BY <1>1, <1>2, TotalIs
  <2> QED BY <1>4, <2>1, <2>2
<1>7. /\ Total(5 + i) \in Nat /\ Total(5 + Len(attributes)) \in Nat
      /\ Total(5 + i) <= Total(5 + Len(attributes))
  <2>1. 5 + i \in 0 .. 5 + Len(attributes) /\ 5 + Len(attributes) \in 0 .. 5 + Len(attributes)
    BY <1>2
  <2> QED BY <1>1, <2>1, TotalIs
<1> HIDE DEF key, value, new
<1>8. CASE /\ key /\ value /\ new /\ ~much /\ i' = i + 1 /\ total' = total + TextOf(a)
           /\ UNCHANGED <<pc, status>>
  <2>1. Measured' = 5 + i
    <3>1. 4 + (i + 1) = 5 + i
      BY <1>2
    <3> QED BY <1>1, <1>8, <3>1 DEF Measured
  <2>2. total' = Total(5 + i) /\ total' <= TextMax
    <3>1. total' = Total(5 + i)
      BY <1>5, <1>6, <1>8
    <3> QED BY <1>2, <1>7, <1>8, <3>1
  <2>3. \A n \in 1 .. Len(attributes) : 5 + n <= 5 + i => AttributeFine(n)
    <3>1. \A n \in 1 .. Len(attributes) : 5 + n <= 5 + i => 5 + n <= 4 + i \/ n = i
      BY <1>2
    <3> QED BY <1>4, <1>5, <1>8, <3>1
  <2>4. \A n \in 1 .. 5 : FieldFine(n)
    <3>1. \A n \in 1 .. 5 : n <= 4 + i
      BY <1>2
    <3> QED BY <1>4, <3>1
  <2> QED BY <1>1, <1>4, <1>8, <2>1, <2>2, <2>3, <2>4, VerdictKept
<1>9. CASE /\ ~(key /\ value /\ new /\ ~much) /\ pc' = "done"
           /\ status' = "INVALID_ARGUMENT"
  <2>1. ~Accepts
    <3>1. CASE ~AttributeFine(i)
      BY <1>2, <3>1 DEF Accepts
    <3>2. CASE AttributeFine(i)
      <4>1. much
        BY <1>5, <1>9, <3>2
      <4>2. Total(5 + i) > TextMax
        BY <1>6, <3>2, <4>1
      <4>3. ~(Total(5 + Len(attributes)) <= TextMax)
        BY <1>2, <1>7, <4>2
      <4> QED BY <4>3 DEF Accepts
    <3> QED BY <3>1, <3>2
  <2> QED BY <1>1, <1>9, <2>1, RefusedStep
<1> QED BY <1>8, <1>9 DEF ScanAttribute, Return, TooMuch, key, value, new

(* The second pass takes the call no further than it was. *)
LEMMA MeasuredVerdict ==
    ASSUME PhaseInv, VerdictInv, Live, pc \notin {"header", "scan"}, pc' # "scan",
           UNCHANGED <<input, total>>, Measured' = Measured,
           status' \in {"none", "OK"}, pc' = "done" => status' = "OK"
    PROVE  VerdictInv'
<1> DEFINE m == Measured
<1>1. /\ HeaderOk /\ total' = Total(m) /\ total' <= TextMax
      /\ \A n \in 1 .. 5 : n <= m => FieldFine(n)
      /\ \A n \in 1 .. Len(attributes) : 5 + n <= m => AttributeFine(n)
  BY DEF VerdictInv
<1> HIDE DEF m
<1>2. Measured' = m
  BY DEF m
<1> QED BY <1>1, <1>2, VerdictKept

LEMMA SecondPassVerdict ==
    ASSUME PhaseInv, VerdictInv,
           \/ AllocArena \/ CopyField \/ FieldsCopied \/ NoArray \/ AllocArray
           \/ CopyAttribute \/ AttributesCopied
    PROVE  VerdictInv'
<1>1. UNCHANGED <<input, total>>
  BY DEF AllocArena, CopyField, FieldsCopied, NoArray, AllocArray, CopyAttribute,
         AttributesCopied
<1>2. Len(attributes) \in Nat /\ attributes' = attributes
  BY <1>1, InputIs, InputStays DEF PhaseInv
<1>3. /\ pc \in {"attrs", "copy", "array", "values"} /\ status = "none"
      /\ pc' \in {"copy", "array", "values", "done"}
      /\ status' \in {"none", "OK"} /\ (pc' = "done" => status' = "OK")
  BY DEF AllocArena, CopyField, FieldsCopied, NoArray, AllocArray, CopyAttribute,
         AttributesCopied, Return, PhaseInv
<1>4. Measured' = 5 + Len(attributes)
  BY <1>2, <1>3 DEF Measured
<1>5. Measured = 5 + Len(attributes)
  <2>1. CASE pc = "attrs"
    <3>1. i = Len(attributes) + 1
      BY <1>2, <2>1 DEF PhaseInv, AllocArena, CopyField, FieldsCopied, NoArray, AllocArray,
                        CopyAttribute, AttributesCopied
    <3> QED BY <1>2, <2>1, <3>1 DEF Measured
  <2> QED BY <1>3, <2>1 DEF Measured
<1>6. Live
  BY <1>3 DEF Live
<1> QED BY <1>1, <1>3, <1>4, <1>5, <1>6, MeasuredVerdict

(* A call that failed for another reason, and a copy that was disposed of. *)
LEMMA EndVerdict ==
    ASSUME PhaseInv, VerdictInv, AllocFails \/ Dispose
    PROVE  VerdictInv'
<1>1. /\ pc' = "done" => status' = "INTERNAL_ERROR"
      /\ pc' \in {"done", "disposed"} /\ status' # "INVALID_ARGUMENT"
  BY DEF AllocFails, Dispose, Return
<1>2. ~Live'
  BY <1>1 DEF Live
<1> QED BY <1>1, <1>2 DEF VerdictInv

LEMMA VerdictStep == ASSUME PhaseInv, VerdictInv, [Next]_vars PROVE VerdictInv'
<1>1. CASE UNCHANGED vars
  <2>1. UNCHANGED <<input, pc, i, total, status>>
    BY <1>1 DEF vars
  <2>2. attributes' = attributes
    BY <2>1, InputStays
  <2>3. Measured' = Measured /\ (Live' <=> Live)
    BY <2>1, <2>2 DEF Measured, Live
  <2> QED BY <2>1, <2>2, <2>3, VerdictStays DEF VerdictInv
<1>2. CASE AllocArena \/ CopyField \/ FieldsCopied \/ NoArray \/ AllocArray
           \/ CopyAttribute \/ AttributesCopied
  BY <1>2, SecondPassVerdict
<1>3. CASE AllocFails \/ Dispose
  BY <1>3, EndVerdict
<1> QED BY <1>1, <1>2, <1>3, HeaderVerdict, ScanFieldVerdict, FieldsScannedVerdict,
           ScanAttributeVerdict DEF Next

LEMMA VerdictInit == ASSUME Init PROVE VerdictInv
<1>1. input \in Inputs /\ pc = "header" /\ total = 0 /\ status = "none"
  BY DEF Init
<1>2. Measured = 0
  BY <1>1 DEF Measured
<1>3. Total(0) = 0 /\ Len(attributes) \in Nat
  BY <1>1, TotalIs, InputIs
<1>4. \A n \in 1 .. 5 : ~(n <= 0)
  OBVIOUS
<1>5. \A n \in 1 .. Len(attributes) : ~(5 + n <= 0)
  BY <1>3
<1> QED BY <1>1, <1>2, <1>3, <1>4, <1>5 DEF VerdictInv

(* The copy accepts exactly the events that ij_validate_event accepts: its *)
(* own scans, the running total and the checks of it between the fields    *)
(* and after every attribute come to the verdict of the validator, which   *)
(* adds up all text at the end.                                            *)
THEOREM EventVerdictAgrees == PathSpec => []VerdictAgrees
<1>1. PathInit => PhaseInv /\ ArenaInv /\ VerdictInv
  BY CallInit, VerdictInit DEF PathInit
<1>2. PhaseInv /\ ArenaInv /\ VerdictInv /\ [PathNext]_pathVars
        => PhaseInv' /\ ArenaInv' /\ VerdictInv'
  <2>1. [PathNext]_pathVars => [Next]_vars
    BY Zenon DEF PathNext, Copying, Compose, Encode, Finish, Next, pathVars
  <2> QED BY <2>1, CallStep, VerdictStep
<1>3. ASSUME PhaseInv, VerdictInv, pc = "done", status # "INTERNAL_ERROR"
      PROVE  status = "OK" <=> validate_event
  <2>1. input \in Inputs
    BY <1>3 DEF PhaseInv
  <2>2. CASE status = "OK"
    <3>1. Live /\ Measured = 5 + Len(attributes) /\ Len(attributes) \in Nat
      BY <1>3, <2>1, <2>2, InputIs DEF Live, Measured
    <3>2. /\ HeaderOk
          /\ \A n \in 1 .. 5 : n <= Measured => FieldFine(n)
          /\ \A n \in 1 .. Len(attributes) : 5 + n <= Measured => AttributeFine(n)
          /\ Total(Measured) <= TextMax
      BY <1>3, <3>1 DEF VerdictInv
    <3>3. \A n \in 1 .. 5 : n <= 5 + Len(attributes)
      BY <3>1
    <3>4. \A n \in 1 .. Len(attributes) : 5 + n <= 5 + Len(attributes)
      BY <3>1
    <3>5. Accepts
      BY <3>1, <3>2, <3>3, <3>4 DEF Accepts
    <3> QED BY <2>1, <2>2, <3>5, VerdictIs
  <2>3. CASE status = "INVALID_ARGUMENT"
    <3>1. ~Accepts
      BY <1>3, <2>3 DEF VerdictInv
    <3> QED BY <2>1, <2>3, <3>1, VerdictIs
  <2> QED BY <1>3, <2>2, <2>3 DEF VerdictInv
<1>4. PhaseInv /\ VerdictInv => VerdictAgrees
  BY <1>3 DEF VerdictAgrees
<1> QED BY <1>1, <1>2, <1>4, PTL DEF PathSpec

----------------------------------------------------------------------------
(* The payload *)

(* A copy that succeeded has what the encoders read. *)
LEMMA CopyIs ==
    ASSUME PhaseInv, ArenaInv, CopiedInv, VerdictInv, pc = "done", status = "OK"
    PROVE  IsCopy(copy) /\ IsTime(event.timestamp) /\ event.level \in 0 .. 5
<1> DEFINE L == Len(attributes)
<1>1. /\ input \in Inputs /\ L \in Nat /\ Live
      /\ Measured = 5 + L /\ FieldsThere = 5 /\ AttributesThere = L
  <2>1. input \in Inputs
    BY DEF PhaseInv
  <2> QED BY <2>1, InputIs DEF Live, Measured, FieldsThere, AttributesThere
<1>2. /\ Len(copy.fields) = 5
      /\ Len(copy.attributes) = L /\ DOMAIN copy.attributes = 1 .. L
  <2>1. IsSeq(copy.fields, 5) /\ IsSeq(copy.attributes, L)
    BY <1>1 DEF PhaseInv
  <2>2. \A s, n : IsSeq(s, n) => DOMAIN s = 1 .. n /\ Len(s) = n
    BY DEF IsSeq
  <2> HIDE DEF L
  <2> QED BY <2>1, <2>2
<1>3. PICK f : FieldsPlaced(f) /\ AttributesPlaced(f)
  BY <1>1 DEF ArenaInv
<1>4. /\ HeaderOk /\ FieldFine(1) /\ FieldFine(2)
      /\ \A n \in 1 .. L : AttributeFine(n)
  <2>1. /\ pc # "header" => HeaderOk
        /\ \A n \in 1 .. 5 : n <= Measured => FieldFine(n)
        /\ \A n \in 1 .. L : 5 + n <= Measured => AttributeFine(n)
    BY <1>1 DEF VerdictInv
  <2> HIDE DEF L
  <2>2. 1 <= 5 + L /\ 2 <= 5 + L /\ \A n \in 1 .. L : 5 + n <= 5 + L
    BY <1>1
  <2> QED BY <1>1, <2>1, <2>2
<1>5. fields[1] # Null /\ fields[2] # Null
  BY <1>4 DEF FieldFine, validate_string_field
<1>6. ASSUME NEW n \in 1 .. 5, fields[n] # Null
      PROVE  copy.fields[n].text \in Seq(Byte)
  <2>1. copy.fields[n].text = fields[n]
    BY <1>2, <1>3, <1>6 DEF FieldsPlaced
  <2>2. fields[n] \in CString
    BY <1>1, InputIs
  <2> QED BY <1>6, <2>1, <2>2 DEF CString
<1>7. fields[3] = Null => copy.fields[3] = Null
  BY <1>2, <1>3 DEF FieldsPlaced
<1>8. ASSUME NEW n \in 1 .. L PROVE IsCopied(copy.attributes[n])
  <2> DEFINE a == attributes[n]
             o == copy.attributes[n]
  <2>1. a.key \in CString /\ a.value.data \in CString /\ a.value.num \in Int
    <3>1. a \in Attribute
      BY <1>1, InputIs, ElementOfSeq
    <3>2. \A b \in Attribute : b.value.num \in Int
      BY DEF Attribute
    <3> QED BY <1>1, <3>1, <3>2, InputIs
  <2>2. a.value.kind = "UNSIGNED" => a.value.num \in Nat
    <3>1. n \in DOMAIN input.event.attributes
      BY <1>1, InputIs DEF attributes, event
    <3> QED BY <1>1, <3>1, EventPathConstants DEF attributes, event
  <2>3. AttributePlaced(o, a, f[4 + n])
    BY <1>2, <1>3 DEF AttributesPlaced
  <2>4. AttributeKept(o, a)
    BY <1>2 DEF CopiedInv
  <2>5. a.key # Null /\ validate_attr_value(a.value)
    BY <1>4 DEF AttributeFine, validate_string_field
  <2> HIDE DEF a, o
  <2>6. o.key.text \in Seq(Byte)
    BY <2>1, <2>3, <2>5 DEF AttributePlaced, CString
  <2>7. ASSUME IsString(a) PROVE IsCopied(o)
    <3>1. o.value.kind = "STRING" /\ o.value.data.text \in {a.value.data, Literal}
      BY <2>3, <2>7 DEF AttributePlaced, IsString
    <3>2. a.value.data # Null
      BY <2>5, <2>7 DEF IsString, validate_attr_value
    <3>3. o.value.data.text \in Seq(Byte)
      BY <2>1, <3>1, <3>2, EventCopyConstants DEF CString
    <3> QED BY <2>6, <3>1, <3>3 DEF IsCopied, IsValue
  <2>8. ASSUME ~IsString(a) PROVE IsCopied(o)
    <3>1. o.value = a.value
      BY <2>4, <2>8 DEF AttributeKept
    <3>2. a.value.kind = "DOUBLE" => a.value.data # Null
      BY <2>5 DEF validate_attr_value
    <3>3. a.value.kind = "DOUBLE" => a.value.data \in Seq(Byte)
      BY <2>1, <3>2 DEF CString
    <3> QED BY <2>1, <2>2, <2>6, <2>8, <3>1, <3>3 DEF IsCopied, IsValue, IsString
  <2> QED BY <2>7, <2>8 DEF o
<1>9. IsCopy(copy)
  <2>1. copy.fields[1].text \in Seq(Byte) /\ copy.fields[2].text \in Seq(Byte)
    BY <1>5, <1>6
  <2>2. copy.fields[3] # Null => copy.fields[3].text \in Seq(Byte)
    BY <1>6, <1>7
  <2> QED BY <1>1, <1>2, <1>8, <2>1, <2>2 DEF IsCopy
<1>10. IsTime(event.timestamp)
  BY <1>1, EventPathConstants DEF IsTime, event
<1>11. event.level \in 0 .. 5
  BY <1>4 DEF HeaderOk, level_is_valid
<1> QED BY <1>9, <1>10, <1>11

\* The pieces and the payload of the call so far.
PayloadInv ==
    /\ pieces \in Seq(Piece)
    /\ pieces # << >> /\ input.sink = "SYSLOG" => Len(pieces) = 1
    /\ payload # NoPayload => pieces # << >>
    /\ FitsExact

LEMMA ComposedIs ==
    ASSUME pieces \in Seq(Piece)
    PROVE  Composed <=> \A j \in 1 .. Len(pieces) : pieces[j] # Null
<1>1. DOMAIN pieces = 1 .. Len(pieces)
  BY LenProperties
<1> QED BY <1>1 DEF Composed, Range

(* The encoder is given pieces. *)
LEMMA ComposeStep ==
    ASSUME PhaseInv, ArenaInv, CopiedInv, VerdictInv, PayloadInv, Compose
    PROVE  PayloadInv'
<1>1. /\ pc = "done" /\ status = "OK" /\ pieces = << >> /\ UNCHANGED <<input, payload>>
      /\ pieces' = IF input.sink = "SYSLOG" THEN SyslogPieces(input, event, copy)
                                            ELSE JsonPieces(input, event, copy)
  BY DEF Compose, vars
<1>2. payload = NoPayload /\ payload' = NoPayload
  BY <1>1 DEF PayloadInv
<1>3. IsCopy(copy) /\ IsTime(event.timestamp) /\ event.level \in 0 .. 5
  BY <1>1, CopyIs
<1>4. input.logger_name \in Piece /\ input.facility \in Nat
  BY EventPathConstants DEF PhaseInv, Piece, CString
<1>5. pieces' \in Seq(Piece) /\ (input.sink = "SYSLOG" => Len(pieces') = 1)
  BY <1>1, <1>3, <1>4, JsonPiecesAre, SyslogPiecesAre
<1>6. FitsExact'
  BY <1>2 DEF FitsExact, NoPayload
<1> QED BY <1>1, <1>2, <1>5, <1>6 DEF PayloadInv, NoPayload

(* The encoder fills the buffer. *)
LEMMA EncodeStep ==
    ASSUME PhaseInv, PayloadInv, Encode
    PROVE  PayloadInv'
<1>1. /\ pieces # << >> /\ pieces \in Seq(Piece) /\ UNCHANGED <<input, pieces>>
      /\ input.sink = "SYSLOG" => Len(pieces) = 1
      /\ input.sink \in {"CONSOLE", "FILE", "SYSLOG"}
  <2>1. input.sink \in {"CONSOLE", "FILE", "SYSLOG"}
    BY EventPathConstants DEF PhaseInv
  <2> QED BY <2>1 DEF PayloadInv, Encode, vars
<1> DEFINE joined == Joined(pieces)
           all == \A j \in 1 .. Len(pieces) : pieces[j] # Null
           whole == Whole
<1>2. joined \in Seq(Byte)
  BY <1>1, JoinedIs
<1>3. Composed <=> all
  BY <1>1, ComposedIs
<1>4. /\ input.sink # "FILE" => whole = joined
      /\ input.sink = "FILE" => whole = joined \o (IF all THEN <<Lf>> ELSE << >>)
  <2>1. joined \o << >> = joined
    BY <1>2, ConcatEmptySeq
  <2> HIDE DEF all
  <2>2. whole = joined \o (IF Composed /\ input.sink = "FILE" THEN <<Lf>> ELSE << >>)
    BY DEF Whole
  <2> HIDE DEF joined, whole
  <2> QED BY <1>3, <2>1, <2>2
<1>5. Len(whole) \in Nat
  <2>1. whole \in Seq(Byte)
    <3>1. <<Lf>> \in Seq(Byte) /\ << >> \in Seq(Byte)
      BY DEF Lf, Byte
    <3> HIDE DEF joined, whole, all
    <3> QED BY <1>2, <1>4, <3>1, ConcatProperties
  <2> QED BY <2>1, LenProperties
<1>6. PICK d \in Around :
         LET capacity == Len(Whole) + 1 + d IN
         /\ capacity >= 1
         /\ payload' = CASE input.sink = "CONSOLE" -> json_console_encode(pieces, capacity)
                         [] input.sink = "FILE" -> ndjson_encode(pieces, capacity)
                         [] input.sink = "SYSLOG" -> rfc5424_encode(pieces, capacity)
  BY DEF Encode
<1> DEFINE capacity == Len(whole) + 1 + d
<1>7. capacity \in Nat \ {0}
  <2>1. d \in Int /\ capacity >= 1
    BY <1>6, EventPathConstants
  <2> HIDE DEF whole
  <2> QED BY <1>5, <2>1
<1>8. /\ input.sink = "CONSOLE" => payload' = json_console_encode(pieces, capacity)
      /\ input.sink = "FILE" => payload' = ndjson_encode(pieces, capacity)
      /\ input.sink = "SYSLOG" => payload' = rfc5424_encode(pieces, capacity)
  <2>1. payload' = CASE input.sink = "CONSOLE" -> json_console_encode(pieces, capacity)
                     [] input.sink = "FILE" -> ndjson_encode(pieces, capacity)
                     [] input.sink = "SYSLOG" -> rfc5424_encode(pieces, capacity)
    BY <1>6
  <2> HIDE DEF capacity
  <2> QED BY <2>1
<1> HIDE DEF capacity, whole, joined
<1>9. Exactly(payload', pieces, whole, capacity)
  <2>1. CASE input.sink = "CONSOLE"
    BY <1>1, <1>4, <1>7, <1>8, <2>1, ConsoleExact DEF joined
  <2>2. CASE input.sink = "FILE"
    BY <1>1, <1>4, <1>7, <1>8, <2>2, NdjsonExact DEF joined
  <2>3. CASE input.sink = "SYSLOG"
    BY <1>1, <1>4, <1>7, <1>8, <2>3, SyslogExact DEF joined
  <2> QED BY <1>1, <2>1, <2>2, <2>3
<1>10. /\ payload'.capacity = capacity
       /\ Len(payload'.text) + 1 <= capacity
       /\ payload'.ok <=> Composed /\ Len(whole) + 1 <= capacity
       /\ payload'.ok => payload'.text = whole
       /\ IsPrefix(payload'.text, whole)
  BY <1>3, <1>9 DEF Exactly
<1>11. Whole' = whole /\ Composed' = Composed
  BY <1>1 DEF Whole, Composed, whole
<1>12. FitsExact'
  BY <1>10, <1>11 DEF FitsExact
<1> QED BY <1>1, <1>12 DEF PayloadInv

(* The other steps leave both alone or drop them. *)
LEMMA PayloadStep ==
    ASSUME PhaseInv, ArenaInv, CopiedInv, VerdictInv, PayloadInv, [PathNext]_pathVars
    PROVE  PayloadInv'
<1>1. CASE UNCHANGED <<input, pieces, payload>>
  <2>1. Composed' = Composed /\ Whole' = Whole
    BY <1>1 DEF Composed, Whole
  <2>2. FitsExact'
    BY <1>1, <2>1 DEF PayloadInv, FitsExact, NoPayload
  <2> QED BY <1>1, <2>2 DEF PayloadInv, NoPayload
<1>2. CASE Finish
  <2>1. pieces' = << >> /\ payload' = NoPayload
    BY <1>2 DEF Finish
  <2>2. FitsExact'
    BY <2>1 DEF FitsExact, NoPayload
  <2> QED BY <2>1, <2>2 DEF PayloadInv, NoPayload
<1>3. \/ UNCHANGED <<input, pieces, payload>> \/ Finish \/ Compose \/ Encode
  <2>1. CASE Copying
    BY <2>1 DEF Copying, CheckHeader, ScanField, FieldsScanned, ScanAttribute, AllocArena,
                AllocFails, CopyField, FieldsCopied, NoArray, AllocArray, CopyAttribute,
                AttributesCopied
  <2>2. CASE UNCHANGED pathVars
    BY <2>2 DEF pathVars, vars
  <2> QED BY <2>1, <2>2 DEF PathNext
<1> QED BY <1>1, <1>2, <1>3, ComposeStep, EncodeStep

(* Every encoder stays inside its buffer, whatever its size, and accepts    *)
(* the payload of a copy exactly if all of it and its NUL fit.              *)
THEOREM EventFitsExact == PathSpec => []FitsExact
<1> DEFINE Inv == PhaseInv /\ ArenaInv /\ CopiedInv /\ VerdictInv /\ PayloadInv
<1>1. PathInit => Inv
  <2>1. PathInit => PhaseInv /\ ArenaInv /\ VerdictInv
    BY CallInit, VerdictInit DEF PathInit
  <2>2. PathInit => CopiedInv
    BY DEF PathInit, Init, CopiedInv, NoCopy
  <2>3. PathInit => PayloadInv
    BY DEF PathInit, PayloadInv, FitsExact
  <2> QED BY <2>1, <2>2, <2>3
<1>2. Inv /\ [PathNext]_pathVars => Inv'
  <2>1. [PathNext]_pathVars => [Next]_vars
    BY Zenon DEF PathNext, Copying, Compose, Encode, Finish, Next, pathVars
  <2> QED BY <2>1, CallStep, CopiedStep, VerdictStep, PayloadStep
<1>3. Inv => FitsExact
  BY DEF PayloadInv
<1> QED BY <1>1, <1>2, <1>3, PTL DEF PathSpec

----------------------------------------------------------------------------
(* Numbers are read back *)

\* g gives what the first k digits of d stand for.
IsReading(g, d) ==
    /\ g \in [0 .. Len(d) -> Int] /\ g[0] = 0
    /\ \A k \in 1 .. Len(d) : g[k] = 10 * g[k - 1] + (d[k] - 48)

LEMMA ReadingIs ==
    ASSUME NEW d \in Seq(Int), NEW g, IsReading(g, d)
    PROVE  Reading(d) = g[Len(d)]
<1> DEFINE n == Len(d)
           F(h) == [k \in 0 .. n |-> IF k = 0 THEN 0 ELSE 10 * h[k - 1] + (d[k] - 48)]
           value == CHOOSE h : h = F(h)
<1>1. n \in Nat /\ \A k \in 1 .. n : d[k] \in Int
  BY LenProperties, ElementOfSeq
<1>2. g \in [0 .. n -> Int] /\ g[0] = 0 /\ \A k \in 1 .. n : g[k] = 10 * g[k - 1] + (d[k] - 48)
  BY DEF IsReading
<1>3. Reading(d) = value[n]
  BY DEF Reading
<1> HIDE DEF n
<1>4. g = F(g)
  <2>1. \A k \in 0 .. n : k = 0 \/ k \in 1 .. n
    BY <1>1
  <2> QED BY <1>2, <2>1
<1>5. value = F(value)
  <2>1. \E h : h = F(h)
    BY <1>4
  <2> HIDE DEF F
  <2> QED BY <2>1
<1> HIDE DEF value
<1>6. value[0] = 0 /\ \A k \in 1 .. n : value[k] = 10 * value[k - 1] + (d[k] - 48)
  <2>1. \A k \in 0 .. n : value[k] = IF k = 0 THEN 0 ELSE 10 * value[k - 1] + (d[k] - 48)
    BY <1>5
  <2>2. 0 \in 0 .. n /\ \A k \in 1 .. n : k \in 0 .. n /\ k # 0
    BY <1>1
  <2> QED BY <2>1, <2>2
<1> DEFINE D == {k \in 0 .. n : value[k] # g[k]}
<1>7. ASSUME n \in D PROVE FALSE
  <2>1. PICK k \in D : \A x \in D : k <= x
    <3>1. D \subseteq Nat
      OBVIOUS
    <3> HIDE DEF D
    <3> QED BY <1>7, <3>1, LeastIs
  <2>2. k \in 1 .. n /\ k - 1 \in 0 .. n /\ ~(k <= k - 1)
    BY <1>1, <1>2, <1>6
  <2>3. value[k - 1] = g[k - 1]
    BY <2>1, <2>2
  <2> QED BY <1>2, <1>6, <2>2, <2>3
<1>8. n \in 0 .. n
  BY <1>1
<1> QED BY <1>3, <1>7, <1>8 DEF n

(* One digit, and one more digit. *)
LEMMA ReadingOne ==
    ASSUME NEW c \in Int
    PROVE  Reading(<<c>>) = c - 48 /\ \E g : IsReading(g, <<c>>)
<1> DEFINE g == [k \in 0 .. 1 |-> IF k = 0 THEN 0 ELSE c - 48]
           d == <<c>>
<1>1. d \in Seq(Int) /\ Len(d) = 1 /\ d[1] = c
  OBVIOUS
<1>2. g \in [0 .. 1 -> Int] /\ g[0] = 0 /\ g[1] = c - 48
  OBVIOUS
<1>3. \A k \in 1 .. 1 : k = 1 /\ k - 1 = 0
  OBVIOUS
<1> HIDE DEF g, d
<1>4. IsReading(g, d)
  <2>1. \A k \in 1 .. 1 : g[k] = 10 * g[k - 1] + (d[k] - 48)
    BY <1>1, <1>2, <1>3
  <2> QED BY <1>1, <1>2, <2>1 DEF IsReading
<1>5. Reading(d) = g[1]
  BY <1>1, <1>4, ReadingIs
<1> QED BY <1>2, <1>4, <1>5 DEF d

LEMMA ReadingNext ==
    ASSUME NEW d \in Seq(Int), NEW g, IsReading(g, d), NEW c \in Int
    PROVE  /\ Reading(Append(d, c)) = 10 * Reading(d) + (c - 48)
           /\ \E h : IsReading(h, Append(d, c))
<1> DEFINE n == Len(d)
           e == Append(d, c)
           h == [k \in 0 .. n + 1 |-> IF k = n + 1 THEN 10 * g[n] + (c - 48) ELSE g[k]]
<1>1. /\ n \in Nat /\ e \in Seq(Int) /\ Len(e) = n + 1 /\ e[n + 1] = c
      /\ \A k \in 1 .. n : e[k] = d[k]
  BY LenProperties, AppendProperties
<1>2. /\ g \in [0 .. n -> Int] /\ g[0] = 0
      /\ \A k \in 1 .. n : g[k] = 10 * g[k - 1] + (d[k] - 48)
  BY DEF IsReading
<1> HIDE DEF e, n
<1>3. h \in [0 .. n + 1 -> Int] /\ h[0] = 0 /\ h[n + 1] = 10 * g[n] + (c - 48)
      /\ \A k \in 0 .. n : h[k] = g[k]
  <2>1. /\ g[n] \in Int /\ \A k \in 0 .. n + 1 : k = n + 1 \/ k \in 0 .. n
        /\ 0 \in 0 .. n /\ n + 1 \in 0 .. n + 1
        /\ \A k \in 0 .. n : k \in 0 .. n + 1 /\ k # n + 1
    BY <1>1, <1>2
  <2> QED BY <1>2, <2>1
<1> HIDE DEF h
<1>4. ASSUME NEW k \in 1 .. n + 1 PROVE h[k] = 10 * h[k - 1] + (e[k] - 48)
  <2>1. CASE k = n + 1
    <3>1. k - 1 = n /\ n \in 0 .. n
      BY <1>1, <2>1
    <3> QED BY <1>1, <1>3, <2>1, <3>1
  <2>2. CASE k # n + 1
    <3>1. k \in 1 .. n /\ k \in 0 .. n /\ k - 1 \in 0 .. n
      BY <1>1, <2>2
    <3> QED BY <1>1, <1>2, <1>3, <3>1
  <2> QED BY <2>1, <2>2
<1>5. IsReading(h, e)
  BY <1>1, <1>3, <1>4 DEF IsReading
<1>6. Reading(e) = h[n + 1]
  BY <1>1, <1>5, ReadingIs
<1>7. Reading(d) = g[n]
  BY ReadingIs DEF n
<1> QED BY <1>3, <1>5, <1>6, <1>7 DEF e

(* The loop of ij_builder_append_uint64_decimal writes the decimal numeral *)
(* of its value.                                                           *)
LEMMA DecimalExact ==
    ASSUME NEW value \in Nat
    PROVE  /\ Decimal(value) \in Seq(48 .. 57) /\ Numeral(Decimal(value))
           /\ Reading(Decimal(value)) = value
<1> DEFINE g == CHOOSE f : f = Digits(f, value)
           Good(v) == /\ g[v] \in Seq(48 .. 57) /\ g[v] # << >>
                      /\ g[v][1] = 48 => Len(g[v]) = 1 /\ v = 0
                      /\ Reading(g[v]) = v /\ \E h : IsReading(h, g[v])
<1>1. Decimal(value) = g[value]
  BY DEF Decimal, Digits
<1>2. g = Digits(g, value)
  BY DigitsExist
<1> HIDE DEF g
<1>3. \A v \in 0 .. value :
         g[v] = IF v < 10 THEN <<Digit(v)>> ELSE Append(g[v \div 10], Digit(v % 10))
  BY <1>2 DEF Digits
<1> DEFINE D == {v \in 0 .. value : ~Good(v)}
<1>4. ASSUME value \in D
      PROVE  FALSE
  <2>1. PICK v \in D : \A x \in D : v <= x
    <3>1. D \subseteq Nat
      OBVIOUS
    <3> HIDE DEF D
    <3> QED BY <1>4, <3>1, LeastIs
  <2>2. CASE v < 10
    <3>1. Digit(v) \in 48 .. 57 /\ Digit(v) - 48 = v /\ Digit(v) \in Int
      BY <2>2 DEF Digit
    <3>2. g[v] = <<Digit(v)>>
      BY <1>3, <2>2
    <3> DEFINE c == Digit(v)
    <3> HIDE DEF c
    <3>3. /\ <<c>> \in Seq(48 .. 57) /\ <<c>> # << >> /\ <<c>>[1] = c /\ Len(<<c>>) = 1
      BY <3>1 DEF c
    <3>4. Reading(<<c>>) = c - 48 /\ \E h : IsReading(h, <<c>>)
      BY <3>1, ReadingOne DEF c
    <3>5. Good(v)
      BY <3>1, <3>2, <3>3, <3>4 DEF c
    <3> QED BY <3>5
  <2>3. CASE ~(v < 10)
    <3> DEFINE q == v \div 10
               c == Digit(v % 10)
    <3>1. q \in 0 .. v - 1 /\ q # 0 /\ c \in 48 .. 57 /\ 10 * q + (c - 48) = v /\ c \in Int
      <4>1. v \div 10 \in Nat /\ v % 10 \in 0 .. 9 /\ v = 10 * (v \div 10) + (v % 10)
        OBVIOUS
      <4> QED BY <2>3, <4>1 DEF Digit
    <3>2. g[v] = Append(g[q], c)
      BY <1>3, <2>3
    <3> HIDE DEF q, c
    <3>3. q \in 0 .. value /\ ~(v <= q)
      BY <3>1
    <3>4. Good(q)
      BY <2>1, <3>3
    <3> DEFINE d == g[q]
    <3>5. d \in Seq(48 .. 57) /\ d # << >> /\ d[1] # 48 /\ Reading(d) = q
          /\ \E h : IsReading(h, d)
      BY <3>1, <3>4
    <3> HIDE DEF d
    <3>6. d \in Seq(Int)
      <4>1. 48 .. 57 \subseteq Int
        OBVIOUS
      <4> QED BY <3>5, <4>1
    <3>7. /\ Append(d, c) \in Seq(48 .. 57) /\ Append(d, c) # << >> /\ Append(d, c)[1] = d[1]
      <4>1. Len(d) \in Nat \ {0}
        BY <3>5, EmptySeq, LenProperties
      <4> QED BY <3>1, <3>5, <4>1, AppendProperties
    <3>8. Reading(Append(d, c)) = 10 * q + (c - 48) /\ \E h : IsReading(h, Append(d, c))
      BY <3>1, <3>5, <3>6, ReadingNext
    <3>9. Good(v)
      BY <3>1, <3>2, <3>5, <3>7, <3>8 DEF d
    <3> QED BY <3>9
  <2> QED BY <2>2, <2>3
<1>5. Good(value)
  BY <1>4
<1>6. \A k \in DOMAIN g[value] : g[value][k] \in 48 .. 57
  BY <1>5
<1> QED BY <1>1, <1>5, <1>6 DEF Numeral

LEMMA ConcatAt ==
    ASSUME NEW S, NEW u \in Seq(S), NEW v \in Seq(S)
    PROVE  /\ u \o v \in Seq(S) /\ Len(u \o v) = Len(u) + Len(v)
           /\ \A j \in 1 .. Len(u) : (u \o v)[j] = u[j]
           /\ \A j \in 1 .. Len(v) : (u \o v)[Len(u) + j] = v[j]
  BY LenProperties, ConcatProperties

(* The digits of ij_write_two_digits and its siblings, for numbers that fit. *)
LEMMA ShortJoins ==
    ASSUME NEW a, NEW b, NEW c, NEW d
    PROVE  <<a, b>> \o <<c, d>> = <<a, b, c, d>> /\ <<a>> \o <<b, c>> = <<a, b, c>>
<1> DEFINE S == {a, b, c, d}
<1>0. a \in S /\ b \in S /\ c \in S /\ d \in S
  OBVIOUS
<1> HIDE DEF S
<1>1. ASSUME NEW x \in Seq(S), NEW y \in Seq(S), Len(x) = 2, Len(y) = 2,
             x[1] = a, x[2] = b, y[1] = c, y[2] = d
      PROVE  x \o y = <<a, b, c, d>>
  <2>1. /\ x \o y \in Seq(S) /\ Len(x \o y) = Len(x) + Len(y)
        /\ \A j \in 1 .. Len(x) : (x \o y)[j] = x[j]
        /\ \A j \in 1 .. Len(y) : (x \o y)[Len(x) + j] = y[j]
    BY ConcatAt
  <2> DEFINE z == x \o y
  <2> HIDE DEF z
  <2>2. z \in Seq(S) /\ Len(z) = 4 /\ z[1] = a /\ z[2] = b /\ z[3] = c /\ z[4] = d
    BY <1>1, <2>1 DEF z
  <2>3. z = <<a, b, c, d>>
    BY <1>0, <2>2
  <2> QED BY <2>3 DEF z
<1>2. ASSUME NEW x \in Seq(S), NEW y \in Seq(S), Len(x) = 1, Len(y) = 2,
             x[1] = a, y[1] = b, y[2] = c
      PROVE  x \o y = <<a, b, c>>
  <2>1. /\ x \o y \in Seq(S) /\ Len(x \o y) = Len(x) + Len(y)
        /\ \A j \in 1 .. Len(x) : (x \o y)[j] = x[j]
        /\ \A j \in 1 .. Len(y) : (x \o y)[Len(x) + j] = y[j]
    BY ConcatAt
  <2> DEFINE z == x \o y
  <2> HIDE DEF z
  <2>2. z \in Seq(S) /\ Len(z) = 3 /\ z[1] = a /\ z[2] = b /\ z[3] = c
    BY <1>2, <2>1 DEF z
  <2>3. z = <<a, b, c>>
    BY <1>0, <2>2
  <2> QED BY <2>3 DEF z
<1>3. <<a, b>> \o <<c, d>> = <<a, b, c, d>>
  <2> DEFINE x == <<a, b>>
             y == <<c, d>>
  <2>1. /\ x \in Seq(S) /\ y \in Seq(S) /\ Len(x) = 2 /\ Len(y) = 2
        /\ x[1] = a /\ x[2] = b /\ y[1] = c /\ y[2] = d
    BY <1>0
  <2> HIDE DEF x, y
  <2>2. x \o y = <<a, b, c, d>>
    BY <1>1, <2>1
  <2> QED BY <2>2 DEF x, y
<1>4. <<a>> \o <<b, c>> = <<a, b, c>>
  <2> DEFINE x == <<a>>
             y == <<b, c>>
  <2>1. /\ x \in Seq(S) /\ y \in Seq(S) /\ Len(x) = 1 /\ Len(y) = 2
        /\ x[1] = a /\ y[1] = b /\ y[2] = c
    BY <1>0
  <2> HIDE DEF x, y
  <2>2. x \o y = <<a, b, c>>
    BY <1>2, <2>1
  <2> QED BY <2>2 DEF x, y
<1> QED BY <1>3, <1>4

\* The digit of n at the place of the power 10^k.
Place(n, k) == 48 + ((n \div <<1, 10, 100, 1000>>[k + 1]) % 10)

LEMMA PlacesAre ==
    ASSUME NEW n \in Int
    PROVE  /\ DigitsOf(n, 2) = <<Place(n, 1), Place(n, 0)>>
           /\ DigitsOf(n, 3) = <<Place(n, 2), Place(n, 1), Place(n, 0)>>
           /\ DigitsOf(n, 4) = <<Place(n, 3), Place(n, 2), Place(n, 1), Place(n, 0)>>
<1> DEFINE p == <<1, 10, 100, 1000>>
           d(k) == 48 + ((n \div p[k]) % 10)
<1> HIDE DEF p
<1>1. /\ DigitsOf(n, 2) = [k \in 1 .. 2 |-> d(2 - k + 1)]
      /\ DigitsOf(n, 3) = [k \in 1 .. 3 |-> d(3 - k + 1)]
      /\ DigitsOf(n, 4) = [k \in 1 .. 4 |-> d(4 - k + 1)]
  BY Zenon DEF DigitsOf, Digit, p
<1>2. /\ Place(n, 0) = d(0 + 1) /\ Place(n, 1) = d(1 + 1) /\ Place(n, 2) = d(2 + 1)
      /\ Place(n, 3) = d(3 + 1)
  BY Zenon DEF Place, p
<1> HIDE DEF d
<1>3. /\ [k \in 1 .. 2 |-> d(2 - k + 1)] = <<d(2), d(1)>>
      /\ [k \in 1 .. 3 |-> d(3 - k + 1)] = <<d(3), d(2), d(1)>>
      /\ [k \in 1 .. 4 |-> d(4 - k + 1)] = <<d(4), d(3), d(2), d(1)>>
  OBVIOUS
<1>4. 0 + 1 = 1 /\ 1 + 1 = 2 /\ 2 + 1 = 3 /\ 3 + 1 = 4
  OBVIOUS
<1> QED BY <1>1, <1>2, <1>3, <1>4, Zenon

LEMMA TwoDigits == ASSUME NEW n \in 0 .. 99 PROVE DigitsOf(n, 2) = Two(n)
<1>1. n \in Int /\ (n \div 10) % 10 = n \div 10 /\ (n \div 1) % 10 = n % 10
  BY SMT
<1>2. Place(n, 1) = 48 + ((n \div 10) % 10) /\ Place(n, 0) = 48 + ((n \div 1) % 10)
  BY SMT DEF Place
<1>3. Place(n, 1) = 48 + (n \div 10) /\ Place(n, 0) = 48 + (n % 10)
  BY <1>1, <1>2, Zenon
<1> QED BY <1>1, <1>3, PlacesAre, Zenon DEF Two

\* n is q hundreds and r.
Hundreds(n, q, r) == q = n \div 100 /\ r = n % 100

LEMMA MoreDigits ==
    ASSUME NEW n \in Int, NEW q \in 0 .. 99, NEW r \in 0 .. 99, Hundreds(n, q, r)
    PROVE  /\ DigitsOf(n, 4) = Two(q) \o Two(r)
           /\ q \in 0 .. 9 => DigitsOf(n, 3) = <<48 + q>> \o Two(r)
<1> DEFINE a == 48 + (q \div 10)
           b == 48 + (q % 10)
           c == 48 + (r \div 10)
           d == 48 + (r % 10)
<1>1. n = 100 * q + r /\ n \div 100 = q
  BY SMT DEF Hundreds
<1>2. a \in Int /\ b \in Int /\ c \in Int /\ d \in Int /\ (q \in 0 .. 9 => b = 48 + q)
  BY SMT
<1>3. Place(n, 3) = a
  <2>1. (n \div 1000) % 10 = q \div 10
    BY <1>1, SMT
  <2>2. Place(n, 3) = 48 + ((n \div 1000) % 10)
    BY SMT DEF Place
  <2> QED BY <2>1, <2>2, SMT
<1>4. Place(n, 2) = b
  <2>1. Place(n, 2) = 48 + ((n \div 100) % 10)
    BY SMT DEF Place
  <2> QED BY <1>1, <2>1, SMT
<1>5. Place(n, 1) = c
  <2>1. (n \div 10) % 10 = r \div 10
    BY <1>1, SMT
  <2>2. Place(n, 1) = 48 + ((n \div 10) % 10)
    BY SMT DEF Place
  <2> QED BY <2>1, <2>2, SMT
<1>6. Place(n, 0) = d
  <2>1. (n \div 1) % 10 = r % 10
    BY <1>1, SMT
  <2>2. Place(n, 0) = 48 + ((n \div 1) % 10)
    BY SMT DEF Place
  <2> QED BY <2>1, <2>2, SMT
<1>7. Two(q) = <<a, b>> /\ Two(r) = <<c, d>>
  BY Zenon DEF Two
<1> HIDE DEF a, b, c, d
<1>8. /\ DigitsOf(n, 4) = <<a, b, c, d>> /\ DigitsOf(n, 3) = <<b, c, d>>
  BY <1>3, <1>4, <1>5, <1>6, PlacesAre, Zenon
<1>9. <<a, b>> \o <<c, d>> = <<a, b, c, d>> /\ <<b>> \o <<c, d>> = <<b, c, d>>
  BY ShortJoins, Zenon
<1> QED BY <1>2, <1>7, <1>8, <1>9, Zenon

(* The text of a time is its RFC 3339 form, which has no blank. *)
LEMMA TimeExact ==
    ASSUME IsTime(event.timestamp), Formats(event.timestamp)
    PROVE  /\ format_timestamp_rfc3339(event.timestamp) = Timestamp
           /\ Timestamp \in Seq((48 .. 57) \cup {45, 84, 58, 46, 90})
<1> DEFINE t == event.timestamp
           tm == t.tm
           ms == t.nanoseconds \div NanosPerMilli
           S == (48 .. 57) \cup {45, 84, 58, 46, 90}
           year == Two(tm.year \div 100) \o Two(tm.year % 100)
           mon == Two(tm.mon + 1)
           mday == Two(tm.mday)
           hour == Two(tm.hour)
           min == Two(tm.min)
           sec == Two(tm.sec)
           m1 == <<48 + (ms \div 100)>>
           m2 == Two(ms % 100)
<1>1. /\ tm.year \in Int /\ tm.year \div 100 \in 0 .. 99 /\ tm.year % 100 \in 0 .. 99
      /\ tm.mon + 1 \in 0 .. 99 /\ tm.mday \in 0 .. 99
      /\ tm.hour \in 0 .. 99 /\ tm.min \in 0 .. 99 /\ tm.sec \in 0 .. 99
      /\ ms \in Int /\ ms \div 100 \in 0 .. 9 /\ ms % 100 \in 0 .. 99
  <2>1. /\ tm.mon \in 0 .. 11 /\ tm.mday \in 1 .. 31 /\ tm.hour \in 0 .. 23
        /\ tm.min \in 0 .. 59 /\ tm.sec \in 0 .. 60 /\ t.nanoseconds \in Nat
    BY Zenon DEF IsTime
  <2>2. t.nanoseconds < NanosPerSecond /\ FourDigits(tm.year) /\ tm.year \in Int
    BY Zenon DEF Formats, IsTime
  <2>3. ms \in 0 .. 999
    <3> DEFINE nanos == t.nanoseconds
    <3>1. nanos < 1000000000 /\ nanos \in Nat
      BY <2>1, <2>2, SMT DEF NanosPerSecond
    <3> HIDE DEF nanos
    <3>2. nanos \div 1000000 \in 0 .. 999
      BY <3>1, SMT
    <3> QED BY <3>2, SMT DEF nanos, NanosPerMilli
  <2>4. \A y \in Int : FourDigits(y) => y \div 100 \in 0 .. 99 /\ y % 100 \in 0 .. 99
    BY SMT DEF FourDigits
  <2>5. \A y \in 0 .. 999 : y \in Int /\ y \div 100 \in 0 .. 9 /\ y % 100 \in 0 .. 99
    BY SMT
  <2>6. \A y \in 0 .. 11 : y + 1 \in 0 .. 99
    BY SMT
  <2>7. /\ \A y \in 1 .. 31 : y \in 0 .. 99
        /\ \A y \in 0 .. 23 : y \in 0 .. 99
        /\ \A y \in 0 .. 59 : y \in 0 .. 99
        /\ \A y \in 0 .. 60 : y \in 0 .. 99
    BY SMT
  <2> HIDE DEF tm, t, ms
  <2>8. ms \in Int /\ ms \div 100 \in 0 .. 9 /\ ms % 100 \in 0 .. 99
    BY <2>3, <2>5, SMT
  <2>9. tm.year \in Int /\ tm.year \div 100 \in 0 .. 99 /\ tm.year % 100 \in 0 .. 99
    BY <2>2, <2>4, Zenon
  <2>10. tm.mon + 1 \in 0 .. 99
    BY <2>1, <2>6, Zenon
  <2>11. tm.mday \in 0 .. 99 /\ tm.hour \in 0 .. 99 /\ tm.min \in 0 .. 99 /\ tm.sec \in 0 .. 99
    <3> DEFINE mday1 == tm.mday
               hour1 == tm.hour
               min1 == tm.min
               sec1 == tm.sec
    <3>1. mday1 \in 1 .. 31 /\ hour1 \in 0 .. 23 /\ min1 \in 0 .. 59 /\ sec1 \in 0 .. 60
      BY <2>1, Zenon
    <3> HIDE DEF mday1, hour1, min1, sec1
    <3>2. mday1 \in 0 .. 99 /\ hour1 \in 0 .. 99 /\ min1 \in 0 .. 99 /\ sec1 \in 0 .. 99
      BY <2>7, <3>1, SMT
    <3> QED BY <3>2, Zenon DEF mday1, hour1, min1, sec1
  <2> QED BY <2>8, <2>9, <2>10, <2>11, Zenon
<1>2. /\ DigitsOf(tm.year, 4) = year /\ DigitsOf(tm.mon + 1, 2) = mon
      /\ DigitsOf(tm.mday, 2) = mday /\ DigitsOf(tm.hour, 2) = hour
      /\ DigitsOf(tm.min, 2) = min /\ DigitsOf(tm.sec, 2) = sec
      /\ Millis(t) = m1 \o m2
  <2> HIDE DEF tm, ms
  <2>1. Millis(t) = DigitsOf(ms, 3)
    BY Zenon DEF Millis, ms
  <2> HIDE DEF t
  <2>2. DigitsOf(tm.year, 4) = year
    <3> DEFINE n == tm.year
               q == n \div 100
               r == n % 100
    <3>1. Hundreds(n, q, r)
      BY Zenon DEF Hundreds
    <3>2. n \in Int /\ q \in 0 .. 99 /\ r \in 0 .. 99
      BY <1>1, Zenon
    <3> HIDE DEF n, q, r
    <3>3. DigitsOf(n, 4) = Two(q) \o Two(r)
      BY <3>1, <3>2, MoreDigits, Zenon
    <3> QED BY <3>3, Zenon DEF n, q, r
  <2>3. Millis(t) = m1 \o m2
    <3>1. Hundreds(ms, ms \div 100, ms % 100) /\ ms \div 100 \in 0 .. 99
      <4>1. 0 .. 9 \subseteq 0 .. 99
        BY SMT
      <4> QED BY <1>1, <4>1, Zenon DEF Hundreds
    <3> DEFINE q == ms \div 100
               r == ms % 100
    <3>2. Hundreds(ms, q, r) /\ ms \in Int /\ q \in 0 .. 99 /\ q \in 0 .. 9 /\ r \in 0 .. 99
      BY <1>1, <3>1, Zenon
    <3> HIDE DEF q, r
    <3>3. DigitsOf(ms, 3) = <<48 + q>> \o Two(r)
      BY <3>2, MoreDigits, Zenon
    <3> QED BY <2>1, <3>3, Zenon DEF q, r
  <2>4. DigitsOf(tm.mon + 1, 2) = mon
    BY <1>1, TwoDigits, Zenon
  <2>5. /\ DigitsOf(tm.mday, 2) = mday /\ DigitsOf(tm.hour, 2) = hour
        /\ DigitsOf(tm.min, 2) = min /\ DigitsOf(tm.sec, 2) = sec
    BY <1>1, TwoDigits, Zenon
  <2> QED BY <2>2, <2>3, <2>4, <2>5, Zenon
<1>3. \A n \in 0 .. 99 : Two(n) \in Seq(S)
  <2>1. \A n \in 0 .. 99 : 48 + (n \div 10) \in S /\ 48 + (n % 10) \in S
    OBVIOUS
  <2>2. \A x, y \in S : <<x, y>> \in Seq(S)
    OBVIOUS
  <2> HIDE DEF S
  <2> QED BY <2>1, <2>2 DEF Two
<1>4. /\ year \in Seq(S) /\ mon \in Seq(S) /\ mday \in Seq(S) /\ hour \in Seq(S)
      /\ min \in Seq(S) /\ sec \in Seq(S) /\ m1 \in Seq(S) /\ m2 \in Seq(S)
  <2>1. \A n \in 0 .. 9 : 48 + n \in S
    BY SMT
  <2> HIDE DEF tm, ms, t, S
  <2>2. \A x \in S : <<x>> \in Seq(S)
    OBVIOUS
  <2>3. m1 \in Seq(S) /\ m2 \in Seq(S)
    BY <1>1, <1>3, <2>1, <2>2, Zenon
  <2>4. /\ Two(tm.year \div 100) \in Seq(S) /\ Two(tm.year % 100) \in Seq(S)
        /\ mon \in Seq(S) /\ mday \in Seq(S) /\ hour \in Seq(S)
        /\ min \in Seq(S) /\ sec \in Seq(S)
    BY <1>1, <1>3, Zenon
  <2>5. year \in Seq(S)
    BY <2>4, Joins, Zenon
  <2> QED BY <2>3, <2>4, <2>5, Zenon
<1>5. /\ B("-") \in Seq(S) /\ B("T") \in Seq(S) /\ B(":") \in Seq(S)
      /\ B(".") \in Seq(S) /\ B("Z") \in Seq(S)
  <2>1. /\ <<45>> \in Seq(S) /\ <<84>> \in Seq(S) /\ <<58>> \in Seq(S) /\ <<46>> \in Seq(S)
        /\ <<90>> \in Seq(S)
    OBVIOUS
  <2> HIDE DEF S
  <2> QED BY <2>1, TimeLiterals, Zenon
<1>6. format_timestamp_rfc3339(t) =
        DigitsOf(tm.year, 4) \o B("-") \o DigitsOf(tm.mon + 1, 2) \o B("-")
           \o DigitsOf(tm.mday, 2) \o B("T") \o DigitsOf(tm.hour, 2) \o B(":")
           \o DigitsOf(tm.min, 2) \o B(":") \o DigitsOf(tm.sec, 2) \o B(".")
           \o Millis(t) \o B("Z")
  BY Zenon DEF format_timestamp_rfc3339
<1>7. Timestamp = year \o B("-") \o mon \o B("-") \o mday \o B("T") \o hour \o B(":")
                    \o min \o B(":") \o sec \o B(".") \o m1 \o m2 \o B("Z")
  BY Zenon DEF Timestamp
<1> DEFINE b1 == B("-")  b2 == B("T")  b3 == B(":")  b4 == B(".")  b5 == B("Z")
           x == year \o b1 \o mon \o b1 \o mday \o b2 \o hour \o b3
                  \o min \o b3 \o sec \o b4
<1>8. format_timestamp_rfc3339(t) = x \o (m1 \o m2) \o b5 /\ Timestamp = x \o m1 \o m2 \o b5
  <2> HIDE DEF year, mon, mday, hour, min, sec, m1, m2, t, tm
  <2> QED BY <1>2, <1>6, <1>7, Zenon DEF x, b1, b2, b3, b4, b5
<1>9. b1 \in Seq(S) /\ b2 \in Seq(S) /\ b3 \in Seq(S) /\ b4 \in Seq(S) /\ b5 \in Seq(S)
  BY <1>5, Zenon DEF b1, b2, b3, b4, b5
<1> HIDE DEF b1, b2, b3, b4, b5, year, mon, mday, hour, min, sec, m1, m2, S, t, tm
<1>10. x \in Seq(S)
  BY <1>4, <1>9, Joins
<1> HIDE DEF x
<1>11. x \o (m1 \o m2) = x \o m1 \o m2
  <2>1. \A s, u, v \in Seq(S) : s \o (u \o v) = (s \o u) \o v
    BY ConcatAssociative
  <2>2. x \in Seq(S) /\ m1 \in Seq(S) /\ m2 \in Seq(S)
    BY <1>4, <1>10
  <2> QED BY <2>1, <2>2
<1>12. x \o m1 \o m2 \o b5 \in Seq(S)
  BY <1>4, <1>9, <1>10, Joins
<1> QED BY <1>8, <1>11, <1>12 DEF S, t

----------------------------------------------------------------------------
(* The words of a syslog header *)

\* What comes before the next blank of r, and what is left after it.
NextSpace(r) == Before(r, LAMBDA c : c = Space)
Reads(r, w, s) ==
    NextSpace(r) = Len(w) /\ SubSeq(r, 1, Len(w)) = w /\ From(r, Len(w) + 1) = s

NoSpace(w) == w \in Seq(Byte) /\ \A j \in 1 .. Len(w) : w[j] # Space

LEMMA NextSpaceIs ==
    ASSUME NEW r \in Seq(Byte), NEW n, IsFirst(r, n, {Space})
    PROVE  NextSpace(r) = n
<1> DEFINE m == Min({k - 1 : k \in {j \in DOMAIN r : r[j] \in {Space}}} \cup {Len(r)})
<1>1. NextSpace(r) = m
  <2>1. {j \in DOMAIN r : r[j] \in {Space}} = {j \in DOMAIN r : r[j] = Space}
    OBVIOUS
  <2> QED BY <2>1, Zenon DEF NextSpace, Before
<1>2. IsFirst(r, m, {Space})
  BY LeastIsFirst
<1>3. Len(r) \in Nat
  BY LenProperties
<1> HIDE DEF m
<1> QED BY <1>1, <1>2, <1>3, FirstUnique

LEMMA WordReads ==
    ASSUME NEW w, NoSpace(w), NEW s \in Seq(Byte), NEW r, r = w \o (<<Space>> \o s)
    PROVE  Reads(r, w, s) /\ r \in Seq(Byte)
<1> DEFINE b == <<Space>>
           v == b \o s
<1>1. b \in Seq(Byte) /\ Len(b) = 1 /\ b[1] = Space
  BY DEF Space, Byte
<1> HIDE DEF b
<1>2. w \in Seq(Byte) /\ Len(w) \in Nat /\ Len(s) \in Nat
  BY LenProperties DEF NoSpace
<1>3. /\ v \in Seq(Byte) /\ Len(v) = 1 + Len(s) /\ v[1] = Space
      /\ \A j \in 1 .. Len(s) : v[1 + j] = s[j]
  <2>1. /\ v \in Seq(Byte) /\ Len(v) = Len(b) + Len(s)
        /\ \A j \in 1 .. Len(b) : v[j] = b[j]
        /\ \A j \in 1 .. Len(s) : v[Len(b) + j] = s[j]
    <3>1. \A u, q \in Seq(Byte) :
             /\ u \o q \in Seq(Byte) /\ Len(u \o q) = Len(u) + Len(q)
             /\ \A j \in 1 .. Len(u) : (u \o q)[j] = u[j]
             /\ \A j \in 1 .. Len(q) : (u \o q)[Len(u) + j] = q[j]
      BY ConcatAt
    <3> QED BY <1>1, <3>1, Zenon
  <2>2. 1 \in 1 .. Len(b)
    BY <1>1
  <2> HIDE DEF v
  <2> QED BY <1>1, <2>1, <2>2
<1>4. r = w \o v
  BY DEF b
<1> HIDE DEF v
<1>5. /\ r \in Seq(Byte) /\ Len(r) = Len(w) + Len(v)
      /\ \A j \in 1 .. Len(w) : r[j] = w[j]
      /\ \A j \in 1 .. Len(v) : r[Len(w) + j] = v[j]
  BY <1>2, <1>3, <1>4, ConcatAt
<1>6. r[Len(w) + 1] = Space /\ \A j \in 1 .. Len(s) : r[Len(w) + (1 + j)] = s[j]
  <2>1. 1 \in 1 .. Len(v) /\ \A j \in 1 .. Len(s) : 1 + j \in 1 .. Len(v)
    BY <1>2, <1>3
  <2> QED BY <1>3, <1>5, <2>1
<1>7. IsFirst(r, Len(w), {Space})
  <2>1. Len(w) \in 0 .. Len(r) /\ Len(r) \in Nat
    BY <1>2, <1>3, <1>5
  <2>2. \A j \in 1 .. Len(w) : r[j] \notin {Space}
    BY <1>5 DEF NoSpace
  <2> QED BY <1>6, <2>1, <2>2 DEF IsFirst
<1>8. NextSpace(r) = Len(w)
  BY <1>5, <1>7, NextSpaceIs
<1>9. SubSeq(r, 1, Len(w)) = w
  <2>1. SubSeq(r, 1, Len(w)) = [k \in 1 .. 1 + Len(w) - 1 |-> r[1 + k - 1]]
    BY <1>2, SubSeqIs
  <2>2. ASSUME NEW k \in 1 .. Len(w) PROVE r[1 + k - 1] = w[k]
    <3>1. 1 + k - 1 = k
      BY <1>2
    <3> QED BY <1>5, <3>1
  <2>3. 1 + Len(w) - 1 = Len(w)
    BY <1>2
  <2>4. w = [k \in 1 .. Len(w) |-> w[k]]
    BY <1>2
  <2> QED BY <2>1, <2>2, <2>3, <2>4
<1>10. From(r, Len(w) + 1) = s
  <2> DEFINE n == Len(w) + 1
  <2>1. From(r, n) = [k \in 1 .. 1 + Len(r) - (n + 1) |-> r[(n + 1) + k - 1]]
    BY <1>2, <1>3, <1>5, SubSeqIs DEF From
  <2>2. 1 + Len(r) - (n + 1) = Len(s)
    BY <1>2, <1>3, <1>5
  <2>3. ASSUME NEW k \in 1 .. Len(s) PROVE r[(n + 1) + k - 1] = s[k]
    <3>1. (n + 1) + k - 1 = Len(w) + (1 + k)
      BY <1>2
    <3> QED BY <1>6, <3>1
  <2>4. s = [k \in 1 .. Len(s) |-> s[k]]
    OBVIOUS
  <2> HIDE DEF n
  <2>5. From(r, n) = s
    BY <2>1, <2>2, <2>3, <2>4
  <2> QED BY <2>5 DEF n
<1> QED BY <1>5, <1>8, <1>9, <1>10 DEF Reads

LEMMA LastReads ==
    ASSUME NEW w, NoSpace(w)
    PROVE  Reads(w, w, << >>)
<1>1. w \in Seq(Byte) /\ Len(w) \in Nat
  BY LenProperties DEF NoSpace
<1>2. IsFirst(w, Len(w), {Space})
  <2>1. Len(w) \in 0 .. Len(w) /\ ~(Len(w) < Len(w))
    BY <1>1
  <2> QED BY <2>1 DEF IsFirst, NoSpace
<1>3. NextSpace(w) = Len(w)
  BY <1>1, <1>2, NextSpaceIs
<1>4. SubSeq(w, 1, Len(w)) = w
  BY <1>1
<1>5. From(w, Len(w) + 1) = << >>
  <2>1. ~((Len(w) + 1) + 1 <= Len(w))
    BY <1>1
  <2> QED BY <1>1, <2>1 DEF From
<1> QED BY <1>3, <1>4, <1>5 DEF Reads

\* Concatenation, with nothing known about it but what is stated.
Cat(s, u) == s \o u

LEMMA CatLaws ==
    ASSUME NEW S
    PROVE  /\ \A s, u, v \in Seq(S) : Cat(s, Cat(u, v)) = Cat(Cat(s, u), v)
           /\ \A s, u \in Seq(S) : Cat(s, u) \in Seq(S)
<1>1. \A s, u, v \in Seq(S) : s \o (u \o v) = (s \o u) \o v
  BY ConcatAssociative
<1>2. \A s, u \in Seq(S) : s \o u \in Seq(S)
  BY Joins
<1> QED BY <1>1, <1>2, Zenon DEF Cat

\* The text of the header, as it is printed and as it is read.
Flatly(x, pri, y, b, time, d, app, tail) ==
    x \o pri \o (y \o b) \o time \o (b \o (d \o b)) \o app
      \o (b \o (d \o (b \o (d \o (b \o d))))) \o tail
Nested(b, time, d, app, tail) ==
    time \o (b \o (d \o (b \o (app \o (b \o (d \o (b \o (d \o (b \o (d \o tail))))))))))

Regrouped(x, pri, y, b, time, d, app, tail) ==
    Flatly(x, pri, y, b, time, d, app, tail)
      = x \o pri \o y \o (b \o Nested(b, time, d, app, tail))

LEMMA HeaderRegroup ==
    ASSUME NEW x \in Seq(Byte), NEW pri \in Seq(Byte), NEW y \in Seq(Byte), NEW b \in Seq(Byte),
           NEW time \in Seq(Byte), NEW d \in Seq(Byte), NEW app \in Seq(Byte),
           NEW tail \in Seq(Byte)
    PROVE  Regrouped(x, pri, y, b, time, d, app, tail)
<1> DEFINE r7 == Cat(d, tail)
           r6 == Cat(d, Cat(b, r7))
           r5 == Cat(d, Cat(b, r6))
           r4 == Cat(app, Cat(b, r5))
           r3 == Cat(d, Cat(b, r4))
           r2 == Cat(time, Cat(b, r3))
           c1 == Cat(d, b)
           c3 == Cat(b, c1)
           e1 == Cat(b, d)
           e2 == Cat(d, e1)
           e3 == Cat(b, e2)
           e4 == Cat(d, e3)
           c4 == Cat(b, e4)
           h1 == Cat(x, pri)
           yb == Cat(y, b)
           h2 == Cat(h1, yb)
           h3 == Cat(h2, time)
           h4 == Cat(h3, c3)
           h5 == Cat(h4, app)
           flat == Flatly(x, pri, y, b, time, d, app, tail)
           nest == Nested(b, time, d, app, tail)
<1>1. \A s, u, v \in Seq(Byte) : Cat(s, Cat(u, v)) = Cat(Cat(s, u), v)
  BY CatLaws
<1>2. \A s, u \in Seq(Byte) : Cat(s, u) \in Seq(Byte)
  BY CatLaws
<1>3. flat = Cat(Cat(h5, c4), tail) /\ nest = r2
  BY Zenon DEF Flatly, Nested, Cat
<1> HIDE DEF flat, nest
<1>4. /\ e1 \in Seq(Byte) /\ r7 \in Seq(Byte) /\ Cat(b, r7) \in Seq(Byte)
      /\ c1 \in Seq(Byte) /\ yb \in Seq(Byte)
  BY <1>2
<1>5. Cat(e1, tail) = Cat(b, r7)
  BY <1>1, SMT
<1> HIDE DEF r7, e1
<1>6. e2 \in Seq(Byte) /\ r6 \in Seq(Byte)
  BY <1>2, <1>4
<1>7. Cat(e2, tail) = r6
  BY <1>1, <1>4, <1>5, SMT
<1> HIDE DEF r6, e2
<1>8. e3 \in Seq(Byte) /\ Cat(b, r6) \in Seq(Byte)
  BY <1>2, <1>6
<1>9. Cat(e3, tail) = Cat(b, r6)
  BY <1>1, <1>6, <1>7, SMT
<1> HIDE DEF e3
<1>10. e4 \in Seq(Byte) /\ r5 \in Seq(Byte)
  BY <1>2, <1>8
<1>11. Cat(e4, tail) = r5
  BY <1>1, <1>8, <1>9, SMT
<1> HIDE DEF e4, r5
<1>12. c4 \in Seq(Byte) /\ Cat(b, r5) \in Seq(Byte)
  BY <1>2, <1>10
<1>13. Cat(c4, tail) = Cat(b, r5)
  BY <1>1, <1>10, <1>11, SMT
<1>14. r4 \in Seq(Byte)
  BY <1>2, <1>12
<1> HIDE DEF c4, r4
<1>15. Cat(b, r4) \in Seq(Byte) /\ c3 \in Seq(Byte)
  BY <1>2, <1>4, <1>14
<1>16. Cat(c1, r4) = Cat(d, Cat(b, r4))
  BY <1>1, <1>14, SMT
<1> HIDE DEF c1
<1>17. Cat(c3, r4) = Cat(b, r3)
  BY <1>1, <1>4, <1>14, <1>16, SMT
<1>18. r3 \in Seq(Byte)
  BY <1>2, <1>15
<1> HIDE DEF c3, r3
<1>19. Cat(b, r3) \in Seq(Byte)
  BY <1>2, <1>18
<1>20. r2 \in Seq(Byte)
  BY <1>2, <1>19
<1> HIDE DEF r2
<1>21. Cat(b, r2) \in Seq(Byte) /\ h1 \in Seq(Byte)
  BY <1>2, <1>20
<1>22. Cat(yb, r2) = Cat(y, Cat(b, r2))
  BY <1>1, <1>20, SMT
<1> HIDE DEF yb, h1
<1>23. h2 \in Seq(Byte)
  BY <1>2, <1>4, <1>21
<1>24. Cat(h2, r2) = Cat(h1, Cat(y, Cat(b, r2)))
  BY <1>1, <1>4, <1>20, <1>21, <1>22, SMT
<1>25. Cat(h1, Cat(y, Cat(b, r2))) = Cat(Cat(h1, y), Cat(b, r2))
  BY <1>1, <1>21, SMT
<1> HIDE DEF h2
<1>26. h3 \in Seq(Byte)
  BY <1>2, <1>23
<1>27. Cat(h3, Cat(b, r3)) = Cat(h2, r2)
  BY <1>1, <1>19, <1>23, SMT DEF r2
<1> HIDE DEF h3
<1>28. h4 \in Seq(Byte)
  BY <1>2, <1>15, <1>26
<1>29. Cat(h4, r4) = Cat(h3, Cat(b, r3))
  BY <1>1, <1>14, <1>15, <1>17, <1>26, SMT
<1> HIDE DEF h4
<1>30. h5 \in Seq(Byte)
  BY <1>2, <1>28
<1>31. Cat(h5, Cat(b, r5)) = Cat(h4, r4)
  BY <1>1, <1>12, <1>28, SMT DEF r4
<1> HIDE DEF h5
<1>32. flat = Cat(h5, Cat(b, r5))
  BY <1>1, <1>3, <1>12, <1>13, <1>30, SMT
<1>33. flat = Cat(Cat(h1, y), Cat(b, nest))
  BY <1>3, <1>24, <1>25, <1>27, <1>29, <1>31, <1>32, Zenon
<1> QED BY <1>33, Zenon DEF h1, flat, nest, Cat, Regrouped

\* The text that ij_rfc5424_encode prints.
IsHeader(text, pri, time, app, message) ==
    text = <<60>> \o pri \o <<62, 49, 32>> \o time \o <<32, 45, 32>> \o app
             \o <<32, 45, 32, 45, 32, 45>>
             \o (IF message = << >> THEN << >> ELSE <<Space>> \o message)

(* The header of ij_rfc5424_encode is seven words. *)
AreWords(text, pri, time, app, message) ==
    \E r2, r3, r4, r5, r6, r7 :
       /\ NoSpace(<<60>> \o pri \o <<62, 49>>)
       /\ Reads(text, <<60>> \o pri \o <<62, 49>>, r2) /\ Reads(r2, time, r3)
       /\ Reads(r3, <<45>>, r4) /\ Reads(r4, app, r5) /\ Reads(r5, <<45>>, r6)
       /\ Reads(r6, <<45>>, r7) /\ Reads(r7, <<45>>, message)

LEMMA SevenWords ==
    ASSUME NEW pri, NoSpace(pri), NEW time, NoSpace(time), NEW app, NoSpace(app),
           NEW message \in Seq(Byte), NEW text,
           IsHeader(text, pri, time, app, message)
    PROVE  AreWords(text, pri, time, app, message)
<1> SUFFICES \E r2, r3, r4, r5, r6, r7 :
                LET d == <<45>> IN
                /\ NoSpace(<<60>> \o pri \o <<62, 49>>)
                /\ Reads(text, <<60>> \o pri \o <<62, 49>>, r2) /\ Reads(r2, time, r3)
                /\ Reads(r3, d, r4) /\ Reads(r4, app, r5) /\ Reads(r5, d, r6)
                /\ Reads(r6, d, r7) /\ Reads(r7, d, message)
  BY Zenon DEF AreWords
<1> DEFINE d == <<45>>
           b == <<Space>>
           x == <<60>>
           y == <<62, 49>>
           b2 == <<62, 49, 32>>
           b3 == <<32, 45, 32>>
           b4 == <<32, 45, 32, 45, 32, 45>>
           tail == IF message = << >> THEN << >> ELSE b \o message
           w == x \o pri \o y
<1>1. /\ d \in Seq(Byte) /\ b \in Seq(Byte) /\ x \in Seq(Byte) /\ y \in Seq(Byte)
      /\ << >> \in Seq(Byte)
  BY DEF Space, Byte
<1>2. b2 = y \o b /\ b3 = b \o (d \o b) /\ b4 = b \o (d \o (b \o (d \o (b \o d))))
  BY DEF Space
<1>3. pri \in Seq(Byte) /\ time \in Seq(Byte) /\ app \in Seq(Byte)
  BY DEF NoSpace
<1>4. NoSpace(d) /\ NoSpace(w)
  <2>1. NoSpace(d) /\ NoSpace(x) /\ NoSpace(y)
    BY <1>1 DEF NoSpace, Space
  <2>2. ASSUME NEW u, NoSpace(u), NEW v, NoSpace(v) PROVE NoSpace(u \o v)
    <3>1. u \in Seq(Byte) /\ v \in Seq(Byte) /\ Len(u) \in Nat /\ Len(v) \in Nat
      BY <2>2, LenProperties DEF NoSpace
    <3>2. /\ u \o v \in Seq(Byte) /\ Len(u \o v) = Len(u) + Len(v)
          /\ \A j \in 1 .. Len(u) : (u \o v)[j] = u[j]
          /\ \A j \in 1 .. Len(v) : (u \o v)[Len(u) + j] = v[j]
      BY <3>1, ConcatAt
    <3> DEFINE t == u \o v
    <3> HIDE DEF t
    <3>3. ASSUME NEW j \in 1 .. Len(t) PROVE t[j] # Space
      <4>1. CASE j \in 1 .. Len(u)
        BY <2>2, <3>2, <4>1 DEF t, NoSpace
      <4>2. CASE j \notin 1 .. Len(u)
        <5>1. j - Len(u) \in 1 .. Len(v) /\ Len(u) + (j - Len(u)) = j
          BY <3>1, <3>2, <4>2 DEF t
        <5> QED BY <2>2, <3>2, <5>1 DEF t, NoSpace
      <4> QED BY <4>1, <4>2
    <3> QED BY <3>2, <3>3 DEF t, NoSpace
  <2> HIDE DEF x, y
  <2> QED BY <2>1, <2>2
<1>5. tail \in Seq(Byte)
  <2> HIDE DEF b
  <2> QED BY <1>1, Joins
<1>6. text = x \o pri \o (y \o b) \o time \o (b \o (d \o b)) \o app
               \o (b \o (d \o (b \o (d \o (b \o d))))) \o tail
  <2>1. text = x \o pri \o b2 \o time \o b3 \o app \o b4 \o tail
    BY Zenon DEF x, b2, b3, b4, tail, b, IsHeader
  <2> HIDE DEF b2, b3, b4, tail, b, d, x, y
  <2> QED BY <1>2, <2>1, Zenon
<1> DEFINE r7 == d \o tail
           r6 == d \o (b \o r7)
           r5 == d \o (b \o r6)
           r4 == app \o (b \o r5)
           r3 == d \o (b \o r4)
           r2 == time \o (b \o r3)
<1>7. Reads(r7, d, message)
  <2>1. CASE message = << >>
    <3>1. r7 = d
      <4> HIDE DEF d
      <4> QED BY <1>1, <2>1, ConcatEmptySeq
    <3> HIDE DEF r7, d
    <3> QED BY <1>4, <2>1, <3>1, LastReads
  <2>2. CASE message # << >>
    <3>1. r7 = d \o (<<Space>> \o message)
      BY <2>2
    <3> HIDE DEF r7, d
    <3> QED BY <1>4, <3>1, WordReads
  <2> QED BY <2>1, <2>2
<1> HIDE DEF d, b, x, y, tail
<1>8. r7 \in Seq(Byte)
  BY <1>1, <1>5, Joins
<1> HIDE DEF r7
<1>9. Reads(r6, d, r7) /\ r6 \in Seq(Byte)
  BY <1>4, <1>8, WordReads DEF b
<1> HIDE DEF r6
<1>10. Reads(r5, d, r6) /\ r5 \in Seq(Byte)
  BY <1>4, <1>9, WordReads DEF b
<1> HIDE DEF r5
<1>11. Reads(r4, app, r5) /\ r4 \in Seq(Byte)
  BY <1>10, WordReads DEF b
<1> HIDE DEF r4
<1>12. Reads(r3, d, r4) /\ r3 \in Seq(Byte)
  BY <1>4, <1>11, WordReads DEF b
<1> HIDE DEF r3
<1>13. Reads(r2, time, r3) /\ r2 \in Seq(Byte)
  BY <1>12, WordReads DEF b
<1> HIDE DEF r2
<1>14. text = w \o (b \o r2)
  <2>1. text = Flatly(x, pri, y, b, time, d, app, tail)
    BY <1>6, Zenon DEF Flatly
  <2>2. r2 = Nested(b, time, d, app, tail)
    BY Zenon DEF Nested, r2, r3, r4, r5, r6, r7
  <2>3. Regrouped(x, pri, y, b, time, d, app, tail)
    BY <1>1, <1>3, <1>5, HeaderRegroup, Zenon
  <2> QED BY <2>1, <2>2, <2>3, Zenon DEF Regrouped
<1>15. Reads(text, w, r2)
  BY <1>4, <1>13, <1>14, WordReads DEF b
<1> QED BY <1>4, <1>7, <1>9, <1>10, <1>11, <1>12, <1>13, <1>15, Zenon DEF d, w, x, y

(* What the encoder prints of a copy, if the time has a text. *)
LEMMA AppNameIs ==
    ASSUME NEW raw \in Seq(Byte), raw # << >>, NEW app, app = syslog_sanitize_app_name(raw)
    PROVE  /\ NoSpace(app) /\ Len(app) \in 1 .. AppNameMax
           /\ \A k \in DOMAIN app : app[k] \in 33 .. 126
<1> DEFINE m == Min({Len(raw), AppNameMax})
           G(k) == IF Graphic(raw[k]) THEN raw[k] ELSE 95
<1>1. Len(raw) \in Nat \ {0} /\ AppNameMax \in Nat \ {0}
  BY EmptySeq, LenProperties, Rfc5424Constants
<1>2. m \in 1 .. Len(raw) /\ m \in 1 .. AppNameMax
  <2> DEFINE T == {Len(raw), AppNameMax}
  <2>1. T \in SUBSET Nat /\ T # {} /\ Len(raw) \in T /\ AppNameMax \in T
    BY <1>1
  <2> HIDE DEF T
  <2>2. Min(T) \in T /\ Min(T) <= Len(raw) /\ Min(T) <= AppNameMax
    BY <2>1, LeastIs
  <2>3. m \in {Len(raw), AppNameMax} /\ m <= Len(raw) /\ m <= AppNameMax
    BY <2>2 DEF T
  <2> HIDE DEF m
  <2> QED BY <1>1, <2>3
<1>3. app = [k \in 1 .. m |-> G(k)]
  BY DEF syslog_sanitize_app_name
<1> HIDE DEF m
<1>4. ASSUME NEW k \in 1 .. m PROVE G(k) \in 33 .. 126
  <2>1. raw[k] \in 0 .. 255
    <3>1. k \in 1 .. Len(raw)
      BY <1>1, <1>2
    <3>2. raw[k] \in Byte
      BY <3>1, ElementOfSeq
    <3> QED BY <3>2 DEF Byte
  <2> DEFINE c == raw[k]
  <2> HIDE DEF c
  <2>3. c \in 0 .. 255
    BY <2>1 DEF c
  <2>2. (IF Graphic(c) THEN c ELSE 95) \in 33 .. 126
    <3>1. CASE Graphic(c)
      <4>1. c \in 33 .. 126
        BY <2>3, <3>1, SMT DEF Graphic
      <4> QED BY <3>1, <4>1
    <3>2. CASE ~Graphic(c)
      <4>1. 95 \in 33 .. 126
        BY SMT
      <4> QED BY <3>2, <4>1
    <3> QED BY <3>1, <3>2
  <2> QED BY <2>2, Zenon DEF c
<1> HIDE DEF G
<1>5. app \in Seq(33 .. 126) /\ Len(app) = m
  <2>1. app \in [1 .. m -> 33 .. 126] /\ m \in Nat
    BY <1>1, <1>2, <1>3, <1>4
  <2> QED BY <2>1, SeqDef, <1>3
<1>6. \A k \in DOMAIN app : app[k] \in 33 .. 126
  <2>1. DOMAIN app = 1 .. m
    BY <1>3
  <2> QED BY <1>3, <1>4, <2>1
<1>7. NoSpace(app)
  <2>1. app \in Seq(Byte)
    <3>1. 33 .. 126 \subseteq 0 .. 255
      OBVIOUS
    <3> QED BY <1>5, <3>1 DEF Byte
  <2>2. \A j \in 1 .. Len(app) : app[j] \in 33 .. 126
    BY <1>3, <1>4, <1>5
  <2>3. Space \notin 33 .. 126
    BY DEF Space
  <2> QED BY <2>1, <2>2, <2>3 DEF NoSpace
<1> QED BY <1>2, <1>5, <1>6, <1>7

LEMMA TimeWord ==
    ASSUME NEW t \in Seq((48 .. 57) \cup {45, 84, 58, 46, 90})
    PROVE  NoSpace(t)
<1> DEFINE S == (48 .. 57) \cup {45, 84, 58, 46, 90}
<1>1. S \subseteq 0 .. 255 /\ 32 \notin S
  OBVIOUS
<1>2. t \in Seq(S)
  OBVIOUS
<1> HIDE DEF S
<1>3. t \in Seq(0 .. 255)
  BY <1>1, <1>2
<1>4. \A j \in 1 .. Len(t) : t[j] \in S
  BY <1>2, ElementOfSeq
<1> QED BY <1>1, <1>3, <1>4 DEF NoSpace, Byte, Space

LEMMA SyslogPrinted ==
    ASSUME IsCopy(copy), IsTime(event.timestamp), event.level \in 0 .. 5,
           input.logger_name \in Piece, input.facility \in Nat,
           format_timestamp_rfc3339(event.timestamp) # << >>
    PROVE  \E pri, app, text :
              /\ SyslogPieces(input, event, copy) = <<text>>
              /\ IsHeader(text, pri, Timestamp, app, copy.fields[2].text)
              /\ NoSpace(pri) /\ Numeral(pri)
              /\ Reading(pri) = 8 * input.facility + Severities[event.level + 1]
              /\ NoSpace(Timestamp)
              /\ NoSpace(app) /\ Len(app) \in 1 .. AppNameMax
              /\ \A k \in DOMAIN app : app[k] \in 33 .. 126
<1> DEFINE time == format_timestamp_rfc3339(event.timestamp)
           message == copy.fields[2].text
           logger == IF copy.fields[3] = Null THEN Null ELSE copy.fields[3].text
           raw == syslog_app_name(logger, input.logger_name)
           app == syslog_sanitize_app_name(raw)
           value == Pri(input.facility, event.level)
           pri == Decimal(value)
           tail == IF message = << >> THEN << >> ELSE <<Space>> \o message
           text == <<60>> \o pri \o <<62, 49, 32>> \o time \o <<32, 45, 32>> \o app
                     \o <<32, 45, 32, 45, 32, 45>> \o tail
<1>1. Formats(event.timestamp)
  BY Zenon DEF format_timestamp_rfc3339
<1>2. time = Timestamp /\ NoSpace(Timestamp)
  <2>1. time = Timestamp /\ Timestamp \in Seq((48 .. 57) \cup {45, 84, 58, 46, 90})
    BY <1>1, TimeExact, Zenon
  <2> QED BY <2>1, TimeWord, Zenon
<1>3. raw \in Seq(Byte) /\ raw # << >>
  <2>1. logger \in Piece
    BY DEF IsCopy, Piece
  <2>2. B("-") \in Seq(Byte) /\ B("-") # << >>
    <3>1. <<45>> # << >>
      OBVIOUS
    <3> QED BY <3>1, HeaderBytes, Rfc5424Literals, Zenon
  <2> HIDE DEF logger
  <2> QED BY <2>1, <2>2, Zenon DEF syslog_app_name, Piece
<1>4. value = 8 * input.facility + Severities[event.level + 1] /\ value \in Nat
  <2>1. event.level + 1 \in 1 .. 6
    OBVIOUS
  <2>2. Severities[event.level + 1] = syslog_severity_from_level(event.level)
    BY Zenon DEF Severities, syslog_severity_from_level
  <2>3. syslog_severity_from_level(event.level) \in Nat
    BY <2>1 DEF syslog_severity_from_level
  <2> QED BY <2>2, <2>3 DEF Pri
<1>5. pri \in Seq(48 .. 57) /\ Numeral(pri) /\ Reading(pri) = value
  <2> HIDE DEF value
  <2> QED BY <1>4, DecimalExact
<1>6. NoSpace(pri)
  <2> HIDE DEF pri
  <2>1. 48 .. 57 \subseteq (48 .. 57) \cup {45, 84, 58, 46, 90}
    OBVIOUS
  <2>2. pri \in Seq((48 .. 57) \cup {45, 84, 58, 46, 90})
    BY <1>5, <2>1
  <2> QED BY <2>2, TimeWord
<1>7. /\ NoSpace(app) /\ Len(app) \in 1 .. AppNameMax
      /\ \A k \in DOMAIN app : app[k] \in 33 .. 126
  <2> HIDE DEF raw
  <2> QED BY <1>3, AppNameIs
<1>8. SyslogPieces(input, event, copy) = <<text>>
  <2>1. SyslogPieces(input, event, copy) =
          IF time = << >> THEN <<Null>>
          ELSE <<B("<") \o pri \o B(">1 ") \o time \o B(" - ") \o app \o B(" - - -") \o tail>>
    BY Zenon DEF SyslogPieces
  <2> HIDE DEF time, pri, app, tail
  <2> QED BY <2>1, Rfc5424Literals, Zenon DEF time
<1>9. IsHeader(text, pri, Timestamp, app, message)
  <2> HIDE DEF time, pri, app, message
  <2> QED BY <1>2, Zenon DEF IsHeader
<1> HIDE DEF text, pri, app
<1> QED BY <1>2, <1>4, <1>5, <1>6, <1>7, <1>8, <1>9, Zenon

\* What the encoder was given is what it makes of the finished copy.
ComposedInv ==
    pieces # << >> =>
        /\ pc = "done" /\ status = "OK"
        /\ pieces = IF input.sink = "SYSLOG" THEN SyslogPieces(input, event, copy)
                                             ELSE JsonPieces(input, event, copy)

LEMMA ComposedStep ==
    ASSUME ComposedInv, [PathNext]_pathVars
    PROVE  ComposedInv'
<1>1. CASE UNCHANGED <<vars, pieces>>
  <2>1. UNCHANGED <<pc, status, input, copy, pieces>>
    BY <1>1 DEF vars
  <2>2. event' = event
    BY <2>1 DEF event
  <2>3. /\ SyslogPieces(input, event, copy)' = SyslogPieces(input, event, copy)
        /\ JsonPieces(input, event, copy)' = JsonPieces(input, event, copy)
    BY <2>1, <2>2, Zenon
  <2> QED BY <2>1, <2>3, Zenon DEF ComposedInv
<1>2. CASE pieces' = << >>
  BY <1>2 DEF ComposedInv
<1>3. CASE Compose
  <2>1. /\ UNCHANGED <<pc, status, input, copy>> /\ pc = "done" /\ status = "OK"
        /\ pieces' = IF input.sink = "SYSLOG" THEN SyslogPieces(input, event, copy)
                                              ELSE JsonPieces(input, event, copy)
    BY <1>3 DEF Compose, vars
  <2>2. event' = event
    BY <2>1 DEF event
  <2>3. /\ SyslogPieces(input, event, copy)' = SyslogPieces(input, event, copy)
        /\ JsonPieces(input, event, copy)' = JsonPieces(input, event, copy)
    BY <2>1, <2>2, Zenon
  <2> QED BY <2>1, <2>3, Zenon DEF ComposedInv
<1>4. CASE Copying
  <2>1. pc # "done" /\ pieces' = pieces
    BY <1>4 DEF Copying, CheckHeader, ScanField, FieldsScanned, ScanAttribute, AllocArena,
                AllocFails, CopyField, FieldsCopied, NoArray, AllocArray, CopyAttribute,
                AttributesCopied
  <2>2. pieces = << >>
    BY <2>1 DEF ComposedInv
  <2> QED BY <2>1, <2>2, <1>2
<1>5. \/ UNCHANGED <<vars, pieces>> \/ pieces' = << >> \/ Compose \/ Copying
  BY DEF PathNext, Encode, Finish, pathVars
<1> QED BY <1>1, <1>2, <1>3, <1>4, <1>5

(* The words that the reference reads off a text. *)
Rests(text) ==
    CHOOSE after : after = [n \in 0 .. 7 |->
        IF n = 0 THEN text ELSE From(after[n - 1], NextSpace(after[n - 1]) + 1)]

AreRests(text, r2, r3, r4, r5, r6, r7, r8) ==
    LET after == Rests(text)
    IN  /\ after[0] = text /\ after[1] = r2 /\ after[2] = r3 /\ after[3] = r4
        /\ after[4] = r5 /\ after[5] = r6 /\ after[6] = r7 /\ after[7] = r8

LEMMA RestsAre ==
    ASSUME NEW text, NEW w1, NEW w2, NEW w3, NEW w4, NEW w5, NEW w6, NEW w7,
           NEW r2, NEW r3, NEW r4, NEW r5, NEW r6, NEW r7, NEW r8,
           Reads(text, w1, r2), Reads(r2, w2, r3), Reads(r3, w3, r4), Reads(r4, w4, r5),
           Reads(r5, w5, r6), Reads(r6, w6, r7), Reads(r7, w7, r8)
    PROVE  AreRests(text, r2, r3, r4, r5, r6, r7, r8)
<1> DEFINE F(h) == [n \in 0 .. 7 |->
                       IF n = 0 THEN text ELSE From(h[n - 1], NextSpace(h[n - 1]) + 1)]
           r == <<text, r2, r3, r4, r5, r6, r7, r8>>
           g == [n \in 0 .. 7 |-> r[n + 1]]
           after == Rests(text)
<1>1. /\ From(text, NextSpace(text) + 1) = r2 /\ From(r2, NextSpace(r2) + 1) = r3
      /\ From(r3, NextSpace(r3) + 1) = r4 /\ From(r4, NextSpace(r4) + 1) = r5
      /\ From(r5, NextSpace(r5) + 1) = r6 /\ From(r6, NextSpace(r6) + 1) = r7
      /\ From(r7, NextSpace(r7) + 1) = r8
  BY Zenon DEF Reads
<1>2. /\ r[1] = text /\ r[2] = r2 /\ r[3] = r3 /\ r[4] = r4 /\ r[5] = r5 /\ r[6] = r6
      /\ r[7] = r7 /\ r[8] = r8
  OBVIOUS
<1> HIDE DEF r
<1>3. /\ g[0] = text /\ g[1] = r2 /\ g[2] = r3 /\ g[3] = r4 /\ g[4] = r5 /\ g[5] = r6
      /\ g[6] = r7 /\ g[7] = r8
  BY <1>2
<1>4. g = F(g)
  <2>1. ASSUME NEW n \in 0 .. 7 PROVE g[n] = F(g)[n]
    <3>1. F(g)[n] = IF n = 0 THEN text ELSE From(g[n - 1], NextSpace(g[n - 1]) + 1)
      OBVIOUS
    <3>2. n \in {0, 1, 2, 3, 4, 5, 6, 7}
      OBVIOUS
    <3>3. 1 - 1 = 0 /\ 2 - 1 = 1 /\ 3 - 1 = 2 /\ 4 - 1 = 3 /\ 5 - 1 = 4 /\ 6 - 1 = 5
          /\ 7 - 1 = 6 /\ 1 # 0 /\ 2 # 0 /\ 3 # 0 /\ 4 # 0 /\ 5 # 0 /\ 6 # 0 /\ 7 # 0
      OBVIOUS
    <3> HIDE DEF g, F
    <3>4. CASE n = 0
      BY <1>3, <3>1, <3>4
    <3>5. CASE n = 1
      BY <1>1, <1>3, <3>1, <3>3, <3>5, Zenon
    <3>6. CASE n = 2
      BY <1>1, <1>3, <3>1, <3>3, <3>6, Zenon
    <3>7. CASE n = 3
      BY <1>1, <1>3, <3>1, <3>3, <3>7, Zenon
    <3>8. CASE n = 4
      BY <1>1, <1>3, <3>1, <3>3, <3>8, Zenon
    <3>9. CASE n = 5
      BY <1>1, <1>3, <3>1, <3>3, <3>9, Zenon
    <3>10. CASE n = 6
      BY <1>1, <1>3, <3>1, <3>3, <3>10, Zenon
    <3>11. CASE n = 7
      BY <1>1, <1>3, <3>1, <3>3, <3>11, Zenon
    <3> QED BY <3>2, <3>4, <3>5, <3>6, <3>7, <3>8, <3>9, <3>10, <3>11
  <2> DEFINE G(n) == r[n + 1]
             H(n) == IF n = 0 THEN text ELSE From(g[n - 1], NextSpace(g[n - 1]) + 1)
  <2>2. \A n \in 0 .. 7 : G(n) = H(n)
    <3>1. \A n \in 0 .. 7 : g[n] = G(n) /\ F(g)[n] = H(n)
      OBVIOUS
    <3> QED BY <2>1, <3>1, Zenon
  <2>3. g = [n \in 0 .. 7 |-> G(n)] /\ F(g) = [n \in 0 .. 7 |-> H(n)]
    BY Zenon
  <2> HIDE DEF G, H, F, g
  <2> QED BY <2>2, <2>3
<1>5. after = F(after)
  <2>1. \E h : h = F(h)
    BY <1>4
  <2>2. after = CHOOSE h : h = F(h)
    BY Zenon DEF Rests
  <2> HIDE DEF F, after
  <2> QED BY <2>1, <2>2
<1> HIDE DEF after
<1>6. /\ after[0] = text
      /\ after[1] = From(after[0], NextSpace(after[0]) + 1)
      /\ after[2] = From(after[1], NextSpace(after[1]) + 1)
      /\ after[3] = From(after[2], NextSpace(after[2]) + 1)
      /\ after[4] = From(after[3], NextSpace(after[3]) + 1)
      /\ after[5] = From(after[4], NextSpace(after[4]) + 1)
      /\ after[6] = From(after[5], NextSpace(after[5]) + 1)
      /\ after[7] = From(after[6], NextSpace(after[6]) + 1)
  <2>1. \A n \in 0 .. 7 :
           after[n] = IF n = 0 THEN text ELSE From(after[n - 1], NextSpace(after[n - 1]) + 1)
    BY <1>5
  <2>2. /\ 0 \in 0 .. 7 /\ 1 \in 0 .. 7 /\ 2 \in 0 .. 7 /\ 3 \in 0 .. 7 /\ 4 \in 0 .. 7
        /\ 5 \in 0 .. 7 /\ 6 \in 0 .. 7 /\ 7 \in 0 .. 7
        /\ 1 - 1 = 0 /\ 2 - 1 = 1 /\ 3 - 1 = 2 /\ 4 - 1 = 3 /\ 5 - 1 = 4 /\ 6 - 1 = 5
        /\ 7 - 1 = 6 /\ 1 # 0 /\ 2 # 0 /\ 3 # 0 /\ 4 # 0 /\ 5 # 0 /\ 6 # 0 /\ 7 # 0
    OBVIOUS
  <2>3. after[0] = text
    BY <2>1, <2>2
  <2> DEFINE N(h) == From(h, NextSpace(h) + 1)
  <2>4. \A n \in 0 .. 7 : after[n] = IF n = 0 THEN text ELSE N(after[n - 1])
    BY <2>1, Zenon
  <2> HIDE DEF N
  <2>5. /\ after[1] = N(after[0]) /\ after[2] = N(after[1]) /\ after[3] = N(after[2])
        /\ after[4] = N(after[3]) /\ after[5] = N(after[4]) /\ after[6] = N(after[5])
        /\ after[7] = N(after[6])
    BY <2>2, <2>4
  <2> QED BY <2>3, <2>5, Zenon DEF N
<1>7. after[1] = r2
  BY <1>1, <1>6, Zenon
<1>8. after[2] = r3
  BY <1>1, <1>6, <1>7, Zenon
<1>9. after[3] = r4
  BY <1>1, <1>6, <1>8, Zenon
<1>10. after[4] = r5
  BY <1>1, <1>6, <1>9, Zenon
<1>11. after[5] = r6
  BY <1>1, <1>6, <1>10, Zenon
<1>12. after[6] = r7
  BY <1>1, <1>6, <1>11, Zenon
<1>13. after[7] = r8
  BY <1>1, <1>6, <1>12, Zenon
<1> QED BY <1>6, <1>7, <1>8, <1>9, <1>10, <1>11, <1>12, <1>13, Zenon DEF after, AreRests

(* The digits between the "<" and the ">1" of the first word. *)
LEMMA BetweenBrackets ==
    ASSUME NEW pri \in Seq(Byte)
    PROVE  LET first == <<60>> \o pri \o <<62, 49>>
           IN  SubSeq(first, 2, Len(first) - 2) = pri
<1> DEFINE x == <<60>>
           y == <<62, 49>>
           p == Len(pri)
           u == x \o pri
           first == u \o y
<1>1. /\ x \in Seq(Byte) /\ y \in Seq(Byte) /\ Len(x) = 1 /\ Len(y) = 2 /\ p \in Nat
  BY LenProperties DEF Byte
<1> HIDE DEF x, y, p
<1>2. \A s, t \in Seq(Byte) :
         /\ s \o t \in Seq(Byte) /\ Len(s \o t) = Len(s) + Len(t)
         /\ \A j \in 1 .. Len(s) : (s \o t)[j] = s[j]
         /\ \A j \in 1 .. Len(t) : (s \o t)[Len(s) + j] = t[j]
  BY ConcatAt
<1>3. /\ u \in Seq(Byte) /\ Len(u) = Len(x) + Len(pri)
      /\ \A j \in 1 .. Len(pri) : u[Len(x) + j] = pri[j]
  BY <1>1, <1>2, Zenon
<1> HIDE DEF u
<1>5. /\ first \in Seq(Byte) /\ Len(first) = Len(u) + Len(y)
      /\ \A j \in 1 .. Len(u) : first[j] = u[j]
  BY <1>1, <1>2, <1>3, Zenon
<1> HIDE DEF first
<1>6. Len(first) = p + 3 /\ Len(first) - 2 = p + 1
  BY <1>1, <1>3, <1>5 DEF p
<1>7. ASSUME NEW j \in 1 .. p PROVE first[2 + j - 1] = pri[j]
  <2>1. 2 + j - 1 = 1 + j /\ 1 + j \in 1 .. Len(u)
    BY <1>1, <1>3 DEF p
  <2> QED BY <1>1, <1>3, <1>5, <2>1 DEF p
<1>8. SubSeq(first, 2, p + 1) = [j \in 1 .. 1 + (p + 1) - 2 |-> first[2 + j - 1]]
  BY <1>1, <1>5, SubSeqIs
<1>9. 1 + (p + 1) - 2 = p
  BY <1>1
<1>10. pri = [j \in 1 .. p |-> pri[j]]
  BY DEF p
<1>11. SubSeq(first, 2, p + 1) = pri
  BY <1>7, <1>8, <1>9, <1>10
<1> QED BY <1>6, <1>11, Zenon DEF first, u, x, y

(* A text of seven words passes the reference. *)
LEMMA HeaderReads ==
    ASSUME payload.ok, input.sink = "SYSLOG",
           NEW pri, NoSpace(pri), Numeral(pri),
           Reading(pri) = 8 * input.facility + Severities[event.level + 1],
           NoSpace(Timestamp), NEW app, NoSpace(app), Len(app) \in 1 .. AppNameMax,
           \A k \in DOMAIN app : app[k] \in 33 .. 126,
           fields[2] \in Seq(Byte), IsHeader(payload.text, pri, Timestamp, app, fields[2])
    PROVE  SyslogHeader
<1> DEFINE text == payload.text
           message == fields[2]
           first == <<60>> \o pri \o <<62, 49>>
           d == <<45>>
           after == Rests(text)
           word(n) == SubSeq(after[n - 1], 1, NextSpace(after[n - 1]))
           digits == SubSeq(word(1), 2, Len(word(1)) - 2)
<1>1. PICK r2, r3, r4, r5, r6, r7 :
         /\ NoSpace(first)
         /\ Reads(text, first, r2) /\ Reads(r2, Timestamp, r3)
         /\ Reads(r3, d, r4) /\ Reads(r4, app, r5) /\ Reads(r5, d, r6)
         /\ Reads(r6, d, r7) /\ Reads(r7, d, message)
  <2>1. AreWords(text, pri, Timestamp, app, message)
    BY SevenWords, Zenon
  <2> QED BY <2>1, Zenon DEF AreWords
<1>2. /\ after[0] = text /\ after[1] = r2 /\ after[2] = r3 /\ after[3] = r4
      /\ after[4] = r5 /\ after[5] = r6 /\ after[6] = r7 /\ after[7] = message
  <2> HIDE DEF text, message, first, d
  <2>1. AreRests(text, r2, r3, r4, r5, r6, r7, message)
    BY <1>1, RestsAre, Zenon
  <2> QED BY <2>1, Zenon DEF AreRests
<1> HIDE DEF after, text, message
<1>3. /\ word(1) = first /\ word(2) = Timestamp /\ word(3) = d /\ word(4) = app
      /\ word(5) = d /\ word(6) = d /\ word(7) = d
  <2>1. 1 - 1 = 0 /\ 2 - 1 = 1 /\ 3 - 1 = 2 /\ 4 - 1 = 3 /\ 5 - 1 = 4 /\ 6 - 1 = 5
        /\ 7 - 1 = 6
    OBVIOUS
  <2> HIDE DEF first, d
  <2>2. \A r, w, s : Reads(r, w, s) => SubSeq(r, 1, NextSpace(r)) = w
    BY Zenon DEF Reads
  <2>3. word(1) = first /\ word(2) = Timestamp
    BY <1>1, <1>2, <2>1, <2>2, Zenon
  <2>4. word(3) = d /\ word(4) = app
    BY <1>1, <1>2, <2>1, <2>2, Zenon
  <2>5. word(5) = d /\ word(6) = d /\ word(7) = d
    BY <1>1, <1>2, <2>1, <2>2, Zenon
  <2> QED BY <2>3, <2>4, <2>5, Zenon
<1> HIDE DEF word
<1>4. digits = pri
  <2>1. pri \in Seq(Byte)
    BY Zenon DEF NoSpace
  <2>2. SubSeq(first, 2, Len(first) - 2) = pri
    BY <2>1, BetweenBrackets, Zenon
  <2> HIDE DEF first
  <2> QED BY <1>3, <2>2, Zenon
<1>5. B("<") \o digits \o B(">1") = first /\ B("-") = d
  <2> HIDE DEF digits
  <2> QED BY <1>4, Rfc5424Literals, Zenon DEF first, d
<1>6. ASSUME message = << >> PROVE Last(text) # Space
  <2> DEFINE a == <<60>> \o pri \o <<62, 49, 32>> \o Timestamp \o <<32, 45, 32>> \o app
             z == <<32, 45, 32, 45, 32, 45>>
  <2>1. text = a \o z \o << >>
    <3>1. text = a \o z \o (IF message = << >> THEN << >> ELSE <<Space>> \o message)
      BY Zenon DEF IsHeader, text, message
    <3> HIDE DEF a, z
    <3> QED BY <1>6, <3>1
  <2>2. a \in Seq(Byte)
    <3> DEFINE b1 == <<60>>
               b2 == <<62, 49, 32>>
               b3 == <<32, 45, 32>>
    <3>1. b1 \in Seq(Byte) /\ b2 \in Seq(Byte) /\ b3 \in Seq(Byte)
      BY DEF Byte
    <3>2. pri \in Seq(Byte) /\ Timestamp \in Seq(Byte) /\ app \in Seq(Byte)
      BY DEF NoSpace
    <3>3. a = b1 \o pri \o b2 \o Timestamp \o b3 \o app
      BY Zenon
    <3> HIDE DEF a, b1, b2, b3
    <3> QED BY <3>1, <3>2, <3>3, Joins
  <2>3. z \in Seq(Byte) /\ Len(z) = 6 /\ z[6] = 45
    BY DEF Byte
  <2> HIDE DEF a, z
  <2>4. \A s, t \in Seq(Byte) :
           /\ s \o t \in Seq(Byte) /\ Len(s \o t) = Len(s) + Len(t)
           /\ \A j \in 1 .. Len(s) : (s \o t)[j] = s[j]
           /\ \A j \in 1 .. Len(t) : (s \o t)[Len(s) + j] = t[j]
    BY ConcatAt
  <2> DEFINE u == a \o z
  <2>5. /\ u \in Seq(Byte) /\ Len(u) = Len(a) + Len(z)
        /\ \A j \in 1 .. Len(z) : u[Len(a) + j] = z[j]
    BY <2>2, <2>3, <2>4, Zenon
  <2> HIDE DEF u
  <2>6. text = u
    BY <2>1, <2>5, ConcatEmptySeq DEF u
  <2>7. 6 \in 1 .. Len(z)
    BY <2>3
  <2>8. u[Len(u)] = 45
    BY <2>3, <2>5, <2>7
  <2> QED BY <2>6, <2>8 DEF Last, Space
<1> HIDE DEF digits
<1>7. \A n \in {3, 5, 6, 7} : word(n) = B("-")
  <2> HIDE DEF d
  <2> QED BY <1>3, <1>5, Zenon
<1>8. /\ word(1) = B("<") \o digits \o B(">1") /\ Numeral(digits)
      /\ Reading(digits) = 8 * input.facility + Severities[event.level + 1]
      /\ word(2) = Timestamp /\ Len(word(4)) \in 1 .. AppNameMax
      /\ \A k \in DOMAIN word(4) : word(4)[k] \in 33 .. 126
  <2> HIDE DEF first
  <2> QED BY <1>3, <1>4, <1>5, Zenon
<1> QED BY <1>2, <1>6, <1>7, <1>8, Zenon
        DEF SyslogHeader, Rests, NextSpace, after, word, digits, text, message

(* The message of a copy is the caller's. *)
LEMMA MessageCopied ==
    ASSUME PhaseInv, ArenaInv, CopiedInv, VerdictInv, pc = "done", status = "OK"
    PROVE  copy.fields[2].text = fields[2] /\ fields[2] \in Seq(Byte)
<1> DEFINE L == Len(attributes)
<1>1. /\ input \in Inputs /\ L \in Nat /\ Live
      /\ Measured = 5 + L /\ FieldsThere = 5
  <2>1. input \in Inputs
    BY DEF PhaseInv
  <2> QED BY <2>1, InputIs DEF Live, Measured, FieldsThere
<1>2. Len(copy.fields) = 5
  <2>1. IsSeq(copy.fields, 5)
    BY <1>1 DEF PhaseInv
  <2> QED BY <2>1 DEF IsSeq
<1>3. PICK f : FieldsPlaced(f)
  BY <1>1 DEF ArenaInv
<1>4. FieldFine(2)
  <2>1. \A n \in 1 .. 5 : n <= Measured => FieldFine(n)
    BY <1>1 DEF VerdictInv
  <2> HIDE DEF L
  <2> QED BY <1>1, <2>1
<1>5. fields[2] # Null
  BY <1>4 DEF FieldFine, validate_string_field
<1>6. copy.fields[2].text = fields[2]
  BY <1>2, <1>3, <1>5 DEF FieldsPlaced
<1>7. fields[2] \in CString
  BY <1>1, InputIs
<1> QED BY <1>5, <1>6, <1>7 DEF CString

(* What the invariants say of a syslog payload that was accepted. *)
LEMMA AcceptedSyslog ==
    ASSUME PhaseInv, ArenaInv, CopiedInv, VerdictInv, PayloadInv, ComposedInv,
           payload.ok, input.sink = "SYSLOG"
    PROVE  SyslogHeader
<1>1. payload # NoPayload
  BY DEF NoPayload
<1>2. /\ pieces # << >> /\ pc = "done" /\ status = "OK" /\ pieces \in Seq(Piece)
      /\ Len(pieces) = 1 /\ pieces = SyslogPieces(input, event, copy)
  BY <1>1 DEF PayloadInv, ComposedInv
<1>3. Composed /\ payload.text = Whole
  BY <1>1 DEF PayloadInv, FitsExact
<1>4. pieces[1] # Null
  BY <1>2, <1>3, ComposedIs
<1>5. payload.text = pieces[1]
  <2>1. Joined(pieces) = pieces[1] /\ Joined(pieces) \in Seq(Byte)
    BY <1>2, <1>4, JoinedIs
  <2>2. Whole = Joined(pieces) \o << >>
    <3>1. ~(Composed /\ input.sink = "FILE")
      OBVIOUS
    <3> QED BY <3>1, Zenon DEF Whole
  <2>3. Joined(pieces) \o << >> = Joined(pieces)
    BY <2>1, ConcatEmptySeq
  <2> QED BY <1>3, <2>1, <2>2, <2>3, Zenon
<1>6. IsCopy(copy) /\ IsTime(event.timestamp) /\ event.level \in 0 .. 5
  BY <1>2, CopyIs
<1>7. input.logger_name \in Piece /\ input.facility \in Nat
  BY EventPathConstants DEF PhaseInv, Piece, CString
<1>8. format_timestamp_rfc3339(event.timestamp) # << >>
  <2>1. ASSUME format_timestamp_rfc3339(event.timestamp) = << >>
        PROVE  SyslogPieces(input, event, copy) = <<Null>>
    BY <2>1, Zenon DEF SyslogPieces
  <2> QED BY <1>2, <1>4, <2>1
<1>9. PICK pri, app, text :
         /\ SyslogPieces(input, event, copy) = <<text>>
         /\ IsHeader(text, pri, Timestamp, app, copy.fields[2].text)
         /\ NoSpace(pri) /\ Numeral(pri)
         /\ Reading(pri) = 8 * input.facility + Severities[event.level + 1]
         /\ NoSpace(Timestamp)
         /\ NoSpace(app) /\ Len(app) \in 1 .. AppNameMax
         /\ \A k \in DOMAIN app : app[k] \in 33 .. 126
  BY <1>6, <1>7, <1>8, SyslogPrinted, Zenon
<1>10. payload.text = text
  BY <1>2, <1>5, <1>9
<1>11. copy.fields[2].text = fields[2] /\ fields[2] \in Seq(Byte)
  BY <1>2, MessageCopied
<1>12. IsHeader(payload.text, pri, Timestamp, app, fields[2])
  BY <1>9, <1>10, <1>11, Zenon
<1> QED BY <1>9, <1>11, <1>12, HeaderReads, Zenon

(* Every syslog payload has the seven words of an RFC 5424 header, in order *)
(* and with their values, and then the message, byte for byte.              *)
THEOREM EventSyslogHeader == PathSpec => []SyslogHeader
<1> DEFINE Inv == /\ PhaseInv /\ ArenaInv /\ CopiedInv /\ VerdictInv /\ PayloadInv
                  /\ ComposedInv
<1>1. PathInit => Inv
  <2>1. PathInit => PhaseInv /\ ArenaInv /\ VerdictInv
    BY CallInit, VerdictInit DEF PathInit
  <2>2. PathInit => CopiedInv
    BY DEF PathInit, Init, CopiedInv, NoCopy
  <2>3. PathInit => PayloadInv /\ ComposedInv
    BY DEF PathInit, PayloadInv, FitsExact, ComposedInv
  <2> QED BY <2>1, <2>2, <2>3
<1>2. Inv /\ [PathNext]_pathVars => Inv'
  <2>1. [PathNext]_pathVars => [Next]_vars
    BY Zenon DEF PathNext, Copying, Compose, Encode, Finish, Next, pathVars
  <2> QED BY <2>1, CallStep, CopiedStep, VerdictStep, PayloadStep, ComposedStep
<1>3. Inv => SyslogHeader
  <2>1. ~(payload.ok /\ input.sink = "SYSLOG") => SyslogHeader
    BY Zenon DEF SyslogHeader
  <2> QED BY <2>1, AcceptedSyslog
<1> QED BY <1>1, <1>2, <1>3, PTL DEF PathSpec

----------------------------------------------------------------------------
(* Reading a string back: what the escapes of the encoder spell to StringAt *)

\* w stands in t behind the first a bytes.
At(t, a, w) ==
    /\ a \in Nat /\ a + Len(w) <= Len(t)
    /\ \A j \in 1 .. Len(w) : t[a + j] = w[j]

AtBoth(t, a, u, v) ==
    /\ At(t, a, u) /\ At(t, a + Len(u), v)
    /\ Len(u \o v) = Len(u) + Len(v) /\ a + Len(u \o v) = (a + Len(u)) + Len(v)

(* Where two texts stand, one behind the other, each of them does. *)
LEMMA AtParts ==
    ASSUME NEW t \in Seq(Byte), NEW a, NEW u \in Seq(Byte), NEW v \in Seq(Byte),
           At(t, a, u \o v)
    PROVE  AtBoth(t, a, u, v)
<1>1. /\ Len(u) \in Nat /\ Len(v) \in Nat /\ Len(t) \in Nat
      /\ Len(u \o v) = Len(u) + Len(v)
      /\ \A j \in 1 .. Len(u) : (u \o v)[j] = u[j]
      /\ \A j \in 1 .. Len(v) : (u \o v)[Len(u) + j] = v[j]
  BY LenProperties, ConcatProperties
<1> DEFINE w == u \o v
<1> HIDE DEF w
<1>2. /\ a \in Nat /\ a + Len(w) <= Len(t)
      /\ \A j \in 1 .. Len(w) : t[a + j] = w[j]
  BY DEF At, w
<1>3. ASSUME NEW j \in 1 .. Len(v) PROVE t[a + Len(u) + j] = v[j]
  <2>1. Len(u) + j \in 1 .. Len(w) /\ a + (Len(u) + j) = a + Len(u) + j
    BY <1>1, <1>2 DEF w
  <2>2. t[a + (Len(u) + j)] = w[Len(u) + j]
    BY <1>2, <2>1
  <2>3. w[Len(u) + j] = v[j]
    BY <1>1 DEF w
  <2> QED BY <2>1, <2>2, <2>3
<1>4. ASSUME NEW j \in 1 .. Len(u) PROVE t[a + j] = u[j]
  <2>1. j \in 1 .. Len(w)
    BY <1>1 DEF w
  <2> QED BY <1>1, <1>2, <2>1 DEF w
<1>5. /\ a + Len(u) <= Len(t) /\ a + Len(u) + Len(v) <= Len(t) /\ a + Len(u) \in Nat
      /\ a + Len(w) = (a + Len(u)) + Len(v)
  BY <1>1, <1>2 DEF w
<1>6. At(t, a, u) /\ At(t, a + Len(u), v)
  BY <1>2, <1>3, <1>4, <1>5 DEF At
<1> QED BY <1>1, <1>5, <1>6 DEF AtBoth, w

\* The bytes from t[k] on as the content of a string, h being what those behind
\* them give: the function inside StringAt.
Then(h, c, next) == [v |-> <<c>> \o h[next].v, next |-> h[next].next]
BodyFrom(t, h, k) ==
    IF k > Len(t) \/ (k <= Len(t) /\ t[k] < 32)
    THEN [v |-> << >>, next |-> 0]
    ELSE IF t[k] = Quote THEN [v |-> << >>, next |-> k + 1]
    ELSE IF t[k] # Backslash THEN Then(h, t[k], k + 1)
    ELSE LET e == t[k + 1] IN
         CASE e = 110 -> Then(h, Lf, k + 2)
           [] e = 114 -> Then(h, Cr, k + 2)
           [] e = 116 -> Then(h, Tab, k + 2)
           [] e = 117 -> Then(h, 16 * HexValue(t[k + 4]) + HexValue(t[k + 5]), k + 6)
           [] OTHER -> Then(h, e, k + 2)
IsBody(h, t, from) == h = [k \in from .. Len(t) + 6 |-> BodyFrom(t, h, k)]

(* Only what is behind a byte counts. *)
LEMMA BodyStep ==
    ASSUME NEW t, Len(t) \in Nat, NEW k \in Nat, NEW g, NEW h,
           \A x \in k + 1 .. Len(t) + 6 : h[x] = g[x]
    PROVE  BodyFrom(t, h, k) = BodyFrom(t, g, k)
<1>1. CASE k > Len(t)
  BY <1>1, Zenon DEF BodyFrom
<1>2. CASE ~(k > Len(t))
  <2>1. /\ k + 1 \in k + 1 .. Len(t) + 6 /\ k + 2 \in k + 1 .. Len(t) + 6
        /\ k + 6 \in k + 1 .. Len(t) + 6
    BY <1>2
  <2>2. h[k + 1] = g[k + 1] /\ h[k + 2] = g[k + 2] /\ h[k + 6] = g[k + 6]
    BY <2>1
  <2>3. \A c : /\ Then(h, c, k + 1) = Then(g, c, k + 1)
               /\ Then(h, c, k + 2) = Then(g, c, k + 2)
               /\ Then(h, c, k + 6) = Then(g, c, k + 6)
    BY <2>2, Zenon DEF Then
  <2> DEFINE e == t[k + 1]
             w == 16 * HexValue(t[k + 4]) + HexValue(t[k + 5])
             F(f) == IF t[k] # Backslash THEN Then(f, t[k], k + 1)
                     ELSE CASE e = 110 -> Then(f, Lf, k + 2)
                            [] e = 114 -> Then(f, Cr, k + 2)
                            [] e = 116 -> Then(f, Tab, k + 2)
                            [] e = 117 -> Then(f, w, k + 6)
                            [] OTHER -> Then(f, e, k + 2)
  <2>4. F(h) = F(g)
    <3> HIDE DEF e, w
    <3> QED BY <2>3
  <2>5. \A f : BodyFrom(t, f, k) = IF k > Len(t) \/ (k <= Len(t) /\ t[k] < 32)
                                   THEN [v |-> << >>, next |-> 0]
                                   ELSE IF t[k] = Quote THEN [v |-> << >>, next |-> k + 1]
                                   ELSE F(f)
    BY Zenon DEF BodyFrom
  <2> HIDE DEF F
  <2> QED BY <2>4, <2>5, Zenon
<1> QED BY <1>1, <1>2

(* StringAt is well defined: its recursion has a solution. *)
LEMMA BodyExists ==
    ASSUME NEW t \in Seq(Byte), NEW from \in Nat, from <= Len(t) + 6
    PROVE  \E h : IsBody(h, t, from)
<1> DEFINE L == Len(t) + 6
           Good(g, d) == g = [x \in L - d .. L |-> BodyFrom(t, g, x)]
           D == {d \in 0 .. L - from : ~\E g : Good(g, d)}
<1>1. L \in Nat /\ Len(t) \in Nat /\ from <= L /\ L - from \in 0 .. L - from
  BY LenProperties
<1>2. ASSUME L - from \in D
      PROVE  FALSE
  <2>1. PICK d \in D : \A x \in D : d <= x
    <3>1. D \subseteq Nat
      BY <1>1
    <3> HIDE DEF D
    <3> QED BY <1>2, <3>1, LeastIs
  <2>d. d \in 0 .. L - from /\ ~\E g : Good(g, d)
    BY <2>1
  <2> HIDE DEF L
  <2>2. PICK f : \A x \in L - d + 1 .. L : f[x] = BodyFrom(t, f, x)
    <3>1. CASE d = 0
      <4>1. L - d + 1 .. L = {}
        BY <1>1, <3>1
      <4> QED BY <4>1
    <3>2. CASE d # 0
      <4>1. d - 1 \in 0 .. L - from /\ ~(d <= d - 1) /\ L - (d - 1) = L - d + 1
        BY <1>1, <3>2, <2>d
      <4>2. PICK f : Good(f, d - 1)
        BY <2>1, <4>1
      <4> QED BY <4>1, <4>2
    <3> QED BY <3>1, <3>2
  <2> DEFINE b == L - d
             g == [x \in b .. L |-> IF x = b THEN BodyFrom(t, f, b) ELSE f[x]]
  <2>3. b \in from .. L /\ b \in b .. L /\ \A x \in b .. L : x = b \/ x \in b + 1 .. L
    BY <1>1, <2>d
  <2> HIDE DEF b
  <2>4. \A x \in b + 1 .. L : f[x] = BodyFrom(t, f, x)
    BY <2>2 DEF b
  <2>5. \A x \in b + 1 .. L : g[x] = f[x]
    BY <1>1, <2>3
  <2>6. g[b] = BodyFrom(t, f, b)
    BY <2>3
  <2>7. ASSUME NEW x \in b .. L
        PROVE  g[x] = BodyFrom(t, g, x)
    <3>1. x \in Nat /\ \A y \in x + 1 .. L : y \in b + 1 .. L
      BY <1>1, <2>3
    <3>2. \A y \in x + 1 .. Len(t) + 6 : g[y] = f[y]
      BY <2>5, <3>1 DEF L
    <3> HIDE DEF g
    <3>3. BodyFrom(t, g, x) = BodyFrom(t, f, x)
      BY <1>1, <3>1, <3>2, BodyStep
    <3>4. g[x] = BodyFrom(t, f, x)
      BY <2>3, <2>4, <2>5, <2>6
    <3> QED BY <3>3, <3>4
  <2>8. g = [x \in b .. L |-> BodyFrom(t, g, x)]
    <3> DEFINE H(x) == IF x = b THEN BodyFrom(t, f, b) ELSE f[x]
               K(x) == BodyFrom(t, g, x)
    <3>1. \A x \in b .. L : H(x) = K(x)
      BY <2>7
    <3>2. g = [x \in b .. L |-> H(x)]
      BY Zenon
    <3> HIDE DEF H, K, g
    <3>3. g = [x \in b .. L |-> K(x)]
      BY <3>1, <3>2
    <3> QED BY <3>3, Zenon DEF K
  <2>9. Good(g, d)
    <3> HIDE DEF g
    <3> QED BY <2>8, Zenon DEF b
  <2> QED BY <2>d, <2>9
<1>3. PICK h : Good(h, L - from)
  BY <1>1, <1>2
<1>4. L - (L - from) = from
  BY <1>1
<1> QED BY <1>3, <1>4 DEF IsBody

\* n is 0 or a place in a text of L bytes, or right behind it, that follows k.
Ahead(n, k, L) == n = 0 \/ n \in k + 1 .. L + 1

(* Where a text goes on after a string is behind the place where it began. *)
LEMMA BodyNext ==
    ASSUME NEW t \in Seq(Byte), NEW from \in Nat, NEW h, IsBody(h, t, from),
           NEW k \in from .. Len(t) + 6
    PROVE  Ahead(h[k].next, k, Len(t))
<1> DEFINE L == Len(t) + 6
           D == {d \in 0 .. L - k : ~Ahead(h[L - d].next, L - d, Len(t))}
<1>1. L \in Nat /\ Len(t) \in Nat /\ L - k \in Nat
  BY LenProperties
<1>2. \A x \in k .. L : h[x] = BodyFrom(t, h, x)
  <2>1. \A x \in from .. Len(t) + 6 : h[x] = BodyFrom(t, h, x)
    BY DEF IsBody
  <2>2. \A x \in k .. L : x \in from .. Len(t) + 6
    BY <1>1
  <2> QED BY <2>1, <2>2, Zenon
<1>3. ASSUME L - k \in D
      PROVE  FALSE
  <2>1. PICK d \in D : \A x \in D : d <= x
    <3>1. D \subseteq Nat
      BY <1>1
    <3> HIDE DEF D
    <3> QED BY <1>3, <3>1, LeastIs
  <2> DEFINE b == L - d
  <2>2. b \in k .. L /\ b \in Nat /\ d \in 0 .. L - k /\ ~Ahead(h[b].next, b, Len(t))
    BY <1>1, <2>1
  <2>3. ASSUME NEW x \in b + 1 .. L
        PROVE  Ahead(h[x].next, b, Len(t))
    <3>1. L - x \in 0 .. L - k /\ ~(d <= L - x) /\ L - (L - x) = x
      BY <1>1, <2>2
    <3>2. Ahead(h[x].next, x, Len(t))
      BY <2>1, <3>1
    <3> HIDE DEF b
    <3> QED BY <1>1, <2>2, <3>2 DEF Ahead
  <2> HIDE DEF b
  <2>4. h[b] = BodyFrom(t, h, b)
    BY <1>2, <2>2
  <2>5. b <= Len(t)
    <3>1. ASSUME b > Len(t) PROVE FALSE
      <4>1. h[b] = [v |-> << >>, next |-> 0]
        BY <2>4, <3>1, Zenon DEF BodyFrom
      <4> QED BY <2>2, <4>1 DEF Ahead
    <3> QED BY <1>1, <2>2, <3>1
  <2>6. /\ Ahead(h[b + 1].next, b, Len(t)) /\ Ahead(h[b + 2].next, b, Len(t))
        /\ Ahead(h[b + 6].next, b, Len(t)) /\ Ahead(b + 1, b, Len(t)) /\ Ahead(0, b, Len(t))
    <3>1. b + 1 \in b + 1 .. L /\ b + 2 \in b + 1 .. L /\ b + 6 \in b + 1 .. L
      BY <1>1, <2>2, <2>5
    <3>2. Ahead(b + 1, b, Len(t)) /\ Ahead(0, b, Len(t))
      BY <1>1, <2>2, <2>5 DEF Ahead
    <3> QED BY <2>3, <3>1, <3>2
  <2>7. \A c, x : Then(h, c, x).next = h[x].next
    BY DEF Then
  <2>8. Ahead(BodyFrom(t, h, b).next, b, Len(t))
    <3>1. CASE t[b] < 32
      <4>1. BodyFrom(t, h, b) = [v |-> << >>, next |-> 0]
        BY <2>5, <3>1, Zenon DEF BodyFrom
      <4> QED BY <2>6, <4>1
    <3>2. CASE ~(t[b] < 32) /\ t[b] = Quote
      <4>1. ~(b > Len(t))
        BY <1>1, <2>2, <2>5
      <4>2. BodyFrom(t, h, b) = [v |-> << >>, next |-> b + 1]
        BY <3>2, <4>1, Zenon DEF BodyFrom
      <4> QED BY <2>6, <4>2
    <3>3. CASE ~(t[b] < 32) /\ t[b] # Quote
      <4>1. ~(b > Len(t))
        BY <1>1, <2>2, <2>5
      <4>2. \E c : BodyFrom(t, h, b) \in {Then(h, c, b + 1), Then(h, c, b + 2), Then(h, c, b + 6)}
        <5> DEFINE e == t[b + 1]
                   w == 16 * HexValue(t[b + 4]) + HexValue(t[b + 5])
        <5> HIDE DEF e, w
        <5>1. BodyFrom(t, h, b) = IF t[b] # Backslash THEN Then(h, t[b], b + 1)
                 ELSE CASE e = 110 -> Then(h, Lf, b + 2)
                        [] e = 114 -> Then(h, Cr, b + 2)
                        [] e = 116 -> Then(h, Tab, b + 2)
                        [] e = 117 -> Then(h, w, b + 6)
                        [] OTHER -> Then(h, e, b + 2)
          BY <3>3, <4>1, Zenon DEF BodyFrom, e, w
        <5> QED BY <5>1
      <4> QED BY <2>6, <2>7, <4>2
    <3> QED BY <3>1, <3>2, <3>3
  <2> QED BY <2>2, <2>4, <2>8
<1>4. L - (L - k) = k /\ L - k \in 0 .. L - k
  BY <1>1
<1> QED BY <1>3, <1>4

\* h is the function inside StringAt, from t[a + 1] on.
BodyAt(h, t, a) == \A k \in a + 1 .. Len(t) + 6 : h[k] = BodyFrom(t, h, k)

\* The bytes e are the content s, whatever comes before and behind them.
Spelled(h, t, a, e, s) ==
    \A u \in Seq(Byte) :
        h[a + Len(e) + 1].v = u =>
            h[a + 1].v = s \o u /\ h[a + 1].next = h[a + Len(e) + 1].next
Spells(e, s) ==
    /\ e \in Seq(Byte) /\ s \in Seq(Byte)
    /\ \A h : \A t \in Seq(Byte), a \in Nat :
          BodyAt(h, t, a) /\ At(t, a, e) => Spelled(h, t, a, e, s)

(* Where e stands, the string goes on behind it and s comes before the rest. *)
LEMMA SpellsAt ==
    ASSUME NEW e, NEW s, Spells(e, s), NEW t \in Seq(Byte), NEW h, NEW a \in Nat,
           BodyAt(h, t, a), At(t, a, e)
    PROVE  Spelled(h, t, a, e, s)
  BY DEF Spells

(* Nothing spells the empty string. *)
LEMMA SpellsNothing == Spells(<< >>, << >>)
<1>1. << >> \in Seq(Byte) /\ Len(<< >>) = 0 /\ \A u \in Seq(Byte) : << >> \o u = u
  OBVIOUS
<1>2. ASSUME NEW t, NEW h, NEW a \in Nat
      PROVE  Spelled(h, t, a, << >>, << >>)
  <2>1. a + Len(<< >>) + 1 = a + 1
    BY <1>1
  <2> QED BY <1>1, <2>1 DEF Spelled
<1> QED BY <1>1, <1>2 DEF Spells

(* Spellings one after another spell the strings one after another. *)
LEMMA SpellsBoth ==
    ASSUME NEW e, NEW s, Spells(e, s), NEW f, NEW r, Spells(f, r)
    PROVE  Spells(e \o f, s \o r)
<1>1. /\ e \in Seq(Byte) /\ s \in Seq(Byte) /\ f \in Seq(Byte) /\ r \in Seq(Byte)
      /\ Len(e) \in Nat /\ Len(f) \in Nat
  BY LenProperties DEF Spells
<1>2. \A x, y \in Seq(Byte) : x \o y \in Seq(Byte)
  BY ConcatAt
<1>3. ASSUME NEW t \in Seq(Byte), NEW h, NEW a \in Nat, BodyAt(h, t, a), At(t, a, e \o f)
      PROVE  Spelled(h, t, a, e \o f, s \o r)
  <2> SUFFICES ASSUME NEW u \in Seq(Byte), h[a + Len(e \o f) + 1].v = u
               PROVE  /\ h[a + 1].v = (s \o r) \o u
                      /\ h[a + 1].next = h[a + Len(e \o f) + 1].next
    BY DEF Spelled
  <2> DEFINE b == a + Len(e)
  <2>1. At(t, a, e) /\ At(t, b, f) /\ a + Len(e \o f) = b + Len(f) /\ b \in Nat
    <3>1. b \in Nat
      BY <1>1
    <3>2. AtBoth(t, a, e, f)
      BY <1>1, <1>3, AtParts, Zenon
    <3> QED BY <3>1, <3>2, Zenon DEF AtBoth
  <2>2. BodyAt(h, t, b)
    <3>1. \A k \in b + 1 .. Len(t) + 6 : k \in a + 1 .. Len(t) + 6
      BY <1>1, LenProperties
    <3> QED BY <1>3, <3>1 DEF BodyAt
  <2> HIDE DEF b
  <2>3. Spelled(h, t, b, f, r) /\ Spelled(h, t, a, e, s)
    BY <1>3, <2>1, <2>2, SpellsAt, Zenon
  <2>4. h[b + 1].v = r \o u /\ h[b + 1].next = h[b + Len(f) + 1].next
    BY <2>1, <2>3 DEF Spelled
  <2>5. r \o u \in Seq(Byte) /\ s \o (r \o u) = (s \o r) \o u
    BY <1>1, <1>2
  <2>6. h[a + 1].v = s \o (r \o u) /\ h[a + 1].next = h[b + 1].next
    <3> DEFINE z == r \o u
    <3> HIDE DEF z
    <3>1. h[a + Len(e) + 1].v = z /\ z \in Seq(Byte)
      BY <2>4, <2>5 DEF z, b
    <3>2. h[a + 1].v = s \o z /\ h[a + 1].next = h[a + Len(e) + 1].next
      BY <2>3, <3>1 DEF Spelled
    <3> QED BY <3>2 DEF z, b
  <2>7. h[a + Len(e \o f) + 1].next = h[b + Len(f) + 1].next
    BY <2>1
  <2> QED BY <2>4, <2>5, <2>6, <2>7
<1>4. e \o f \in Seq(Byte) /\ s \o r \in Seq(Byte)
  BY <1>1, <1>2
<1> DEFINE x == e \o f
           y == s \o r
<1> HIDE DEF x, y
<1>5. Spells(x, y)
  BY <1>3, <1>4, Zenon DEF Spells, x, y
<1> QED BY <1>5 DEF x, y

\* Escaped, for any spelling of the escapes.
Escaping(c, n, r, t, u) ==
    CASE c = Backslash -> <<Backslash, Backslash>>
      [] c = Quote -> <<Backslash, Quote>>
      [] c = Lf -> n
      [] c = Cr -> r
      [] c = Tab -> t
      [] c < 32 /\ c \notin {Lf, Cr, Tab} -> u
      [] OTHER -> <<c>>

(* The escapes, with their bytes. *)
LEMMA EscapedAs ==
    ASSUME NEW c \in Byte
    PROVE  /\ c \in {Backslash, Quote} => Escaped(c) = <<Backslash, c>>
           /\ c = Lf => Escaped(c) = <<Backslash, 110>>
           /\ c = Cr => Escaped(c) = <<Backslash, 114>>
           /\ c = Tab => Escaped(c) = <<Backslash, 116>>
           /\ c < 32 /\ c \notin {Lf, Cr, Tab} =>
                 Escaped(c) = <<Backslash, 117, 48, 48>>
                                \o <<HexDigit(c \div 16), HexDigit(c % 16)>>
           /\ c \notin {Backslash, Quote, Lf, Cr, Tab} /\ ~(c < 32) => Escaped(c) = <<c>>
<1> DEFINE n == B("\\n")
           r == B("\\r")
           t == B("\\t")
           u == B("\\u00") \o <<HexDigit(c \div 16), HexDigit(c % 16)>>
<1>1. Escaped(c) = Escaping(c, n, r, t, u)
  BY Zenon DEF Escaped, Escaping
<1>2. /\ n = <<Backslash, 110>> /\ r = <<Backslash, 114>> /\ t = <<Backslash, 116>>
      /\ u = <<Backslash, 117, 48, 48>> \o <<HexDigit(c \div 16), HexDigit(c % 16)>>
  BY JsonSpelling, Zenon
<1> HIDE DEF n, r, t, u
<1>3. /\ c \in {Backslash, Quote} => Escaping(c, n, r, t, u) = <<Backslash, c>>
      /\ c = Lf => Escaping(c, n, r, t, u) = n
      /\ c = Cr => Escaping(c, n, r, t, u) = r
      /\ c = Tab => Escaping(c, n, r, t, u) = t
      /\ c < 32 /\ c \notin {Lf, Cr, Tab} => Escaping(c, n, r, t, u) = u
      /\ c \notin {Backslash, Quote, Lf, Cr, Tab} /\ ~(c < 32) =>
            Escaping(c, n, r, t, u) = <<c>>
  BY SMT DEF Escaping, Backslash, Quote, Lf, Cr, Tab, Byte
<1> QED BY <1>1, <1>2, <1>3

(* The escape of a byte is that byte. *)
\* The escape of a control character without a letter of its own is read.
BodySix(t, h, k, c) == BodyFrom(t, h, k) = Then(h, c, k + 6)

(* So it is. *)
LEMMA BodyUnicode ==
    ASSUME NEW t, NEW h, NEW k, ~(k > Len(t)), ~(t[k] < 32), t[k] # Quote, t[k] = Backslash,
           t[k + 1] = 117, NEW c, c = 16 * HexValue(t[k + 4]) + HexValue(t[k + 5])
    PROVE  BodySix(t, h, k, c)
<1>1. 117 # 110 /\ 117 # 114 /\ 117 # 116
  OBVIOUS
<1> DEFINE n == Then(h, Lf, k + 2)
           r == Then(h, Cr, k + 2)
           m == Then(h, Tab, k + 2)
           u == Then(h, c, k + 6)
           o == Then(h, t[k + 1], k + 2)
           e == t[k + 1]
<1>2. BodyFrom(t, h, k) =
        CASE e = 110 -> n [] e = 114 -> r [] e = 116 -> m [] e = 117 -> u [] OTHER -> o
  BY Zenon DEF BodyFrom
<1> HIDE DEF n, r, m, u, o
<1>3. e = 117
  OBVIOUS
<1> HIDE DEF e
<1>4. BodyFrom(t, h, k) = u
  BY <1>1, <1>2, <1>3
<1> QED BY <1>4, Zenon DEF u, BodySix

(* What the encoder makes of a byte spells the byte. *)
LEMMA SpellsEscaped ==
    ASSUME NEW c \in Byte
    PROVE  Spells(Escaped(c), <<c>>)
<1> DEFINE e == Escaped(c)
<1>1. e \in Seq(Byte) /\ <<c>> \in Seq(Byte)
  BY EscapedIs
<1>2. ASSUME NEW t \in Seq(Byte), NEW h, NEW a \in Nat, BodyAt(h, t, a), At(t, a, e)
      PROVE  BodyFrom(t, h, a + 1) = Then(h, c, a + Len(e) + 1) /\ e # << >>
  <2>1. CASE c = Backslash \/ c = Quote
    <3>1. e = <<Backslash, c>>
      BY <2>1, EscapedAs
    <3>2. t[a + 1] = Backslash /\ t[a + 2] = c /\ a + 2 <= Len(t) /\ Len(e) = 2
      BY <1>2, <3>1 DEF At
    <3> HIDE DEF e
    <3>3. /\ ~(a + 1 > Len(t)) /\ ~(t[a + 1] < 32) /\ t[a + 1] # Quote
          /\ a + 1 + 1 = a + 2 /\ a + 1 + 2 = a + Len(e) + 1
          /\ c # 110 /\ c # 114 /\ c # 116 /\ c # 117
      BY <2>1, <3>2, LenProperties DEF Backslash, Quote
    <3> QED BY <3>1, <3>2, <3>3 DEF BodyFrom
  <2>2. CASE c \in {Lf, Cr, Tab}
    <3> DEFINE m == IF c = Lf THEN 110 ELSE IF c = Cr THEN 114 ELSE 116
    <3>1. e = <<Backslash, m>>
      BY <2>2, EscapedAs DEF Lf, Cr, Tab
    <3> HIDE DEF e
    <3>2. t[a + 1] = Backslash /\ t[a + 2] = m /\ a + 2 <= Len(t) /\ Len(e) = 2
      BY <1>2, <3>1 DEF At
    <3>3. /\ ~(a + 1 > Len(t)) /\ ~(t[a + 1] < 32) /\ t[a + 1] # Quote
          /\ a + 1 + 1 = a + 2 /\ a + 1 + 2 = a + Len(e) + 1
      BY <2>2, <3>2, LenProperties DEF Backslash, Quote
    <3>4. BodyFrom(t, h, a + 1) = Then(h, c, a + 1 + 2)
      BY <2>2, <3>2, <3>3 DEF BodyFrom, Lf, Cr, Tab
    <3> QED BY <3>1, <3>3, <3>4
  <2>3. CASE c < 32 /\ c \notin {Lf, Cr, Tab}
    <3> DEFINE p == HexDigit(c \div 16)
               q == HexDigit(c % 16)
    <3>1. e = <<Backslash, 117, 48, 48>> \o <<p, q>>
      BY <2>3, EscapedAs, Zenon
    <3>2. c \in Nat /\ p \in 48 .. 102 /\ q \in 48 .. 102 /\ 16 * HexValue(p) + HexValue(q) = c
      <4>1. c \in 0 .. 31
        BY <2>3 DEF Byte
      <4>2. c \div 16 \in 0 .. 1 /\ c % 16 \in 0 .. 15 /\ c = 16 * (c \div 16) + (c % 16)
        BY <4>1
      <4>3. \A x \in 0 .. 15 : HexDigit(x) \in 48 .. 102 /\ HexValue(HexDigit(x)) = x
        BY DEF HexDigit, HexValue, Digit
      <4>4. c \div 16 \in 0 .. 15 /\ c \in Nat
        BY <4>1, <4>2
      <4> QED BY <4>2, <4>3, <4>4
    <3> HIDE DEF p, q, e
    <3> DEFINE x == <<Backslash, 117, 48, 48>>
               y == <<p, q>>
    <3>x. /\ x \in Seq(Byte) /\ y \in Seq(Byte) /\ Len(x) = 4 /\ Len(y) = 2
          /\ x[1] = Backslash /\ x[2] = 117 /\ y[1] = p /\ y[2] = q
      BY <3>2 DEF Byte, Backslash
    <3> HIDE DEF x, y
    <3>y. At(t, a, x \o y)
      BY <1>2, <3>1, Zenon DEF x, y
    <3>z. At(t, a, x) /\ At(t, a + Len(x), y) /\ Len(x \o y) = Len(x) + Len(y)
      <4>1. AtBoth(t, a, x, y)
        BY <3>x, <3>y, AtParts, Zenon
      <4> QED BY <4>1 DEF AtBoth
    <3>3. Len(e) = 6
      BY <3>1, <3>x, <3>z DEF x, y
    <3>4. /\ t[a + 1] = Backslash /\ t[a + 2] = 117 /\ t[a + 5] = p /\ t[a + 6] = q
          /\ a + 6 <= Len(t)
      <4>1. /\ \A j \in 1 .. 4 : t[a + j] = x[j] /\ a + 4 \in Nat
            /\ \A j \in 1 .. 2 : t[a + 4 + j] = y[j] /\ a + 4 + 2 <= Len(t)
        BY <3>x, <3>z DEF At
      <4>2. 1 \in 1 .. 4 /\ 2 \in 1 .. 4 /\ 1 \in 1 .. 2 /\ 2 \in 1 .. 2
            /\ a + 4 + 1 = a + 5 /\ a + 4 + 2 = a + 6
        OBVIOUS
      <4> QED BY <3>x, <4>1, <4>2
    <3>5. /\ ~(a + 1 > Len(t)) /\ ~(t[a + 1] < 32) /\ t[a + 1] # Quote
          /\ a + 1 + 1 = a + 2 /\ a + 1 + 6 = a + Len(e) + 1 /\ a + 1 + 4 = a + 5
          /\ a + 1 + 5 = a + 6
      BY <3>3, <3>4, LenProperties DEF Backslash, Quote
    <3>6. BodyFrom(t, h, a + 1) = Then(h, c, a + 1 + 6)
      <4> DEFINE k == a + 1
      <4>1. t[k + 1] = 117 /\ t[k + 4] = p /\ t[k + 5] = q
        BY <3>4, <3>5
      <4>2. c = 16 * HexValue(t[k + 4]) + HexValue(t[k + 5])
        BY <3>2, <4>1, Zenon
      <4>3. ~(k > Len(t)) /\ ~(t[k] < 32) /\ t[k] # Quote /\ t[k] = Backslash
        BY <3>4, <3>5, Zenon
      <4> HIDE DEF k
      <4>4. BodySix(t, h, k, c)
        BY <4>1, <4>2, <4>3, BodyUnicode
      <4> QED BY <4>4, Zenon DEF k, BodySix
    <3>7. e # << >>
      BY <3>3
    <3> QED BY <3>5, <3>6, <3>7
  <2>4. CASE c \notin {Backslash, Quote, Lf, Cr, Tab} /\ ~(c < 32)
    <3>1. e = <<c>>
      BY <2>4, EscapedAs, Zenon
    <3>2. t[a + 1] = c /\ a + 1 <= Len(t) /\ Len(e) = 1
      BY <1>2, <3>1 DEF At
    <3> HIDE DEF e
    <3>3. ~(a + 1 > Len(t)) /\ a + 1 + 1 = a + Len(e) + 1
      BY <3>2, LenProperties
    <3> QED BY <2>4, <3>1, <3>2, <3>3 DEF BodyFrom
  <2> QED BY <2>1, <2>2, <2>3, <2>4
<1>3. ASSUME NEW t \in Seq(Byte), NEW h, NEW a \in Nat, BodyAt(h, t, a), At(t, a, e)
      PROVE  Spelled(h, t, a, e, <<c>>)
  <2>1. a + 1 \in a + 1 .. Len(t) + 6
    BY <1>1, <1>3, LenProperties DEF At
  <2>2. h[a + 1] = Then(h, c, a + Len(e) + 1)
    BY <1>2, <1>3, <2>1 DEF BodyAt
  <2> HIDE DEF e
  <2> QED BY <2>2 DEF Then, Spelled
<1> HIDE DEF e
<1> QED BY <1>1, <1>3 DEF Spells, e

(* A text without special bytes is its own content. *)
LEMMA SpellsPlain ==
    ASSUME NEW s \in Seq(Byte), \A k \in 1 .. Len(s) : s[k] \notin MustEscape
    PROVE  Spells(s, s)
<1> DEFINE part(n) == SubSeq(s, 1, n)
           D == {n \in 0 .. Len(s) : ~Spells(part(n), part(n))}
<1>1. Len(s) \in Nat /\ part(Len(s)) = s /\ part(0) = << >>
  BY LenProperties
<1>2. ASSUME Len(s) \in D
      PROVE  FALSE
  <2>1. PICK n \in D : \A x \in D : n <= x
    <3>1. D \subseteq Nat
      BY <1>1
    <3> HIDE DEF D
    <3> QED BY <1>2, <3>1, LeastIs
  <2>2. n # 0
    BY <1>1, <2>1, SpellsNothing
  <2>3. n - 1 \in 0 .. Len(s) /\ ~(n <= n - 1) /\ n \in 1 .. Len(s)
    BY <1>1, <2>1, <2>2
  <2>4. Spells(part(n - 1), part(n - 1))
    BY <2>1, <2>3
  <2>5. part(n) = part(n - 1) \o <<s[n]>>
    BY <1>1, <2>3
  <2>6. s[n] \in Byte /\ s[n] \notin MustEscape
    BY <2>3, ElementOfSeq
  <2>7. Escaped(s[n]) = <<s[n]>>
    <3> DEFINE c == s[n]
    <3>c. c \in Byte /\ c \notin MustEscape
      BY <2>6
    <3> HIDE DEF c
    <3>1. c \notin {Backslash, Quote, Lf, Cr, Tab} /\ ~(c < 32)
      BY <3>c, SpecialIs DEF Special
    <3>2. Escaped(c) = <<c>>
      BY <3>c, <3>1, EscapedAs, Zenon
    <3> QED BY <3>2 DEF c
  <2>8. Spells(<<s[n]>>, <<s[n]>>)
    <3>1. Spells(Escaped(s[n]), <<s[n]>>)
      BY <2>6, SpellsEscaped
    <3> QED BY <2>7, <3>1, Zenon
  <2> HIDE DEF part
  <2>9. Spells(part(n), part(n))
    <3>1. Spells(part(n - 1) \o <<s[n]>>, part(n - 1) \o <<s[n]>>)
      BY <2>4, <2>8, SpellsBoth
    <3> QED BY <2>5, <3>1, Zenon
  <2> QED BY <2>1, <2>9
<1>3. Len(s) \in 0 .. Len(s)
  BY <1>1
<1> HIDE DEF part
<1>4. Spells(part(Len(s)), part(Len(s)))
  BY <1>2, <1>3, Zenon
<1> QED BY <1>1, <1>4, Zenon

(* A string is read from its opening quote. *)
LEMMA StringRead ==
    ASSUME NEW e, NEW s, Spells(e, s), NEW t \in Seq(Byte), NEW a, At(t, a, InQuotes(e))
    PROVE  /\ a \in Nat /\ t[a + 1] = Quote /\ a + Len(e) + 2 <= Len(t)
           /\ Len(InQuotes(e)) = Len(e) + 2
           /\ StringAt(t, a + 2).v = s
           /\ StringAt(t, a + 2).next = a + Len(e) + 3
<1>1. e \in Seq(Byte) /\ s \in Seq(Byte) /\ a \in Nat /\ Len(e) \in Nat /\ Len(t) \in Nat
  BY LenProperties DEF Spells, At
<1> DEFINE q == <<Quote>>
<1>2. q \in Seq(Byte) /\ Len(q) = 1 /\ q[1] = Quote
  BY DEF Quote, Byte
<1> HIDE DEF q
<1>3. /\ At(t, a, q) /\ At(t, a + 1, e) /\ At(t, a + 1 + Len(e), q)
      /\ Len(InQuotes(e)) = Len(e) + 2
  <2>1. InQuotes(e) = (q \o e) \o q /\ q \o e \in Seq(Byte) /\ Len(q \o e) = 1 + Len(e)
    BY <1>1, <1>2 DEF InQuotes, q
  <2> DEFINE z == q \o e
  <2> HIDE DEF z
  <2>2. AtBoth(t, a, z, q)
    <3>1. At(t, a, z \o q) /\ z \in Seq(Byte)
      BY <2>1, Zenon DEF z
    <3> QED BY <1>2, <3>1, AtParts, Zenon
  <2>3. AtBoth(t, a, q, e)
    <3>1. At(t, a, q \o e)
      BY <2>2, Zenon DEF AtBoth, z
    <3> QED BY <1>1, <1>2, <3>1, AtParts, Zenon
  <2>4. InQuotes(e) = z \o q /\ Len(z) = 1 + Len(e)
    BY <2>1, Zenon DEF z
  <2> QED BY <1>1, <1>2, <2>2, <2>3, <2>4 DEF AtBoth
<1>4. t[a + 1] = Quote /\ a + Len(e) + 2 <= Len(t) /\ t[a + 1 + Len(e) + 1] = Quote
  BY <1>1, <1>2, <1>3 DEF At
<1> DEFINE h == CHOOSE g : IsBody(g, t, a + 2)
<1>5. StringAt(t, a + 2) = h[a + 2]
  BY Zenon DEF StringAt, IsBody, BodyFrom, Then
<1>6. IsBody(h, t, a + 2)
  <2>1. a + 2 \in Nat /\ a + 2 <= Len(t) + 6
    BY <1>1, <1>4
  <2>2. \E g : IsBody(g, t, a + 2)
    BY <2>1, BodyExists
  <2> QED BY <2>2, Zenon
<1> HIDE DEF h
<1>7. BodyAt(h, t, a + 1)
  <2>1. a + 1 + 1 = a + 2
    BY <1>1
  <2>2. \A k \in a + 2 .. Len(t) + 6 : h[k] = BodyFrom(t, h, k)
    BY <1>6 DEF IsBody
  <2> QED BY <2>1, <2>2 DEF BodyAt
<1> DEFINE m == a + 1 + Len(e) + 1
<1>8. h[m].v = << >> /\ h[m].next = m + 1
  <2>1. m \in a + 1 + 1 .. Len(t) + 6 /\ ~(m > Len(t)) /\ ~(t[m] < 32) /\ t[m] = Quote
    BY <1>1, <1>4 DEF Quote
  <2> HIDE DEF m
  <2>2. h[m] = BodyFrom(t, h, m)
    BY <1>7, <2>1 DEF BodyAt
  <2>3. BodyFrom(t, h, m) = [v |-> << >>, next |-> m + 1]
    BY <2>1, Zenon DEF BodyFrom
  <2> QED BY <2>2, <2>3
<1>9. << >> \in Seq(Byte) /\ s \o << >> = s /\ m + 1 = a + Len(e) + 3 /\ a + 1 + 1 = a + 2
  BY <1>1, ConcatEmptySeq
<1>10. Spelled(h, t, a + 1, e, s)
  <2>1. a + 1 \in Nat
    BY <1>1
  <2> QED BY <1>3, <1>7, <2>1, SpellsAt, Zenon
<1>11. h[a + 1 + 1].v = s \o << >> /\ h[a + 1 + 1].next = h[a + 1 + Len(e) + 1].next
  BY <1>8, <1>9, <1>10 DEF Spelled
<1> QED BY <1>1, <1>3, <1>4, <1>5, <1>8, <1>9, <1>11

----------------------------------------------------------------------------
(* The text of pieces, one sequence after another *)

(* A flattening is determined by what is flattened. *)
LEMMA FlatUnique ==
    ASSUME NEW S, NEW n \in Nat, NEW q, NEW f, Flat(f, q, n, S), NEW g, Flat(g, q, n, S)
    PROVE  \A k \in 0 .. n : f[k] = g[k]
<1> DEFINE D == {k \in 0 .. n : f[k] # g[k]}
<1>1. ASSUME D # {} PROVE FALSE
  <2>1. PICK k \in D : \A x \in D : k <= x
    <3>1. D \subseteq Nat
      OBVIOUS
    <3> HIDE DEF D
    <3> QED BY <1>1, <3>1, LeastIs
  <2>2. k # 0
    BY DEF Flat
  <2>3. k - 1 \in 0 .. n /\ ~(k <= k - 1) /\ k \in 1 .. n
    BY <2>2
  <2>4. f[k - 1] = g[k - 1]
    BY <2>1, <2>3
  <2>5. f[k] = f[k - 1] \o q[k] /\ g[k] = g[k - 1] \o q[k]
    BY <2>3 DEF Flat
  <2> QED BY <2>4, <2>5
<1> QED BY <1>1

(* Two lists, one behind the other. *)
LEMMA FlattenBoth ==
    ASSUME NEW S, NEW p \in Seq(Seq(S)), NEW q \in Seq(Seq(S))
    PROVE  /\ FlattenSeq(p \o q) = FlattenSeq(p) \o FlattenSeq(q)
           /\ FlattenSeq(p) \in Seq(S)
<1> DEFINE m == Len(p)
           n == Len(q)
           r == p \o q
           T == Seq(S)
<1>0. p \in Seq(T) /\ q \in Seq(T)
  OBVIOUS
<1>1. /\ m \in Nat /\ n \in Nat /\ r \in Seq(T) /\ Len(r) = m + n /\ m + n \in Nat
      /\ \A k \in 1 .. m : r[k] = p[k]
      /\ \A k \in 1 .. n : r[m + k] = q[k]
      /\ \A k \in 1 .. m : p[k] \in T
      /\ \A k \in 1 .. n : q[k] \in T
  <2> HIDE DEF T
  <2> QED BY <1>0, LenProperties, ConcatAt, ElementOfSeq
<1>2. PICK f : Flat(f, p, m, S) /\ FlattenSeq(p) = f[m]
  BY FlattenIs
<1>3. PICK g : Flat(g, q, n, S) /\ FlattenSeq(q) = g[n]
  BY FlattenIs
<1>4. PICK h : Flat(h, r, m + n, S) /\ FlattenSeq(r) = h[m + n]
  <2>1. r \in Seq(Seq(S))
    BY <1>1
  <2> HIDE DEF r
  <2> QED BY <1>1, <2>1, FlattenIs
<1> HIDE DEF m, n, r
<1>5. /\ f \in [0 .. m -> T] /\ f[0] = << >> /\ \A k \in 1 .. m : f[k] = f[k - 1] \o p[k]
      /\ g \in [0 .. n -> T] /\ g[0] = << >> /\ \A k \in 1 .. n : g[k] = g[k - 1] \o q[k]
  BY <1>2, <1>3 DEF Flat
<1>6. f[m] \in T /\ \A k \in 0 .. n : g[k] \in T
  BY <1>1, <1>5
<1> DEFINE c == f[m]
           G(k) == c \o g[k - m]
           w == [k \in 0 .. m + n |-> IF k <= m THEN f[k] ELSE G(k)]
<1> HIDE DEF c
<1>7. c \in Seq(S) /\ \A x, y \in Seq(S) : x \o y \in Seq(S)
  BY <1>6, Joins DEF c
<1>8. c \o << >> = c /\ \A x, y \in Seq(S) : c \o (x \o y) = (c \o x) \o y
  BY <1>7, ConcatEmptySeq, ConcatAssociative
<1>9. ASSUME NEW k \in 0 .. m + n
      PROVE  w[k] \in Seq(S) /\ (k >= m => w[k] = c \o g[k - m])
  <2>1. CASE k < m
    <3>1. k \in 0 .. m /\ k <= m /\ ~(k >= m)
      BY <1>1, <2>1
    <3> QED BY <1>5, <3>1
  <2>2. CASE k = m
    <3>1. k \in 0 .. m /\ k <= m /\ k - m = 0
      BY <1>1, <2>2
    <3>2. w[k] = c
      BY <2>2, <3>1 DEF c
    <3> QED BY <1>5, <1>7, <1>8, <3>1, <3>2
  <2>3. CASE k > m
    <3>1. ~(k <= m) /\ k - m \in 0 .. n
      BY <1>1, <2>3
    <3>2. g[k - m] \in Seq(S)
      BY <1>6, <3>1
    <3>3. w[k] = c \o g[k - m]
      BY <3>1
    <3> QED BY <1>7, <3>2, <3>3
  <2>4. k < m \/ k = m \/ k > m
    BY <1>1
  <2> QED BY <2>1, <2>2, <2>3, <2>4, Zenon
<1>10. ASSUME NEW k \in 1 .. m + n
       PROVE  w[k] = w[k - 1] \o r[k]
  <2>1. CASE k <= m
    <3>1. k \in 1 .. m /\ k - 1 <= m /\ k - 1 \in 0 .. m + n /\ k \in 0 .. m + n
      BY <1>1, <2>1
    <3>2. w[k] = f[k] /\ w[k - 1] = f[k - 1] /\ r[k] = p[k]
      BY <1>1, <2>1, <3>1
    <3> QED BY <1>5, <3>1, <3>2
  <2>2. CASE ~(k <= m)
    <3>1. /\ k - m \in 1 .. n /\ k - 1 \in 0 .. m + n /\ k \in 0 .. m + n /\ k >= m
          /\ k - 1 >= m /\ (k - 1) - m = (k - m) - 1 /\ m + (k - m) = k
          /\ k - m - 1 \in 0 .. n
      BY <1>1, <2>2
    <3>2. w[k] = c \o g[k - m] /\ w[k - 1] = c \o g[(k - m) - 1]
      BY <1>9, <3>1
    <3>3. r[k] = q[k - m] /\ q[k - m] \in Seq(S) /\ g[(k - m) - 1] \in Seq(S)
      BY <1>1, <1>6, <3>1
    <3>4. g[k - m] = g[(k - m) - 1] \o q[k - m]
      BY <1>5, <3>1
    <3> DEFINE x == g[(k - m) - 1]
               y == q[k - m]
    <3> HIDE DEF x, y, w
    <3>5. c \o (x \o y) = (c \o x) \o y
      BY <1>8, <3>3 DEF x, y
    <3> QED BY <3>2, <3>3, <3>4, <3>5 DEF x, y
  <2> QED BY <2>1, <2>2
<1>11. w[0] = << >>
  BY <1>1, <1>5
<1>12. w \in [0 .. m + n -> Seq(S)]
  BY <1>9
<1> HIDE DEF w
<1>13. Flat(w, r, m + n, S)
  BY <1>10, <1>11, <1>12 DEF Flat
<1>14. m + n \in 0 .. m + n /\ m + n >= m /\ (m + n) - m = n
  BY <1>1
<1>15. h[m + n] = w[m + n]
  BY <1>1, <1>4, <1>13, <1>14, FlatUnique
<1>16. w[m + n] = c \o g[n]
  BY <1>9, <1>14
<1> QED BY <1>2, <1>3, <1>4, <1>6, <1>15, <1>16 DEF c, r

(* A list of one, and an empty list. *)
LEMMA FlattenFew ==
    ASSUME NEW S, NEW x \in Seq(S)
    PROVE  FlattenSeq(<<x>>) = x /\ FlattenSeq(<< >>) = << >>
<1>1. << >> \in Seq(Seq(S)) /\ <<x>> \in Seq(Seq(S)) /\ Len(<<x>>) = 1 /\ Len(<< >>) = 0
  OBVIOUS
<1>2. PICK f : Flat(f, <<x>>, 1, S) /\ FlattenSeq(<<x>>) = f[1]
  <2> DEFINE q == <<x>>
  <2> HIDE DEF q
  <2>1. q \in Seq(Seq(S)) /\ Len(q) = 1
    BY <1>1 DEF q
  <2>2. \E f : Flat(f, q, Len(q), S) /\ FlattenSeq(q) = f[Len(q)]
    BY <2>1, FlattenIs
  <2> QED BY <2>1, <2>2, Zenon DEF q
<1>3. f[1] = x
  <2>1. f[0] = << >> /\ f[1] = f[1 - 1] \o <<x>>[1]
    BY <1>2 DEF Flat
  <2>2. f[1] = << >> \o x
    BY <2>1
  <2> QED BY <2>2, ConcatEmptySeq
<1>4. FlattenSeq(<< >>) = << >>
  <2> DEFINE q == << >>
  <2>1. q \in Seq(Seq(S)) /\ Len(q) = 0
    OBVIOUS
  <2> HIDE DEF q
  <2>2. PICK g : Flat(g, q, Len(q), S) /\ FlattenSeq(q) = g[Len(q)]
    BY <2>1, FlattenIs
  <2> QED BY <2>1, <2>2 DEF Flat, q
<1> QED BY <1>2, <1>3, <1>4

\* The strings among pieces.
Strings(p) == [k \in DOMAIN p |-> IF p[k] = Null THEN << >> ELSE p[k]]

(* The strings of pieces, one for each. *)
LEMMA StringsAre ==
    ASSUME NEW p \in Seq(Piece)
    PROVE  Strings(p) \in Seq(Seq(Byte)) /\ Len(Strings(p)) = Len(p)
<1> DEFINE P == Seq(Byte)
           F(k) == IF p[k] = Null THEN << >> ELSE p[k]
<1>1. /\ DOMAIN p = 1 .. Len(p) /\ Len(p) \in Nat
      /\ \A k \in 1 .. Len(p) : p[k] = Null \/ p[k] \in P
  BY DEF Piece
<1>2. \A k \in 1 .. Len(p) : F(k) \in P
  <2>1. << >> \in P
    OBVIOUS
  <2> HIDE DEF P
  <2> QED BY <1>1, <2>1
<1>3. Strings(p) = [k \in 1 .. Len(p) |-> F(k)]
  BY <1>1, Zenon DEF Strings
<1> HIDE DEF F, P
<1>4. Strings(p) \in Seq(P) /\ Len(Strings(p)) = Len(p)
  BY <1>1, <1>2, <1>3
<1> QED BY <1>4 DEF P

(* The texts of two lists of pieces, one behind the other. *)
LEMMA JoinedBoth ==
    ASSUME NEW p \in Seq(Piece), NEW q \in Seq(Piece)
    PROVE  /\ Joined(p \o q) = Joined(p) \o Joined(q)
           /\ Joined(p) \in Seq(Byte) /\ Joined(q) \in Seq(Byte) /\ p \o q \in Seq(Piece)
<1> DEFINE s == Strings(p)
           t == Strings(q)
           r == p \o q
           m == Len(p)
           n == Len(q)
<1>1. /\ s \in Seq(Seq(Byte)) /\ Len(s) = m /\ t \in Seq(Seq(Byte)) /\ Len(t) = n
      /\ r \in Seq(Piece) /\ Len(r) = m + n /\ m \in Nat /\ n \in Nat
      /\ \A k \in 1 .. m : r[k] = p[k]
      /\ \A k \in 1 .. n : r[m + k] = q[k]
  BY StringsAre, ConcatAt, LenProperties
<1>2. DOMAIN p = 1 .. m /\ DOMAIN q = 1 .. n /\ DOMAIN r = 1 .. m + n
  BY <1>1, LenProperties
<1> DEFINE K(x) == IF x = Null THEN << >> ELSE x
<1>3. /\ \A k \in 1 .. m : s[k] = K(p[k])
      /\ \A k \in 1 .. n : t[k] = K(q[k])
      /\ \A k \in 1 .. m + n : Strings(r)[k] = K(r[k])
  BY <1>2 DEF Strings
<1> HIDE DEF s, t, r, m, n, K
<1>4. Strings(r) \in Seq(Seq(Byte)) /\ Len(Strings(r)) = m + n
  BY <1>1, StringsAre
<1> DEFINE u == Strings(r)
           v == s \o t
<1>5. /\ v \in Seq(Seq(Byte)) /\ Len(v) = m + n
      /\ \A k \in 1 .. m : v[k] = s[k]
      /\ \A k \in 1 .. n : v[m + k] = t[k]
  <2> DEFINE T == Seq(Byte)
  <2> HIDE DEF T
  <2>1. s \in Seq(T) /\ t \in Seq(T)
    BY <1>1 DEF T
  <2>2. /\ v \in Seq(T) /\ Len(v) = Len(s) + Len(t)
        /\ \A k \in 1 .. Len(s) : v[k] = s[k]
        /\ \A k \in 1 .. Len(t) : v[Len(s) + k] = t[k]
    BY <2>1, ConcatAt
  <2> QED BY <1>1, <2>2 DEF T
<1>6. ASSUME NEW k \in 1 .. m + n PROVE u[k] = v[k]
  <2>1. CASE k \in 1 .. m
    BY <1>1, <1>3, <1>5, <2>1
  <2>2. CASE k \notin 1 .. m
    <3>1. k - m \in 1 .. n /\ m + (k - m) = k
      BY <1>1, <2>2
    <3>2. v[k] = t[k - m] /\ r[k] = q[k - m]
      BY <1>1, <1>5, <3>1
    <3> QED BY <1>3, <3>1, <3>2
  <2> QED BY <2>1, <2>2
<1> HIDE DEF u, v
<1>7. u = v
  <2>1. u = [k \in 1 .. m + n |-> u[k]] /\ v = [k \in 1 .. m + n |-> v[k]]
    BY <1>4, <1>5 DEF u
  <2> QED BY <1>6, <2>1
<1>8. /\ Joined(p) = FlattenSeq(s) /\ Joined(q) = FlattenSeq(t) /\ Joined(r) = FlattenSeq(u)
  BY Zenon DEF Joined, Strings, s, t, u
<1>9. FlattenSeq(v) = FlattenSeq(s) \o FlattenSeq(t)
  BY <1>1, FlattenBoth DEF v
<1>10. FlattenSeq(s) \in Seq(Byte) /\ FlattenSeq(t) \in Seq(Byte)
  BY <1>1, FlattenBoth
<1> QED BY <1>1, <1>7, <1>8, <1>9, <1>10 DEF r

(* The text of one piece, and of none. *)
LEMMA JoinedFew ==
    ASSUME NEW x \in Seq(Byte)
    PROVE  Joined(<<x>>) = x /\ Joined(<< >>) = << >> /\ <<x>> \in Seq(Piece)
<1>1. <<x>> \in Seq(Piece) /\ << >> \in Seq(Piece) /\ Len(<<x>>) = 1
  BY DEF Piece
<1>2. Joined(<<x>>) = x
  <2> DEFINE p == <<x>>
  <2> HIDE DEF p
  <2>1. p \in Seq(Piece) /\ Len(p) = 1 /\ p[1] = x
    BY <1>1 DEF p
  <2>2. Joined(p) = IF p[1] = Null THEN << >> ELSE p[1]
    BY <2>1, JoinedIs
  <2> QED BY <2>1, <2>2, NullConstant DEF p
<1>3. Joined(<< >>) = << >>
  <2>1. Joined(<< >>) = FlattenSeq(Strings(<< >>))
    BY Zenon DEF Joined, Strings
  <2>2. Strings(<< >>) = << >>
    BY DEF Strings
  <2>3. FlattenSeq(<< >>) = << >>
    BY FlattenFew
  <2> QED BY <2>1, <2>2, <2>3
<1> QED BY <1>1, <1>2, <1>3

----------------------------------------------------------------------------
(* What the encoder prints of a copied string reads back as the string *)

(* One turn of ij_builder_append_escaped_string_n. *)
LEMMA EscapeStepSpells ==
    ASSUME NEW cpu, NEW s \in Seq(Byte), NEW from \in 0 .. Len(s), NEW g,
           \A x \in from + 1 .. Len(s) :
              g[x] \in Seq(Piece) /\ Spells(Joined(g[x]), From(s, x))
    PROVE  Spells(Joined(EscapedFrom(cpu, s, g, from)), From(s, from))
<1> DEFINE L == Len(s)
           at == NextSpecial(cpu, s, from)
           run == Run(cpu, s, from)
           plain == SubSeq(s, from + 1, at)
<1>1. L \in Nat /\ at \in from .. L /\ run \in Seq(Piece) /\ plain \in Seq(Byte)
  BY RunIs, PartIs, LenProperties
<1>2. /\ \A k \in from + 1 .. at : s[k] \notin MustEscape
      /\ run = IF at > from THEN <<plain>> ELSE << >>
  <2> DEFINE r == From(s, from)
             next == json_escape_find_first_special(cpu, r)
  <2>1. /\ r \in Seq(Byte) /\ Len(r) = L - from
        /\ \A k \in 1 .. L - from : r[k] = s[from + k]
    <3>1. r = SubSeq(s, from + 1, Len(s)) /\ 0 \in 0 .. Len(s) - from
      BY <1>1 DEF From
    <3> HIDE DEF r
    <3> QED BY <3>1, EndOfEnd
  <2>2. IsFirst(r, next, MustEscape)
    <3> HIDE DEF r
    <3> QED BY <2>1, EscapeScanExact
  <2>3. at = from + next /\ run = IF next > 0 THEN <<plain>> ELSE << >>
    BY Zenon DEF NextSpecial, Run
  <2> HIDE DEF r, next, at, run, plain
  <2>4. next \in 0 .. L - from /\ \A k \in 1 .. next : r[k] \notin MustEscape
    BY <2>1, <2>2 DEF IsFirst
  <2>5. ASSUME NEW k \in from + 1 .. at PROVE s[k] \notin MustEscape
    <3>1. k - from \in 1 .. next /\ k - from \in 1 .. L - from /\ from + (k - from) = k
      BY <1>1, <2>3, <2>4
    <3> QED BY <2>1, <2>4, <3>1
  <2>6. at > from <=> next > 0
    BY <2>3, <2>4
  <2> QED BY <2>3, <2>5, <2>6
<1> HIDE DEF run, at
<1>3. /\ Len(plain) = at - from /\ \A k \in 1 .. at - from : plain[k] = s[from + k]
  <2>1. plain = [k \in 1 .. 1 + at - (from + 1) |-> s[(from + 1) + k - 1]]
    BY <1>1, SubSeqIs
  <2>2. 1 + at - (from + 1) = at - from /\ at - from \in Nat
        /\ \A k \in Nat : (from + 1) + k - 1 = from + k
    BY <1>1
  <2> HIDE DEF plain
  <2> QED BY <2>1, <2>2
<1> HIDE DEF plain
<1>4. Spells(plain, plain)
  <2>1. ASSUME NEW k \in 1 .. Len(plain) PROVE plain[k] \notin MustEscape
    <3>1. k \in 1 .. at - from /\ from + k \in from + 1 .. at
      BY <1>1, <1>3
    <3> QED BY <1>2, <1>3, <3>1
  <2> QED BY <1>1, <2>1, SpellsPlain
<1>5. Joined(run) = plain
  <2>1. CASE at > from
    BY <1>1, <1>2, <2>1, JoinedFew
  <2>2. CASE ~(at > from)
    <3>1. at - from = 0
      BY <1>1, <2>2
    <3>2. plain = << >>
      BY <1>1, <1>3, <3>1, EmptySeq
    <3>3. Joined(<< >>) = << >>
      BY <1>1, JoinedFew
    <3> QED BY <1>2, <2>2, <3>2, <3>3
  <2> QED BY <2>1, <2>2
<1> DEFINE e == EscapedFrom(cpu, s, g, from)
<1>6. CASE from = L
  <2>1. From(s, from) = << >>
    BY <1>1, <1>6 DEF From
  <2>2. e = << >>
    BY <1>6, Zenon DEF EscapedFrom
  <2>3. Joined(<< >>) = << >>
    BY <1>1, JoinedFew
  <2> QED BY <2>1, <2>2, <2>3, SpellsNothing, Zenon
<1>7. CASE from # L /\ at = L
  <2>1. From(s, from) = plain
    BY <1>7, Zenon DEF From, plain
  <2>2. e = run
    BY <1>7, Zenon DEF EscapedFrom, run, at
  <2> QED BY <1>4, <1>5, <2>1, <2>2, Zenon
<1>8. CASE from # L /\ at # L
  <2> DEFINE c == s[at + 1]
             x == <<Escaped(c)>>
             y == g[at + 1]
  <2>1. at + 1 \in from + 1 .. L /\ at + 1 \in 1 .. L
    BY <1>1, <1>8
  <2>2. c \in Byte /\ y \in Seq(Piece) /\ Spells(Joined(y), From(s, at + 1))
    BY <2>1, ElementOfSeq
  <2>3. Spells(Escaped(c), <<c>>) /\ Escaped(c) \in Seq(Byte)
    BY <2>2, SpellsEscaped, EscapedIs
  <2>4. x \in Seq(Piece) /\ Joined(x) = Escaped(c)
    BY <2>3, JoinedFew
  <2>5. e = (run \o x) \o y
    BY <1>8, Zenon DEF EscapedFrom, run, at
  <2> HIDE DEF x, y, c
  <2>6. Joined((run \o x) \o y) = (plain \o Escaped(c)) \o Joined(y)
    <3>1. Joined(run \o x) = Joined(run) \o Joined(x) /\ run \o x \in Seq(Piece)
      BY <1>1, <2>4, JoinedBoth
    <3>2. Joined((run \o x) \o y) = Joined(run \o x) \o Joined(y)
      BY <2>2, <3>1, JoinedBoth
    <3> QED BY <1>5, <2>4, <3>1, <3>2
  <2>7. From(s, from) = (plain \o <<c>>) \o From(s, at + 1)
    <3>1. /\ from + 1 \in 1 .. Len(s) + 1 /\ at \in (from + 1) - 1 .. Len(s)
          /\ at + 1 \in at .. Len(s) /\ at \in Nat /\ from + 1 \in Nat
          /\ at + 1 \in (from + 1) - 1 .. Len(s) /\ Len(s) \in at + 1 .. Len(s)
      BY <1>1, <2>1
    <3>2. SubSeq(s, from + 1, at) \o SubSeq(s, at + 1, at + 1) = SubSeq(s, from + 1, at + 1)
      BY <3>1, ConcatAdjacentSubSeq
    <3>3. SubSeq(s, from + 1, at + 1) \o SubSeq(s, (at + 1) + 1, Len(s))
            = SubSeq(s, from + 1, Len(s))
      BY <3>1, ConcatAdjacentSubSeq
    <3>4. SubSeq(s, at + 1, at + 1) = <<c>>
      <4> DEFINE n == at + 1
      <4>1. n \in 1 .. Len(s) /\ n \in Nat
        BY <1>1, <2>1
      <4> HIDE DEF n
      <4>2. SubSeq(s, n, n) = [k \in 1 .. 1 + n - n |-> s[n + k - 1]]
        BY <4>1, SubSeqIs
      <4>3. 1 + n - n = 1 /\ n + 1 - 1 = n
        BY <4>1
      <4>4. SubSeq(s, n, n) = <<s[n]>>
        BY <4>2, <4>3
      <4> QED BY <4>4 DEF n, c
    <3> QED BY <3>2, <3>3, <3>4, Zenon DEF From, plain
  <2>8. Spells(plain \o Escaped(c), plain \o <<c>>)
    BY <1>4, <2>3, SpellsBoth
  <2>9. Spells((plain \o Escaped(c)) \o Joined(y), (plain \o <<c>>) \o From(s, at + 1))
    BY <2>2, <2>8, SpellsBoth
  <2> QED BY <2>5, <2>6, <2>7, <2>9, Zenon
<1> QED BY <1>6, <1>7, <1>8

(* All of them. *)
LEMMA EscapedSpells ==
    ASSUME NEW cpu, NEW s \in Seq(Byte)
    PROVE  Spells(Joined(append_escaped_string_n(cpu, s)), s)
<1> DEFINE L == Len(s)
           g == CHOOSE f : f = [from \in 0 .. L |-> EscapedFrom(cpu, s, f, from)]
           Fine(x) == g[x] \in Seq(Piece) /\ Spells(Joined(g[x]), From(s, x))
<1>1. L \in Nat /\ From(s, 0) = s
  BY LenProperties DEF From
<1>2. append_escaped_string_n(cpu, s) = g[0]
  BY DEF append_escaped_string_n, EscapedFrom, NextSpecial, Run
<1>3. g = [from \in 0 .. L |-> EscapedFrom(cpu, s, g, from)]
  BY EscapesExist
<1> HIDE DEF g
<1>4. \A from \in 0 .. L : g[from] = EscapedFrom(cpu, s, g, from)
  BY <1>3
<1> DEFINE D == {d \in 0 .. L : ~Fine(L - d)}
<1>5. ASSUME L \in D
      PROVE  FALSE
  <2>1. PICK d \in D : \A x \in D : d <= x
    <3>1. D \subseteq Nat
      BY <1>1
    <3> HIDE DEF D
    <3> QED BY <1>5, <3>1, LeastIs
  <2> DEFINE b == L - d
  <2> HIDE DEF Fine
  <2>2. b \in 0 .. L /\ ~Fine(b)
    BY <1>1, <2>1
  <2>3. ASSUME NEW x \in b + 1 .. L
        PROVE  Fine(x)
    <3>1. L - x \in 0 .. L /\ ~(d <= L - x) /\ L - (L - x) = x
      BY <1>1
    <3> QED BY <2>1, <3>1
  <2> HIDE DEF b
  <2>4. EscapedFrom(cpu, s, g, b) \in Seq(Piece)
    BY <2>2, <2>3, EscapeStep DEF Fine
  <2>5. Spells(Joined(EscapedFrom(cpu, s, g, b)), From(s, b))
    BY <2>2, <2>3, EscapeStepSpells DEF Fine
  <2> QED BY <1>4, <2>2, <2>4, <2>5 DEF Fine
<1>6. L - L = 0 /\ L \in 0 .. L
  BY <1>1
<1>7. Fine(0)
  <2> HIDE DEF Fine
  <2> QED BY <1>5, <1>6
<1> QED BY <1>1, <1>2, <1>7

\* An owned string that says rightly whether it needs escapes.
Sound(o) ==
    /\ o.text \in Seq(Byte)
    /\ ~o.escape => \A k \in 1 .. Len(o.text) : o.text[k] \notin MustEscape

\* The pieces p are a string in quotes with the content s.
QuotedAs(p, s) ==
    p \in Seq(Piece) /\ \E e : Spells(e, s) /\ Joined(p) = InQuotes(e)

(* A string with its flag is printed as itself, in quotes. *)
LEMMA StringQuoted ==
    ASSUME NEW cpu, NEW o, Sound(o)
    PROVE  QuotedAs(append_json_string_known_escape(cpu, o), o.text)
<1> DEFINE q == <<Quote>>
           Q == <<q>>
           s == o.text
<1>1. s \in Seq(Byte) /\ q \in Seq(Byte)
  BY DEF Sound, Quote, Byte
<1>2. Q \in Seq(Piece) /\ Joined(Q) = q
  BY <1>1, JoinedFew
<1>3. CASE o.escape
  <2> DEFINE m == append_escaped_string_n(cpu, s)
             e == Joined(m)
  <2>1. m \in Seq(Piece) /\ Spells(e, s)
    BY <1>1, EscapedStringIs, EscapedSpells
  <2> HIDE DEF m, q, Q
  <2>2. Joined(Q \o m) = q \o e /\ Q \o m \in Seq(Piece)
    BY <1>2, <2>1, JoinedBoth
  <2>3. Joined((Q \o m) \o Q) = (q \o e) \o q /\ (Q \o m) \o Q \in Seq(Piece)
    BY <1>2, <2>2, JoinedBoth
  <2>4. append_json_string_known_escape(cpu, o) = (Q \o m) \o Q
    BY <1>3, Zenon DEF append_json_string_known_escape, m, Q, q
  <2>5. (q \o e) \o q = InQuotes(e)
    BY Zenon DEF InQuotes, q
  <2> HIDE DEF e
  <2> QED BY <2>1, <2>3, <2>4, <2>5, Zenon DEF QuotedAs
<1>4. CASE ~o.escape
  <2> DEFINE z == q \o s \o q
  <2>1. Spells(s, s)
    BY <1>1, <1>4, SpellsPlain DEF Sound
  <2>2. append_json_string_known_escape(cpu, o) = <<z>>
    BY <1>4, Zenon DEF append_json_string_known_escape
  <2>3. z = InQuotes(s)
    BY Zenon DEF InQuotes
  <2>4. z \in Seq(Byte)
    BY <1>1, Joins
  <2> HIDE DEF z, s
  <2>5. <<z>> \in Seq(Piece) /\ Joined(<<z>>) = z
    BY <2>4, JoinedFew
  <2> QED BY <2>1, <2>2, <2>3, <2>5, Zenon DEF QuotedAs, s
<1> QED BY <1>3, <1>4

\* The pieces p are a key: a string with the content s, and a colon.
KeyAs(p, s) ==
    p \in Seq(Piece) /\ \E e : Spells(e, s) /\ Joined(p) = InQuotes(e) \o <<58>>

(* So is a key, and its colon. *)
LEMMA KeyQuoted ==
    ASSUME NEW cpu, NEW o, Sound(o)
    PROVE  KeyAs(append_json_key_known_escape(cpu, o), o.text)
<1> DEFINE q == <<Quote>>
           s == o.text
           m == append_json_string_known_escape(cpu, o)
           k == append_json_key_known_escape(cpu, o)
           n == B(":")
<1>1. s \in Seq(Byte) /\ q \in Seq(Byte)
  BY DEF Sound, Quote, Byte
<1>2. n = <<58>> /\ n \in Seq(Byte)
  <2>1. n = <<58>>
    BY TimeLiterals, Zenon
  <2> HIDE DEF n
  <2> QED BY <2>1 DEF Byte
<1> HIDE DEF n
<1>3. PICK e : Spells(e, s) /\ Joined(m) = InQuotes(e) /\ m \in Seq(Piece)
  BY StringQuoted, Zenon DEF QuotedAs
<1>4. CASE o.escape
  <2>1. k = m \o <<n>>
    BY <1>4, Zenon DEF append_json_key_known_escape, n
  <2>2. <<n>> \in Seq(Piece) /\ Joined(<<n>>) = n
    BY <1>2, JoinedFew
  <2> HIDE DEF m, k, s
  <2>3. Joined(m \o <<n>>) = InQuotes(e) \o n /\ m \o <<n>> \in Seq(Piece)
    BY <1>3, <2>2, JoinedBoth
  <2> QED BY <1>2, <1>3, <2>1, <2>3, Zenon DEF KeyAs, k, s
<1>5. CASE ~o.escape
  <2> DEFINE z == q \o s \o q \o n
  <2>1. Spells(s, s)
    BY <1>1, <1>5, SpellsPlain DEF Sound
  <2>2. k = <<z>>
    BY <1>5, Zenon DEF append_json_key_known_escape, n
  <2>3. z = InQuotes(s) \o n
    BY Zenon DEF InQuotes
  <2>4. z \in Seq(Byte)
    BY <1>1, <1>2, Joins
  <2> HIDE DEF z, s, k
  <2>5. <<z>> \in Seq(Piece) /\ Joined(<<z>>) = z
    BY <2>4, JoinedFew
  <2> QED BY <1>2, <2>1, <2>2, <2>3, <2>5, Zenon DEF KeyAs, s, k
<1> QED BY <1>4, <1>5

----------------------------------------------------------------------------
(* The tokens from a place of the text on *)

\* The bytes of a number, true or false from t[k] on.
BareRun(t, k) == Before(From(t, k - 1), LAMBDA c : ~BareByte(c))

\* The tokens from t[k] on, g being those behind: the function inside Lex.
TokensFrom(t, g, k) ==
    IF k > Len(t) THEN << >>
    ELSE IF t[k] = Quote
    THEN LET s == StringAt(t, k + 1)
         IN  IF s.next = 0 THEN <<Bad>> ELSE <<Str(s.v)>> \o g[s.next]
    ELSE IF BareByte(t[k])
    THEN <<Scalar(SubSeq(t, k, k + BareRun(t, k) - 1))>> \o g[k + BareRun(t, k)]
    ELSE IF t[k] \in {44, 58, 123, 125}
    THEN <<Token("mark", <<t[k]>>)>> \o g[k + 1]
    ELSE <<Bad>>
IsTokens(g, t) == g = [k \in 1 .. Len(t) + 1 |-> TokensFrom(t, g, k)]

(* A bare word ends before the first byte that is not bare. *)
LEMMA BareRunIs ==
    ASSUME NEW t \in Seq(Byte), NEW k \in 1 .. Len(t)
    PROVE  LET n == BareRun(t, k)
           IN  /\ n \in Nat /\ k + n <= Len(t) + 1
               /\ \A j \in 0 .. n - 1 : BareByte(t[k + j])
               /\ k + n <= Len(t) => ~BareByte(t[k + n])
<1> DEFINE r == From(t, k - 1)
           n == BareRun(t, k)
           S == {c \in Byte : ~BareByte(c)}
<1>1. Len(t) \in Nat /\ k - 1 \in 0 .. Len(t) /\ 0 \in 0 .. Len(t) - (k - 1)
  BY LenProperties
<1>2. /\ r \in Seq(Byte) /\ Len(r) = Len(t) - (k - 1)
      /\ \A j \in 1 .. Len(t) - (k - 1) : r[j] = t[(k - 1) + j]
  <2>1. r = SubSeq(t, (k - 1) + 1, Len(t))
    BY DEF From
  <2> HIDE DEF r
  <2> QED BY <1>1, <2>1, EndOfEnd
<1> HIDE DEF r
<1>3. \A j \in DOMAIN r : r[j] \in S <=> ~BareByte(r[j])
  BY <1>2
<1>4. n = Min({x - 1 : x \in {j \in DOMAIN r : ~BareByte(r[j])}} \cup {Len(r)})
  BY Zenon DEF BareRun, Before, r
<1>5. {j \in DOMAIN r : ~BareByte(r[j])} = {j \in DOMAIN r : r[j] \in S}
  BY <1>3
<1>6. n = Min({x - 1 : x \in {j \in DOMAIN r : r[j] \in S}} \cup {Len(r)})
  BY <1>4, <1>5, Zenon
<1> HIDE DEF n
<1>7. IsFirst(r, n, S)
  <2> HIDE DEF S
  <2> QED BY <1>2, <1>6, LeastIsFirst
<1>8. n \in 0 .. Len(r) /\ (\A j \in 1 .. n : r[j] \notin S) /\ (n < Len(r) => r[n + 1] \in S)
  BY <1>7 DEF IsFirst
<1>9. n \in Nat /\ k + n <= Len(t) + 1 /\ n <= Len(t) - (k - 1)
  BY <1>1, <1>2, <1>8
<1>10. ASSUME NEW j \in 0 .. n - 1 PROVE BareByte(t[k + j])
  <2>1. /\ j + 1 \in 1 .. n /\ j + 1 \in 1 .. Len(t) - (k - 1) /\ (k - 1) + (j + 1) = k + j
        /\ j + 1 \in DOMAIN r
    BY <1>1, <1>2, <1>9
  <2>2. r[j + 1] = t[k + j] /\ BareByte(r[j + 1])
    <3>1. r[j + 1] \notin S
      BY <1>8, <2>1
    <3> HIDE DEF S
    <3> QED BY <1>2, <1>3, <2>1, <3>1
  <2> QED BY <2>2
<1>11. ASSUME k + n <= Len(t) PROVE ~BareByte(t[k + n])
  <2>1. /\ n < Len(r) /\ n + 1 \in 1 .. Len(t) - (k - 1) /\ (k - 1) + (n + 1) = k + n
        /\ n + 1 \in DOMAIN r
    BY <1>1, <1>2, <1>9, <1>11
  <2> HIDE DEF S
  <2> QED BY <1>2, <1>3, <1>8, <2>1
<1> QED BY <1>9, <1>10, <1>11 DEF n

(* A string, where there is one, ends behind its opening quote. *)
LEMMA StringNext ==
    ASSUME NEW t \in Seq(Byte), NEW k \in 1 .. Len(t)
    PROVE  StringAt(t, k + 1).next = 0 \/ StringAt(t, k + 1).next \in k + 1 .. Len(t) + 1
<1> DEFINE h == CHOOSE g : IsBody(g, t, k + 1)
<1>1. Len(t) \in Nat /\ k + 1 \in Nat /\ k + 1 <= Len(t) + 6 /\ k + 1 \in k + 1 .. Len(t) + 6
  BY LenProperties
<1>2. StringAt(t, k + 1) = h[k + 1]
  BY Zenon DEF StringAt, IsBody, BodyFrom, Then
<1>3. IsBody(h, t, k + 1)
  <2>1. \E g : IsBody(g, t, k + 1)
    BY <1>1, BodyExists
  <2> QED BY <2>1, Zenon
<1> HIDE DEF h
<1>4. Ahead(h[k + 1].next, k + 1, Len(t))
  BY <1>1, <1>3, BodyNext
<1> QED BY <1>1, <1>2, <1>4 DEF Ahead

(* Only what is behind a token counts. *)
LEMMA TokensStep ==
    ASSUME NEW t \in Seq(Byte), NEW k \in 1 .. Len(t) + 1, NEW g, NEW h,
           \A x \in k + 1 .. Len(t) + 1 : h[x] = g[x]
    PROVE  TokensFrom(t, h, k) = TokensFrom(t, g, k)
<1>0. Len(t) \in Nat
  BY LenProperties
<1>1. CASE k > Len(t)
  BY <1>1, Zenon DEF TokensFrom
<1>2. CASE ~(k > Len(t))
  <2>1. k \in 1 .. Len(t)
    BY <1>0, <1>2
  <2> DEFINE n == BareRun(t, k)
             s == StringAt(t, k + 1)
  <2>2. h[k + 1] = g[k + 1]
    BY <1>0, <2>1
  <2>3. BareByte(t[k]) => h[k + n] = g[k + n]
    <3>1. /\ n \in Nat /\ k + n <= Len(t) + 1
          /\ k + n <= Len(t) => ~BareByte(t[k + n])
      BY <2>1, BareRunIs
    <3> HIDE DEF n
    <3>2. ASSUME BareByte(t[k]) PROVE k + n \in k + 1 .. Len(t) + 1
      <4>1. n # 0
        <5>1. ASSUME n = 0 PROVE FALSE
          <6>1. k + n = k
            BY <2>1, <5>1
          <6>2. k + n <= Len(t)
            BY <1>0, <2>1, <6>1
          <6> QED BY <3>1, <3>2, <6>1, <6>2
        <5> QED BY <5>1
      <4> QED BY <1>0, <2>1, <3>1, <4>1
    <3> QED BY <3>2
  <2>4. s.next # 0 => h[s.next] = g[s.next]
    <3>1. s.next = 0 \/ s.next \in k + 1 .. Len(t) + 1
      BY <2>1, StringNext
    <3> HIDE DEF s
    <3> QED BY <3>1
  <2> HIDE DEF n, s
  <2>5. \A f : TokensFrom(t, f, k) =
           IF t[k] = Quote THEN (IF s.next = 0 THEN <<Bad>> ELSE <<Str(s.v)>> \o f[s.next])
           ELSE IF BareByte(t[k]) THEN <<Scalar(SubSeq(t, k, k + n - 1))>> \o f[k + n]
           ELSE IF t[k] \in {44, 58, 123, 125} THEN <<Token("mark", <<t[k]>>)>> \o f[k + 1]
           ELSE <<Bad>>
    BY <1>2, Zenon DEF TokensFrom, n, s
  <2>6. CASE t[k] = Quote
    BY <2>4, <2>5, <2>6, Zenon
  <2>7. CASE t[k] # Quote /\ BareByte(t[k])
    BY <2>3, <2>5, <2>7, Zenon
  <2>8. CASE t[k] # Quote /\ ~BareByte(t[k])
    <3> DEFINE marks == t[k] \in {44, 58, 123, 125}
               one == <<Token("mark", <<t[k]>>)>>
    <3> HIDE DEF marks, one
    <3>1. \A f : TokensFrom(t, f, k) = IF marks THEN one \o f[k + 1] ELSE <<Bad>>
      BY <2>5, <2>8, Zenon DEF marks, one
    <3> QED BY <2>2, <3>1, Zenon
  <2> QED BY <2>6, <2>7, <2>8
<1> QED BY <1>1, <1>2

(* Lex is well defined: its recursion has a solution. *)
LEMMA TokensExist ==
    ASSUME NEW t \in Seq(Byte)
    PROVE  \E g : IsTokens(g, t)
<1> DEFINE L == Len(t) + 1
           Good(g, d) == g = [x \in L - d .. L |-> TokensFrom(t, g, x)]
           D == {d \in 0 .. L - 1 : ~\E g : Good(g, d)}
<1>1. L \in Nat /\ Len(t) \in Nat /\ L >= 1 /\ L - 1 \in 0 .. L - 1
  BY LenProperties
<1>2. ASSUME L - 1 \in D
      PROVE  FALSE
  <2>1. PICK d \in D : \A x \in D : d <= x
    <3>1. D \subseteq Nat
      BY <1>1
    <3> HIDE DEF D
    <3> QED BY <1>2, <3>1, LeastIs
  <2>d. d \in 0 .. L - 1 /\ ~\E g : Good(g, d)
    BY <2>1
  <2> HIDE DEF L
  <2>2. PICK f : \A x \in L - d + 1 .. L : f[x] = TokensFrom(t, f, x)
    <3>1. CASE d = 0
      <4>1. L - d + 1 .. L = {}
        BY <1>1, <3>1
      <4> QED BY <4>1
    <3>2. CASE d # 0
      <4>1. d - 1 \in 0 .. L - 1 /\ ~(d <= d - 1) /\ L - (d - 1) = L - d + 1
        BY <1>1, <3>2, <2>d
      <4>2. PICK f : Good(f, d - 1)
        BY <2>1, <4>1
      <4> QED BY <4>1, <4>2
    <3> QED BY <3>1, <3>2
  <2> DEFINE b == L - d
             g == [x \in b .. L |-> IF x = b THEN TokensFrom(t, f, b) ELSE f[x]]
  <2>3. b \in 1 .. L /\ b \in b .. L /\ \A x \in b .. L : x = b \/ x \in b + 1 .. L
    BY <1>1, <2>d
  <2> HIDE DEF b
  <2>4. \A x \in b + 1 .. L : f[x] = TokensFrom(t, f, x)
    BY <2>2 DEF b
  <2>5. \A x \in b + 1 .. L : g[x] = f[x]
    BY <1>1, <2>3
  <2>6. g[b] = TokensFrom(t, f, b)
    BY <2>3
  <2>7. ASSUME NEW x \in b .. L
        PROVE  g[x] = TokensFrom(t, g, x)
    <3>1. x \in 1 .. Len(t) + 1 /\ \A y \in x + 1 .. L : y \in b + 1 .. L
      BY <1>1, <2>3 DEF L
    <3>2. \A y \in x + 1 .. Len(t) + 1 : g[y] = f[y]
      BY <2>5, <3>1 DEF L
    <3> HIDE DEF g
    <3>3. TokensFrom(t, g, x) = TokensFrom(t, f, x)
      BY <3>1, <3>2, TokensStep
    <3>4. g[x] = TokensFrom(t, f, x)
      BY <2>3, <2>4, <2>5, <2>6
    <3> QED BY <3>3, <3>4
  <2>8. g = [x \in b .. L |-> TokensFrom(t, g, x)]
    <3> DEFINE H(x) == IF x = b THEN TokensFrom(t, f, b) ELSE f[x]
               K(x) == TokensFrom(t, g, x)
    <3>1. \A x \in b .. L : H(x) = K(x)
      BY <2>7
    <3>2. g = [x \in b .. L |-> H(x)]
      BY Zenon
    <3> HIDE DEF H, K, g
    <3>3. g = [x \in b .. L |-> K(x)]
      BY <3>1, <3>2
    <3> QED BY <3>3, Zenon DEF K
  <2>9. Good(g, d)
    <3> HIDE DEF g
    <3> QED BY <2>8, Zenon DEF b
  <2> QED BY <2>d, <2>9
<1>3. PICK h : Good(h, L - 1)
  BY <1>1, <1>2
<1>4. L - (L - 1) = 1
  BY <1>1
<1> QED BY <1>3, <1>4 DEF IsTokens

----------------------------------------------------------------------------
(* Text that reads as tokens wherever it stands *)

Tok == {Scalar(w) : w \in Seq(Byte)} \cup {Str(s) : s \in Seq(Byte)}
         \cup {Token("mark", <<c>>) : c \in Byte} \cup {Bad}

\* g is the function inside Lex.
TokensAre(g, t) == \A k \in 1 .. Len(t) + 1 : g[k] = TokensFrom(t, g, k)

\* Behind the first b bytes is the end of a bare word.
WordEnds(t, b) == b + 1 <= Len(t) /\ t[b + 1] \in {44, 125}

\* The bytes e behind the first a are the tokens T, whatever comes behind; if
\* they are open, provided that a comma or a brace comes behind.
LexedAt(g, a, e, T) ==
    \A U \in Seq(Tok) : g[a + Len(e) + 1] = U => g[a + 1] = T \o U
Lexes(open, e, T) ==
    /\ e \in Seq(Byte) /\ T \in Seq(Tok)
    /\ \A g : \A t \in Seq(Byte), a \in Nat :
          TokensAre(g, t) /\ At(t, a, e) /\ (open => WordEnds(t, a + Len(e)))
             => LexedAt(g, a, e, T)

(* What Lexes says of one place. *)
LEMMA LexesAt ==
    ASSUME NEW open, NEW e, NEW T, Lexes(open, e, T), NEW g, NEW t \in Seq(Byte),
           NEW a \in Nat, TokensAre(g, t), At(t, a, e), open => WordEnds(t, a + Len(e))
    PROVE  LexedAt(g, a, e, T)
  BY DEF Lexes

(* No text is no token. *)
LEMMA LexesNothing == Lexes(FALSE, << >>, << >>)
<1>1. << >> \in Seq(Byte) /\ << >> \in Seq(Tok) /\ Len(<< >>) = 0
      /\ \A u \in Seq(Tok) : << >> \o u = u
  OBVIOUS
<1>2. ASSUME NEW t, NEW g, NEW a \in Nat
      PROVE  LexedAt(g, a, << >>, << >>)
  <2>1. a + Len(<< >>) + 1 = a + 1
    BY <1>1
  <2> QED BY <1>1, <2>1 DEF LexedAt
<1> QED BY <1>1, <1>2 DEF Lexes

(* What needs no end may have one. *)
LEMMA LexesOpen ==
    ASSUME NEW e, NEW T, Lexes(FALSE, e, T)
    PROVE  Lexes(TRUE, e, T)
  BY DEF Lexes

\* f can stand behind an open part.
Closes(f) == f # << >> /\ f[1] \in {44, 125}

(* Texts one after another are their tokens one after another, if the      *)
(* second ends a bare word of the first.                                   *)
LEMMA LexesBoth ==
    ASSUME NEW o \in BOOLEAN, NEW e, NEW T, Lexes(o, e, T),
           NEW p \in BOOLEAN, NEW f, NEW R, Lexes(p, f, R), o => Closes(f)
    PROVE  Lexes(p, e \o f, T \o R)
<1>1. /\ e \in Seq(Byte) /\ T \in Seq(Tok) /\ f \in Seq(Byte) /\ R \in Seq(Tok)
      /\ Len(e) \in Nat /\ Len(f) \in Nat
  BY LenProperties DEF Lexes
<1>2. /\ \A x, y \in Seq(Byte) : x \o y \in Seq(Byte)
      /\ \A x, y \in Seq(Tok) : x \o y \in Seq(Tok)
      /\ \A x, y, z \in Seq(Tok) : x \o (y \o z) = (x \o y) \o z
  BY ConcatAt, ConcatAssociative
<1>3. ASSUME NEW t \in Seq(Byte), NEW g, NEW a \in Nat, TokensAre(g, t), At(t, a, e \o f),
             p => WordEnds(t, a + Len(e \o f))
      PROVE  LexedAt(g, a, e \o f, T \o R)
  <2> SUFFICES ASSUME NEW U \in Seq(Tok), g[a + Len(e \o f) + 1] = U
               PROVE  g[a + 1] = (T \o R) \o U
    BY DEF LexedAt
  <2> DEFINE b == a + Len(e)
  <2>1. At(t, a, e) /\ At(t, b, f) /\ a + Len(e \o f) = b + Len(f) /\ b \in Nat
    <3>1. b \in Nat
      BY <1>1
    <3>2. AtBoth(t, a, e, f)
      BY <1>1, <1>3, AtParts, Zenon
    <3> QED BY <3>1, <3>2, Zenon DEF AtBoth
  <2>2. o => WordEnds(t, b)
    <3>1. ASSUME o PROVE WordEnds(t, b)
      <4>1. f # << >> /\ f[1] \in {44, 125}
        BY <3>1 DEF Closes
      <4>2. Len(f) >= 1
        BY <1>1, <4>1, EmptySeq
      <4>3. b + Len(f) <= Len(t) /\ t[b + 1] = f[1]
        BY <1>1, <2>1, <4>2 DEF At
      <4>4. b + 1 <= Len(t)
        BY <1>1, <2>1, <4>2, <4>3, LenProperties
      <4> QED BY <4>1, <4>3, <4>4 DEF WordEnds
    <3> QED BY <3>1
  <2>3. LexedAt(g, a, e, T)
    BY <1>3, <2>1, <2>2, LexesAt, Zenon DEF b
  <2>4. LexedAt(g, b, f, R)
    <3>1. p => WordEnds(t, b + Len(f))
      BY <1>3, <2>1
    <3> HIDE DEF b
    <3> QED BY <1>3, <2>1, <3>1, LexesAt, Zenon
  <2>5. g[b + 1] = R \o U
    <3>1. g[b + Len(f) + 1] = U
      BY <2>1
    <3> HIDE DEF b
    <3> QED BY <2>4, <3>1, Zenon DEF LexedAt
  <2>6. R \o U \in Seq(Tok) /\ T \o (R \o U) = (T \o R) \o U
    BY <1>1, <1>2
  <2> DEFINE z == R \o U
  <2> HIDE DEF z
  <2>7. g[a + 1] = T \o z
    <3>1. g[a + Len(e) + 1] = z /\ z \in Seq(Tok)
      BY <2>5, <2>6, Zenon DEF z, b
    <3> QED BY <2>3, <3>1, Zenon DEF LexedAt
  <2> QED BY <2>6, <2>7, Zenon DEF z
<1>4. e \o f \in Seq(Byte) /\ T \o R \in Seq(Tok)
  BY <1>1, <1>2
<1> DEFINE x == e \o f
           y == T \o R
<1> HIDE DEF x, y
<1>5. Lexes(p, x, y)
  BY <1>3, <1>4, Zenon DEF Lexes, x, y
<1> QED BY <1>5 DEF x, y

(* A spelling in quotes is the string. *)
LEMMA LexesString ==
    ASSUME NEW e, NEW s, Spells(e, s)
    PROVE  Lexes(FALSE, InQuotes(e), <<Str(s)>>)
<1>1. e \in Seq(Byte) /\ s \in Seq(Byte) /\ Len(e) \in Nat
  BY LenProperties DEF Spells
<1>2. InQuotes(e) \in Seq(Byte)
  <2>1. <<Quote>> \in Seq(Byte)
    BY DEF Quote, Byte
  <2> QED BY <1>1, <2>1, Joins, Zenon DEF InQuotes
<1>3. <<Str(s)>> \in Seq(Tok)
  <2>1. Str(s) \in Tok
    BY <1>1, Zenon DEF Tok
  <2> QED BY <2>1, Joins
<1> DEFINE w == InQuotes(e)
<1>4. ASSUME NEW t \in Seq(Byte), NEW g, NEW a \in Nat, TokensAre(g, t), At(t, a, w)
      PROVE  LexedAt(g, a, w, <<Str(s)>>)
  <2> DEFINE r == StringAt(t, a + 2)
  <2>1. /\ t[a + 1] = Quote /\ a + Len(e) + 2 <= Len(t) /\ Len(w) = Len(e) + 2
        /\ r.v = s /\ r.next = a + Len(e) + 3
    <3>1. At(t, a, InQuotes(e))
      BY <1>4, Zenon
    <3> HIDE DEF w
    <3> QED BY <1>4, <3>1, StringRead DEF w
  <2> HIDE DEF w, r
  <2>2. /\ a + 1 \in 1 .. Len(t) + 1 /\ ~(a + 1 > Len(t)) /\ a + 1 + 1 = a + 2
        /\ a + Len(w) + 1 = r.next /\ r.next # 0
    BY <1>1, <2>1, LenProperties
  <2>3. g[a + 1] = TokensFrom(t, g, a + 1)
    BY <1>4, <2>2 DEF TokensAre
  <2>4. TokensFrom(t, g, a + 1) = <<Str(r.v)>> \o g[r.next]
    BY <2>1, <2>2, Zenon DEF TokensFrom, r
  <2>5. g[a + 1] = <<Str(s)>> \o g[a + Len(w) + 1]
    BY <2>1, <2>2, <2>3, <2>4, Zenon
  <2> QED BY <2>5, Zenon DEF LexedAt
<1> HIDE DEF w
<1>5. Lexes(FALSE, w, <<Str(s)>>)
  BY <1>2, <1>3, <1>4, Zenon DEF Lexes, w
<1> QED BY <1>5 DEF w

(* A mark is its token. *)
LEMMA LexesMark ==
    ASSUME NEW c \in {44, 58, 123, 125}
    PROVE  Lexes(FALSE, <<c>>, <<Token("mark", <<c>>)>>)
<1> DEFINE w == <<c>>
           m == Token("mark", <<c>>)
<1>1. w \in Seq(Byte) /\ Len(w) = 1 /\ w[1] = c /\ c \in Byte /\ c # Quote /\ ~BareByte(c)
  BY DEF Byte, Quote, BareByte
<1>2. <<m>> \in Seq(Tok)
  <2>1. m \in Tok
    BY <1>1, Zenon DEF Tok
  <2> QED BY <2>1, Joins
<1>4. ASSUME NEW t \in Seq(Byte), NEW g, NEW a \in Nat, TokensAre(g, t), At(t, a, w)
      PROVE  LexedAt(g, a, w, <<m>>)
  <2>1. t[a + 1] = c /\ a + 1 <= Len(t)
    BY <1>1, <1>4 DEF At
  <2>2. /\ a + 1 \in 1 .. Len(t) + 1 /\ ~(a + 1 > Len(t)) /\ a + Len(w) + 1 = a + 1 + 1
    BY <1>1, <2>1, LenProperties
  <2>3. g[a + 1] = TokensFrom(t, g, a + 1)
    BY <1>4, <2>2 DEF TokensAre
  <2>4. TokensFrom(t, g, a + 1) = <<m>> \o g[a + 1 + 1]
    BY <1>1, <2>1, <2>2, Zenon DEF TokensFrom
  <2> HIDE DEF w, m
  <2> QED BY <2>2, <2>3, <2>4, Zenon DEF LexedAt
<1> HIDE DEF w, m
<1>5. Lexes(FALSE, w, <<m>>)
  BY <1>1, <1>2, <1>4, Zenon DEF Lexes
<1> QED BY <1>5 DEF w, m

(* A bare word ends before a comma or a brace. *)
LEMMA LexesBare ==
    ASSUME NEW w \in Seq(Byte), w # << >>, \A k \in 1 .. Len(w) : BareByte(w[k])
    PROVE  Lexes(TRUE, w, <<Scalar(w)>>)
<1>1. Len(w) \in Nat \ {0}
  BY EmptySeq, LenProperties
<1>2. <<Scalar(w)>> \in Seq(Tok)
  <2>1. Scalar(w) \in Tok
    BY Zenon DEF Tok
  <2> QED BY <2>1, Joins
<1>4. ASSUME NEW t \in Seq(Byte), NEW g, NEW a \in Nat, TokensAre(g, t), At(t, a, w),
             WordEnds(t, a + Len(w))
      PROVE  LexedAt(g, a, w, <<Scalar(w)>>)
  <2> DEFINE k == a + 1
             n == BareRun(t, k)
             L == Len(w)
  <2>1. /\ a + L + 1 <= Len(t) /\ t[a + L + 1] \in {44, 125} /\ Len(t) \in Nat
        /\ \A j \in 1 .. L : t[a + j] = w[j]
    BY <1>4, LenProperties DEF At, WordEnds
  <2>2. k \in 1 .. Len(t) /\ L \in Nat \ {0}
    BY <1>1, <2>1
  <2>3. /\ n \in Nat /\ k + n <= Len(t) + 1
        /\ \A j \in 0 .. n - 1 : BareByte(t[k + j])
        /\ k + n <= Len(t) => ~BareByte(t[k + n])
    BY <2>2, BareRunIs
  <2> HIDE DEF n, L
  <2>4. ~BareByte(t[k + L])
    <3>1. \A c \in {44, 125} : ~BareByte(c)
      BY DEF BareByte
    <3>2. k + L = a + L + 1
      BY <2>2
    <3> QED BY <2>1, <3>1, <3>2
  <2>5. \A j \in 0 .. L - 1 : BareByte(t[k + j])
    <3> TAKE j \in 0 .. L - 1
    <3>1. j + 1 \in 1 .. L /\ k + j = a + (j + 1)
      BY <2>2
    <3>2. BareByte(w[j + 1])
      BY <3>1 DEF L
    <3> QED BY <2>1, <3>1, <3>2
  <2>6. n = L
    <3>1. ~(n > L)
      BY <2>2, <2>3, <2>4
    <3>2. ~(n < L)
      <4>1. ASSUME n < L PROVE FALSE
        <5>1. n \in 0 .. L - 1 /\ k + n <= Len(t)
          BY <2>1, <2>2, <2>3, <4>1
        <5> QED BY <2>3, <2>5, <5>1
      <4> QED BY <4>1
    <3> QED BY <2>2, <2>3, <3>1, <3>2
  <2>7. BareByte(t[k]) /\ t[k] # Quote
    <3>1. 0 \in 0 .. L - 1 /\ k + 0 = k
      BY <2>2
    <3>2. BareByte(t[k])
      BY <2>5, <3>1
    <3>3. \A c : BareByte(c) => c # Quote
      BY DEF BareByte, Quote
    <3> QED BY <3>2, <3>3, Zenon
  <2>8. SubSeq(t, k, k + n - 1) = w
    <3>1. SubSeq(t, k, k + n - 1) = [j \in 1 .. 1 + (k + n - 1) - k |-> t[k + j - 1]]
      BY <2>2, <2>3, <2>6, SubSeqIs
    <3>2. 1 + (k + n - 1) - k = L /\ \A j \in 1 .. L : k + j - 1 = a + j
      BY <2>2, <2>6
    <3>3. w = [j \in 1 .. L |-> w[j]]
      BY DEF L
    <3>4. \A j \in 1 .. L : t[k + j - 1] = w[j]
      BY <2>1, <3>2
    <3> HIDE DEF k
    <3> QED BY <3>1, <3>2, <3>3, <3>4
  <2>9. k \in 1 .. Len(t) + 1 /\ ~(k > Len(t)) /\ a + Len(w) + 1 = k + n
    BY <2>1, <2>2, <2>6 DEF L
  <2>10. g[k] = TokensFrom(t, g, k)
    <3> HIDE DEF k
    <3> QED BY <1>4, <2>9 DEF TokensAre
  <2>11. TokensFrom(t, g, k) = <<Scalar(SubSeq(t, k, k + n - 1))>> \o g[k + n]
    <3> HIDE DEF k
    <3> QED BY <2>7, <2>9, Zenon DEF TokensFrom, n
  <2>12. g[k] = <<Scalar(w)>> \o g[a + Len(w) + 1]
    <3> HIDE DEF k
    <3> QED BY <2>8, <2>9, <2>10, <2>11, Zenon
  <2> QED BY <2>12, Zenon DEF LexedAt
<1>5. \A g : \A t \in Seq(Byte), a \in Nat :
         TokensAre(g, t) /\ At(t, a, w) /\ (TRUE => WordEnds(t, a + Len(w)))
            => LexedAt(g, a, w, <<Scalar(w)>>)
  BY <1>4, Zenon
<1> QED BY <1>2, <1>5, Zenon DEF Lexes

(* A whole text. *)
LEMMA LexOf ==
    ASSUME NEW t, NEW T, Lexes(FALSE, t, T)
    PROVE  Lex(t) = T
<1>1. t \in Seq(Byte) /\ T \in Seq(Tok) /\ Len(t) \in Nat
  BY LenProperties DEF Lexes
<1> DEFINE g == CHOOSE f : IsTokens(f, t)
<1>2. Lex(t) = g[1]
  BY Zenon DEF Lex, IsTokens, TokensFrom, BareRun
<1>3. IsTokens(g, t)
  <2>1. \E f : IsTokens(f, t)
    BY <1>1, TokensExist
  <2> QED BY <2>1, Zenon
<1> HIDE DEF g
<1>4. TokensAre(g, t)
  BY <1>3 DEF IsTokens, TokensAre
<1>5. At(t, 0, t) /\ 0 + Len(t) + 1 = Len(t) + 1 /\ 0 + 1 = 1
  BY <1>1 DEF At
<1>6. LexedAt(g, 0, t, T)
  <2>1. 0 \in Nat /\ (FALSE => WordEnds(t, 0 + Len(t)))
    OBVIOUS
  <2> QED BY <1>1, <1>4, <1>5, <2>1, LexesAt, Zenon
<1>7. g[Len(t) + 1] = << >>
  <2>1. Len(t) + 1 \in 1 .. Len(t) + 1 /\ Len(t) + 1 > Len(t)
    BY <1>1
  <2>2. g[Len(t) + 1] = TokensFrom(t, g, Len(t) + 1)
    BY <1>4, <2>1 DEF TokensAre
  <2> QED BY <2>1, <2>2, Zenon DEF TokensFrom
<1>8. << >> \in Seq(Tok) /\ T \o << >> = T
  BY <1>1, ConcatEmptySeq
<1> QED BY <1>2, <1>5, <1>6, <1>7, <1>8, Zenon DEF LexedAt

----------------------------------------------------------------------------
(* The members of an object *)

(* The marks of the reference are those of the lexer. *)
LEMMA MarksAre ==
    /\ Mark(",") = Token("mark", <<44>>) /\ Mark(":") = Token("mark", <<58>>)
    /\ Mark("{") = Token("mark", <<123>>) /\ Mark("}") = Token("mark", <<125>>)
<1>1. B(",") = <<44>> /\ B(":") = <<58>> /\ B("{") = <<123>> /\ B("}") = <<125>>
  BY JsonSpelling, TimeLiterals, Zenon
<1> QED BY <1>1, Zenon DEF Mark

(* Each mark of an object. *)
LEMMA LexesMarks ==
    /\ Lexes(FALSE, <<44>>, <<Mark(",")>>) /\ Lexes(FALSE, <<58>>, <<Mark(":")>>)
    /\ Lexes(FALSE, <<123>>, <<Mark("{")>>) /\ Lexes(FALSE, <<125>>, <<Mark("}")>>)
<1>1. 44 \in {44, 58, 123, 125} /\ 58 \in {44, 58, 123, 125} /\ 123 \in {44, 58, 123, 125}
      /\ 125 \in {44, 58, 123, 125}
  OBVIOUS
<1> QED BY <1>1, MarksAre, LexesMark, Zenon

(* A sequence of two. *)
LEMMA Pair ==
    ASSUME NEW S, NEW x \in S, NEW y \in S
    PROVE  <<x>> \o <<y>> = <<x, y>>
<1> DEFINE a == <<x>>
           b == <<y>>
<1>1. a \in Seq(S) /\ b \in Seq(S) /\ Len(a) = 1 /\ Len(b) = 1 /\ a[1] = x /\ b[1] = y
  OBVIOUS
<1> HIDE DEF a, b
<1>2. /\ a \o b \in Seq(S) /\ Len(a \o b) = Len(a) + Len(b)
      /\ \A j \in 1 .. Len(a) : (a \o b)[j] = a[j]
      /\ \A j \in 1 .. Len(b) : (a \o b)[Len(a) + j] = b[j]
  BY <1>1, ConcatAt
<1> DEFINE z == a \o b
<1> HIDE DEF z
<1>3. z \in Seq(S) /\ Len(z) = 2 /\ z[1] = x /\ z[2] = y
  BY <1>1, <1>2 DEF z
<1>4. z = <<x, y>>
  BY <1>3
<1> QED BY <1>4 DEF z, a, b

\* The label of a member, and the tokens of the member: m is its name and the
\* tokens of its value.
Label(n, e) == (IF n > 1 THEN <<44>> ELSE << >>) \o InQuotes(e) \o <<58>>
ItemTokens(n, m) ==
    (IF n > 1 THEN <<Mark(",")>> ELSE << >>) \o <<Str(m[1]), Mark(":")>> \o m[2]

\* x is the n-th member m of an object.
IsItem(n, x, m) == Lexes(TRUE, x, ItemTokens(n, m)) /\ (n > 1 => Closes(x))

(* A name in quotes, a colon and a value are a member. *)
LEMMA ItemIs ==
    ASSUME NEW n, NEW e, NEW s, Spells(e, s), NEW v, NEW V, Lexes(TRUE, v, V)
    PROVE  IsItem(n, Label(n, e) \o v, <<s, V>>)
<1> DEFINE c == IF n > 1 THEN <<44>> ELSE << >>
           C == IF n > 1 THEN <<Mark(",")>> ELSE << >>
           q == InQuotes(e)
           Q == <<Str(s)>>
           k == <<58>>
           K == <<Mark(":")>>
<1>1. Lexes(FALSE, c, C)
  <2>1. CASE n > 1
    BY <2>1, LexesMarks, Zenon
  <2>2. CASE ~(n > 1)
    BY <2>2, LexesNothing, Zenon
  <2> QED BY <2>1, <2>2
<1>2. Lexes(FALSE, q, Q) /\ Lexes(FALSE, k, K)
  BY LexesString, LexesMarks, Zenon
<1>3. /\ c \in Seq(Byte) /\ q \in Seq(Byte) /\ k \in Seq(Byte) /\ v \in Seq(Byte)
      /\ C \in Seq(Tok) /\ Q \in Seq(Tok) /\ K \in Seq(Tok) /\ V \in Seq(Tok)
  BY <1>1, <1>2, Zenon DEF Lexes
<1>4. Q \o K = <<Str(s), Mark(":")>>
  <2> DEFINE S == {Str(s), Mark(":")}
  <2>1. Str(s) \in S /\ Mark(":") \in S
    BY Zenon
  <2> HIDE DEF S
  <2> QED BY <2>1, Pair, Zenon
<1>5. n > 1 => Closes((c \o q) \o k \o v)
  <2>1. ASSUME n > 1 PROVE Closes((c \o q) \o k \o v)
    <3>1. c = <<44>>
      BY <2>1
    <3> HIDE DEF c, q, k, C, Q, K
    <3>2. Len(c) = 1 /\ c[1] = 44
      BY <3>1
    <3> DEFINE z == q \o k \o v
               y == (c \o q) \o k \o v
    <3>3. y = c \o z /\ z \in Seq(Byte)
      <4>0. c \in Seq(Byte) /\ q \in Seq(Byte) /\ k \in Seq(Byte) /\ v \in Seq(Byte)
        BY <1>3
      <4>1. /\ \A a, b, d \in Seq(Byte) : (a \o b) \o d = a \o (b \o d)
            /\ \A a, b \in Seq(Byte) : a \o b \in Seq(Byte)
        BY ConcatAssociative, Joins
      <4>2. q \o k \in Seq(Byte) /\ (c \o q) \o k = c \o (q \o k)
        BY <4>0, <4>1
      <4> DEFINE r == q \o k
      <4> HIDE DEF r
      <4>3. (c \o r) \o v = c \o (r \o v) /\ r \o v \in Seq(Byte)
        <5>1. r \in Seq(Byte)
          BY <4>2 DEF r
        <5> QED BY <4>0, <4>1, <5>1
      <4> QED BY <4>2, <4>3, Zenon DEF r
    <3> HIDE DEF z, y
    <3>4. /\ c \o z \in Seq(Byte) /\ Len(c \o z) = Len(c) + Len(z) /\ Len(z) \in Nat
          /\ \A j \in 1 .. Len(c) : (c \o z)[j] = c[j]
      BY <1>3, <3>3, ConcatAt, LenProperties
    <3>5. y \in Seq(Byte) /\ y[1] = 44 /\ Len(y) # 0
      BY <3>2, <3>3, <3>4
    <3>6. y # << >>
      BY <3>5
    <3> QED BY <3>5, <3>6 DEF Closes, y
  <2> QED BY <2>1
<1> HIDE DEF c, C, q, Q, k, K
<1>6. Lexes(FALSE, c \o q, C \o Q)
  BY <1>1, <1>2, LexesBoth
<1>7. Lexes(FALSE, (c \o q) \o k, (C \o Q) \o K)
  BY <1>2, <1>6, LexesBoth
<1>8. Lexes(TRUE, ((c \o q) \o k) \o v, ((C \o Q) \o K) \o V)
  BY <1>7, LexesBoth
<1>9. (C \o Q) \o K = C \o <<Str(s), Mark(":")>>
  <2>0. \A a, b, d \in Seq(Tok) : a \o (b \o d) = (a \o b) \o d
    BY ConcatAssociative
  <2>1. C \o (Q \o K) = (C \o Q) \o K
    BY <1>3, <2>0
  <2> QED BY <1>4, <2>1, Zenon
<1>10. ItemTokens(n, <<s, V>>) = (C \o <<Str(s), Mark(":")>>) \o V
  <2>1. <<s, V>>[1] = s /\ <<s, V>>[2] = V
    OBVIOUS
  <2> QED BY <2>1, Zenon DEF ItemTokens, C
<1>11. Label(n, e) = (c \o q) \o k
  BY Zenon DEF Label, c, q, k
<1> QED BY <1>5, <1>8, <1>9, <1>10, <1>11, Zenon DEF IsItem

\* x are the members m of an object.
AreItems(x, m, n) ==
    /\ x \in Seq(Seq(Byte)) /\ Len(x) = n /\ DOMAIN m = 1 .. n
    /\ \A k \in 1 .. n : IsItem(k, x[k], m[k])

(* Members in braces are the object. *)
LEMMA ObjectIs ==
    ASSUME NEW n \in Nat, NEW x, NEW m, AreItems(x, m, n)
    PROVE  Lexes(FALSE, <<123>> \o FlattenSeq(x) \o <<125>>, Object(m))
<1> DEFINE y == [k \in 1 .. n |-> ItemTokens(k, m[k])]
<1>1. /\ x \in Seq(Seq(Byte)) /\ Len(x) = n /\ DOMAIN m = 1 .. n
      /\ \A k \in 1 .. n : IsItem(k, x[k], m[k])
  BY DEF AreItems
<1>2. ASSUME NEW k \in 1 .. n
      PROVE  Lexes(TRUE, x[k], y[k]) /\ (k > 1 => Closes(x[k])) /\ y[k] \in Seq(Tok)
  <2>1. Lexes(TRUE, x[k], ItemTokens(k, m[k])) /\ (k > 1 => Closes(x[k]))
    BY <1>1 DEF IsItem
  <2>2. y[k] = ItemTokens(k, m[k])
    OBVIOUS
  <2> HIDE DEF y
  <2> QED BY <2>1, <2>2, Zenon DEF Lexes
<1>3. y \in Seq(Seq(Tok)) /\ Len(y) = n
  <2> DEFINE S == Seq(Tok)
             F(k) == ItemTokens(k, m[k])
  <2>1. \A k \in 1 .. n : F(k) \in S
    BY <1>2
  <2>2. y = [k \in 1 .. n |-> F(k)]
    BY Zenon
  <2> HIDE DEF S, F, y
  <2>3. y \in Seq(S) /\ Len(y) = n
    BY <2>1, <2>2
  <2> QED BY <2>3 DEF S
<1>4. Object(m) = <<Mark("{")>> \o FlattenSeq(y) \o <<Mark("}")>>
  <2>1. Object(m) = <<Mark("{")>> \o FlattenSeq([k \in DOMAIN m |-> ItemTokens(k, m[k])])
                      \o <<Mark("}")>>
    BY Zenon DEF Object, ItemTokens
  <2> QED BY <1>1, <2>1, Zenon
<1> HIDE DEF y
<1>5. PICK f : Flat(f, x, n, Byte) /\ FlattenSeq(x) = f[n]
  BY <1>1, FlattenIs
<1>6. PICK g : Flat(g, y, n, Tok) /\ FlattenSeq(y) = g[n]
  BY <1>3, FlattenIs
<1>7. /\ f[0] = << >> /\ g[0] = << >>
      /\ \A k \in 1 .. n : f[k] = f[k - 1] \o x[k] /\ g[k] = g[k - 1] \o y[k]
  BY <1>5, <1>6 DEF Flat
<1> DEFINE P(k) == Lexes(TRUE, f[k], g[k])
           D == {k \in 0 .. n : ~P(k)}
<1>8. ASSUME n \in D PROVE FALSE
  <2>1. PICK k \in D : \A z \in D : k <= z
    <3> HIDE DEF P
    <3>1. D \subseteq Nat
      OBVIOUS
    <3> HIDE DEF D
    <3> QED BY <1>8, <3>1, LeastIs
  <2>2. CASE k = 0
    <3>1. Lexes(TRUE, << >>, << >>)
      BY LexesNothing, LexesOpen, Zenon
    <3> QED BY <1>7, <2>1, <2>2, <3>1, Zenon
  <2>3. CASE k # 0
    <3>1. k \in 1 .. n /\ k - 1 \in 0 .. n /\ ~(k <= k - 1)
      BY <2>1, <2>3
    <3>2. Lexes(TRUE, f[k - 1], g[k - 1])
      BY <2>1, <3>1
    <3>3. Lexes(TRUE, x[k], y[k]) /\ (k > 1 => Closes(x[k]))
      BY <1>2, <3>1
    <3>4. f[k] = f[k - 1] \o x[k] /\ g[k] = g[k - 1] \o y[k]
      BY <1>7, <3>1
    <3>5. Lexes(TRUE, f[k - 1] \o x[k], g[k - 1] \o y[k])
      <4>1. CASE k > 1
        BY <3>2, <3>3, <4>1, LexesBoth
      <4>2. CASE ~(k > 1)
        <5>1. k - 1 = 0
          BY <3>1, <4>2
        <5>2. Lexes(FALSE, f[k - 1], g[k - 1])
          BY <1>7, <5>1, LexesNothing, Zenon
        <5> QED BY <3>3, <5>2, LexesBoth
      <4> QED BY <4>1, <4>2
    <3> QED BY <2>1, <3>4, <3>5, Zenon
  <2> QED BY <2>2, <2>3
<1>9. Lexes(TRUE, f[n], g[n])
  <2>1. n \in 0 .. n
    OBVIOUS
  <2> HIDE DEF P
  <2>2. P(n)
    BY <1>8, <2>1
  <2> QED BY <2>2 DEF P
<1> DEFINE b == <<123>>
           c == <<125>>
<1>10. Lexes(FALSE, b, <<Mark("{")>>) /\ Lexes(FALSE, c, <<Mark("}")>>)
  BY LexesMarks, Zenon
<1>11. Closes(c)
  BY DEF Closes
<1> HIDE DEF b, c
<1>12. Lexes(TRUE, b \o f[n], <<Mark("{")>> \o g[n])
  BY <1>9, <1>10, LexesBoth
<1>13. Lexes(FALSE, (b \o f[n]) \o c, (<<Mark("{")>> \o g[n]) \o <<Mark("}")>>)
  BY <1>10, <1>11, <1>12, LexesBoth
<1> QED BY <1>4, <1>5, <1>6, <1>13, Zenon DEF b, c

----------------------------------------------------------------------------
(* Bare words *)

\* The text w is the one token T, if something ends it.
IsScalar(w, T) == Lexes(TRUE, w, <<T>>)

(* A decimal reads as its number. *)
LEMMA DecimalLexes ==
    ASSUME NEW n \in Nat
    PROVE  IsScalar(Decimal(n), Integer(n))
<1> DEFINE d == Decimal(n)
<1>1. d \in Seq(48 .. 57) /\ Numeral(d) /\ Reading(d) = n
  BY DecimalExact
<1> HIDE DEF d
<1>2. d # << >> /\ Scalar(d) = Integer(n)
  BY <1>1, Zenon DEF Numeral, Scalar
<1>3. d \in Seq(Byte)
  <2>1. 48 .. 57 \subseteq 0 .. 255
    OBVIOUS
  <2> QED BY <1>1, <2>1 DEF Byte
<1>4. \A k \in 1 .. Len(d) : BareByte(d[k])
  <2>1. \A k \in 1 .. Len(d) : d[k] \in 48 .. 57
    BY <1>1
  <2> QED BY <2>1, Zenon DEF BareByte
<1>5. Lexes(TRUE, d, <<Scalar(d)>>)
  BY <1>2, <1>3, <1>4, LexesBare, Zenon
<1> QED BY <1>2, <1>5, Zenon DEF IsScalar, d

(* So does a negative one. *)
LEMMA NegativeLexes ==
    ASSUME NEW n \in Nat
    PROVE  IsScalar(<<45>> \o Decimal(n), Integer(-n))
<1> DEFINE d == Decimal(n)
           m == <<45>>
           w == m \o d
<1>1. d \in Seq(48 .. 57) /\ Numeral(d) /\ Reading(d) = n
  BY DecimalExact
<1> HIDE DEF d
<1>2. d \in Seq(Byte) /\ m \in Seq(Byte) /\ Len(m) = 1 /\ m[1] = 45 /\ Len(d) \in Nat
  <2>1. 48 .. 57 \subseteq 0 .. 255
    OBVIOUS
  <2> QED BY <1>1, <2>1, LenProperties DEF Byte
<1>c. \A k \in 1 .. Len(d) : d[k] \in 48 .. 57
  BY <1>1
<1> HIDE DEF m
<1>3. /\ w \in Seq(Byte) /\ Len(w) = 1 + Len(d) /\ w[1] = 45
      /\ \A j \in 1 .. Len(d) : w[1 + j] = d[j]
  <2>1. /\ w \in Seq(Byte) /\ Len(w) = Len(m) + Len(d)
        /\ \A j \in 1 .. Len(m) : w[j] = m[j]
        /\ \A j \in 1 .. Len(d) : w[Len(m) + j] = d[j]
    <3>1. \A s, u \in Seq(Byte) :
             /\ s \o u \in Seq(Byte) /\ Len(s \o u) = Len(s) + Len(u)
             /\ \A j \in 1 .. Len(s) : (s \o u)[j] = s[j]
             /\ \A j \in 1 .. Len(u) : (s \o u)[Len(s) + j] = u[j]
      BY ConcatAt
    <3> QED BY <1>2, <3>1, Zenon
  <2> HIDE DEF w
  <2> QED BY <1>2, <2>1
<1> HIDE DEF w
<1>4. w # << >> /\ 1 \in DOMAIN w
  BY <1>2, <1>3
<1>5. Tail(w) = d
  <2>1. Tail(w) \in Seq(Byte) /\ Len(Tail(w)) = Len(d)
        /\ \A j \in 1 .. Len(d) : Tail(w)[j] = w[j + 1]
    BY <1>2, <1>3, <1>4, HeadTailProperties
  <2>2. \A j \in 1 .. Len(d) : Tail(w)[j] = d[j]
    <3> TAKE j \in 1 .. Len(d)
    <3>1. j + 1 = 1 + j
      BY <1>2
    <3> QED BY <1>3, <2>1, <3>1
  <2> DEFINE r == Tail(w)
  <2> HIDE DEF r
  <2>3. r = d
    BY <1>2, <2>1, <2>2, SeqEqual DEF r
  <2> QED BY <2>3 DEF r
<1>6. ~Numeral(w)
  <2>1. 45 \notin 48 .. 57
    OBVIOUS
  <2> QED BY <1>3, <1>4, <2>1, Zenon DEF Numeral
<1>7. Scalar(w) = Integer(-n)
  BY <1>1, <1>3, <1>5, <1>6, Zenon DEF Scalar
<1>8. \A k \in 1 .. Len(w) : BareByte(w[k])
  <2> TAKE k \in 1 .. Len(w)
  <2>1. CASE k = 1
    BY <1>3, <2>1 DEF BareByte
  <2>2. CASE k # 1
    <3>1. k - 1 \in 1 .. Len(d) /\ 1 + (k - 1) = k
      BY <1>2, <1>3, <2>2
    <3>2. w[k] \in 48 .. 57
      BY <1>3, <1>c, <3>1
    <3> QED BY <3>2, Zenon DEF BareByte
  <2> QED BY <2>1, <2>2
<1>9. Lexes(TRUE, w, <<Scalar(w)>>)
  BY <1>3, <1>4, <1>8, LexesBare, Zenon
<1> QED BY <1>7, <1>9, Zenon DEF IsScalar, w, m, d

(* true and false read as words, not as numbers. *)
LEMMA WordLexes ==
    ASSUME NEW w \in Seq(97 .. 122), w # << >>
    PROVE  IsScalar(w, Bare(w))
<1>1. /\ Len(w) \in Nat \ {0} /\ 1 \in DOMAIN w /\ 1 \in 1 .. Len(w)
      /\ \A k \in 1 .. Len(w) : w[k] \in 97 .. 122
  <2>1. Len(w) \in Nat /\ DOMAIN w = 1 .. Len(w) /\ Len(w) # 0
    BY EmptySeq, LenProperties
  <2>2. \A k \in 1 .. Len(w) : w[k] \in 97 .. 122
    <3> DEFINE S == 97 .. 122
    <3> HIDE DEF S
    <3>1. w \in Seq(S)
      BY DEF S
    <3>2. \A k \in 1 .. Len(w) : w[k] \in S
      BY <3>1, ElementOfSeq
    <3> QED BY <3>2 DEF S
  <2> QED BY <2>1, <2>2
<1>2. w \in Seq(Byte)
  <2>1. 97 .. 122 \subseteq 0 .. 255
    OBVIOUS
  <2> QED BY <2>1 DEF Byte
<1>3. w[1] \notin 48 .. 57 /\ w[1] # 45
  <2>1. w[1] \in 97 .. 122
    BY <1>1
  <2>2. \A c \in 97 .. 122 : c \notin 48 .. 57 /\ c # 45
    OBVIOUS
  <2> QED BY <2>1, <2>2, Zenon
<1>4. Scalar(w) = Bare(w)
  BY <1>1, <1>3, Zenon DEF Scalar, Numeral
<1>5. \A k \in 1 .. Len(w) : BareByte(w[k])
  BY <1>1, Zenon DEF BareByte
<1>6. Lexes(TRUE, w, <<Scalar(w)>>)
  BY <1>2, <1>5, LexesBare, Zenon
<1> QED BY <1>4, <1>6, Zenon DEF IsScalar

(* The magnitude of a negative number: its two's complement, negated. *)
LEMMA MagnitudeIs ==
    ASSUME NEW v \in Int, v < 0, v >= -(Word \div 2)
    PROVE  Magnitude(v) = -v /\ -v \in Nat
<1>1. Word \in Nat \ {0}
  BY JsonEncoderConstants
<1>2. -v \in 1 .. Word - 1
  <2>1. 2 * (Word \div 2) <= Word
    BY <1>1
  <2> DEFINE h == Word \div 2
  <2>2. h \in Int /\ 2 * h <= Word /\ v >= -h
    BY <1>1, <2>1
  <2> HIDE DEF h
  <2> QED BY <1>1, <2>2
<1>3. v % Word = v + Word
  <2>1. v + Word \in 0 .. Word - 1 /\ v = Word * (-1) + (v + Word)
    BY <1>1, <1>2
  <2> QED BY <1>1, <2>1, ModSame
<1>4. (Word - (v + Word)) % Word = -v
  <2>1. Word - (v + Word) = -v /\ -v = Word * 0 + (-v)
    BY <1>1
  <2>2. (-v) % Word = -v
    BY <1>1, <1>2, <2>1, ModSame
  <2> QED BY <2>1, <2>2
<1> QED BY <1>2, <1>3, <1>4 DEF Magnitude

----------------------------------------------------------------------------
(* What the encoder prints of a value reads back as the value *)

NoNull(p) == \A j \in 1 .. Len(p) : p[j] # Null

\* The pieces p are the one token T, if something ends them.
ValueAs(p, T) == p \in Seq(Piece) /\ (NoNull(p) => IsScalar(Joined(p), T))

\* v is the copy of the value of a.
HoldsValue(v, a) ==
    /\ v.kind = a.value.kind
    /\ v.kind \in {"STRING", "SIGNED", "UNSIGNED", "BOOL", "DOUBLE"}
    /\ v.kind = "STRING" =>
          /\ Sound(v.data)
          /\ v.data.text = IF input.enabled /\ Sensitive(a.key) THEN Literal ELSE a.value.data
    /\ v.kind # "STRING" => v = a.value
    /\ v.kind = "SIGNED" => v.num \in Int /\ v.num >= -(Word \div 2)
    /\ v.kind = "UNSIGNED" => v.num \in Nat
    /\ v.kind = "BOOL" => v.num \in {0, 1}
    /\ v.kind = "DOUBLE" => /\ v.data \in Seq(Byte) /\ v.data # << >>
                            /\ \A k \in 1 .. Len(v.data) : BareByte(v.data[k])

(* A string, or the literal in its place. *)
LEMMA StringValue ==
    ASSUME NEW v, NEW a, HoldsValue(v, a), v.kind = "STRING", NEW cpu
    PROVE  ValueAs(append_json_string_known_escape(cpu, v.data), ValueOf(a))
<1> DEFINE p == append_json_string_known_escape(cpu, v.data)
           s == v.data.text
<1>1. Sound(v.data) /\ a.value.kind = "STRING"
      /\ s = IF input.enabled /\ Sensitive(a.key) THEN Literal ELSE a.value.data
  BY Zenon DEF HoldsValue
<1>2. QuotedAs(p, s)
  BY <1>1, StringQuoted, Zenon
<1>3. ValueOf(a) = Str(s)
  BY <1>1, Zenon DEF ValueOf
<1> HIDE DEF p, s
<1>4. PICK e : Spells(e, s) /\ Joined(p) = InQuotes(e) /\ p \in Seq(Piece)
  BY <1>2, Zenon DEF QuotedAs
<1>5. Lexes(TRUE, InQuotes(e), <<Str(s)>>)
  BY <1>4, LexesString, LexesOpen, Zenon
<1> QED BY <1>3, <1>4, <1>5, Zenon DEF ValueAs, IsScalar, p

(* A number without sign. *)
LEMMA UnsignedValue ==
    ASSUME NEW n \in Nat
    PROVE  ValueAs(append_uint64_decimal(n), Integer(n))
<1> DEFINE d == Decimal(n)
<1>1. d \in Seq(Byte) /\ IsScalar(d, Integer(n))
  BY DecimalIs, DecimalLexes
<1>2. append_uint64_decimal(n) = <<d>>
  BY Zenon DEF append_uint64_decimal
<1> HIDE DEF d
<1>3. Joined(<<d>>) = d /\ <<d>> \in Seq(Piece)
  BY <1>1, JoinedFew, Zenon
<1> QED BY <1>1, <1>2, <1>3, Zenon DEF ValueAs

(* A number with a sign, the least one of its word included. *)
LEMMA SignedValue ==
    ASSUME NEW n \in Int, n >= -(Word \div 2)
    PROVE  ValueAs(append_int64_decimal(n), Integer(n))
<1> DEFINE m == Magnitude(n)
<1>1. CASE n < 0
  <2>1. m = -n /\ -n \in Nat /\ -(-n) = n
    BY <1>1, MagnitudeIs
  <2>b. B("-") = <<45>>
    BY TimeLiterals, Zenon
  <2> DEFINE c == <<45>>
             d == Decimal(-n)
  <2>2. append_int64_decimal(n) = <<c>> \o <<d>>
    <3>1. append_int64_decimal(n) = <<B("-")>> \o <<Decimal(m)>>
      BY <1>1, Zenon DEF append_int64_decimal, append_uint64_decimal
    <3> HIDE DEF m
    <3> QED BY <2>1, <2>b, <3>1, Zenon
  <2>3. c \in Seq(Byte) /\ d \in Seq(Byte)
    BY <2>1, DecimalIs DEF Byte
  <2>4. IsScalar(c \o d, Integer(n))
    BY <2>1, NegativeLexes
  <2> HIDE DEF c, d
  <2>5. Joined(<<c>>) = c /\ <<c>> \in Seq(Piece) /\ Joined(<<d>>) = d /\ <<d>> \in Seq(Piece)
    BY <2>3, JoinedFew, Zenon
  <2>6. Joined(<<c>> \o <<d>>) = c \o d /\ <<c>> \o <<d>> \in Seq(Piece)
    <3> DEFINE x == <<c>>
               y == <<d>>
    <3> HIDE DEF x, y
    <3>1. x \in Seq(Piece) /\ y \in Seq(Piece) /\ Joined(x) = c /\ Joined(y) = d
      BY <2>5 DEF x, y
    <3>2. Joined(x \o y) = c \o d /\ x \o y \in Seq(Piece)
      BY <3>1, JoinedBoth
    <3> QED BY <3>2 DEF x, y
  <2> QED BY <2>2, <2>4, <2>6, Zenon DEF ValueAs
<1>2. CASE ~(n < 0)
  <2>1. n \in Nat
    BY <1>2
  <2>2. m = n
    BY <1>2 DEF Magnitude
  <2>3. append_int64_decimal(n) = << >> \o append_uint64_decimal(n)
    BY <1>2, <2>2, Zenon DEF append_int64_decimal
  <2>4. ValueAs(append_uint64_decimal(n), Integer(n))
    BY <2>1, UnsignedValue
  <2>5. << >> \o append_uint64_decimal(n) = append_uint64_decimal(n)
    <3>1. append_uint64_decimal(n) \in Seq(Piece)
      BY <2>4 DEF ValueAs
    <3> QED BY <3>1, ConcatEmptySeq
  <2> QED BY <2>3, <2>4, <2>5, Zenon
<1> QED BY <1>1, <1>2

(* A truth value. *)
LEMMA BoolValue ==
    LET t == B("true")
        f == B("false")
    IN  ValueAs(<<t>>, Bare(t)) /\ ValueAs(<<f>>, Bare(f))
<1> DEFINE t == B("true")
           f == B("false")
<1>1. t = <<116, 114, 117, 101>> /\ f = <<102, 97, 108, 115, 101>>
  BY JsonSpelling, Zenon
<1> HIDE DEF t, f
<1>2. /\ t \in Seq(97 .. 122) /\ t # << >> /\ f \in Seq(97 .. 122) /\ f # << >>
      /\ t \in Seq(Byte) /\ f \in Seq(Byte)
  BY <1>1 DEF Byte
<1>3. IsScalar(t, Bare(t)) /\ IsScalar(f, Bare(f))
  BY <1>2, WordLexes
<1>4. Joined(<<t>>) = t /\ <<t>> \in Seq(Piece) /\ Joined(<<f>>) = f /\ <<f>> \in Seq(Piece)
  BY <1>2, JoinedFew
<1>5. ValueAs(<<t>>, Bare(t)) /\ ValueAs(<<f>>, Bare(f))
  BY <1>3, <1>4, Zenon DEF ValueAs
<1> QED BY <1>5, Zenon DEF t, f

(* A double that fits its buffer, in the C locale. *)
LEMMA DoubleValue ==
    ASSUME NEW d \in Seq(Byte), d # << >>, \A k \in 1 .. Len(d) : BareByte(d[k]), NEW long
    PROVE  ValueAs(<<IF long THEN Null ELSE Printed("C", d)>>, Scalar(d))
<1>1. Printed("C", d) = d
  <2>1. DOMAIN d = 1 .. Len(d) /\ Len(d) \in Nat
    BY LenProperties
  <2>2. d = [k \in DOMAIN d |-> d[k]]
    BY <2>1
  <2>3. \A k \in DOMAIN d : (IF d[k] = 46 THEN Separator("C") ELSE d[k]) = d[k]
    BY Zenon DEF Separator
  <2> DEFINE F(k) == IF d[k] = 46 THEN Separator("C") ELSE d[k]
  <2>4. Printed("C", d) = [k \in DOMAIN d |-> F(k)]
    BY Zenon DEF Printed
  <2>5. \A k \in DOMAIN d : F(k) = d[k]
    BY <2>3, Zenon
  <2> HIDE DEF F
  <2> QED BY <2>2, <2>4, <2>5
<1>2. IsScalar(d, Scalar(d))
  BY LexesBare, Zenon DEF IsScalar
<1>3. CASE ~long
  <2>1. Joined(<<d>>) = d /\ <<d>> \in Seq(Piece)
    BY JoinedFew
  <2> QED BY <1>1, <1>2, <1>3, <2>1, Zenon DEF ValueAs
<1>4. CASE long
  <2> DEFINE p == <<Null>>
  <2>1. p \in Seq(Piece) /\ Len(p) = 1 /\ p[1] = Null /\ 1 \in 1 .. 1
    BY DEF Piece
  <2> HIDE DEF p
  <2>2. ~NoNull(p)
    BY <2>1 DEF NoNull
  <2>3. ValueAs(p, Scalar(d))
    BY <2>1, <2>2, Zenon DEF ValueAs
  <2> QED BY <1>4, <2>3, Zenon DEF p
<1> QED BY <1>3, <1>4

(* A value is printed as one token. *)
LEMMA ValueIs ==
    ASSUME NEW v, NEW a, HoldsValue(v, a), input.locale = "C"
    PROVE  ValueAs(append_attr_value(input, v), ValueOf(a))
<1> DEFINE k == v.kind
<1>0. /\ a.value.kind = k /\ k \in {"STRING", "SIGNED", "UNSIGNED", "BOOL", "DOUBLE"}
      /\ k # "STRING" => v = a.value
  BY Zenon DEF HoldsValue
<1>1. CASE k = "STRING"
  <2>1. append_attr_value(input, v) = append_json_string_known_escape(input.cpu, v.data)
    BY <1>1, Zenon DEF append_attr_value
  <2>2. ValueAs(append_json_string_known_escape(input.cpu, v.data), ValueOf(a))
    BY <1>1, StringValue, Zenon
  <2> QED BY <2>1, <2>2, Zenon
<1>2. CASE k = "SIGNED"
  <2>1. append_attr_value(input, v) = append_int64_decimal(v.num)
    BY <1>2, Zenon DEF append_attr_value
  <2>2. ValueOf(a) = Integer(v.num)
    BY <1>0, <1>2, Zenon DEF ValueOf
  <2>3. v.num \in Int /\ v.num >= -(Word \div 2)
    BY <1>2, Zenon DEF HoldsValue
  <2>4. ValueAs(append_int64_decimal(v.num), Integer(v.num))
    BY <2>3, SignedValue
  <2> QED BY <2>1, <2>2, <2>4, Zenon
<1>3. CASE k = "UNSIGNED"
  <2>1. append_attr_value(input, v) = append_uint64_decimal(v.num)
    BY <1>3, Zenon DEF append_attr_value
  <2>2. ValueOf(a) = Integer(v.num)
    BY <1>0, <1>3, Zenon DEF ValueOf
  <2>3. v.num \in Nat
    BY <1>3, Zenon DEF HoldsValue
  <2>4. ValueAs(append_uint64_decimal(v.num), Integer(v.num))
    BY <2>3, UnsignedValue
  <2> QED BY <2>1, <2>2, <2>4, Zenon
<1>4. CASE k = "BOOL"
  <2> DEFINE t == B("true")
             f == B("false")
  <2>1. append_attr_value(input, v) = <<IF v.num # 0 THEN t ELSE f>>
    BY <1>4, Zenon DEF append_attr_value
  <2>2. ValueOf(a) = Bare(IF v.num = 1 THEN t ELSE f)
    BY <1>0, <1>4, Zenon DEF ValueOf
  <2>3. v.num \in {0, 1}
    BY <1>4, Zenon DEF HoldsValue
  <2>4. ValueAs(<<t>>, Bare(t)) /\ ValueAs(<<f>>, Bare(f))
    BY BoolValue, Zenon
  <2> HIDE DEF t, f
  <2>5. CASE v.num = 0
    <3>1. 0 # 1
      OBVIOUS
    <3> QED BY <2>1, <2>2, <2>4, <2>5, <3>1, Zenon
  <2>6. CASE v.num = 1
    <3>1. 1 # 0
      OBVIOUS
    <3> QED BY <2>1, <2>2, <2>4, <2>6, <3>1, Zenon
  <2> QED BY <2>3, <2>5, <2>6
<1>5. CASE k = "DOUBLE"
  <2> DEFINE long == Len(v.data) >= NumberBuffer
  <2>1. append_attr_value(input, v) = <<IF long THEN Null ELSE Printed("C", v.data)>>
    BY <1>5, Zenon DEF append_attr_value
  <2>2. ValueOf(a) = Scalar(v.data)
    BY <1>0, <1>5, Zenon DEF ValueOf
  <2>3. /\ v.data \in Seq(Byte) /\ v.data # << >>
        /\ \A j \in 1 .. Len(v.data) : BareByte(v.data[j])
    BY <1>5, Zenon DEF HoldsValue
  <2> HIDE DEF long
  <2>4. ValueAs(<<IF long THEN Null ELSE Printed("C", v.data)>>, Scalar(v.data))
    BY <2>3, DoubleValue, Zenon
  <2> QED BY <2>1, <2>2, <2>4, Zenon
<1> QED BY <1>0, <1>1, <1>2, <1>3, <1>4, <1>5, Zenon

----------------------------------------------------------------------------
(* Members one after another *)

NameAndTokens == Seq(Byte) \X Seq(Tok)

\* The text x[k] is the member m[k], behind b others.
Items(b, x, m) ==
    /\ x \in Seq(Seq(Byte)) /\ m \in Seq(NameAndTokens) /\ Len(m) = Len(x)
    /\ \A k \in 1 .. Len(x) : IsItem(b + k, x[k], m[k])

\* The text t are the members m.
Members(b, t, m) == \E x : Items(b, x, m) /\ t = FlattenSeq(x)

(* All members but the first look alike. *)
LEMMA LaterItem ==
    ASSUME NEW k \in Nat, k > 1, NEW n \in Nat, n > 1, NEW x, NEW m, IsItem(k, x, m)
    PROVE  IsItem(n, x, m)
<1>1. ItemTokens(k, m) = ItemTokens(n, m)
  BY Zenon DEF ItemTokens
<1> QED BY <1>1, Zenon DEF IsItem

(* Members followed by later members. *)
LEMMA MembersBoth ==
    ASSUME NEW b \in {0, 1}, NEW t, NEW m, Members(b, t, m), NEW u, NEW w, Members(1, u, w),
           b = 1 \/ m # << >>
    PROVE  Members(b, t \o u, m \o w)
<1>1. PICK x : Items(b, x, m) /\ t = FlattenSeq(x)
  BY Zenon DEF Members
<1>2. PICK y : Items(1, y, w) /\ u = FlattenSeq(y)
  BY Zenon DEF Members
<1> DEFINE S == Seq(Byte)
           M == NameAndTokens
           p == Len(x)
           q == Len(y)
           z == x \o y
           v == m \o w
<1>3. /\ x \in Seq(S) /\ m \in Seq(M) /\ Len(m) = p /\ p \in Nat
      /\ \A k \in 1 .. p : IsItem(b + k, x[k], m[k])
      /\ y \in Seq(S) /\ w \in Seq(M) /\ Len(w) = q /\ q \in Nat
      /\ \A k \in 1 .. q : IsItem(1 + k, y[k], w[k])
  BY <1>1, <1>2, LenProperties DEF Items
<1>4. FlattenSeq(z) = t \o u
  BY <1>1, <1>2, <1>3, FlattenBoth
<1> HIDE DEF S, M, p, q
<1>5. /\ z \in Seq(S) /\ Len(z) = p + q
      /\ \A k \in 1 .. p : z[k] = x[k]
      /\ \A k \in 1 .. q : z[p + k] = y[k]
  BY <1>3, ConcatAt DEF p, q
<1>6. /\ v \in Seq(M) /\ Len(v) = p + q
      /\ \A k \in 1 .. p : v[k] = m[k]
      /\ \A k \in 1 .. q : v[p + k] = w[k]
  <2>1. /\ v \in Seq(M) /\ Len(v) = Len(m) + Len(w)
        /\ \A k \in 1 .. Len(m) : v[k] = m[k]
        /\ \A k \in 1 .. Len(w) : v[Len(m) + k] = w[k]
    <3>1. m \in Seq(M) /\ w \in Seq(M)
      BY <1>3
    <3> QED BY <3>1, ConcatAt
  <2> HIDE DEF v
  <2> QED BY <1>3, <2>1
<1>7. b = 1 \/ p > 0
  BY <1>3, EmptySeq
<1> HIDE DEF z, v
<1>8. ASSUME NEW k \in 1 .. p + q PROVE IsItem(b + k, z[k], v[k])
  <2>1. CASE k \in 1 .. p
    BY <1>3, <1>5, <1>6, <2>1
  <2>2. CASE k \notin 1 .. p
    <3> DEFINE j == k - p
    <3>1. /\ j \in 1 .. q /\ p + j = k /\ 1 + j \in Nat /\ 1 + j > 1
          /\ b + k \in Nat /\ b + k > 1
      BY <1>3, <1>7, <2>2
    <3> HIDE DEF j
    <3>2. IsItem(1 + j, y[j], w[j])
      BY <1>3, <3>1
    <3>3. IsItem(b + k, y[j], w[j])
      BY <3>1, <3>2, LaterItem, Zenon
    <3>4. z[k] = y[j] /\ v[k] = w[j]
      BY <1>5, <1>6, <3>1
    <3> QED BY <3>3, <3>4
  <2> QED BY <2>1, <2>2
<1>9. Items(b, z, v)
  BY <1>5, <1>6, <1>8 DEF Items, S, M
<1>10. Members(b, t \o u, v)
  BY <1>4, <1>9, Zenon DEF Members
<1> QED BY <1>10 DEF v

(* One member. *)
LEMMA MembersOne ==
    ASSUME NEW b \in {0, 1}, NEW x, NEW s \in Seq(Byte), NEW V \in Seq(Tok),
           IsItem(b + 1, x, <<s, V>>)
    PROVE  Members(b, x, << <<s, V>> >>)
<1> DEFINE m == <<s, V>>
           X == <<x>>
           N == <<m>>
<1>1. x \in Seq(Byte) /\ m \in NameAndTokens
  BY DEF IsItem, Lexes, NameAndTokens
<1> HIDE DEF m
<1>2. /\ X \in Seq(Seq(Byte)) /\ N \in Seq(NameAndTokens) /\ Len(N) = 1 /\ Len(X) = 1
      /\ X[1] = x /\ N[1] = m /\ \A k \in 1 .. 1 : k = 1
  BY <1>1
<1>3. FlattenSeq(X) = x
  BY <1>1, FlattenFew
<1> HIDE DEF X, N
<1>4. Items(b, X, N)
  BY <1>2 DEF Items, m
<1>5. Members(b, x, N)
  BY <1>3, <1>4, Zenon DEF Members
<1> QED BY <1>5, Zenon DEF N, m

(* No member. *)
LEMMA MembersNone == Members(1, << >>, << >>)
<1>1. << >> \in Seq(Seq(Byte)) /\ << >> \in Seq(NameAndTokens) /\ Len(<< >>) = 0
      /\ 1 .. 0 = {} /\ << >> \in Seq(Byte)
  OBVIOUS
<1>2. Items(1, << >>, << >>)
  BY <1>1 DEF Items
<1>3. FlattenSeq(<< >>) = << >>
  BY <1>1, FlattenFew
<1> QED BY <1>2, <1>3, Zenon DEF Members

(* The members of an object in its braces. *)
LEMMA MembersObject ==
    ASSUME NEW t, NEW m, Members(0, t, m)
    PROVE  Lexes(FALSE, <<123>> \o t \o <<125>>, Object(m))
<1>1. PICK x : Items(0, x, m) /\ t = FlattenSeq(x)
  BY Zenon DEF Members
<1> DEFINE n == Len(x)
<1>2. n \in Nat /\ AreItems(x, m, n)
  <2>1. /\ x \in Seq(Seq(Byte)) /\ m \in Seq(NameAndTokens) /\ Len(m) = n
        /\ \A k \in 1 .. n : IsItem(0 + k, x[k], m[k])
    BY <1>1 DEF Items
  <2>2. n \in Nat /\ DOMAIN m = 1 .. n
    BY <2>1, LenProperties
  <2> HIDE DEF n
  <2>3. \A k \in 1 .. n : 0 + k = k
    BY <2>2
  <2> QED BY <2>1, <2>2, <2>3 DEF AreItems, n
<1> HIDE DEF n
<1>3. Lexes(FALSE, <<123>> \o FlattenSeq(x) \o <<125>>, Object(m))
  BY <1>2, ObjectIs, Zenon
<1> QED BY <1>1, <1>3, Zenon

----------------------------------------------------------------------------
(* Attributes *)

(* No error among all pieces, so none in either part. *)
LEMMA NoNullBoth ==
    ASSUME NEW p \in Seq(Piece), NEW q \in Seq(Piece), NoNull(p \o q)
    PROVE  NoNull(p) /\ NoNull(q)
<1> DEFINE r == p \o q
<1>1. /\ Len(r) = Len(p) + Len(q) /\ Len(p) \in Nat /\ Len(q) \in Nat
      /\ \A j \in 1 .. Len(p) : r[j] = p[j]
      /\ \A j \in 1 .. Len(q) : r[Len(p) + j] = q[j]
  BY ConcatAt, LenProperties
<1>2. \A j \in 1 .. Len(r) : r[j] # Null
  BY DEF NoNull
<1> HIDE DEF r
<1>3. /\ \A j \in 1 .. Len(p) : j \in 1 .. Len(r)
      /\ \A j \in 1 .. Len(q) : Len(p) + j \in 1 .. Len(r)
  BY <1>1
<1>4. (\A j \in 1 .. Len(p) : p[j] # Null) /\ (\A j \in 1 .. Len(q) : q[j] # Null)
  BY <1>1, <1>2, <1>3
<1> QED BY <1>4, Zenon DEF NoNull

\* The texts of lists of pieces.
PieceTexts(q) == [k \in 1 .. Len(q) |-> Joined(q[k])]

(* The text of the pieces of several parts is that of the parts. *)
LEMMA JoinedFlat ==
    ASSUME NEW q \in Seq(Seq(Piece))
    PROVE  /\ Joined(FlattenSeq(q)) = FlattenSeq(PieceTexts(q)) /\ FlattenSeq(q) \in Seq(Piece)
           /\ PieceTexts(q) \in Seq(Seq(Byte)) /\ Len(PieceTexts(q)) = Len(q)
           /\ NoNull(FlattenSeq(q)) => \A k \in 1 .. Len(q) : NoNull(q[k])
<1> DEFINE n == Len(q)
           y == PieceTexts(q)
<1>1. n \in Nat /\ \A k \in 1 .. n : q[k] \in Seq(Piece)
  BY LenProperties, ElementOfSeq
<1>2. y \in Seq(Seq(Byte)) /\ Len(y) = n /\ \A k \in 1 .. n : y[k] = Joined(q[k])
  <2> DEFINE S == Seq(Byte)
             F(k) == Joined(q[k])
  <2>1. \A k \in 1 .. n : F(k) \in S
    BY <1>1, JoinedIs
  <2>2. y = [k \in 1 .. n |-> F(k)]
    BY Zenon DEF PieceTexts
  <2> HIDE DEF S, F, y, n
  <2>3. y \in Seq(S) /\ Len(y) = n /\ \A k \in 1 .. n : y[k] = F(k)
    BY <1>1, <2>1, <2>2
  <2> QED BY <2>3 DEF S, F
<1> HIDE DEF y
<1>3. PICK f : Flat(f, q, n, Piece) /\ FlattenSeq(q) = f[n]
  BY FlattenIs
<1>4. PICK g : Flat(g, y, n, Byte) /\ FlattenSeq(y) = g[n]
  BY <1>2, FlattenIs
<1> HIDE DEF n
<1>5. /\ \A k \in 0 .. n : f[k] \in Seq(Piece) /\ g[k] \in Seq(Byte)
      /\ f[0] = << >> /\ g[0] = << >>
      /\ \A k \in 1 .. n : f[k] = f[k - 1] \o q[k] /\ g[k] = g[k - 1] \o y[k]
  BY <1>3, <1>4 DEF Flat
<1> DEFINE P(k) == Joined(f[k]) = g[k]
                     /\ (NoNull(f[k]) => \A j \in 1 .. k : NoNull(q[j]))
           D == {k \in 0 .. n : ~P(k)}
<1>6. ASSUME n \in D PROVE FALSE
  <2>1. PICK k \in D : \A z \in D : k <= z
    <3> HIDE DEF P
    <3>1. D \subseteq Nat
      OBVIOUS
    <3> HIDE DEF D
    <3> QED BY <1>6, <3>1, LeastIs
  <2>k. k \in 0 .. n /\ ~P(k)
    BY <2>1
  <2>0. k \in 0 .. n
    BY <2>k
  <2>2. CASE k = 0
    <3>1. Joined(<< >>) = << >>
      <4>1. << >> \in Seq(Byte)
        OBVIOUS
      <4> QED BY <4>1, JoinedFew, Zenon
    <3>2. 1 .. 0 = {}
      OBVIOUS
    <3> QED BY <1>5, <2>k, <2>2, <3>1, <3>2, Zenon
  <2>3. CASE k # 0
    <3>1. k \in 1 .. n /\ k - 1 \in 0 .. n /\ ~(k <= k - 1)
          /\ \A j \in 1 .. k : j = k \/ j \in 1 .. k - 1
      <4> HIDE DEF P, D
      <4> QED BY <1>1, <2>0, <2>3
    <3>2. P(k - 1)
      <4> HIDE DEF P
      <4> QED BY <2>1, <3>1
    <3> DEFINE a == f[k - 1]
               c == q[k]
    <3>3. a \in Seq(Piece) /\ c \in Seq(Piece) /\ f[k] = a \o c /\ g[k] = g[k - 1] \o y[k]
      BY <1>1, <1>5, <3>1
    <3>4. Joined(a) = g[k - 1] /\ y[k] = Joined(c)
      BY <1>2, <3>1, <3>2
    <3>a. NoNull(a) => \A j \in 1 .. k - 1 : NoNull(q[j])
      BY <3>2
    <3>b. c = q[k]
      OBVIOUS
    <3> HIDE DEF a, c, P
    <3>5. Joined(a \o c) = Joined(a) \o Joined(c)
      BY <3>3, JoinedBoth
    <3>6. Joined(f[k]) = g[k]
      BY <3>3, <3>4, <3>5, Zenon
    <3>7. ASSUME NoNull(f[k]) PROVE \A j \in 1 .. k : NoNull(q[j])
      <4>1. NoNull(a) /\ NoNull(c)
        BY <3>3, <3>7, NoNullBoth, Zenon
      <4> QED BY <3>1, <3>a, <3>b, <4>1, Zenon
    <3> QED BY <2>k, <3>6, <3>7, Zenon DEF P
  <2> QED BY <2>2, <2>3
<1>7. P(n)
  <2>1. n \in 0 .. n
    BY <1>1
  <2> HIDE DEF P
  <2> QED BY <1>6, <2>1
<1>8. f[n] \in Seq(Piece)
  BY <1>1, <1>5
<1> QED BY <1>2, <1>3, <1>4, <1>7, <1>8, Zenon DEF n, y

----------------------------------------------------------------------------
(* What the encoder prints of the attributes *)

(* The laws of concatenation, for strings of bytes. *)
LEMMA ByteCat ==
    /\ \A a, b, d \in Seq(Byte) : (a \o b) \o d = a \o (b \o d)
    /\ \A a, b \in Seq(Byte) : a \o b \in Seq(Byte)
    /\ \A a \in Seq(Byte) : << >> \o a = a /\ a \o << >> = a
  BY ConcatAssociative, Joins, ConcatEmptySeq

\* Brackets do not matter.
Cats(a, b, c, d) == ((a \o b) \o c) \o d = a \o ((b \o c) \o d)

(* So for four strings. *)
LEMMA CatFour ==
    ASSUME NEW a \in Seq(Byte), NEW b \in Seq(Byte), NEW c \in Seq(Byte), NEW d \in Seq(Byte)
    PROVE  Cats(a, b, c, d)
<1> DEFINE x == b \o c
<1>1. x \in Seq(Byte) /\ (a \o b) \o c = a \o x
  BY ByteCat
<1> HIDE DEF x
<1>2. (a \o x) \o d = a \o (x \o d)
  BY <1>1, ByteCat
<1>3. ((a \o b) \o c) \o d = a \o (x \o d)
  BY <1>1, <1>2, Zenon
<1> QED BY <1>3, Zenon DEF Cats, x

(* A name in quotes and its label are strings of bytes. *)
LEMMA QuotedBytes ==
    ASSUME NEW e \in Seq(Byte)
    PROVE  /\ InQuotes(e) \in Seq(Byte)
           /\ \A n : Label(n, e) \in Seq(Byte)
           /\ \A n : Label(n, e) = (IF n > 1 THEN <<44>> ELSE << >>) \o (InQuotes(e) \o <<58>>)
<1>1. /\ <<Quote>> \in Seq(Byte) /\ <<44>> \in Seq(Byte) /\ <<58>> \in Seq(Byte)
      /\ << >> \in Seq(Byte)
  BY DEF Quote, Byte
<1>2. InQuotes(e) \in Seq(Byte)
  BY <1>1, Joins, Zenon DEF InQuotes
<1> DEFINE k == <<58>>
           q == InQuotes(e)
<1>k. k \in Seq(Byte) /\ q \in Seq(Byte)
  BY <1>1, <1>2
<1>3. ASSUME NEW n
      PROVE  /\ Label(n, e) \in Seq(Byte)
             /\ Label(n, e) = (IF n > 1 THEN <<44>> ELSE << >>) \o (q \o k)
  <2> DEFINE c == IF n > 1 THEN <<44>> ELSE << >>
  <2>1. c \in Seq(Byte)
    BY <1>1
  <2>2. Label(n, e) = (c \o q) \o k
    BY Zenon DEF Label
  <2> HIDE DEF c, q, k
  <2>3. (c \o q) \o k \in Seq(Byte) /\ (c \o q) \o k = c \o (q \o k)
    BY <1>k, <2>1, ByteCat
  <2> QED BY <2>2, <2>3, Zenon DEF c
<1> QED BY <1>2, <1>3, Zenon

\* o is the copy of the attribute a.
HoldsAttribute(o, a) == Sound(o.key) /\ o.key.text = a.key /\ HoldsValue(o.value, a)

\* The pieces of the n-th attribute, and its name and tokens.
OnePieces(n, o) ==
    (IF n > 1 THEN <<B(",")>> ELSE << >>)
       \o append_json_key_known_escape(input.cpu, o.key)
       \o append_attr_value(input, o.value)
OneMeaning(a) == <<a.key, <<ValueOf(a)>> >>

AttributeAs(p, n, a) ==
    p \in Seq(Piece) /\ (NoNull(p) => IsItem(n, Joined(p), OneMeaning(a)))

(* The comma in front of a later attribute. *)
LEMMA CommaPieces ==
    ASSUME NEW n
    PROVE  LET c == IF n > 1 THEN <<B(",")>> ELSE << >>
           IN  c \in Seq(Piece) /\ Joined(c) = (IF n > 1 THEN <<44>> ELSE << >>)
<1> DEFINE b == B(",")
<1>1. b = <<44>> /\ b \in Seq(Byte) /\ << >> \in Seq(Piece) /\ << >> \in Seq(Byte)
  <2>1. b = <<44>>
    BY JsonSpelling, Zenon
  <2> HIDE DEF b
  <2> QED BY <2>1 DEF Byte
<1> HIDE DEF b
<1>2. Joined(<<b>>) = b /\ <<b>> \in Seq(Piece) /\ Joined(<< >>) = << >>
  BY <1>1, JoinedFew
<1> QED BY <1>1, <1>2, Zenon DEF b

(* What the encoder prints of one attribute is its member. *)
LEMMA AttributeIs ==
    ASSUME NEW n, NEW o, NEW a, HoldsAttribute(o, a), input.locale = "C"
    PROVE  AttributeAs(OnePieces(n, o), n, a)
<1> DEFINE c == IF n > 1 THEN <<B(",")>> ELSE << >>
           k == append_json_key_known_escape(input.cpu, o.key)
           v == append_attr_value(input, o.value)
           C == IF n > 1 THEN <<44>> ELSE << >>
<1>1. c \in Seq(Piece) /\ Joined(c) = C
  BY CommaPieces, Zenon
<1>2. KeyAs(k, a.key)
  BY KeyQuoted, Zenon DEF HoldsAttribute
<1>3. ValueAs(v, ValueOf(a))
  BY ValueIs, Zenon DEF HoldsAttribute
<1>4. OnePieces(n, o) = (c \o k) \o v
  BY Zenon DEF OnePieces
<1> HIDE DEF c, k, v
<1>5. PICK e : k \in Seq(Piece) /\ Spells(e, a.key) /\ Joined(k) = InQuotes(e) \o <<58>>
  BY <1>2, Zenon DEF KeyAs
<1>6. v \in Seq(Piece) /\ (NoNull(v) => Lexes(TRUE, Joined(v), <<ValueOf(a)>>))
  BY <1>3, Zenon DEF ValueAs, IsScalar
<1> DEFINE ck == c \o k
<1>7. ck \in Seq(Piece) /\ Joined(ck) = Label(n, e)
  <2>1. ck \in Seq(Piece) /\ Joined(ck) = Joined(c) \o Joined(k)
    BY <1>1, <1>5, JoinedBoth
  <2>2. Label(n, e) = C \o (InQuotes(e) \o <<58>>)
    <3>1. e \in Seq(Byte)
      BY <1>5, Zenon DEF Spells
    <3> QED BY <3>1, QuotedBytes, Zenon
  <2> HIDE DEF ck, C
  <2> QED BY <1>1, <1>5, <2>1, <2>2, Zenon
<1> HIDE DEF ck
<1>8. ck \o v \in Seq(Piece) /\ Joined(ck \o v) = Joined(ck) \o Joined(v)
  BY <1>6, <1>7, JoinedBoth
<1>9. ASSUME NoNull(ck \o v) PROVE IsItem(n, Joined(ck \o v), OneMeaning(a))
  <2>1. NoNull(v)
    BY <1>6, <1>7, <1>9, NoNullBoth, Zenon
  <2>2. Lexes(TRUE, Joined(v), <<ValueOf(a)>>)
    BY <1>6, <2>1, Zenon
  <2>3. IsItem(n, Label(n, e) \o Joined(v), <<a.key, <<ValueOf(a)>> >>)
    BY <1>5, <2>2, ItemIs, Zenon
  <2> QED BY <1>7, <1>8, <2>3, Zenon DEF OneMeaning
<1> QED BY <1>4, <1>8, <1>9, Zenon DEF AttributeAs, ck

\* What the attributes stand for in the event's object.
AttributeMeanings == [n \in DOMAIN attributes |-> OneMeaning(attributes[n])]
AttributeMember ==
    IF attributes = << >> THEN << >>
    ELSE << <<B("attributes"), Object(AttributeMeanings)>> >>

(* What it prints of all attributes is the member attributes, none if      *)
(* there are none.                                                         *)
LEMMA AttributesAre ==
    ASSUME input.locale = "C", NEW L \in Nat, DOMAIN attributes = 1 .. L,
           NEW own, DOMAIN own = 1 .. L, own = << >> <=> attributes = << >>,
           \A n \in 1 .. L : HoldsAttribute(own[n], attributes[n]),
           NEW A, A = Attributes(input, own), NoNull(A)
    PROVE  A \in Seq(Piece) /\ Members(1, Joined(A), AttributeMember)
<1> DEFINE op == B(",\"attributes\":{")
           cl == B("}")
           q == [n \in 1 .. L |-> OnePieces(n, own[n])]
           w == B("attributes")
<1>1. A = IF own = << >> THEN << >> ELSE <<op>> \o FlattenSeq(q) \o <<cl>>
  <2>1. Attributes(input, own) =
          IF own = << >> THEN << >>
          ELSE <<op>> \o FlattenSeq([n \in DOMAIN own |-> OnePieces(n, own[n])]) \o <<cl>>
    BY Zenon DEF Attributes, OnePieces
  <2> QED BY <2>1, Zenon
<1>2. /\ w \in Seq(Byte) /\ \A k \in DOMAIN w : w[k] \notin MustEscape
      /\ op = <<44>> \o InQuotes(w) \o <<58>> \o <<123>> /\ cl = <<125>>
  BY JsonSpelling, Zenon
<1> HIDE DEF op, cl, w
<1>3. CASE own = << >>
  <2>1. A = << >> /\ AttributeMember = << >>
    BY <1>1, <1>3, Zenon DEF AttributeMember
  <2>2. << >> \in Seq(Byte) /\ << >> \in Seq(Piece)
    OBVIOUS
  <2>3. Joined(<< >>) = << >>
    BY <2>2, JoinedFew, Zenon
  <2> QED BY <2>1, <2>2, <2>3, MembersNone, Zenon
<1>4. CASE own # << >>
  <2>1. A = (<<op>> \o FlattenSeq(q)) \o <<cl>>
    BY <1>1, <1>4, Zenon
  <2>2. ASSUME NEW n \in 1 .. L PROVE AttributeAs(q[n], n, attributes[n])
    <3>1. q[n] = OnePieces(n, own[n])
      OBVIOUS
    <3> HIDE DEF q
    <3> QED BY <3>1, AttributeIs, Zenon
  <2>3. q \in Seq(Seq(Piece)) /\ Len(q) = L
    <3> DEFINE S == Seq(Piece)
               F(n) == OnePieces(n, own[n])
    <3>1. \A n \in 1 .. L : F(n) \in S
      <4> TAKE n \in 1 .. L
      <4>1. q[n] = F(n)
        OBVIOUS
      <4> HIDE DEF q, F
      <4> QED BY <2>2, <4>1, Zenon DEF AttributeAs
    <3>2. q = [n \in 1 .. L |-> F(n)]
      BY Zenon
    <3> HIDE DEF S, F, q
    <3>3. q \in Seq(S) /\ Len(q) = L
      BY <3>1, <3>2
    <3> QED BY <3>3 DEF S
  <2> HIDE DEF q
  <2> DEFINE F == FlattenSeq(q)
             y == PieceTexts(q)
  <2>4. /\ Joined(F) = FlattenSeq(y) /\ F \in Seq(Piece) /\ y \in Seq(Seq(Byte)) /\ Len(y) = L
        /\ NoNull(F) => \A k \in 1 .. L : NoNull(q[k])
    BY <2>3, JoinedFlat, Zenon
  <2>5. \A k \in 1 .. L : y[k] = Joined(q[k])
    BY <2>3 DEF PieceTexts
  <2> HIDE DEF F, y
  <2> DEFINE lab == Label(2, w)
             b == <<123>>
  <2>6. lab \in Seq(Byte) /\ b \in Seq(Byte) /\ op = lab \o b /\ cl \in Seq(Byte)
        /\ op \in Seq(Byte)
    <3>1. lab \in Seq(Byte)
      BY <1>2, QuotedBytes, Zenon
    <3>2. 2 > 1
      OBVIOUS
    <3>3. op = lab \o b
      BY <1>2, <3>2, Zenon DEF Label
    <3>4. b \in Seq(Byte) /\ <<125>> \in Seq(Byte)
      BY DEF Byte
    <3> HIDE DEF lab, b
    <3>5. op \in Seq(Byte)
      BY <3>1, <3>3, <3>4, ByteCat
    <3> QED BY <1>2, <3>1, <3>3, <3>4, <3>5, Zenon
  <2>7. /\ Joined(<<op>>) = op /\ <<op>> \in Seq(Piece)
        /\ Joined(<<cl>>) = cl /\ <<cl>> \in Seq(Piece)
    BY <2>6, JoinedFew, Zenon
  <2> HIDE DEF lab, b
  <2> DEFINE O == <<op>>
             E == <<cl>>
  <2> HIDE DEF O, E
  <2>8. /\ O \o F \in Seq(Piece) /\ Joined(O \o F) = op \o Joined(F)
        /\ E \in Seq(Piece) /\ Joined(E) = cl /\ O \in Seq(Piece)
    <3>1. /\ O \in Seq(Piece) /\ E \in Seq(Piece) /\ Joined(O) = op /\ Joined(E) = cl
      BY <2>7 DEF O, E
    <3> QED BY <2>4, <3>1, JoinedBoth
  <2> DEFINE OF == O \o F
  <2> HIDE DEF OF
  <2>9. OF \o E \in Seq(Piece) /\ Joined(OF \o E) = Joined(OF) \o cl
    <3>1. OF \in Seq(Piece)
      BY <2>8 DEF OF
    <3> QED BY <2>8, <3>1, JoinedBoth
  <2>10. A = OF \o E
    BY <2>1, Zenon DEF OF, O, E, F
  <2>11. NoNull(F)
    <3>1. NoNull(OF)
      <4>1. OF \in Seq(Piece)
        BY <2>8 DEF OF
      <4> QED BY <2>8, <2>10, <4>1, NoNullBoth, Zenon
    <3> QED BY <2>4, <2>8, <3>1, NoNullBoth, Zenon DEF OF
  <2>12. Members(0, Joined(F), AttributeMeanings)
    <3> DEFINE m == AttributeMeanings
    <3>1. m = [n \in 1 .. L |-> OneMeaning(attributes[n])]
      BY Zenon DEF AttributeMeanings
    <3>2. ASSUME NEW n \in 1 .. L
          PROVE  OneMeaning(attributes[n]) \in NameAndTokens
                   /\ IsItem(n, y[n], OneMeaning(attributes[n]))
      <4>1. IsItem(n, y[n], OneMeaning(attributes[n]))
        BY <2>2, <2>4, <2>5, <2>11, Zenon DEF AttributeAs
      <4> DEFINE s == attributes[n].key
                 V == <<ValueOf(attributes[n])>>
      <4>2. s \in Seq(Byte)
        <5>1. HoldsAttribute(own[n], attributes[n])
          OBVIOUS
        <5> QED BY <5>1, Zenon DEF HoldsAttribute, Sound
      <4>3. V \in Seq(Tok)
        <5>1. ValueAs(append_attr_value(input, own[n].value), ValueOf(attributes[n]))
          BY ValueIs, Zenon DEF HoldsAttribute
        <5>2. NoNull(append_attr_value(input, own[n].value))
          <6> DEFINE ca == (IF n > 1 THEN <<B(",")>> ELSE << >>)
                     kk == append_json_key_known_escape(input.cpu, own[n].key)
                     vv == append_attr_value(input, own[n].value)
          <6>1. q[n] = (ca \o kk) \o vv
            BY Zenon DEF q, OnePieces
          <6>2. ca \in Seq(Piece)
            BY CommaPieces, Zenon
          <6>3. kk \in Seq(Piece)
            <7>1. KeyAs(kk, own[n].key.text)
              BY KeyQuoted, Zenon DEF HoldsAttribute
            <7> QED BY <7>1, Zenon DEF KeyAs
          <6>4. vv \in Seq(Piece)
            BY <5>1, Zenon DEF ValueAs
          <6> HIDE DEF ca, kk, vv
          <6>5. ca \o kk \in Seq(Piece)
            BY <6>2, <6>3, JoinedBoth
          <6>6. NoNull(q[n])
            BY <2>4, <2>11
          <6>7. NoNull(vv)
            BY <6>1, <6>4, <6>5, <6>6, NoNullBoth, Zenon
          <6> QED BY <6>7 DEF vv
        <5> QED BY <5>1, <5>2, Zenon DEF ValueAs, IsScalar, Lexes
      <4>4. OneMeaning(attributes[n]) = <<s, V>>
        BY Zenon DEF OneMeaning
      <4> HIDE DEF s, V
      <4>5. <<s, V>> \in NameAndTokens
        BY <4>2, <4>3 DEF NameAndTokens
      <4> QED BY <4>1, <4>4, <4>5, Zenon
    <3> DEFINE G(n) == OneMeaning(attributes[n])
    <3>3. \A n \in 1 .. L : G(n) \in NameAndTokens /\ IsItem(n, y[n], G(n))
      BY <3>2
    <3>4. m = [n \in 1 .. L |-> G(n)]
      BY <3>1, Zenon
    <3> HIDE DEF G, m
    <3>5. m \in Seq(NameAndTokens) /\ Len(m) = L /\ \A n \in 1 .. L : m[n] = G(n)
      BY <3>3, <3>4
    <3>6. \A n \in 1 .. L : IsItem(0 + n, y[n], m[n])
      <4> TAKE n \in 1 .. L
      <4>1. 0 + n = n
        OBVIOUS
      <4> QED BY <3>3, <3>5, <4>1, Zenon
    <3>7. Items(0, y, m)
      BY <2>4, <3>5, <3>6, Zenon DEF Items
    <3> QED BY <2>4, <3>7, Zenon DEF Members, m
  <2> DEFINE t == Joined(F)
             x == (b \o t) \o cl
             M == Object(AttributeMeanings)
  <2>13. Lexes(FALSE, x, M)
    <3>1. Lexes(FALSE, (<<123>> \o t) \o <<125>>, M)
      BY <2>12, MembersObject, Zenon
    <3> QED BY <1>2, <3>1, Zenon DEF b
  <2>14. Joined(A) = lab \o x
    <3>1. t \in Seq(Byte)
      BY <2>4, JoinedIs
    <3>2. Joined(A) = ((lab \o b) \o t) \o cl
      BY <2>6, <2>8, <2>9, <2>10, Zenon DEF OF
    <3> HIDE DEF t, x, M
    <3>4. lab \in Seq(Byte) /\ b \in Seq(Byte) /\ cl \in Seq(Byte)
      BY <2>6, Zenon
    <3>3. ((lab \o b) \o t) \o cl = lab \o ((b \o t) \o cl)
      <4>1. Cats(lab, b, t, cl)
        BY <3>4, <3>1, CatFour, Zenon
      <4> QED BY <4>1, Zenon DEF Cats
    <3> QED BY <3>2, <3>3, Zenon DEF x
  <2> HIDE DEF x, M
  <2>15. Spells(w, w)
    <3>1. \A k \in 1 .. Len(w) : w[k] \notin MustEscape
      BY <1>2, LenProperties
    <3> QED BY <1>2, <3>1, SpellsPlain
  <2>16. IsItem(2, lab \o x, <<w, M>>)
    <3>1. Lexes(TRUE, x, M)
      BY <2>13, LexesOpen, Zenon
    <3> QED BY <2>15, <3>1, ItemIs, Zenon DEF lab
  <2>17. Members(1, lab \o x, << <<w, M>> >>)
    <3>1. M \in Seq(Tok)
      BY <2>13, Zenon DEF Lexes
    <3>2. 1 + 1 = 2 /\ 1 \in {0, 1}
      OBVIOUS
    <3>3. IsItem(1 + 1, lab \o x, <<w, M>>)
      BY <2>16, <3>2, Zenon
    <3> QED BY <1>2, <3>1, <3>2, <3>3, MembersOne, Zenon
  <2>18. AttributeMember = << <<w, M>> >>
    BY <1>4, Zenon DEF AttributeMember, w, M
  <2> QED BY <2>9, <2>10, <2>14, <2>17, <2>18, Zenon
<1> QED BY <1>3, <1>4

----------------------------------------------------------------------------
(* The start and the end of an object, and its strings *)

\* The pieces p of later members m of an object, and the pieces from its start
\* on of its first members.
Later(p, m) == p \in Seq(Piece) /\ (NoNull(p) => Members(1, Joined(p), m))
Started(p, m) ==
    /\ p \in Seq(Piece)
    /\ NoNull(p) => m # << >> /\ \E t : Members(0, t, m) /\ Joined(p) = <<123>> \o t

(* The text of members, and their names and tokens. *)
LEMMA MembersBytes ==
    ASSUME NEW b, NEW t, NEW m, Members(b, t, m)
    PROVE  t \in Seq(Byte) /\ m \in Seq(NameAndTokens)
<1>1. PICK x : Items(b, x, m) /\ t = FlattenSeq(x)
  BY Zenon DEF Members
<1>2. x \in Seq(Seq(Byte)) /\ m \in Seq(NameAndTokens)
  BY <1>1, Zenon DEF Items
<1>3. FlattenSeq(x) \in Seq(Byte)
  BY <1>2, FlattenBoth
<1> QED BY <1>1, <1>2, <1>3, Zenon

(* An object goes on with later members. *)
LEMMA StartedLater ==
    ASSUME NEW p, NEW m, Started(p, m), NEW q, NEW w, Later(q, w)
    PROVE  Started(p \o q, m \o w)
<1>1. p \in Seq(Piece) /\ q \in Seq(Piece)
  BY Zenon DEF Started, Later
<1>2. /\ Joined(p \o q) = Joined(p) \o Joined(q)
      /\ Joined(p) \in Seq(Byte) /\ Joined(q) \in Seq(Byte) /\ p \o q \in Seq(Piece)
  BY <1>1, JoinedBoth
<1>3. ASSUME NoNull(p \o q)
      PROVE  m \o w # << >> /\ \E t : Members(0, t, m \o w) /\ Joined(p \o q) = <<123>> \o t
  <2>1. NoNull(p) /\ NoNull(q)
    BY <1>1, <1>3, NoNullBoth, Zenon
  <2>2. PICK t : m # << >> /\ Members(0, t, m) /\ Joined(p) = <<123>> \o t
    BY <2>1, Zenon DEF Started
  <2>3. Members(1, Joined(q), w)
    BY <2>1, Zenon DEF Later
  <2> DEFINE u == Joined(q)
             c == <<123>>
  <2>4. Members(0, t \o u, m \o w)
    <3>1. 0 \in {0, 1}
      OBVIOUS
    <3> QED BY <2>2, <2>3, <3>1, MembersBoth, Zenon
  <2>5. t \in Seq(Byte) /\ u \in Seq(Byte)
    BY <1>2, <2>2, MembersBytes, Zenon
  <2>6. c \in Seq(Byte)
    BY DEF Byte
  <2>7. Joined(p \o q) = (c \o t) \o u
    BY <1>2, <2>2, Zenon
  <2> HIDE DEF u, c
  <2>8. (c \o t) \o u = c \o (t \o u)
    BY <2>5, <2>6, ByteCat
  <2>9. m \o w # << >>
    <3>1. m \in Seq(NameAndTokens) /\ w \in Seq(NameAndTokens)
      BY <2>2, <2>3, MembersBytes, Zenon
    <3> QED BY <2>2, <3>1
  <2> QED BY <2>4, <2>7, <2>8, <2>9, Zenon DEF c
<1> QED BY <1>2, <1>3, Zenon DEF Started

(* The marks are bytes. *)
LEMMA BraceBytes ==
    /\ <<123>> \in Seq(Byte) /\ <<125>> \in Seq(Byte) /\ <<58>> \in Seq(Byte)
    /\ <<Quote>> \in Seq(Byte)
  BY DEF Byte, Quote

(* The last brace ends the object. *)
LEMMA StartedCloses ==
    ASSUME NEW p, NEW m, Started(p, m), NEW z, z = B("}"), NoNull(p \o <<z>>)
    PROVE  Lexes(FALSE, Joined(p \o <<z>>), Object(m)) /\ p \o <<z>> \in Seq(Piece)
<1>1. z = <<125>>
  BY JsonSpelling, Zenon
<1>2. z \in Seq(Byte)
  <2>1. <<125>> \in Seq(Byte)
    BY BraceBytes, Zenon
  <2> QED BY <1>1, <2>1, Zenon
<1>3. p \in Seq(Piece)
  BY Zenon DEF Started
<1> DEFINE q == <<z>>
<1>4. q \in Seq(Piece) /\ Joined(q) = z
  BY <1>2, JoinedFew
<1> HIDE DEF q
<1>5. Joined(p \o q) = Joined(p) \o Joined(q) /\ p \o q \in Seq(Piece)
  BY <1>3, <1>4, JoinedBoth
<1>6. NoNull(p)
  <2>1. NoNull(p \o q)
    BY DEF q
  <2> QED BY <1>3, <1>4, <2>1, NoNullBoth, Zenon
<1>7. PICK t : Members(0, t, m) /\ Joined(p) = <<123>> \o t
  BY <1>6, Zenon DEF Started
<1>8. Lexes(FALSE, <<123>> \o t \o <<125>>, Object(m))
  BY <1>7, MembersObject, Zenon
<1>9. Joined(p \o q) = (<<123>> \o t) \o <<125>>
  BY <1>1, <1>4, <1>5, <1>7, Zenon
<1>10. Lexes(FALSE, Joined(p \o q), Object(m))
  BY <1>8, <1>9, Zenon
<1> QED BY <1>5, <1>10, Zenon DEF q

\* A word of the encoder, which needs no escape.
IsWord(w) == w \in Seq(Byte) /\ \A k \in DOMAIN w : w[k] \notin MustEscape

(* A word of the encoder spells itself. *)
LEMMA WordSpells ==
    ASSUME NEW w, IsWord(w)
    PROVE  Spells(w, w)
<1>1. w \in Seq(Byte) /\ \A k \in DOMAIN w : w[k] \notin MustEscape
  BY Zenon DEF IsWord
<1>2. DOMAIN w = 1 .. Len(w)
  BY <1>1
<1> QED BY <1>1, <1>2, SpellsPlain

(* A name of the encoder and a string are a member. *)
LEMMA NamedString ==
    ASSUME NEW b \in {0, 1}, NEW w, IsWord(w), NEW e, NEW s, Spells(e, s)
    PROVE  Members(b, Label(b + 1, w) \o InQuotes(e), << <<w, <<Str(s)>> >> >>)
<1> DEFINE V == <<Str(s)>>
           v == InQuotes(e)
<1>1. Lexes(FALSE, v, V)
  BY LexesString, Zenon
<1>2. Lexes(TRUE, v, V) /\ V \in Seq(Tok)
  BY <1>1, LexesOpen, Zenon DEF Lexes
<1> HIDE DEF v, V
<1>3. Spells(w, w) /\ w \in Seq(Byte)
  BY WordSpells, Zenon DEF IsWord
<1>4. IsItem(b + 1, Label(b + 1, w) \o v, <<w, V>>)
  BY <1>2, <1>3, ItemIs, Zenon
<1>5. Members(b, Label(b + 1, w) \o v, << <<w, V>> >>)
  BY <1>2, <1>3, <1>4, MembersOne, Zenon
<1> QED BY <1>5, Zenon DEF v, V

(* So is what the encoder prints of them. *)
LEMMA StringMember ==
    ASSUME NEW cpu, NEW o, Sound(o), NEW w, IsWord(w), NEW z,
           z = << 44 >> \o InQuotes(w) \o << 58 >>
    PROVE  Later(Member(cpu, z, o), << <<w, <<Str(o.text)>> >> >>)
<1> DEFINE q == append_json_string_known_escape(cpu, o)
           y == <<z>>
           m == << <<w, <<Str(o.text)>> >> >>
<1>1. QuotedAs(q, o.text)
  BY StringQuoted, Zenon
<1>2. PICK e : q \in Seq(Piece) /\ Spells(e, o.text) /\ Joined(q) = InQuotes(e)
  BY <1>1, Zenon DEF QuotedAs
<1>3. z = Label(2, w)
  <2>1. 2 > 1
    OBVIOUS
  <2> QED BY <2>1, Zenon DEF Label
<1>4. z \in Seq(Byte)
  <2>1. w \in Seq(Byte)
    BY Zenon DEF IsWord
  <2> QED BY <1>3, <2>1, QuotedBytes, Zenon
<1>5. Members(1, Label(2, w) \o InQuotes(e), m)
  <2>1. 1 \in {0, 1} /\ 1 + 1 = 2
    OBVIOUS
  <2> QED BY <1>2, <2>1, NamedString, Zenon
<1>6. Member(cpu, z, o) = y \o q
  BY Zenon DEF Member
<1>7. y \in Seq(Piece) /\ Joined(y) = z
  BY <1>4, JoinedFew
<1> HIDE DEF q, y, m
<1>8. Joined(y \o q) = Joined(y) \o Joined(q) /\ y \o q \in Seq(Piece)
  BY <1>2, <1>7, JoinedBoth
<1>9. Members(1, Joined(y \o q), m)
  BY <1>2, <1>3, <1>5, <1>7, <1>8, Zenon
<1>10. Later(Member(cpu, z, o), m)
  BY <1>6, <1>8, <1>9, Zenon DEF Later
<1> QED BY <1>10, Zenon DEF m

HeadCats(a, q, k, u, t, l, v) ==
    ((((a \o q) \o k) \o u) \o t) \o ((u \o l) \o v)
      = a \o (((q \o k) \o ((u \o t) \o u)) \o (l \o v))

(* The literals of the encoder begin and end within a member. *)
LEMMA HeadRegroup ==
    ASSUME NEW a \in Seq(Byte), NEW q \in Seq(Byte), NEW k \in Seq(Byte), NEW u \in Seq(Byte),
           NEW t \in Seq(Byte), NEW l \in Seq(Byte), NEW v \in Seq(Byte)
    PROVE  HeadCats(a, q, k, u, t, l, v)
<1> DEFINE qk == Cat(q, k)
           ut == Cat(u, t)
           lv == Cat(l, v)
           ulv == Cat(u, lv)
           qkut == Cat(qk, ut)
           x == Cat(qk, Cat(ut, u))
<1>1. \A r, s, w \in Seq(Byte) : Cat(r, Cat(s, w)) = Cat(Cat(r, s), w)
  BY CatLaws
<1>2. \A r, s \in Seq(Byte) : Cat(r, s) \in Seq(Byte)
  BY CatLaws
<1>3. /\ qk \in Seq(Byte) /\ ut \in Seq(Byte) /\ lv \in Seq(Byte)
      /\ ulv \in Seq(Byte) /\ qkut \in Seq(Byte)
  <2>1. qk \in Seq(Byte) /\ ut \in Seq(Byte) /\ lv \in Seq(Byte)
    BY <1>2, Zenon
  <2> HIDE DEF qk, ut, lv
  <2> QED BY <1>2, <2>1, Zenon
<1>4. Cat(Cat(u, l), v) = ulv
  BY <1>1
<1>5. Cat(Cat(Cat(Cat(a, q), k), u), t) = Cat(a, qkut)
  <2>1. Cat(Cat(a, q), k) = Cat(a, qk)
    BY <1>1
  <2>2. Cat(Cat(Cat(a, qk), u), t) = Cat(Cat(a, qk), ut)
    <3> DEFINE h == Cat(a, qk)
    <3>1. h \in Seq(Byte)
      BY <1>2, <1>3, Zenon
    <3> HIDE DEF h
    <3>2. Cat(Cat(h, u), t) = Cat(h, ut)
      BY <1>1, <3>1
    <3> QED BY <3>2, Zenon DEF h
  <2> HIDE DEF qk, ut
  <2>3. Cat(Cat(a, qk), ut) = Cat(a, qkut)
    BY <1>1, <1>3
  <2> QED BY <2>1, <2>2, <2>3, Zenon
<1>6. Cat(Cat(a, qkut), ulv) = Cat(a, Cat(qkut, ulv))
  <2> HIDE DEF qkut, ulv
  <2> QED BY <1>1, <1>3
<1>7. Cat(qkut, ulv) = Cat(x, lv)
  <2> HIDE DEF qk, ut, lv
  <2>1. x = Cat(qkut, u)
    BY <1>1, <1>3
  <2> HIDE DEF qkut, x
  <2>2. Cat(qkut, Cat(u, lv)) = Cat(Cat(qkut, u), lv)
    BY <1>1, <1>3
  <2> QED BY <2>1, <2>2, Zenon
<1>8. Cat(Cat(Cat(Cat(Cat(a, q), k), u), t), Cat(Cat(u, l), v)) = Cat(a, Cat(x, lv))
  <2> HIDE DEF qkut, ulv, x, lv
  <2> QED BY <1>4, <1>5, <1>6, <1>7, Zenon
<1> QED BY <1>8, Zenon DEF HeadCats, Cat

\* The start of the object: a timestamp and the literal of a level.
HeadMembers(time, level) ==
    << <<B("timestamp"), <<Str(time)>> >>, <<B("level"), <<Str(level)>> >> >>

(* The first four pieces are the brace and the first two members. *)
LEMMA HeadIs ==
    ASSUME NEW time, IsWord(time), NEW level, IsWord(level), NEW z, z = InQuotes(level)
    PROVE  Started(<<B("{\"timestamp\":\""), time, B("\",\"level\":"), z>>,
                   HeadMembers(time, level))
<1> DEFINE a == <<123>>
           tw == B("timestamp")
           lw == B("level")
           q == InQuotes(tw)
           k == <<58>>
           u == <<Quote>>
           l == Label(2, lw)
           p1 == B("{\"timestamp\":\"")
           p3 == B("\",\"level\":")
           x1 == Label(1, tw) \o InQuotes(time)
           x2 == l \o z
           m1 == << <<tw, <<Str(time)>> >> >>
           m2 == << <<lw, <<Str(level)>> >> >>
<1>1. /\ IsWord(tw) /\ IsWord(lw)
      /\ p1 = ((a \o q) \o k) \o u
      /\ p3 = u \o ((<<44>> \o InQuotes(lw)) \o <<58>>)
  BY JsonSpelling, Zenon DEF IsWord
<1>2. p3 = u \o l
  <2>1. 2 > 1
    OBVIOUS
  <2> QED BY <1>1, <2>1, Zenon DEF Label
<1>3. /\ a \in Seq(Byte) /\ q \in Seq(Byte) /\ k \in Seq(Byte) /\ u \in Seq(Byte)
      /\ time \in Seq(Byte) /\ l \in Seq(Byte) /\ z \in Seq(Byte)
  <2>1. tw \in Seq(Byte) /\ lw \in Seq(Byte) /\ time \in Seq(Byte) /\ level \in Seq(Byte)
    BY <1>1, Zenon DEF IsWord
  <2> QED BY <2>1, BraceBytes, QuotedBytes, Zenon
<1>4. Members(0, x1, m1) /\ Members(1, x2, m2)
  <2>1. Spells(time, time) /\ Spells(level, level)
    BY WordSpells, Zenon
  <2>2. 0 \in {0, 1} /\ 1 \in {0, 1} /\ 0 + 1 = 1 /\ 1 + 1 = 2
    OBVIOUS
  <2>3. Members(0, Label(0 + 1, tw) \o InQuotes(time), m1)
    BY <1>1, <2>1, <2>2, NamedString, Zenon
  <2>4. Members(1, Label(1 + 1, lw) \o InQuotes(level), m2)
    BY <1>1, <2>1, <2>2, NamedString, Zenon
  <2> QED BY <2>2, <2>3, <2>4, Zenon
<1>5. x1 = (q \o k) \o ((u \o time) \o u)
  <2>1. Label(1, tw) = << >> \o (q \o k)
    <3>1. tw \in Seq(Byte)
      BY <1>1, Zenon DEF IsWord
    <3>2. ~(1 > 1)
      OBVIOUS
    <3> QED BY <3>1, <3>2, QuotedBytes, Zenon
  <2>2. << >> \o (q \o k) = q \o k
    <3> HIDE DEF q, k
    <3>1. q \o k \in Seq(Byte)
      BY <1>3, ByteCat
    <3> QED BY <3>1, ByteCat
  <2> QED BY <2>1, <2>2, Zenon DEF InQuotes
<1> HIDE DEF a, tw, lw, q, k, u, l, p1, p3, x1, m1, m2
<1> DEFINE P == <<p1, time, p3, z>>
           A == <<p1, time>>
           C == <<p3, z>>
<1>6. p1 \in Seq(Byte) /\ p3 \in Seq(Byte) /\ u \o l \in Seq(Byte)
  <2>1. a \o q \in Seq(Byte) /\ u \o l \in Seq(Byte)
    BY <1>3, ByteCat
  <2>2. (a \o q) \o k \in Seq(Byte)
    <3> DEFINE h == a \o q
    <3> HIDE DEF h
    <3>1. h \o k \in Seq(Byte)
      BY <1>3, <2>1, ByteCat DEF h
    <3> QED BY <3>1 DEF h
  <2>3. ((a \o q) \o k) \o u \in Seq(Byte)
    <3> DEFINE h == (a \o q) \o k
    <3> HIDE DEF h
    <3>0. h \in Seq(Byte)
      BY <2>2 DEF h
    <3>1. h \o u \in Seq(Byte)
      BY <1>3, <3>0, ByteCat
    <3> QED BY <3>1 DEF h
  <2> QED BY <1>1, <1>2, <2>1, <2>3, Zenon
<1>7. P \in Seq(Piece) /\ Joined(P) = (p1 \o time) \o (p3 \o z)
  <2>1. ASSUME NEW x \in Seq(Byte), NEW y \in Seq(Byte)
        PROVE  <<x, y>> \in Seq(Piece) /\ Joined(<<x, y>>) = x \o y
    <3> DEFINE X == <<x>>
               Y == <<y>>
    <3>1. X \o Y = <<x, y>>
      BY Pair
    <3>2. X \in Seq(Piece) /\ Y \in Seq(Piece) /\ Joined(X) = x /\ Joined(Y) = y
      BY JoinedFew
    <3> HIDE DEF X, Y
    <3>3. X \o Y \in Seq(Piece) /\ Joined(X \o Y) = Joined(X) \o Joined(Y)
      BY <3>2, JoinedBoth
    <3> QED BY <3>1, <3>2, <3>3, Zenon
  <2>2. A \in Seq(Piece) /\ Joined(A) = p1 \o time /\ C \in Seq(Piece) /\ Joined(C) = p3 \o z
    BY <1>3, <1>6, <2>1, Zenon
  <2>3. P = A \o C
    BY ShortJoins
  <2> HIDE DEF A, C, P
  <2>4. A \o C \in Seq(Piece) /\ Joined(A \o C) = Joined(A) \o Joined(C)
    BY <2>2, JoinedBoth
  <2> QED BY <2>2, <2>3, <2>4, Zenon
<1>8. Joined(P) = a \o (x1 \o x2)
  <2>1. HeadCats(a, q, k, u, time, l, z)
    BY <1>3, HeadRegroup, Zenon
  <2>2. Joined(P) = ((((a \o q) \o k) \o u) \o time) \o ((u \o l) \o z)
    BY <1>1, <1>2, <1>7, Zenon
  <2> HIDE DEF P
  <2>3. Joined(P) = a \o (((q \o k) \o ((u \o time) \o u)) \o (l \o z))
    BY <2>1, <2>2, Zenon DEF HeadCats
  <2> QED BY <1>5, <2>3, Zenon
<1>9. Members(0, x1 \o x2, m1 \o m2)
  <2>1. 0 \in {0, 1} /\ m1 # << >>
    BY DEF m1
  <2> HIDE DEF x2
  <2> QED BY <1>4, <2>1, MembersBoth, Zenon
<1>10. m1 \o m2 = HeadMembers(time, level)
  <2>1. m1 \o m2 = << <<tw, <<Str(time)>> >>, <<lw, <<Str(level)>> >> >>
    <3> DEFINE x == <<tw, <<Str(time)>> >>
               y == <<lw, <<Str(level)>> >>
    <3>1. x \in {x, y} /\ y \in {x, y}
      OBVIOUS
    <3>2. m1 = <<x>> /\ m2 = <<y>>
      BY Zenon DEF m1, m2
    <3> HIDE DEF x, y, m1, m2
    <3>3. <<x>> \o <<y>> = <<x, y>>
      BY <3>1, Pair
    <3>4. m1 \o m2 = <<x, y>>
      BY <3>2, <3>3, Zenon
    <3> QED BY <3>4, Zenon DEF x, y
  <2> QED BY <2>1, Zenon DEF HeadMembers, tw, lw
<1>11. HeadMembers(time, level) # << >>
  BY DEF HeadMembers
<1> HIDE DEF P
<1>12. Started(P, HeadMembers(time, level))
  <2>1. \E t : Members(0, t, HeadMembers(time, level)) /\ Joined(P) = <<123>> \o t
    BY <1>8, <1>9, <1>10, Zenon DEF a
  <2> QED BY <1>7, <1>11, <2>1, Zenon DEF Started
<1> QED BY <1>12, Zenon DEF P, p1, p3

----------------------------------------------------------------------------
(* What the encoder prints of an event *)

(* A sequence of four. *)
LEMMA FourMembers ==
    ASSUME NEW a, NEW b, NEW c, NEW d
    PROVE  (<<a, b>> \o <<c>>) \o <<d>> = <<a, b, c, d>>
<1> DEFINE S == {a, b, c, d}
           x == <<a, b>>
           y == <<c>>
           z == <<d>>
<1>1. x \in Seq(S) /\ y \in Seq(S) /\ z \in Seq(S) /\ c \in S /\ d \in S
  OBVIOUS
<1>2. y \o z = <<c, d>>
  BY <1>1, Pair
<1>3. x \o <<c, d>> = <<a, b, c, d>>
  BY ShortJoins
<1> HIDE DEF S, x, y, z
<1>4. (x \o y) \o z = x \o (y \o z)
  BY <1>1, ConcatAssociative
<1>5. (x \o y) \o z = <<a, b, c, d>>
  BY <1>2, <1>3, <1>4, Zenon
<1> QED BY <1>5, Zenon DEF x, y, z

\* o is the copy of the string s.
HoldsString(o, s) == Sound(o) /\ o.text = s

\* copy is the copy of an event the encoders print.
CopyHolds ==
    /\ HoldsString(copy.fields[1], fields[1]) /\ HoldsString(copy.fields[2], fields[2])
    /\ copy.fields[3] = Null <=> fields[3] = Null
    /\ fields[3] # Null => HoldsString(copy.fields[3], fields[3])
    /\ \E L \in Nat : /\ DOMAIN attributes = 1 .. L /\ DOMAIN copy.attributes = 1 .. L
                      /\ \A n \in 1 .. L : HoldsAttribute(copy.attributes[n], attributes[n])
    /\ copy.attributes = << >> <=> attributes = << >>
    /\ event.level \in 0 .. 5

(* A copied field is the member of its name. *)
LEMMA FieldMember ==
    ASSUME NEW o, NEW s, HoldsString(o, s), NEW w, IsWord(w), NEW z,
           z = << 44 >> \o InQuotes(w) \o << 58 >>
    PROVE  Later(Member(input.cpu, z, o), << <<w, <<Str(s)>> >> >>)
<1>1. Sound(o) /\ o.text = s
  BY Zenon DEF HoldsString
<1>2. Later(Member(input.cpu, z, o), << <<w, <<Str(o.text)>> >> >>)
  BY <1>1, StringMember, Zenon
<1> QED BY <1>1, <1>2, Zenon

Nth(t, n, a, b, c, d, e, f) ==
    /\ n = 0 => t[n + 1] = a
    /\ n = 1 => t[n + 1] = b
    /\ n = 2 => t[n + 1] = c
    /\ n = 3 => t[n + 1] = d
    /\ n = 4 => t[n + 1] = e
    /\ n = 5 => t[n + 1] = f

(* The places of a sequence of six. *)
LEMMA SixNth ==
    ASSUME NEW n \in 0 .. 5, NEW a, NEW b, NEW c, NEW d, NEW e, NEW f
    PROVE  Nth(<<a, b, c, d, e, f>>, n, a, b, c, d, e, f)
  BY DEF Nth

(* The literal of a level is its name in quotes. *)
LEMMA LevelWord ==
    ASSUME event.level \in 0 .. 5
    PROVE  LET w == B(LevelNames[event.level + 1])
           IN  IsWord(w) /\ level_to_json_literal(event.level) = InQuotes(w)
<1> DEFINE n == event.level
<1>0. n \in 0 .. 5
  OBVIOUS
<1>1. /\ B("\"trace\"") = InQuotes(B("trace")) /\ B("\"debug\"") = InQuotes(B("debug"))
      /\ B("\"info\"") = InQuotes(B("info")) /\ B("\"warn\"") = InQuotes(B("warn"))
      /\ B("\"error\"") = InQuotes(B("error")) /\ B("\"fatal\"") = InQuotes(B("fatal"))
      /\ IsWord(B("trace")) /\ IsWord(B("debug")) /\ IsWord(B("info"))
      /\ IsWord(B("warn")) /\ IsWord(B("error")) /\ IsWord(B("fatal"))
  BY JsonSpelling, Zenon DEF IsWord
<1>3. n = 0 \/ n = 1 \/ n = 2 \/ n = 3 \/ n = 4 \/ n = 5
  BY <1>0
<1> DEFINE w == B(LevelNames[n + 1])
           Y == <<B("\"trace\""), B("\"debug\""), B("\"info\""), B("\"warn\""),
                  B("\"error\""), B("\"fatal\"")>>
           y == Y[n + 1]
<1>4. level_to_json_literal(n) = y
  BY <1>0, Zenon DEF level_to_json_literal
<1>n. /\ n = 0 => LevelNames[n + 1] = "trace"
      /\ n = 1 => LevelNames[n + 1] = "debug"
      /\ n = 2 => LevelNames[n + 1] = "info"
      /\ n = 3 => LevelNames[n + 1] = "warn"
      /\ n = 4 => LevelNames[n + 1] = "error"
      /\ n = 5 => LevelNames[n + 1] = "fatal"
  <2>1. LevelNames = <<"trace", "debug", "info", "warn", "error", "fatal">>
    BY Zenon DEF LevelNames
  <2>2. Nth(LevelNames, n, "trace", "debug", "info", "warn", "error", "fatal")
    BY <1>0, <2>1, SixNth, Zenon
  <2> HIDE DEF n
  <2> QED BY <2>2, Zenon DEF Nth
<1>y. /\ n = 0 => y = B("\"trace\"")
      /\ n = 1 => y = B("\"debug\"")
      /\ n = 2 => y = B("\"info\"")
      /\ n = 3 => y = B("\"warn\"")
      /\ n = 4 => y = B("\"error\"")
      /\ n = 5 => y = B("\"fatal\"")
  <2>1. Nth(Y, n, B("\"trace\""), B("\"debug\""), B("\"info\""), B("\"warn\""),
            B("\"error\""), B("\"fatal\""))
    BY <1>0, SixNth, Zenon
  <2> HIDE DEF n, Y
  <2> QED BY <2>1, Zenon DEF Nth
<1>5. /\ n = 0 => w = B("trace") /\ y = B("\"trace\"")
      /\ n = 1 => w = B("debug") /\ y = B("\"debug\"")
      /\ n = 2 => w = B("info") /\ y = B("\"info\"")
      /\ n = 3 => w = B("warn") /\ y = B("\"warn\"")
      /\ n = 4 => w = B("error") /\ y = B("\"error\"")
      /\ n = 5 => w = B("fatal") /\ y = B("\"fatal\"")
  <2> HIDE DEF n, y
  <2> QED BY <1>n, <1>y, Zenon
<1> HIDE DEF n, w, y
<1>6. IsWord(w) /\ y = InQuotes(w)
  <2>1. CASE n = 0
    BY <1>1, <1>5, <2>1, Zenon
  <2>2. CASE n = 1
    BY <1>1, <1>5, <2>2, Zenon
  <2>3. CASE n = 2
    BY <1>1, <1>5, <2>3, Zenon
  <2>4. CASE n = 3
    BY <1>1, <1>5, <2>4, Zenon
  <2>5. CASE n = 4
    BY <1>1, <1>5, <2>5, Zenon
  <2>6. CASE n = 5
    BY <1>1, <1>5, <2>6, Zenon
  <2> QED BY <1>3, <2>1, <2>2, <2>3, <2>4, <2>5, <2>6, Zenon
<1> QED BY <1>4, <1>6, Zenon DEF n, w

(* The attributes of the copy are those of the event. *)
LEMMA AttributesLater ==
    ASSUME input.locale = "C", CopyHolds, IsCopy(copy),
           NEW A, A = Attributes(input, copy.attributes)
    PROVE  Later(A, AttributeMember)
<1>0. A \in Seq(Piece)
  <2>1. PICK n \in Nat : /\ DOMAIN copy.attributes = 1 .. n
                         /\ \A k \in 1 .. n : IsCopied(copy.attributes[k])
    BY Zenon DEF IsCopy
  <2> QED BY <2>1, AttributePieces, Zenon
<1>1. PICK L \in Nat : /\ DOMAIN attributes = 1 .. L /\ DOMAIN copy.attributes = 1 .. L
                       /\ \A n \in 1 .. L : HoldsAttribute(copy.attributes[n], attributes[n])
  BY Zenon DEF CopyHolds
<1>2. copy.attributes = << >> <=> attributes = << >>
  BY Zenon DEF CopyHolds
<1> DEFINE own == copy.attributes
<1>3. DOMAIN own = 1 .. L /\ \A n \in 1 .. L : HoldsAttribute(own[n], attributes[n])
  BY <1>1, Zenon
<1>4. own = << >> <=> attributes = << >>
  BY <1>2, Zenon
<1>5. A = Attributes(input, own)
  BY Zenon
<1> HIDE DEF own
<1>6. ASSUME NoNull(A) PROVE Members(1, Joined(A), AttributeMember)
  BY <1>1, <1>3, <1>4, <1>5, <1>6, AttributesAre
<1> QED BY <1>0, <1>6, Zenon DEF Later

LoggerMember ==
    IF fields[3] = Null THEN << >> ELSE << <<B("logger"), <<Str(fields[3])>> >> >>
LoggerPieces ==
    IF copy.fields[3] = Null THEN << >>
    ELSE Member(input.cpu, B(",\"logger\":"), copy.fields[3])

(* The logger is there exactly if the event has one. *)
LEMMA LoggerLater ==
    ASSUME CopyHolds
    PROVE  Later(LoggerPieces, LoggerMember)
<1> DEFINE z == B(",\"logger\":")
           w == B("logger")
<1>1. IsWord(w) /\ z = (<<44>> \o InQuotes(w)) \o <<58>>
  BY JsonSpelling, Zenon DEF IsWord
<1>2. copy.fields[3] = Null <=> fields[3] = Null
  BY Zenon DEF CopyHolds
<1>3. fields[3] # Null => HoldsString(copy.fields[3], fields[3])
  BY Zenon DEF CopyHolds
<1>4. LoggerPieces = IF copy.fields[3] = Null THEN << >> ELSE Member(input.cpu, z, copy.fields[3])
  BY Zenon DEF LoggerPieces
<1>5. LoggerMember = IF fields[3] = Null THEN << >> ELSE << <<w, <<Str(fields[3])>> >> >>
  BY Zenon DEF LoggerMember
<1> HIDE DEF z, w
<1>6. CASE fields[3] = Null
  <2>1. LoggerPieces = << >> /\ LoggerMember = << >>
    BY <1>2, <1>4, <1>5, <1>6, Zenon
  <2>2. << >> \in Seq(Byte) /\ << >> \in Seq(Piece)
    OBVIOUS
  <2>3. Joined(<< >>) = << >>
    BY <2>2, JoinedFew, Zenon
  <2>4. Later(<< >>, << >>)
    BY <2>2, <2>3, MembersNone, Zenon DEF Later
  <2> QED BY <2>1, <2>4, Zenon
<1>7. CASE fields[3] # Null
  <2>1. Later(Member(input.cpu, z, copy.fields[3]), << <<w, <<Str(fields[3])>> >> >>)
    BY <1>1, <1>3, <1>7, FieldMember, Zenon
  <2>2. /\ LoggerPieces = Member(input.cpu, z, copy.fields[3])
        /\ LoggerMember = << <<w, <<Str(fields[3])>> >> >>
    BY <1>2, <1>4, <1>5, <1>7, Zenon
  <2> QED BY <2>1, <2>2, Zenon
<1> QED BY <1>6, <1>7, Zenon

(* All pieces of a copied event read as the object of the members that the *)
(* encoder emits.                                                          *)
LEMMA JsonObject ==
    ASSUME input.locale = "C", CopyHolds, IsCopy(copy), IsWord(Timestamp), Timestamp # << >>,
           format_timestamp_rfc3339(event.timestamp) = Timestamp,
           NEW p, p = JsonPieces(input, event, copy), NoNull(p)
    PROVE  Lexes(FALSE, Joined(p), EmittedObject)
<1> DEFINE lw == B(LevelNames[event.level + 1])
           lz == level_to_json_literal(event.level)
           H == <<B("{\"timestamp\":\""), Timestamp, B("\",\"level\":"), lz>>
           E == Member(input.cpu, B(",\"event_name\":"), copy.fields[1])
           M == Member(input.cpu, B(",\"message\":"), copy.fields[2])
           A == Attributes(input, copy.attributes)
           z == B("}")
           h == HeadMembers(Timestamp, lw)
           e == << <<B("event_name"), <<Str(fields[1])>> >> >>
           m == << <<B("message"), <<Str(fields[2])>> >> >>
<1>1. Started(H, h)
  <2>1. event.level \in 0 .. 5
    BY Zenon DEF CopyHolds
  <2>2. IsWord(lw) /\ lz = InQuotes(lw)
    BY <2>1, LevelWord, Zenon
  <2> HIDE DEF lw, lz
  <2> QED BY <2>2, HeadIs, Zenon
<1>2. Later(E, e) /\ Later(M, m)
  <2>1. /\ IsWord(B("event_name")) /\ IsWord(B("message"))
        /\ B(",\"event_name\":") = (<<44>> \o InQuotes(B("event_name"))) \o <<58>>
        /\ B(",\"message\":") = (<<44>> \o InQuotes(B("message"))) \o <<58>>
    BY JsonSpelling, Zenon DEF IsWord
  <2>2. HoldsString(copy.fields[1], fields[1]) /\ HoldsString(copy.fields[2], fields[2])
    BY Zenon DEF CopyHolds
  <2> QED BY <2>1, <2>2, FieldMember, Zenon
<1>3. Later(LoggerPieces, LoggerMember)
  BY LoggerLater, Zenon
<1>4. Later(A, AttributeMember)
  BY AttributesLater, Zenon
<1>5. p = ((((H \o E) \o M) \o LoggerPieces) \o A) \o <<z>>
  BY Zenon DEF JsonPieces, LoggerPieces
<1>6. EmittedObject = Object(((((h \o e) \o m)) \o LoggerMember) \o AttributeMember)
  <2> DEFINE m1 == <<B("timestamp"), <<Str(Timestamp)>> >>
             m2 == <<B("level"), <<Str(lw)>> >>
             m3 == <<B("event_name"), <<Str(fields[1])>> >>
             m4 == <<B("message"), <<Str(fields[2])>> >>
  <2>1. EmittedObject = Object((<<m1, m2, m3, m4>> \o LoggerMember) \o AttributeMember)
    BY Zenon DEF EmittedObject, LoggerMember, AttributeMember, AttributeMeanings, OneMeaning
  <2>2. h = <<m1, m2>> /\ e = <<m3>> /\ m = <<m4>>
    BY Zenon DEF HeadMembers
  <2> HIDE DEF m1, m2, m3, m4, h, e, m
  <2>3. (<<m1, m2>> \o <<m3>>) \o <<m4>> = <<m1, m2, m3, m4>>
    BY FourMembers, Zenon
  <2> QED BY <2>1, <2>2, <2>3, Zenon
<1> HIDE DEF H, E, M, A, z, h, e, m
<1>7. Started(H \o E, h \o e)
  BY <1>1, <1>2, StartedLater, Zenon
<1>8. Started((H \o E) \o M, (h \o e) \o m)
  BY <1>2, <1>7, StartedLater, Zenon
<1>9. Started(((H \o E) \o M) \o LoggerPieces, ((h \o e) \o m) \o LoggerMember)
  BY <1>3, <1>8, StartedLater, Zenon
<1>10. Started((((H \o E) \o M) \o LoggerPieces) \o A,
               (((h \o e) \o m) \o LoggerMember) \o AttributeMember)
  BY <1>4, <1>9, StartedLater, Zenon
<1> DEFINE P == (((H \o E) \o M) \o LoggerPieces) \o A
           Q == (((h \o e) \o m) \o LoggerMember) \o AttributeMember
<1>11. Started(P, Q) /\ p = P \o <<z>> /\ EmittedObject = Object(Q)
  BY <1>5, <1>6, <1>10, Zenon
<1> HIDE DEF P, Q
<1>12. Lexes(FALSE, Joined(P \o <<z>>), Object(Q))
  <2>1. z = B("}")
    BY DEF z
  <2>2. NoNull(P \o <<z>>)
    BY <1>11, Zenon
  <2> QED BY <1>11, <2>1, <2>2, StartedCloses, Zenon
<1> QED BY <1>11, <1>12, Zenon

----------------------------------------------------------------------------
(* The copy holds the event, and the payload reads back as it *)

(* A copied string has its text, and its flag says whether JSON allows it as it is. *)
LEMMA KeptHolds ==
    ASSUME NEW s \in Seq(Byte), NEW o, NEW at, NEW room, o = Owned(s, at, room)
    PROVE  HoldsString(o, s)
<1>1. o.text = s /\ o.escape = NeedsEscape(s)
  BY DEF Owned
<1>2. NeedsEscape(s) <=> \E j \in DOMAIN s : s[j] \in MustEscape
  BY FlagIs
<1>3. DOMAIN s = 1 .. Len(s)
  OBVIOUS
<1>4. ~o.escape => \A k \in 1 .. Len(s) : s[k] \notin MustEscape
  BY <1>1, <1>2, <1>3, Zenon
<1> QED BY <1>1, <1>4, Zenon DEF HoldsString, Sound

(* A redacted value holds the literal, whatever flag it kept. *)
LEMMA LiteralHolds ==
    ASSUME NEW s, NEW o, NEW at, NEW room, o = Redacted(Owned(s, at, room))
    PROVE  HoldsString(o, Literal)
<1>1. o.text = Literal
  BY DEF Owned, Redacted
<1>2. Literal \in Seq(Byte) /\ \A k \in DOMAIN Literal : Literal[k] \notin MustEscape
  BY EventCopyConstants
<1>3. DOMAIN Literal = 1 .. Len(Literal)
  BY <1>2
<1> QED BY <1>1, <1>2, <1>3, Zenon DEF HoldsString, Sound

(* A copied string is not NULL. *)
LEMMA OwnedIsNotNull ==
    ASSUME NEW s \in Seq(Byte), NEW at \in Nat, NEW o, o = Owned(s, at, Len(s))
    PROVE  o # Null
<1> DEFINE room == Footprint(Len(s))
           flag == NeedsEscape(s)
<1>1. o = [at |-> at, text |-> s, room |-> room, escape |-> flag]
  BY DEF Owned
<1>2. room \in Nat
  BY DEF Footprint
<1>3. flag \in BOOLEAN
  BY DEF NeedsEscape
<1> HIDE DEF room, flag
<1>4. o \in OwnedString
  BY <1>1, <1>2, <1>3 DEF OwnedString
<1> QED BY <1>4, EventCopyConstants

(* A string value is copied, or replaced exactly under a key of the        *)
(* denylist.                                                               *)
LEMMA ValueHolds ==
    ASSUME NEW o, NEW a, input.locale = "C", a.key \in Seq(Byte), a.value.data \in Seq(Byte),
           IsString(a), IsString(o), ValueKept(o.value.data, a)
    PROVE  HoldsValue(o.value, a)
<1>1. o.value.kind = "STRING" /\ a.value.kind = "STRING"
  BY DEF IsString
<1> DEFINE d == a.value.data
           secret == input.enabled /\ Sensitive(a.key)
           v == o.value
           s == IF secret THEN Literal ELSE d
<1>2. should_redact(a) <=> secret
  <2>1. key_should_redact_n("C", a.key) <=> Sensitive(a.key)
    BY RedactKeyExact
  <2> QED BY <2>1 DEF should_redact
<1>3. PICK at : v.data = IF should_redact(a) THEN Redacted(Owned(d, at, CopiedRoom(d)))
                                             ELSE Owned(d, at, CopiedRoom(d))
  BY Zenon DEF ValueKept
<1>4. HoldsString(v.data, s)
  <2>1. CASE secret
    <3>1. v.data = Redacted(Owned(d, at, CopiedRoom(d))) /\ s = Literal
      BY <1>2, <1>3, <2>1, Zenon
    <3>2. HoldsString(v.data, Literal)
      BY <3>1, LiteralHolds, Zenon
    <3> QED BY <3>1, <3>2, Zenon
  <2>2. CASE ~secret
    <3>1. v.data = Owned(d, at, CopiedRoom(d)) /\ s = d
      BY <1>2, <1>3, <2>2, Zenon
    <3>2. HoldsString(v.data, d)
      BY <3>1, KeptHolds, Zenon
    <3> QED BY <3>1, <3>2, Zenon
  <2> QED BY <2>1, <2>2
<1>5. Sound(v.data) /\ v.data.text = s
  BY <1>4, Zenon DEF HoldsString
<1> QED BY <1>1, <1>5 DEF HoldsValue

(* Any other value is copied as it is. *)
LEMMA PlainHolds ==
    ASSUME NEW o, NEW a, a.value.data \in CString, a.value.num \in Int, ~IsString(a),
           o.value = a.value, validate_attr_value(a.value),
           a.value.kind = "SIGNED" => a.value.num \in -(Word \div 2) .. (Word \div 2) - 1,
           a.value.kind = "UNSIGNED" => a.value.num \in Nat,
           a.value.kind = "BOOL" => a.value.num \in {0, 1},
           a.value.kind = "DOUBLE" /\ a.value.data # Null =>
              a.value.data # << >> /\ \A k \in DOMAIN a.value.data : BareByte(a.value.data[k])
    PROVE  HoldsValue(o.value, a)
<1> DEFINE v == a.value
<1>1. v.kind \in {"SIGNED", "UNSIGNED", "BOOL", "DOUBLE"} /\ (v.kind = "DOUBLE" => v.data # Null)
  BY DEF validate_attr_value, IsString
<1>2. v.kind = "SIGNED" => v.num \in Int /\ v.num >= -(Word \div 2)
  <2>1. Word \div 2 \in Int
    BY JsonEncoderConstants
  <2> QED BY <2>1
<1>3. v.kind = "DOUBLE" => /\ v.data \in Seq(Byte) /\ v.data # << >>
                           /\ \A k \in 1 .. Len(v.data) : BareByte(v.data[k])
  <2>1. v.kind = "DOUBLE" => v.data \in Seq(Byte)
    BY <1>1 DEF CString
  <2> QED BY <1>1, <2>1
<1>4. v.kind # "STRING" /\ o.value = v
  BY <1>1
<1>5. v.kind = "UNSIGNED" => v.num \in Nat
  OBVIOUS
<1>6. v.kind = "BOOL" => v.num \in {0, 1}
  OBVIOUS
<1>7. v.kind = a.value.kind /\ v = a.value
  OBVIOUS
<1> HIDE DEF v
<1>8. v.kind \in {"STRING", "SIGNED", "UNSIGNED", "BOOL", "DOUBLE"}
  BY <1>1
<1>9. HoldsValue(v, a)
  BY <1>2, <1>3, <1>4, <1>5, <1>6, <1>7, <1>8, Zenon DEF HoldsValue
<1> QED BY <1>4, <1>9, Zenon

(* A copy that was made holds the event. *)
LEMMA CopyIsHeld ==
    ASSUME PhaseInv, ArenaInv, CopiedInv, VerdictInv, pc = "done", status = "OK",
           input.locale = "C"
    PROVE  CopyHolds
<1> DEFINE L == Len(attributes)
<1>1. /\ input \in Inputs /\ L \in Nat /\ Live
      /\ Measured = 5 + L /\ FieldsThere = 5 /\ AttributesThere = L
  <2>1. input \in Inputs
    BY DEF PhaseInv
  <2> QED BY <2>1, InputIs DEF Live, Measured, FieldsThere, AttributesThere
<1>2. /\ Len(copy.fields) = 5
      /\ Len(copy.attributes) = L /\ DOMAIN copy.attributes = 1 .. L
      /\ copy.attributes = << >> <=> L = 0
  <2>1. IsSeq(copy.fields, 5) /\ IsSeq(copy.attributes, L)
    BY <1>1 DEF PhaseInv
  <2>2. \A s, n : IsSeq(s, n) => DOMAIN s = 1 .. n /\ Len(s) = n
    BY DEF IsSeq
  <2>3. \A s, n : IsSeq(s, n) => (s = << >> <=> n = 0)
    BY DEF IsSeq
  <2> HIDE DEF L
  <2>4. Len(copy.fields) = 5 /\ Len(copy.attributes) = L /\ DOMAIN copy.attributes = 1 .. L
    BY <2>1, <2>2
  <2>5. copy.attributes = << >> <=> L = 0
    BY <2>1, <2>3
  <2> QED BY <2>4, <2>5
<1>3. PICK f : Offsets(f, Measured) /\ FieldsPlaced(f)
  BY <1>1 DEF ArenaInv
<1>4. /\ HeaderOk /\ FieldFine(1) /\ FieldFine(2)
      /\ \A n \in 1 .. L : AttributeFine(n)
  <2>1. /\ pc # "header" => HeaderOk
        /\ \A n \in 1 .. 5 : n <= Measured => FieldFine(n)
        /\ \A n \in 1 .. L : 5 + n <= Measured => AttributeFine(n)
    BY <1>1 DEF VerdictInv
  <2> HIDE DEF L
  <2>2. 1 <= 5 + L /\ 2 <= 5 + L /\ \A n \in 1 .. L : 5 + n <= 5 + L
    BY <1>1
  <2> QED BY <1>1, <2>1, <2>2
<1>5. fields[1] # Null /\ fields[2] # Null
  BY <1>4 DEF FieldFine, validate_string_field
<1>6. ASSUME NEW n \in 1 .. 5, fields[n] # Null
      PROVE  HoldsString(copy.fields[n], fields[n]) /\ copy.fields[n] # Null
  <2>1. copy.fields[n].at = f[n - 1] /\ f[n - 1] \in Nat
    <3>1. f \in [Nat -> Nat] /\ n - 1 \in Nat
      BY <1>3 DEF Offsets
    <3>2. f[n - 1] \in Nat
      BY <3>1
    <3>3. n \in 1 .. Len(copy.fields)
      BY <1>2
    <3>4. copy.fields[n].at = f[n - 1]
      BY <1>3, <1>6, <3>3, Zenon DEF FieldsPlaced
    <3> QED BY <3>2, <3>4
  <2>2. fields[n] \in Seq(Byte)
    <3>1. fields[n] \in CString
      BY <1>1, InputIs
    <3> QED BY <1>6, <3>1 DEF CString
  <2>3. PICK at : copy.fields[n] = Owned(fields[n], at, Len(fields[n]))
    BY <1>2, <1>6 DEF CopiedInv, FieldHeld, StringKept
  <2>4. at \in Nat
    <3>1. copy.fields[n].at = at
      BY <2>3 DEF Owned
    <3> QED BY <2>1, <3>1
  <2>5. HoldsString(copy.fields[n], fields[n])
    BY <2>2, <2>3, KeptHolds, Zenon
  <2>6. copy.fields[n] # Null
    BY <2>2, <2>3, <2>4, OwnedIsNotNull, Zenon
  <2> QED BY <2>5, <2>6
<1>7. fields[3] = Null => copy.fields[3] = Null
  BY <1>2, <1>3 DEF FieldsPlaced
<1>8. ASSUME NEW n \in 1 .. L PROVE HoldsAttribute(copy.attributes[n], attributes[n])
  <2> DEFINE a == attributes[n]
             o == copy.attributes[n]
  <2>1. a.key \in CString /\ a.value.data \in CString /\ a.value.num \in Int
    <3>1. a \in Attribute
      BY <1>1, InputIs, ElementOfSeq
    <3>2. \A b \in Attribute : b.value.num \in Int
      BY DEF Attribute
    <3> QED BY <1>1, <3>1, <3>2, InputIs
  <2>2. /\ a.value.kind = "SIGNED" => a.value.num \in -(Word \div 2) .. (Word \div 2) - 1
        /\ a.value.kind = "UNSIGNED" => a.value.num \in 0 .. Word - 1
        /\ a.value.kind = "BOOL" => a.value.num \in {0, 1}
        /\ a.value.kind = "DOUBLE" /\ a.value.data # Null =>
              a.value.data # << >> /\ \A k \in DOMAIN a.value.data : BareByte(a.value.data[k])
    <3>1. n \in DOMAIN input.event.attributes
      BY <1>1, InputIs DEF attributes, event
    <3> QED BY <1>1, <3>1, EventPathConstants, Zenon DEF attributes, event
  <2>3. a.value.kind = "UNSIGNED" => a.value.num \in Nat
    BY <2>2, JsonEncoderConstants
  <2>4. AttributeKept(o, a)
    BY <1>2 DEF CopiedInv
  <2>5. a.key # Null /\ validate_attr_value(a.value)
    BY <1>4 DEF AttributeFine, validate_string_field
  <2> HIDE DEF a, o
  <2>6. a.key \in Seq(Byte)
    BY <2>1, <2>5 DEF CString
  <2>7. HoldsString(o.key, a.key)
    <3>1. PICK at : o.key = Owned(a.key, at, Len(a.key))
      BY <2>4, Zenon DEF AttributeKept, StringKept
    <3> QED BY <2>6, <3>1, KeptHolds, Zenon
  <2>8. HoldsValue(o.value, a)
    <3>1. CASE IsString(a)
      <4>1. a.value.data # Null
        BY <2>5, <3>1 DEF IsString, validate_attr_value
      <4>2. a.value.data \in Seq(Byte)
        BY <2>1, <4>1 DEF CString
      <4>3. IsString(o) /\ ValueKept(o.value.data, a)
        BY <2>4, <3>1, Zenon DEF AttributeKept
      <4> QED BY <2>6, <3>1, <4>2, <4>3, ValueHolds, Zenon
    <3>2. CASE ~IsString(a)
      <4>1. o.value = a.value
        BY <2>4, <3>2, Zenon DEF AttributeKept
      <4> QED BY <2>1, <2>2, <2>3, <2>5, <3>2, <4>1, PlainHolds, Zenon
    <3> QED BY <3>1, <3>2
  <2>9. HoldsAttribute(o, a)
    BY <2>7, <2>8, Zenon DEF HoldsAttribute, HoldsString
  <2> QED BY <2>9 DEF a, o
<1>9. event.level \in 0 .. 5
  BY <1>4 DEF HeaderOk, level_is_valid
<1>10. DOMAIN attributes = 1 .. L /\ (attributes = << >> <=> L = 0)
  <2>1. attributes \in Seq(Attribute)
    BY <1>1, InputIs
  <2> QED BY <2>1, EmptySeq
<1>11. 1 \in 1 .. 5 /\ 2 \in 1 .. 5 /\ 3 \in 1 .. 5
  OBVIOUS
<1> HIDE DEF L
<1>12. HoldsString(copy.fields[1], fields[1]) /\ HoldsString(copy.fields[2], fields[2])
  BY <1>5, <1>6, <1>11, Zenon
<1>13. /\ copy.fields[3] = Null <=> fields[3] = Null
       /\ fields[3] # Null => HoldsString(copy.fields[3], fields[3])
  BY <1>6, <1>7, <1>11, Zenon
<1>14. copy.attributes = << >> <=> attributes = << >>
  BY <1>2, <1>10, Zenon
<1>15. \E n \in Nat : /\ DOMAIN attributes = 1 .. n /\ DOMAIN copy.attributes = 1 .. n
                      /\ \A k \in 1 .. n : HoldsAttribute(copy.attributes[k], attributes[k])
  BY <1>1, <1>2, <1>8, <1>10, Zenon
<1> QED BY <1>9, <1>12, <1>13, <1>14, <1>15, Zenon DEF CopyHolds

(* The text of a timestamp needs no escape. *)
LEMMA TimestampWord ==
    ASSUME NEW t \in Seq((48 .. 57) \cup {45, 84, 58, 46, 90})
    PROVE  IsWord(t)
<1> DEFINE S == (48 .. 57) \cup {45, 84, 58, 46, 90}
<1>1. S \subseteq Byte /\ \A c \in S : c \notin MustEscape
  BY DEF Byte, MustEscape, Quote, Backslash
<1>2. t \in Seq(S)
  OBVIOUS
<1> HIDE DEF S
<1>3. t \in Seq(Byte) /\ \A k \in DOMAIN t : t[k] \in S
  BY <1>1, <1>2
<1> QED BY <1>1, <1>3, Zenon DEF IsWord

(* A record without its LF. *)
LEMMA LineEnds ==
    ASSUME NEW J \in Seq(Byte)
    PROVE  SubSeq(J \o <<Lf>>, 1, Len(J \o <<Lf>>) - 1) = J /\ Last(J \o <<Lf>>) = Lf
<1> DEFINE x == <<Lf>>
           y == J \o x
<1>1. x \in Seq(Byte) /\ Len(x) = 1 /\ x[1] = Lf
  BY DEF Byte, Lf
<1> HIDE DEF x
<1>2. /\ y \in Seq(Byte) /\ Len(y) = Len(J) + Len(x)
      /\ \A j \in 1 .. Len(J) : y[j] = J[j]
      /\ \A j \in 1 .. Len(x) : y[Len(J) + j] = x[j]
  <2>1. x \in Seq(Byte)
    BY <1>1
  <2>2. \A s, u \in Seq(Byte) :
           /\ s \o u \in Seq(Byte) /\ Len(s \o u) = Len(s) + Len(u)
           /\ \A j \in 1 .. Len(s) : (s \o u)[j] = s[j]
           /\ \A j \in 1 .. Len(u) : (s \o u)[Len(s) + j] = u[j]
    BY ConcatAt
  <2> QED BY <2>1, <2>2, Zenon
<1> HIDE DEF y
<1>3. y \in Seq(Byte) /\ Len(y) = Len(J) + 1 /\ y[Len(J) + 1] = Lf
  BY <1>1, <1>2
<1>4. SubSeq(y, 1, Len(y) - 1) = J
  BY <1>2, <1>3
<1>5. Last(y) = Lf
  BY <1>3 DEF Last
<1> QED BY <1>4, <1>5, Zenon DEF x, y

(* What the invariants say of a JSON payload that was accepted. *)
LEMMA AcceptedJson ==
    ASSUME PhaseInv, ArenaInv, CopiedInv, VerdictInv, PayloadInv, ComposedInv,
           payload.ok, input.sink # "SYSLOG", input.locale = "C"
    PROVE  JsonReadsBack
<1>1. payload # NoPayload
  BY DEF NoPayload
<1>2. /\ pieces # << >> /\ pc = "done" /\ status = "OK" /\ pieces \in Seq(Piece)
      /\ pieces = JsonPieces(input, event, copy)
  BY <1>1 DEF PayloadInv, ComposedInv
<1>3. Composed /\ payload.text = Whole
  BY <1>1 DEF PayloadInv, FitsExact
<1>4. NoNull(pieces)
  BY <1>2, <1>3, ComposedIs, Zenon DEF NoNull
<1>5. IsCopy(copy) /\ IsTime(event.timestamp)
  BY <1>2, CopyIs
<1>6. CopyHolds
  BY <1>2, CopyIsHeld
<1>7. format_timestamp_rfc3339(event.timestamp) # << >>
  <2>1. ASSUME format_timestamp_rfc3339(event.timestamp) = << >>
        PROVE  JsonPieces(input, event, copy) = <<Null>>
    BY <2>1, Zenon DEF JsonPieces
  <2>2. ~NoNull(<<Null>>)
    BY DEF NoNull
  <2> QED BY <1>2, <1>4, <2>1, <2>2, Zenon
<1>8. Formats(event.timestamp)
  BY <1>7, Zenon DEF format_timestamp_rfc3339
<1>9. /\ format_timestamp_rfc3339(event.timestamp) = Timestamp
      /\ Timestamp \in Seq((48 .. 57) \cup {45, 84, 58, 46, 90})
  BY <1>5, <1>8, TimeExact, Zenon
<1>10. IsWord(Timestamp)
  BY <1>9, TimestampWord, Zenon
<1> DEFINE J == Joined(pieces)
<1>11. Lexes(FALSE, J, EmittedObject)
  <2>1. Timestamp # << >>
    BY <1>7, <1>9, Zenon
  <2> QED BY <1>2, <1>4, <1>5, <1>6, <1>9, <1>10, <2>1, JsonObject, Zenon
<1>12. Lex(J) = EmittedObject
  BY <1>11, LexOf, Zenon
<1>13. J \in Seq(Byte)
  BY <1>2, JoinedIs
<1>14. CASE input.sink = "FILE"
  <2>1. payload.text = J \o <<Lf>>
    BY <1>3, <1>14, Zenon DEF Whole
  <2>2. JsonPart = SubSeq(payload.text, 1, Len(payload.text) - 1)
    BY <1>14, Zenon DEF JsonPart
  <2> HIDE DEF J
  <2>3. SubSeq(J \o <<Lf>>, 1, Len(J \o <<Lf>>) - 1) = J /\ Last(J \o <<Lf>>) = Lf
    BY <1>13, LineEnds, Zenon
  <2>4. JsonPart = J /\ Last(payload.text) = Lf
    BY <2>1, <2>2, <2>3, Zenon
  <2> QED BY <1>12, <2>4, Zenon DEF JsonReadsBack
<1>15. CASE input.sink # "FILE"
  <2>1. payload.text = J \o << >>
    BY <1>3, <1>15, Zenon DEF Whole
  <2>2. JsonPart = payload.text
    BY <1>15, Zenon DEF JsonPart
  <2> HIDE DEF J
  <2>3. J \o << >> = J
    BY <1>13, ConcatEmptySeq
  <2>4. JsonPart = J
    BY <2>1, <2>2, <2>3, Zenon
  <2> QED BY <1>12, <1>15, <2>4, Zenon DEF JsonReadsBack
<1> QED BY <1>14, <1>15, Zenon

(* Every JSON payload the encoders accept reads back as the members of the *)
(* event they emit: a lexer for JSON finds timestamp, level, event_name,   *)
(* message, the logger if there is one and the attributes, in this order   *)
(* and nothing else; each of their strings has its bytes, whatever had to  *)
(* be escaped, each number its value, a string under a key of the denylist *)
(* is the literal, and a file record ends with its LF.  The source         *)
(* location and the trace context of an event are not part of a payload.   *)
THEOREM EventJsonReadsBack == PathSpec => []JsonReadsBack
<1> DEFINE Inv == /\ PhaseInv /\ ArenaInv /\ CopiedInv /\ VerdictInv /\ PayloadInv
                  /\ ComposedInv
<1>1. PathInit => Inv
  <2>1. PathInit => PhaseInv /\ ArenaInv /\ VerdictInv
    BY CallInit, VerdictInit DEF PathInit
  <2>2. PathInit => CopiedInv
    BY DEF PathInit, Init, CopiedInv, NoCopy
  <2>3. PathInit => PayloadInv /\ ComposedInv
    BY DEF PathInit, PayloadInv, FitsExact, ComposedInv
  <2> QED BY <2>1, <2>2, <2>3
<1>2. Inv /\ [PathNext]_pathVars => Inv'
  <2>1. [PathNext]_pathVars => [Next]_vars
    BY Zenon DEF PathNext, Copying, Compose, Encode, Finish, Next, pathVars
  <2> QED BY <2>1, CallStep, CopiedStep, VerdictStep, PayloadStep, ComposedStep
<1>3. Inv => JsonReadsBack
  <2>1. ~(payload.ok /\ input.sink # "SYSLOG" /\ input.locale = "C") => JsonReadsBack
    BY Zenon DEF JsonReadsBack
  <2> QED BY <2>1, AcceptedJson
<1> QED BY <1>1, <1>2, <1>3, PTL DEF PathSpec
====
