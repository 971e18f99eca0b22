------------------------- MODULE UsbFunctionsProofs -------------------------
(***************************************************************************)
(* Theorems about UsbFunctions for any callers, words, lengths of a string *)
(* and numbers of events.                                                  *)
(***************************************************************************)
EXTENDS UsbFunctions, SequenceTheorems, WellFoundedInduction, TLAPS

(* What it means that nothing has met the call or the query under way: no  *)
(* answer of usbd is waiting to be stored while a caller is on its way to  *)
(* usbd, that caller is the only one and its mask is the stored one, and   *)
(* without a caller the answer waiting to be stored is what usbd has set.  *)
AloneMeansAlone ==
    alone =>
        /\ Setting # {} =>
              /\ handler \notin {"query", "store"}
              /\ \E c \in Callers : Setting = {c} /\ currentFunctions = asked[c]
        /\ Setting = {} /\ handler = "store" => answer = gadget

FunctionsInv == TypeOK /\ AloneMeansAlone /\ AgreeUnlessRaced

-----------------------------------------------------------------------------
(* Conversions *)

(* ConvertFromString returns a mask of bits, the error code included. *)
LEMMA ConvertFromStringType ==
    ASSUME NEW text
    PROVE  ConvertFromString(text) \in SUBSET Bits
<1>1. \A n \in DOMAIN FUNCTION_MAPPING_N2C : FUNCTION_MAPPING_N2C[n] \subseteq Bits
  BY DEF FUNCTION_MAPPING_N2C, Bits
<1>2. UEC_SERVICE_INVALID_VALUE \subseteq Bits
  BY FunctionsConstants
<1>3. QED
  BY <1>1, <1>2 DEF ConvertFromString

(* The masks a caller may store. *)
LEMMA MasksType == Masks \subseteq SUBSET Bits
BY ConvertFromStringType DEF Masks

(* ConvertToString names a settable function by its own name, *)
LEMMA ConvertToStringOfFunction ==
    ASSUME NEW f \in FUNCTION_SETTABLE
    PROVE  ConvertToString({f}) = <<f>>
<1>1. {f} # {} /\ {f} \subseteq FUNCTION_SETTABLE
  OBVIOUS
<1>2. CASE f = "hdc"
  BY <1>1, <1>2 DEF ConvertToString
<1>3. CASE f = "acm"
  BY <1>1, <1>3 DEF ConvertToString
<1>4. CASE f = "ecm"
  BY <1>1, <1>4 DEF ConvertToString
<1>5. QED
  BY <1>2, <1>3, <1>4 DEF FUNCTION_SETTABLE

(* and any other bit "none". *)
LEMMA ConvertToStringOfOther ==
    ASSUME NEW b, b \notin FUNCTION_SETTABLE
    PROVE  ConvertToString({b}) = <<"none">>
BY DEF ConvertToString

(* What Publish broadcasts. *)
LEMMA ParametersType ==
    ASSUME NEW mask
    PROVE  Params(mask) \in SUBSET {<<b>> : b \in FUNCTION_SETTABLE \cup {"none"}}
BY ConvertToStringOfFunction, ConvertToStringOfOther DEF Params

-----------------------------------------------------------------------------
(* Strings as lists *)

(* The names a field may have. *)
Names == DOMAIN FUNCTION_MAPPING_N2C

(* Among numbers there is a smallest: what the inductions over strings use. *)
LEMMA SmallestNumber ==
    ASSUME NEW T \in SUBSET Nat, T # {}
    PROVE  \E x \in T : \A y \in T : x <= y
<1>1. IsWellFoundedOn(OpToRel(<, Nat), Nat)
  BY NatLessThanWellFounded
<1>2. PICK x \in T : \A y \in T : <<y, x>> \notin OpToRel(<, Nat)
  BY <1>1, WFMin
<1>3. \A y \in T : ~(y < x)
  BY <1>2 DEF OpToRel
<1>4. QED
  BY <1>3

(* A field is one word exactly if a comma or the end of the string follows it. *)
LEMMA FieldIsWord ==
    ASSUME NEW S, NEW text \in Seq(S), NEW start \in 1 .. Len(text), NEW n, n # "comma"
    PROVE  FieldAt(text, start) = <<n>>
             <=> text[start] = n /\ (start = Len(text) \/ text[start + 1] = "comma")
<1> DEFINE IsEnd(e) == /\ e = Len(text) + 1 \/ text[e] = "comma"
                       /\ \A i \in start .. e - 1 : text[i] # "comma"
           end == CHOOSE e \in start .. Len(text) + 1 : IsEnd(e)
<1>0. Len(text) \in Nat /\ start \in Nat /\ start >= 1 /\ start <= Len(text)
  OBVIOUS
<1>1. FieldAt(text, start) = SubSeq(text, start, end - 1)
  BY DEF FieldAt
<1>2. \E e \in start .. Len(text) + 1 : IsEnd(e)
  <2> DEFINE T == {e \in start .. Len(text) + 1 : e = Len(text) + 1 \/ text[e] = "comma"}
  <2>1. T \in SUBSET Nat /\ Len(text) + 1 \in T
    BY <1>0
  <2>2. PICK x \in T : \A y \in T : x <= y
    BY <2>1, SmallestNumber
  <2>3. \A i \in start .. x - 1 : text[i] # "comma"
    BY <1>0, <2>2
  <2>4. QED
    BY <2>2, <2>3
<1>3. end \in start .. Len(text) + 1 /\ IsEnd(end)
  BY <1>2
<1> HIDE DEF end
<1>4. end \in Nat /\ end >= start /\ end <= Len(text) + 1
  BY <1>0, <1>3
<1>5. /\ Len(SubSeq(text, start, end - 1)) = end - start
      /\ \A i \in 1 .. end - start : SubSeq(text, start, end - 1)[i] = text[start + i - 1]
      /\ SubSeq(text, start, end - 1) \in Seq(S)
  <2>1. \A i \in start .. end - 1 : text[i] \in S
    BY <1>0, <1>4
  <2>2. /\ SubSeq(text, start, end - 1) \in Seq(S)
        /\ Len(SubSeq(text, start, end - 1)) = IF start <= end - 1 THEN (end - 1) - start + 1 ELSE 0
        /\ \A i \in 1 .. (end - 1) - start + 1 : SubSeq(text, start, end - 1)[i] = text[start + i - 1]
    BY <1>0, <1>4, <2>1, SubSeqProperties
  <2>3. (end - 1) - start + 1 = end - start /\ (~(start <= end - 1) => end - start = 0)
    BY <1>0, <1>4
  <2>4. QED
    BY <2>2, <2>3
<1>6. ASSUME text[start] = n, start = Len(text) \/ text[start + 1] = "comma"
      PROVE  FieldAt(text, start) = <<n>>
  <2>1. end # start
    BY <1>0, <1>3, <1>6
  <2>2. end = start + 1
    BY <1>0, <1>3, <1>4, <1>6, <2>1
  <2>3. Len(FieldAt(text, start)) = 1 /\ FieldAt(text, start)[1] = n /\ FieldAt(text, start) \in Seq(S)
    BY <1>0, <1>1, <1>5, <1>6, <2>2
  <2>4. QED
    BY <2>3
<1>7. ASSUME FieldAt(text, start) = <<n>>
      PROVE  text[start] = n /\ (start = Len(text) \/ text[start + 1] = "comma")
  <2>1. end - start = 1
    <3>1. Len(<<n>>) = 1
      OBVIOUS
    <3>2. Len(FieldAt(text, start)) = end - start
      BY <1>1, <1>5
    <3>3. QED
      BY <3>1, <3>2, <1>7
  <2>2. end = start + 1
    BY <1>0, <1>4, <2>1
  <2>3. text[start] = n
    BY <1>0, <1>1, <1>5, <1>7, <2>2
  <2>4. QED
    BY <1>0, <1>3, <2>2, <2>3
<1>8. QED
  BY <1>6, <1>7

(* The number after an odd one is even. *)
LEMMA Parity == \A i \in Nat : (i + 1) % 2 = 1 <=> i % 2 # 1
OBVIOUS

(* The names. *)
LEMMA NamesAre == Names = {"none", "acm", "ecm", "hdc", "mtp", "ptp"} /\ "comma" \notin Names
BY DEF Names, FUNCTION_MAPPING_N2C

(* What a name stands for. *)
LEMMA MappingOf ==
    ASSUME NEW n \in Names
    PROVE  FUNCTION_MAPPING_N2C[n] = IF n = "none" THEN {} ELSE {n}
<1>1. n \in {"none", "acm", "ecm", "hdc", "mtp", "ptp"}
  BY NamesAre
<1>2. QED
  BY <1>1 DEF FUNCTION_MAPPING_N2C

(* In a list of names, a field begins at every odd place. *)
LEMMA StartsAreOdd ==
    ASSUME NEW S, NEW text \in Seq(S), WellFormed(text), NEW p \in 1 .. Len(text)
    PROVE  p \in FieldStarts(text) <=> p % 2 = 1
<1>1. Len(text) \in Nat /\ DOMAIN text = 1 .. Len(text) /\ p \in Nat
  OBVIOUS
<1>2. CASE p = 1
  BY <1>1, <1>2 DEF FieldStarts
<1>3. CASE p > 1
  <2>1. p - 1 \in 1 .. Len(text) /\ ((p - 1) % 2 = 1 <=> p % 2 # 1)
    BY <1>1, <1>3
  <2>2. IF (p - 1) % 2 = 1 THEN text[p - 1] \in Names ELSE text[p - 1] = "comma"
    BY <1>1, <2>1 DEF WellFormed, Names
  <2>3. text[p - 1] = "comma" <=> p % 2 = 1
    BY <2>1, <2>2, NamesAre
  <2>4. QED
    BY <1>1, <1>3, <2>3 DEF FieldStarts
<1>4. QED
  BY <1>1, <1>2, <1>3

(* The names ConvertFromString finds in the fields. *)
NamesFound(text) == {n \in Names : <<n>> \in {FieldAt(text, p) : p \in FieldStarts(text)}}

(* Every field of a string is a name exactly if the string is a list of names. *)
LEMMA FieldsOfList ==
    ASSUME NEW S, NEW text \in Seq(S), text # <<>>
    PROVE  WellFormed(text) <=> \A p \in FieldStarts(text) : \E n \in Names : FieldAt(text, p) = <<n>>
<1> DEFINE Word(p) == text[p] \in Names /\ (p = Len(text) \/ text[p + 1] = "comma")
<1>1. Len(text) \in Nat /\ DOMAIN text = 1 .. Len(text)
  OBVIOUS
<1>2. \A p \in FieldStarts(text) : (\E n \in Names : FieldAt(text, p) = <<n>>) <=> Word(p)
  <2> SUFFICES ASSUME NEW p \in FieldStarts(text)
               PROVE  (\E n \in Names : FieldAt(text, p) = <<n>>) <=> Word(p)
    OBVIOUS
  <2>1. p \in 1 .. Len(text)
    BY DEF FieldStarts
  <2>2. \A n \in Names : FieldAt(text, p) = <<n>>
                           <=> text[p] = n /\ (p = Len(text) \/ text[p + 1] = "comma")
    BY <2>1, FieldIsWord, NamesAre
  <2>3. QED
    BY <2>2
<1>3. ASSUME WellFormed(text), NEW p \in FieldStarts(text)
      PROVE  Word(p)
  <2>1. p \in 1 .. Len(text)
    BY DEF FieldStarts
  <2>2. p % 2 = 1
    BY <1>3, <2>1, StartsAreOdd
  <2>3. text[p] \in Names
    BY <1>1, <1>3, <2>1, <2>2 DEF WellFormed, Names
  <2>4. (p + 1) % 2 # 1
    BY <1>1, <2>1, <2>2, Parity
  <2>5. p # Len(text) => p + 1 \in DOMAIN text
    <3>1. \A l \in Nat : \A j \in 1 .. l : j # l => j + 1 \in 1 .. l
      OBVIOUS
    <3>2. QED
      BY <1>1, <2>1, <3>1
  <2>6. QED
    BY <1>3, <2>3, <2>4, <2>5 DEF WellFormed
<1>4. ASSUME \A p \in FieldStarts(text) : Word(p)
      PROVE  WellFormed(text)
  <2> DEFINE Good(i) == IF i % 2 = 1 THEN text[i] \in Names ELSE text[i] = "comma"
             Bad == {i \in 1 .. Len(text) : ~Good(i)}
  <2>1. Bad = {}
    <3> SUFFICES ASSUME Bad # {} PROVE FALSE
      OBVIOUS
    <3>1. PICK i \in Bad : \A j \in Bad : i <= j
      <4>1. Bad \in SUBSET Nat
        BY <1>1
      <4>2. QED
        BY <4>1, SmallestNumber
    <3>2. i \in 1 .. Len(text) /\ ~Good(i) /\ \A j \in 1 .. i - 1 : Good(j)
      BY <1>1, <3>1
    <3>3. CASE i = 1
      <4>1. 1 \in FieldStarts(text)
        BY <1>1, <3>2, <3>3 DEF FieldStarts
      <4>2. QED
        BY <1>4, <3>2, <3>3, <4>1
    <3>4. CASE i > 1 /\ i % 2 = 1
      <4>1. i - 1 \in 1 .. i - 1 /\ (i - 1) % 2 # 1
        BY <1>1, <3>2, <3>4
      <4>2. text[i - 1] = "comma"
        BY <3>2, <4>1
      <4>3. i \in FieldStarts(text)
        BY <3>2, <4>2 DEF FieldStarts
      <4>4. QED
        BY <1>4, <3>2, <3>4, <4>3
    <3>5. CASE i > 1 /\ i % 2 # 1
      <4>1. i - 1 \in 1 .. Len(text) /\ i - 1 # Len(text) /\ (i - 1) + 1 = i
        BY <1>1, <3>2, <3>5
      <4>2. i - 1 = 1 \/ (i - 2 \in 1 .. i - 1 /\ (i - 2) % 2 # 1 /\ (i - 1) - 1 = i - 2)
        BY <1>1, <3>2, <3>5
      <4>3. i - 1 = 1 \/ text[(i - 1) - 1] = "comma"
        BY <3>2, <4>2
      <4>4. i - 1 \in FieldStarts(text)
        BY <4>1, <4>3 DEF FieldStarts
      <4>5. QED
        BY <1>4, <3>2, <3>5, <4>1, <4>4
    <3>6. QED
      BY <3>2, <3>3, <3>4, <3>5
  <2>2. \A i \in DOMAIN text : Good(i)
    BY <1>1, <2>1
  <2>3. QED
    BY <2>2 DEF WellFormed, Names
<1>5. QED
  BY <1>2, <1>3, <1>4

(* The names found in a list are those that are written there. *)
LEMMA NamesOfList ==
    ASSUME NEW S, NEW text \in Seq(S), WellFormed(text)
    PROVE  NamesFound(text) = {text[i] : i \in DOMAIN text} \ {"comma"}
<1>1. Len(text) \in Nat /\ DOMAIN text = 1 .. Len(text)
  OBVIOUS
<1>2. \A i \in 1 .. Len(text) : IF i % 2 = 1 THEN text[i] \in Names ELSE text[i] = "comma"
  BY <1>1 DEF WellFormed, Names
<1>3. ASSUME NEW n \in NamesFound(text)
      PROVE  n \in {text[i] : i \in DOMAIN text} \ {"comma"}
  <2>1. PICK p \in FieldStarts(text) : FieldAt(text, p) = <<n>>
    BY DEF NamesFound
  <2>2. n \in Names /\ n # "comma"
    BY NamesAre DEF NamesFound
  <2>3. p \in 1 .. Len(text)
    BY DEF FieldStarts
  <2>4. text[p] = n
    BY <2>1, <2>2, <2>3, FieldIsWord
  <2>5. QED
    BY <1>1, <2>2, <2>3, <2>4
<1>4. ASSUME NEW i \in 1 .. Len(text), text[i] # "comma"
      PROVE  text[i] \in NamesFound(text)
  <2>1. i % 2 = 1 /\ text[i] \in Names
    BY <1>2, <1>4
  <2>2. i \in FieldStarts(text)
    BY <2>1, StartsAreOdd
  <2>3. i = Len(text) \/ text[i + 1] = "comma"
    <3>1. (i + 1) % 2 # 1
      BY <1>1, <2>1, Parity
    <3>2. i # Len(text) => i + 1 \in 1 .. Len(text)
      <4>1. \A l \in Nat : \A j \in 1 .. l : j # l => j + 1 \in 1 .. l
        OBVIOUS
      <4>2. QED
        BY <1>1, <4>1
    <3>3. QED
      BY <1>2, <3>1, <3>2
  <2>4. FieldAt(text, i) = <<text[i]>>
    BY <1>4, <2>3, FieldIsWord
  <2>5. QED
    BY <2>1, <2>2, <2>4 DEF NamesFound
<1>5. QED
  BY <1>1, <1>3, <1>4

(* The loop of ConvertFromString, on any string, is its reference. *)
LEMMA ConvertFromStringIsReference ==
    ASSUME NEW S, NEW text \in Seq(S)
    PROVE  ConvertFromString(text) = IF WellFormed(text) THEN NamedIn(text) ELSE UEC_SERVICE_INVALID_VALUE
<1> DEFINE fields == {FieldAt(text, p) : p \in FieldStarts(text)}
           found == {n \in Names : <<n>> \in fields}
<1>1. ConvertFromString(text) =
          IF text = <<"none">> THEN {}
          ELSE IF text = <<>> \/ \E f \in fields : \A n \in found : f # <<n>>
          THEN UEC_SERVICE_INVALID_VALUE
          ELSE UNION {FUNCTION_MAPPING_N2C[n] : n \in found}
  BY DEF ConvertFromString, Names
<1>2. found = NamesFound(text)
  BY DEF NamesFound
<1>3. (\A f \in fields : \E n \in found : f = <<n>>)
        <=> \A p \in FieldStarts(text) : \E n \in Names : FieldAt(text, p) = <<n>>
  OBVIOUS
<1> HIDE DEF fields, found
<1>4. CASE text = <<"none">>
  <2>1. Len(text) = 1 /\ DOMAIN text = {1} /\ text[1] = "none"
    BY <1>4
  <2>2. WellFormed(text)
    BY <1>4, <2>1, NamesAre DEF WellFormed, Names
  <2>3. NamedIn(text) = {}
    BY <2>1 DEF NamedIn
  <2>4. QED
    BY <1>1, <1>4, <2>2, <2>3
<1>5. CASE text = <<>>
  BY <1>1, <1>5 DEF WellFormed
<1>6. CASE text # <<>> /\ text # <<"none">>
  <2>1. WellFormed(text) <=> \A f \in fields : \E n \in found : f = <<n>>
    BY <1>3, <1>6, FieldsOfList
  <2>2. CASE ~WellFormed(text)
    BY <1>1, <1>6, <2>1, <2>2
  <2>3. CASE WellFormed(text)
    <3>1. ConvertFromString(text) = UNION {FUNCTION_MAPPING_N2C[n] : n \in found}
      BY <1>1, <1>6, <2>1, <2>3
    <3>2. found = {text[i] : i \in DOMAIN text} \ {"comma"}
      BY <1>2, <2>3, NamesOfList
    <3>3. found \subseteq Names
      BY <1>2 DEF NamesFound
    <3>4. UNION {FUNCTION_MAPPING_N2C[n] : n \in found} = found \ {"none"}
      <4>1. \A n \in found : FUNCTION_MAPPING_N2C[n] = IF n = "none" THEN {} ELSE {n}
        BY <3>3, MappingOf
      <4>2. \A x : (\E n \in found : x \in FUNCTION_MAPPING_N2C[n]) <=> x \in found \ {"none"}
        BY <4>1
      <4>3. QED
        BY <4>2
    <3>5. NamedIn(text) = found \ {"none"}
      BY <3>2 DEF NamedIn
    <3>6. QED
      BY <2>3, <3>1, <3>4, <3>5
  <2>4. QED
    BY <2>2, <2>3
<1>7. QED
  BY <1>4, <1>5, <1>6

(* A sequence with two more items. *)
LEMMA TwoMore ==
    ASSUME NEW S, NEW s \in Seq(S), NEW q \in Seq(S), NEW t \in Seq(S),
           Len(q) = 2, Len(t) = Len(s) + 2,
           \A i \in 1 .. Len(s) : t[i] = s[i],
           t[Len(s) + 1] = q[1], t[Len(s) + 2] = q[2]
    PROVE  s \o q = t
<1>1. Len(s) \in Nat
  OBVIOUS
<1>2. s \o q \in Seq(S)
  BY ConcatProperties
<1>3. Len(s \o q) = Len(s) + Len(q)
  BY ConcatProperties
<1>4. \A i \in 1 .. Len(s) + Len(q) : (s \o q)[i] = IF i <= Len(s) THEN s[i] ELSE q[i - Len(s)]
  BY ConcatProperties, Zenon
<1>5. \A i \in 1 .. Len(t) : (s \o q)[i] = t[i]
  <2> SUFFICES ASSUME NEW i \in 1 .. Len(t) PROVE (s \o q)[i] = t[i]
    OBVIOUS
  <2>1. (s \o q)[i] = IF i <= Len(s) THEN s[i] ELSE q[i - Len(s)]
    BY <1>4
  <2>2. i \in 1 .. Len(s) \/ i = Len(s) + 1 \/ i = Len(s) + 2
    BY <1>1
  <2>3. QED
    BY <1>1, <2>1, <2>2
<1>6. QED
  BY <1>2, <1>3, <1>5, SeqEqual

(* A list of one name. *)
LEMMA ListOfOne ==
    ASSUME NEW a \in Names
    PROVE  WellFormed(<<a>>) /\ NamedIn(<<a>>) = {a} \ {"none"}
<1>1. DOMAIN <<a>> = {1} /\ <<a>>[1] = a
  OBVIOUS
<1>2. QED
  BY <1>1, NamesAre DEF WellFormed, NamedIn, Names

(* A list of two names, as it is put together. *)
LEMMA ListOfTwo ==
    ASSUME NEW a \in Names, NEW b \in Names
    PROVE  /\ <<a>> # <<>> /\ <<a>> \o <<"comma", b>> = <<a, "comma", b>>
           /\ WellFormed(<<a, "comma", b>>) /\ NamedIn(<<a, "comma", b>>) = {a, b} \ {"none"}
<1> DEFINE t == <<a, "comma", b>>
<1>1. DOMAIN t = {1, 2, 3} /\ t[1] = a /\ t[2] = "comma" /\ t[3] = b /\ t # <<>>
  OBVIOUS
<1>2. <<a>> \o <<"comma", b>> = t
  <2> DEFINE S == {a, b, "comma"}
             h == <<a>>
             q == <<"comma", b>>
  <2>1. h \in Seq(S) /\ q \in Seq(S) /\ t \in Seq(S)
    OBVIOUS
  <2>2. Len(h) = 1 /\ Len(q) = 2 /\ Len(t) = 3
    OBVIOUS
  <2>3. /\ q[1] = "comma" /\ q[2] = b /\ t[2] = "comma" /\ t[3] = b
        /\ h[1] = a /\ t[1] = a
    OBVIOUS
  <2> HIDE DEF S, h, q, t
  <2>4. \A i \in 1 .. Len(h) : t[i] = h[i]
    BY <2>2, <2>3
  <2>5. Len(t) = Len(h) + 2 /\ t[Len(h) + 1] = q[1] /\ t[Len(h) + 2] = q[2]
    BY <2>2, <2>3
  <2>6. h \o q = t
    BY <2>1, <2>2, <2>4, <2>5, TwoMore
  <2>7. QED
    BY <2>6 DEF h, q
<1>3. <<a>> # <<>>
  OBVIOUS
<1> HIDE DEF t
<1>4. WellFormed(t)
  BY <1>1 DEF WellFormed, Names
<1>5. NamedIn(t) = {a, b} \ {"none"}
  BY <1>1, NamesAre DEF NamedIn
<1>6. QED
  BY <1>2, <1>3, <1>4, <1>5 DEF t

(* A list of three names, as it is put together. *)
LEMMA ListOfThree ==
    ASSUME NEW a \in Names, NEW b \in Names, NEW c \in Names
    PROVE  /\ <<a, "comma", b>> # <<>>
           /\ <<a, "comma", b>> \o <<"comma", c>> = <<a, "comma", b, "comma", c>>
           /\ WellFormed(<<a, "comma", b, "comma", c>>)
           /\ NamedIn(<<a, "comma", b, "comma", c>>) = {a, b, c} \ {"none"}
<1> DEFINE t == <<a, "comma", b, "comma", c>>
<1>1. /\ DOMAIN t = {1, 2, 3, 4, 5} /\ t # <<>>
      /\ t[1] = a /\ t[2] = "comma" /\ t[3] = b /\ t[4] = "comma" /\ t[5] = c
  OBVIOUS
<1>2. <<a, "comma", b>> \o <<"comma", c>> = t
  <2> DEFINE S == {a, b, c, "comma"}
             h == <<a, "comma", b>>
             q == <<"comma", c>>
  <2>1. h \in Seq(S) /\ q \in Seq(S) /\ t \in Seq(S)
    OBVIOUS
  <2>2. Len(h) = 3 /\ Len(q) = 2 /\ Len(t) = 5
    OBVIOUS
  <2>3. /\ q[1] = "comma" /\ q[2] = c /\ t[4] = "comma" /\ t[5] = c
        /\ h[1] = a /\ h[2] = "comma" /\ h[3] = b /\ t[1] = a /\ t[2] = "comma" /\ t[3] = b
    OBVIOUS
  <2> HIDE DEF S, h, q, t
  <2>4. \A i \in 1 .. Len(h) : t[i] = h[i]
    BY <2>2, <2>3
  <2>5. Len(t) = Len(h) + 2 /\ t[Len(h) + 1] = q[1] /\ t[Len(h) + 2] = q[2]
    BY <2>2, <2>3
  <2>6. h \o q = t
    BY <2>1, <2>2, <2>4, <2>5, TwoMore
  <2>7. QED
    BY <2>6 DEF h, q
<1>3. <<a, "comma", b>> # <<>>
  OBVIOUS
<1> HIDE DEF t
<1>4. WellFormed(t)
  BY <1>1 DEF WellFormed, Names
<1>5. NamedIn(t) = {a, b, c} \ {"none"}
  BY <1>1, NamesAre DEF NamedIn
<1>6. QED
  BY <1>2, <1>3, <1>4, <1>5 DEF t

(* What ConvertToString writes is a list of the functions in the mask. *)
LEMMA ConvertToStringWritesList ==
    ASSUME NEW mask \in SUBSET FUNCTION_SETTABLE
    PROVE  /\ ConvertToString(mask) \in Seq(Names \cup {"comma"})
           /\ WellFormed(ConvertToString(mask))
           /\ NamedIn(ConvertToString(mask)) = mask
<1>1. "none" \in Names /\ "hdc" \in Names /\ "acm" \in Names /\ "ecm" \in Names
  BY NamesAre
<1>2. CASE mask = {}
  <2>1. ConvertToString(mask) = <<"none">>
    BY <1>2 DEF ConvertToString
  <2>2. QED
    <3>1. ConvertToString(mask) \in Seq(Names \cup {"comma"})
      BY <1>1, <2>1
    <3>2. WellFormed(ConvertToString(mask)) /\ NamedIn(ConvertToString(mask)) = mask \ {"none"}
      BY <1>1, <1>2, <2>1, ListOfOne
    <3>3. QED
      BY <1>2, <3>1, <3>2
<1>3. CASE mask = {"hdc"}
  <2>1. ConvertToString(mask) = <<"hdc">>
    BY <1>3 DEF ConvertToString, FUNCTION_SETTABLE
  <2>2. QED
    <3>1. ConvertToString(mask) \in Seq(Names \cup {"comma"})
      BY <1>1, <2>1
    <3>2. WellFormed(ConvertToString(mask)) /\ NamedIn(ConvertToString(mask)) = mask \ {"none"}
      BY <1>1, <1>3, <2>1, ListOfOne
    <3>3. QED
      BY <1>3, <3>1, <3>2
<1>4. CASE mask = {"acm"}
  <2>1. ConvertToString(mask) = <<"acm">>
    BY <1>4 DEF ConvertToString, FUNCTION_SETTABLE
  <2>2. QED
    <3>1. ConvertToString(mask) \in Seq(Names \cup {"comma"})
      BY <1>1, <2>1
    <3>2. WellFormed(ConvertToString(mask)) /\ NamedIn(ConvertToString(mask)) = mask \ {"none"}
      BY <1>1, <1>4, <2>1, ListOfOne
    <3>3. QED
      BY <1>4, <3>1, <3>2
<1>5. CASE mask = {"ecm"}
  <2>1. ConvertToString(mask) = <<"ecm">>
    BY <1>5 DEF ConvertToString, FUNCTION_SETTABLE
  <2>2. QED
    <3>1. ConvertToString(mask) \in Seq(Names \cup {"comma"})
      BY <1>1, <2>1
    <3>2. WellFormed(ConvertToString(mask)) /\ NamedIn(ConvertToString(mask)) = mask \ {"none"}
      BY <1>1, <1>5, <2>1, ListOfOne
    <3>3. QED
      BY <1>5, <3>1, <3>2
<1>6. CASE mask = {"hdc", "acm"}
  <2>1. ConvertToString(mask) = <<"hdc", "comma", "acm">>
    BY <1>1, <1>6, ListOfTwo DEF ConvertToString, FUNCTION_SETTABLE
  <2>2. QED
    <3>1. ConvertToString(mask) \in Seq(Names \cup {"comma"})
      BY <1>1, <2>1
    <3>2. WellFormed(ConvertToString(mask)) /\ NamedIn(ConvertToString(mask)) = mask \ {"none"}
      BY <1>1, <1>6, <2>1, ListOfTwo
    <3>3. QED
      BY <1>6, <3>1, <3>2
<1>7. CASE mask = {"hdc", "ecm"}
  <2>1. ConvertToString(mask) = <<"hdc", "comma", "ecm">>
    BY <1>1, <1>7, ListOfTwo DEF ConvertToString, FUNCTION_SETTABLE
  <2>2. QED
    <3>1. ConvertToString(mask) \in Seq(Names \cup {"comma"})
      BY <1>1, <2>1
    <3>2. WellFormed(ConvertToString(mask)) /\ NamedIn(ConvertToString(mask)) = mask \ {"none"}
      BY <1>1, <1>7, <2>1, ListOfTwo
    <3>3. QED
      BY <1>7, <3>1, <3>2
<1>8. CASE mask = {"acm", "ecm"}
  <2>1. ConvertToString(mask) = <<"acm", "comma", "ecm">>
    BY <1>1, <1>8, ListOfTwo DEF ConvertToString, FUNCTION_SETTABLE
  <2>2. QED
    <3>1. ConvertToString(mask) \in Seq(Names \cup {"comma"})
      BY <1>1, <2>1
    <3>2. WellFormed(ConvertToString(mask)) /\ NamedIn(ConvertToString(mask)) = mask \ {"none"}
      BY <1>1, <1>8, <2>1, ListOfTwo
    <3>3. QED
      BY <1>8, <3>1, <3>2
<1>9. CASE mask = {"hdc", "acm", "ecm"}
  <2> DEFINE text == <<"hdc", "comma", "acm", "comma", "ecm">>
  <2>1. /\ <<"hdc", "comma", "acm">> # <<>>
        /\ <<"hdc", "comma", "acm">> \o <<"comma", "ecm">> = text
        /\ WellFormed(text) /\ NamedIn(text) = {"hdc", "acm", "ecm"} \ {"none"}
    BY <1>1, ListOfThree, Zenon
  <2>2. <<"hdc">> # <<>> /\ <<"hdc">> \o <<"comma", "acm">> = <<"hdc", "comma", "acm">>
    BY <1>1, ListOfTwo, Zenon
  <2>3. text \in Seq(Names \cup {"comma"})
    BY <1>1
  <2> HIDE DEF text
  <2>4. ConvertToString(mask) = text
    BY <1>9, <2>1, <2>2 DEF ConvertToString, FUNCTION_SETTABLE
  <2>5. QED
    BY <1>9, <2>1, <2>3, <2>4
<1>10. QED
  BY <1>2, <1>3, <1>4, <1>5, <1>6, <1>7, <1>8, <1>9 DEF FUNCTION_SETTABLE

(* In every state, if the functions of usbd are settable. *)
LEMMA StringsStep ==
    ASSUME gadget \in SUBSET FUNCTION_SETTABLE
    PROVE  StringsAreLists
<1>1. ASSUME NEW text \in Texts
      PROVE  ConvertFromString(text) = IF WellFormed(text) THEN NamedIn(text) ELSE UEC_SERVICE_INVALID_VALUE
  <2>1. PICK n \in 0 .. MaxTokens : text \in [1 .. n -> Tokens]
    BY DEF Texts
  <2>2. text \in Seq(Tokens)
    BY <2>1, FunctionsConstants
  <2>3. QED
    BY <2>2, ConvertFromStringIsReference
<1>2. ConvertFromString(ConvertToString(gadget)) = gadget
  BY ConvertToStringWritesList, ConvertFromStringIsReference
<1>3. QED
  BY <1>1, <1>2 DEF StringsAreLists

-----------------------------------------------------------------------------

(* Every step keeps the types. *)
LEMMA TypeStep ==
    ASSUME TypeOK, [Next]_vars
    PROVE  TypeOK'
<1> USE FunctionsConstants DEF TypeOK, usbd, manager, broadcast, history
<1>1. CASE UNCHANGED vars
  BY <1>1 DEF vars
<1>2. CASE CableComes
  <2>1. queue' \in Seq({"ACT_UPDEVICE", "ACT_DOWNDEVICE"})
    BY <1>2 DEF CableComes
  <2>2. events' \in 0 .. MaxEvents
    BY <1>2 DEF CableComes
  <2>3. QED
    BY <1>2, <2>1, <2>2 DEF CableComes
<1>3. CASE CableGoes
  <2>1. queue' \in Seq({"ACT_UPDEVICE", "ACT_DOWNDEVICE"})
    BY <1>3 DEF CableGoes
  <2>2. events' \in 0 .. MaxEvents
    BY <1>3 DEF CableGoes
  <2>3. QED
    BY <1>3, <2>1, <2>2 DEF CableGoes
<1>4. CASE HandleUp
  BY <1>4 DEF HandleUp
<1>5. CASE HandleDown
  <2>1. queue' \in Seq({"ACT_UPDEVICE", "ACT_DOWNDEVICE"})
    BY <1>5 DEF HandleDown
  <2>2. QED
    BY <1>5, <2>1 DEF HandleDown
<1>6. CASE UsbdAnswers
  BY <1>6 DEF UsbdAnswers
<1>7. CASE UsbdFails
  BY <1>7 DEF UsbdFails
<1>8. CASE StoreAnswer
  <2>1. currentFunctions' \in SUBSET Bits
    BY <1>8 DEF StoreAnswer, FUNCTION_SETTABLE, Bits
  <2>2. QED
    BY <1>8, <2>1 DEF StoreAnswer
<1>9. CASE Publish
  <2>1. told' \in [connected : BOOLEAN, params : SUBSET ({<<b>> : b \in FUNCTION_SETTABLE \cup {"none"}})]
    <3>1. CASE told' = told
      BY <3>1
    <3>2. CASE told' = [connected |-> connected, params |-> Params(currentFunctions)]
      BY <3>2, ParametersType
    <3>3. QED
      BY <1>9, <3>1, <3>2 DEF Publish
  <2>2. QED
    BY <1>9, <2>1 DEF Publish
<1>10. ASSUME NEW c \in Callers, SetCurrentFunctions(c) PROVE TypeOK'
  <2>1. PICK mask \in Masks : asked' = [asked EXCEPT ![c] = mask] /\ currentFunctions' = mask
    BY <1>10 DEF SetCurrentFunctions
  <2>2. currentFunctions' \in SUBSET Bits
    BY <2>1, MasksType
  <2>3. asked' \in [Callers -> Masks \cup {NoMask}]
    BY <2>1
  <2>4. QED
    BY <1>10, <2>2, <2>3 DEF SetCurrentFunctions
<1>11. ASSUME NEW c \in Callers, UsbdAccepts(c) PROVE TypeOK'
  BY <1>11 DEF UsbdAccepts
<1>12. ASSUME NEW c \in Callers, UsbdRefuses(c) PROVE TypeOK'
  BY <1>12 DEF UsbdRefuses
<1>13. QED
  BY <1>1, <1>2, <1>3, <1>4, <1>5, <1>6, <1>7, <1>8, <1>9, <1>10, <1>11, <1>12 DEF Next, HandlerStep

(* Every step keeps what "alone" stands for. *)
LEMMA AloneStep ==
    ASSUME TypeOK, AloneMeansAlone, [Next]_vars
    PROVE  AloneMeansAlone'
<1> USE DEF AloneMeansAlone, Setting, usbd, manager, broadcast, history
<1>1. CASE UNCHANGED vars
  BY <1>1 DEF vars
<1>2. CASE CableComes
  BY <1>2 DEF CableComes
<1>3. CASE CableGoes
  BY <1>3 DEF CableGoes
<1>4. CASE HandleUp
  BY <1>4 DEF HandleUp
<1>5. CASE HandleDown
  BY <1>5 DEF HandleDown
<1>6. CASE UsbdAnswers
  BY <1>6 DEF UsbdAnswers
<1>7. CASE UsbdFails
  BY <1>7 DEF UsbdFails
<1>8. CASE StoreAnswer
  BY <1>8 DEF StoreAnswer
<1>9. CASE Publish
  BY <1>9 DEF Publish
<1>10. ASSUME NEW c \in Callers, SetCurrentFunctions(c) PROVE AloneMeansAlone'
  <2> SUFFICES ASSUME alone' PROVE AloneMeansAlone'
    OBVIOUS
  <2>1. PICK mask \in Masks : asked' = [asked EXCEPT ![c] = mask] /\ currentFunctions' = mask
    BY <1>10 DEF SetCurrentFunctions
  <2>2. Setting = {} /\ handler \notin {"query", "store"} /\ handler' = handler
    BY <1>10 DEF SetCurrentFunctions
  <2>3. \A d \in Callers : d # c => asked'[d] = NoMask
    BY <2>1, <2>2 DEF TypeOK
  <2>4. asked'[c] = mask
    BY <2>1 DEF TypeOK
  <2>5. Setting' \in {{}, {c}}
    BY <2>3
  <2>6. QED
    BY <2>1, <2>2, <2>4, <2>5
<1>11. ASSUME NEW c \in Callers, UsbdAccepts(c) \/ UsbdRefuses(c) PROVE AloneMeansAlone'
  <2> SUFFICES ASSUME alone' PROVE AloneMeansAlone'
    OBVIOUS
  <2>1. alone /\ c \in Setting /\ handler' = handler /\ asked' = [asked EXCEPT ![c] = NoMask]
    BY <1>11 DEF UsbdAccepts, UsbdRefuses
  <2>2. Setting = {c} /\ handler' \notin {"query", "store"}
    BY <2>1
  <2>3. Setting' = {}
    BY <2>1, <2>2 DEF TypeOK
  <2>4. QED
    BY <2>2, <2>3
<1>12. QED
  BY <1>1, <1>2, <1>3, <1>4, <1>5, <1>6, <1>7, <1>8, <1>9, <1>10, <1>11 DEF Next, HandlerStep

(* Every step keeps the service and usbd in agreement. *)
LEMMA AgreeStep ==
    ASSUME TypeOK, AloneMeansAlone, AgreeUnlessRaced, [Next]_vars
    PROVE  AgreeUnlessRaced'
<1> USE DEF AgreeUnlessRaced, usbd, manager, broadcast, history
<1>1. CASE UNCHANGED vars
  BY <1>1 DEF vars
<1>2. CASE CableComes
  BY <1>2 DEF CableComes
<1>3. CASE CableGoes
  BY <1>3 DEF CableGoes
<1>4. CASE HandleUp
  BY <1>4 DEF HandleUp
<1>5. CASE HandleDown
  BY <1>5 DEF HandleDown
<1>6. CASE UsbdAnswers
  BY <1>6 DEF UsbdAnswers
<1>7. CASE UsbdFails
  BY <1>7 DEF UsbdFails
<1>8. CASE StoreAnswer
  BY <1>8 DEF StoreAnswer, AloneMeansAlone
<1>9. CASE Publish
  BY <1>9 DEF Publish
<1>10. ASSUME NEW c \in Callers, SetCurrentFunctions(c) PROVE AgreeUnlessRaced'
  BY <1>10 DEF SetCurrentFunctions
<1>11. ASSUME NEW c \in Callers, UsbdAccepts(c) PROVE AgreeUnlessRaced'
  <2>1. c \in Setting
    BY <1>11 DEF UsbdAccepts, Setting
  <2>2. alone => currentFunctions = asked[c]
    BY <2>1 DEF AloneMeansAlone
  <2>3. QED
    BY <1>11, <2>2 DEF UsbdAccepts
<1>12. ASSUME NEW c \in Callers, UsbdRefuses(c) PROVE AgreeUnlessRaced'
  BY <1>12 DEF UsbdRefuses
<1>13. QED
  BY <1>1, <1>2, <1>3, <1>4, <1>5, <1>6, <1>7, <1>8, <1>9, <1>10, <1>11, <1>12 DEF Next, HandlerStep

(* A broadcast that is published names what is stored, which is what usbd *)
(* has set.                                                               *)
LEMMA PublishStep ==
    ASSUME TypeOK, AgreeUnlessRaced, Next,
           handler = "publish", handler' = "idle", current, ~unsent'
    PROVE  told'.params = {<<f>> : f \in gadget}
<1>1. Publish
  BY DEF Next, HandlerStep, CableComes, CableGoes, HandleUp, HandleDown, UsbdAnswers, UsbdFails,
         StoreAnswer, SetCurrentFunctions, UsbdAccepts, UsbdRefuses
<1>2. told' = [connected |-> connected, params |-> Params(gadget)]
  BY <1>1 DEF Publish, AgreeUnlessRaced
<1>3. \A bit \in gadget : ConvertToString({bit}) = <<bit>>
  BY ConvertToStringOfFunction DEF TypeOK
<1>4. Params(gadget) = {<<f>> : f \in gadget}
  BY <1>3 DEF Params
<1>5. QED
  BY <1>2, <1>4

-----------------------------------------------------------------------------

(* FunctionsInv is an invariant of the device manager: every action of     *)
(* callers, usbd and HandleEvent keeps it, whatever they interleave.       *)
THEOREM FunctionsInvariance == Spec => []FunctionsInv
<1>1. Init => FunctionsInv
  <2> SUFFICES ASSUME Init PROVE FunctionsInv
    OBVIOUS
  <2>1. TypeOK
    <3>1. cable \in BOOLEAN /\ connected \in BOOLEAN /\ unsent \in BOOLEAN /\ alone \in BOOLEAN /\ current \in BOOLEAN
      BY DEF Init
    <3>2. gadget \in SUBSET FUNCTION_SETTABLE /\ answer \in SUBSET FUNCTION_SETTABLE
      BY DEF Init, FUNCTION_SETTABLE
    <3>3. currentFunctions \in SUBSET Bits /\ handler \in {"idle", "query", "store", "publish"}
      BY DEF Init
    <3>4. asked \in [Callers -> Masks \cup {NoMask}]
      BY DEF Init
    <3>5. told \in [connected : BOOLEAN, params : SUBSET ({<<b>> : b \in FUNCTION_SETTABLE \cup {"none"}})]
      BY DEF Init
    <3>6. events \in 0 .. MaxEvents
      BY FunctionsConstants DEF Init
    <3>7. queue \in Seq({"ACT_UPDEVICE", "ACT_DOWNDEVICE"})
      BY DEF Init
    <3>8. QED
      BY <3>1, <3>2, <3>3, <3>4, <3>5, <3>6, <3>7 DEF TypeOK
  <2>2. AloneMeansAlone /\ AgreeUnlessRaced
    BY DEF Init, AloneMeansAlone, AgreeUnlessRaced
  <2>3. QED
    BY <2>1, <2>2 DEF FunctionsInv
<1>2. FunctionsInv /\ [Next]_vars => FunctionsInv'
  BY TypeStep, AloneStep, AgreeStep DEF FunctionsInv
<1>3. QED
  BY <1>1, <1>2, PTL DEF Spec

(* The variables of the device manager have their types; in particular     *)
(* usbd only ever has settable functions and every parameter of a          *)
(* broadcast is one name.                                                  *)
THEOREM FunctionsTypes == Spec => []TypeOK
<1>1. FunctionsInv => TypeOK
  BY DEF FunctionsInv
<1>2. QED
  BY <1>1, FunctionsInvariance, PTL

(* Strings of any length are read as the lists of names they are, all      *)
(* others are refused, and what is written for usbd's functions reads back.*)
THEOREM StringsAlwaysLists == Spec => []StringsAreLists
<1>1. FunctionsInv => StringsAreLists
  BY StringsStep DEF FunctionsInv, TypeOK
<1>2. QED
  BY <1>1, FunctionsInvariance, PTL

(* After a SetCurrentFunctions that usbd accepted, or a query of usbd,     *)
(* that met no other, currentFunctions_ is what usbd has set.              *)
THEOREM ServiceAndUsbdAgree == Spec => []AgreeUnlessRaced
<1>1. FunctionsInv => AgreeUnlessRaced
  BY DEF FunctionsInv
<1>2. QED
  BY <1>1, FunctionsInvariance, PTL

(* Then a USB_STATE that is published has one parameter for each function  *)
(* usbd has set.                                                           *)
THEOREM BroadcastsNameFunctions == Spec => BroadcastNamesFunctions
<1>1. FunctionsInv /\ [Next]_vars =>
          [handler = "publish" /\ handler' = "idle" /\ current /\ ~unsent'
              => told'.params = {<<f>> : f \in gadget}]_vars
  BY PublishStep DEF FunctionsInv
<1>2. QED
  BY <1>1, FunctionsInvariance, PTL DEF Spec, BroadcastNamesFunctions
=============================================================================
