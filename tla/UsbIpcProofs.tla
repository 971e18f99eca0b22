---------------------------- MODULE UsbIpcProofs ----------------------------
(***************************************************************************)
(* Theorems about UsbIpc for lists of any length.  Proxy and stub agree on *)
(* the layout of every call; that what is read is what was written then    *)
(* follows from a relation between fields and the cells that hold them.    *)
(***************************************************************************)
EXTENDS UsbIpc, SequenceTheorems, TLAPS

-----------------------------------------------------------------------------
(* Fields and cells *)

(* The cells begin with the value of the field, and rest is behind it. *)
Holds(cells, f, rest) ==
    /\ cells # <<>>
    /\ Head(cells).name = f.name
    /\ \/ /\ f.kind # "buffer"
          /\ Head(cells).kind = f.kind
          /\ rest = Tail(cells)
       \/ /\ f.kind = "buffer"
          /\ Head(cells).kind = "length"
          /\ \/ Head(cells).n = 0 /\ rest = Tail(cells)
             \/ Head(cells).n # 0 /\ Tail(cells) # <<>> /\ rest = Tail(Tail(cells))

(* Places of a parcel on its way through a list of fields: each is at the  *)
(* end of the cells, with the fields of end still to come, or holds its    *)
(* first field and leads to a further place.                               *)
LeadsTo(T, end) ==
    \A p \in T :
        \/ p.fields = end /\ p.cells = <<>>
        \/ /\ p.fields # <<>>
           /\ \E rest :
                /\ Holds(p.cells, Head(p.fields), rest)
                /\ [fields |-> After(Head(p.fields), Head(p.cells).n, ProxyBody, Tail(p.fields)),
                    cells |-> rest] \in T

(* The cells hold the values of fields, up to those of end. *)
Fits(fields, cells, end) ==
    \E S, T :
        /\ \A p \in T : p.cells \in Seq(S)
        /\ LeadsTo(T, end)
        /\ [fields |-> fields, cells |-> cells] \in T

(* Head and Tail of a concatenation. *)
LEMMA HeadTailConcat ==
    ASSUME NEW S, NEW s \in Seq(S), NEW t \in Seq(S), s # <<>>
    PROVE  /\ s \o t # <<>>
           /\ Head(s \o t) = Head(s)
           /\ Tail(s \o t) = Tail(s) \o t
<1>1. Len(s) \in Nat /\ Len(t) \in Nat /\ Len(s) # 0
  BY EmptySeq
<1>2. /\ s \o t \in Seq(S) /\ Len(s \o t) = Len(s) + Len(t)
  BY ConcatProperties
<1>3. \A i \in 1 .. Len(s) + Len(t) : (s \o t)[i] = IF i <= Len(s) THEN s[i] ELSE t[i - Len(s)]
  BY ConcatProperties, Zenon
<1>4. s \o t # <<>>
  BY <1>1, <1>2, EmptySeq
<1>5. Head(s \o t) = Head(s)
  <2>1. 1 \in 1 .. Len(s) + Len(t) /\ 1 <= Len(s)
    BY <1>1
  <2>2. (s \o t)[1] = s[1]
    BY <1>3, <2>1
  <2>3. QED
    BY <1>2, <1>4, <2>2
<1>6. /\ Tail(s) \in Seq(S) /\ Len(Tail(s)) = Len(s) - 1
      /\ \A i \in 1 .. Len(Tail(s)) : Tail(s)[i] = s[i + 1]
  BY HeadTailProperties
<1>7. /\ Tail(s \o t) \in Seq(S) /\ Len(Tail(s \o t)) = Len(s) + Len(t) - 1
      /\ \A i \in 1 .. Len(Tail(s \o t)) : Tail(s \o t)[i] = (s \o t)[i + 1]
  BY <1>2, <1>4, HeadTailProperties
<1>8. /\ Tail(s) \o t \in Seq(S) /\ Len(Tail(s) \o t) = Len(Tail(s)) + Len(t)
  BY <1>6, ConcatProperties
<1>9. \A i \in 1 .. Len(Tail(s)) + Len(t) :
        (Tail(s) \o t)[i] = IF i <= Len(Tail(s)) THEN Tail(s)[i] ELSE t[i - Len(Tail(s))]
  BY <1>6, ConcatProperties, Zenon
<1> DEFINE u == Tail(s) \o t
           v == Tail(s \o t)
<1>10. Len(v) = Len(u) /\ Len(v) = Len(s) - 1 + Len(t)
  BY <1>1, <1>6, <1>7, <1>8
<1>11. \A i \in 1 .. Len(v) : v[i] = u[i]
  <2> SUFFICES ASSUME NEW i \in 1 .. Len(v) PROVE v[i] = u[i]
    OBVIOUS
  <2>1. i + 1 \in 1 .. Len(s) + Len(t) /\ i \in Nat
    BY <1>1, <1>10
  <2>2. v[i] = IF i + 1 <= Len(s) THEN s[i + 1] ELSE t[i + 1 - Len(s)]
    BY <1>3, <1>7, <2>1
  <2>3. u[i] = IF i <= Len(Tail(s)) THEN Tail(s)[i] ELSE t[i - Len(Tail(s))]
    BY <1>8, <1>9, <1>10
  <2>4. CASE i + 1 <= Len(s)
    <3>1. i <= Len(Tail(s)) /\ i \in 1 .. Len(Tail(s))
      BY <1>1, <1>6, <2>1, <2>4
    <3>2. QED
      BY <1>6, <2>2, <2>3, <2>4, <3>1
  <2>5. CASE ~(i + 1 <= Len(s))
    <3>1. ~(i <= Len(Tail(s))) /\ i - Len(Tail(s)) = i + 1 - Len(s)
      BY <1>1, <1>6, <2>1, <2>5
    <3>2. QED
      BY <2>2, <2>3, <2>5, <3>1
  <2>6. QED
    BY <2>4, <2>5
<1> HIDE DEF u, v
<1>12. v = u
  BY <1>7, <1>8, <1>10, <1>11, SeqEqual DEF u, v
<1>13. QED
  BY <1>4, <1>5, <1>12 DEF u, v

(* More cells behind do not change what the first ones hold. *)
LEMMA HoldsMore ==
    ASSUME NEW S, NEW s \in Seq(S), NEW t \in Seq(S), NEW f, NEW rest, Holds(s, f, rest)
    PROVE  Holds(s \o t, f, rest \o t)
<1>1. s # <<>>
  BY DEF Holds
<1>2. s \o t # <<>> /\ Head(s \o t) = Head(s) /\ Tail(s \o t) = Tail(s) \o t
  BY <1>1, HeadTailConcat
<1>3. Tail(s) \in Seq(S)
  BY <1>1, HeadTailProperties
<1>4. CASE rest = Tail(s) /\ (f.kind = "buffer" => Head(s).n = 0)
  BY <1>2, <1>4 DEF Holds
<1>5. CASE f.kind = "buffer" /\ Tail(s) # <<>> /\ Head(s).n # 0 /\ rest = Tail(Tail(s))
  <2>1. /\ Tail(s) \o t # <<>> /\ Tail(Tail(s) \o t) = Tail(Tail(s)) \o t
    BY <1>3, <1>5, HeadTailConcat
  <2>2. QED
    BY <1>2, <1>5, <2>1 DEF Holds
<1>6. QED
  BY <1>4, <1>5 DEF Holds

(* What is held is what a read gives. *)
LEMMA HoldsRead ==
    ASSUME NEW s, NEW f, NEW rest, Holds(s, f, rest), NEW got \in Read(s, f)
    PROVE  got.ok = TRUE /\ got.right = TRUE /\ got.rest = rest
<1>1. s # <<>> /\ Head(s).name = f.name
  BY DEF Holds
<1>2. CASE f.kind = "object"
  <2>1. Head(s).kind = "object" /\ rest = Tail(s)
    BY <1>2 DEF Holds
  <2>2. got = Got(Head(s).name = f.name, Tail(s))
    BY <1>1, <1>2, <2>1 DEF Read, ReadObject
  <2>3. QED
    BY <1>1, <2>1, <2>2, Zenon DEF Got
<1>3. CASE f.kind = "buffer"
  <2>1. got \in ReadBuffer(s, f)
    BY <1>1, <1>3 DEF Read
  <2>2. Head(s).kind = "length"
    BY <1>3 DEF Holds
  <2>3. CASE Head(s).n = 0
    <3>1. rest = Tail(s)
      BY <1>3, <2>3 DEF Holds
    <3>2. got = Got(Head(s).name = f.name, Tail(s))
      BY <2>1, <2>2, <2>3 DEF ReadBuffer
    <3>3. QED
      BY <1>1, <3>1, <3>2 DEF Got
  <2>4. CASE Head(s).n # 0
    <3>1. Tail(s) # <<>> /\ rest = Tail(Tail(s))
      BY <1>3, <2>4 DEF Holds
    <3>2. got = Got(Head(s).name = f.name, Tail(Tail(s)))
      BY <2>1, <2>2, <2>4, <3>1 DEF ReadBuffer
    <3>3. QED
      BY <1>1, <3>1, <3>2 DEF Got
  <2>5. QED
    BY <2>3, <2>4
<1>4. CASE f.kind \notin {"object", "buffer"}
  <2>1. Head(s).kind = f.kind /\ rest = Tail(s)
    BY <1>4 DEF Holds
  <2>2. got = Got(Head(s).kind = f.kind /\ Head(s).name = f.name, Tail(s))
    BY <1>1, <1>4, <2>1 DEF Read, ReadWord
  <2>3. QED
    BY <1>1, <2>1, <2>2 DEF Got
<1>5. QED
  BY <1>2, <1>3, <1>4

(* Nothing holds nothing. *)
LEMMA FitsNothing ==
    ASSUME NEW end
    PROVE  Fits(end, <<>>, end)
<1> DEFINE e == [fields |-> end, cells |-> <<>>]
           T == {e}
<1>1. \A p \in T : p.cells \in Seq({0})
  <2>1. <<>> \in Seq({0})
    BY EmptySeq
  <2>2. e.cells = <<>>
    OBVIOUS
  <2> HIDE DEF e
  <2>3. e.cells \in Seq({0})
    BY <2>1, <2>2
  <2>4. QED
    BY <2>3
<1>2. LeadsTo(T, end)
  BY DEF LeadsTo
<1>3. [fields |-> end, cells |-> <<>>] \in T
  OBVIOUS
<1>4. QED
  BY <1>1, <1>2, <1>3 DEF Fits

(* Cells that fit are at their end or hold the first field, and after it   *)
(* they fit what is to come.                                               *)
LEMMA FitsHead ==
    ASSUME NEW fields, NEW cells, NEW end, Fits(fields, cells, end)
    PROVE  \/ fields = end /\ cells = <<>>
           \/ /\ fields # <<>>
              /\ \E rest :
                   /\ Holds(cells, Head(fields), rest)
                   /\ Fits(After(Head(fields), Head(cells).n, ProxyBody, Tail(fields)), rest, end)
<1>1. PICK S, T :
        /\ \A p \in T : p.cells \in Seq(S)
        /\ LeadsTo(T, end)
        /\ [fields |-> fields, cells |-> cells] \in T
  BY DEF Fits
<1> DEFINE p == [fields |-> fields, cells |-> cells]
<1>2. p \in T /\ p.fields = fields /\ p.cells = cells
  BY <1>1
<1> HIDE DEF p
<1>3. \/ p.fields = end /\ p.cells = <<>>
      \/ /\ p.fields # <<>>
         /\ \E rest :
              /\ Holds(p.cells, Head(p.fields), rest)
              /\ [fields |-> After(Head(p.fields), Head(p.cells).n, ProxyBody, Tail(p.fields)),
                  cells |-> rest] \in T
  BY <1>1, <1>2 DEF LeadsTo
<1>4. ASSUME NEW a, NEW b, [fields |-> a, cells |-> b] \in T
      PROVE  Fits(a, b, end)
  BY <1>1, <1>4 DEF Fits
<1>5. QED
  BY <1>2, <1>3, <1>4

(* Cells that are written behind lead on to the field after the next. *)
LEMMA FitsWrite ==
    ASSUME NEW fields, NEW cells, NEW end, Fits(fields, cells, end), end # <<>>,
           NEW R, NEW more \in Seq(R), Holds(more, Head(end), <<>>)
    PROVE  Fits(fields, cells \o more, After(Head(end), Head(more).n, ProxyBody, Tail(end)))
<1> DEFINE last == After(Head(end), Head(more).n, ProxyBody, Tail(end))
<1>1. PICK S, T :
        /\ \A p \in T : p.cells \in Seq(S)
        /\ LeadsTo(T, end)
        /\ [fields |-> fields, cells |-> cells] \in T
  BY DEF Fits
<1> DEFINE U == S \cup R
           Longer(p) == [fields |-> p.fields, cells |-> p.cells \o more]
           E == [fields |-> last, cells |-> <<>>]
           V == {Longer(p) : p \in T} \cup {E}
<1>2. more \in Seq(U)
  BY SeqMonotonic
<1>3. \A p \in T : p.cells \in Seq(U)
  BY <1>1, SeqMonotonic
<1>4. \A q \in V : q.cells \in Seq(U)
  <2>1. \A p \in T : Longer(p).cells \in Seq(U)
    BY <1>2, <1>3, ConcatProperties
  <2>2. E.cells \in Seq(U)
    BY EmptySeq
  <2> HIDE DEF E, Longer
  <2>3. QED
    BY <2>1, <2>2
<1>5. ASSUME NEW p \in T
      PROVE  LET q == Longer(p) IN
             /\ q.fields # <<>>
             /\ \E rest :
                  /\ Holds(q.cells, Head(q.fields), rest)
                  /\ [fields |-> After(Head(q.fields), Head(q.cells).n, ProxyBody, Tail(q.fields)),
                      cells |-> rest] \in V
  <2>1. CASE p.fields = end /\ p.cells = <<>>
    <3>1. <<>> \o more = more
      BY ConcatEmptySeq
    <3>2. Longer(p).fields = end /\ Longer(p).cells = more
      BY <2>1, <3>1
    <3>3. E \in V
      OBVIOUS
    <3> HIDE DEF Longer, V
    <3>4. Holds(Longer(p).cells, Head(Longer(p).fields), <<>>)
      BY <3>2
    <3>5. [fields |-> After(Head(Longer(p).fields), Head(Longer(p).cells).n, ProxyBody, Tail(Longer(p).fields)),
           cells |-> <<>>] = E
      BY <3>2
    <3>6. QED
      BY <3>2, <3>3, <3>4, <3>5
  <2>2. CASE p.fields # <<>>
             /\ \E rest :
                  /\ Holds(p.cells, Head(p.fields), rest)
                  /\ [fields |-> After(Head(p.fields), Head(p.cells).n, ProxyBody, Tail(p.fields)),
                      cells |-> rest] \in T
    <3>1. PICK rest :
            /\ Holds(p.cells, Head(p.fields), rest)
            /\ [fields |-> After(Head(p.fields), Head(p.cells).n, ProxyBody, Tail(p.fields)), cells |-> rest] \in T
      BY <2>2
    <3>2. p.cells \in Seq(U) /\ p.cells # <<>>
      BY <1>3, <3>1 DEF Holds
    <3>3. Holds(p.cells \o more, Head(p.fields), rest \o more)
      BY <1>2, <3>1, <3>2, HoldsMore
    <3>4. Head(p.cells \o more) = Head(p.cells)
      BY <1>2, <3>2, HeadTailConcat
    <3>5. Longer(p).fields = p.fields /\ Longer(p).cells = p.cells \o more
      OBVIOUS
    <3> DEFINE a == After(Head(p.fields), Head(p.cells).n, ProxyBody, Tail(p.fields))
               r == [fields |-> a, cells |-> rest]
    <3>6. r \in T /\ Longer(r) = [fields |-> a, cells |-> rest \o more]
      BY <3>1
    <3> HIDE DEF a
    <3>7. [fields |-> a, cells |-> rest \o more] \in V
      BY <3>6
    <3> HIDE DEF Longer, V, r
    <3>8. [fields |-> After(Head(Longer(p).fields), Head(Longer(p).cells).n, ProxyBody, Tail(Longer(p).fields)),
           cells |-> rest \o more] \in V
      BY <3>4, <3>5, <3>7 DEF a
    <3>9. QED
      BY <2>2, <3>3, <3>5, <3>8
  <2>3. QED
    BY <1>1, <2>1, <2>2 DEF LeadsTo
<1>6. LeadsTo(V, last)
  <2>1. E.fields = last /\ E.cells = <<>>
    OBVIOUS
  <2> HIDE DEF Longer, E, last
  <2> SUFFICES ASSUME NEW q \in V
               PROVE  \/ q.fields = last /\ q.cells = <<>>
                      \/ /\ q.fields # <<>>
                         /\ \E rest :
                              /\ Holds(q.cells, Head(q.fields), rest)
                              /\ [fields |-> After(Head(q.fields), Head(q.cells).n, ProxyBody, Tail(q.fields)),
                                  cells |-> rest] \in V
    BY DEF LeadsTo
  <2>2. CASE q = E
    BY <2>1, <2>2
  <2>3. CASE \E p \in T : q = Longer(p)
    BY <1>5, <2>3
  <2>4. QED
    BY <2>2, <2>3
<1>7. [fields |-> fields, cells |-> cells \o more] \in V
  <2>1. Longer([fields |-> fields, cells |-> cells]) = [fields |-> fields, cells |-> cells \o more]
    OBVIOUS
  <2> HIDE DEF Longer
  <2>2. QED
    BY <1>1, <2>1
<1> HIDE DEF V, last
<1>8. QED
  BY <1>4, <1>6, <1>7 DEF Fits, last

-----------------------------------------------------------------------------
(* Layouts *)

(* Proxy and stub lay out all calls alike, and all that is in a list. *)
LEMMA SameLayouts ==
    Proxy = Stub /\ ProxyBody = StubBody
<1>1. ProxyDevices = StubDevices
  BY DEF ProxyDevices, StubDevices
<1>2. ProxyOpen = StubOpen
  BY DEF ProxyOpen, StubOpen
<1>3. ProxyRights = StubRights
  BY DEF ProxyRights, StubRights
<1>4. ProxyFunctions = StubFunctions
  BY DEF ProxyFunctions, StubFunctions
<1>5. ProxyPorts = StubPorts
  BY DEF ProxyPorts, StubPorts
<1>6. ProxyInterfaces = StubInterfaces
  BY DEF ProxyInterfaces, StubInterfaces
<1>7. ProxyTransfers = StubTransfers
  BY DEF ProxyTransfers, StubTransfers
<1>8. ProxyConfigs = StubConfigs
  BY DEF ProxyConfigs, StubConfigs
<1>9. ProxyDescriptors = StubDescriptors
  BY DEF ProxyDescriptors, StubDescriptors
<1>10. ProxyRequests = StubRequests
  BY DEF ProxyRequests, StubRequests
<1>11. ProxyBulk = StubBulk
  BY DEF ProxyBulk, StubBulk
<1>12. UsbdCallback = UsbdBulkCallBack
  BY DEF UsbdCallback, UsbdBulkCallBack
<1>13. ParsePort = WritePort
  BY DEF ParsePort, WritePort
<1>14. ParseDevice = WriteDevice
  BY DEF ParseDevice, WriteDevice
<1>15. ParseConfig = WriteConfig
  BY DEF ParseConfig, WriteConfig
<1>16. ParseInterface = WriteInterface
  BY DEF ParseInterface, WriteInterface
<1>17. ParseEndpoint = WriteEndpoint
  BY DEF ParseEndpoint, WriteEndpoint
<1>18. Proxy = Stub
  BY <1>1, <1>2, <1>3, <1>4, <1>5, <1>6, <1>7, <1>8, <1>9, <1>10, <1>11, <1>12 DEF Proxy, Stub
<1>19. ProxyBody = StubBody
  BY <1>13, <1>14, <1>15, <1>16, <1>17 DEF ProxyBody, StubBody
<1>20. QED
  BY <1>18, <1>19

(* The names of arguments. *)
RequestName ==
    {"busNum", "devAddr", "interface", "endpoint", "deviceName", "functions", "funcs", "portId",
     "powerRole", "dataRole", "force", "timeOut", "requestType", "requestCmd", "value", "index",
     "timeout", "bufferData", "configIndex", "altIndex", "clientData", "cb", "ashmem", "status",
     "actLength"}

(* The fields of requests, and those that are one cell of which no other   *)
(* value can take the place unseen.                                        *)
RequestField == [kind : {"word", "text", "buffer", "object"}, name : RequestName]

PlainField ==
    {f \in RequestField : f.kind \in {"word", "text"} \/ (f.kind = "object" /\ f.name = "ashmem")}

HasBuffer(fields) == \E i \in DOMAIN fields : fields[i].kind = "buffer"

(* What the proofs need to know of the layout of a call. *)
LayoutIsKnown(c, layout) ==
    /\ c \in Handled \/ c = "GetActiveConfig"
    /\ layout.request \in Seq(RequestField)
    /\ layout.request \in Seq(PlainField) \/ c = "RegBulkCallback" \/ HasBuffer(layout.request)
    /\ c = "ControlTransfer" => layout.reply = Buffer("bufferData")

TableIsKnown(f) == \A c \in DOMAIN f : LayoutIsKnown(c, f[c])

(* What is known of tables is known of all their calls. *)
LEMMA MergeIsKnown ==
    ASSUME NEW tables, \A t \in tables : TableIsKnown(t)
    PROVE  TableIsKnown(Merge(tables))
<1>1. DOMAIN Merge(tables) = UNION {DOMAIN t : t \in tables}
  BY DEF Merge
<1>2. ASSUME NEW c \in DOMAIN Merge(tables)
      PROVE  LayoutIsKnown(c, Merge(tables)[c])
  <2> DEFINE t == CHOOSE t \in tables : c \in DOMAIN t
  <2>1. t \in tables /\ c \in DOMAIN t
    BY <1>1, <1>2
  <2>2. Merge(tables)[c] = t[c]
    BY <1>1, <1>2 DEF Merge
  <2> HIDE DEF t
  <2>3. QED
    BY <2>1, <2>2 DEF TableIsKnown
<1>3. QED
  BY <1>2 DEF TableIsKnown

(* Lists of words, texts and buffers. *)
LEMMA FieldLists ==
    /\ \A names \in Seq(RequestName) : Words(names) \in Seq(PlainField)
    /\ \A name \in RequestName : Text(name) \in Seq(PlainField)
    /\ Object("ashmem") \in Seq(PlainField)
    /\ \A name \in RequestName : Object(name) \in Seq(RequestField)
    /\ \A s, t \in Seq(PlainField) : s \o t \in Seq(PlainField)
    /\ \A s, t \in Seq(RequestField) : s \o t \in Seq(RequestField)
    /\ \A s \in Seq(PlainField) : s \in Seq(RequestField)
<1>1. ASSUME NEW names \in Seq(RequestName)
      PROVE  Words(names) \in Seq(PlainField)
  <2>1. DOMAIN names = 1 .. Len(names) /\ Len(names) \in Nat
    OBVIOUS
  <2>2. \A i \in 1 .. Len(names) : [kind |-> "word", name |-> names[i]] \in PlainField
    BY DEF PlainField, RequestField
  <2>3. [i \in 1 .. Len(names) |-> [kind |-> "word", name |-> names[i]]] \in Seq(PlainField)
    BY <2>1, <2>2, IsASeq
  <2>4. QED
    BY <2>1, <2>3 DEF Words
<1>2. ASSUME NEW name \in RequestName
      PROVE  Text(name) \in Seq(PlainField)
  <2>1. [kind |-> "text", name |-> name] \in PlainField
    BY DEF PlainField, RequestField
  <2>2. QED
    BY <2>1 DEF Text, Field
<1>3. Object("ashmem") \in Seq(PlainField)
  <2> DEFINE a == [kind |-> "object", name |-> "ashmem"]
  <2>1. a \in RequestField
    BY DEF RequestField, RequestName
  <2>2. a.kind = "object" /\ a.name = "ashmem"
    OBVIOUS
  <2> HIDE DEF a
  <2>3. a \in PlainField
    BY <2>1, <2>2 DEF PlainField
  <2>4. QED
    BY <2>3 DEF Object, Field, a
<1>4. ASSUME NEW name \in RequestName
      PROVE  Object(name) \in Seq(RequestField)
  <2>1. [kind |-> "object", name |-> name] \in RequestField
    BY DEF RequestField
  <2>2. QED
    BY <2>1 DEF Object, Field
<1>5. \A s, t \in Seq(PlainField) : s \o t \in Seq(PlainField)
  BY ConcatProperties
<1>6. \A s, t \in Seq(RequestField) : s \o t \in Seq(RequestField)
  BY ConcatProperties
<1>7. PlainField \subseteq RequestField
  BY DEF PlainField
<1>8. \A s \in Seq(PlainField) : s \in Seq(RequestField)
  BY <1>7, SeqMonotonic
<1>9. QED
  BY <1>1, <1>2, <1>3, <1>4, <1>5, <1>6, <1>8

(* A list that ends in a buffer has one. *)
LEMMA EndsInBuffer ==
    ASSUME NEW s \in Seq(RequestField), NEW name \in RequestName
    PROVE  s \o Buffer(name) \in Seq(RequestField) /\ HasBuffer(s \o Buffer(name))
<1> DEFINE b == [kind |-> "buffer", name |-> name]
<1>1. b \in RequestField /\ b.kind = "buffer"
  BY DEF RequestField
<1>2. Buffer(name) = <<b>>
  BY DEF Buffer, Field
<1> HIDE DEF b
<1>3. <<b>> \in Seq(RequestField) /\ Len(<<b>>) = 1 /\ <<b>>[1] = b
  BY <1>1
<1>4. /\ s \o <<b>> \in Seq(RequestField)
      /\ Len(s \o <<b>>) = Len(s) + 1
  BY <1>3, ConcatProperties
<1>5. \A i \in 1 .. Len(s) + Len(<<b>>) : (s \o <<b>>)[i] = IF i <= Len(s) THEN s[i] ELSE <<b>>[i - Len(s)]
  BY <1>3, ConcatProperties, Zenon
<1>6. Len(s) \in Nat
  OBVIOUS
<1>7. /\ Len(s) + 1 \in 1 .. Len(s) + Len(<<b>>)
      /\ ~(Len(s) + 1 <= Len(s))
      /\ Len(s) + 1 - Len(s) = 1
  BY <1>3, <1>6
<1>8. (s \o <<b>>)[Len(s) + 1] = b
  BY <1>3, <1>5, <1>7
<1>9. DOMAIN (s \o <<b>>) = 1 .. Len(s) + 1
  BY <1>4
<1>10. Len(s) + 1 \in DOMAIN (s \o <<b>>)
  BY <1>6, <1>9
<1>11. HasBuffer(s \o <<b>>)
  BY <1>1, <1>8, <1>10 DEF HasBuffer
<1>12. QED
  BY <1>2, <1>4, <1>11

(* A layout whose request is plain, has a buffer, or is RegBulkCallback's. *)
LEMMA KnownCall ==
    ASSUME NEW c, NEW q, NEW r,
           c \in Handled \/ c = "GetActiveConfig",
           \/ q \in Seq(PlainField)
           \/ q \in Seq(RequestField) /\ (c = "RegBulkCallback" \/ HasBuffer(q)),
           c = "ControlTransfer" => r = Buffer("bufferData")
    PROVE  LayoutIsKnown(c, Call(q, r))
<1>1. q \in Seq(RequestField)
  BY FieldLists
<1>2. Call(q, r).request = q /\ Call(q, r).reply = r
  BY DEF Call
<1>3. QED
  BY <1>1, <1>2 DEF LayoutIsKnown

(* The layouts of all calls are known. *)
LEMMA StubIsKnown ==
    \A t \in {StubDevices, StubOpen, StubRights, StubFunctions, StubPorts, StubInterfaces,
            StubTransfers, StubConfigs, StubDescriptors, StubRequests, StubBulk, UsbdBulkCallBack} : TableIsKnown(t)
<1>1. Device \in Seq(PlainField) /\ Pipe \in Seq(PlainField)
  <2>1. <<"busNum", "devAddr">> \in Seq(RequestName)
    BY DEF RequestName
  <2>2. <<"busNum", "devAddr", "interface", "endpoint">> \in Seq(RequestName)
    BY DEF RequestName
  <2>3. QED
    BY <2>1, <2>2, FieldLists DEF Device, Pipe
<1>2. TableIsKnown(StubDevices)
  <2>1. DOMAIN StubDevices = {"GetDevices"}
    BY DEF StubDevices
  <2>2. DOMAIN StubDevices \subseteq Handled \cup {"GetActiveConfig"}
    BY <2>1 DEF Handled, StubHost, StubDevice
  <2>3. LayoutIsKnown("GetDevices", StubDevices["GetDevices"])
    <3>1. StubDevices["GetDevices"] = Call(<<>>, Count("device"))
      BY DEF StubDevices
    <3>2. <<>> \in Seq(PlainField)
      BY EmptySeq
    <3>3. QED
      BY <2>1, <2>2, <3>1, <3>2, KnownCall
  <2>4. QED
    BY <2>1, <2>3 DEF TableIsKnown
<1>3. TableIsKnown(StubOpen)
  <2>1. DOMAIN StubOpen = {"OpenDevice"}
    BY DEF StubOpen
  <2>2. DOMAIN StubOpen \subseteq Handled \cup {"GetActiveConfig"}
    BY <2>1 DEF Handled, StubHost, StubDevice
  <2>3. LayoutIsKnown("OpenDevice", StubOpen["OpenDevice"])
    <3>1. StubOpen["OpenDevice"] = Call(Device, <<>>)
      BY DEF StubOpen
    <3>2. QED
      BY <2>1, <2>2, <3>1, <1>1, KnownCall
  <2>4. QED
    BY <2>1, <2>3 DEF TableIsKnown
<1>4. TableIsKnown(StubRights)
  <2>1. DOMAIN StubRights = {"HasRight", "RequestRight", "RemoveRight"}
    BY DEF StubRights
  <2>2. DOMAIN StubRights \subseteq Handled \cup {"GetActiveConfig"}
    BY <2>1 DEF Handled, StubHost, StubDevice
  <2>3. LayoutIsKnown("HasRight", StubRights["HasRight"])
    <3>1. StubRights["HasRight"] = Call(Text("deviceName"), Words(<<"result">>))
      BY DEF StubRights
    <3>2. "deviceName" \in RequestName
      BY DEF RequestName
    <3>3. Text("deviceName") \in Seq(PlainField)
      BY <3>2, FieldLists
    <3>4. QED
      BY <2>1, <2>2, <3>1, <3>3, KnownCall
  <2>4. LayoutIsKnown("RequestRight", StubRights["RequestRight"])
    <3>1. StubRights["RequestRight"] = Call(Text("deviceName"), <<>>)
      BY DEF StubRights
    <3>2. "deviceName" \in RequestName
      BY DEF RequestName
    <3>3. Text("deviceName") \in Seq(PlainField)
      BY <3>2, FieldLists
    <3>4. QED
      BY <2>1, <2>2, <3>1, <3>3, KnownCall
  <2>5. LayoutIsKnown("RemoveRight", StubRights["RemoveRight"])
    <3>1. StubRights["RemoveRight"] = Call(Text("deviceName"), <<>>)
      BY DEF StubRights
    <3>2. "deviceName" \in RequestName
      BY DEF RequestName
    <3>3. Text("deviceName") \in Seq(PlainField)
      BY <3>2, FieldLists
    <3>4. QED
      BY <2>1, <2>2, <3>1, <3>3, KnownCall
  <2>6. QED
    BY <2>1, <2>3, <2>4, <2>5 DEF TableIsKnown
<1>5. TableIsKnown(StubFunctions)
  <2>1. DOMAIN StubFunctions = {"GetCurrentFunctions", "SetCurrentFunctions", "UsbFunctionsFromString", "UsbFunctionsToString"}
    BY DEF StubFunctions
  <2>2. DOMAIN StubFunctions \subseteq Handled \cup {"GetActiveConfig"}
    BY <2>1 DEF Handled, StubHost, StubDevice
  <2>3. LayoutIsKnown("GetCurrentFunctions", StubFunctions["GetCurrentFunctions"])
    <3>1. StubFunctions["GetCurrentFunctions"] = Call(<<>>, Words(<<"functions">>))
      BY DEF StubFunctions
    <3>2. <<>> \in Seq(PlainField)
      BY EmptySeq
    <3>3. QED
      BY <2>1, <2>2, <3>1, <3>2, KnownCall
  <2>4. LayoutIsKnown("SetCurrentFunctions", StubFunctions["SetCurrentFunctions"])
    <3>1. StubFunctions["SetCurrentFunctions"] = Call(Words(<<"functions">>), <<>>)
      BY DEF StubFunctions
    <3>2. <<"functions">> \in Seq(RequestName)
      BY DEF RequestName
    <3>3. Words(<<"functions">>) \in Seq(PlainField)
      BY <1>1, <3>2, FieldLists
    <3>4. QED
      BY <2>1, <2>2, <3>1, <3>3, KnownCall
  <2>5. LayoutIsKnown("UsbFunctionsFromString", StubFunctions["UsbFunctionsFromString"])
    <3>1. StubFunctions["UsbFunctionsFromString"] = Call(Text("funcs"), Words(<<"functions">>))
      BY DEF StubFunctions
    <3>2. "funcs" \in RequestName
      BY DEF RequestName
    <3>3. Text("funcs") \in Seq(PlainField)
      BY <3>2, FieldLists
    <3>4. QED
      BY <2>1, <2>2, <3>1, <3>3, KnownCall
  <2>6. LayoutIsKnown("UsbFunctionsToString", StubFunctions["UsbFunctionsToString"])
    <3>1. StubFunctions["UsbFunctionsToString"] = Call(Words(<<"functions">>), Text("funcs"))
      BY DEF StubFunctions
    <3>2. <<"functions">> \in Seq(RequestName)
      BY DEF RequestName
    <3>3. Words(<<"functions">>) \in Seq(PlainField)
      BY <1>1, <3>2, FieldLists
    <3>4. QED
      BY <2>1, <2>2, <3>1, <3>3, KnownCall
  <2>7. QED
    BY <2>1, <2>3, <2>4, <2>5, <2>6 DEF TableIsKnown
<1>6. TableIsKnown(StubPorts)
  <2>1. DOMAIN StubPorts = {"GetPorts", "GetSupportedModes", "SetPortRole"}
    BY DEF StubPorts
  <2>2. DOMAIN StubPorts \subseteq Handled \cup {"GetActiveConfig"}
    BY <2>1 DEF Handled, StubHost, StubDevice
  <2>3. LayoutIsKnown("GetPorts", StubPorts["GetPorts"])
    <3>1. StubPorts["GetPorts"] = Call(<<>>, Count("port"))
      BY DEF StubPorts
    <3>2. <<>> \in Seq(PlainField)
      BY EmptySeq
    <3>3. QED
      BY <2>1, <2>2, <3>1, <3>2, KnownCall
  <2>4. LayoutIsKnown("GetSupportedModes", StubPorts["GetSupportedModes"])
    <3>1. StubPorts["GetSupportedModes"] = Call(Words(<<"portId">>), Words(<<"supportedModes">>))
      BY DEF StubPorts
    <3>2. <<"portId">> \in Seq(RequestName)
      BY DEF RequestName
    <3>3. Words(<<"portId">>) \in Seq(PlainField)
      BY <1>1, <3>2, FieldLists
    <3>4. QED
      BY <2>1, <2>2, <3>1, <3>3, KnownCall
  <2>5. LayoutIsKnown("SetPortRole", StubPorts["SetPortRole"])
    <3>1. StubPorts["SetPortRole"] = Call(Words(<<"portId", "powerRole", "dataRole">>), <<>>)
      BY DEF StubPorts
    <3>2. <<"portId", "powerRole", "dataRole">> \in Seq(RequestName)
      BY DEF RequestName
    <3>3. Words(<<"portId", "powerRole", "dataRole">>) \in Seq(PlainField)
      BY <1>1, <3>2, FieldLists
    <3>4. QED
      BY <2>1, <2>2, <3>1, <3>3, KnownCall
  <2>6. QED
    BY <2>1, <2>3, <2>4, <2>5 DEF TableIsKnown
<1>7. TableIsKnown(StubInterfaces)
  <2>1. DOMAIN StubInterfaces = {"ClaimInterface", "ReleaseInterface"}
    BY DEF StubInterfaces
  <2>2. DOMAIN StubInterfaces \subseteq Handled \cup {"GetActiveConfig"}
    BY <2>1 DEF Handled, StubHost, StubDevice
  <2>3. LayoutIsKnown("ClaimInterface", StubInterfaces["ClaimInterface"])
    <3>1. StubInterfaces["ClaimInterface"] = Call(Device \o Words(<<"interface", "force">>), <<>>)
      BY DEF StubInterfaces
    <3>2. <<"interface", "force">> \in Seq(RequestName)
      BY DEF RequestName
    <3>3. Device \o Words(<<"interface", "force">>) \in Seq(PlainField)
      BY <1>1, <3>2, FieldLists
    <3>4. QED
      BY <2>1, <2>2, <3>1, <3>3, KnownCall
  <2>4. LayoutIsKnown("ReleaseInterface", StubInterfaces["ReleaseInterface"])
    <3>1. StubInterfaces["ReleaseInterface"] = Call(Device \o Words(<<"interface">>), <<>>)
      BY DEF StubInterfaces
    <3>2. <<"interface">> \in Seq(RequestName)
      BY DEF RequestName
    <3>3. Device \o Words(<<"interface">>) \in Seq(PlainField)
      BY <1>1, <3>2, FieldLists
    <3>4. QED
      BY <2>1, <2>2, <3>1, <3>3, KnownCall
  <2>5. QED
    BY <2>1, <2>3, <2>4 DEF TableIsKnown
<1>8. TableIsKnown(StubTransfers)
  <2>1. DOMAIN StubTransfers = {"BulkTransferRead", "BulkTransferWrite", "ControlTransfer"}
    BY DEF StubTransfers
  <2>2. DOMAIN StubTransfers \subseteq Handled \cup {"GetActiveConfig"}
    BY <2>1 DEF Handled, StubHost, StubDevice
  <2>3. LayoutIsKnown("BulkTransferRead", StubTransfers["BulkTransferRead"])
    <3>1. StubTransfers["BulkTransferRead"] = Call(Pipe \o Words(<<"timeOut">>), Buffer("bufferData"))
      BY DEF StubTransfers
    <3>2. <<"timeOut">> \in Seq(RequestName)
      BY DEF RequestName
    <3>3. Pipe \o Words(<<"timeOut">>) \in Seq(PlainField)
      BY <1>1, <3>2, FieldLists
    <3>4. QED
      BY <2>1, <2>2, <3>1, <3>3, KnownCall
  <2>4. LayoutIsKnown("BulkTransferWrite", StubTransfers["BulkTransferWrite"])
    <3>1. StubTransfers["BulkTransferWrite"] = Call(Pipe \o Words(<<"timeOut">>) \o Buffer("bufferData"), <<>>)
      BY DEF StubTransfers
    <3>2. <<"timeOut">> \in Seq(RequestName)
      BY DEF RequestName
    <3>3. Pipe \o Words(<<"timeOut">>) \in Seq(PlainField)
      BY <1>1, <3>2, FieldLists
    <3>4. Pipe \o Words(<<"timeOut">>) \in Seq(RequestField)
      BY <1>1, <3>2, <3>3, FieldLists
    <3>5. "bufferData" \in RequestName
      BY DEF RequestName
    <3>6. /\ Pipe \o Words(<<"timeOut">>) \o Buffer("bufferData") \in Seq(RequestField)
          /\ HasBuffer(Pipe \o Words(<<"timeOut">>) \o Buffer("bufferData"))
      BY <3>4, <3>5, EndsInBuffer
    <3>7. QED
      BY <2>1, <2>2, <3>1, <3>6, KnownCall
  <2>5. LayoutIsKnown("ControlTransfer", StubTransfers["ControlTransfer"])
    <3>1. StubTransfers["ControlTransfer"] = Call(Device \o Words(<<"requestType", "requestCmd", "value", "index", "timeout">>) \o Buffer("bufferData"), Buffer("bufferData"))
      BY DEF StubTransfers
    <3>2. <<"requestType", "requestCmd", "value", "index", "timeout">> \in Seq(RequestName)
      BY DEF RequestName
    <3>3. Device \o Words(<<"requestType", "requestCmd", "value", "index", "timeout">>) \in Seq(PlainField)
      BY <1>1, <3>2, FieldLists
    <3>4. Device \o Words(<<"requestType", "requestCmd", "value", "index", "timeout">>) \in Seq(RequestField)
      BY <1>1, <3>2, <3>3, FieldLists
    <3>5. "bufferData" \in RequestName
      BY DEF RequestName
    <3>6. /\ Device \o Words(<<"requestType", "requestCmd", "value", "index", "timeout">>) \o Buffer("bufferData") \in Seq(RequestField)
          /\ HasBuffer(Device \o Words(<<"requestType", "requestCmd", "value", "index", "timeout">>) \o Buffer("bufferData"))
      BY <3>4, <3>5, EndsInBuffer
    <3>7. QED
      BY <2>1, <2>2, <3>1, <3>6, KnownCall
  <2>6. QED
    BY <2>1, <2>3, <2>4, <2>5 DEF TableIsKnown
<1>9. TableIsKnown(StubConfigs)
  <2>1. DOMAIN StubConfigs = {"SetActiveConfig", "GetActiveConfig", "SetInterface"}
    BY DEF StubConfigs
  <2>2. DOMAIN StubConfigs \subseteq Handled \cup {"GetActiveConfig"}
    BY <2>1 DEF Handled, StubHost, StubDevice
  <2>3. LayoutIsKnown("SetActiveConfig", StubConfigs["SetActiveConfig"])
    <3>1. StubConfigs["SetActiveConfig"] = Call(Device \o Words(<<"configIndex">>), <<>>)
      BY DEF StubConfigs
    <3>2. <<"configIndex">> \in Seq(RequestName)
      BY DEF RequestName
    <3>3. Device \o Words(<<"configIndex">>) \in Seq(PlainField)
      BY <1>1, <3>2, FieldLists
    <3>4. QED
      BY <2>1, <2>2, <3>1, <3>3, KnownCall
  <2>4. LayoutIsKnown("GetActiveConfig", StubConfigs["GetActiveConfig"])
    <3>1. StubConfigs["GetActiveConfig"] = Call(Device, Words(<<"configIndex">>))
      BY DEF StubConfigs
    <3>2. QED
      BY <2>1, <2>2, <3>1, <1>1, KnownCall
  <2>5. LayoutIsKnown("SetInterface", StubConfigs["SetInterface"])
    <3>1. StubConfigs["SetInterface"] = Call(Device \o Words(<<"interface", "altIndex">>), <<>>)
      BY DEF StubConfigs
    <3>2. <<"interface", "altIndex">> \in Seq(RequestName)
      BY DEF RequestName
    <3>3. Device \o Words(<<"interface", "altIndex">>) \in Seq(PlainField)
      BY <1>1, <3>2, FieldLists
    <3>4. QED
      BY <2>1, <2>2, <3>1, <3>3, KnownCall
  <2>6. QED
    BY <2>1, <2>3, <2>4, <2>5 DEF TableIsKnown
<1>10. TableIsKnown(StubDescriptors)
  <2>1. DOMAIN StubDescriptors = {"GetRawDescriptor", "GetFileDescriptor"}
    BY DEF StubDescriptors
  <2>2. DOMAIN StubDescriptors \subseteq Handled \cup {"GetActiveConfig"}
    BY <2>1 DEF Handled, StubHost, StubDevice
  <2>3. LayoutIsKnown("GetRawDescriptor", StubDescriptors["GetRawDescriptor"])
    <3>1. StubDescriptors["GetRawDescriptor"] = Call(Device, Buffer("bufferData"))
      BY DEF StubDescriptors
    <3>2. QED
      BY <2>1, <2>2, <3>1, <1>1, KnownCall
  <2>4. LayoutIsKnown("GetFileDescriptor", StubDescriptors["GetFileDescriptor"])
    <3>1. StubDescriptors["GetFileDescriptor"] = Call(Device, Words(<<"fd">>))
      BY DEF StubDescriptors
    <3>2. QED
      BY <2>1, <2>2, <3>1, <1>1, KnownCall
  <2>5. QED
    BY <2>1, <2>3, <2>4 DEF TableIsKnown
<1>11. TableIsKnown(StubRequests)
  <2>1. DOMAIN StubRequests = {"RequestQueue", "RequestWait", "RequestCancel", "Close"}
    BY DEF StubRequests
  <2>2. DOMAIN StubRequests \subseteq Handled \cup {"GetActiveConfig"}
    BY <2>1 DEF Handled, StubHost, StubDevice
  <2>3. LayoutIsKnown("RequestQueue", StubRequests["RequestQueue"])
    <3>1. StubRequests["RequestQueue"] = Call(Pipe \o Buffer("clientData") \o Buffer("bufferData"), <<>>)
      BY DEF StubRequests
    <3>2. Pipe \in Seq(RequestField)
      BY <1>1, FieldLists
    <3>3. "clientData" \in RequestName
      BY DEF RequestName
    <3>4. Pipe \o Buffer("clientData") \in Seq(RequestField) /\ HasBuffer(Pipe \o Buffer("clientData"))
      BY <3>2, <3>3, EndsInBuffer
    <3>5. Pipe \o Buffer("clientData") \in Seq(RequestField)
      BY <3>4, FieldLists
    <3>6. "bufferData" \in RequestName
      BY DEF RequestName
    <3>7. /\ Pipe \o Buffer("clientData") \o Buffer("bufferData") \in Seq(RequestField)
          /\ HasBuffer(Pipe \o Buffer("clientData") \o Buffer("bufferData"))
      BY <3>5, <3>6, EndsInBuffer
    <3>8. QED
      BY <2>1, <2>2, <3>1, <3>7, KnownCall
  <2>4. LayoutIsKnown("RequestWait", StubRequests["RequestWait"])
    <3>1. StubRequests["RequestWait"] = Call(Device \o Words(<<"timeOut">>), Buffer("clientData") \o Buffer("bufferData"))
      BY DEF StubRequests
    <3>2. <<"timeOut">> \in Seq(RequestName)
      BY DEF RequestName
    <3>3. Device \o Words(<<"timeOut">>) \in Seq(PlainField)
      BY <1>1, <3>2, FieldLists
    <3>4. QED
      BY <2>1, <2>2, <3>1, <3>3, KnownCall
  <2>5. LayoutIsKnown("RequestCancel", StubRequests["RequestCancel"])
    <3>1. StubRequests["RequestCancel"] = Call(Pipe, <<>>)
      BY DEF StubRequests
    <3>2. QED
      BY <2>1, <2>2, <3>1, <1>1, KnownCall
  <2>6. LayoutIsKnown("Close", StubRequests["Close"])
    <3>1. StubRequests["Close"] = Call(Device, <<>>)
      BY DEF StubRequests
    <3>2. QED
      BY <2>1, <2>2, <3>1, <1>1, KnownCall
  <2>7. QED
    BY <2>1, <2>3, <2>4, <2>5, <2>6 DEF TableIsKnown
<1>12. TableIsKnown(StubBulk)
  <2>1. DOMAIN StubBulk = {"RegBulkCallback", "UnRegBulkCallback", "BulkRead", "BulkWrite", "BulkCancel"}
    BY DEF StubBulk
  <2>2. DOMAIN StubBulk \subseteq Handled \cup {"GetActiveConfig"}
    BY <2>1 DEF Handled, StubHost, StubDevice
  <2>3. LayoutIsKnown("RegBulkCallback", StubBulk["RegBulkCallback"])
    <3>1. StubBulk["RegBulkCallback"] = Call(Pipe \o Object("cb"), <<>>)
      BY DEF StubBulk
    <3>2. "cb" \in RequestName
      BY DEF RequestName
    <3>3. Pipe \o Object("cb") \in Seq(RequestField)
      BY <1>1, <3>2, FieldLists
    <3>4. QED
      BY <2>1, <2>2, <3>1, <3>3, KnownCall
  <2>4. LayoutIsKnown("UnRegBulkCallback", StubBulk["UnRegBulkCallback"])
    <3>1. StubBulk["UnRegBulkCallback"] = Call(Pipe, <<>>)
      BY DEF StubBulk
    <3>2. QED
      BY <2>1, <2>2, <3>1, <1>1, KnownCall
  <2>5. LayoutIsKnown("BulkRead", StubBulk["BulkRead"])
    <3>1. StubBulk["BulkRead"] = Call(Pipe \o Object("ashmem"), <<>>)
      BY DEF StubBulk
    <3>2. Pipe \o Object("ashmem") \in Seq(PlainField)
      BY <1>1, FieldLists
    <3>3. QED
      BY <2>1, <2>2, <3>1, <3>2, KnownCall
  <2>6. LayoutIsKnown("BulkWrite", StubBulk["BulkWrite"])
    <3>1. StubBulk["BulkWrite"] = Call(Pipe \o Object("ashmem"), <<>>)
      BY DEF StubBulk
    <3>2. Pipe \o Object("ashmem") \in Seq(PlainField)
      BY <1>1, FieldLists
    <3>3. QED
      BY <2>1, <2>2, <3>1, <3>2, KnownCall
  <2>7. LayoutIsKnown("BulkCancel", StubBulk["BulkCancel"])
    <3>1. StubBulk["BulkCancel"] = Call(Pipe, <<>>)
      BY DEF StubBulk
    <3>2. QED
      BY <2>1, <2>2, <3>1, <1>1, KnownCall
  <2>8. QED
    BY <2>1, <2>3, <2>4, <2>5, <2>6, <2>7 DEF TableIsKnown
<1>13. TableIsKnown(UsbdBulkCallBack)
  <2>1. DOMAIN UsbdBulkCallBack = {"OnBulkWriteCallback", "OnBulkReadCallback"}
    BY DEF UsbdBulkCallBack
  <2>2. DOMAIN UsbdBulkCallBack \subseteq Handled \cup {"GetActiveConfig"}
    BY <2>1 DEF Handled, StubHost, StubDevice, UsbdBulkCallBack
  <2>3. LayoutIsKnown("OnBulkWriteCallback", UsbdBulkCallBack["OnBulkWriteCallback"])
    <3>1. UsbdBulkCallBack["OnBulkWriteCallback"] = Call(Words(<<"status", "actLength">>), <<>>)
      BY DEF UsbdBulkCallBack
    <3>2. <<"status", "actLength">> \in Seq(RequestName)
      BY DEF RequestName
    <3>3. Words(<<"status", "actLength">>) \in Seq(PlainField)
      BY <1>1, <3>2, FieldLists
    <3>4. QED
      BY <2>1, <2>2, <3>1, <3>3, KnownCall
  <2>4. LayoutIsKnown("OnBulkReadCallback", UsbdBulkCallBack["OnBulkReadCallback"])
    <3>1. UsbdBulkCallBack["OnBulkReadCallback"] = Call(Words(<<"status", "actLength">>), <<>>)
      BY DEF UsbdBulkCallBack
    <3>2. <<"status", "actLength">> \in Seq(RequestName)
      BY DEF RequestName
    <3>3. Words(<<"status", "actLength">>) \in Seq(PlainField)
      BY <1>1, <3>2, FieldLists
    <3>4. QED
      BY <2>1, <2>2, <3>1, <3>3, KnownCall
  <2>5. QED
    BY <2>1, <2>3, <2>4 DEF TableIsKnown
<1>14. QED
  BY <1>2, <1>3, <1>4, <1>5, <1>6, <1>7, <1>8, <1>9, <1>10, <1>11, <1>12, <1>13

(* So they are for the proxy. *)
LEMMA LayoutsKnown ==
    ASSUME NEW c \in Calls
    PROVE  LayoutIsKnown(c, Proxy[c])
<1>1. TableIsKnown(Stub)
  BY StubIsKnown, MergeIsKnown DEF Stub
<1>2. QED
  BY <1>1, SameLayouts DEF TableIsKnown, Calls

-----------------------------------------------------------------------------
(* The inductive invariant *)

RequestCell ==
    [kind : {"word", "text", "length", "bytes", "object"}, name : RequestName, n : {0, 1}]

Plain(c) == Proxy[c].request \in Seq(PlainField)

(* Where a call is, and what is in its request. *)
CallType ==
    /\ pc \in {"returned", "write", "read", "reply", "answer"}
    /\ call \in Calls
    /\ request \in Seq(RequestCell)
    /\ pc \in {"write", "read"} => todo \in Seq(RequestField)
    /\ pc \in {"write", "read"} /\ Plain(call) => todo \in Seq(PlainField)
    /\ pc \in {"write", "read"} => ~served /\ reply = <<>>
    /\ pc \in {"reply", "answer"} => served
    /\ clean => ~lost

(* Unless a write was lost, the request holds what was asked. *)
RequestFits ==
    ~lost =>
        /\ pc = "write" => Fits(Proxy[call].request, request, todo)
        /\ pc = "read" => Fits(todo, request, <<>>)
        /\ "request" \notin wrong

(* If a write was lost, a plain request is too short to be served. *)
LostIsTooShort ==
    Plain(call) =>
        /\ pc = "write" => Len(request) + Len(todo) <= Len(Proxy[call].request)
        /\ lost =>
            /\ pc = "write" => Len(request) + Len(todo) < Len(Proxy[call].request)
            /\ pc = "read" => Len(request) < Len(todo)
            /\ ~served

(* What a control transfer may have replied. *)
ControlReplies ==
    {<<>>, <<Cell("length", "bufferData", 0)>>, <<Cell("length", "bufferData", 1)>>,
     <<Cell("length", "bufferData", 1), Cell("bytes", "bufferData", 0)>>}

ControlReplyFits ==
    /\ todo \in {<<>>, Buffer("bufferData")}
    /\ reply \in ControlReplies
    /\ pc = "reply" =>
        /\ todo # <<>> => reply = <<>>
        /\ ~lost /\ ~inbound => todo = <<>> /\ reply = <<>>
        /\ clean /\ inbound => Fits(Buffer("bufferData"), reply, todo)
    /\ pc = "answer" =>
        /\ todo = <<>> => reply = <<>> \/ lost
        /\ clean => Fits(todo, reply, <<>>)

(* The reply holds what the stub was to answer. *)
ReplyFits ==
    /\ "reply" \notin wrong
    /\ pc \in {"reply", "answer"} /\ call = "ControlTransfer" => ControlReplyFits
    /\ pc = "reply" /\ call # "ControlTransfer" => Fits(Proxy[call].reply, reply, todo)
    /\ pc = "answer" /\ call # "ControlTransfer" => Fits(todo, reply, <<>>)

IpcInv ==
    /\ CallType
    /\ RequestFits
    /\ LostIsTooShort
    /\ ReplyFits
    /\ OkMeansAnswered
    /\ CleanCallsSucceed

-----------------------------------------------------------------------------
(* Writing and reading one field *)

(* What is written for a field holds it. *)
LEMMA WrittenHolds ==
    ASSUME NEW f, NEW cells \in Written(f)
    PROVE  Holds(cells, f, <<>>) /\ \E R : cells \in Seq(R)
<1>1. ASSUME NEW k, NEW n
      PROVE  LET c == Cell(k, f.name, n) IN c.kind = k /\ c.name = f.name /\ c.n = n
  BY DEF Cell
<1>2. CASE f.kind = "buffer" /\ cells = <<Cell("length", f.name, 0)>>
  <2> DEFINE c == Cell("length", f.name, 0)
  <2>1. c.kind = "length" /\ c.name = f.name /\ c.n = 0
    BY <1>1
  <2> HIDE DEF c
  <2>2. <<c>> \in Seq({c}) /\ Head(<<c>>) = c /\ Tail(<<c>>) = <<>> /\ <<c>> # <<>>
    OBVIOUS
  <2>3. cells = <<c>>
    BY <1>2 DEF c
  <2>4. QED
    BY <1>2, <2>1, <2>2, <2>3 DEF Holds
<1>3. CASE f.kind = "buffer" /\ cells = <<Cell("length", f.name, 1), Cell("bytes", f.name, 0)>>
  <2> DEFINE c == Cell("length", f.name, 1)
             b == Cell("bytes", f.name, 0)
  <2>1. c.kind = "length" /\ c.name = f.name /\ c.n = 1
    BY <1>1
  <2> HIDE DEF c, b
  <2>2. <<c, b>> \in Seq({c, b}) /\ Head(<<c, b>>) = c /\ Tail(<<c, b>>) = <<b>> /\ <<c, b>> # <<>>
    OBVIOUS
  <2>3. <<b>> # <<>> /\ Tail(<<b>>) = <<>>
    OBVIOUS
  <2>4. cells = <<c, b>>
    BY <1>3 DEF c, b
  <2>5. /\ cells \in Seq({c, b}) /\ cells # <<>> /\ Head(cells) = c
        /\ Tail(cells) # <<>> /\ Tail(Tail(cells)) = <<>>
    BY <2>2, <2>3, <2>4
  <2>6. /\ f.kind = "buffer" /\ Head(cells).name = f.name /\ Head(cells).kind = "length"
        /\ Head(cells).n # 0
    BY <1>3, <2>1, <2>5
  <2>7. Holds(cells, f, <<>>)
    BY <2>5, <2>6 DEF Holds
  <2>8. QED
    BY <2>5, <2>7
<1>4. CASE f.kind # "buffer" /\ cells = <<Cell(f.kind, f.name, 0)>>
  <2> DEFINE c == Cell(f.kind, f.name, 0)
  <2>1. c.kind = f.kind /\ c.name = f.name
    BY <1>1
  <2> HIDE DEF c
  <2>2. <<c>> \in Seq({c}) /\ Head(<<c>>) = c /\ Tail(<<c>>) = <<>> /\ <<c>> # <<>>
    OBVIOUS
  <2>3. cells = <<c>>
    BY <1>4 DEF c
  <2>4. QED
    BY <1>4, <2>1, <2>2, <2>3 DEF Holds
<1>5. QED
  BY <1>2, <1>3, <1>4 DEF Written

(* A count and its items. *)
LEMMA CountHolds ==
    ASSUME NEW f, f.kind = "count", NEW n
    PROVE  LET cells == <<Cell("count", f.name, n)>> IN
           Holds(cells, f, <<>>) /\ Head(cells).n = n /\ cells \in Seq({Cell("count", f.name, n)})
<1> DEFINE c == Cell("count", f.name, n)
<1>1. c.kind = "count" /\ c.name = f.name /\ c.n = n
  BY DEF Cell
<1> HIDE DEF c
<1>2. <<c>> \in Seq({c}) /\ Head(<<c>>) = c /\ Tail(<<c>>) = <<>> /\ <<c>> # <<>>
  OBVIOUS
<1>3. Holds(<<c>>, f, <<>>) /\ Head(<<c>>).n = n /\ <<c>> \in Seq({c})
  BY <1>1, <1>2 DEF Holds
<1>4. QED
  BY <1>3 DEF c

(* The cells of arguments; a plain one has a single cell. *)
LEMMA WrittenCells ==
    ASSUME NEW f \in RequestField, NEW cells \in Written(f)
    PROVE  cells \in Seq(RequestCell) /\ (f \in PlainField => Len(cells) = 1)
<1>1. f.kind \in {"word", "text", "buffer", "object"} /\ f.name \in RequestName
  BY DEF RequestField
<1>2. \A k \in {"word", "text", "length", "bytes", "object"}, n \in {0, 1} : Cell(k, f.name, n) \in RequestCell
  BY <1>1 DEF Cell, RequestCell
<1>3. CASE f.kind = "buffer"
  <2>1. f \notin PlainField
    BY <1>3 DEF PlainField
  <2> DEFINE a == Cell("length", f.name, 0)
             b == Cell("length", f.name, 1)
             c == Cell("bytes", f.name, 0)
  <2>2. a \in RequestCell /\ b \in RequestCell /\ c \in RequestCell
    BY <1>2
  <2>3. cells = <<a>> \/ cells = <<b, c>>
    BY <1>3 DEF Written
  <2> HIDE DEF a, b, c
  <2>4. <<a>> \in Seq(RequestCell) /\ <<b, c>> \in Seq(RequestCell)
    BY <2>2
  <2>5. QED
    BY <2>1, <2>3, <2>4
<1>4. CASE f.kind # "buffer"
  <2> DEFINE a == Cell(f.kind, f.name, 0)
  <2>1. a \in RequestCell
    BY <1>1, <1>2, <1>4
  <2>2. cells = <<a>>
    BY <1>4 DEF Written
  <2> HIDE DEF a
  <2>3. <<a>> \in Seq(RequestCell) /\ Len(<<a>>) = 1
    BY <2>1
  <2>4. QED
    BY <2>2, <2>3
<1>5. QED
  BY <1>3, <1>4

(* What a successful read leaves of a parcel: of a plain field, all but    *)
(* one cell.                                                               *)
LEMMA ReadLeaves ==
    ASSUME NEW S, NEW s \in Seq(S), NEW f, NEW got \in Read(s, f), got.ok
    PROVE  /\ got.rest \in Seq(S)
           /\ f \in PlainField => s # <<>> /\ got.rest = Tail(s)
<1>1. ASSUME NEW right, NEW rest
      PROVE  Got(right, rest).rest = rest
  BY DEF Got
<1>2. got # Failed
  BY DEF Failed
<1>3. s # <<>> => Tail(s) \in Seq(S)
  BY HeadTailProperties
<1>4. CASE f.kind = "object"
  <2>1. got \in ReadObject(s, f)
    BY <1>4 DEF Read
  <2>2. CASE s # <<>> /\ Head(s).kind = "object"
    <3>1. got = Got(Head(s).name = f.name, Tail(s))
      BY <2>1, <2>2 DEF ReadObject
    <3>2. got.rest = Tail(s)
      BY <1>1, <3>1
    <3>3. QED
      BY <1>3, <2>2, <3>2
  <2>3. CASE ~(s # <<>> /\ Head(s).kind = "object")
    <3>1. f.name # "ashmem" /\ got = Got(FALSE, s)
      BY <1>2, <2>1, <2>3 DEF ReadObject, RefusedNull
    <3>2. f \notin PlainField
      BY <1>4, <3>1 DEF PlainField
    <3>3. got.rest = s
      BY <1>1, <3>1
    <3>4. QED
      BY <3>2, <3>3
  <2>4. QED
    BY <2>2, <2>3
<1>5. CASE f.kind = "buffer"
  <2>1. f \notin PlainField
    BY <1>5 DEF PlainField
  <2>2. s # <<>>
    BY <1>2, <1>5 DEF Read
  <2>3. got \in ReadBuffer(s, f)
    BY <1>5, <2>2 DEF Read
  <2>4. \/ \E right : got = Got(right, Tail(s))
        \/ Tail(s) # <<>> /\ \E right : got = Got(right, Tail(Tail(s)))
    BY <1>2, <2>3 DEF ReadBuffer
  <2>5. got.rest = Tail(s) \/ (Tail(s) # <<>> /\ got.rest = Tail(Tail(s)))
    BY <1>1, <2>4
  <2>6. Tail(s) \in Seq(S)
    BY <1>3, <2>2
  <2>7. Tail(s) # <<>> => Tail(Tail(s)) \in Seq(S)
    BY <2>6, HeadTailProperties
  <2>8. QED
    BY <2>1, <2>5, <2>6, <2>7
<1>6. CASE f.kind \notin {"object", "buffer"}
  <2>1. s # <<>>
    BY <1>2, <1>6 DEF Read
  <2>2. got \in ReadWord(s, f)
    BY <1>6, <2>1 DEF Read
  <2>3. \E right : got = Got(right, Tail(s))
    BY <1>2, <2>2 DEF ReadWord
  <2>4. got.rest = Tail(s)
    BY <1>1, <2>3
  <2>5. QED
    BY <1>3, <2>1, <2>4
<1>7. QED
  BY <1>4, <1>5, <1>6

-----------------------------------------------------------------------------
(* The steps *)

(* A call that returns a failure keeps the invariant, if something failed  *)
(* outside proxy and stub, or the call has no handler.                     *)
LEMMA FailureReturns ==
    ASSUME IpcInv, Return(FALSE), clean' => ~lost /\ call = "GetActiveConfig",
           UNCHANGED <<call, request, lost, wrong, served>>
    PROVE  IpcInv'
<1>1. pc' = "returned" /\ ok' = FALSE
  BY DEF Return
<1>2. CallType'
  BY <1>1 DEF IpcInv, CallType
<1>3. RequestFits'
  BY <1>1 DEF IpcInv, RequestFits
<1>4. LostIsTooShort'
  BY <1>1 DEF IpcInv, LostIsTooShort, Plain
<1>5. ReplyFits'
  BY <1>1 DEF IpcInv, ReplyFits
<1>6. OkMeansAnswered' /\ CleanCallsSucceed'
  BY <1>1 DEF OkMeansAnswered, CleanCallsSucceed
<1>7. QED
  BY <1>2, <1>3, <1>4, <1>5, <1>6 DEF IpcInv

(* A call begins with all of its request to be written. *)
LEMMA BeginStep ==
    ASSUME IpcInv, NEW c \in Calls, Begin(c)
    PROVE  IpcInv'
<1>1. /\ pc' = "write" /\ call' = c /\ todo' = Proxy[c].request
      /\ request' = <<>> /\ reply' = <<>> /\ lost' = FALSE /\ wrong' = {} /\ served' = FALSE
  BY DEF Begin
<1>2. Proxy[c].request \in Seq(RequestField)
  BY LayoutsKnown DEF LayoutIsKnown
<1>3. <<>> \in Seq(RequestCell)
  BY EmptySeq
<1>4. CallType'
  BY <1>1, <1>2, <1>3 DEF CallType, Plain
<1>5. RequestFits'
  BY <1>1, FitsNothing DEF RequestFits
<1>6. LostIsTooShort'
  <2>1. Len(request') = 0
    BY <1>1
  <2>2. Len(todo') = Len(Proxy[c].request) /\ Len(todo') \in Nat
    BY <1>1, <1>2
  <2>3. Len(request') + Len(todo') <= Len(Proxy[call'].request)
    BY <1>1, <2>1, <2>2
  <2>4. QED
    BY <1>1, <2>3 DEF LostIsTooShort
<1>7. ReplyFits'
  BY <1>1 DEF ReplyFits
<1>8. OkMeansAnswered' /\ CleanCallsSucceed'
  BY <1>1 DEF OkMeansAnswered, CleanCallsSucceed
<1>9. QED
  BY <1>4, <1>5, <1>6, <1>7, <1>8 DEF IpcInv

(* A list that is not empty. *)
LEMMA FirstAndRest ==
    ASSUME NEW S, NEW s \in Seq(S), s # <<>>
    PROVE  Head(s) \in S /\ Tail(s) \in Seq(S) /\ Len(s) \in Nat /\ Len(s) > 0 /\ Len(Tail(s)) = Len(s) - 1
<1>1. Len(s) \in Nat /\ Len(s) # 0
  BY EmptySeq
<1>2. QED
  BY <1>1, HeadTailProperties

(* The fields that are left of a request. *)
LEMMA NextField ==
    ASSUME CallType, pc \in {"write", "read"}, todo # <<>>
    PROVE  /\ Head(todo) \in RequestField /\ Tail(todo) \in Seq(RequestField)
           /\ Plain(call) => Head(todo) \in PlainField /\ Tail(todo) \in Seq(PlainField)
           /\ Len(todo) \in Nat /\ Len(todo) > 0 /\ Len(Tail(todo)) = Len(todo) - 1
           /\ Head(todo).kind # "count"
<1>1. todo \in Seq(RequestField) /\ (Plain(call) => todo \in Seq(PlainField))
  BY DEF CallType
<1>2. Head(todo) \in RequestField => Head(todo).kind # "count"
  BY DEF RequestField
<1>3. QED
  BY <1>1, <1>2, FirstAndRest

(* The proxy writes the next field behind the others. *)
LEMMA ProxyWriteStep ==
    ASSUME IpcInv, ProxyWrite
    PROVE  IpcInv'
<1>1. /\ pc = "write" /\ todo # <<>> /\ todo' = Tail(todo)
      /\ UNCHANGED <<pc, call, reply, lost, wrong, served, clean>>
  BY DEF ProxyWrite, history
<1>2. PICK cells \in Written(Head(todo)) : request' = request \o cells
  BY DEF ProxyWrite
<1>3. CallType
  BY DEF IpcInv
<1>4. /\ Head(todo) \in RequestField /\ Tail(todo) \in Seq(RequestField)
      /\ Plain(call) => Head(todo) \in PlainField /\ Tail(todo) \in Seq(PlainField)
      /\ Len(todo) \in Nat /\ Len(todo) > 0 /\ Len(Tail(todo)) = Len(todo) - 1
      /\ Head(todo).kind # "count"
  BY <1>1, <1>3, NextField
<1>5. cells \in Seq(RequestCell) /\ (Head(todo) \in PlainField => Len(cells) = 1)
  BY <1>4, WrittenCells
<1>6. request' \in Seq(RequestCell) /\ Len(request') = Len(request) + Len(cells) /\ Len(request) \in Nat
  BY <1>2, <1>3, <1>5, ConcatProperties DEF CallType
<1>7. CallType'
  BY <1>1, <1>3, <1>4, <1>6 DEF CallType, Plain
<1>8. RequestFits'
  <2>1. ASSUME ~lost
        PROVE  Fits(Proxy[call].request, request \o cells, Tail(todo))
    <3>1. Fits(Proxy[call].request, request, todo)
      BY <1>1, <2>1 DEF IpcInv, RequestFits
    <3>2. Holds(cells, Head(todo), <<>>)
      BY WrittenHolds
    <3>3. Fits(Proxy[call].request, request \o cells,
               After(Head(todo), Head(cells).n, ProxyBody, Tail(todo)))
      BY <1>1, <1>5, <3>1, <3>2, FitsWrite
    <3>4. QED
      BY <1>4, <3>3 DEF After
  <2>2. QED
    BY <1>1, <1>2, <2>1 DEF IpcInv, RequestFits
<1>9. LostIsTooShort'
  <2>1. ASSUME Plain(call)
        PROVE  Len(request') + Len(todo') = Len(request) + Len(todo)
    <3>1. Len(cells) = 1 /\ Len(request') = Len(request) + 1
      BY <1>4, <1>5, <1>6, <2>1
    <3>2. Len(todo') = Len(todo) - 1 /\ Len(todo) \in Nat /\ Len(request) \in Nat
      BY <1>1, <1>4, <1>6
    <3>3. QED
      BY <3>1, <3>2
  <2>2. QED
    BY <1>1, <2>1 DEF IpcInv, LostIsTooShort, Plain
<1>10. ReplyFits'
  BY <1>1 DEF IpcInv, ReplyFits
<1>11. OkMeansAnswered' /\ CleanCallsSucceed'
  BY <1>1 DEF OkMeansAnswered, CleanCallsSucceed
<1>12. QED
  BY <1>7, <1>8, <1>9, <1>10, <1>11 DEF IpcInv

(* A write fails: the call ends, or the request is too short from then on. *)
LEMMA ProxyWriteFailsStep ==
    ASSUME IpcInv, ProxyWriteFails
    PROVE  IpcInv'
<1>1. /\ pc = "write" /\ todo # <<>>
      /\ UNCHANGED <<call, request, reply, wrong, served>>
  BY DEF ProxyWriteFails, parcels
<1>2. CASE DeviceMessageUnchecked(Head(todo))
  <2> DEFINE m == IF Head(todo).name = "busNum" THEN 3 ELSE 2
  <2>1. todo' = SubSeq(todo, m, Len(todo)) /\ lost' = TRUE /\ clean' = FALSE /\ pc' = "write"
    BY <1>1, <1>2 DEF ProxyWriteFails
  <2>2. m \in {2, 3}
    OBVIOUS
  <2> HIDE DEF m
  <2>3. CallType
    BY DEF IpcInv
  <2>4. Len(todo) \in Nat /\ Len(todo) > 0
    BY <1>1, <2>3, NextField
  <2>5. ASSUME NEW S, todo \in Seq(S)
        PROVE  todo' \in Seq(S) /\ Len(todo') \in Nat /\ Len(todo') < Len(todo)
    <3>1. \A i \in m .. Len(todo) : todo[i] \in S
      BY <2>2, <2>5
    <3>2. /\ SubSeq(todo, m, Len(todo)) \in Seq(S)
          /\ Len(SubSeq(todo, m, Len(todo))) = IF m <= Len(todo) THEN Len(todo) - m + 1 ELSE 0
      BY <2>2, <2>4, <3>1, SubSeqProperties
    <3>3. QED
      BY <2>1, <2>2, <2>4, <3>2
  <2>6. CallType'
    BY <1>1, <2>1, <2>3, <2>5 DEF CallType, Plain
  <2>7. RequestFits'
    BY <2>1 DEF RequestFits
  <2>8. LostIsTooShort'
    <3>1. ASSUME Plain(call)
          PROVE  Len(request') + Len(todo') < Len(Proxy[call].request) /\ ~served
      <4>1. Len(request) + Len(todo) <= Len(Proxy[call].request) /\ ~served
        BY <1>1, <3>1 DEF IpcInv, LostIsTooShort, CallType
      <4>2. Len(request) \in Nat /\ Len(Proxy[call].request) \in Nat
        BY <2>3, <3>1 DEF CallType, Plain
      <4>3. Len(todo') \in Nat /\ Len(todo') < Len(todo)
        BY <1>1, <2>3, <2>5 DEF CallType
      <4>4. QED
        BY <1>1, <2>4, <4>1, <4>2, <4>3
    <3>2. Plain(call) => Len(request') + Len(todo') <= Len(Proxy[call].request)
      <4>1. Len(request') \in Nat /\ Len(todo') \in Nat
        BY <1>1, <2>3, <2>5 DEF CallType
      <4>2. Plain(call) => Len(Proxy[call].request) \in Nat
        BY DEF Plain
      <4>3. QED
        BY <3>1, <4>1, <4>2
    <3>3. QED
      BY <1>1, <2>1, <3>1, <3>2 DEF LostIsTooShort, Plain
  <2>9. ReplyFits'
    BY <1>1, <2>1 DEF IpcInv, ReplyFits
  <2>10. OkMeansAnswered' /\ CleanCallsSucceed'
    BY <2>1 DEF OkMeansAnswered, CleanCallsSucceed
  <2>11. QED
    BY <2>6, <2>7, <2>8, <2>9, <2>10 DEF IpcInv
<1>3. CASE ~DeviceMessageUnchecked(Head(todo))
  <2>1. Return(FALSE) /\ clean' = FALSE /\ UNCHANGED lost
    BY <1>3 DEF ProxyWriteFails, ReturnFailure
  <2>2. QED
    BY <1>1, <2>1, FailureReturns
<1>4. QED
  BY <1>2, <1>3

(* The stub begins with the fields that the proxy began with. *)
LEMMA SendRequestStep ==
    ASSUME IpcInv, SendRequest
    PROVE  IpcInv'
<1>1. /\ pc = "write" /\ todo = <<>>
      /\ UNCHANGED <<call, request, reply, inbound, lost, wrong, served, clean>>
  BY DEF SendRequest, parcels, history
<1>2. CallType
  BY DEF IpcInv
<1>3. LayoutIsKnown(call, Proxy[call])
  BY <1>2, LayoutsKnown DEF CallType
<1>4. CASE call \in Handled
  <2>1. pc' = "read" /\ todo' = Proxy[call].request
    BY <1>4, SameLayouts DEF SendRequest
  <2>2. todo' \in Seq(RequestField)
    BY <1>3, <2>1 DEF LayoutIsKnown
  <2>3. CallType'
    BY <1>1, <1>2, <2>1, <2>2 DEF CallType, Plain
  <2>4. RequestFits'
    BY <1>1, <2>1 DEF IpcInv, RequestFits
  <2>5. LostIsTooShort'
    <3>1. Len(todo) = 0 /\ Len(request) \in Nat
      BY <1>1, <1>2 DEF CallType
    <3>2. Plain(call) /\ lost => Len(request) < Len(todo') /\ ~served
      BY <1>1, <2>1, <3>1 DEF IpcInv, LostIsTooShort
    <3>3. QED
      BY <1>1, <2>1, <3>2 DEF LostIsTooShort, Plain
  <2>6. ReplyFits'
    BY <1>1, <2>1 DEF IpcInv, ReplyFits
  <2>7. OkMeansAnswered' /\ CleanCallsSucceed'
    BY <2>1 DEF OkMeansAnswered, CleanCallsSucceed
  <2>8. QED
    BY <2>3, <2>4, <2>5, <2>6, <2>7 DEF IpcInv
<1>5. CASE call \notin Handled
  <2>1. Return(FALSE)
    BY <1>5 DEF SendRequest
  <2>2. clean' => ~lost /\ call = "GetActiveConfig"
    BY <1>1, <1>2, <1>3, <1>5 DEF CallType, LayoutIsKnown
  <2>3. QED
    BY <1>1, <2>1, <2>2, FailureReturns
<1>6. QED
  BY <1>4, <1>5

(* The stub reads what was asked, or comes nearer to the end of a request  *)
(* that is too short.                                                      *)
LEMMA StubReadStep ==
    ASSUME IpcInv, StubRead
    PROVE  IpcInv'
<1>1. /\ pc = "read" /\ todo # <<>>
      /\ UNCHANGED <<call, reply, inbound, lost, served, clean>>
  BY DEF StubRead
<1>2. PICK got \in Read(request, Head(todo)) :
        IF got.ok
        THEN /\ request' = got.rest
             /\ todo' = Tail(todo)
             /\ wrong' = IF got.right THEN wrong ELSE wrong \cup {"request"}
             /\ UNCHANGED <<pc, ok>>
        ELSE Return(FALSE) /\ UNCHANGED <<request, wrong>>
  BY DEF StubRead
<1>3. CallType
  BY DEF IpcInv
<1>4. /\ Head(todo) \in RequestField /\ Tail(todo) \in Seq(RequestField)
      /\ Plain(call) => Head(todo) \in PlainField /\ Tail(todo) \in Seq(PlainField)
      /\ Len(todo) \in Nat /\ Len(todo) > 0 /\ Len(Tail(todo)) = Len(todo) - 1
      /\ Head(todo).kind # "count"
  BY <1>1, <1>3, NextField
<1>5. ASSUME ~lost
      PROVE  got.ok /\ got.right /\ Fits(Tail(todo), got.rest, <<>>)
  <2>1. Fits(todo, request, <<>>)
    BY <1>1, <1>5 DEF IpcInv, RequestFits
  <2>2. PICK rest :
          /\ Holds(request, Head(todo), rest)
          /\ Fits(After(Head(todo), Head(request).n, ProxyBody, Tail(todo)), rest, <<>>)
    BY <1>1, <2>1, FitsHead
  <2>3. got.ok = TRUE /\ got.right = TRUE /\ got.rest = rest
    BY <2>2, HoldsRead
  <2>4. After(Head(todo), Head(request).n, ProxyBody, Tail(todo)) = Tail(todo)
    BY <1>4 DEF After
  <2>5. QED
    BY <2>2, <2>3, <2>4
<1>6. CASE got.ok
  <2>1. /\ request' = got.rest /\ todo' = Tail(todo) /\ pc' = "read"
        /\ wrong' = IF got.right THEN wrong ELSE wrong \cup {"request"}
    BY <1>1, <1>2, <1>6
  <2>2. /\ got.rest \in Seq(RequestCell)
        /\ Head(todo) \in PlainField => request # <<>> /\ got.rest = Tail(request)
    BY <1>3, <1>6, ReadLeaves DEF CallType
  <2>3. CallType'
    BY <1>1, <1>3, <1>4, <2>1, <2>2 DEF CallType, Plain
  <2>4. RequestFits'
    BY <1>1, <1>5, <2>1 DEF IpcInv, RequestFits
  <2>5. LostIsTooShort'
    <3>1. ASSUME Plain(call), lost
          PROVE  Len(request') < Len(todo') /\ ~served
      <4>1. Len(request) < Len(todo) /\ ~served
        BY <1>1, <3>1 DEF IpcInv, LostIsTooShort
      <4>2. Len(request) \in Nat /\ Len(Tail(request)) = Len(request) - 1 /\ request' = Tail(request)
        BY <1>3, <1>4, <2>1, <2>2, <3>1, FirstAndRest DEF CallType
      <4>3. Len(request') < Len(todo')
        BY <1>4, <2>1, <4>1, <4>2
      <4>4. QED
        BY <4>1, <4>3
    <3>2. QED
      BY <1>1, <2>1, <3>1 DEF LostIsTooShort, Plain
  <2>6. ReplyFits'
    <3>1. "request" # "reply"
      OBVIOUS
    <3>2. QED
      BY <1>1, <2>1, <3>1 DEF IpcInv, ReplyFits
  <2>7. OkMeansAnswered' /\ CleanCallsSucceed'
    BY <2>1 DEF OkMeansAnswered, CleanCallsSucceed
  <2>8. QED
    BY <2>3, <2>4, <2>5, <2>6, <2>7 DEF IpcInv
<1>7. CASE ~got.ok
  <2>1. Return(FALSE) /\ UNCHANGED <<request, wrong>>
    BY <1>2, <1>7
  <2>2. ~clean
    BY <1>3, <1>5, <1>7 DEF CallType
  <2>3. QED
    BY <1>1, <2>1, <2>2, FailureReturns
<1>8. QED
  BY <1>6, <1>7

(* The stub writes the fields of its answer. *)
LEMMA StubExecuteStep ==
    ASSUME IpcInv, StubExecute
    PROVE  IpcInv'
<1>1. /\ pc = "read" /\ todo = <<>> /\ pc' = "reply" /\ todo' \in ReplyFields /\ served' = TRUE
      /\ UNCHANGED <<call, request, reply, inbound, lost, wrong, clean>>
  BY DEF StubExecute, parcels
<1>2. CallType /\ reply = <<>>
  BY <1>1 DEF IpcInv, CallType
<1>3. LayoutIsKnown(call, Proxy[call])
  BY <1>2, LayoutsKnown DEF CallType
<1>4. CallType'
  BY <1>1, <1>2 DEF CallType
<1>5. RequestFits'
  BY <1>1 DEF IpcInv, RequestFits
<1>6. LostIsTooShort'
  <2>1. ASSUME Plain(call), lost
        PROVE  FALSE
    <3>1. Len(request) < Len(todo)
      BY <1>1, <2>1 DEF IpcInv, LostIsTooShort
    <3>2. Len(todo) = 0 /\ Len(request) \in Nat
      BY <1>1, <1>2 DEF CallType
    <3>3. QED
      BY <3>1, <3>2
  <2>2. QED
    BY <1>1, <2>1 DEF LostIsTooShort, Plain
<1>7. CASE call # "ControlTransfer"
  <2>1. todo' = Proxy[call].reply
    BY <1>1, <1>7, SameLayouts DEF ReplyFields
  <2>2. Fits(Proxy[call].reply, reply', todo')
    BY <1>1, <1>2, <2>1, FitsNothing
  <2>3. ReplyFits'
    BY <1>1, <1>7, <2>2 DEF IpcInv, ReplyFits
  <2>4. QED
    BY <1>1, <1>4, <1>5, <1>6, <2>3 DEF IpcInv, OkMeansAnswered, CleanCallsSucceed
<1>8. CASE call = "ControlTransfer"
  <2>1. Stub[call].reply = Buffer("bufferData")
    BY <1>3, <1>8, SameLayouts DEF LayoutIsKnown
  <2>2. todo' \in {<<>>, Buffer("bufferData")}
    BY <1>1, <1>8, <2>1 DEF ReplyFields
  <2>3. ~lost => todo' = IF inbound THEN Buffer("bufferData") ELSE <<>>
    BY <1>1, <1>8, <2>1 DEF ReplyFields, IpcInv, RequestFits
  <2>4. reply' = <<>> /\ reply' \in ControlReplies
    BY <1>1, <1>2 DEF ControlReplies
  <2>5. clean => ~lost
    BY <1>2 DEF CallType
  <2>6. Fits(Buffer("bufferData"), <<>>, Buffer("bufferData"))
    BY FitsNothing
  <2>7. ControlReplyFits'
    BY <1>1, <2>2, <2>3, <2>4, <2>5, <2>6 DEF ControlReplyFits
  <2>8. ReplyFits'
    BY <1>1, <1>8, <2>7 DEF IpcInv, ReplyFits
  <2>9. QED
    BY <1>1, <1>4, <1>5, <1>6, <2>8 DEF IpcInv, OkMeansAnswered, CleanCallsSucceed
<1>9. QED
  BY <1>7, <1>8

(* The answer of a control transfer is one buffer. *)
LEMMA ControlBuffer ==
    LET b == Buffer("bufferData") IN
    /\ b # <<>> /\ Tail(b) = <<>>
    /\ Head(b).kind = "buffer" /\ Head(b).name = "bufferData"
    /\ Written(Head(b)) \subseteq ControlReplies
<1> DEFINE f == [kind |-> "buffer", name |-> "bufferData"]
<1>1. f.kind = "buffer" /\ f.name = "bufferData"
  OBVIOUS
<1>2. Buffer("bufferData") = <<f>>
  BY DEF Buffer, Field
<1> HIDE DEF f
<1>3. Written(f) = {<<Cell("length", "bufferData", 0)>>,
                    <<Cell("length", "bufferData", 1), Cell("bytes", "bufferData", 0)>>}
  BY <1>1 DEF Written
<1>4. Written(f) \subseteq ControlReplies
  BY <1>3 DEF ControlReplies
<1>5. <<f>> # <<>> /\ Tail(<<f>>) = <<>> /\ Head(<<f>>) = f
  OBVIOUS
<1>6. QED
  BY <1>1, <1>2, <1>4, <1>5

(* A step of the stub within its answer. *)
LEMMA AnswerGoesOn ==
    ASSUME IpcInv, pc = "reply", pc' = "reply", clean' => clean,
           UNCHANGED <<call, request, inbound, lost, wrong, served>>,
           call # "ControlTransfer" => Fits(Proxy[call].reply, reply', todo'),
           call = "ControlTransfer" => ControlReplyFits'
    PROVE  IpcInv'
<1>1. CallType'
  BY DEF IpcInv, CallType
<1>2. RequestFits'
  BY DEF IpcInv, RequestFits
<1>3. LostIsTooShort'
  BY DEF IpcInv, LostIsTooShort, Plain
<1>4. ReplyFits'
  BY DEF IpcInv, ReplyFits
<1>5. OkMeansAnswered' /\ CleanCallsSucceed'
  BY DEF OkMeansAnswered, CleanCallsSucceed
<1>6. QED
  BY <1>1, <1>2, <1>3, <1>4, <1>5 DEF IpcInv

(* The stub writes the next field of its answer, and a count with it what  *)
(* is to be written of each item.                                          *)
LEMMA StubWriteStep ==
    ASSUME IpcInv, StubWrite
    PROVE  IpcInv'
<1>1. /\ pc = "reply" /\ todo # <<>> /\ pc' = "reply"
      /\ UNCHANGED <<call, request, inbound, lost, wrong, served, clean>>
  BY DEF StubWrite, history
<1>2. ASSUME call # "ControlTransfer"
      PROVE  Fits(Proxy[call].reply, reply', todo')
  <2>1. Fits(Proxy[call].reply, reply, todo)
    BY <1>1, <1>2 DEF IpcInv, ReplyFits
  <2>2. CASE Head(todo).kind = "count"
    <3>1. PICK n : /\ reply' = reply \o <<Cell("count", Head(todo).name, n)>>
                   /\ todo' = After(Head(todo), n, StubBody, Tail(todo))
      BY <2>2 DEF StubWrite
    <3> DEFINE cells == <<Cell("count", Head(todo).name, n)>>
    <3>2. /\ Holds(cells, Head(todo), <<>>)
          /\ Head(cells).n = n
          /\ cells \in Seq({Cell("count", Head(todo).name, n)})
      BY <2>2, CountHolds
    <3>3. reply' = reply \o cells
      BY <3>1
    <3> HIDE DEF cells
    <3>4. Fits(Proxy[call].reply, reply \o cells, After(Head(todo), Head(cells).n, ProxyBody, Tail(todo)))
      BY <1>1, <2>1, <3>2, FitsWrite
    <3>5. todo' = After(Head(todo), Head(cells).n, ProxyBody, Tail(todo))
      BY <3>1, <3>2, SameLayouts
    <3>6. QED
      BY <3>3, <3>4, <3>5
  <2>3. CASE Head(todo).kind # "count"
    <3>1. PICK cells \in Written(Head(todo)) : reply' = reply \o cells
      BY <2>3 DEF StubWrite
    <3>2. todo' = Tail(todo)
      BY <2>3 DEF StubWrite
    <3>3. Holds(cells, Head(todo), <<>>) /\ \E R : cells \in Seq(R)
      BY WrittenHolds
    <3>4. Fits(Proxy[call].reply, reply \o cells, After(Head(todo), Head(cells).n, ProxyBody, Tail(todo)))
      BY <1>1, <2>1, <3>3, FitsWrite
    <3>5. QED
      BY <2>3, <3>1, <3>2, <3>4 DEF After
  <2>4. QED
    BY <2>2, <2>3
<1>3. ASSUME call = "ControlTransfer"
      PROVE  ControlReplyFits'
  <2> DEFINE b == Buffer("bufferData")
  <2>1. ControlReplyFits
    BY <1>1, <1>3 DEF IpcInv, ReplyFits
  <2>2. todo = b /\ reply = <<>>
    BY <1>1, <2>1 DEF ControlReplyFits
  <2>3. /\ b # <<>> /\ Tail(b) = <<>> /\ Head(b).kind = "buffer"
        /\ Written(Head(b)) \subseteq ControlReplies
    BY ControlBuffer
  <2> HIDE DEF b
  <2>4. Head(todo).kind # "count"
    BY <2>2, <2>3
  <2>5. PICK cells \in Written(Head(todo)) : reply' = reply \o cells
    BY <2>4 DEF StubWrite
  <2>6. Holds(cells, Head(b), <<>>) /\ \E R : cells \in Seq(R)
    BY <2>2, WrittenHolds
  <2>7. <<>> \o cells = cells
    BY <2>6, ConcatEmptySeq
  <2>8. reply' = cells /\ cells \in ControlReplies /\ todo' = <<>>
    BY <2>2, <2>3, <2>4, <2>5, <2>7 DEF StubWrite
  <2>9. Fits(b, reply', todo')
    <3>1. Fits(b, <<>>, b)
      BY FitsNothing
    <3>2. Fits(b, <<>> \o cells, After(Head(b), Head(cells).n, ProxyBody, Tail(b)))
      BY <2>3, <2>6, <3>1, FitsWrite
    <3>3. After(Head(b), Head(cells).n, ProxyBody, Tail(b)) = <<>>
      BY <2>3 DEF After
    <3>4. QED
      BY <2>7, <2>8, <3>2, <3>3
  <2>10. ~(~lost /\ ~inbound)
    BY <1>1, <2>1 DEF ControlReplyFits
  <2>11. QED
    BY <1>1, <2>8, <2>9, <2>10 DEF ControlReplyFits, b
<1>4. QED
  BY <1>1, <1>2, <1>3, AnswerGoesOn

(* The stub cannot write: only a control transfer is answered all the same. *)
LEMMA StubWriteFailsStep ==
    ASSUME IpcInv, StubWriteFails
    PROVE  IpcInv'
<1>1. /\ pc = "reply" /\ todo # <<>>
      /\ UNCHANGED <<call, request, inbound, lost, wrong, served>>
  BY DEF StubWriteFails
<1>2. CASE call = "ControlTransfer"
  <2>1. /\ reply' \in {<<>>, <<Cell("length", "bufferData", 1)>>} /\ todo' = <<>>
        /\ clean' = FALSE /\ pc' = "reply"
    BY <1>1, <1>2 DEF StubWriteFails
  <2>2. ControlReplyFits
    BY <1>1, <1>2 DEF IpcInv, ReplyFits
  <2>3. ~(~lost /\ ~inbound)
    BY <1>1, <2>2 DEF ControlReplyFits
  <2>4. reply' \in ControlReplies
    BY <2>1 DEF ControlReplies
  <2>5. ControlReplyFits'
    BY <1>1, <2>1, <2>3, <2>4 DEF ControlReplyFits
  <2>6. QED
    BY <1>1, <1>2, <2>1, <2>5, AnswerGoesOn
<1>3. CASE call # "ControlTransfer"
  <2>1. Return(FALSE) /\ clean' = FALSE
    BY <1>3 DEF StubWriteFails, ReturnFailure
  <2>2. QED
    BY <1>1, <2>1, FailureReturns
<1>4. QED
  BY <1>2, <1>3

(* The proxy begins with the fields that the stub began with. *)
LEMMA StubReturnsStep ==
    ASSUME IpcInv, StubReturns
    PROVE  IpcInv'
<1>1. /\ pc = "reply" /\ todo = <<>> /\ pc' = "answer"
      /\ todo' = IF call = "ControlTransfer" /\ ~inbound THEN <<>> ELSE Proxy[call].reply
      /\ UNCHANGED <<call, request, reply, inbound, lost, wrong, served, clean>>
  BY DEF StubReturns, parcels, history
<1>2. CallType /\ RequestFits /\ LostIsTooShort /\ ReplyFits
  BY DEF IpcInv
<1>3. CallType'
  BY <1>1, <1>2 DEF CallType
<1>4. RequestFits'
  BY <1>1, <1>2 DEF RequestFits
<1>5. LostIsTooShort'
  BY <1>1, <1>2 DEF LostIsTooShort, Plain
<1>6. ReplyFits'
  <2>1. CASE call # "ControlTransfer"
    BY <1>1, <1>2, <2>1 DEF ReplyFits
  <2>2. CASE call = "ControlTransfer"
    <3>1. ControlReplyFits
      BY <1>1, <1>2, <2>2 DEF ReplyFits
    <3>2. Proxy[call].reply = Buffer("bufferData")
      BY <1>2, <2>2, LayoutsKnown DEF CallType, LayoutIsKnown
    <3>3. clean => ~lost
      BY <1>2 DEF CallType
    <3>4. CASE inbound
      <4>1. todo' = Buffer("bufferData") /\ Buffer("bufferData") # <<>>
        BY <1>1, <3>2, <3>4, ControlBuffer
      <4>2. ControlReplyFits'
        BY <1>1, <3>1, <3>4, <4>1 DEF ControlReplyFits
      <4>3. QED
        BY <1>1, <1>2, <4>2 DEF ReplyFits
    <3>5. CASE ~inbound
      <4>1. todo' = <<>>
        BY <1>1, <2>2, <3>5
      <4>2. reply = <<>> \/ lost
        BY <1>1, <3>1, <3>5 DEF ControlReplyFits
      <4>3. Fits(<<>>, <<>>, <<>>)
        BY FitsNothing
      <4>4. ControlReplyFits'
        BY <1>1, <3>1, <3>3, <4>1, <4>2, <4>3 DEF ControlReplyFits
      <4>5. QED
        BY <1>1, <1>2, <4>4 DEF ReplyFits
    <3>6. QED
      BY <3>4, <3>5
  <2>3. QED
    BY <2>1, <2>2
<1>7. OkMeansAnswered' /\ CleanCallsSucceed'
  BY <1>1 DEF OkMeansAnswered, CleanCallsSucceed
<1>8. QED
  BY <1>3, <1>4, <1>5, <1>6, <1>7 DEF IpcInv

(* The proxy reads of a control transfer's answer all or nothing. *)
LEMMA ControlRead ==
    ASSUME NEW s \in ControlReplies, NEW got \in Read(s, Head(Buffer("bufferData"))), got.ok
    PROVE  got.right /\ got.rest = <<>>
<1> DEFINE f == Head(Buffer("bufferData"))
<1>1. f.kind = "buffer" /\ f.name = "bufferData"
  BY ControlBuffer
<1> HIDE DEF f
<1>2. got # Failed
  BY DEF Failed
<1>3. s # <<>> /\ got \in ReadBuffer(s, f)
  BY <1>1, <1>2 DEF Read, f
<1>4. ASSUME NEW rest
      PROVE  Got(TRUE, rest).right = TRUE /\ Got(TRUE, rest).rest = rest
  BY DEF Got
<1>5. ASSUME NEW k, NEW n
      PROVE  LET c == Cell(k, "bufferData", n) IN c.kind = k /\ c.name = "bufferData" /\ c.n = n
  BY DEF Cell
<1>6. CASE s = <<Cell("length", "bufferData", 0)>>
  <2> DEFINE c == Cell("length", "bufferData", 0)
  <2>1. c.kind = "length" /\ c.name = "bufferData" /\ c.n = 0
    BY <1>5
  <2> HIDE DEF c
  <2>2. Head(<<c>>) = c /\ Tail(<<c>>) = <<>>
    OBVIOUS
  <2>3. Head(s) = c /\ Tail(s) = <<>>
    BY <1>6, <2>2 DEF c
  <2>4. got = Got(TRUE, <<>>)
    BY <1>1, <1>3, <2>1, <2>3 DEF ReadBuffer
  <2>5. QED
    BY <1>4, <2>4
<1>7. CASE s = <<Cell("length", "bufferData", 1)>>
  <2> DEFINE c == Cell("length", "bufferData", 1)
  <2>1. c.kind = "length" /\ c.n # 0
    BY <1>5
  <2> HIDE DEF c
  <2>2. Head(<<c>>) = c /\ Tail(<<c>>) = <<>>
    OBVIOUS
  <2>3. Head(s) = c /\ Tail(s) = <<>>
    BY <1>7, <2>2 DEF c
  <2>4. got = Failed
    BY <1>3, <2>1, <2>3 DEF ReadBuffer
  <2>5. QED
    BY <1>2, <2>4
<1>8. CASE s = <<Cell("length", "bufferData", 1), Cell("bytes", "bufferData", 0)>>
  <2> DEFINE c == Cell("length", "bufferData", 1)
             b == Cell("bytes", "bufferData", 0)
  <2>1. c.kind = "length" /\ c.name = "bufferData" /\ c.n # 0
    BY <1>5
  <2> HIDE DEF c, b
  <2>2. Head(<<c, b>>) = c /\ Tail(<<c, b>>) = <<b>> /\ <<b>> # <<>> /\ Tail(<<b>>) = <<>>
    OBVIOUS
  <2>3. Head(s) = c /\ Tail(s) # <<>> /\ Tail(Tail(s)) = <<>>
    BY <1>8, <2>2 DEF c, b
  <2>4. got = Got(TRUE, <<>>)
    BY <1>1, <1>3, <2>1, <2>3 DEF ReadBuffer
  <2>5. QED
    BY <1>4, <2>4
<1>9. QED
  BY <1>3, <1>6, <1>7, <1>8 DEF ControlReplies

(* A step of the proxy within the answer. *)
LEMMA ReadingGoesOn ==
    ASSUME IpcInv, pc = "answer", pc' = "answer",
           UNCHANGED <<call, request, inbound, lost, wrong, served, clean>>,
           call # "ControlTransfer" => Fits(todo', reply', <<>>),
           call = "ControlTransfer" => ControlReplyFits'
    PROVE  IpcInv'
<1>1. CallType'
  BY DEF IpcInv, CallType
<1>2. RequestFits'
  BY DEF IpcInv, RequestFits
<1>3. LostIsTooShort'
  BY DEF IpcInv, LostIsTooShort, Plain
<1>4. ReplyFits'
  BY DEF IpcInv, ReplyFits
<1>5. OkMeansAnswered' /\ CleanCallsSucceed'
  BY DEF OkMeansAnswered, CleanCallsSucceed
<1>6. QED
  BY <1>1, <1>2, <1>3, <1>4, <1>5 DEF IpcInv

(* The proxy reads what was answered. *)
LEMMA ProxyReadStep ==
    ASSUME IpcInv, ProxyRead
    PROVE  IpcInv'
<1>1. /\ pc = "answer" /\ todo # <<>>
      /\ UNCHANGED <<call, request, inbound, lost, served, clean>>
  BY DEF ProxyRead
<1>2. PICK got \in Read(reply, Head(todo)) :
        IF got.ok \/ ReplyUnchecked(Head(todo))
        THEN /\ reply' = got.rest
             /\ todo' = IF got.ok THEN After(Head(todo), Head(reply).n, ProxyBody, Tail(todo)) ELSE Tail(todo)
             /\ wrong' = IF got.right THEN wrong ELSE wrong \cup {"reply"}
             /\ UNCHANGED <<pc, ok>>
        ELSE Return(FALSE) /\ UNCHANGED <<reply, wrong>>
  BY DEF ProxyRead
<1>3. ASSUME Fits(todo, reply, <<>>)
      PROVE  /\ got.ok /\ got.right
             /\ Fits(After(Head(todo), Head(reply).n, ProxyBody, Tail(todo)), got.rest, <<>>)
  <2>1. PICK rest :
          /\ Holds(reply, Head(todo), rest)
          /\ Fits(After(Head(todo), Head(reply).n, ProxyBody, Tail(todo)), rest, <<>>)
    BY <1>1, <1>3, FitsHead
  <2>2. got.ok = TRUE /\ got.right = TRUE /\ got.rest = rest
    BY <2>1, HoldsRead
  <2>3. QED
    BY <2>1, <2>2
<1>4. CASE call # "ControlTransfer"
  <2>1. Fits(todo, reply, <<>>)
    BY <1>1, <1>4 DEF IpcInv, ReplyFits
  <2>2. /\ reply' = got.rest /\ todo' = After(Head(todo), Head(reply).n, ProxyBody, Tail(todo))
        /\ wrong' = wrong /\ pc' = "answer"
    BY <1>1, <1>2, <1>3, <2>1
  <2>3. Fits(todo', reply', <<>>)
    BY <1>3, <2>1, <2>2
  <2>4. QED
    BY <1>1, <1>4, <2>2, <2>3, ReadingGoesOn
<1>5. CASE call = "ControlTransfer"
  <2>1. ControlReplyFits
    BY <1>1, <1>5 DEF IpcInv, ReplyFits
  <2> DEFINE b == Buffer("bufferData")
  <2>2. todo = b /\ reply \in ControlReplies
    BY <1>1, <2>1 DEF ControlReplyFits
  <2>3. Head(b).kind = "buffer" /\ Tail(b) = <<>>
    BY ControlBuffer
  <2>4. CASE got.ok
    <3>1. got.right /\ got.rest = <<>>
      BY <1>2, <2>2, <2>4, ControlRead
    <3>2. After(Head(b), Head(reply).n, ProxyBody, Tail(b)) = <<>>
      BY <2>3 DEF After
    <3>3. reply' = <<>> /\ todo' = <<>> /\ wrong' = wrong /\ pc' = "answer"
      BY <1>1, <1>2, <2>2, <2>4, <3>1, <3>2
    <3>4. Fits(<<>>, <<>>, <<>>)
      BY FitsNothing
    <3>5. <<>> \in ControlReplies
      BY DEF ControlReplies
    <3>6. ControlReplyFits'
      BY <3>3, <3>4, <3>5 DEF ControlReplyFits
    <3>7. QED
      BY <1>1, <1>5, <3>3, <3>6, ReadingGoesOn
  <2>5. CASE ~got.ok
    <3>1. ~ReplyUnchecked(Head(todo))
      BY <1>5 DEF ReplyUnchecked
    <3>2. Return(FALSE) /\ UNCHANGED <<reply, wrong>>
      BY <1>2, <2>5, <3>1
    <3>3. ~clean
      BY <1>1, <1>3, <2>1, <2>5 DEF ControlReplyFits
    <3>4. QED
      BY <1>1, <3>2, <3>3, FailureReturns
  <2>6. QED
    BY <2>4, <2>5
<1>6. QED
  BY <1>4, <1>5

(* The proxy has read all that was answered. *)
LEMMA ProxyReturnsStep ==
    ASSUME IpcInv, ProxyReturns
    PROVE  IpcInv'
<1>1. /\ pc = "answer" /\ todo = <<>> /\ pc' = "returned" /\ ok' = TRUE
      /\ UNCHANGED <<call, request, reply, inbound, lost, wrong, served, clean>>
  BY DEF ProxyReturns, Return, parcels, history
<1>2. served /\ "reply" \notin wrong
  BY <1>1 DEF IpcInv, CallType, ReplyFits
<1>3. reply = <<>> \/ lost
  <2>1. CASE call = "ControlTransfer"
    BY <1>1, <2>1 DEF IpcInv, ReplyFits, ControlReplyFits
  <2>2. CASE call # "ControlTransfer"
    <3>1. Fits(<<>>, reply, <<>>)
      BY <1>1, <2>2 DEF IpcInv, ReplyFits
    <3>2. QED
      BY <3>1, FitsHead
  <2>3. QED
    BY <2>1, <2>2
<1>4. OkMeansAnswered' /\ CleanCallsSucceed'
  BY <1>1, <1>2, <1>3 DEF OkMeansAnswered, CleanCallsSucceed
<1>5. CallType'
  BY <1>1 DEF IpcInv, CallType
<1>6. RequestFits'
  BY <1>1 DEF IpcInv, RequestFits
<1>7. LostIsTooShort'
  BY <1>1 DEF IpcInv, LostIsTooShort, Plain
<1>8. ReplyFits'
  BY <1>1 DEF IpcInv, ReplyFits
<1>9. QED
  BY <1>4, <1>5, <1>6, <1>7, <1>8 DEF IpcInv

-----------------------------------------------------------------------------
(* The theorems *)

(* IpcInv holds before the first call. *)
LEMMA InitHolds == Init => IpcInv
<1> SUFFICES ASSUME Init PROVE IpcInv
  OBVIOUS
<1>1. "Close" \in Calls
  <2>1. "Close" \in DOMAIN ProxyRequests
    BY DEF ProxyRequests
  <2>2. QED
    BY <2>1 DEF Calls, Proxy, Merge
<1>2. <<>> \in Seq(RequestCell)
  BY EmptySeq
<1>3. CallType
  BY <1>1, <1>2 DEF Init, CallType
<1>4. RequestFits /\ LostIsTooShort /\ ReplyFits
  BY DEF Init, RequestFits, LostIsTooShort, ReplyFits
<1>5. OkMeansAnswered /\ CleanCallsSucceed
  BY DEF Init, OkMeansAnswered, CleanCallsSucceed
<1>6. QED
  BY <1>3, <1>4, <1>5 DEF IpcInv

(* Every step keeps IpcInv. *)
LEMMA StepHolds == IpcInv /\ [Next]_vars => IpcInv'
<1> SUFFICES ASSUME IpcInv, [Next]_vars PROVE IpcInv'
  OBVIOUS
<1>1. CASE \E c \in Calls : Begin(c)
  BY <1>1, BeginStep
<1>2. CASE BeginFails
  <2>1. Return(FALSE) /\ clean' = FALSE /\ UNCHANGED <<call, request, lost, wrong, served>>
    BY <1>2 DEF BeginFails, ReturnFailure, parcels
  <2>2. QED
    BY <2>1, FailureReturns
<1>3. CASE ProxyWrite
  BY <1>3, ProxyWriteStep
<1>4. CASE ProxyWriteFails
  BY <1>4, ProxyWriteFailsStep
<1>5. CASE SendRequest
  BY <1>5, SendRequestStep
<1>6. CASE SendRequestFails
  <2>1. Return(FALSE) /\ clean' = FALSE /\ UNCHANGED <<call, request, lost, wrong, served>>
    BY <1>6 DEF SendRequestFails, ReturnFailure, parcels
  <2>2. QED
    BY <2>1, FailureReturns
<1>7. CASE StubRead
  BY <1>7, StubReadStep
<1>8. CASE StubExecute
  BY <1>8, StubExecuteStep
<1>9. CASE StubExecuteFails
  <2>1. Return(FALSE) /\ clean' = FALSE /\ UNCHANGED <<call, request, lost, wrong, served>>
    BY <1>9 DEF StubExecuteFails, ReturnFailure, parcels
  <2>2. QED
    BY <2>1, FailureReturns
<1>10. CASE StubWrite
  BY <1>10, StubWriteStep
<1>11. CASE StubWriteFails
  BY <1>11, StubWriteFailsStep
<1>12. CASE StubReturns
  BY <1>12, StubReturnsStep
<1>13. CASE ProxyRead
  BY <1>13, ProxyReadStep
<1>14. CASE ProxyReturns
  BY <1>14, ProxyReturnsStep
<1>15. CASE UNCHANGED vars
  <2>1. UNCHANGED <<pc, call, todo, request, reply, inbound, lost, wrong, served, clean, ok>>
    BY <1>15 DEF vars, parcels, history
  <2>2. CallType' /\ RequestFits' /\ LostIsTooShort'
    BY <2>1 DEF IpcInv, CallType, RequestFits, LostIsTooShort, Plain
  <2>3. ReplyFits'
    BY <2>1 DEF IpcInv, ReplyFits, ControlReplyFits
  <2>4. OkMeansAnswered' /\ CleanCallsSucceed'
    BY <2>1 DEF IpcInv, OkMeansAnswered, CleanCallsSucceed
  <2>5. QED
    BY <2>2, <2>3, <2>4 DEF IpcInv
<1>16. QED
  BY <1>1, <1>2, <1>3, <1>4, <1>5, <1>6, <1>7, <1>8, <1>9, <1>10, <1>11, <1>12, <1>13, <1>14, <1>15 DEF Next

(* Between proxy and stub, requests and replies fit the layout of the call *)
(* at every moment, or a request is known to be too short.                 *)
THEOREM IpcInvariance == Spec => []IpcInv
<1>1. QED
  BY InitHolds, StepHolds, PTL DEF Spec

(* The service is served the arguments the client gave, for every call and *)
(* however many items a reply holds: a lost SetDeviceMessage leaves a      *)
(* plain request too short to be read.                                     *)
THEOREM ArgumentsArrive == Spec => []ServedAsAsked
<1>1. IpcInv => ServedAsAsked
  <2> SUFFICES ASSUME IpcInv, served, "request" \in wrong
               PROVE  /\ lost
                      /\ \/ call = "RegBulkCallback"
                         \/ \E i \in DOMAIN Proxy[call].request : Proxy[call].request[i].kind = "buffer"
    BY DEF ServedAsAsked
  <2>1. lost
    BY DEF IpcInv, RequestFits
  <2>2. ~Plain(call)
    BY <2>1 DEF IpcInv, LostIsTooShort
  <2>3. LayoutIsKnown(call, Proxy[call])
    BY LayoutsKnown DEF IpcInv, CallType
  <2>4. QED
    BY <2>1, <2>2, <2>3 DEF LayoutIsKnown, Plain, HasBuffer
<1>2. QED
  BY <1>1, IpcInvariance, PTL

(* UEC_OK means an answer that was read to its end as it was written,      *)
(* whatever the sizes of the lists in it.                                  *)
THEOREM OkIsAnswered == Spec => []OkMeansAnswered
<1>1. IpcInv => OkMeansAnswered
  BY DEF IpcInv
<1>2. QED
  BY <1>1, IpcInvariance, PTL

(* A call that nothing outside proxy and stub disturbs succeeds, whatever  *)
(* the sizes of buffers and lists.                                         *)
THEOREM CleanIsOk == Spec => []CleanCallsSucceed
<1>1. IpcInv => CleanCallsSucceed
  BY DEF IpcInv
<1>2. QED
  BY <1>1, IpcInvariance, PTL
=============================================================================
