--------------------------- MODULE CodecsProofs ---------------------------
(***************************************************************************)
(* Theorems about Codecs: the two properties for every text and setting,   *)
(* not only for those near the limits.                                     *)
(***************************************************************************)
EXTENDS Codecs, TLAPS

Kinds == {"fans", "zones", "effect"}

\* A sequence of fields whose values are from V.
Settings(V) == Seq([value : V, loose : BOOLEAN])

\* What may be written lies in what can be read, field by field.
LEMMA WritableIsReadable ==
  ASSUME NEW kind \in Kinds
  PROVE  /\ Len(Writable(kind)) = Len(Readable(kind))
         /\ DOMAIN Writable(kind) = 1..Len(Writable(kind))
         /\ DOMAIN Readable(kind) = 1..Len(Readable(kind))
         /\ Len(Readable(kind)) \in Nat
         /\ \A i \in DOMAIN Readable(kind) : Writable(kind)[i] \subseteq Readable(kind)[i]
<1>1. CASE kind = "fans"
  BY <1>1 DEF Writable, Readable
<1>2. CASE kind = "zones"
  BY <1>2 DEF Writable, Readable
<1>3. CASE kind = "effect"
  BY <1>3 DEF Writable, Readable
<1> QED BY <1>1, <1>2, <1>3 DEF Kinds

\* Parsing and writing leave the values of the fields alone.
LEMMA ValuesAreKept ==
  ASSUME NEW V, NEW s \in Settings(V)
  PROVE  /\ Len(Written(s)) = Len(s) /\ DOMAIN Written(s) = DOMAIN s
         /\ Len(Parsed(s)) = Len(s) /\ DOMAIN Parsed(s) = DOMAIN s
         /\ \A i \in DOMAIN s : Written(s)[i].value = s[i].value /\ Parsed(s)[i].value = s[i].value
         /\ Written(s) \in Settings(V) /\ Parsed(s) \in Settings(V)
<1>1. DOMAIN s = 1..Len(s) /\ Len(s) \in Nat
  BY DEF Settings
<1>2. \A i \in DOMAIN s : s[i].value \in V
  <2> DEFINE S == [value : V, loose : BOOLEAN]
  <2>1. \A r \in S : r.value \in V
    OBVIOUS
  <2>2. s \in Seq(S)
    BY DEF Settings
  <2> HIDE DEF S
  <2> QED BY <1>1, <2>1, <2>2
<1> DEFINE kept == [i \in 1..Len(s) |-> Field(s[i].value)]
<1>3. Written(s) = kept /\ Parsed(s) = kept
  BY <1>1 DEF Written, Parsed
<1>4. \A i \in 1..Len(s) : Field(s[i].value) \in [value : V, loose : BOOLEAN]
  BY <1>1, <1>2 DEF Field
<1>5. kept \in Settings(V) /\ Len(kept) = Len(s) /\ DOMAIN kept = 1..Len(s)
  <2>1. kept \in [1..Len(s) -> [value : V, loose : BOOLEAN]]
    BY <1>4
  <2> HIDE DEF kept
  <2> QED BY <1>1, <2>1 DEF Settings
<1>6. \A i \in 1..Len(s) : kept[i].value = s[i].value
  BY DEF Field
<1> HIDE DEF kept
<1> QED BY <1>1, <1>3, <1>5, <1>6

\* Whatever setting a handler validates and writes, the text it writes parses
\* to the values of the setting (Validate, String and Parse).
THEOREM SettingsReadBack ==
  ASSUME NEW V, NEW kind \in Kinds, NEW setting \in Settings(V)
  PROVE  WrittenIsReadBack(kind, setting)
<1> SUFFICES ASSUME Validates(kind, setting)
             PROVE  /\ Parses(kind, Written(setting))
                    /\ \A i \in DOMAIN setting :
                         Parsed(Written(setting))[i].value = setting[i].value
  BY DEF WrittenIsReadBack
<1>1. Parses(kind, Written(setting))
  <2>1. Len(setting) = Len(Readable(kind)) /\ DOMAIN setting = DOMAIN Readable(kind)
    BY WritableIsReadable DEF Validates, Within, Settings
  <2>2. \A i \in DOMAIN Readable(kind) : setting[i].value \in Readable(kind)[i]
    BY WritableIsReadable DEF Validates, Within
  <2> QED BY <2>1, <2>2, ValuesAreKept DEF Parses, Within
<1>2. \A i \in DOMAIN setting : Parsed(Written(setting))[i].value = setting[i].value
  BY ValuesAreKept
<1> QED BY <1>1, <1>2

\* Whatever text the driver reports that can be parsed, the page's form can be
\* sent back as it was filled (renderKeyboard, readZones, readEffect, Validate).
THEOREM ReportsCanBeSentBack ==
  ASSUME NEW V, NEW kind \in Kinds, NEW raw \in Settings(V)
  PROVE  UntouchedFormIsAccepted(kind, raw)
<1> SUFFICES ASSUME Parses(kind, raw) PROVE Validates(kind, Form(kind, Parsed(raw)))
  BY DEF UntouchedFormIsAccepted
<1> DEFINE read == Parsed(raw)
<1>1. /\ Len(read) = Len(Readable(kind)) /\ DOMAIN read = 1..Len(read) /\ Len(read) \in Nat
      /\ \A i \in DOMAIN Readable(kind) : read[i].value \in Readable(kind)[i]
  <2>1. /\ Len(read) = Len(raw) /\ DOMAIN read = DOMAIN raw /\ read \in Settings(V)
        /\ \A i \in DOMAIN raw : read[i].value = raw[i].value
    BY ValuesAreKept
  <2> HIDE DEF read
  <2>2. DOMAIN read = 1..Len(read) /\ Len(read) \in Nat
    BY <2>1 DEF Settings
  <2>3. /\ Len(raw) = Len(Readable(kind))
        /\ \A i \in DOMAIN Readable(kind) : raw[i].value \in Readable(kind)[i]
    BY DEF Parses, Within
  <2>4. DOMAIN Readable(kind) = DOMAIN raw
    BY <2>1, <2>2, <2>3, WritableIsReadable
  <2> QED BY <2>1, <2>2, <2>3, <2>4
<1> HIDE DEF read
<1>2. CASE kind # "effect"
  <2>1. Writable(kind) = Readable(kind) /\ Form(kind, read) = read
    BY <1>2 DEF Kinds, Writable, Readable, Form
  <2> QED BY <1>1, <2>1 DEF Validates, Within, read
<1>3. CASE kind = "effect"
  <2>1. /\ Len(read) = 7 /\ DOMAIN read = 1..7
        /\ read[1].value \in 0..7 /\ read[2].value \in 0..9 /\ read[3].value \in 0..100
        /\ read[4].value \in 0..2 /\ read[5].value \in 0..255 /\ read[6].value \in 0..255
        /\ read[7].value \in 0..255
    BY <1>1, <1>3 DEF Readable
  <2>2. CASE read[4].value = 0
    <3> DEFINE form == [read EXCEPT ![4] = Field(1)]
    <3>1. Form(kind, read) = form
      BY <1>3, <2>2 DEF Form, Direction
    <3>2. /\ Len(form) = 7 /\ form[4].value = 1
          /\ \A i \in 1..7 : i # 4 => form[i] = read[i]
      <4>1. read \in Settings(V)
        BY ValuesAreKept DEF read
      <4> QED BY <2>1, <4>1 DEF Field, Settings
    <3> HIDE DEF form
    <3>3. Within(form, <<0..7, 0..9, 0..100, 1..2, 0..255, 0..255, 0..255>>)
      BY <2>1, <3>2 DEF Within
    <3> QED BY <1>3, <3>1, <3>3 DEF Validates, Writable, read
  <2>3. CASE read[4].value # 0
    <3>1. Form(kind, read) = read
      BY <2>3 DEF Form, Direction
    <3>2. Within(read, <<0..7, 0..9, 0..100, 1..2, 0..255, 0..255, 0..255>>)
      BY <2>1, <2>3 DEF Within
    <3> QED BY <1>3, <3>1, <3>2 DEF Validates, Writable, read
  <2> QED BY <2>2, <2>3
<1> QED BY <1>2, <1>3
=============================================================================
