------------------------------ MODULE Codecs ------------------------------
(***************************************************************************)
(* The formats of the driver's fan and keyboard attributes, as the service *)
(* reads and writes them, and the forms of the page, which are filled with *)
(* what was read and send what they hold.                                  *)
(* Source: internal/sysfs/codecs.go and internal/ui/dist/app.js.           *)
(*                                                                         *)
(* The raw text is the sequence of what is between its commas.  A field is *)
(* a number, a colour or neither of them ("no value").  It is "loose" if   *)
(* the number has blanks around it or the colour has a capital letter.     *)
(***************************************************************************)
EXTENDS Integers, Sequences

CONSTANTS
    Colours,  \* texts of six hexadecimal digits
    NoValue   \* any other text

Field(value) == [value |-> value, loose |-> FALSE]

\* The limits of ParseFanSetting, ParseZoneSetting and ParseEffectSetting, in
\* the order of the fields.
Readable(kind) ==
    CASE kind = "fans" -> <<0..100, 0..100>>
      [] kind = "zones" -> <<Colours, Colours, Colours, Colours, 0..100>>
      [] kind = "effect" -> <<0..7, 0..9, 0..100, 0..2, 0..255, 0..255, 0..255>>

Direction == 4

\* Mutant: a speed of 10 is accepted.
WritableSpeedTen(kind) ==
    CASE kind = "fans" -> <<0..100, 0..100>>
      [] kind = "zones" -> <<Colours, Colours, Colours, Colours, 0..100>>
      [] kind = "effect" -> <<0..7, 0..10, 0..100, 1..2, 0..255, 0..255, 0..255>>

\* The limits of the three Validate, which are written down apart.
Writable(kind) ==
    CASE kind = "fans" -> <<0..100, 0..100>>
      [] kind = "zones" -> <<Colours, Colours, Colours, Colours, 0..100>>
      [] kind = "effect" -> <<0..7, 0..9, 0..100, 1..2, 0..255, 0..255, 0..255>>

\* Atoi and isHexColor tell a field's value whether it is loose or not.
Within(fields, limits) ==
    /\ Len(fields) = Len(limits)
    /\ \A i \in DOMAIN limits : fields[i].value \in limits[i]

Parses(kind, raw) == Within(raw, Readable(kind))
Validates(kind, setting) == Within(setting, Writable(kind))

\* What Parse returns: numbers have no blanks, and colours are lowered.
Parsed(raw) == [i \in DOMAIN raw |-> Field(raw[i].value)]

\* String: numbers are written plainly, and colours lowered.
Written(setting) == [i \in DOMAIN setting |-> Field(setting[i].value)]

\* Mutant: the form takes the reported direction as it is.
FormAsRead(kind, setting) == setting

\* renderKeyboard fills the form, which has no choice for direction 0 and
\* shows the first one instead; readZones and readEffect send it.
Form(kind, setting) ==
    IF kind = "effect" /\ setting[Direction].value = 0
      THEN [setting EXCEPT ![Direction] = Field(1)]
      ELSE setting

\* A setting that may be written parses when it is read back, as the setting
\* that was written (Validate and String against Parse).
WrittenIsReadBack(kind, setting) ==
    Validates(kind, setting) =>
      /\ Parses(kind, Written(setting))
      /\ \A i \in DOMAIN setting : Parsed(Written(setting))[i].value = setting[i].value

\* Whatever the driver reports that can be shown, the page's form can send
\* back unchanged and the service accepts it: no report of the hardware
\* leaves the user with a form that is refused (renderKeyboard, readZones,
\* readEffect and Validate).
UntouchedFormIsAccepted(kind, raw) ==
    Parses(kind, raw) => Validates(kind, Form(kind, Parsed(raw)))
=============================================================================
