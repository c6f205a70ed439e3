----------------------------- MODULE MCInputs -----------------------------
(* Every input of the functions without state, near each of their limits,  *)
(* as a state of its own.  A setting is taken at its limits and just       *)
(* beyond them, one field of a keyboard effect or two of them at a time.   *)
EXTENDS Integers, Sequences, FiniteSets

CONSTANTS blue, NoValue, Gap, Root, Bar, Nonce, Second, MinRunes, MaxBytes

\* A number, and what base64 gives, is written without the separator; no name
\* in a directory is nothing.
ASSUME InputsAssumption ==
    /\ Gap # "." /\ Gap # ".."
    /\ Bar \notin Int /\ Nonce # Bar
    /\ Second \in Nat \ {0}
    /\ MinRunes \in Nat /\ MaxBytes \in Nat

\* A backslash is a character of a name on the system the service runs on.
Bare(segment) ==
    CASE segment = "\\" -> Gap
      [] segment = "\\.." -> ".."
      [] segment = "\\class" -> "class"
      [] OTHER -> segment

Codec == INSTANCE Codecs WITH Colours <- {blue}
Path == INSTANCE SysfsPath
Login == INSTANCE Auth
Bind == INSTANCE BindConfig

MCRoot == <<"host", "sys">>

VARIABLES kind, input

-----------------------------------------------------------------------------

\* The values at and beyond the ends of an interval of numbers, or the texts
\* that are colours and those that are not.
Edges(limit) ==
    IF limit = {blue} THEN {blue, NoValue, 0}
    ELSE LET top == CHOOSE n \in limit : n + 1 \notin limit
         IN {-1, 0, 1, top, top + 1, NoValue}

\* A plain setting with up to two fields elsewhere.
Plain(k) == [i \in DOMAIN Codec!Readable(k) |->
               Codec!Field(IF Codec!Readable(k)[i] = {blue} THEN blue ELSE 1)]
Varied(k) ==
    LET limits == Codec!Readable(k)
        Fields(i) == [value : Edges(limits[i]), loose : BOOLEAN] IN
    {[Plain(k) EXCEPT ![i] = f, ![j] = g] : i \in DOMAIN limits, j \in DOMAIN limits,
       f \in UNION {Fields(n) : n \in DOMAIN limits}, g \in UNION {Fields(n) : n \in DOMAIN limits}}
    \cup {SubSeq(Plain(k), 1, Len(limits) - 1), Plain(k) \o Plain(k)}

Segments == {Gap, ".", "..", "class", "hwmon", "\\", "\\..", "\\class"}
Paths == UNION {[1..n -> Segments] : n \in 0..5}

Names == UNION {[1..n -> {"admin", Bar}] : n \in 0..3}
Issuers == [username : Names, secret : {"old", "new"}, lifetime : {60 * Second - 2, 60 * Second, 120 * Second}]

\* Around the end of a lifetime that begins at either part of a second.
Uses ==
    {<<i, c, t, t + i.lifetime + d>> :
       i \in Issuers, c \in [username : Names, secret : {"new"}, lifetime : {60 * Second}],
       t \in 0..1, d \in {-120, -3, -2, -1, 0, 1, 2}}

\* Texts of one to four bytes to the rune, about as long as the limits.
Lengths == {[runes |-> r, bytes |-> r * b + x] :
              r \in {0, 1, 3, 11, 12, 13, 256, 257, 342, 1023, 1024, 1025},
              b \in 1..3, x \in 0..1}

Init ==
    \/ /\ kind \in {"fans", "zones", "effect"}
       /\ input \in Varied(kind)
    \/ kind = "path" /\ input \in Paths
    \/ kind = "session" /\ input \in Uses
    \/ kind = "password" /\ input \in {p \in Lengths : p.bytes \in p.runes..(4 * p.runes)}
    \/ kind = "config" /\ input \in Bind!Environment

\* An input is looked at once.
Next == UNCHANGED <<kind, input>>

Spec == Init /\ [][Next]_<<kind, input>>

-----------------------------------------------------------------------------

IsSetting == kind \in {"fans", "zones", "effect"}

\* What is written reads back: codecs.go.
WrittenIsReadBack == IsSetting => Codec!WrittenIsReadBack(kind, input)

\* What the driver reports can be sent back: codecs.go and the page's forms.
UntouchedFormIsAccepted == IsSetting => Codec!UntouchedFormIsAccepted(kind, input)

\* Every path of the controller stays below the root: resolve.
InsideRoot == kind = "path" => Path!InsideRoot(input)

\* A session ends with its lifetime, not before and not after: auth.go.
SessionLasts ==
    kind = "session" => Login!SessionLasts(input[1], input[2], input[3], input[4])

\* What the policy for passwords allows can be hashed: auth.go, credentials.go.
PolicyCoversHash == kind = "password" => Login!PolicyCoversHash(input)

\* The combinations of bind address, TLS and switches: loadConfig.
ExposedOnlyAsAsked == kind = "config" => Bind!ExposedOnlyAsAsked(input)
=============================================================================
