------------------------------- MODULE Auth -------------------------------
(***************************************************************************)
(* Session tokens and the rules for passwords.                             *)
(* Source: internal/auth/auth.go and credentials.go.                       *)
(*                                                                         *)
(* A text is a sequence of symbols, one of which is the separator of the   *)
(* payload.  A signature is the key and the text it was made with: HMAC    *)
(* gives the same value for no other.  The length of a password in runes   *)
(* and in bytes differ.  Times are in parts of a second.                   *)
(***************************************************************************)
EXTENDS Integers, SequencesExt

CONSTANTS
    Bar,             \* the separator "|"
    Nonce,           \* the encoded random part of a token
    Second,          \* how many parts a second has
    MinRunes, MaxBytes  \* MinPasswordLength and the longest password

-----------------------------------------------------------------------------
(* Sessions                                                                *)

\* NewSessions, with the secret long enough.
Accepted(username, lifetime) ==
    /\ username # <<>>
    /\ ~Contains(username, Bar)
    /\ lifetime >= 60 * Second

Unix(time) == time \div Second

\* New
Token(sessions, now) ==
    LET payload == sessions.username \o <<Bar, Unix(now + sessions.lifetime), Bar, Nonce>>
    IN [payload |-> payload, signature |-> <<sessions.secret, payload>>]

\* strings.Split of a text: where its fields end, and what is between.
Bars(text) == {n \in 1..Len(text) : text[n] = Bar}
Between(text, m, n) == SubSeq(text, m + 1, n - 1)

\* Mutant: the token is good for the second in which it expires.
ValidateLate(sessions, token, now) ==
    LET text == token.payload IN
    /\ token.signature = <<sessions.secret, text>>
    /\ \E m, n \in Bars(text) :
         /\ m < n /\ Bars(text) = {m, n}
         /\ Between(text, 0, m) = sessions.username
         /\ n = m + 2 /\ Unix(now) <= text[m + 1]
         /\ Between(text, n, Len(text) + 1) = <<Nonce>>

\* Validate: two bars make three fields, the second of them a number.
Validate(sessions, token, now) ==
    LET text == token.payload IN
    /\ token.signature = <<sessions.secret, text>>
    /\ \E m, n \in Bars(text) :
         /\ m < n /\ Bars(text) = {m, n}
         /\ Between(text, 0, m) = sessions.username
         /\ n = m + 2 /\ Unix(now) < text[m + 1]
         /\ Between(text, n, Len(text) + 1) = <<Nonce>>

\* A token is good for a service with the secret and the name of the one that
\* issued it, for its lifetime less at most a second that rounding takes, and
\* never longer, whatever characters an accepted name has (New and Validate).
SessionLasts(issuer, checker, issued, checked) ==
    LET valid == Validate(checker, Token(issuer, issued), checked)
        same == issuer.secret = checker.secret /\ issuer.username = checker.username
        end == issued + issuer.lifetime
    IN Accepted(issuer.username, issuer.lifetime) /\ Accepted(checker.username, checker.lifetime) =>
         /\ valid => same /\ checked < end
         /\ same /\ checked <= end - Second => valid

-----------------------------------------------------------------------------
(* Passwords                                                               *)

\* Mutant: the limits are both in characters.
PolicyAllowsInRunes(password) ==
    /\ password.runes >= MinRunes
    /\ password.runes <= MaxBytes

\* The lengths ValidatePassword wants.
PolicyAllows(password) ==
    /\ password.runes >= MinRunes
    /\ password.bytes <= MaxBytes

\* HashPassword
Hashes(password) == password.bytes \in MinRunes..MaxBytes

\* A password that setup accepts is one it can store (performSetup, which
\* answers 500 if HashPassword refuses what ValidatePassword let through).
PolicyCoversHash(password) == PolicyAllows(password) => Hashes(password)
=============================================================================
