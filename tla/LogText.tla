------------------------------ MODULE LogText ------------------------------
(***************************************************************************)
(* What the log hook does with a line before it becomes a record: it is    *)
(* taken apart and registered secrets are masked                           *)
(* (components/croniot/src/log/LineParser.cpp, Redactor.h, LogRecord.h).   *)
(* Both functions exist twice: in place, for the hook, which must not      *)
(* allocate, and on strings.                                               *)
(*                                                                         *)
(* Abstractions.  A character is the class the functions tell apart: a     *)
(* level letter, a digit, a blank, "(", ")", ":", a newline or carriage    *)
(* return, any other, and two that stand for an escape sequence each, the  *)
(* one that sets a colour and the one that resets it.                      *)
(***************************************************************************)
EXTENDS Integers, Sequences

LOCAL INSTANCE FiniteSetsExt

CONSTANTS
  TagRoom,     \* kMaxTagLen
  MessageRoom, \* kMaxMessageLen
  Symbols,     \* the characters of a message, the mask's among them
  Parts,       \* bound: what lines of the documented form are made of
  RawLines,    \* bound: the lines that both parsers are given
  Messages,    \* bound: the messages that both redactors are given
  SecretLists  \* bound: the secrets that are registered with them

Letter == "I"
Digit == "0"
Blank == " "
Newline == "n"
NoColour == "reset"
Escapes == {"colour", NoColour}
Characters == {Letter, Digit, Blank, "(", ")", ":", Newline, "x"} \cup Escapes

-----------------------------------------------------------------------------
(* Parsing: "<L> (<uptime>) <tag>: <message>"                              *)

NotALine == [uptime |-> <<>>, tag |-> <<>>, message |-> <<>>]

\* copyTruncated()
Truncated(text, room) == SubSeq(text, 1, IF Len(text) > room THEN room ELSE Len(text))

\* The last character of a text that does not belong to a line's end.
LastOf(text) == Max({0} \cup {i \in 1 .. Len(text) : text[i] # Newline})

\* The first of the characters from one place up to another that is no digit.
DigitsEnd(text, from, to) == Min({i \in from .. to : text[i] # Digit} \cup {to + 1})

IsSeparator(text, i) == text[i] = ":" /\ text[i + 1] = Blank

\* The first separator from one place up to another.
Separators(text, from, to) == {i \in from .. to - 1 : IsSeparator(text, i)}

\* parseEspLogLine(): a copy of the line is made shorter from both ends.
ParseEspLogLine(raw) ==
  LET trimmed == SubSeq(raw, 1, LastOf(raw))
      plain == IF trimmed # <<>> /\ trimmed[Len(trimmed)] = NoColour
               THEN SubSeq(trimmed, 1, Len(trimmed) - 1) ELSE trimmed
      line == IF plain # <<>> /\ Head(plain) \in Escapes THEN Tail(plain) ELSE plain
      close == DigitsEnd(line, 4, Len(line))
      seps == Separators(line, close + 2, Len(line))
      colon == Min(seps)
  IN  IF /\ Len(line) > close /\ SubSeq(line, 1, 3) = <<Letter, Blank, "(">>
         /\ close > 4 /\ line[close] = ")" /\ line[close + 1] = Blank
         /\ seps # {} /\ close + 2 \notin seps
      THEN [uptime |-> SubSeq(line, 4, close - 1), tag |-> SubSeq(line, close + 2, colon - 1),
            message |-> SubSeq(line, colon + 2, Len(line))]
      ELSE NotALine

\* parseEspLogLineFast(): the line stays where it is, between start and end.
ParseEspLogLineFast(buf) ==
  LET last == LastOf(buf)
      end == IF last > 0 /\ buf[last] = NoColour THEN last - 1 ELSE last
      start == IF end > 0 /\ buf[1] \in Escapes THEN 2 ELSE 1
      close == DigitsEnd(buf, start + 3, end)
      seps == Separators(buf, close + 2, end)
      colon == Min(seps)
  IN  IF /\ end > close /\ buf[start] = Letter /\ buf[start + 1] = Blank /\ buf[start + 2] = "("
         /\ close > start + 3 /\ buf[close] = ")" /\ buf[close + 1] = Blank
         /\ seps # {} /\ close + 2 \notin seps
      THEN [uptime |-> SubSeq(buf, start + 3, close - 1),
            tag |-> Truncated(SubSeq(buf, close + 2, colon - 1), TagRoom),
            message |-> Truncated(SubSeq(buf, colon + 2, end), MessageRoom)]
      ELSE NotALine

-----------------------------------------------------------------------------
(* Masking                                                                 *)

Mask == <<"*", "*", "*">>

\* registerSecret()
RegisterSecret(secrets, secret) ==
  IF secret = <<>> \/ \E i \in 1 .. Len(secrets) : secrets[i] = secret THEN secrets
  ELSE Append(secrets, secret)

IsAt(text, i, secret) == SubSeq(text, i, i + Len(secret) - 1) = secret

\* What is put over the secret at one place.
Masked(text, i, secret, mask) ==
  SubSeq(text, 1, i - 1) \o mask \o SubSeq(text, i + Len(secret), Len(text))

\* redact(): the search for one secret goes on after the mask of the occurrence before.
Occurrences(at, secret) ==
  {i \in at.pos .. Len(at.text) - Len(secret) + 1 : IsAt(at.text, i, secret)}
Searched(at, secret) ==
  LET first == Min(Occurrences(at, secret))
  IN  IF Occurrences(at, secret) = {} THEN at
      ELSE [text |-> Masked(at.text, first, secret, Mask), pos |-> first + Len(Mask)]

\* redactInPlace(): a mask longer than its secret takes no more than there is room for.
WholeMask(text, secret) == Mask
MaskFor(text, secret) ==
  LET available == MessageRoom - Len(text)
      growth == Len(Mask) - Len(secret)
  IN  IF growth > available THEN SubSeq(Mask, 1, Len(secret) + available) ELSE Mask
Scanned(at, secret) ==
  LET mask == MaskFor(at.text, secret)
  IN  IF at.pos + Len(secret) - 1 > Len(at.text) THEN at
      ELSE IF IsAt(at.text, at.pos, secret)
      THEN [text |-> Masked(at.text, at.pos, secret, mask), pos |-> at.pos + Len(mask)]
      ELSE [at EXCEPT !.pos = @ + 1]

\* One secret: both loops are over when the text has been gone through.
Redacted(text, secret) ==
  LET run[n \in 0 .. Len(text)] ==
        IF n = 0 THEN [text |-> text, pos |-> 1] ELSE Searched(run[n - 1], secret)
  IN  run[Len(text)].text
RedactedInPlace(text, secret) ==
  LET run[n \in 0 .. Len(text)] ==
        IF n = 0 THEN [text |-> text, pos |-> 1] ELSE Scanned(run[n - 1], secret)
  IN  run[Len(text)].text

\* All of them, one after the other.
Redact(text, secrets) ==
  LET done[k \in 0 .. Len(secrets)] ==
        IF k = 0 THEN text ELSE Redacted(done[k - 1], secrets[k])
  IN  done[Len(secrets)]
RedactInPlace(text, secrets) ==
  LET done[k \in 0 .. Len(secrets)] ==
        IF k = 0 THEN text ELSE RedactedInPlace(done[k - 1], secrets[k])
  IN  done[Len(secrets)]

-----------------------------------------------------------------------------
(* What they are given                                                     *)

\* A line of the documented form.
Line(p) ==
  p.colour \o <<Letter, Blank, "(">> \o p.uptime \o <<")", Blank>> \o p.tag \o <<":", Blank>>
    \o p.message \o p.reset \o p.newlines

\* The tag ends at the first separator, the message before a colour that is reset.
IsWellFormed(p) ==
  /\ p.colour \in {<<>>} \cup {<<c>> : c \in Escapes}
  /\ p.uptime \in Seq({Digit}) /\ p.uptime # <<>>
  /\ p.tag \in Seq(Characters) /\ p.tag # <<>>
  /\ \A i \in 1 .. Len(p.tag) - 1 : ~IsSeparator(p.tag, i)
  /\ p.message \in Seq(Characters)
  /\ \/ p.reset = <<NoColour>>
     \/ p.reset = <<>> /\ (p.message # <<>> => p.message[Len(p.message)] \notin {Newline, NoColour})
  /\ p.newlines \in Seq({Newline})

\* What registerSecret() takes.
IsSecret(secret) == secret \in Seq(Symbols) /\ secret # <<>>

ASSUME LogTextAssumption ==
  /\ TagRoom \in Nat \ {0} /\ MessageRoom \in Nat \ {0}
  /\ "*" \in Symbols
  /\ \A p \in Parts : IsWellFormed(p)
  /\ RawLines \subseteq Seq(Characters)
  /\ \A message \in Messages : message \in Seq(Symbols) /\ Len(message) <= MessageRoom
  /\ \A secrets \in SecretLists :
       secrets \in Seq(Seq(Symbols)) /\ \A i \in 1 .. Len(secrets) : IsSecret(secrets[i])

-----------------------------------------------------------------------------
(* The property                                                            *)

LinesAreReadBack ==
  \A p \in Parts :
    ParseEspLogLine(Line(p)) = [uptime |-> p.uptime, tag |-> p.tag, message |-> p.message]

ParsersAgree ==
  \A line \in RawLines :
    LET parsed == ParseEspLogLine(line)
    IN  ParseEspLogLineFast(line) =
          [parsed EXCEPT !.tag = Truncated(@, TagRoom), !.message = Truncated(@, MessageRoom)]

\* A mask cannot be taken for part of the secret.
IsUnlikeMask(secret) == \A k \in 1 .. Len(secret) : secret[k] # "*"

\* No occurrence of a secret is left.
Hides(text, secret) == \A i \in 1 .. Len(text) - Len(secret) + 1 : ~IsAt(text, i, secret)

RedactorsAgree ==
  \A message \in Messages, secrets \in SecretLists :
    LET inPlace == RedactInPlace(message, secrets)
    IN  /\ Len(inPlace) <= MessageRoom
        /\ (\A i \in 1 .. Len(secrets) : Len(secrets[i]) >= Len(Mask))
             => inPlace = Redact(message, secrets)
        /\ \A i \in 1 .. Len(secrets) : IsUnlikeMask(secrets[i]) => Hides(inPlace, secrets[i])

\* The three together.
HotPathAgrees == LinesAreReadBack /\ ParsersAgree /\ RedactorsAgree
=============================================================================
