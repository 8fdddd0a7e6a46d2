---------------------------- MODULE MCLogCapture ----------------------------
(* LogCapture on two lines, one event and a ring of two records; LogText  *)
(* on lines that are well formed or wrong in one place.                   *)
EXTENDS LogCapture

LOCAL INSTANCE SequencesExt

CONSTANTS a, b, e, incident

TwoLines == {a, b}
OneError == {b}
OneEvent == {e}
Everything == {a, b, e, incident}
NoLines == {}

Texts == {<<>>, <<"x">>, <<"x", ":", Blank, "x">>}
SomeParts ==
  [colour : {<<>>, <<"colour">>},
   uptime : {<<Digit>>, <<Digit, Digit>>},
   tag : {<<"x">>, <<"x", ":", "x", Blank>>, <<Letter, Blank, "(">>},
   message : Texts,
   reset : {<<>>, <<NoColour>>},
   newlines : {<<>>, <<Newline>>, <<Newline, Newline>>}]

\* One character replaced, left out, or all of them as they are.
Damage == {"none", "gone"} \cup Characters
Damaged(text, i, how) ==
  IF how = "none" \/ i > Len(text) THEN text
  ELSE IF how = "gone" THEN RemoveAt(text, i) ELSE ReplaceAt(text, i, how)
SomeLines == {Damaged(Line(p), i, how) : p \in SomeParts, i \in 1 .. 21, how \in Damage}

TheSymbols == {"s", "t", "x", "*"}
ShortMessages == SeqOf(TheSymbols \ {"*"}, MessageRoom)
Secrets ==
  {<<"s">>, <<"s", "t">>, <<"s", "s", "s">>, <<"t", "s", "t">>, <<"s", "t", "s", "x">>, <<"*">>}
SecretOrNone == Secrets \cup {<<>>}
OneOrTwo ==
  {RegisterSecret(RegisterSecret(<<>>, s), t) : s \in SecretOrNone, t \in SecretOrNone}
=============================================================================
