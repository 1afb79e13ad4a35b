---------------------------- MODULE OutputRedactor ----------------------------
(***************************************************************************)
(* The streaming redactor of tool output                                    *)
(* (src/internal/daemon/output_redactor.go).  Output is a sequence of       *)
(* symbols in chunks.  Stage one replaces literal secrets and holds back a  *)
(* tail that may be the start of one; stage two applies the rules of        *)
(* redact_output to the last Overlap symbols and the new ones.  A rule has  *)
(* a pattern of the form (head)tail*, a text and then as many of a set of   *)
(* symbols as there are, and a replacement: a text, alone or, with keep,    *)
(* behind ${1}, which stands for the head.                                  *)
(***************************************************************************)
EXTENDS Integers, Sequences, SequencesExt, FiniteSetsExt

CONSTANTS
  Overlap,     \* defaultRedactionOverlapBytes, 128 in the code
  MinSecret,   \* minSecretRedactLength, 8 in the code
  Redacted     \* the replacement, [REDACTED] in the code

From(s, i) == SubSeq(s, i, Len(s))

(* The scan of s from position i on: what it puts out and what it keeps.    *)
(* Where a match begins, matches[i] symbols long, it puts out put and goes  *)
(* on behind the match; a symbol without a match (matches[i] = 0) is put    *)
(* out; at a position in holds it stops and keeps the rest.                 *)
Scan(s, put, matches, holds) ==
  LET scan[i \in 1 .. Len(s) + 1] ==
        IF i > Len(s) \/ i \in holds THEN [out |-> <<>>, carry |-> From(s, i)]
        ELSE IF matches[i] > 0
        THEN [scan[i + matches[i]] EXCEPT !.out = put \o @]
        ELSE [scan[i + 1] EXCEPT !.out = <<s[i]>> \o @]
  IN scan
-----------------------------------------------------------------------------
(* Stage one.                                                               *)

(* A mutant of IsSecretPrefix: a complete secret is not held back, though a *)
(* longer one begins with it.                                               *)
IsSecretPrefixUnlessSecret(secrets, b) ==
  b \notin secrets /\ \E s \in secrets : IsStrictPrefix(b, s)

IsSecretPrefix(secrets, b) == \E s \in secrets : IsStrictPrefix(b, s)

(* The longest secret that b starts with.                                   *)
MatchSecret(secrets, b) == Max({0} \union {Len(s) : s \in {t \in secrets : IsPrefix(t, b)}})

SecretMatches(secrets, s) == [i \in 1 .. Len(s) |-> MatchSecret(secrets, From(s, i))]

ReplaceSecrets(secrets, s) == Scan(s, <<Redacted>>, SecretMatches(secrets, s), {})[1].out

(* redactSecrets: where the scan meets a tail that is a proper prefix of a  *)
(* secret, the tail is kept for the next chunk.                             *)
RedactSecrets(secrets, carry, data, finalize) ==
  LET buf == carry \o data
      holds == {i \in 1 .. Len(buf) : ~ finalize /\ IsSecretPrefix(secrets, From(buf, i))}
  IN Scan(buf, <<Redacted>>, SecretMatches(secrets, buf), holds)[1]
-----------------------------------------------------------------------------
(* Stage two.                                                               *)

(* The length of rule's match at the start of b, 0 without one.             *)
MatchRule(rule, b) ==
  IF ~ IsPrefix(rule.head, b) THEN 0
  ELSE CHOOSE n \in Len(rule.head) .. Len(b) :
         /\ \A i \in Len(rule.head) + 1 .. n : b[i] \in rule.tail
         /\ n = Len(b) \/ b[n + 1] \notin rule.tail

RuleMatches(rule, s) == [i \in 1 .. Len(s) |-> MatchRule(rule, From(s, i))]

(* The replacement, expanded.                                               *)
Expand(rule) == IF rule.keep THEN rule.head \o rule.text ELSE rule.text

ReplaceRule(rule, s) == Scan(s, Expand(rule), RuleMatches(rule, s), {})[1].out

(* The rules one after the other.                                           *)
ApplyRules(rules, s) ==
  LET after[i \in 0 .. Len(rules)] ==
        IF i = 0 THEN s ELSE ReplaceRule(rules[i], after[i - 1])
  IN after[Len(rules)]

(* A mutant of Kept: one symbol too few.                                    *)
KeptButOne(s) == IF Len(s) < Overlap THEN Len(s) ELSE Overlap - 1
Kept(s) == IF Len(s) <= Overlap THEN Len(s) ELSE Overlap

(* redactRules.                                                             *)
RedactRules(rules, carry, data, finalize) ==
  LET redacted == ApplyRules(rules, carry \o data)
      emit == IF finalize THEN Len(redacted) ELSE Len(redacted) - Kept(redacted)
  IN IF data = <<>> /\ ~ finalize
     THEN [out |-> <<>>, carry |-> carry]
     ELSE [out |-> SubSeq(redacted, 1, emit), carry |-> From(redacted, emit + 1)]
-----------------------------------------------------------------------------
(* NewOutputRedactorWithSecrets: short values are not redacted.             *)
NewRedactor(values, rules) ==
  [secrets |-> {v \in values : Len(v) >= MinSecret}, rules |-> rules,
   secretCarry |-> <<>>, carry |-> <<>>]

(* RedactChunk: what stage one lets through, what is written, and what is   *)
(* kept.                                                                    *)
RedactChunk(r, data, finalize) ==
  LET one == RedactSecrets(r.secrets, r.secretCarry, data, finalize)
      two == IF r.rules = <<>> THEN [out |-> one.out, carry |-> <<>>]
             ELSE RedactRules(r.rules, r.carry, one.out, finalize)
  IN [clean |-> one.out, out |-> two.out,
      next |-> [r EXCEPT !.secretCarry = one.carry, !.carry = two.carry]]
=============================================================================
