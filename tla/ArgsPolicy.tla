------------------------------ MODULE ArgsPolicy ------------------------------
(***************************************************************************)
(* The argument policy of a tool: compileArgRule of                         *)
(* src/internal/config/args_rules.go, the validation of mode and rules in   *)
(* config.go, and checkToolArgs of src/internal/daemon/args_policy.go.      *)
(* An argument is a sequence of words, since it may hold spaces; a pattern  *)
(* is a sequence of words that is looked for as it stands, the empty one    *)
(* matching everything, or Invalid when it does not compile.                *)
(***************************************************************************)
EXTENDS Integers, Sequences, SequencesExt

CONSTANTS
  Words,       \* what arguments and patterns are made of
  Invalid      \* a pattern that is no regular expression

(* A pattern in a file.                                                     *)
PatternTexts == {Invalid} \union Seq(Words)

(* A rule as the file has it: match (trimmed), pattern, argv; a compiled    *)
(* one is marked so.                                                        *)
Rule(match, pattern, argv) ==
  [match |-> match, pattern |-> pattern, argv |-> argv, compiled |-> FALSE]

FileRules ==
  [match : STRING, pattern : PatternTexts, argv : Seq(PatternTexts), compiled : {FALSE}]

(* compileArgRule succeeds.                                                 *)
ArgRuleOK(rule, allowArgv) ==
  \/ /\ rule.match \in {"", "arg", "command"}
     /\ rule.argv = <<>> /\ rule.pattern # Invalid
  \/ /\ rule.match = "argv" /\ allowArgv
     /\ rule.pattern = <<>> /\ rule.argv # <<>>
     /\ \A i \in 1 .. Len(rule.argv) : rule.argv[i] # Invalid

CompileArgRule(rule) ==
  [rule EXCEPT !.match = IF @ = "" THEN "arg" ELSE @, !.compiled = TRUE]

NormalMode(mode) == IF mode = "" THEN "blocklist" ELSE mode

(* The file is accepted, as far as this tool is concerned.                  *)
ToolOK(t) ==
  /\ \A i \in 1 .. Len(t.blocked) : ArgRuleOK(t.blocked[i], FALSE)
  /\ NormalMode(t.mode) \in {"blocklist", "allowlist"}
  /\ (NormalMode(t.mode) = "allowlist") = (t.allowed # <<>>)
  /\ \A i \in 1 .. Len(t.allowed) : ArgRuleOK(t.allowed[i], TRUE)

LoadTool(t) ==
  [mode    |-> NormalMode(t.mode),
   blocked |-> [i \in 1 .. Len(t.blocked) |-> CompileArgRule(t.blocked[i])],
   allowed |-> [i \in 1 .. Len(t.allowed) |-> CompileArgRule(t.allowed[i])]]
-----------------------------------------------------------------------------
(* MatchString of a pattern that is not anchored.                           *)
MatchString(pattern, s) == pattern \in SubSeqs(s)

(* A mutant of MatchArgv: more arguments may follow.                        *)
MatchArgvPrefix(args, patterns) ==
  /\ Len(args) >= Len(patterns)
  /\ \A i \in 1 .. Len(patterns) : args[i] = patterns[i]

(* matchArgv: one argument per pattern, anchored at both ends.              *)
MatchArgv(args, patterns) ==
  /\ Len(args) = Len(patterns)
  /\ \A i \in 1 .. Len(patterns) : args[i] = patterns[i]

Matches(rule, args) ==
  \/ rule.match \in {"", "arg"} /\ \E i \in 1 .. Len(args) : MatchString(rule.pattern, args[i])
  \/ rule.match = "command" /\ MatchString(rule.pattern, FlattenSeq(args))
  \/ rule.match = "argv" /\ MatchArgv(args, rule.argv)

(* The rules that only an internal error explains: nothing is let through.  *)
Broken(rule, allowArgv) ==
  \/ ~ rule.compiled
  \/ rule.match \notin {"", "arg", "command"} \union (IF allowArgv THEN {"argv"} ELSE {})

(* checkBlockedArgs: the first rule that is broken or matches decides.      *)
CheckBlockedArgs(args, blocked) ==
  LET i == SelectInSeq(blocked, LAMBDA b : Broken(b, FALSE) \/ Matches(b, args)) IN
  IF i = 0 THEN "ok" ELSE IF Broken(blocked[i], FALSE) THEN "internal error" ELSE "blocked"

(* checkAllowedArgs: so here, and without one the call is refused.          *)
CheckAllowedArgs(args, allowed) ==
  LET i == SelectInSeq(allowed, LAMBDA a : Broken(a, TRUE) \/ Matches(a, args)) IN
  IF i = 0 THEN "not allowed" ELSE IF Broken(allowed[i], TRUE) THEN "internal error" ELSE "ok"

CheckToolArgs(args, t) ==
  LET verdict == CheckBlockedArgs(args, t.blocked) IN
  IF verdict = "ok" /\ t.mode = "allowlist" /\ t.allowed # <<>>
  THEN CheckAllowedArgs(args, t.allowed)
  ELSE verdict
=============================================================================
