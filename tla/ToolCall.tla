------------------------------- MODULE ToolCall -------------------------------
(***************************************************************************)
(* What the configuration of a tool does to a call: the tool is loaded, or  *)
(* its file is refused; the arguments of a call are checked against its     *)
(* rules; and the output of a call that runs is redacted chunk by chunk.    *)
(* Composes ArgsPolicy and OutputRedactor the way handleProxyRequest        *)
(* (src/internal/daemon/daemon.go) and OutputBuffer (outputbuf.go) use them.*)
(***************************************************************************)
EXTENDS ArgsPolicy, OutputRedactor

CONSTANTS
  Tools,       \* tool definitions: [mode, blocked, allowed]
  Args,        \* argument lists of calls
  Values,      \* sets of credential values a tool is given
  Rules,       \* lists of redact_output rules: [head, tail, keep, text]
  Symbols,     \* what credentials are made of
  Marks,       \* texts that no credential shares anything with
  MaxChunk,    \* bound: symbols in a chunk
  MaxOutput    \* bound: symbols written in all

ASSUME RedactorAssumption == Overlap \in Nat \ {0} /\ MinSecret \in Nat \ {0}
ASSUME BoundAssumption == MaxChunk \in Nat /\ MaxOutput \in Nat
(* What a tool writes and a rule replaces or puts in its place is made of   *)
(* symbols and marks alike.                                                 *)
Alphabet == Symbols \union Marks
ASSUME SymbolAssumption == Redacted \in Marks /\ Marks \intersect Symbols = {}
ASSUME ValueAssumption == \A vs \in Values : vs \subseteq Seq(Symbols)
(* Load refuses a rule that matches the empty text.                         *)
ASSUME RuleAssumption ==
  \A rs \in Rules :
    /\ rs \in Seq([head : Seq(Alphabet), tail : SUBSET Alphabet,
                   keep : BOOLEAN, text : Seq(Alphabet)])
    /\ \A i \in 1 .. Len(rs) : rs[i].head # <<>>
(* Arguments and the rules of a file are lists.                             *)
ASSUME ArgsAssumption == Args \subseteq Seq(Seq(Words))
ASSUME ToolAssumption ==
  \A t \in Tools : {t.blocked, t.allowed} \subseteq Seq(FileRules)

VARIABLES
  phase,       \* "file", "refused", "loaded", "denied", "admitted", "running", "ended"
  tool,        \* the tool, as the file has it and then as loaded
  call,        \* the arguments and the verdict on them
  redactor,    \* the redactor of the call's output
  written,     \* what the tool wrote (history)
  clean,       \* what stage one let through (history)
  sent         \* what was handed on towards the client

callVars == <<phase, tool, call>>
outVars == <<redactor, written, clean, sent>>
toolCallVars == <<callVars, outVars>>

NoTool == [mode |-> "none", blocked |-> <<>>, allowed |-> <<>>]
NoCall == [args |-> <<>>, raw |-> NoTool, verdict |-> "none"]

CallInit ==
  /\ phase = "file" /\ tool \in Tools /\ call = NoCall
  /\ redactor = NewRedactor({}, <<>>)
  /\ written = <<>> /\ clean = <<>> /\ sent = <<>>

(* config.Load.                                                             *)
Load ==
  /\ phase = "file"
  /\ IF ToolOK(tool)
     THEN phase' = "loaded" /\ tool' = LoadTool(tool)
     ELSE phase' = "refused" /\ UNCHANGED tool
  /\ call' = [NoCall EXCEPT !.raw = tool]
  /\ UNCHANGED outVars

(* handleProxyRequest asks checkToolArgs.                                   *)
Check(args) ==
  /\ phase = "loaded"
  /\ LET verdict == CheckToolArgs(args, tool) IN
     /\ call' = [call EXCEPT !.args = args, !.verdict = verdict]
     /\ phase' = IF verdict = "ok" THEN "admitted" ELSE "denied"
  /\ UNCHANGED <<tool, outVars>>

(* The executor starts the tool with its credentials; the policy has done   *)
(* its work and is forgotten.                                               *)
Start(values, rules) ==
  /\ phase = "admitted"
  /\ phase' = "running" /\ tool' = NoTool /\ call' = NoCall
  /\ redactor' = NewRedactor(values, rules)
  /\ UNCHANGED <<written, clean, sent>>

Hand(chunk, finalize) ==
  LET r == RedactChunk(redactor, chunk, finalize) IN
  /\ redactor' = r.next
  /\ clean' = clean \o r.clean
  /\ sent' = sent \o r.out

(* OutputBuffer.Write.                                                      *)
Write(chunk) ==
  /\ phase = "running" /\ Len(written) + Len(chunk) <= MaxOutput
  /\ Hand(chunk, FALSE)
  /\ written' = written \o chunk
  /\ UNCHANGED callVars

(* OutputBuffer.Finalize.                                                   *)
Finalize ==
  /\ phase = "running"
  /\ Hand(<<>>, TRUE)
  /\ phase' = "ended"
  /\ UNCHANGED <<tool, call, written>>

CallNext ==
  \/ Load \/ Finalize
  \/ \E args \in Args : Check(args)
  \/ \E values \in Values, rules \in Rules : Start(values, rules)
  \/ \E chunk \in SeqOf(Alphabet, MaxChunk) \ {<<>>} : Write(chunk)

CallSpec == CallInit /\ [][CallNext]_toolCallVars
-----------------------------------------------------------------------------
(* Every variable keeps its type.                                           *)
CallTypeOK ==
  /\ phase \in {"file", "refused", "loaded", "denied", "admitted", "running", "ended"}
  /\ call.verdict \in {"none", "ok", "blocked", "not allowed", "internal error"}
  /\ written \in SeqOf(Alphabet, MaxOutput)
  /\ clean \in Seq(Alphabet) /\ sent \in Seq(Alphabet)

(* CONFIG.md on blocked_args, allowed_args and match: argv, as one formula  *)
(* over the file: a blocked rule looks into each argument, or over all of   *)
(* them without their boundaries; an argv rule is the whole argument list,  *)
(* whatever spaces its arguments hold.                                      *)
Covers(rule, args) ==
  IF rule.match = "argv" THEN args = rule.argv
  ELSE \E s \in (IF rule.match = "command" THEN {FlattenSeq(args)}
                 ELSE {args[i] : i \in 1 .. Len(args)}) :
         rule.pattern \in SubSeqs(s)

(* A call runs exactly when the rules of the file, as the documentation     *)
(* describes them, let it: deny first, and in allowlist mode only what a    *)
(* rule covers.  No file that was accepted leads to an internal error or to *)
(* a rule that is silently not applied.                                     *)
PolicyEnforced ==
  phase \in {"admitted", "denied"} =>
    /\ call.verdict # "internal error"
    /\ (call.verdict = "ok") =
         /\ \A i \in 1 .. Len(call.raw.blocked) : ~ Covers(call.raw.blocked[i], call.args)
         /\ \/ call.raw.mode # "allowlist"
            \/ \E i \in 1 .. Len(call.raw.allowed) : Covers(call.raw.allowed[i], call.args)

(* However the output is cut into chunks, the secrets in it are replaced as *)
(* if it had come in one piece, and nothing is held back but what may be    *)
(* the start of a secret: a prompt without a newline is visible.            *)
StreamedAsWhole ==
  /\ ReplaceSecrets(redactor.secrets, written)
       = clean \o ReplaceSecrets(redactor.secrets, redactor.secretCarry)
  /\ redactor.secretCarry # <<>> => IsSecretPrefix(redactor.secrets, redactor.secretCarry)
  /\ phase = "ended" => redactor.secretCarry = <<>>

(* Every rule puts a mark in the place of a text without marks, like        *)
(* [REDACTED] for a token: it does not write what a rule is to remove, as   *)
(* ${1}[REDACTED] does.                                                     *)
Marking(rules) ==
  \A i \in 1 .. Len(rules) :
    rules[i].head \in Seq(Symbols) /\ \E x \in Marks : Expand(rules[i]) = <<x>>

(* No secret gets through stage one, whatever the rules.  If they only put  *)
(* marks in place of what they match, then what has been sent holds no      *)
(* secret and nothing that a rule with a head of at most Overlap + 1        *)
(* symbols matches, also when it came in pieces.  What is kept is bounded   *)
(* by the overlap, and at the end everything has been sent.                 *)
NoMatchSent ==
  /\ \A s \in redactor.secrets : s \notin SubSeqs(clean)
  /\ Marking(redactor.rules) =>
       /\ \A s \in redactor.secrets : s \notin SubSeqs(sent)
       /\ \A i \in 1 .. Len(redactor.rules) :
            Len(redactor.rules[i].head) <= Overlap + 1 => redactor.rules[i].head \notin SubSeqs(sent)
  /\ Len(redactor.carry) <= Overlap /\ (phase = "ended" => redactor.carry = <<>>)
=============================================================================
