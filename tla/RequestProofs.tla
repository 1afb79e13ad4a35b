----------------------------- MODULE RequestProofs -----------------------------
(***************************************************************************)
(* Proofs about the path of a request through the daemon: the policy on its *)
(* arguments and the redaction of the output that goes back (ToolCall), and *)
(* the admission before them (ReplayCache).  For any number of handlers and *)
(* requests, any drift, delay, lifetimes and capacities; for any secrets,   *)
(* rules, arguments and output.                                             *)
(***************************************************************************)
EXTENDS ReplayCache, ToolCall, FiniteSetTheorems, WellFoundedInduction, TLAPS

-----------------------------------------------------------------------------
(* Induction over data: recursion and choice rest on the least element of a *)
(* set of naturals.                                                         *)

(* A set of naturals that is not empty has a least element.                 *)
LEMMA LeastNatural ==
  ASSUME NEW T \in SUBSET Nat, T # {}
  PROVE  \E n \in T : \A m \in T : n <= m
<1> DEFINE R == {ss \in Nat \X Nat : ss[1] < ss[2]}
<1>1. IsWellFoundedOn(R, Nat)
  BY NatLessThanWellFounded, Zenon DEF OpToRel
<1>2. PICK n \in T : \A m \in T : ~ (<<m, n>> \in R)
  <2> HIDE DEF R
  <2> QED BY <1>1, WFMin, Zenon
<1>3. ASSUME NEW m \in T PROVE n <= m
  <2>1. ~ (<<m, n>>[1] < <<m, n>>[2])
    BY <1>2, <1>3, Zenon
  <2> QED
    BY <2>1, <1>3
<1> QED
  BY <1>3

(* Induction down from L + 1, over a set: what holds at L + 1, and at i     *)
(* when it holds at all later positions, holds everywhere.                  *)
LEMMA Downward ==
  ASSUME NEW L \in Nat, NEW S, L + 1 \in S,
         \A i \in 1 .. L : (\A j \in i + 1 .. L + 1 : j \in S) => i \in S
  PROVE  \A i \in 1 .. L + 1 : i \in S
<1> SUFFICES ASSUME NEW k \in 1 .. L + 1, k \notin S PROVE FALSE
  OBVIOUS
<1> DEFINE T == {n \in 0 .. L : L + 1 - n \notin S}
<1>1. T \in SUBSET Nat /\ L + 1 - k \in T
  OBVIOUS
<1>2. PICK n \in T : \A m \in T : n <= m
  BY <1>1, LeastNatural
<1>3. n # 0 /\ L + 1 - n \in 1 .. L
  BY <1>2
<1>4. ASSUME NEW j \in (L + 1 - n) + 1 .. L + 1 PROVE j \in S
  <2>1. L + 1 - j \in 0 .. L /\ L + 1 - j < n /\ L + 1 - (L + 1 - j) = j
    BY <1>2
  <2> QED
    BY <1>2, <2>1
<1> QED
  BY <1>2, <1>3, <1>4

-----------------------------------------------------------------------------
(* The policy on arguments.                                                 *)

(* The first index with a property is one of them.                          *)
LEMMA FirstSelected ==
  ASSUME NEW n \in Nat, NEW I \in SUBSET (1 .. n),
         NEW i, i = IF I # {} THEN Min(I) ELSE 0
  PROVE  IF I = {} THEN i = 0 ELSE i \in I /\ i # 0
<1>1. CASE I # {}
  <2>1. I \in SUBSET Nat
    OBVIOUS
  <2>2. \E k \in I : \A m \in I : k <= m
    BY <1>1, <2>1, LeastNatural
  <2>3. Min(I) \in I
    BY <2>2, Zenon DEF Min
  <2>4. i \in I
    BY <1>1, <2>3, Zenon
  <2>5. i # 0
    BY <2>4
  <2> QED
    BY <1>1, <2>4, <2>5
<1> QED
  BY <1>1

(* checkBlockedArgs without broken rules.                                   *)
LEMMA BlockedVerdict ==
  ASSUME NEW args, NEW blocked, Len(blocked) \in Nat,
         \A i \in 1 .. Len(blocked) : ~ Broken(blocked[i], FALSE)
  PROVE  CheckBlockedArgs(args, blocked)
           = IF \E i \in 1 .. Len(blocked) : Matches(blocked[i], args) THEN "blocked" ELSE "ok"
<1> DEFINE I == {i \in 1 .. Len(blocked) : Broken(blocked[i], FALSE) \/ Matches(blocked[i], args)}
<1>1. PICK i : i = IF I # {} THEN Min(I) ELSE 0
  OBVIOUS
<1>2. CheckBlockedArgs(args, blocked)
        = IF i = 0 THEN "ok" ELSE IF Broken(blocked[i], FALSE) THEN "internal error" ELSE "blocked"
  BY <1>1, Zenon DEF CheckBlockedArgs, SelectInSeq
<1>3. IF I = {} THEN i = 0 ELSE i \in I /\ i # 0
  <2>1. I \in SUBSET (1 .. Len(blocked))
    OBVIOUS
  <2> HIDE DEF I
  <2> QED
    BY <1>1, <2>1, FirstSelected
<1>4. CASE I = {}
  BY <1>2, <1>3, <1>4, Zenon
<1>5. CASE I # {}
  <2>1. i # 0 /\ i \in 1 .. Len(blocked) /\ Matches(blocked[i], args)
    BY <1>3, <1>5
  <2> QED
    BY <1>2, <2>1, Zenon
<1> QED
  BY <1>4, <1>5

(* checkAllowedArgs without broken rules.                                   *)
LEMMA AllowedVerdict ==
  ASSUME NEW args, NEW allowed, Len(allowed) \in Nat,
         \A i \in 1 .. Len(allowed) : ~ Broken(allowed[i], TRUE)
  PROVE  CheckAllowedArgs(args, allowed)
           = IF \E i \in 1 .. Len(allowed) : Matches(allowed[i], args) THEN "ok" ELSE "not allowed"
<1> DEFINE I == {i \in 1 .. Len(allowed) : Broken(allowed[i], TRUE) \/ Matches(allowed[i], args)}
<1>1. PICK i : i = IF I # {} THEN Min(I) ELSE 0
  OBVIOUS
<1>2. CheckAllowedArgs(args, allowed)
        = IF i = 0 THEN "not allowed" ELSE IF Broken(allowed[i], TRUE) THEN "internal error" ELSE "ok"
  BY <1>1, Zenon DEF CheckAllowedArgs, SelectInSeq
<1>3. IF I = {} THEN i = 0 ELSE i \in I /\ i # 0
  <2>1. I \in SUBSET (1 .. Len(allowed))
    OBVIOUS
  <2> HIDE DEF I
  <2> QED
    BY <1>1, <2>1, FirstSelected
<1>4. CASE I = {}
  BY <1>2, <1>3, <1>4, Zenon
<1>5. CASE I # {}
  <2>1. i # 0 /\ i \in 1 .. Len(allowed) /\ Matches(allowed[i], args)
    BY <1>3, <1>5
  <2> QED
    BY <1>2, <2>1, Zenon
<1> QED
  BY <1>4, <1>5

(* A compiled rule, field by field.                                         *)
LEMMA CompiledFields ==
  ASSUME NEW M, NEW P, NEW A, NEW B, NEW r \in [match : M, pattern : P, argv : A, compiled : B],
         NEW m, NEW c, c = [r EXCEPT !.match = m, !.compiled = TRUE]
  PROVE  /\ c.match = m /\ c.pattern = r.pattern /\ c.argv = r.argv /\ c.compiled = TRUE
         /\ r.argv \in A
  OBVIOUS

(* Lists of the same length with the same elements are the same.            *)
LEMMA SameList ==
  ASSUME NEW S, NEW T, NEW a \in Seq(S), NEW b \in Seq(T), Len(a) = Len(b),
         \A i \in 1 .. Len(b) : a[i] = b[i]
  PROVE  a = b
  OBVIOUS

(* An argv rule matches exactly its own argument list.                      *)
LEMMA ArgvMatches ==
  ASSUME NEW args \in Args, NEW argv \in Seq(PatternTexts)
  PROVE  MatchArgv(args, argv) <=> args = argv
<1>1. args \in Seq(Seq(Words))
  BY ArgsAssumption
<1>2. PICK W, P : W = Seq(Words) /\ P = PatternTexts
  OBVIOUS
<1>3. args \in Seq(W) /\ argv \in Seq(P)
  BY <1>1, <1>2, Zenon
<1>4. MatchArgv(args, argv) => args = argv
  BY <1>3, SameList DEF MatchArgv
<1>5. args = argv => MatchArgv(args, argv)
  BY Zenon DEF MatchArgv
<1> QED
  BY <1>4, <1>5

(* An accepted rule, once compiled, is not broken, and matches what the     *)
(* documentation says it covers.                                            *)
LEMMA CompiledRule ==
  ASSUME NEW rule \in FileRules, NEW allowArgv \in BOOLEAN, ArgRuleOK(rule, allowArgv),
         NEW args \in Args, NEW c, c = CompileArgRule(rule)
  PROVE  ~ Broken(c, allowArgv) /\ (Matches(c, args) <=> Covers(rule, args))
<1>1. PICK m : m = IF rule.match = "" THEN "arg" ELSE rule.match
  BY Zenon
<1>2. c = [rule EXCEPT !.match = m, !.compiled = TRUE]
  BY <1>1, Zenon DEF CompileArgRule
<1>3. /\ c.match = m /\ c.pattern = rule.pattern /\ c.argv = rule.argv /\ c.compiled = TRUE
      /\ rule.argv \in Seq(PatternTexts)
  <2>1. PICK A : A = Seq(PatternTexts)
    OBVIOUS
  <2>2. rule \in [match : STRING, pattern : PatternTexts, argv : A, compiled : {FALSE}]
    BY <2>1, Zenon DEF FileRules
  <2>3. c.match = m /\ c.pattern = rule.pattern /\ c.argv = rule.argv /\ c.compiled = TRUE /\ rule.argv \in A
    BY <1>2, <2>2, CompiledFields
  <2> QED
    BY <2>1, <2>3
<1>4. CASE m = "arg"
  <2>1. rule.match # "command" /\ rule.match # "argv"
    BY <1>1, <1>4, Zenon
  <2>2. ~ Broken(c, allowArgv)
    BY <1>3, <1>4, Zenon DEF Broken
  <2>3. Matches(c, args) <=> \E i \in 1 .. Len(args) : rule.pattern \in SubSeqs(args[i])
    BY <1>3, <1>4, Zenon DEF Matches, MatchString
  <2>4. Covers(rule, args) <=> \E s \in {args[i] : i \in 1 .. Len(args)} : rule.pattern \in SubSeqs(s)
    BY <2>1, Zenon DEF Covers
  <2> QED
    BY <2>2, <2>3, <2>4, Zenon
<1>5. CASE m = "command"
  <2>1. rule.match = "command" /\ rule.match # "argv"
    BY <1>1, <1>5, Zenon
  <2>2. ~ Broken(c, allowArgv)
    BY <1>3, <1>5, Zenon DEF Broken
  <2>3. Matches(c, args) <=> rule.pattern \in SubSeqs(FlattenSeq(args))
    BY <1>3, <1>5, Zenon DEF Matches, MatchString
  <2>4. Covers(rule, args) <=> \E s \in {FlattenSeq(args)} : rule.pattern \in SubSeqs(s)
    BY <2>1, Zenon DEF Covers
  <2> QED
    BY <2>2, <2>3, <2>4, Zenon
<1>6. CASE m = "argv"
  <2>1. rule.match = "argv" /\ allowArgv
    BY <1>1, <1>6, Zenon DEF ArgRuleOK
  <2>2. ~ Broken(c, allowArgv)
    BY <1>3, <1>6, <2>1, Zenon DEF Broken
  <2>3. Matches(c, args) <=> MatchArgv(args, rule.argv)
    BY <1>3, <1>6, Zenon DEF Matches
  <2>4. Covers(rule, args) <=> args = rule.argv
    BY <2>1, Zenon DEF Covers
  <2> QED
    BY <1>3, <2>2, <2>3, <2>4, ArgvMatches, Zenon
<1>7. m \in {"arg", "command", "argv"}
  BY <1>1, Zenon DEF ArgRuleOK
<1> QED
  BY <1>4, <1>5, <1>6, <1>7, Zenon

(* A list of n elements is empty when n is 0.                               *)
LEMMA EmptyList ==
  ASSUME NEW n \in Nat, NEW S, NEW l \in [1 .. n -> S]
  PROVE  l = <<>> <=> n = 0
  OBVIOUS

(* So for the rules of a list.                                              *)
LEMMA CompiledList ==
  ASSUME NEW rules \in Seq(FileRules), NEW allowArgv \in BOOLEAN,
         \A i \in 1 .. Len(rules) : ArgRuleOK(rules[i], allowArgv),
         NEW args \in Args,
         NEW cs, cs = [i \in 1 .. Len(rules) |-> CompileArgRule(rules[i])]
  PROVE  /\ Len(cs) = Len(rules) /\ Len(rules) \in Nat
         /\ \A i \in 1 .. Len(cs) : ~ Broken(cs[i], allowArgv)
         /\ (\E i \in 1 .. Len(cs) : Matches(cs[i], args))
              <=> (\E i \in 1 .. Len(rules) : Covers(rules[i], args))
<1>1. Len(rules) \in Nat /\ \A i \in 1 .. Len(rules) : rules[i] \in FileRules
  OBVIOUS
<1>2. Len(cs) = Len(rules)
  BY <1>1
<1>3. ASSUME NEW i \in 1 .. Len(rules)
      PROVE  ~ Broken(cs[i], allowArgv) /\ (Matches(cs[i], args) <=> Covers(rules[i], args))
  <2>1. PICK rule \in FileRules : rule = rules[i]
    BY <1>1
  <2>2. PICK c : c = CompileArgRule(rule)
    OBVIOUS
  <2>3. cs[i] = c
    BY <2>1, <2>2, Zenon
  <2>4. ArgRuleOK(rule, allowArgv)
    BY <2>1, Zenon
  <2>5. ~ Broken(c, allowArgv) /\ (Matches(c, args) <=> Covers(rule, args))
    BY <2>2, <2>4, CompiledRule, Zenon
  <2> QED
    BY <2>1, <2>3, <2>5, Zenon
<1> QED
  BY <1>1, <1>2, <1>3, Zenon

(* The verdict on a call to an accepted tool is what the documentation      *)
(* says.                                                                    *)
LEMMA VerdictRight ==
  ASSUME NEW t \in Tools, ToolOK(t), NEW args \in Args,
         NEW v, v = CheckToolArgs(args, LoadTool(t))
  PROVE  /\ v \in {"ok", "blocked", "not allowed"}
         /\ (v = "ok") <=> (/\ \A i \in 1 .. Len(t.blocked) : ~ Covers(t.blocked[i], args)
                            /\ \/ t.mode # "allowlist"
                               \/ \E i \in 1 .. Len(t.allowed) : Covers(t.allowed[i], args))
<1>1. t.blocked \in Seq(FileRules) /\ t.allowed \in Seq(FileRules)
  BY ToolAssumption
<1>2. PICK mode, bs, as :
        /\ mode = NormalMode(t.mode)
        /\ bs = [i \in 1 .. Len(t.blocked) |-> CompileArgRule(t.blocked[i])]
        /\ as = [i \in 1 .. Len(t.allowed) |-> CompileArgRule(t.allowed[i])]
  BY Zenon
<1>3. LoadTool(t) = [mode |-> mode, blocked |-> bs, allowed |-> as]
  BY <1>2, Zenon DEF LoadTool
<1>4. LoadTool(t).mode = mode /\ LoadTool(t).blocked = bs /\ LoadTool(t).allowed = as
  BY <1>3
<1>5. /\ \A i \in 1 .. Len(t.blocked) : ArgRuleOK(t.blocked[i], FALSE)
      /\ \A i \in 1 .. Len(t.allowed) : ArgRuleOK(t.allowed[i], TRUE)
      /\ (mode = "allowlist") = (t.allowed # <<>>)
  BY <1>2, Zenon DEF ToolOK
<1>6. mode = "allowlist" <=> t.mode = "allowlist"
  BY <1>2, Zenon DEF NormalMode
<1>7. /\ Len(bs) = Len(t.blocked) /\ Len(t.blocked) \in Nat
      /\ \A i \in 1 .. Len(bs) : ~ Broken(bs[i], FALSE)
      /\ (\E i \in 1 .. Len(bs) : Matches(bs[i], args))
           <=> (\E i \in 1 .. Len(t.blocked) : Covers(t.blocked[i], args))
  BY <1>1, <1>2, <1>5, CompiledList
<1>8. /\ Len(as) = Len(t.allowed) /\ Len(t.allowed) \in Nat
      /\ \A i \in 1 .. Len(as) : ~ Broken(as[i], TRUE)
      /\ (\E i \in 1 .. Len(as) : Matches(as[i], args))
           <=> (\E i \in 1 .. Len(t.allowed) : Covers(t.allowed[i], args))
  BY <1>1, <1>2, <1>5, CompiledList
<1>9. CheckBlockedArgs(args, bs)
        = IF \E i \in 1 .. Len(bs) : Matches(bs[i], args) THEN "blocked" ELSE "ok"
  BY <1>7, BlockedVerdict
<1>10. CheckAllowedArgs(args, as)
         = IF \E i \in 1 .. Len(as) : Matches(as[i], args) THEN "ok" ELSE "not allowed"
  BY <1>8, AllowedVerdict
<1>11. as # <<>> <=> t.allowed # <<>>
  <2>1. \A l \in Seq(FileRules) : l = <<>> <=> Len(l) = 0
    OBVIOUS
  <2>2. as = <<>> <=> Len(as) = 0
    <3>1. PICK n \in Nat : n = Len(t.allowed)
      BY <1>8
    <3>2. PICK S : S = {CompileArgRule(t.allowed[i]) : i \in 1 .. n}
      OBVIOUS
    <3>3. as \in [1 .. n -> S]
      BY <1>2, <3>1, <3>2, Zenon
    <3>4. as = <<>> <=> n = 0
      BY <3>3, EmptyList
    <3> QED
      BY <1>8, <3>1, <3>4
  <2> QED
    BY <1>1, <1>8, <2>1, <2>2
<1>12. v = IF CheckBlockedArgs(args, bs) = "ok" /\ mode = "allowlist" /\ as # <<>>
           THEN CheckAllowedArgs(args, as) ELSE CheckBlockedArgs(args, bs)
  BY <1>4, Zenon DEF CheckToolArgs
<1>13. mode = "allowlist" => as # <<>>
  BY <1>5, <1>11, Zenon
<1> QED
  BY <1>6, <1>7, <1>8, <1>9, <1>10, <1>12, <1>13, Zenon

(* The inductive invariant of the policy: the loaded tool comes from an     *)
(* accepted file, and the verdict from the loaded tool.                     *)
PolicyInv ==
  /\ phase = "file" => tool \in Tools
  /\ phase \notin {"loaded", "admitted", "denied"} => call.verdict = "none"
  /\ phase = "loaded" =>
       \E t \in Tools : /\ ToolOK(t) /\ tool = LoadTool(t)
                        /\ call = [args |-> <<>>, raw |-> t, verdict |-> "none"]
  /\ phase \in {"admitted", "denied"} =>
       \E t \in Tools, args \in Args :
         /\ ToolOK(t)
         /\ call = [args |-> args, raw |-> t, verdict |-> CheckToolArgs(args, LoadTool(t))]

(* Every step preserves the policy invariant.                               *)
LEMMA PolicyStep ==
  PolicyInv /\ [CallNext]_toolCallVars => PolicyInv'
<1> SUFFICES ASSUME PolicyInv, [CallNext]_toolCallVars PROVE PolicyInv'
  OBVIOUS
<1>1. CASE Load
  <2>0. phase = "file" /\ tool \in Tools
    BY <1>1, Zenon DEF Load, PolicyInv
  <2>1. call' = [args |-> <<>>, raw |-> tool, verdict |-> "none"]
    BY <1>1 DEF Load, NoCall
  <2>2. CASE ToolOK(tool)
    <3>1. phase' = "loaded" /\ tool' = LoadTool(tool)
      BY <1>1, <2>2, Zenon DEF Load
    <3> QED
      BY <2>0, <2>1, <2>2, <3>1, Zenon DEF PolicyInv
  <2>3. CASE ~ ToolOK(tool)
    <3>1. phase' = "refused"
      BY <1>1, <2>3, Zenon DEF Load
    <3>2. call'.verdict = "none"
      BY <2>1
    <3> QED
      BY <3>1, <3>2, Zenon DEF PolicyInv
  <2> QED
    BY <2>2, <2>3
<1>2. CASE Finalize
  <2>1. phase = "running" /\ phase' = "ended" /\ call' = call
    BY <1>2, Zenon DEF Finalize
  <2> QED
    BY <2>1, Zenon DEF PolicyInv
<1>3. ASSUME NEW args \in Args, Check(args) PROVE PolicyInv'
  <2>1. phase = "loaded"
    BY <1>3, Zenon DEF Check
  <2>2. PICK t \in Tools : /\ ToolOK(t) /\ tool = LoadTool(t)
                           /\ call = [args |-> <<>>, raw |-> t, verdict |-> "none"]
    BY <2>1, Zenon DEF PolicyInv
  <2>3. PICK v : v = CheckToolArgs(args, LoadTool(t))
    OBVIOUS
  <2>4. call' = [call EXCEPT !.args = args, !.verdict = v] /\ phase' \in {"admitted", "denied"}
    BY <1>3, <2>2, <2>3, Zenon DEF Check
  <2>5. call' = [args |-> args, raw |-> t, verdict |-> v]
    BY <2>2, <2>4
  <2> QED
    BY <2>2, <2>3, <2>4, <2>5, Zenon DEF PolicyInv
<1>4. ASSUME NEW values \in Values, NEW rules \in Rules, Start(values, rules) PROVE PolicyInv'
  <2>1. phase' = "running" /\ call'.verdict = "none"
    BY <1>4 DEF Start, NoCall
  <2> QED
    BY <2>1, Zenon DEF PolicyInv
<1>5. ASSUME NEW chunk, Write(chunk) PROVE PolicyInv'
  <2>1. phase = "running" /\ phase' = phase /\ call' = call
    BY <1>5, Zenon DEF Write, callVars
  <2> QED
    BY <2>1, Zenon DEF PolicyInv
<1>6. CASE UNCHANGED toolCallVars
  <2>1. phase' = phase /\ tool' = tool /\ call' = call
    BY <1>6, Zenon DEF toolCallVars, callVars
  <2> QED
    BY <2>1, Zenon DEF PolicyInv
<1> QED
  BY <1>1, <1>2, <1>3, <1>4, <1>5, <1>6, Zenon DEF CallNext

(* The policy invariant holds initially.                                    *)
LEMMA PolicyInit ==
  CallInit => PolicyInv
<1>1. NoCall.verdict = "none"
  BY DEF NoCall
<1> QED
  BY <1>1, Zenon DEF CallInit, PolicyInv

(* So it always holds.                                                      *)
LEMMA PolicyAlways ==
  CallSpec => []PolicyInv
  BY PolicyInit, PolicyStep, PTL DEF CallSpec

(* A call is admitted exactly when the rules of the file, as documented,    *)
(* let it, and no accepted file leads to an internal error: checkToolArgs,  *)
(* for any rules and arguments.                                             *)
THEOREM PolicyEnforcedHolds ==
  CallSpec => []PolicyEnforced
<1>1. PolicyInv => PolicyEnforced
  <2> SUFFICES ASSUME PolicyInv, phase \in {"admitted", "denied"}
               PROVE  /\ call.verdict # "internal error"
                      /\ (call.verdict = "ok") =
                           /\ \A i \in 1 .. Len(call.raw.blocked) : ~ Covers(call.raw.blocked[i], call.args)
                           /\ \/ call.raw.mode # "allowlist"
                              \/ \E i \in 1 .. Len(call.raw.allowed) : Covers(call.raw.allowed[i], call.args)
    BY Zenon DEF PolicyEnforced
  <2>1. PICK t \in Tools, args \in Args :
          /\ ToolOK(t)
          /\ call = [args |-> args, raw |-> t, verdict |-> CheckToolArgs(args, LoadTool(t))]
    BY Zenon DEF PolicyInv
  <2>2. PICK v : v = CheckToolArgs(args, LoadTool(t))
    OBVIOUS
  <2>3. call.args = args /\ call.raw = t /\ call.verdict = v
    BY <2>1, <2>2
  <2>4. /\ v \in {"ok", "blocked", "not allowed"}
        /\ (v = "ok") <=> (/\ \A i \in 1 .. Len(t.blocked) : ~ Covers(t.blocked[i], args)
                           /\ \/ t.mode # "allowlist"
                              \/ \E i \in 1 .. Len(t.allowed) : Covers(t.allowed[i], args))
    BY <2>1, <2>2, VerdictRight
  <2> QED
    BY <2>3, <2>4, Zenon
<1> QED
  BY <1>1, PolicyAlways, PTL

-----------------------------------------------------------------------------
(* The redactor: the scan, and stage one.                                   *)

(* What a tool writes and the redactor puts out.                            *)
Text == Seq(Alphabet)
USE DEF Text
(* A mark, on its own, is a text.                                           *)
LEMMA MarkText ==
  ASSUME NEW x \in Marks
  PROVE  x \in Alphabet /\ <<x>> \in Text
<1>1. x \in Alphabet
  BY DEF Alphabet
<1> QED
  BY <1>1

(* What stage one puts in the place of a secret.                            *)
Mark == <<Redacted>>
(* It is a mark.                                                            *)
LEMMA MarkInText == Mark \in Text
  BY MarkText, SymbolAssumption DEF Mark

(* The body of Scan, with the recursion taken out.                          *)
ScanStep(s, put, matches, holds, f, i) ==
  IF i > Len(s) \/ i \in holds THEN [out |-> <<>>, carry |-> From(s, i)]
        ELSE IF matches[i] > 0
        THEN [f[i + matches[i]] EXCEPT !.out = put \o @]
        ELSE [f[i + 1] EXCEPT !.out = <<s[i]>> \o @]

(* Matches that do not reach beyond the end of s.                           *)
Fitting(s) == {m \in [1 .. Len(s) -> Nat] : \A i \in 1 .. Len(s) : i + m[i] <= Len(s) + 1}

Scans(s, put, m, holds) ==
  Scan(s, put, m, holds)
    = [i \in 1 .. Len(s) + 1 |-> ScanStep(s, put, m, holds, Scan(s, put, m, holds), i)]

(* The recursive function Scan exists and satisfies its equation.           *)
LEMMA ScanEquation ==
  ASSUME NEW s \in Text, NEW put \in Text, NEW m \in Fitting(s), NEW holds
  PROVE  Scans(s, put, m, holds)
<1> DEFINE L == Len(s)
           D == 1 .. L + 1
           St(f, i) == ScanStep(s, put, m, holds, f, i)
           S == {i \in D : \E f : f = [j \in D |-> f[j]] /\ \A j \in i .. L + 1 : f[j] = St(f, j)}
<1>0. L \in Nat
  OBVIOUS
<1>1. \A f, g : \A i \in D : (\A j \in i + 1 .. L + 1 : f[j] = g[j]) => St(f, i) = St(g, i)
  <2> TAKE f, g
  <2> TAKE i \in D
  <2> HAVE \A j \in i + 1 .. L + 1 : f[j] = g[j]
  <2>1. CASE i > L
    BY <2>1 DEF ScanStep
  <2>2. CASE i <= L
    <3>1. m[i] \in Nat /\ i + m[i] <= L + 1
      BY <2>2 DEF Fitting
    <3>2. f[i + 1] = g[i + 1] /\ (m[i] > 0 => f[i + m[i]] = g[i + m[i]])
      BY <2>2, <3>1
    <3> QED
      BY <3>2, Zenon DEF ScanStep
  <2> QED
    BY <2>1, <2>2
<1>2. L + 1 \in S
  <2> DEFINE f == [j \in D |-> St(<<>>, j)]
  <2>1. St(<<>>, L + 1) = St(f, L + 1)
    BY <1>1
  <2>2. f = [j \in D |-> f[j]] /\ \A j \in L + 1 .. L + 1 : f[j] = St(f, j)
    BY <2>1
  <2> HIDE DEF f
  <2> QED
    BY <2>2
<1>3. ASSUME NEW i \in 1 .. L, i + 1 \in S
      PROVE  i \in S
  <2>1. PICK f : f = [j \in D |-> f[j]] /\ \A j \in i + 1 .. L + 1 : f[j] = St(f, j)
    BY <1>3
  <2> DEFINE g == [j \in D |-> IF j = i THEN St(f, i) ELSE f[j]]
  <2>2. \A j \in i + 1 .. L + 1 : g[j] = f[j]
    OBVIOUS
  <2>3. \A j \in i .. L + 1 : St(f, j) = St(g, j)
    <3> TAKE j \in i .. L + 1
    <3> HIDE DEF g, St
    <3>1. \A n \in j + 1 .. L + 1 : f[n] = g[n]
      BY <2>2
    <3> QED
      BY <3>1, <1>1
  <2>4. \A j \in i .. L + 1 : g[j] = St(g, j)
    <3> TAKE j \in i .. L + 1
    <3> HIDE DEF St
    <3>1. g[j] = St(f, j)
      BY <2>1
    <3> QED
      BY <3>1, <2>3
  <2>5. g = [j \in D |-> g[j]]
    OBVIOUS
  <2> HIDE DEF g
  <2> QED
    BY <2>4, <2>5
<1>4. 1 \in S
  <2> HIDE DEF S
  <2>1. \A i \in 1 .. L : (\A j \in i + 1 .. L + 1 : j \in S) => i \in S
    BY <1>3
  <2>2. \A i \in 1 .. L + 1 : i \in S
    BY <1>0, <1>2, <2>1, Downward
  <2> QED
    BY <2>2
<1>5. \E f : f = [j \in D |-> St(f, j)]
  <2> HIDE DEF St
  <2>1. PICK f : f = [j \in D |-> f[j]] /\ \A j \in 1 .. L + 1 : f[j] = St(f, j)
    BY <1>4
  <2> QED
    BY <2>1
<1>6. Scan(s, put, m, holds) = CHOOSE f : f = [j \in D |-> St(f, j)]
  BY Zenon DEF Scan, ScanStep
<1> QED
  <2> HIDE DEF St
  <2>1. \A f : f = [j \in D |-> St(f, j)] => Scan(s, put, m, holds) = [j \in D |-> St(Scan(s, put, m, holds), j)]
    BY <1>6, Zenon
  <2> QED
    BY <1>5, <2>1, Zenon DEF St, Scans

(* What a scan yields.                                                      *)
Scanned == [out : Text, carry : Text]

(* A scan yields two texts.                                                 *)
LEMMA ScannedPair ==
  ASSUME NEW T, NEW a \in T, NEW b \in T
  PROVE  [out |-> a, carry |-> b] \in [out : T, carry : T]
OBVIOUS

(* Putting a text in front of the output of a scan yields one again.        *)
LEMMA ScannedMore ==
  ASSUME NEW r \in Scanned, NEW x \in Text
  PROVE  /\ [r EXCEPT !.out = x \o @] \in Scanned
         /\ [r EXCEPT !.out = x \o @].out = x \o r.out
         /\ [r EXCEPT !.out = x \o @].carry = r.carry
<1> DEFINE T == Text
           y == x \o r.out
<1>1. r \in [out : T, carry : T] /\ r.out \in Text
  BY DEF Scanned
<1>2. y \in T
  BY <1>1
<1> HIDE DEF T, y
<1>3. [r EXCEPT !.out = y] \in [out : T, carry : T] /\ [r EXCEPT !.out = y].out = y
      /\ [r EXCEPT !.out = y].carry = r.carry
  BY <1>1, <1>2
<1> QED
  BY <1>3, Zenon DEF T, y, Scanned

(* At every position a scan yields two texts.                               *)
LEMMA ScanType ==
  ASSUME NEW s \in Text, NEW put \in Text, NEW m \in Fitting(s), NEW holds
  PROVE  \A i \in 1 .. Len(s) + 1 : Scan(s, put, m, holds)[i] \in Scanned
<1> DEFINE L == Len(s)
           f == Scan(s, put, m, holds)
           S == {i \in 1 .. L + 1 : f[i] \in Scanned}
<1>0. L \in Nat
  OBVIOUS
<1>1. \A i \in 1 .. L + 1 : f[i] = ScanStep(s, put, m, holds, f, i)
  <2>1. f = [i \in 1 .. L + 1 |-> ScanStep(s, put, m, holds, f, i)]
    <3>1. Scans(s, put, m, holds)
      BY ScanEquation
    <3> QED
      BY <3>1, Zenon DEF Scans
  <2> QED
    BY <2>1, Zenon
<1>2. \A i \in 1 .. L + 1 : From(s, i) \in Text
  BY DEF From
<1>3. ASSUME NEW i \in 1 .. L + 1, i > L \/ i \in holds PROVE i \in S
  <2>1. f[i] = [out |-> <<>>, carry |-> From(s, i)]
    BY <1>1, <1>3, Zenon DEF ScanStep
  <2>2. <<>> \in Text
    OBVIOUS
  <2>3. f[i] \in Scanned
    BY <1>2, <2>1, <2>2, ScannedPair, Zenon DEF Scanned
  <2> QED
    BY <2>3
<1>4. ASSUME NEW i \in 1 .. L, \A j \in i + 1 .. L + 1 : j \in S PROVE i \in S
  <2>1. CASE i \in holds
    BY <1>3, <2>1
  <2>2. CASE i \notin holds /\ m[i] > 0
    <3>1. i + m[i] \in i + 1 .. L + 1 /\ i \in 1 .. L + 1 /\ ~ (i > L)
      BY <2>2 DEF Fitting
    <3>2. f[i] = [f[i + m[i]] EXCEPT !.out = put \o @]
      BY <1>1, <2>2, <3>1, Zenon DEF ScanStep
    <3>3. PICK r \in Scanned : r = f[i + m[i]]
      BY <3>1, <1>4
    <3>4. [r EXCEPT !.out = put \o @] \in Scanned
      BY ScannedMore, Zenon
    <3>5. f[i] \in Scanned
      BY <3>2, <3>3, <3>4
    <3> QED
      BY <3>1, <3>5
  <2>3. CASE i \notin holds /\ ~ (m[i] > 0)
    <3>1. i + 1 \in i + 1 .. L + 1 /\ i \in 1 .. L + 1 /\ ~ (i > L) /\ <<s[i]>> \in Text
      OBVIOUS
    <3>2. f[i] = [f[i + 1] EXCEPT !.out = <<s[i]>> \o @]
      BY <1>1, <2>3, <3>1, Zenon DEF ScanStep
    <3>3. PICK r \in Scanned : r = f[i + 1]
      BY <3>1, <1>4
    <3>4. [r EXCEPT !.out = <<s[i]>> \o @] \in Scanned
      BY <3>1, ScannedMore
    <3>5. f[i] \in Scanned
      BY <3>2, <3>3, <3>4
    <3> QED
      BY <3>1, <3>5
  <2> QED
    BY <2>1, <2>2, <2>3
<1>5. \A i \in 1 .. L + 1 : i \in S
  <2>1. L + 1 \in S
    BY <1>0, <1>3
  <2> HIDE DEF S
  <2>2. \A i \in 1 .. L : (\A j \in i + 1 .. L + 1 : j \in S) => i \in S
    BY <1>4
  <2> QED
    BY <1>0, <2>1, <2>2, Downward
<1> QED
  BY <1>5

(* What a scan puts out and keeps from position i on, how far it moves      *)
(* there, and what it puts out there.                                       *)
Out(s, put, m, holds, i) == Scan(s, put, m, holds)[i].out
Held(s, put, m, holds, i) == Scan(s, put, m, holds)[i].carry
Skip(m, i) == IF m[i] > 0 THEN m[i] ELSE 1
Put(s, put, m, i) == IF m[i] > 0 THEN put ELSE <<s[i]>>

(* ScanType, by component.                                                  *)
LEMMA ScanInText ==
  ASSUME NEW s \in Text, NEW put \in Text, NEW m \in Fitting(s), NEW holds, NEW i \in 1 .. Len(s) + 1
  PROVE  Out(s, put, m, holds, i) \in Text /\ Held(s, put, m, holds, i) \in Text
<1>1. Scan(s, put, m, holds)[i] \in Scanned
  BY ScanType
<1> QED
  BY <1>1 DEF Scanned, Out, Held

(* A scan stops at i and keeps the rest; or it puts put or the symbol out   *)
(* and goes on behind the match or the symbol.                              *)
Stops(s, put, m, holds, i) ==
  Out(s, put, m, holds, i) = <<>> /\ Held(s, put, m, holds, i) = From(s, i)
GoesOn(s, put, m, holds, i) ==
  /\ Skip(m, i) \in Nat
  /\ i + Skip(m, i) \in i + 1 .. Len(s) + 1
  /\ Put(s, put, m, i) \in Text
  /\ Out(s, put, m, holds, i) = Put(s, put, m, i) \o Out(s, put, m, holds, i + Skip(m, i))
  /\ Held(s, put, m, holds, i) = Held(s, put, m, holds, i + Skip(m, i))

(* It stops at the end, and at a position that is held.                     *)
LEMMA ScanStops ==
  ASSUME NEW s \in Text, NEW put \in Text, NEW m \in Fitting(s), NEW holds,
         NEW i \in 1 .. Len(s) + 1, i > Len(s) \/ i \in holds
  PROVE  Stops(s, put, m, holds, i)
<1> DEFINE f == Scan(s, put, m, holds)
<1>1. f = [j \in 1 .. Len(s) + 1 |-> ScanStep(s, put, m, holds, f, j)]
  <2>1. Scans(s, put, m, holds)
    BY ScanEquation
  <2> QED
    BY <2>1, Zenon DEF Scans
<1>2. f[i] = [out |-> <<>>, carry |-> From(s, i)]
  BY <1>1, Zenon DEF ScanStep
<1> QED
  BY <1>2 DEF Out, Held, Stops

(* Elsewhere it goes on.                                                    *)
LEMMA ScanGoesOn ==
  ASSUME NEW s \in Text, NEW put \in Text, NEW m \in Fitting(s), NEW holds, NEW i \in 1 .. Len(s), i \notin holds
  PROVE  GoesOn(s, put, m, holds, i)
<1> DEFINE f == Scan(s, put, m, holds)
           n == Skip(m, i)
           x == Put(s, put, m, i)
<1>1. f = [j \in 1 .. Len(s) + 1 |-> ScanStep(s, put, m, holds, f, j)]
  <2>1. Scans(s, put, m, holds)
    BY ScanEquation
  <2> QED
    BY <2>1, Zenon DEF Scans
<1>2. /\ n \in Nat /\ i + n \in i + 1 .. Len(s) + 1 /\ i + n \in 1 .. Len(s) + 1
      /\ i \in 1 .. Len(s) + 1 /\ ~ (i > Len(s))
  BY DEF Fitting, Skip, Text
<1>3. f[i] = ScanStep(s, put, m, holds, f, i)
  BY <1>1, <1>2, Zenon
<1>4. f[i] = [f[i + n] EXCEPT !.out = x \o @]
  BY <1>2, <1>3, Zenon DEF ScanStep, Skip, Put
<1>5. f[i + n] \in Scanned
  BY <1>2, ScanType
<1>6. x \in Text
  BY DEF Put
<1> QED
  <2> HIDE DEF f, n, x
  <2>1. f[i].out = x \o f[i + n].out /\ f[i].carry = f[i + n].carry
    BY <1>4, <1>5, <1>6, ScannedMore
  <2> QED
    BY <1>2, <1>6, <2>1 DEF f, n, x, Out, Held, GoesOn

(* A bounded set of naturals that is not empty has a maximum.               *)
LEMMA BoundedMax ==
  ASSUME NEW B \in Nat, NEW T \in SUBSET (0 .. B), T # {}
  PROVE  Max(T) \in T /\ \A n \in T : n <= Max(T)
<1> DEFINE U == {k \in 0 .. B : B - k \in T}
<1>1. \A n \in T : B - n \in U
  OBVIOUS
<1>2. PICK u \in U : \A v \in U : u <= v
  <2>1. U \in SUBSET Nat
    OBVIOUS
  <2>2. U # {}
    <3> HIDE DEF U
    <3> QED
      BY <1>1
  <2> HIDE DEF U
  <2> QED
    BY <2>1, <2>2, LeastNatural
<1>3. PICK n \in T : u = B - n /\ n \in 0 .. B
  BY <1>2
<1>4. ASSUME NEW k \in T PROVE n >= k
  <2>1. u <= B - k /\ k \in 0 .. B
    BY <1>1, <1>2
  <2> QED
    BY <1>3, <2>1
<1>5. \E x \in T : \A y \in T : x >= y
  BY <1>4
<1>6. Max(T) \in T /\ \A y \in T : Max(T) >= y
  BY <1>5, Zenon DEF Max
<1> QED
  BY <1>6

(* The tail of a text from a position on.                                   *)
LEMMA FromFacts ==
  ASSUME NEW s \in Text, NEW i \in 1 .. Len(s) + 1
  PROVE  /\ From(s, i) \in Text
         /\ Len(From(s, i)) = Len(s) + 1 - i
         /\ \A q \in 1 .. Len(s) + 1 - i : From(s, i)[q] = s[i + q - 1]
  BY DEF From

(* A prefix, symbol by symbol.                                              *)
LEMMA PrefixAt ==
  ASSUME NEW w \in Text, NEW s \in Text
  PROVE  IsPrefix(w, s) <=> Len(w) <= Len(s) /\ \A q \in 1 .. Len(w) : w[q] = s[q]
<1>1. ASSUME Len(w) <= Len(s), \A q \in 1 .. Len(w) : w[q] = s[q]
      PROVE  IsPrefix(w, s)
  BY <1>1 DEF IsPrefix
<1>2. ASSUME IsPrefix(w, s)
      PROVE  Len(w) <= Len(s) /\ \A q \in 1 .. Len(w) : w[q] = s[q]
  <2>1. Len(w) <= Len(s) /\ SubSeq(w, 1, Len(w)) = SubSeq(s, 1, Len(w))
    BY <1>2 DEF IsPrefix
  <2>2. ASSUME NEW q \in 1 .. Len(w) PROVE w[q] = s[q]
    <3>1. SubSeq(w, 1, Len(w))[q] = w[q] /\ SubSeq(s, 1, Len(w))[q] = s[q]
      BY <2>1
    <3> QED
      BY <2>1, <3>1
  <2> QED
    BY <2>1, <2>2
<1> QED
  BY <1>1, <1>2

(* The longest match fits, and no secret that matches is longer.            *)
LEMMA MatchSecretFacts ==
  ASSUME NEW secrets \in SUBSET Text, NEW b \in Text
  PROVE  /\ MatchSecret(secrets, b) \in 0 .. Len(b)
         /\ \A t \in secrets : IsPrefix(t, b) => Len(t) <= MatchSecret(secrets, b)
<1> DEFINE T == {0} \union {Len(t) : t \in {u \in secrets : IsPrefix(u, b)}}
<1>1. \A u \in secrets : IsPrefix(u, b) => Len(u) \in 0 .. Len(b)
  BY PrefixAt
<1>2. T \in SUBSET (0 .. Len(b)) /\ T # {} /\ Len(b) \in Nat
  BY <1>1
<1>3. Max(T) \in T /\ \A n \in T : n <= Max(T)
  <2> HIDE DEF T
  <2> QED
    BY <1>2, BoundedMax
<1>4. MatchSecret(secrets, b) = Max(T)
  BY DEF MatchSecret
<1> QED
  BY <1>2, <1>3, <1>4

(* So the matches of the secrets fit.                                       *)
LEMMA SecretMatchesFit ==
  ASSUME NEW secrets \in SUBSET Text, NEW s \in Text
  PROVE  /\ SecretMatches(secrets, s) \in Fitting(s)
         /\ \A i \in 1 .. Len(s) : SecretMatches(secrets, s)[i] = MatchSecret(secrets, From(s, i))
<1>1. ASSUME NEW i \in 1 .. Len(s)
      PROVE  MatchSecret(secrets, From(s, i)) \in Nat /\ i + MatchSecret(secrets, From(s, i)) <= Len(s) + 1
  <2>1. From(s, i) \in Text /\ Len(From(s, i)) = Len(s) + 1 - i
    BY FromFacts
  <2>2. MatchSecret(secrets, From(s, i)) \in 0 .. Len(From(s, i))
    BY <2>1, MatchSecretFacts
  <2> QED
    BY <2>1, <2>2
<1> QED
  BY <1>1 DEF SecretMatches, Fitting

(* The tail of a tail.                                                      *)
LEMMA FromFrom ==
  ASSUME NEW s \in Text, NEW j \in 1 .. Len(s) + 1, NEW i \in 1 .. Len(s) + 2 - j
  PROVE  From(From(s, j), i) = From(s, i + j - 1)
  BY DEF From

(* The tail of a concatenation, from a position in its first part on.       *)
LEMMA FromConcat ==
  ASSUME NEW s \in Text, NEW d \in Text, NEW i \in 1 .. Len(s) + 1
  PROVE  From(s \o d, i) = From(s, i) \o d
  BY DEF From

(* Concatenation is associative.                                            *)
LEMMA ConcatAssoc ==
  ASSUME NEW a \in Text, NEW b \in Text, NEW c \in Text
  PROVE  (a \o b) \o c = a \o (b \o c)
  OBVIOUS

(* A scan of a tail of s is the scan of s from there on, when the matches   *)
(* are the same.                                                            *)
Alike(V, W, mV, mW, c) ==
  Len(W) = Len(V) + c /\ \A i \in 1 .. Len(V) : V[i] = W[i + c] /\ mV[i] = mW[i + c]
Shifted(V, put, W, mV, mW, c) ==
  \A i \in 1 .. Len(V) + 1 : Out(V, put, mV, {}, i) = Out(W, put, mW, {}, i + c)

LEMMA ScanShift ==
  ASSUME NEW V \in Text, NEW put \in Text, NEW W \in Text, NEW c \in Nat,
         NEW mV \in Fitting(V), NEW mW \in Fitting(W), Alike(V, W, mV, mW, c)
  PROVE  Shifted(V, put, W, mV, mW, c)
<1> USE DEF Alike
<1> DEFINE L == Len(V)
           S == {i \in 1 .. L + 1 : Out(V, put, mV, {}, i) = Out(W, put, mW, {}, i + c)}
<1>0. L \in Nat /\ Len(W) \in Nat
  BY DEF Text
<1>1. L + 1 \in S
  <2>1. L + 1 + c \in 1 .. Len(W) + 1 /\ L + 1 + c > Len(W) /\ L + 1 \in 1 .. L + 1 /\ L + 1 > L
    BY <1>0
  <2>2. Out(V, put, mV, {}, L + 1) = <<>>
    <3>s. Stops(V, put, mV, {}, L + 1)
      BY <2>1, ScanStops
    <3> QED
      BY <2>1, <3>s DEF Stops
  <2>3. Out(W, put, mW, {}, L + 1 + c) = <<>>
    <3>s. Stops(W, put, mW, {}, L + 1 + c)
      BY <2>1, ScanStops
    <3> QED
      BY <2>1, <3>s DEF Stops
  <2> QED
    BY <2>1, <2>2, <2>3
<1>2. ASSUME NEW i \in 1 .. L, \A j \in i + 1 .. L + 1 : j \in S
      PROVE  i \in S
  <2>1. /\ i + Skip(mV, i) \in i + 1 .. L + 1 /\ Skip(mV, i) \in Nat
        /\ Out(V, put, mV, {}, i) = Put(V, put, mV, i) \o Out(V, put, mV, {}, i + Skip(mV, i))
    <3>s. GoesOn(V, put, mV, {}, i)
      BY ScanGoesOn
    <3> QED
      BY <3>s DEF GoesOn
  <2>2. i + c \in 1 .. Len(W) /\ V[i] = W[i + c] /\ mV[i] = mW[i + c]
    BY <1>0
  <2>3. Out(W, put, mW, {}, i + c) = Put(W, put, mW, i + c) \o Out(W, put, mW, {}, i + c + Skip(mW, i + c))
    <3>s. GoesOn(W, put, mW, {}, i + c)
      BY <2>2, ScanGoesOn
    <3> QED
      BY <2>2, <3>s DEF GoesOn
  <2>4. Skip(mV, i) = Skip(mW, i + c) /\ Put(V, put, mV, i) = Put(W, put, mW, i + c)
    BY <2>2, Zenon DEF Skip, Put
  <2>5. PICK n : n = Skip(mV, i)
    OBVIOUS
  <2>6. i + n \in S /\ n \in Nat /\ i + n + c = i + c + n /\ i \in 1 .. L + 1
    <3> HIDE DEF S
    <3> QED BY <1>2, <2>1, <2>5, <1>0
  <2>7. Out(V, put, mV, {}, i) = Out(W, put, mW, {}, i + c)
    BY <2>1, <2>3, <2>4, <2>5, <2>6
  <2> QED
    BY <2>7, <2>6
<1>3. \A i \in 1 .. L + 1 : i \in S
  <2> HIDE DEF S
  <2>1. \A i \in 1 .. L : (\A j \in i + 1 .. L + 1 : j \in S) => i \in S
    BY <1>2
  <2> QED
    BY <1>0, <1>1, <2>1, Downward
<1> QED
  BY <1>3 DEF Shifted

(* Replacing the secrets in a tail is what the scan does from there on.     *)
LEMMA ReplacedFrom ==
  ASSUME NEW secrets \in SUBSET Text, NEW s \in Text,
         NEW j \in 1 .. Len(s) + 1
  PROVE  Out(s, Mark, SecretMatches(secrets, s), {}, j) = ReplaceSecrets(secrets, From(s, j))
<1> DEFINE V == From(s, j)
           mV == SecretMatches(secrets, V)
           mW == SecretMatches(secrets, s)
<1>1. V \in Text /\ Len(V) = Len(s) + 1 - j /\ \A q \in 1 .. Len(V) : V[q] = s[q + (j - 1)]
  <2>1. /\ From(s, j) \in Text /\ Len(From(s, j)) = Len(s) + 1 - j
        /\ \A q \in 1 .. Len(s) + 1 - j : From(s, j)[q] = s[j + q - 1]
    BY FromFacts
  <2>2. PICK v : v = From(s, j)
    OBVIOUS
  <2>3. /\ v \in Text /\ Len(v) = Len(s) + 1 - j
        /\ \A q \in 1 .. Len(s) + 1 - j : v[q] = s[j + q - 1]
    BY <2>1, <2>2, Zenon
  <2>4. \A q \in 1 .. Len(v) : j + q - 1 = q + (j - 1)
    BY <2>3
  <2> QED
    BY <2>2, <2>3, <2>4
<1>2. mV \in Fitting(V) /\ mW \in Fitting(s)
  BY <1>1, SecretMatchesFit
<1>3. ASSUME NEW i \in 1 .. Len(V) PROVE mV[i] = mW[i + (j - 1)]
  <2>1. i + (j - 1) \in 1 .. Len(s) /\ i + (j - 1) = i + j - 1 /\ i \in 1 .. Len(s) + 2 - j
    BY <1>1
  <2>2. From(V, i) = From(s, i + (j - 1))
    BY <2>1, FromFrom
  <2>3. mV[i] = MatchSecret(secrets, From(V, i))
    BY <1>1, SecretMatchesFit
  <2>4. mW[i + (j - 1)] = MatchSecret(secrets, From(s, i + (j - 1)))
    BY <2>1, SecretMatchesFit
  <2> QED
    BY <2>2, <2>3, <2>4
<1>4. Out(V, Mark, mV, {}, 1) = Out(s, Mark, mW, {}, 1 + (j - 1))
  <2> HIDE DEF V, mV, mW
  <2>1. j - 1 \in Nat /\ Len(s) = Len(V) + (j - 1) /\ 1 \in 1 .. Len(V) + 1
    BY <1>1
  <2>2. PICK c \in Nat : c = j - 1
    BY <2>1
  <2>3. Len(s) = Len(V) + c
    BY <2>1, <2>2, Zenon
  <2>4. Alike(V, s, mV, mW, c)
    BY <1>1, <1>3, <2>2, <2>3, Zenon DEF Alike
  <2>5. V \in Text /\ Mark \in Text
    BY <1>1, MarkInText, Zenon
  <2>6. Shifted(V, Mark, s, mV, mW, c)
    BY <1>2, <2>4, <2>5, ScanShift
  <2> QED
    BY <2>1, <2>2, <2>6, Zenon DEF Shifted
<1> QED
  BY <1>4 DEF ReplaceSecrets, Out, Mark

(* A scan keeps nothing, or the tail from a position that is held.          *)
LEMMA ScanHolds ==
  ASSUME NEW s \in Text, NEW put \in Text, NEW m \in Fitting(s), NEW holds
  PROVE  \A i \in 1 .. Len(s) + 1 :
           \/ Held(s, put, m, holds, i) = <<>>
           \/ \E j \in holds : j \in 1 .. Len(s) /\ Held(s, put, m, holds, i) = From(s, j)
<1> DEFINE L == Len(s)
           P(h) == h = <<>> \/ \E j \in holds : j \in 1 .. L /\ h = From(s, j)
           S == {i \in 1 .. L + 1 : P(Held(s, put, m, holds, i))}
<1>0. L \in Nat /\ From(s, L + 1) = <<>>
  BY DEF From
<1>1. L + 1 \in S
  <2>1. L + 1 \in 1 .. L + 1 /\ L + 1 > L
    BY <1>0
  <2>2. Held(s, put, m, holds, L + 1) = <<>>
    <3>s. Stops(s, put, m, holds, L + 1)
      BY <1>0, <2>1, ScanStops
    <3> QED
      BY <1>0, <2>1, <3>s DEF Stops
  <2> QED
    BY <2>1, <2>2
<1>2. ASSUME NEW i \in 1 .. L, \A j \in i + 1 .. L + 1 : j \in S
      PROVE  i \in S
  <2>0. i \in 1 .. L + 1
    OBVIOUS
  <2>1. CASE i \in holds
    <3>1. Held(s, put, m, holds, i) = From(s, i)
      <4>s. Stops(s, put, m, holds, i)
        BY <2>0, <2>1, ScanStops
      <4> QED
        BY <2>0, <2>1, <4>s DEF Stops
    <3> QED
      BY <2>0, <2>1, <3>1
  <2>2. CASE i \notin holds
    <3>0. i + Skip(m, i) \in i + 1 .. L + 1 /\ Held(s, put, m, holds, i) = Held(s, put, m, holds, i + Skip(m, i))
      <4>s. GoesOn(s, put, m, holds, i)
        BY <2>2, ScanGoesOn
      <4> QED
        BY <2>2, <4>s DEF GoesOn
    <3>1. i + Skip(m, i) \in S /\ Held(s, put, m, holds, i) = Held(s, put, m, holds, i + Skip(m, i))
      BY <1>2, <3>0, Zenon
    <3> HIDE DEF P
    <3> QED
      BY <2>0, <3>1
  <2> QED
    BY <2>1, <2>2
<1>3. \A i \in 1 .. L + 1 : i \in S
  <2> HIDE DEF S
  <2>1. \A i \in 1 .. L : (\A j \in i + 1 .. L + 1 : j \in S) => i \in S
    BY <1>2
  <2> QED
    BY <1>0, <1>1, <2>1, Downward
<1> QED
  BY <1>3

(* A text that is no proper prefix of a secret has the same longest match   *)
(* whatever follows it: nothing has to be waited for.                       *)
LEMMA MatchStable ==
  ASSUME NEW secrets \in SUBSET Text, NEW b \in Text, NEW d \in Text,
         ~ IsSecretPrefix(secrets, b)
  PROVE  MatchSecret(secrets, b \o d) = MatchSecret(secrets, b)
<1>1. ASSUME NEW u \in secrets
      PROVE  IsPrefix(u, b \o d) <=> IsPrefix(u, b)
  <2>0. /\ u \in Text /\ b \o d \in Text /\ Len(b \o d) = Len(b) + Len(d)
        /\ Len(u) \in Nat /\ Len(b) \in Nat /\ Len(d) \in Nat
    OBVIOUS
  <2>b. PICK c \in Text : c = b \o d
    BY <2>0, Zenon
  <2>c. Len(c) = Len(b) + Len(d) /\ \A q \in 1 .. Len(b) : c[q] = b[q]
    BY <2>b
  <2>1. ASSUME IsPrefix(u, b) PROVE IsPrefix(u, c)
    <3>1. Len(u) <= Len(b) /\ \A q \in 1 .. Len(u) : u[q] = b[q]
      BY <2>0, <2>1, PrefixAt
    <3>2. ASSUME NEW q \in 1 .. Len(u) PROVE u[q] = c[q]
      <4>1. q \in 1 .. Len(b)
        BY <2>0, <3>1
      <4> QED
        BY <2>c, <3>1, <4>1, Zenon
    <3>3. Len(u) <= Len(c)
      BY <2>0, <2>c, <3>1
    <3> QED
      BY <2>0, <3>2, <3>3, PrefixAt
  <2>2. ASSUME IsPrefix(u, c) PROVE IsPrefix(u, b)
    <3>1. Len(u) <= Len(c) /\ \A q \in 1 .. Len(u) : u[q] = c[q]
      BY <2>0, <2>2, PrefixAt
    <3>2. CASE Len(u) <= Len(b)
      <4>1. ASSUME NEW q \in 1 .. Len(u) PROVE u[q] = b[q]
        <5>1. q \in 1 .. Len(b)
          BY <2>0, <3>2
        <5> QED
          BY <2>c, <3>1, <5>1, Zenon
      <4> QED
        BY <2>0, <3>2, <4>1, PrefixAt
    <3>3. CASE Len(b) < Len(u)
      <4>1. Len(b) <= Len(u) /\ \A q \in 1 .. Len(b) : b[q] = u[q]
        <5>1. ASSUME NEW q \in 1 .. Len(b) PROVE b[q] = u[q]
          <6>1. q \in 1 .. Len(u)
            BY <2>0, <3>3
          <6> QED
            BY <2>c, <3>1, <6>1, Zenon
        <5> QED
          BY <2>0, <3>3, <5>1
      <4>2. IsPrefix(b, u) /\ b # u
        BY <2>0, <3>3, <4>1, PrefixAt
      <4> QED
        BY <4>2 DEF IsSecretPrefix, IsStrictPrefix
    <3> QED
      BY <2>0, <3>2, <3>3
  <2> QED
    BY <2>b, <2>1, <2>2, Zenon
<1>2. {u \in secrets : IsPrefix(u, b \o d)} = {u \in secrets : IsPrefix(u, b)}
  BY <1>1
<1> QED
  BY <1>2, Zenon DEF MatchSecret

(* Concatenation, opaque where only its laws are needed.                    *)
Cat(a, b) == a \o b
(* Every tail that may be the start of a secret is held.                    *)
HoldsPrefixes(secrets, s, holds) ==
  /\ holds \subseteq 1 .. Len(s)
  /\ \A i \in 1 .. Len(s) : i \in holds \/ ~ IsSecretPrefix(secrets, From(s, i))

(* The scan of a buffer, and then of what it keeps and what follows, is the *)
(* scan of the whole: stage one does not depend on where the output is cut. *)
LEMMA StreamedScan ==
  ASSUME NEW secrets \in SUBSET Text, NEW buf \in Text, NEW d \in Text,
         NEW holds, HoldsPrefixes(secrets, buf, holds)
  PROVE  \A i \in 1 .. Len(buf) + 1 :
           Out(Cat(buf, d), Mark, SecretMatches(secrets, Cat(buf, d)), {}, i)
             = Cat(Out(buf, Mark, SecretMatches(secrets, buf), holds, i),
                   ReplaceSecrets(secrets, Cat(Held(buf, Mark, SecretMatches(secrets, buf), holds, i), d)))
<1> USE DEF Cat, HoldsPrefixes
<1> DEFINE L == Len(buf)
           w == buf \o d
           m == SecretMatches(secrets, buf)
           mw == SecretMatches(secrets, w)
           R(h) == ReplaceSecrets(secrets, h \o d)
           S == {i \in 1 .. L + 1 : Out(w, Mark, mw, {}, i) = Out(buf, Mark, m, holds, i) \o R(Held(buf, Mark, m, holds, i))}
<1>0. L \in Nat /\ w \in Text /\ Len(w) = L + Len(d) /\ Len(d) \in Nat
  OBVIOUS
<1>1. m \in Fitting(buf) /\ mw \in Fitting(w)
  BY <1>0, SecretMatchesFit
<1>2. ASSUME NEW h \in Text PROVE R(h) \in Text
  <2>1. h \o d \in Text /\ 1 \in 1 .. Len(h \o d) + 1
    OBVIOUS
  <2>2. SecretMatches(secrets, h \o d) \in Fitting(h \o d)
    BY <2>1, SecretMatchesFit
  <2>3. Out(h \o d, Mark, SecretMatches(secrets, h \o d), {}, 1) \in Text
    BY <2>1, <2>2, ScanInText, MarkInText
  <2> QED
    BY <2>3 DEF ReplaceSecrets, Out, Mark
<1>3. ASSUME NEW i \in 1 .. L + 1, i > L \/ i \in holds
      PROVE  i \in S
  <2>1. Out(buf, Mark, m, holds, i) = <<>> /\ Held(buf, Mark, m, holds, i) = From(buf, i)
    <3>s. Stops(buf, Mark, m, holds, i)
      BY <1>1, <1>3, ScanStops, MarkInText
    <3> QED
      BY <1>1, <1>3, <3>s DEF Stops
  <2>2. Out(w, Mark, mw, {}, i) = ReplaceSecrets(secrets, From(w, i))
    <3>1. i \in 1 .. Len(w) + 1
      BY <1>0
    <3> QED
      BY <1>0, <3>1, ReplacedFrom
  <2>3. From(w, i) = From(buf, i) \o d
    BY FromConcat
  <2>4. From(buf, i) \in Text
    BY FromFacts
  <2>5. R(From(buf, i)) = <<>> \o R(From(buf, i))
    BY <1>2, <2>4
  <2> QED
    BY <2>1, <2>2, <2>3, <2>5
<1>4. ASSUME NEW i \in 1 .. L, \A j \in i + 1 .. L + 1 : j \in S
      PROVE  i \in S
  <2>0. i \in 1 .. L + 1 /\ i \in 1 .. Len(w) /\ w[i] = buf[i]
    BY <1>0
  <2>1. CASE i \in holds
    BY <1>3, <2>0, <2>1
  <2>2. CASE i \notin holds
    <3>1. From(buf, i) \in Text /\ From(w, i) = From(buf, i) \o d
      BY <2>0, FromFacts, FromConcat
    <3>2. m[i] = mw[i]
      <4>1. ~ IsSecretPrefix(secrets, From(buf, i))
        BY <2>2
      <4>2. m[i] = MatchSecret(secrets, From(buf, i)) /\ mw[i] = MatchSecret(secrets, From(w, i))
        BY <1>0, <2>0, SecretMatchesFit
      <4> QED
        BY <3>1, <4>1, <4>2, MatchStable
    <3>3. PICK n, x : n = Skip(m, i) /\ x = Put(buf, Mark, m, i) /\ n = Skip(mw, i) /\ x = Put(w, Mark, mw, i)
      BY <2>0, <3>2, Zenon DEF Skip, Put
    <3>4. /\ n \in Nat /\ i + n \in i + 1 .. L + 1 /\ x \in Text
          /\ Out(buf, Mark, m, holds, i) = x \o Out(buf, Mark, m, holds, i + n)
          /\ Held(buf, Mark, m, holds, i) = Held(buf, Mark, m, holds, i + n)
      <4> HIDE DEF m, mw, S, R, w
      <4>1. /\ Skip(m, i) \in Nat /\ i + Skip(m, i) \in i + 1 .. L + 1 /\ Put(buf, Mark, m, i) \in Text
            /\ Out(buf, Mark, m, holds, i) = Put(buf, Mark, m, i) \o Out(buf, Mark, m, holds, i + Skip(m, i))
            /\ Held(buf, Mark, m, holds, i) = Held(buf, Mark, m, holds, i + Skip(m, i))
        <5>s. GoesOn(buf, Mark, m, holds, i)
          BY <1>1, <2>2, ScanGoesOn, MarkInText
        <5> QED
          BY <1>1, <2>2, <5>s DEF GoesOn
      <4> QED
        BY <3>3, <4>1
    <3>5. Out(w, Mark, mw, {}, i) = x \o Out(w, Mark, mw, {}, i + n)
      <4> HIDE DEF m, mw, S, R, w
      <4>1. Out(w, Mark, mw, {}, i) = Put(w, Mark, mw, i) \o Out(w, Mark, mw, {}, i + Skip(mw, i))
        <5>s. GoesOn(w, Mark, mw, {}, i)
          BY <1>0, <1>1, <2>0, ScanGoesOn, MarkInText
        <5> QED
          BY <1>0, <1>1, <2>0, <5>s DEF GoesOn
      <4> QED
        BY <3>3, <4>1, Zenon
    <3>6. i + n \in S /\ i + n \in 1 .. L + 1
      BY <1>4, <3>4
    <3>7. PICK o, h \in Text : o = Out(buf, Mark, m, holds, i + n) /\ h = Held(buf, Mark, m, holds, i + n)
      BY <1>1, <3>6, ScanInText, MarkInText
    <3>8. PICK r \in Text : r = R(h)
      BY <1>2
    <3>9. Out(w, Mark, mw, {}, i + n) = o \o r
      BY <3>6, <3>7, <3>8
    <3>10. x \o (o \o r) = (x \o o) \o r
      <4>1. x \in Text
        BY <3>4, Zenon
      <4> QED
        BY <4>1, ConcatAssoc, Zenon
    <3>11. Out(w, Mark, mw, {}, i) = Out(buf, Mark, m, holds, i) \o R(Held(buf, Mark, m, holds, i))
      BY <3>4, <3>5, <3>7, <3>8, <3>9, <3>10
    <3> QED
      BY <2>0, <3>11
  <2> QED
    BY <2>1, <2>2
<1>5. \A i \in 1 .. L + 1 : i \in S
  <2>1. L + 1 \in S
    BY <1>0, <1>3
  <2> HIDE DEF S
  <2>2. \A i \in 1 .. L : (\A j \in i + 1 .. L + 1 : j \in S) => i \in S
    BY <1>4
  <2> QED
    BY <1>0, <2>1, <2>2, Downward
<1> QED
  BY <1>5

(* What is looked for: texts of the tool that are not empty; w at position  *)
(* p + 1 of s, and somewhere in s.                                          *)
Phrases == Seq(Symbols) \ {<<>>}
At(w, s, p) == p + Len(w) <= Len(s) /\ \A q \in 1 .. Len(w) : s[p + q] = w[q]
Occurs(w, s) == \E p \in 0 .. Len(s) : At(w, s, p)

(* A phrase holds no mark.                                                  *)
LEMMA PhraseFacts ==
  ASSUME NEW w \in Phrases
  PROVE  /\ w \in Text /\ Len(w) \in Nat /\ Len(w) > 0
         /\ \A q \in 1 .. Len(w) : w[q] \notin Marks
<1>1. w \in Seq(Symbols) /\ w # <<>>
  BY DEF Phrases
<1>2. Len(w) \in Nat /\ \A q \in 1 .. Len(w) : w[q] \in Symbols
  BY <1>1
<1>3. \A q \in 1 .. Len(w) : w[q] \in Alphabet
  BY <1>2 DEF Alphabet
<1>4. w \in Seq(Alphabet)
  BY <1>1, <1>2, <1>3
<1>5. Len(w) > 0
  BY <1>1
<1> QED
  BY <1>2, <1>4, <1>5, SymbolAssumption

(* A phrase at a place of a is at the same place of a concatenation with a. *)
LEMMA OccursLeft ==
  ASSUME NEW w \in Text, NEW a \in Text, NEW b \in Text, NEW p \in Nat, At(w, a, p)
  PROVE  At(w, a \o b, p)
  BY DEF At

(* And shifted, when something is put in front.                             *)
LEMMA OccursRight ==
  ASSUME NEW w \in Text, NEW a \in Text, NEW b \in Text, NEW p \in Nat, At(w, b, p)
  PROVE  At(w, a \o b, Len(a) + p)
<1>1. p + Len(w) <= Len(b) /\ \A q \in 1 .. Len(w) : b[p + q] = w[q]
  BY DEF At
<1>2. Len(a \o b) = Len(a) + Len(b) /\ \A k \in 1 .. Len(b) : (a \o b)[Len(a) + k] = b[k]
  OBVIOUS
<1>3. ASSUME NEW q \in 1 .. Len(w) PROVE (a \o b)[Len(a) + p + q] = w[q]
  <2>1. p + q \in 1 .. Len(b) /\ Len(a) + p + q = Len(a) + (p + q)
    BY <1>1
  <2> QED
    BY <1>1, <1>2, <2>1
<1> QED
  BY <1>1, <1>2, <1>3 DEF At

(* A phrase does not reach across a mark.                                   *)
LEMMA OccursSplit ==
  ASSUME NEW w \in Phrases, NEW a \in Text, NEW b \in Text, NEW p \in Nat,
         NEW x \in Marks,
         At(w, a \o (<<x>> \o b), p)
  PROVE  \/ p <= Len(a) /\ At(w, a, p)
         \/ p > Len(a) /\ At(w, b, p - (Len(a) + 1))
<1> DEFINE t == a \o (<<x>> \o b)
<1>0. w \in Text /\ Len(w) \in Nat /\ Len(w) > 0 /\ \A q \in 1 .. Len(w) : w[q] # x
  BY PhraseFacts
<1>1. /\ Len(t) = Len(a) + 1 + Len(b) /\ t[Len(a) + 1] = x
      /\ \A k \in 1 .. Len(a) : t[k] = a[k]
      /\ \A k \in 1 .. Len(b) : t[Len(a) + 1 + k] = b[k]
  BY MarkText
<1>2. p + Len(w) <= Len(t) /\ \A q \in 1 .. Len(w) : t[p + q] = w[q]
  BY DEF At
<1> HIDE DEF t
<1>3. CASE p + Len(w) <= Len(a)
  <2>1. ASSUME NEW q \in 1 .. Len(w) PROVE a[p + q] = w[q]
    <3>1. p + q \in 1 .. Len(a)
      BY <1>0, <1>3
    <3> QED
      BY <1>1, <1>2, <3>1
  <2> QED
    BY <1>0, <1>3, <2>1 DEF At
<1>4. CASE p > Len(a)
  <2>1. ASSUME NEW q \in 1 .. Len(w) PROVE b[p - (Len(a) + 1) + q] = w[q]
    <3>1. p - (Len(a) + 1) + q \in 1 .. Len(b) /\ Len(a) + 1 + (p - (Len(a) + 1) + q) = p + q
      BY <1>0, <1>1, <1>2, <1>4
    <3> QED
      BY <1>1, <1>2, <3>1
  <2> QED
    BY <1>0, <1>1, <1>2, <1>4, <2>1 DEF At
<1>5. CASE p <= Len(a) /\ p + Len(w) > Len(a)
  <2>1. Len(a) + 1 - p \in 1 .. Len(w) /\ p + (Len(a) + 1 - p) = Len(a) + 1
    BY <1>0, <1>5
  <2>2. t[Len(a) + 1] = w[Len(a) + 1 - p]
    BY <1>2, <2>1
  <2> QED
    BY <1>0, <1>1, <2>1, <2>2
<1> QED
  BY <1>0, <1>3, <1>4, <1>5

(* A contiguous part of s occurs in s.                                      *)
LEMMA SubSeqOccurs ==
  ASSUME NEW w \in Phrases, NEW s \in Text, w \in SubSeqs(s)
  PROVE  Occurs(w, s)
<1>0. w \in Text /\ Len(w) \in Nat /\ Len(w) > 0
  BY PhraseFacts
<1>1. PICK i, j \in 0 .. Len(s) : w = SubSeq(s, i + 1, j)
  BY DEF SubSeqs
<1>2. i < j
  BY <1>0, <1>1
<1>3. Len(w) = j - i /\ \A q \in 1 .. j - i : w[q] = s[i + q]
  BY <1>1, <1>2
<1>4. At(w, s, i)
  BY <1>2, <1>3 DEF At
<1> QED
  BY <1>4 DEF Occurs

(* A phrase at position 1 is a prefix.                                      *)
LEMMA AtStart ==
  ASSUME NEW w \in Text, NEW s \in Text
  PROVE  At(w, s, 0) <=> IsPrefix(w, s)
<1>1. \A q \in 1 .. Len(w) : 0 + q = q
  OBVIOUS
<1> QED
  BY <1>1, PrefixAt DEF At

(* The tail behind the first symbol.                                        *)
LEMMA FromCons ==
  ASSUME NEW s \in Text, NEW i \in 1 .. Len(s)
  PROVE  s[i] \in Alphabet /\ From(s, i) = <<s[i]>> \o From(s, i + 1)
<1>1. s[i] \in Alphabet
  OBVIOUS
<1>2. From(s, i) = <<s[i]>> \o From(s, i + 1)
  BY DEF From
<1> QED
  BY <1>1, <1>2

(* A symbol between two texts.                                              *)
LEMMA ConsBehind ==
  ASSUME NEW a \in Text, NEW x \in Alphabet, NEW b \in Text
  PROVE  (a \o <<x>>) \o b = a \o (<<x>> \o b)
<1>1. <<x>> \in Text
  OBVIOUS
<1> QED
  BY <1>1, ConcatAssoc

(* A tail is its first symbol and the next tail.                            *)
LEMMA FromStep ==
  ASSUME NEW s \in Text, NEW a \in Text, NEW i \in 1 .. Len(s)
  PROVE  /\ s[i] \in Alphabet
         /\ (a \o <<s[i]>>) \o From(s, i + 1) = a \o From(s, i)
<1>1. s[i] \in Alphabet /\ From(s, i) = <<s[i]>> \o From(s, i + 1)
  BY FromCons
<1>2. From(s, i + 1) \in Text /\ <<s[i]>> \in Text
  <2>1. i + 1 \in 1 .. Len(s) + 1
    OBVIOUS
  <2> QED
    BY <1>1, <2>1, FromFacts
<1>3. (a \o <<s[i]>>) \o From(s, i + 1) = a \o (<<s[i]>> \o From(s, i + 1))
  BY <1>2, ConcatAssoc, Zenon
<1> QED
  BY <1>1, <1>3, Zenon

(* A phrase that begins before or at the place where the output of a scan   *)
(* begins was there before the scan: replacements only destroy.             *)
LEMMA StartKept ==
  ASSUME NEW s \in Text, NEW m \in Fitting(s), NEW x \in Marks, NEW put \in Text, put = <<x>>,
         NEW w \in Phrases
  PROVE  \A i \in 1 .. Len(s) + 1 : \A a \in Text : \A p \in 0 .. Len(a) :
           At(w, a \o Out(s, put, m, {}, i), p) => At(w, a \o From(s, i), p)
<1> DEFINE L == Len(s)
           P(i) == \A a \in Text : \A p \in 0 .. Len(a) :
                     At(w, a \o Out(s, put, m, {}, i), p) => At(w, a \o From(s, i), p)
           S == {i \in 1 .. L + 1 : P(i)}
<1>0. L \in Nat /\ L + 1 \in 1 .. L + 1 /\ L + 1 > L /\ w \in Text
  BY PhraseFacts
<1>1. L + 1 \in S
  <2>1. Out(s, put, m, {}, L + 1) = <<>> /\ From(s, L + 1) = <<>>
    <3>s. Stops(s, put, m, {}, L + 1)
      BY <1>0, ScanStops
    <3> QED
      BY <1>0, <3>s DEF Stops, From
  <2> QED
    BY <1>0, <2>1
<1>2. ASSUME NEW i \in 1 .. L, \A j \in i + 1 .. L + 1 : j \in S
      PROVE  i \in S
  <2>1. /\ Skip(m, i) \in Nat /\ i + Skip(m, i) \in i + 1 .. L + 1
        /\ Out(s, put, m, {}, i) = Put(s, put, m, i) \o Out(s, put, m, {}, i + Skip(m, i))
    <3>s. GoesOn(s, put, m, {}, i)
      BY ScanGoesOn
    <3> QED
      BY <3>s DEF GoesOn
  <2>2. PICK o \in Text : o = Out(s, put, m, {}, i + Skip(m, i))
    <3>1. i + Skip(m, i) \in 1 .. L + 1
      BY <2>1
    <3> QED
      BY <3>1, ScanInText, Zenon
  <2>3. From(s, i) \in Text
    BY FromFacts
  <2>4. ASSUME NEW a \in Text, NEW p \in 0 .. Len(a), At(w, a \o Out(s, put, m, {}, i), p)
        PROVE  At(w, a \o From(s, i), p)
    <3>1. CASE m[i] > 0
      <4>1. Put(s, put, m, i) = <<x>>
        BY <3>1 DEF Put
      <4>2. At(w, a \o (<<x>> \o o), p)
        BY <2>1, <2>2, <2>4, <4>1, Zenon
      <4>0. p \in Nat
        OBVIOUS
      <4>3. At(w, a, p)
        BY <4>0, <4>2, OccursSplit
      <4> QED
        BY <1>0, <2>3, <4>0, <4>3, OccursLeft
    <3>2. CASE ~ (m[i] > 0)
      <4>1. Put(s, put, m, i) = <<s[i]>> /\ Skip(m, i) = 1
        BY <3>2 DEF Put, Skip
      <4>2. s[i] \in Alphabet /\ (a \o <<s[i]>>) \o From(s, i + 1) = a \o From(s, i)
        BY FromStep
      <4>3. a \o <<s[i]>> \in Text /\ p \in 0 .. Len(a \o <<s[i]>>)
        BY <4>2
      <4>4. (a \o <<s[i]>>) \o o = a \o (<<s[i]>> \o o)
        BY <4>2, ConcatAssoc, SMTT(30)
      <4>5. At(w, (a \o <<s[i]>>) \o Out(s, put, m, {}, i + 1), p)
        BY <2>1, <2>2, <2>4, <4>1, <4>4
      <4>6. P(i + 1)
        BY <1>2, <2>1, <4>1
      <4> QED
        BY <4>2, <4>3, <4>5, <4>6, Zenon
    <3> QED
      BY <3>1, <3>2
  <2> QED
    BY <1>0, <2>4
<1>3. \A i \in 1 .. L + 1 : i \in S
  <2> HIDE DEF S
  <2>1. \A i \in 1 .. L : (\A j \in i + 1 .. L + 1 : j \in S) => i \in S
    BY <1>2
  <2> QED
    BY <1>0, <1>1, <2>1, Downward
<1> QED
  BY <1>3

(* What occurs in a part occurs in the whole.                               *)
LEMMA OccursConcat ==
  ASSUME NEW w \in Text, NEW a \in Text, NEW b \in Text
  PROVE  /\ Occurs(w, a) => Occurs(w, a \o b)
         /\ Occurs(w, b) => Occurs(w, a \o b)
<1>1. ASSUME NEW p \in 0 .. Len(a), At(w, a, p) PROVE Occurs(w, a \o b)
  <2>1. At(w, a \o b, p) /\ p \in 0 .. Len(a \o b)
    BY <1>1, OccursLeft
  <2> QED
    BY <2>1 DEF Occurs
<1>2. ASSUME NEW p \in 0 .. Len(b), At(w, b, p) PROVE Occurs(w, a \o b)
  <2>1. At(w, a \o b, Len(a) + p) /\ Len(a) + p \in 0 .. Len(a \o b)
    BY <1>2, OccursRight
  <2> QED
    BY <2>1 DEF Occurs
<1> QED
  BY <1>1, <1>2 DEF Occurs

(* What occurs around a mark occurs on one side of it.                      *)
LEMMA OccursAround ==
  ASSUME NEW w \in Phrases, NEW x \in Marks, NEW a \in Text, NEW b \in Text, Occurs(w, a \o (<<x>> \o b))
  PROVE  Occurs(w, a) \/ Occurs(w, b)
<1> DEFINE t == a \o (<<x>> \o b)
<1>0. w \in Text /\ Len(w) \in Nat
  BY PhraseFacts
<1>1. PICK p \in 0 .. Len(t) : At(w, t, p)
  BY DEF Occurs
<1>2. p \in Nat /\ (\/ p <= Len(a) /\ At(w, a, p)
                    \/ p > Len(a) /\ At(w, b, p - (Len(a) + 1)))
  <2>1. p \in Nat
    BY MarkText
  <2> QED
    BY <1>1, <2>1, OccursSplit
<1>3. CASE p <= Len(a) /\ At(w, a, p)
  BY <1>2, <1>3 DEF Occurs
<1>4. CASE p > Len(a) /\ At(w, b, p - (Len(a) + 1))
  <2>1. p - (Len(a) + 1) \in 0 .. Len(b)
    BY <1>0, <1>2, <1>4 DEF At
  <2> QED
    BY <1>4, <2>1 DEF Occurs
<1> QED
  BY <1>2, <1>3, <1>4

(* A later tail is the end of an earlier one.                               *)
LEMMA FromLater ==
  ASSUME NEW s \in Text, NEW i \in 1 .. Len(s), NEW j \in i + 1 .. Len(s) + 1
  PROVE  \E b \in Text : From(s, i) = b \o From(s, j)
<1>1. SubSeq(s, i, j - 1) \in Text /\ From(s, i) = SubSeq(s, i, j - 1) \o From(s, j)
  BY DEF From
<1> QED
  BY <1>1

(* In any context, a phrase that occurs with the output of a scan occurs    *)
(* with its input: a replacement joins nothing together.                    *)
LEMMA ContextKept ==
  ASSUME NEW s \in Text, NEW m \in Fitting(s), NEW x \in Marks, NEW put \in Text, put = <<x>>,
         NEW w \in Phrases
  PROVE  \A i \in 1 .. Len(s) + 1 : \A a, d \in Text :
           Occurs(w, (a \o Out(s, put, m, {}, i)) \o d) => Occurs(w, (a \o From(s, i)) \o d)
<1> DEFINE L == Len(s)
           P(i) == \A a, d \in Text :
                     Occurs(w, (a \o Out(s, put, m, {}, i)) \o d) => Occurs(w, (a \o From(s, i)) \o d)
           S == {i \in 1 .. L + 1 : P(i)}
<1>0. L \in Nat /\ L + 1 \in 1 .. L + 1 /\ L + 1 > L /\ w \in Text /\ <<>> \in Text
  BY PhraseFacts
<1>1. L + 1 \in S
  <2>1. Out(s, put, m, {}, L + 1) = <<>> /\ From(s, L + 1) = <<>>
    <3>s. Stops(s, put, m, {}, L + 1)
      BY <1>0, ScanStops
    <3> QED
      BY <1>0, <3>s DEF Stops, From
  <2>2. P(L + 1)
    BY <2>1, Zenon
  <2> QED
    BY <1>0, <2>2
<1>2. ASSUME NEW i \in 1 .. L, \A j \in i + 1 .. L + 1 : j \in S
      PROVE  i \in S
  <2>1. /\ Skip(m, i) \in Nat /\ i + Skip(m, i) \in i + 1 .. L + 1 /\ i \in 1 .. L + 1
        /\ Out(s, put, m, {}, i) = Put(s, put, m, i) \o Out(s, put, m, {}, i + Skip(m, i))
    <3>s. GoesOn(s, put, m, {}, i)
      BY ScanGoesOn
    <3>i. i \in 1 .. L + 1
      OBVIOUS
    <3> QED
      BY <3>s, <3>i, Zenon DEF GoesOn
  <2>2. PICK o \in Text : o = Out(s, put, m, {}, i + Skip(m, i))
    <3>1. i + Skip(m, i) \in 1 .. L + 1
      BY <2>1
    <3> QED
      BY <3>1, ScanInText, Zenon
  <2>3. PICK f, g, b \in Text : f = From(s, i) /\ g = From(s, i + Skip(m, i)) /\ f = b \o g
    <3>1. i + Skip(m, i) \in 1 .. L + 1
      BY <2>1
    <3>2. From(s, i) \in Text /\ From(s, i + Skip(m, i)) \in Text
      BY <2>1, <3>1, FromFacts
    <3>3. \E b \in Text : From(s, i) = b \o From(s, i + Skip(m, i))
      BY <2>1, FromLater
    <3> QED
      BY <3>2, <3>3
  <2>4. P(i + Skip(m, i))
    BY <1>2, <2>1
  <2>5. ASSUME NEW a \in Text, NEW d \in Text, Occurs(w, (a \o Out(s, put, m, {}, i)) \o d)
        PROVE  Occurs(w, (a \o From(s, i)) \o d)
    <3>1. CASE m[i] > 0
      <4>1. Put(s, put, m, i) = put
        BY <3>1 DEF Put
      <4>2. (a \o (put \o o)) \o d = a \o (put \o (o \o d))
        BY SMTT(30)
      <4>3. Occurs(w, a \o (put \o (o \o d)))
        BY <2>1, <2>2, <2>5, <4>1, <4>2, Zenon
      <4>4. o \o d \in Text /\ a \o f \in Text /\ g \o d \in Text /\ f \o d \in Text
        OBVIOUS
      <4>5. CASE Occurs(w, a)
        <5>1. Occurs(w, a \o f)
          BY <1>0, <4>5, OccursConcat
        <5>2. Occurs(w, (a \o f) \o d)
          BY <1>0, <4>4, <5>1, OccursConcat
        <5> QED
          BY <2>3, <5>2
      <4>6. CASE Occurs(w, o \o d)
        <5>1. o \o d = (<<>> \o o) \o d /\ (<<>> \o g) \o d = g \o d
          OBVIOUS
        <5>2. Occurs(w, g \o d)
          BY <1>0, <2>2, <2>3, <2>4, <4>6, <5>1
        <5>3. Occurs(w, b \o (g \o d))
          BY <1>0, <4>4, <5>2, OccursConcat
        <5>4. b \o (g \o d) = f \o d
          <6>1. (b \o g) \o d = b \o (g \o d)
            BY SMTT(30)
          <6> QED
            BY <2>3, <6>1, Zenon
        <5>5. Occurs(w, a \o (f \o d))
          BY <1>0, <4>4, <5>3, <5>4, OccursConcat
        <5>6. a \o (f \o d) = (a \o f) \o d
          BY SMTT(30)
        <5> QED
          BY <2>3, <5>5, <5>6
      <4> QED
        BY <4>3, <4>4, <4>5, <4>6, OccursAround
    <3>2. CASE ~ (m[i] > 0)
      <4>1. Put(s, put, m, i) = <<s[i]>> /\ Skip(m, i) = 1
        BY <3>2 DEF Put, Skip
      <4>2. s[i] \in Alphabet /\ (a \o <<s[i]>>) \o From(s, i + 1) = a \o From(s, i)
        BY FromStep
      <4>3. a \o <<s[i]>> \in Text /\ <<s[i]>> \in Text
        BY <4>2
      <4>4. (a \o <<s[i]>>) \o o = a \o (<<s[i]>> \o o)
        BY <4>2, ConsBehind
      <4>5. Occurs(w, ((a \o <<s[i]>>) \o Out(s, put, m, {}, i + 1)) \o d)
        BY <2>1, <2>2, <2>5, <4>1, <4>4
      <4> QED
        BY <2>4, <4>1, <4>2, <4>3, <4>5, Zenon
    <3> QED
      BY <3>1, <3>2
  <2> HIDE DEF P
  <2>6. P(i)
    BY <2>5 DEF P
  <2> QED
    BY <2>1, <2>6
<1>3. \A i \in 1 .. L + 1 : i \in S
  <2> HIDE DEF S
  <2>1. \A i \in 1 .. L : (\A j \in i + 1 .. L + 1 : j \in S) => i \in S
    BY <1>2
  <2> QED
    BY <1>0, <1>1, <2>1, Downward
<1> QED
  BY <1>3

(* A phrase that is matched wherever it begins does not occur in the output *)
(* of the scan.                                                             *)
LEMMA NoneLeft ==
  ASSUME NEW s \in Text, NEW m \in Fitting(s), NEW x \in Marks, NEW put \in Text, put = <<x>>,
         NEW w \in Phrases,
         \A i \in 1 .. Len(s) : IsPrefix(w, From(s, i)) => m[i] > 0
  PROVE  \A i \in 1 .. Len(s) + 1 : ~ Occurs(w, Out(s, put, m, {}, i))
<1> DEFINE L == Len(s)
           S == {i \in 1 .. L + 1 : ~ Occurs(w, Out(s, put, m, {}, i))}
<1>0. L \in Nat /\ L + 1 \in 1 .. L + 1 /\ L + 1 > L /\ w \in Text /\ Len(w) \in Nat /\ Len(w) > 0
  BY PhraseFacts
<1>e. ~ Occurs(w, <<>>)
  BY <1>0 DEF Occurs, At
<1>1. L + 1 \in S
  <2>1. Out(s, put, m, {}, L + 1) = <<>>
    <3>s. Stops(s, put, m, {}, L + 1)
      BY <1>0, ScanStops
    <3> QED
      BY <1>0, <3>s DEF Stops
  <2> QED
    BY <1>0, <1>e, <2>1
<1>2. ASSUME NEW i \in 1 .. L, \A j \in i + 1 .. L + 1 : j \in S
      PROVE  i \in S
  <2>1. /\ Skip(m, i) \in Nat /\ i + Skip(m, i) \in i + 1 .. L + 1 /\ i \in 1 .. L + 1
        /\ Out(s, put, m, {}, i) = Put(s, put, m, i) \o Out(s, put, m, {}, i + Skip(m, i))
    <3>s. GoesOn(s, put, m, {}, i)
      BY ScanGoesOn
    <3>i. i \in 1 .. L + 1
      OBVIOUS
    <3> QED
      BY <3>s, <3>i, Zenon DEF GoesOn
  <2>2. PICK o \in Text : o = Out(s, put, m, {}, i + Skip(m, i))
    <3>1. i + Skip(m, i) \in 1 .. L + 1
      BY <2>1
    <3> QED
      BY <3>1, ScanInText, Zenon
  <2>3. ~ Occurs(w, o)
    BY <1>2, <2>1, <2>2
  <2>4. ASSUME Occurs(w, Out(s, put, m, {}, i)) PROVE FALSE
    <3>1. CASE m[i] > 0
      <4>1. Put(s, put, m, i) = <<x>>
        BY <3>1 DEF Put
      <4>2. Out(s, put, m, {}, i) = <<>> \o (<<x>> \o o) /\ <<>> \in Text
        <5>1. Out(s, put, m, {}, i) = <<x>> \o o
          BY <2>1, <2>2, <4>1, Zenon
        <5>2. <<x>> \o o = <<>> \o (<<x>> \o o) /\ <<>> \in Text
          BY MarkText
        <5> QED
          BY <5>1, <5>2, Zenon
      <4>3. Occurs(w, <<>> \o (<<x>> \o o))
        BY <2>4, <4>2
      <4> QED
        BY <1>e, <2>3, <4>2, <4>3, OccursAround
    <3>2. CASE ~ (m[i] > 0)
      <4>1. Put(s, put, m, i) = <<s[i]>> /\ Skip(m, i) = 1 /\ i + 1 \in 1 .. L + 1
        BY <3>2 DEF Put, Skip
      <4>2. s[i] \in Alphabet /\ From(s, i) = <<s[i]>> \o From(s, i + 1)
        BY FromCons
      <4>3. From(s, i) \in Text /\ From(s, i + 1) \in Text
        BY <2>1, <4>1, FromFacts
      <4>4. <<s[i]>> \o From(s, i + 1) = From(s, i) /\ <<s[i]>> \in Text
        BY <4>2, <4>3
      <4>5. PICK p \in 0 .. Len(<<s[i]>> \o o) : At(w, <<s[i]>> \o o, p)
        BY <2>1, <2>2, <2>4, <4>1 DEF Occurs
      <4>6. CASE p = 0
        <5>1. 0 \in 0 .. Len(<<s[i]>>)
          BY <4>4
        <5>2. At(w, <<s[i]>> \o Out(s, put, m, {}, i + 1), 0)
          BY <2>2, <4>1, <4>5, <4>6
        <5>3. At(w, From(s, i), 0)
          <6>1. \A a \in Text : \A q \in 0 .. Len(a) :
                  At(w, a \o Out(s, put, m, {}, i + 1), q) => At(w, a \o From(s, i + 1), q)
            BY <4>1, StartKept
          <6>2. At(w, <<s[i]>> \o From(s, i + 1), 0)
            BY <4>4, <5>1, <5>2, <6>1, Zenon
          <6> QED
            BY <4>4, <6>2, Zenon
        <5>4. IsPrefix(w, From(s, i))
          BY <1>0, <4>3, <5>3, AtStart
        <5> QED
          BY <3>2, <5>4
      <4>7. CASE p # 0
        <5>1. p - 1 \in 0 .. Len(o) /\ At(w, o, p - 1)
          BY <1>0, <4>2, <4>5, <4>7 DEF At
        <5> QED
          BY <2>3, <5>1 DEF Occurs
      <4> QED
        BY <4>6, <4>7
    <3> QED
      BY <3>1, <3>2
  <2> QED
    BY <2>1, <2>4
<1>3. \A i \in 1 .. L + 1 : i \in S
  <2> HIDE DEF S
  <2>1. \A i \in 1 .. L : (\A j \in i + 1 .. L + 1 : j \in S) => i \in S
    BY <1>2
  <2> QED
    BY <1>0, <1>1, <2>1, Downward
<1> QED
  BY <1>3

(* A text that holds a mark.                                                *)
Marked(s) == \E r \in 1 .. Len(s) : s[r] \in Marks

(* A scan leaves a mark behind or changes nothing.                          *)
LEMMA MarkedOrSame ==
  ASSUME NEW s \in Text, NEW m \in Fitting(s), NEW x \in Marks, NEW put \in Text, put = <<x>>
  PROVE  \A i \in 1 .. Len(s) + 1 : Marked(Out(s, put, m, {}, i)) \/ Out(s, put, m, {}, i) = From(s, i)
<1> DEFINE L == Len(s)
           P(i) == Marked(Out(s, put, m, {}, i)) \/ Out(s, put, m, {}, i) = From(s, i)
           S == {i \in 1 .. L + 1 : P(i)}
<1>0. L \in Nat /\ L + 1 \in 1 .. L + 1 /\ L + 1 > L
  OBVIOUS
<1>1. L + 1 \in S
  <2>1. Out(s, put, m, {}, L + 1) = <<>> /\ From(s, L + 1) = <<>>
    <3>s. Stops(s, put, m, {}, L + 1)
      BY <1>0, ScanStops
    <3> QED
      BY <1>0, <3>s DEF Stops, From
  <2> QED
    BY <1>0, <2>1
<1>2. ASSUME NEW i \in 1 .. L, \A j \in i + 1 .. L + 1 : j \in S
      PROVE  i \in S
  <2>1. /\ Skip(m, i) \in Nat /\ i + Skip(m, i) \in i + 1 .. L + 1 /\ i \in 1 .. L + 1
        /\ Out(s, put, m, {}, i) = Put(s, put, m, i) \o Out(s, put, m, {}, i + Skip(m, i))
    <3>s. GoesOn(s, put, m, {}, i)
      BY ScanGoesOn
    <3>i. i \in 1 .. L + 1
      OBVIOUS
    <3> QED
      BY <3>s, <3>i, Zenon DEF GoesOn
  <2>2. PICK o, t \in Text : o = Out(s, put, m, {}, i + Skip(m, i)) /\ t = Out(s, put, m, {}, i)
    <3>1. i + Skip(m, i) \in 1 .. L + 1
      BY <2>1
    <3> QED
      BY <2>1, <3>1, ScanInText, Zenon
  <2>3. PICK y \in Alphabet : Put(s, put, m, i) = <<y>> /\ (m[i] > 0 => y = x)
                               /\ (~ (m[i] > 0) => y = s[i])
    BY MarkText DEF Put
  <2>4. /\ t = <<y>> \o o /\ Len(t) = Len(o) + 1 /\ t[1] = y
        /\ \A r \in 1 .. Len(o) : r + 1 \in 1 .. Len(t) /\ t[r + 1] = o[r]
    <3>1. t = <<y>> \o o
      BY <2>1, <2>2, <2>3, Zenon
    <3> QED
      BY <3>1
  <2>5. P(i)
    <3>1. CASE m[i] > 0
      <4>1. t[1] \in Marks /\ 1 \in 1 .. Len(t)
        BY <2>3, <2>4, <3>1
      <4> QED
        BY <2>2, <4>1 DEF Marked
    <3>2. CASE ~ (m[i] > 0)
      <4>1. y = s[i] /\ Skip(m, i) = 1
        BY <2>3, <3>2 DEF Skip
      <4>2. P(i + 1)
        <5>1. i + 1 \in i + 1 .. L + 1
          BY <2>1, <4>1
        <5> QED
          BY <1>2, <5>1
      <4>3. CASE Marked(o)
        <5>1. PICK r \in 1 .. Len(o) : o[r] \in Marks
          BY <4>3 DEF Marked
        <5>2. r + 1 \in 1 .. Len(t) /\ t[r + 1] \in Marks
          BY <2>4, <5>1
        <5>3. Marked(t)
          BY <5>2, Zenon DEF Marked
        <5> QED
          BY <2>2, <5>3, Zenon
      <4>4. CASE o = From(s, i + 1)
        <5>1. From(s, i) = <<s[i]>> \o From(s, i + 1)
          BY FromCons
        <5>2. From(s, i) \in Text
          BY <2>1, FromFacts
        <5>3. <<s[i]>> \o o = From(s, i)
          BY <2>3, <4>1, <4>4, <5>1, <5>2
        <5> QED
          BY <2>2, <2>4, <4>1, <5>3
      <4> QED
        BY <2>2, <4>1, <4>2, <4>3, <4>4
    <3> QED
      BY <3>1, <3>2
  <2> QED
    BY <2>1, <2>5
<1>3. \A i \in 1 .. L + 1 : i \in S
  <2> HIDE DEF S
  <2>1. \A i \in 1 .. L : (\A j \in i + 1 .. L + 1 : j \in S) => i \in S
    BY <1>2
  <2> QED
    BY <1>0, <1>1, <2>1, Downward
<1> QED
  BY <1>3

(* The match of a rule fits, and is not empty where the head begins.        *)
LEMMA MatchRuleFacts ==
  ASSUME NEW rule, rule.head \in Text, rule.head # <<>>, NEW b \in Text
  PROVE  /\ MatchRule(rule, b) \in 0 .. Len(b)
         /\ IsPrefix(rule.head, b) => MatchRule(rule, b) > 0
<1>1. PICK h \in Text : h = rule.head
  OBVIOUS
<1>2. h \in Text /\ Len(h) \in Nat /\ Len(h) > 0 /\ Len(b) \in Nat
  BY <1>1
<1>3. CASE ~ IsPrefix(h, b)
  <2>1. MatchRule(rule, b) = 0
    BY <1>1, <1>3 DEF MatchRule
  <2> QED
    BY <1>1, <1>2, <1>3, <2>1
<1>4. CASE IsPrefix(h, b)
  <2> DEFINE Ends(n) == n = Len(b) \/ b[n + 1] \notin rule.tail
             Run(n) == \A i \in Len(h) + 1 .. n : b[i] \in rule.tail
             T == {n \in Len(h) .. Len(b) : Ends(n)}
  <2>1. Len(h) <= Len(b)
    BY <1>2, <1>4, PrefixAt
  <2>2. T \in SUBSET Nat /\ T # {}
    <3>1. Len(b) \in T
      BY <1>2, <2>1
    <3>2. T \in SUBSET Nat
      BY <1>2
    <3> QED
      BY <3>1, <3>2, Zenon
  <2>3. PICK n \in T : \A k \in T : n <= k
    <3> HIDE DEF T
    <3> QED
      BY <2>2, LeastNatural
  <2>4. n \in Len(h) .. Len(b) /\ Ends(n)
    BY <2>3
  <2>5. ASSUME NEW i \in Len(h) + 1 .. n PROVE b[i] \in rule.tail
    <3>1. i - 1 \in Len(h) .. Len(b) /\ i - 1 < n /\ i - 1 # Len(b) /\ (i - 1) + 1 = i
      BY <1>2, <2>4
    <3>2. i - 1 \notin T
      <4> HIDE DEF T, Ends
      <4> QED
        BY <1>2, <2>3, <2>4, <3>1
    <3>3. ~ Ends(i - 1)
      BY <3>1, <3>2
    <3> QED
      BY <3>1, <3>3
  <2>6. \E k \in Len(h) .. Len(b) : Run(k) /\ Ends(k)
    BY <2>4, <2>5
  <2>7. MatchRule(rule, b) = CHOOSE k \in Len(h) .. Len(b) : Run(k) /\ Ends(k)
    BY <1>1, <1>4, Zenon DEF MatchRule
  <2> HIDE DEF Run, Ends
  <2>8. MatchRule(rule, b) \in Len(h) .. Len(b)
    BY <2>6, <2>7, Zenon
  <2> QED
    BY <1>2, <2>8
<1> QED
  BY <1>3, <1>4

(* v is u with parts replaced, as far as phrases can tell.                  *)
Redacts(u, v) ==
  /\ v \in Text
  /\ \A w \in Phrases, a \in Text : \A p \in 0 .. Len(a) : At(w, a \o v, p) => At(w, a \o u, p)
  /\ \A w \in Phrases, a \in Text, d \in Text : Occurs(w, (a \o v) \o d) => Occurs(w, (a \o u) \o d)
  /\ Marked(v) \/ v = u

(* A scan redacts.                                                          *)
LEMMA ScanRedacts ==
  ASSUME NEW s \in Text, NEW m \in Fitting(s), NEW x \in Marks, NEW put \in Text, put = <<x>>
  PROVE  Redacts(s, Out(s, put, m, {}, 1))
<1>1. 1 \in 1 .. Len(s) + 1 /\ From(s, 1) = s
  BY DEF From
<1>2. Out(s, put, m, {}, 1) \in Text
  BY <1>1, ScanInText
<1>3. ASSUME NEW w \in Phrases, NEW a \in Text, NEW p \in 0 .. Len(a), At(w, a \o Out(s, put, m, {}, 1), p)
      PROVE  At(w, a \o s, p)
  <2>1. At(w, a \o From(s, 1), p)
    BY <1>1, <1>3, StartKept, Zenon
  <2> QED
    BY <1>1, <2>1
<1>4. ASSUME NEW w \in Phrases, NEW a \in Text, NEW d \in Text, Occurs(w, (a \o Out(s, put, m, {}, 1)) \o d)
      PROVE  Occurs(w, (a \o s) \o d)
  <2>1. Occurs(w, (a \o From(s, 1)) \o d)
    BY <1>1, <1>4, ContextKept, Zenon
  <2> QED
    BY <1>1, <2>1
<1>5. Marked(Out(s, put, m, {}, 1)) \/ Out(s, put, m, {}, 1) = s
  BY <1>1, MarkedOrSame, Zenon
<1> QED
  BY <1>2, <1>3, <1>4, <1>5, Zenon DEF Redacts

(* So does doing nothing.                                                   *)
LEMMA RedactsNothing ==
  ASSUME NEW u \in Text
  PROVE  Redacts(u, u)
  BY Zenon DEF Redacts

(* And doing it twice.                                                      *)
LEMMA RedactsTwice ==
  ASSUME NEW u, NEW v, NEW w, Redacts(u, v), Redacts(v, w)
  PROVE  Redacts(u, w)
  BY Zenon DEF Redacts

(* What is left was there before.                                           *)
LEMMA OccursInRedacted ==
  ASSUME NEW u \in Text, NEW v, Redacts(u, v), NEW w \in Phrases, Occurs(w, v)
  PROVE  Occurs(w, u)
<1>1. v \in Text /\ (<<>> \o v) \o <<>> = v /\ (<<>> \o u) \o <<>> = u /\ <<>> \in Text
  BY DEF Redacts
<1>2. Occurs(w, (<<>> \o v) \o <<>>) => Occurs(w, (<<>> \o u) \o <<>>)
  BY <1>1, Zenon DEF Redacts
<1> QED
  BY <1>1, <1>2

(* A rule as Load accepts it: it does not match the empty text.             *)
RuleTyped(rule) == rule.head \in Text /\ rule.head # <<>> /\ Expand(rule) \in Text

(* The matches of a rule fit, and there is one wherever its head begins.    *)
LEMMA RuleMatchesFit ==
  ASSUME NEW rule, RuleTyped(rule), NEW s \in Text
  PROVE  /\ RuleMatches(rule, s) \in Fitting(s)
         /\ \A i \in 1 .. Len(s) : IsPrefix(rule.head, From(s, i)) => RuleMatches(rule, s)[i] > 0
<1> DEFINE m == RuleMatches(rule, s)
<1>1. ASSUME NEW i \in 1 .. Len(s)
      PROVE  /\ m[i] = MatchRule(rule, From(s, i)) /\ m[i] \in Nat /\ i + m[i] <= Len(s) + 1
             /\ IsPrefix(rule.head, From(s, i)) => m[i] > 0
  <2>1. From(s, i) \in Text /\ Len(From(s, i)) = Len(s) + 1 - i
    BY FromFacts
  <2>2. /\ MatchRule(rule, From(s, i)) \in 0 .. Len(From(s, i))
        /\ IsPrefix(rule.head, From(s, i)) => MatchRule(rule, From(s, i)) > 0
    BY <2>1, MatchRuleFacts DEF RuleTyped
  <2>3. m[i] = MatchRule(rule, From(s, i))
    BY DEF RuleMatches
  <2> QED
    BY <2>1, <2>2, <2>3
<1>2. m = [i \in 1 .. Len(s) |-> m[i]]
  BY DEF RuleMatches
<1> HIDE DEF m
<1>3. m \in [1 .. Len(s) -> Nat]
  BY <1>1, <1>2
<1>4. m \in Fitting(s) /\ \A i \in 1 .. Len(s) : IsPrefix(rule.head, From(s, i)) => m[i] > 0
  BY <1>1, <1>3 DEF Fitting
<1> QED
  BY <1>4 DEF m

(* What a rule makes of a text is a text.                                   *)
LEMMA ReplaceRuleInText ==
  ASSUME NEW rule, RuleTyped(rule), NEW s \in Text
  PROVE  ReplaceRule(rule, s) \in Text
<1>1. RuleMatches(rule, s) \in Fitting(s) /\ Expand(rule) \in Text /\ 1 \in 1 .. Len(s) + 1
  BY RuleMatchesFit DEF RuleTyped
<1>2. Out(s, Expand(rule), RuleMatches(rule, s), {}, 1) \in Text
  BY <1>1, ScanInText
<1> QED
  BY <1>2, Zenon DEF ReplaceRule, Out

(* A rule that puts a mark in the place of a phrase redacts, and leaves no  *)
(* text it matches.                                                         *)
LEMMA ReplaceRuleFacts ==
  ASSUME NEW rule, rule.head \in Phrases, NEW x \in Marks, Expand(rule) = <<x>>, NEW s \in Text
  PROVE  Redacts(s, ReplaceRule(rule, s)) /\ ~ Occurs(rule.head, ReplaceRule(rule, s))
<1>1. PICK m, put, h : m = RuleMatches(rule, s) /\ put = Expand(rule) /\ h = rule.head
  OBVIOUS
<1>2. h \in Phrases /\ put \in Text /\ put = <<x>> /\ RuleTyped(rule)
  <2>1. rule.head \in Text /\ rule.head # <<>>
    BY PhraseFacts DEF Phrases
  <2> QED
    BY <1>1, <2>1, MarkText DEF RuleTyped
<1>3. m \in Fitting(s) /\ \A i \in 1 .. Len(s) : IsPrefix(h, From(s, i)) => m[i] > 0
  BY <1>1, <1>2, RuleMatchesFit
<1>4. ReplaceRule(rule, s) = Out(s, put, m, {}, 1) /\ 1 \in 1 .. Len(s) + 1
  BY <1>1 DEF ReplaceRule, Out
<1>5. ~ Occurs(h, Out(s, put, m, {}, 1))
  BY <1>2, <1>3, <1>4, NoneLeft
<1>6. Redacts(s, Out(s, put, m, {}, 1))
  BY <1>2, <1>3, ScanRedacts
<1> QED
  BY <1>1, <1>4, <1>5, <1>6, Zenon

(* Induction up from 0, over a set.                                         *)
LEMMA Upward ==
  ASSUME NEW n \in Nat, NEW S, 0 \in S, \A k \in 0 .. n - 1 : k \in S => k + 1 \in S
  PROVE  \A k \in 0 .. n : k \in S
<1> SUFFICES ASSUME NEW k \in 0 .. n, k \notin S PROVE FALSE
  OBVIOUS
<1> DEFINE T == {j \in 0 .. n : j \notin S}
<1>1. T \in SUBSET Nat /\ k \in T
  OBVIOUS
<1>2. PICK j \in T : \A i \in T : j <= i
  BY <1>1, LeastNatural
<1>3. j # 0 /\ j - 1 \in 0 .. n - 1 /\ j - 1 \notin T
  BY <1>2
<1> QED
  BY <1>3

(* The body of ApplyRules, with the recursion taken out.                    *)
RuleStep(rules, s, f, i) == IF i = 0 THEN s ELSE ReplaceRule(rules[i], f[i - 1])

(* The recursive function of ApplyRules exists and satisfies its equation.  *)
LEMMA ApplyRulesSteps ==
  ASSUME NEW rules, NEW n \in Nat, Len(rules) = n, NEW s
  PROVE  \E f : /\ f = [i \in 0 .. n |-> RuleStep(rules, s, f, i)]
                /\ ApplyRules(rules, s) = f[n]
<1> DEFINE D == 0 .. n
           St(f, i) == RuleStep(rules, s, f, i)
           S == {k \in D : \E f : f = [i \in D |-> f[i]] /\ \A i \in 0 .. k : f[i] = St(f, i)}
<1>1. \A f, g : \A i \in D : (i # 0 => f[i - 1] = g[i - 1]) => St(f, i) = St(g, i)
  BY Zenon DEF RuleStep
<1>2. 0 \in S
  <2> DEFINE f == [i \in D |-> s]
  <2>1. f = [i \in D |-> f[i]] /\ \A i \in 0 .. 0 : f[i] = St(f, i)
    BY DEF RuleStep
  <2> HIDE DEF f
  <2> QED
    BY <2>1
<1>3. ASSUME NEW k \in 0 .. n - 1, k \in S PROVE k + 1 \in S
  <2>1. PICK f : f = [i \in D |-> f[i]] /\ \A i \in 0 .. k : f[i] = St(f, i)
    BY <1>3
  <2> DEFINE g == [i \in D |-> IF i = k + 1 THEN St(f, k + 1) ELSE f[i]]
  <2>2. \A i \in 0 .. k : g[i] = f[i]
    OBVIOUS
  <2>3. \A i \in 0 .. k + 1 : St(f, i) = St(g, i)
    <3> TAKE i \in 0 .. k + 1
    <3> HIDE DEF g, St
    <3>1. i \in D /\ (i # 0 => f[i - 1] = g[i - 1])
      BY <2>2
    <3> QED
      BY <3>1, <1>1
  <2>4. \A i \in 0 .. k + 1 : g[i] = St(g, i)
    <3> TAKE i \in 0 .. k + 1
    <3> HIDE DEF St
    <3>1. g[i] = St(f, i)
      BY <2>1
    <3> QED
      BY <3>1, <2>3
  <2>5. g = [i \in D |-> g[i]]
    OBVIOUS
  <2> HIDE DEF g
  <2> QED
    BY <2>4, <2>5
<1>4. n \in S
  <2> HIDE DEF S
  <2>1. \A k \in 0 .. n : k \in S
    BY <1>2, <1>3, Upward
  <2> QED
    BY <2>1
<1>5. \E f : f = [i \in D |-> St(f, i)]
  <2> HIDE DEF St
  <2>1. PICK f : f = [i \in D |-> f[i]] /\ \A i \in 0 .. n : f[i] = St(f, i)
    BY <1>4
  <2> QED
    BY <2>1
<1> DEFINE F == CHOOSE f : f = [i \in D |-> St(f, i)]
<1>6. ApplyRules(rules, s) = F[n]
  BY Zenon DEF ApplyRules, RuleStep
<1> QED
  <2>1. F = [i \in D |-> St(F, i)]
    <3> HIDE DEF St
    <3> QED
      BY <1>5, Zenon
  <2> HIDE DEF F
  <2> QED
    BY <1>6, <2>1

(* What the rules together make of a text is a text.                        *)
LEMMA ApplyRulesInText ==
  ASSUME NEW rules, NEW n \in Nat, Len(rules) = n, \A i \in 1 .. n : RuleTyped(rules[i]),
         NEW s \in Text
  PROVE  ApplyRules(rules, s) \in Text
<1>1. PICK f : f = [i \in 0 .. n |-> RuleStep(rules, s, f, i)] /\ ApplyRules(rules, s) = f[n]
  BY ApplyRulesSteps
<1>2. f[0] = s /\ \A i \in 1 .. n : f[i] = ReplaceRule(rules[i], f[i - 1])
  <2>1. \A i \in 0 .. n : f[i] = RuleStep(rules, s, f, i)
    BY <1>1
  <2> QED
    BY <2>1 DEF RuleStep
<1> DEFINE S == {k \in 0 .. n : f[k] \in Text}
<1>3. 0 \in S
  BY <1>2
<1>4. ASSUME NEW k \in 0 .. n - 1, k \in S PROVE k + 1 \in S
  <2>1. k + 1 \in 1 .. n /\ (k + 1) - 1 = k /\ k + 1 \in 0 .. n
    OBVIOUS
  <2>2. PICK u, v : u = f[k] /\ v = f[k + 1] /\ v = ReplaceRule(rules[k + 1], u)
    BY <1>2, <2>1
  <2>3. u \in Text /\ RuleTyped(rules[k + 1])
    BY <1>4, <2>1, <2>2
  <2>4. v \in Text
    BY <2>2, <2>3, ReplaceRuleInText, Zenon
  <2> QED
    BY <2>1, <2>2, <2>4
<1>5. n \in S
  <2> HIDE DEF S
  <2>1. \A k \in 0 .. n : k \in S
    BY <1>3, <1>4, Upward
  <2> QED
    BY <2>1
<1> QED
  BY <1>1, <1>5

(* Rules that put marks in the place of phrases.                            *)
PhraseRules(rules) ==
  \A i \in 1 .. Len(rules) :
    rules[i].head \in Phrases /\ \E x \in Marks : Expand(rules[i]) = <<x>>

(* Together such rules redact, and none leaves a text it matches, also when *)
(* a later rule has changed the text again.                                 *)
LEMMA ApplyRulesFacts ==
  ASSUME NEW rules, NEW n \in Nat, Len(rules) = n, PhraseRules(rules), NEW s \in Text
  PROVE  /\ Redacts(s, ApplyRules(rules, s))
         /\ \A i \in 1 .. n : ~ Occurs(rules[i].head, ApplyRules(rules, s))
<1>1. PICK f : f = [i \in 0 .. n |-> RuleStep(rules, s, f, i)] /\ ApplyRules(rules, s) = f[n]
  BY ApplyRulesSteps
<1>2. f[0] = s /\ \A i \in 1 .. n : f[i] = ReplaceRule(rules[i], f[i - 1])
  <2>1. \A i \in 0 .. n : f[i] = RuleStep(rules, s, f, i)
    BY <1>1
  <2> QED
    BY <2>1 DEF RuleStep
<1> DEFINE P(k) == Redacts(s, f[k]) /\ \A i \in 1 .. k : ~ Occurs(rules[i].head, f[k])
           S == {k \in 0 .. n : P(k)}
<1>3. 0 \in S
  BY <1>2, RedactsNothing
<1>4. ASSUME NEW k \in 0 .. n - 1, k \in S PROVE k + 1 \in S
  <2>1. k + 1 \in 1 .. n /\ (k + 1) - 1 = k /\ k + 1 \in 0 .. n
    OBVIOUS
  <2>2. Redacts(s, f[k]) /\ f[k] \in Text
    BY <1>4 DEF Redacts
  <2>3. PICK u, v : u = f[k] /\ v = f[k + 1] /\ v = ReplaceRule(rules[k + 1], u)
    BY <1>2, <2>1
  <2>4. Redacts(u, v) /\ ~ Occurs(rules[k + 1].head, v)
    <3>1. PICK x \in Marks : rules[k + 1].head \in Phrases /\ Expand(rules[k + 1]) = <<x>>
      BY <2>1, Zenon DEF PhraseRules
    <3> QED
      BY <2>2, <2>3, <3>1, ReplaceRuleFacts, Zenon
  <2>5. Redacts(s, v)
    BY <2>2, <2>3, <2>4, RedactsTwice
  <2>6. ASSUME NEW i \in 1 .. k + 1 PROVE ~ Occurs(rules[i].head, v)
    <3>1. CASE i = k + 1
      BY <2>4, <3>1
    <3>2. CASE i # k + 1
      <4>0. i \in 1 .. Len(rules)
        BY <2>1
      <4>1. PICK h \in Phrases : h = rules[i].head
        BY <4>0, Zenon DEF PhraseRules
      <4>2. i \in 1 .. k
        BY <3>2
      <4>3. ~ Occurs(h, u)
        BY <1>4, <2>3, <4>1, <4>2
      <4>4. ~ Occurs(h, v)
        BY <2>2, <2>3, <2>4, <4>3, OccursInRedacted
      <4> QED
        BY <4>1, <4>4
    <3> QED
      BY <3>1, <3>2
  <2> QED
    BY <2>1, <2>3, <2>5, <2>6
<1>5. n \in S
  <2> HIDE DEF S
  <2>1. \A k \in 0 .. n : k \in S
    BY <1>3, <1>4, Upward
  <2> QED
    BY <2>1
<1> QED
  BY <1>1, <1>5

HIDE DEF Text

(* The laws of concatenation.                                               *)
LEMMA CatFacts ==
  /\ <<>> \in Text
  /\ \A a \in Text : Cat(a, <<>>) = a /\ Cat(<<>>, a) = a /\ Len(a) \in Nat
  /\ \A a, b \in Text : Cat(a, b) \in Text /\ Len(Cat(a, b)) = Len(a) + Len(b)
  /\ \A a, b, c \in Text : Cat(Cat(a, b), c) = Cat(a, Cat(b, c))
<1>1. <<>> \in Text
  BY DEF Text
<1>2. ASSUME NEW a \in Text PROVE Cat(a, <<>>) = a /\ Cat(<<>>, a) = a /\ Len(a) \in Nat
  BY DEF Text, Cat
<1>3. ASSUME NEW a \in Text, NEW b \in Text
      PROVE  Cat(a, b) \in Text /\ Len(Cat(a, b)) = Len(a) + Len(b)
  BY DEF Text, Cat
<1>4. ASSUME NEW a \in Text, NEW b \in Text, NEW c \in Text
      PROVE  Cat(Cat(a, b), c) = Cat(a, Cat(b, c))
  BY DEF Text, Cat
<1> QED
  BY <1>1, <1>2, <1>3, <1>4

(* The third law, alone.                                                    *)
LEMMA CatAssoc ==
  ASSUME NEW a \in Text, NEW b \in Text, NEW c \in Text
  PROVE  Cat(Cat(a, b), c) = Cat(a, Cat(b, c))
  BY CatFacts

(* Phrases are texts.                                                       *)
LEMMA PhrasesInText == Phrases \subseteq Text
  BY PhraseFacts

(* Replacing secrets in a text yields a text.                               *)
LEMMA ReplaceSecretsInText ==
  ASSUME NEW secrets \in SUBSET Text, NEW s \in Text
  PROVE  ReplaceSecrets(secrets, s) \in Text
<1>1. SecretMatches(secrets, s) \in Fitting(s)
  BY SecretMatchesFit
<1>2. 1 \in 1 .. Len(s) + 1
  BY DEF Text
<1>3. Out(s, Mark, SecretMatches(secrets, s), {}, 1) \in Text
  BY <1>1, <1>2, ScanInText, MarkInText
<1> QED
  BY <1>3, Zenon DEF ReplaceSecrets, Out, Mark

(* Nothing comes from nothing.                                              *)
LEMMA ReplaceSecretsEmpty ==
  ASSUME NEW secrets \in SUBSET Text
  PROVE  ReplaceSecrets(secrets, <<>>) = <<>>
<1>0. <<>> \in Text /\ 1 \in 1 .. Len(<<>>) + 1 /\ 1 > Len(<<>>)
  BY DEF Text
<1>1. SecretMatches(secrets, <<>>) \in Fitting(<<>>)
  BY <1>0, SecretMatchesFit
<1>2. Out(<<>>, Mark, SecretMatches(secrets, <<>>), {}, 1) = <<>>
  <2>s. Stops(<<>>, Mark, SecretMatches(secrets, <<>>), {}, 1)
    BY <1>0, <1>1, ScanStops, MarkInText
  <2> QED
    BY <1>0, <1>1, <2>s DEF Stops
<1> QED
  BY <1>2, Zenon DEF ReplaceSecrets, Out, Mark

(* No secret occurs where the secrets have been replaced.                   *)
LEMMA NoSecretLeft ==
  ASSUME NEW secrets, secrets \subseteq Phrases, NEW w \in secrets, NEW s \in Text
  PROVE  ~ Occurs(w, ReplaceSecrets(secrets, s))
<1> DEFINE m == SecretMatches(secrets, s)
<1>0. secrets \in SUBSET Text /\ w \in Phrases /\ w \in Text /\ Len(w) \in Nat /\ Len(w) > 0
  BY PhraseFacts
<1>1. m \in Fitting(s) /\ \A i \in 1 .. Len(s) : m[i] = MatchSecret(secrets, From(s, i))
  BY <1>0, SecretMatchesFit
<1>2. ASSUME NEW i \in 1 .. Len(s), IsPrefix(w, From(s, i)) PROVE m[i] > 0
  <2>0. i \in 1 .. Len(s) + 1
    BY DEF Text
  <2>1. From(s, i) \in Text
    BY <2>0, FromFacts
  <2>2. MatchSecret(secrets, From(s, i)) \in 0 .. Len(From(s, i)) /\ Len(w) <= MatchSecret(secrets, From(s, i))
    BY <1>0, <1>2, <2>1, MatchSecretFacts
  <2>3. Len(From(s, i)) \in Nat
    BY <2>1 DEF Text
  <2> QED
    BY <1>0, <1>1, <2>2, <2>3
<1>3. 1 \in 1 .. Len(s) + 1
  BY DEF Text
<1>4. ~ Occurs(w, Out(s, Mark, m, {}, 1))
  <2> HIDE DEF m
  <2> QED
    BY <1>0, <1>1, <1>2, <1>3, NoneLeft, MarkInText, SymbolAssumption DEF Mark
<1> QED
  BY <1>4, Zenon DEF ReplaceSecrets, Out, Mark

(* What stage one makes of s: r.out is let through and r.carry kept, which  *)
(* is nothing, or may be the start of a secret; whatever follows, the       *)
(* secrets are replaced as in one piece.                                    *)
StageOne(secrets, s, finalize, r) ==
  /\ r.out \in Text /\ r.carry \in Text
  /\ r.carry # <<>> => ~ finalize /\ IsSecretPrefix(secrets, r.carry)
  /\ finalize => ReplaceSecrets(secrets, s) = r.out
  /\ ~ finalize => \A d \in Text : ReplaceSecrets(secrets, Cat(s, d))
                                     = Cat(r.out, ReplaceSecrets(secrets, Cat(r.carry, d)))

(* redactSecrets is stage one on what it had kept and the new chunk.        *)
LEMMA RedactSecretsFacts ==
  ASSUME NEW secrets \in SUBSET Text, NEW carry \in Text, NEW data \in Text,
         NEW finalize \in BOOLEAN,
         NEW r, r = RedactSecrets(secrets, carry, data, finalize)
  PROVE  StageOne(secrets, Cat(carry, data), finalize, r)
<1>1. PICK buf \in Text : buf = carry \o data
  <2>1. carry \o data \in Text
    BY DEF Text
  <2> QED
    BY <2>1, Zenon
<1> DEFINE holds == {i \in 1 .. Len(buf) : ~ finalize /\ IsSecretPrefix(secrets, From(buf, i))}
           m == SecretMatches(secrets, buf)
<1>2. r = Scan(buf, Mark, m, holds)[1]
  BY <1>1, Zenon DEF RedactSecrets, Mark
<1>3. r.out = Out(buf, Mark, m, holds, 1) /\ r.carry = Held(buf, Mark, m, holds, 1)
  BY <1>2, Zenon DEF Out, Held
<1>4. m \in Fitting(buf) /\ 1 \in 1 .. Len(buf) + 1 /\ Len(buf) \in Nat
  <2>1. m \in Fitting(buf)
    BY SecretMatchesFit
  <2> QED
    BY <2>1 DEF Text
<1>5. r.out \in Text /\ r.carry \in Text
  <2> HIDE DEF holds, m
  <2>1. Out(buf, Mark, m, holds, 1) \in Text /\ Held(buf, Mark, m, holds, 1) \in Text
    BY <1>4, ScanInText, MarkInText
  <2> QED
    BY <1>3, <2>1
<1>6. r.carry # <<>> => ~ finalize /\ IsSecretPrefix(secrets, r.carry)
  <2>1. \/ Held(buf, Mark, m, holds, 1) = <<>>
        \/ \E j \in holds : j \in 1 .. Len(buf) /\ Held(buf, Mark, m, holds, 1) = From(buf, j)
    <3> HIDE DEF holds, m
    <3> QED
      BY <1>4, ScanHolds, MarkInText
  <2> QED
    BY <1>3, <2>1
<1>7. ASSUME finalize PROVE ReplaceSecrets(secrets, Cat(carry, data)) = r.out
  <2>1. holds = {}
    BY <1>7
  <2>2. r = Scan(buf, Mark, m, {})[1]
    BY <1>2, <2>1, Zenon
  <2> QED
    BY <1>1, <2>2, Zenon DEF ReplaceSecrets, Cat, Mark
<1>8. ASSUME ~ finalize, NEW d \in Text
      PROVE  ReplaceSecrets(secrets, Cat(Cat(carry, data), d))
               = Cat(r.out, ReplaceSecrets(secrets, Cat(r.carry, d)))
  <2>1. HoldsPrefixes(secrets, buf, holds)
    BY <1>8, Zenon DEF HoldsPrefixes
  <2>2. Out(Cat(buf, d), Mark, SecretMatches(secrets, Cat(buf, d)), {}, 1)
          = Cat(Out(buf, Mark, m, holds, 1), ReplaceSecrets(secrets, Cat(Held(buf, Mark, m, holds, 1), d)))
    <3> HIDE DEF holds
    <3> QED
      BY <1>4, <2>1, StreamedScan
  <2>3. Out(Cat(buf, d), Mark, SecretMatches(secrets, Cat(buf, d)), {}, 1) = ReplaceSecrets(secrets, Cat(buf, d))
    BY Zenon DEF ReplaceSecrets, Out, Mark
  <2>4. ReplaceSecrets(secrets, Cat(buf, d)) = Cat(r.out, ReplaceSecrets(secrets, Cat(r.carry, d)))
    BY <1>3, <2>2, <2>3, Zenon
  <2> QED
    BY <1>1, <2>4, Zenon DEF Cat
<1> QED
  BY <1>5, <1>6, <1>7, <1>8, Zenon DEF StageOne

-----------------------------------------------------------------------------
(* The redactor: stage two.                                                 *)

(* Rules as Load accepts them.                                              *)
RulesTyped(rules) == Len(rules) \in Nat /\ \A i \in 1 .. Len(rules) : RuleTyped(rules[i])

(* Marking, of such rules.                                                  *)
LEMMA MarkingRules ==
  ASSUME NEW rules, RulesTyped(rules), Marking(rules)
  PROVE  PhraseRules(rules)
  BY Zenon DEF RulesTyped, RuleTyped, Marking, PhraseRules, Phrases

(* With rules that put marks in place of phrases, what was sent and is kept *)
(* holds no phrase that stage one had not let through, whatever follows.    *)
NothingNew(rules, clean_, sent_, carry) ==
  Marking(rules) => \A w \in Phrases, d \in Text : Occurs(w, Cat(Cat(sent_, carry), d)) => Occurs(w, Cat(clean_, d))

(* With such rules, none whose head fits into the overlap and one symbol    *)
(* matches in s.                                                            *)
NoHead(rules, s) ==
  Marking(rules) => \A i \in 1 .. Len(rules) : Len(rules[i].head) <= Overlap + 1 => ~ Occurs(rules[i].head, s)

(* No match can reach from what was sent across what is kept: there are no  *)
(* rules, nothing was sent, the overlap is full, or a mark is in it.        *)
Ready(rules, sent_, carry) ==
  Marking(rules) => rules = <<>> \/ sent_ = <<>> \/ Len(carry) = Overlap \/ Marked(carry)

(* A phrase at a place of a concatenation that begins in the second part,   *)
(* or ends in the first, occurs in that part.                               *)
LEMMA AtConcat ==
  ASSUME NEW w \in Phrases, NEW a \in Text, NEW b \in Text, NEW p \in Nat, At(w, Cat(a, b), p)
  PROVE  /\ p >= Len(a) => Occurs(w, b)
         /\ p + Len(w) <= Len(a) => Occurs(w, a)
<1> DEFINE t == Cat(a, b)
<1>0. Len(w) \in Nat /\ Len(w) > 0
  BY PhraseFacts
<1>1. /\ Len(a) \in Nat /\ Len(b) \in Nat /\ Len(t) = Len(a) + Len(b)
      /\ \A k \in 1 .. Len(a) : t[k] = a[k]
      /\ \A k \in 1 .. Len(b) : t[Len(a) + k] = b[k]
  BY DEF Cat, Text
<1>2. p + Len(w) <= Len(t) /\ \A q \in 1 .. Len(w) : t[p + q] = w[q]
  BY DEF At
<1> HIDE DEF t
<1>3. ASSUME p >= Len(a) PROVE Occurs(w, b)
  <2>1. p - Len(a) \in 0 .. Len(b) /\ (p - Len(a)) + Len(w) <= Len(b)
    BY <1>0, <1>1, <1>2, <1>3
  <2>2. ASSUME NEW q \in 1 .. Len(w) PROVE b[(p - Len(a)) + q] = w[q]
    <3>1. (p - Len(a)) + q \in 1 .. Len(b) /\ Len(a) + ((p - Len(a)) + q) = p + q
      BY <1>0, <1>1, <2>1
    <3>2. t[p + q] = b[(p - Len(a)) + q]
      BY <1>1, <3>1
    <3> QED
      BY <1>2, <3>2
  <2> QED
    BY <2>1, <2>2 DEF Occurs, At
<1>4. ASSUME p + Len(w) <= Len(a) PROVE Occurs(w, a)
  <2>1. p \in 0 .. Len(a)
    BY <1>0, <1>1, <1>4
  <2>2. ASSUME NEW q \in 1 .. Len(w) PROVE a[p + q] = w[q]
    <3>1. p + q \in 1 .. Len(a)
      BY <1>0, <1>1, <1>4
    <3> QED
      BY <1>1, <1>2, <3>1
  <2> QED
    BY <1>4, <2>1, <2>2 DEF Occurs, At
<1> QED
  BY <1>3, <1>4

(* OccursConcat for Cat.                                                    *)
LEMMA OccursCat ==
  ASSUME NEW w \in Phrases, NEW a \in Text, NEW b \in Text
  PROVE  /\ Occurs(w, a) => Occurs(w, Cat(a, b))
         /\ Occurs(w, b) => Occurs(w, Cat(a, b))
<1>1. w \in Text
  BY PhraseFacts
<1> QED
  BY <1>1, OccursConcat DEF Cat

(* Redacts for Cat.                                                         *)
LEMMA RedactsCat ==
  ASSUME NEW u \in Text, NEW v, Redacts(u, v)
  PROVE  /\ v \in Text /\ (Marked(v) \/ v = u)
         /\ \A w \in Phrases, a \in Text : \A p \in 0 .. Len(a) :
              At(w, Cat(a, v), p) => At(w, Cat(a, u), p)
         /\ \A w \in Phrases, a \in Text, d \in Text :
              Occurs(w, Cat(Cat(a, v), d)) => Occurs(w, Cat(Cat(a, u), d))
  BY Zenon DEF Redacts, Cat

(* A mark stays when something follows.                                     *)
LEMMA MarkedCat ==
  ASSUME NEW a \in Text, NEW b \in Text, Marked(a)
  PROVE  Marked(Cat(a, b))
<1>1. PICK r \in 1 .. Len(a) : a[r] \in Marks
  BY DEF Marked
<1>2. r \in 1 .. Len(Cat(a, b)) /\ Cat(a, b)[r] = a[r]
  BY DEF Cat, Text
<1> QED
  BY <1>1, <1>2 DEF Marked

(* No match arises across the border between what was sent and what is      *)
(* redacted anew: one that begins before the border would lie within what   *)
(* was sent and kept, since the overlap is full, or hold a mark.            *)
LEMMA NoHeadAcross ==
  ASSUME NEW h \in Phrases, Len(h) <= Overlap + 1,
         NEW sn \in Text, NEW carry \in Text, NEW data \in Text, NEW red,
         Redacts(Cat(carry, data), red),
         sn = <<>> \/ Len(carry) = Overlap \/ Marked(carry),
         ~ Occurs(h, Cat(sn, carry)), ~ Occurs(h, red)
  PROVE  ~ Occurs(h, Cat(sn, red))
<1> SUFFICES ASSUME Occurs(h, Cat(sn, red)) PROVE FALSE
  OBVIOUS
<1>0. /\ Len(h) \in Nat /\ Len(h) > 0 /\ \A q \in 1 .. Len(h) : h[q] \notin Marks
      /\ Overlap \in Nat
  BY PhraseFacts, RedactorAssumption
<1>1. /\ Cat(carry, data) \in Text /\ Cat(sn, carry) \in Text
      /\ Cat(sn, Cat(carry, data)) = Cat(Cat(sn, carry), data)
      /\ Len(sn) \in Nat /\ Len(carry) \in Nat /\ Len(Cat(sn, carry)) = Len(sn) + Len(carry)
  BY CatFacts
<1>2. red \in Text /\ Len(Cat(sn, red)) \in Nat
  <2>1. red \in Text
    BY <1>1, RedactsCat
  <2> QED
    BY <2>1, CatFacts
<1>3. PICK p \in 0 .. Len(Cat(sn, red)) : At(h, Cat(sn, red), p)
  BY DEF Occurs
<1>4. p \in Nat /\ p < Len(sn)
  <2>1. p \in Nat
    BY <1>2
  <2>2. p >= Len(sn) => Occurs(h, red)
    BY <1>2, <1>3, <2>1, AtConcat
  <2> QED
    BY <1>1, <2>1, <2>2
<1>5. At(h, Cat(Cat(sn, carry), data), p)
  <2>1. p \in 0 .. Len(sn)
    BY <1>1, <1>4
  <2>2. At(h, Cat(sn, Cat(carry, data)), p)
    BY <1>1, <1>3, <2>1, RedactsCat
  <2> QED
    BY <1>1, <2>2
<1>6. p + Len(h) > Len(sn) + Len(carry)
  <2>1. p + Len(h) <= Len(Cat(sn, carry)) => Occurs(h, Cat(sn, carry))
    BY <1>1, <1>4, <1>5, AtConcat
  <2> QED
    BY <1>0, <1>1, <1>4, <2>1
<1>7. sn # <<>>
  BY <1>4
<1>8. CASE Len(carry) = Overlap
  BY <1>0, <1>1, <1>4, <1>6, <1>8
<1>9. CASE Marked(carry)
  <2>1. PICK r \in 1 .. Len(carry) : carry[r] \in Marks
    BY <1>9 DEF Marked
  <2> DEFINE t == Cat(Cat(sn, carry), data)
  <2>2. t[Len(sn) + r] \in Marks
    BY <2>1 DEF Cat, Text
  <2>3. \A q \in 1 .. Len(h) : t[p + q] = h[q]
    BY <1>5 DEF At
  <2>4. (Len(sn) + r) - p \in 1 .. Len(h) /\ p + ((Len(sn) + r) - p) = Len(sn) + r
    BY <1>0, <1>1, <1>4, <1>6, <2>1
  <2>5. t[Len(sn) + r] = h[(Len(sn) + r) - p]
    <3> HIDE DEF t
    <3> QED
      BY <2>3, <2>4
  <2> QED
    BY <1>0, <2>2, <2>4, <2>5
<1> QED
  BY <1>7, <1>8, <1>9

(* A text cut in two.                                                       *)
LEMMA Cut ==
  ASSUME NEW s \in Text, NEW n \in 0 .. Len(s)
  PROVE  /\ SubSeq(s, 1, n) \in Text /\ Len(SubSeq(s, 1, n)) = n
         /\ From(s, n + 1) \in Text /\ Len(From(s, n + 1)) = Len(s) - n
         /\ Cat(SubSeq(s, 1, n), From(s, n + 1)) = s
<1>1. SubSeq(s, 1, n) \in Text /\ Len(SubSeq(s, 1, n)) = n
  BY DEF Text
<1>2. n + 1 \in 1 .. Len(s) + 1 /\ Len(s) \in Nat
  BY DEF Text
<1>3. From(s, n + 1) \in Text /\ Len(From(s, n + 1)) = Len(s) - n
  BY <1>2, FromFacts
<1>4. Cat(SubSeq(s, 1, n), From(s, n + 1)) = s
  <2>1. PICK a, b \in Text : a = SubSeq(s, 1, n) /\ b = From(s, n + 1)
    BY <1>1, <1>3
  <2>2. \A k \in 1 .. n : a[k] = s[k]
    BY <2>1 DEF Text
  <2>3. \A k \in 1 .. Len(s) - n : b[k] = s[n + k]
    <3>1. \A q \in 1 .. Len(s) + 1 - (n + 1) : From(s, n + 1)[q] = s[(n + 1) + q - 1]
      BY <1>2, FromFacts
    <3> QED
      BY <1>2, <2>1, <3>1
  <2>4. Len(a) = n /\ Len(b) = Len(s) - n
    BY <1>1, <1>3, <2>1
  <2>5. ASSUME NEW k \in 1 .. Len(s) PROVE (a \o b)[k] = s[k]
    <3>1. CASE k <= n
      BY <1>2, <2>2, <2>4, <3>1 DEF Text
    <3>2. CASE k > n
      <4>1. k - n \in 1 .. Len(s) - n /\ n + (k - n) = k
        BY <1>2, <3>2
      <4>2. (a \o b)[k] = b[k - n]
        BY <1>2, <2>4, <3>2, <4>1 DEF Text
      <4> QED
        BY <2>3, <4>1, <4>2
    <3>3. k <= n \/ k > n
      BY <1>2
    <3> QED
      BY <3>1, <3>2, <3>3, Zenon
  <2>6. a \o b \in Text /\ Len(a \o b) = Len(s)
    BY <1>2, <2>4 DEF Text
  <2>7. a \o b = s
    <3>1. PICK c \in Text : c = a \o b
      BY <2>6, Zenon
    <3>2. Len(c) = Len(s) /\ \A k \in 1 .. Len(s) : c[k] = s[k]
      BY <2>5, <2>6, <3>1, Zenon
    <3>3. c = s
      BY <3>2 DEF Text
    <3> QED
      BY <3>1, <3>3, Zenon
  <2> QED
    BY <2>1, <2>7, Zenon DEF Cat
<1> QED
  BY <1>1, <1>3, <1>4

(* The cuts at the ends.                                                    *)
LEMMA CutEnds ==
  ASSUME NEW s \in Text
  PROVE  /\ SubSeq(s, 1, 0) = <<>> /\ From(s, 1) = s
         /\ SubSeq(s, 1, Len(s)) = s /\ From(s, Len(s) + 1) = <<>>
  BY DEF From, Text

(* What stage two makes of a chunk after which stage one has let cl through *)
(* in all.                                                                  *)
StageTwo(rules, cl, sn, finalize, r) ==
  /\ r.out \in Text /\ r.carry \in Text /\ Len(r.carry) <= Overlap
  /\ rules = <<>> => r.carry = <<>>
  /\ NothingNew(rules, cl, Cat(sn, r.out), r.carry)
  /\ NoHead(rules, Cat(Cat(sn, r.out), r.carry))
  /\ IF finalize THEN r.carry = <<>> ELSE Ready(rules, Cat(sn, r.out), r.carry)

(* redactRules keeps all that is needed for the next chunk.                 *)
LEMMA RedactRulesFacts ==
  ASSUME NEW rules, RulesTyped(rules), rules # <<>>,
         NEW cl \in Text, NEW sn \in Text, NEW carry \in Text, NEW data \in Text,
         NEW finalize \in BOOLEAN,
         NothingNew(rules, cl, sn, carry), NoHead(rules, Cat(sn, carry)), Ready(rules, sn, carry),
         Len(carry) <= Overlap,
         NEW r, r = RedactRules(rules, carry, data, finalize)
  PROVE  StageTwo(rules, Cat(cl, data), sn, finalize, r)
<1>0. Overlap \in Nat /\ Overlap > 0
  BY RedactorAssumption
<1>1. CASE data = <<>> /\ ~ finalize
  <2>1. r.out = <<>> /\ r.carry = carry
    BY <1>1 DEF RedactRules
  <2>2. Cat(cl, data) = cl /\ Cat(sn, r.out) = sn /\ <<>> \in Text
    BY <1>1, <2>1, CatFacts
  <2> QED
    BY <1>1, <2>1, <2>2 DEF StageTwo
<1>2. CASE ~ (data = <<>> /\ ~ finalize)
  <2>1. PICK buf \in Text : buf = Cat(carry, data)
    BY CatFacts
  <2>2. PICK red : red = ApplyRules(rules, buf)
    OBVIOUS
  <2>3. ASSUME Marking(rules)
        PROVE  /\ PhraseRules(rules) /\ Redacts(buf, red)
               /\ \A i \in 1 .. Len(rules) : ~ Occurs(rules[i].head, red)
    <3>1. PhraseRules(rules) /\ Len(rules) \in Nat
      BY <2>3, MarkingRules, Zenon DEF RulesTyped
    <3> QED
      BY <2>2, <3>1, ApplyRulesFacts
  <2>4. red \in Text /\ Len(red) \in Nat
    <3>1. red \in Text
      BY <2>2, ApplyRulesInText, Zenon DEF RulesTyped
    <3> QED
      BY <3>1, CatFacts
  <2>5. PICK emit : emit = IF finalize THEN Len(red) ELSE Len(red) - Kept(red)
    OBVIOUS
  <2>6. emit \in 0 .. Len(red) /\ Kept(red) \in 0 .. Overlap
    BY <1>0, <2>4, <2>5 DEF Kept
  <2>7. r.out = SubSeq(red, 1, emit) /\ r.carry = From(red, emit + 1)
    <3>1. PICK o, c : o = SubSeq(red, 1, emit) /\ c = From(red, emit + 1)
      OBVIOUS
    <3>2. r = [out |-> SubSeq(red, 1, emit), carry |-> From(red, emit + 1)]
      BY <1>2, <2>1, <2>2, <2>5, Zenon DEF RedactRules, Cat
    <3>3. r = [out |-> o, carry |-> c]
      BY <3>1, <3>2, Zenon
    <3>4. r.out = o /\ r.carry = c
      BY <3>3
    <3> QED
      BY <3>1, <3>4
  <2>8. /\ r.out \in Text /\ r.carry \in Text /\ Cat(r.out, r.carry) = red
        /\ Len(r.out) = emit /\ Len(r.carry) = Len(red) - emit
    BY <2>4, <2>6, <2>7, Cut
  <2>9. Len(r.carry) <= Overlap
    BY <1>0, <2>4, <2>5, <2>6, <2>8
  <2>10. Cat(Cat(sn, r.out), r.carry) = Cat(sn, red)
    <3>1. Cat(Cat(sn, r.out), r.carry) = Cat(sn, Cat(r.out, r.carry))
      BY <2>8, CatAssoc
    <3> QED
      BY <2>8, <3>1
  <2>11. NothingNew(rules, Cat(cl, data), Cat(sn, r.out), r.carry)
    <3>1. ASSUME Marking(rules), NEW w \in Phrases, NEW d \in Text,
                 Occurs(w, Cat(Cat(sn, red), d))
          PROVE  Occurs(w, Cat(Cat(cl, data), d))
      <4>1. Occurs(w, Cat(Cat(sn, buf), d))
        BY <2>3, <3>1, RedactsCat
      <4>2. /\ Cat(Cat(sn, buf), d) = Cat(Cat(sn, carry), Cat(data, d))
            /\ Cat(cl, Cat(data, d)) = Cat(Cat(cl, data), d) /\ Cat(data, d) \in Text
        <5>1. Cat(data, d) \in Text /\ Cat(sn, carry) \in Text
          BY CatFacts
        <5>2. Cat(sn, Cat(carry, data)) = Cat(Cat(sn, carry), data)
          BY CatAssoc
        <5>3. Cat(Cat(Cat(sn, carry), data), d) = Cat(Cat(sn, carry), Cat(data, d))
          BY <5>1, CatAssoc
        <5>4. Cat(cl, Cat(data, d)) = Cat(Cat(cl, data), d)
          BY CatAssoc
        <5> QED
          BY <2>1, <5>1, <5>2, <5>3, <5>4
      <4>3. Occurs(w, Cat(cl, Cat(data, d)))
        BY <3>1, <4>1, <4>2, Zenon DEF NothingNew
      <4> QED
        BY <4>2, <4>3
    <3> QED
      BY <2>10, <3>1, Zenon DEF NothingNew
  <2>12. ASSUME Marking(rules), NEW i \in 1 .. Len(rules), Len(rules[i].head) <= Overlap + 1
         PROVE  ~ Occurs(rules[i].head, Cat(sn, red))
    <3>1. rules[i].head \in Phrases /\ Redacts(buf, red) /\ ~ Occurs(rules[i].head, red)
      BY <2>3, <2>12, Zenon DEF PhraseRules
    <3>2. ~ Occurs(rules[i].head, Cat(sn, carry))
      BY <2>12, Zenon DEF NoHead
    <3>3. sn = <<>> \/ Len(carry) = Overlap \/ Marked(carry)
      BY <2>12, Zenon DEF Ready
    <3> QED
      BY <2>1, <2>12, <3>1, <3>2, <3>3, NoHeadAcross
  <2>13. NoHead(rules, Cat(Cat(sn, r.out), r.carry))
    BY <2>10, <2>12, Zenon DEF NoHead
  <2>14. ASSUME finalize PROVE r.carry = <<>>
    BY <2>4, <2>5, <2>7, <2>14, CutEnds
  <2>15. ASSUME ~ finalize PROVE Ready(rules, Cat(sn, r.out), r.carry)
    <3>1. CASE Len(red) > Overlap
      <4>1. Len(r.carry) = Overlap
        BY <1>0, <2>4, <2>5, <2>8, <2>15, <3>1 DEF Kept
      <4> QED
        BY <4>1 DEF Ready
    <3>2. CASE Len(red) <= Overlap
      <4>1. emit = 0
        BY <1>0, <2>4, <2>5, <2>15, <3>2 DEF Kept
      <4>2. Cat(sn, r.out) = sn /\ r.carry = red
        <5>1. r.out = <<>> /\ r.carry = red
          BY <2>4, <2>7, <4>1, CutEnds
        <5> QED
          BY <5>1, CatFacts
      <4>3. CASE ~ Marking(rules) \/ sn = <<>>
        BY <4>2, <4>3 DEF Ready
      <4>4. CASE Marking(rules) /\ (Len(carry) = Overlap \/ Marked(carry))
        <5>1. Marked(red) \/ red = buf
          BY <2>3, <4>4, RedactsCat
        <5>2. Marked(carry) => Marked(buf)
          BY <2>1, MarkedCat
        <5>3. Len(buf) = Len(carry) + Len(data) /\ Len(data) \in Nat /\ Len(carry) \in Nat
          BY <2>1, CatFacts
        <5>4. red = buf /\ Len(carry) = Overlap => Len(red) = Overlap
          BY <1>0, <3>2, <5>3
        <5> QED
          BY <4>2, <4>4, <5>1, <5>2, <5>4 DEF Ready
      <4> QED
        BY <4>3, <4>4 DEF Ready
    <3> QED
      BY <1>0, <2>4, <3>1, <3>2
  <2> QED
    BY <2>8, <2>9, <2>11, <2>13, <2>14, <2>15 DEF StageTwo
<1> QED
  BY <1>1, <1>2

(* What holds of a redactor and the output until now.                       *)
RedactorOK(r, cl, sn) ==
  /\ NothingNew(r.rules, cl, sn, r.carry) /\ NoHead(r.rules, Cat(sn, r.carry))
  /\ Len(r.carry) <= Overlap /\ (r.rules = <<>> => r.carry = <<>>)

(* The type of a redactor.                                                  *)
Redactors ==
  [secrets : SUBSET Phrases, rules : Rules \union {<<>>}, secretCarry : Text, carry : Text]

(* The redactor after a chunk, field by field.                              *)
LEMMA RedactorNext ==
  ASSUME NEW S, NEW Q, NEW T, NEW r \in [secrets : S, rules : Q, secretCarry : T, carry : T],
         NEW a \in T, NEW b \in T,
         NEW n, n = [r EXCEPT !.secretCarry = a, !.carry = b]
  PROVE  /\ n \in [secrets : S, rules : Q, secretCarry : T, carry : T]
         /\ n.secrets = r.secrets /\ n.rules = r.rules /\ n.secretCarry = a /\ n.carry = b
  OBVIOUS

(* The rules of a file are as Load accepts them.                            *)
LEMMA RulesFit ==
  ASSUME NEW rules \in Rules \union {<<>>}
  PROVE  RulesTyped(rules)
<1>1. CASE rules = <<>>
  BY <1>1 DEF RulesTyped
<1>2. CASE rules \in Rules
  <2>1. PICK Q : Q = [head : Text, tail : SUBSET Alphabet, keep : BOOLEAN, text : Text]
    OBVIOUS
  <2>2. rules \in Seq(Q) /\ \A i \in 1 .. Len(rules) : rules[i].head # <<>>
    BY <1>2, <2>1, RuleAssumption, Zenon DEF Text
  <2>3. Len(rules) \in Nat /\ \A i \in 1 .. Len(rules) : rules[i] \in Q
    BY <2>2
  <2>4. ASSUME NEW i \in 1 .. Len(rules) PROVE RuleTyped(rules[i])
    <3>1. PICK h, t \in Text : h = rules[i].head /\ t = rules[i].text
      BY <2>1, <2>3
    <3>2. h \o t \in Text
      BY DEF Text
    <3>3. Expand(rules[i]) \in Text
      BY <3>1, <3>2, Zenon DEF Expand
    <3> QED
      BY <2>2, <3>1, <3>3, Zenon DEF RuleTyped
  <2> QED
    BY <2>3, <2>4, Zenon DEF RulesTyped
<1> QED
  BY <1>1, <1>2

-----------------------------------------------------------------------------
(* The invariant of the output, and what follows from it.                   *)

(* The secrets of redactor r replaced in s.                                 *)
Replaced(r, s) == ReplaceSecrets(r.secrets, s)

(* The inductive invariant while output may come: whatever follows, the     *)
(* secrets in all of the output are replaced as stage one did and will do.  *)
Streaming(r, wr, cl, sn) ==
  /\ r \in Redactors /\ wr \in Text /\ cl \in Text /\ sn \in Text
  /\ RedactorOK(r, cl, sn) /\ Ready(r.rules, sn, r.carry)
  /\ \A d \in Text : Replaced(r, Cat(wr, d)) = Cat(cl, Replaced(r, Cat(r.secretCarry, d)))
  /\ r.secretCarry # <<>> => IsSecretPrefix(r.secrets, r.secretCarry)

(* And once the redactor has been flushed.                                  *)
Finished(r, wr, cl, sn) ==
  /\ r \in Redactors /\ wr \in Text /\ cl \in Text /\ sn \in Text
  /\ RedactorOK(r, cl, sn)
  /\ Replaced(r, wr) = cl
  /\ r.secretCarry = <<>> /\ r.carry = <<>>

(* The type, field by field.                                                *)
LEMMA RedactorFields ==
  ASSUME NEW r \in Redactors
  PROVE  /\ r.secrets \subseteq Phrases /\ r.secrets \in SUBSET Text
         /\ r.rules \in Rules \union {<<>>} /\ RulesTyped(r.rules)
         /\ r.secretCarry \in Text /\ r.carry \in Text
<1>1. /\ r.secrets \in SUBSET Phrases /\ r.rules \in Rules \union {<<>>}
      /\ r.secretCarry \in Text /\ r.carry \in Text
  BY DEF Redactors
<1>2. RulesTyped(r.rules)
  BY <1>1, RulesFit
<1> QED
  BY <1>1, <1>2, PhrasesInText

(* It holds of a new redactor.                                              *)
LEMMA NewStreams ==
  ASSUME NEW values, values \subseteq Seq(Symbols), NEW rules \in Rules \union {<<>>},
         NEW r, r = NewRedactor(values, rules)
  PROVE  Streaming(r, <<>>, <<>>, <<>>)
<1>1. PICK secrets : secrets = {v \in values : Len(v) >= MinSecret}
  OBVIOUS
<1>2. secrets \in SUBSET Phrases
  <2>1. ASSUME NEW v \in values, Len(v) >= MinSecret PROVE v \in Phrases
    <3>1. MinSecret \in Nat \ {0}
      BY RedactorAssumption
    <3>2. v \in Seq(Symbols)
      OBVIOUS
    <3>3. v # <<>>
      BY <2>1, <3>1, <3>2
    <3> QED
      BY <3>2, <3>3 DEF Phrases
  <2> QED
    BY <1>1, <2>1
<1>3. <<>> \in Text
  BY CatFacts
<1>4. PICK e \in Text : e = <<>>
  BY <1>3
<1>5. r = [secrets |-> secrets, rules |-> rules, secretCarry |-> e, carry |-> e]
  BY <1>1, <1>4, Zenon DEF NewRedactor
<1>6. /\ r \in Redactors /\ r.secretCarry = e /\ r.carry = e /\ r.rules = rules
      /\ r.secrets = secrets
  BY <1>2, <1>5 DEF Redactors
<1>7. RulesTyped(rules)
  BY RulesFit
<1>8. RedactorOK(r, e, e)
  <2>1. Cat(e, e) = e /\ Len(e) = 0 /\ Overlap \in Nat
    BY <1>4, CatFacts, RedactorAssumption
  <2>2. NothingNew(rules, e, e, e)
    BY <2>1, Zenon DEF NothingNew
  <2>3. ASSUME NEW i \in 1 .. Len(rules) PROVE ~ Occurs(rules[i].head, e)
    <3>1. PICK h \in Text : h = rules[i].head /\ h # <<>>
      BY <1>7 DEF RulesTyped, RuleTyped
    <3>2. Len(h) \in Nat /\ Len(h) > 0
      BY <3>1 DEF Text
    <3>3. ~ Occurs(h, e)
      BY <2>1, <3>2 DEF Occurs, At
    <3> QED
      BY <3>1, <3>3
  <2>4. NoHead(rules, Cat(e, e))
    BY <2>1, <2>3, Zenon DEF NoHead
  <2> QED
    BY <1>4, <1>6, <2>1, <2>2, <2>4 DEF RedactorOK
<1>9. ASSUME NEW d \in Text
      PROVE  Replaced(r, Cat(e, d)) = Cat(e, Replaced(r, Cat(e, d)))
  <2>1. Cat(e, d) = d
    BY <1>4, CatFacts
  <2>2. Replaced(r, d) \in Text
    BY <1>6, RedactorFields, ReplaceSecretsInText DEF Replaced
  <2> QED
    BY <1>4, <2>1, <2>2, CatFacts
<1>10. Ready(r.rules, e, r.carry)
  BY <1>4 DEF Ready
<1> QED
  BY <1>4, <1>6, <1>8, <1>9, <1>10 DEF Streaming

(* Stage two, with and without rules.                                       *)
LEMMA StageTwoFacts ==
  ASSUME NEW r, NEW wr, NEW cl, NEW sn, Streaming(r, wr, cl, sn),
         NEW data \in Text, NEW finalize \in BOOLEAN,
         NEW two, two = IF r.rules = <<>> THEN [out |-> data, carry |-> <<>>]
                        ELSE RedactRules(r.rules, r.carry, data, finalize)
  PROVE  StageTwo(r.rules, Cat(cl, data), sn, finalize, two)
<1>1. r \in Redactors /\ cl \in Text /\ sn \in Text /\ RedactorOK(r, cl, sn) /\ Ready(r.rules, sn, r.carry)
  BY Zenon DEF Streaming
<1>2. RulesTyped(r.rules) /\ r.carry \in Text
  BY <1>1, RedactorFields
<1>3. /\ NothingNew(r.rules, cl, sn, r.carry) /\ NoHead(r.rules, Cat(sn, r.carry))
      /\ Len(r.carry) <= Overlap /\ (r.rules = <<>> => r.carry = <<>>)
  BY <1>1, Zenon DEF RedactorOK
<1>4. CASE r.rules = <<>>
  <2>1. PICK e \in Text : e = <<>>
    BY CatFacts
  <2>2. two = [out |-> data, carry |-> e]
    BY <1>4, <2>1
  <2>3. two.out = data /\ two.carry = e
    BY <2>2
  <2>4. r.carry = e /\ Len(e) = 0 /\ Overlap \in Nat
    BY <1>3, <1>4, <2>1, RedactorAssumption
  <2>5. Cat(sn, data) \in Text /\ Cat(Cat(sn, data), e) = Cat(sn, data) /\ Cat(sn, e) = sn
    BY <1>1, <2>1, CatFacts
  <2>6. ASSUME Marking(r.rules), NEW w \in Phrases, NEW d \in Text, Occurs(w, Cat(Cat(sn, data), d))
        PROVE  Occurs(w, Cat(Cat(cl, data), d))
    <3>1. /\ Cat(Cat(sn, data), d) = Cat(sn, Cat(data, d))
          /\ Cat(Cat(cl, data), d) = Cat(cl, Cat(data, d))
      BY <1>1, CatAssoc
    <3>2. Cat(data, d) \in Text
      BY CatFacts
    <3>3. Occurs(w, Cat(Cat(sn, r.carry), Cat(data, d)))
      BY <2>4, <2>5, <2>6, <3>1, Zenon
    <3>4. Occurs(w, Cat(cl, Cat(data, d)))
      BY <1>3, <2>6, <3>2, <3>3, Zenon DEF NothingNew
    <3> QED
      BY <3>1, <3>4, Zenon
  <2>7. NothingNew(r.rules, Cat(cl, data), Cat(sn, two.out), two.carry)
    BY <2>3, <2>5, <2>6, Zenon DEF NothingNew
  <2>8. NoHead(r.rules, Cat(Cat(sn, two.out), two.carry))
    BY <1>4 DEF NoHead
  <2>9. Ready(r.rules, Cat(sn, two.out), two.carry)
    BY <1>4 DEF Ready
  <2> QED
    BY <2>1, <2>3, <2>4, <2>7, <2>8, <2>9 DEF StageTwo
<1>5. CASE r.rules # <<>>
  <2>1. two = RedactRules(r.rules, r.carry, data, finalize)
    BY <1>5
  <2> QED
    BY <1>1, <1>2, <1>3, <1>5, <2>1, RedactRulesFacts
<1> QED
  BY <1>4, <1>5

(* RedactChunk preserves it, and the flush finishes.                        *)
LEMMA ChunkFacts ==
  ASSUME NEW r, NEW wr, NEW cl, NEW sn, Streaming(r, wr, cl, sn),
         NEW chunk \in Text, NEW finalize \in BOOLEAN,
         NEW x, x = RedactChunk(r, chunk, finalize)
  PROVE  /\ ~ finalize => Streaming(x.next, Cat(wr, chunk), Cat(cl, x.clean), Cat(sn, x.out))
         /\ finalize /\ chunk = <<>> => Finished(x.next, wr, Cat(cl, x.clean), Cat(sn, x.out))
<1>1. /\ r \in Redactors /\ wr \in Text /\ cl \in Text /\ sn \in Text
      /\ \A d \in Text : Replaced(r, Cat(wr, d)) = Cat(cl, Replaced(r, Cat(r.secretCarry, d)))
  BY Zenon DEF Streaming
<1>2. r.secrets \in SUBSET Text /\ r.secretCarry \in Text /\ r.carry \in Text
  BY <1>1, RedactorFields
<1>3. PICK one : one = RedactSecrets(r.secrets, r.secretCarry, chunk, finalize)
  OBVIOUS
<1>4. /\ one.out \in Text /\ one.carry \in Text
      /\ one.carry # <<>> => ~ finalize /\ IsSecretPrefix(r.secrets, one.carry)
      /\ finalize => ReplaceSecrets(r.secrets, Cat(r.secretCarry, chunk)) = one.out
      /\ ~ finalize => \A d \in Text : ReplaceSecrets(r.secrets, Cat(Cat(r.secretCarry, chunk), d))
                                         = Cat(one.out, ReplaceSecrets(r.secrets, Cat(one.carry, d)))
  <2>1. StageOne(r.secrets, Cat(r.secretCarry, chunk), finalize, one)
    BY <1>2, <1>3, RedactSecretsFacts
  <2> QED
    BY <2>1, Zenon DEF StageOne
<1>5. PICK two : two = IF r.rules = <<>> THEN [out |-> one.out, carry |-> <<>>]
                       ELSE RedactRules(r.rules, r.carry, one.out, finalize)
  OBVIOUS
<1>6. /\ two.out \in Text /\ two.carry \in Text /\ Len(two.carry) <= Overlap
      /\ r.rules = <<>> => two.carry = <<>>
      /\ NothingNew(r.rules, Cat(cl, one.out), Cat(sn, two.out), two.carry)
      /\ NoHead(r.rules, Cat(Cat(sn, two.out), two.carry))
      /\ IF finalize THEN two.carry = <<>> ELSE Ready(r.rules, Cat(sn, two.out), two.carry)
  <2>1. StageTwo(r.rules, Cat(cl, one.out), sn, finalize, two)
    BY <1>4, <1>5, StageTwoFacts
  <2> QED
    BY <2>1, Zenon DEF StageTwo
<1>7. PICK n : n = [r EXCEPT !.secretCarry = one.carry, !.carry = two.carry]
  OBVIOUS
<1>8. x.next = n /\ x.clean = one.out /\ x.out = two.out
  <2>1. x = [clean |-> one.out, out |-> two.out, next |-> n]
    BY <1>3, <1>5, <1>7, Zenon DEF RedactChunk
  <2> QED
    BY <2>1
<1>9. /\ n \in Redactors /\ n.secrets = r.secrets /\ n.rules = r.rules
      /\ n.secretCarry = one.carry /\ n.carry = two.carry
  BY <1>1, <1>4, <1>6, <1>7, RedactorNext, Zenon DEF Redactors
<1>10. RedactorOK(n, Cat(cl, one.out), Cat(sn, two.out))
  BY <1>6, <1>9, Zenon DEF RedactorOK
<1>11. Cat(wr, chunk) \in Text /\ Cat(cl, one.out) \in Text /\ Cat(sn, two.out) \in Text
  BY <1>1, <1>4, <1>6, CatFacts
<1>12. ASSUME ~ finalize PROVE Streaming(n, Cat(wr, chunk), Cat(cl, one.out), Cat(sn, two.out))
  <2>1. ASSUME NEW d \in Text
        PROVE  Replaced(n, Cat(Cat(wr, chunk), d))
                 = Cat(Cat(cl, one.out), Replaced(n, Cat(n.secretCarry, d)))
    <3>1. Cat(chunk, d) \in Text /\ Cat(one.carry, d) \in Text
      BY <1>4, CatFacts
    <3>2. PICK R \in Text : R = ReplaceSecrets(r.secrets, Cat(one.carry, d))
      BY <1>2, <3>1, ReplaceSecretsInText
    <3>3. /\ Cat(Cat(wr, chunk), d) = Cat(wr, Cat(chunk, d))
          /\ Cat(r.secretCarry, Cat(chunk, d)) = Cat(Cat(r.secretCarry, chunk), d)
      BY <1>1, <1>2, CatAssoc
    <3>4. Cat(cl, Cat(one.out, R)) = Cat(Cat(cl, one.out), R)
      BY <1>1, <1>4, CatAssoc
    <3>5. Replaced(r, Cat(wr, Cat(chunk, d))) = Cat(cl, Replaced(r, Cat(r.secretCarry, Cat(chunk, d))))
      BY <1>1, <3>1
    <3>6. Replaced(r, Cat(Cat(r.secretCarry, chunk), d)) = Cat(one.out, R)
      BY <1>4, <1>12, <3>2, Zenon DEF Replaced
    <3>7. Replaced(n, Cat(Cat(wr, chunk), d)) = Cat(Cat(cl, one.out), R)
      BY <1>9, <3>3, <3>4, <3>5, <3>6, Zenon DEF Replaced
    <3>8. R = Replaced(n, Cat(n.secretCarry, d))
      BY <1>9, <3>2, Zenon DEF Replaced
    <3> QED
      BY <3>7, <3>8, Zenon
  <2>2. n.secretCarry # <<>> => IsSecretPrefix(n.secrets, n.secretCarry)
    BY <1>4, <1>9
  <2>3. Ready(n.rules, Cat(sn, two.out), n.carry)
    BY <1>6, <1>9, <1>12
  <2> QED
    BY <1>9, <1>10, <1>11, <2>1, <2>2, <2>3, Zenon DEF Streaming
<1>13. ASSUME finalize, chunk = <<>> PROVE Finished(n, wr, Cat(cl, one.out), Cat(sn, two.out))
  <2>1. n.secretCarry = <<>> /\ n.carry = <<>>
    BY <1>4, <1>6, <1>9, <1>13
  <2>2. Cat(wr, chunk) = wr
    BY <1>1, <1>13, CatFacts
  <2>3. Replaced(r, Cat(wr, chunk)) = Cat(cl, Replaced(r, Cat(r.secretCarry, chunk)))
    BY <1>1
  <2>4. Replaced(n, wr) = Cat(cl, one.out)
    BY <1>4, <1>9, <1>13, <2>2, <2>3, Zenon DEF Replaced
  <2> QED
    BY <1>1, <1>9, <1>10, <1>11, <2>1, <2>4, Zenon DEF Finished
<1> QED
  BY <1>8, <1>12, <1>13

(* The inductive invariant of the output.                                   *)
OutputInv ==
  /\ phase \in {"file", "refused", "loaded", "denied", "admitted", "running", "ended"}
  /\ written \in Text /\ Len(written) <= MaxOutput
  /\ phase = "ended" => Finished(redactor, written, clean, sent)
  /\ phase # "ended" => Streaming(redactor, written, clean, sent)
  /\ phase \notin {"running", "ended"} => written = <<>> /\ clean = <<>> /\ sent = <<>>

(* Sequences of bounded length.                                             *)
LEMMA SeqOfFacts ==
  ASSUME NEW S, NEW n \in Nat
  PROVE  \A s : s \in SeqOf(S, n) <=> s \in Seq(S) /\ Len(s) <= n
<1>1. ASSUME NEW s \in SeqOf(S, n) PROVE s \in Seq(S) /\ Len(s) <= n
  <2>1. PICK m \in 0 .. n : s \in [1 .. m -> S]
    BY DEF SeqOf
  <2> QED
    BY <2>1
<1>2. ASSUME NEW s \in Seq(S), Len(s) <= n PROVE s \in SeqOf(S, n)
  <2>1. Len(s) \in 0 .. n /\ s \in [1 .. Len(s) -> S]
    BY <1>2
  <2> QED
    BY <2>1 DEF SeqOf
<1> QED
  BY <1>1, <1>2

(* The output invariant holds initially.                                    *)
LEMMA OutputInit ==
  CallInit => OutputInv
<1> SUFFICES ASSUME CallInit PROVE OutputInv
  OBVIOUS
<1>1. PICK r : r = NewRedactor({}, <<>>)
  OBVIOUS
<1>2. Streaming(r, <<>>, <<>>, <<>>)
  BY <1>1, NewStreams
<1>3. /\ phase = "file" /\ redactor = r
      /\ written = <<>> /\ clean = <<>> /\ sent = <<>>
  BY <1>1 DEF CallInit
<1>4. <<>> \in Text /\ Len(<<>>) <= MaxOutput
  BY BoundAssumption DEF Text
<1> QED
  BY <1>2, <1>3, <1>4 DEF OutputInv

(* Hand is RedactChunk on the variables.                                    *)
LEMMA HandFacts ==
  ASSUME Streaming(redactor, written, clean, sent),
         NEW chunk \in Text, NEW finalize \in BOOLEAN, Hand(chunk, finalize)
  PROVE  /\ ~ finalize => Streaming(redactor', Cat(written, chunk), clean', sent')
         /\ finalize /\ chunk = <<>> => Finished(redactor', written, clean', sent')
<1>1. PICK r, wr, cl, sn : r = redactor /\ wr = written /\ cl = clean /\ sn = sent
  OBVIOUS
<1>2. PICK x : x = RedactChunk(r, chunk, finalize)
  OBVIOUS
<1>3. redactor' = x.next /\ clean' = Cat(cl, x.clean) /\ sent' = Cat(sn, x.out)
  BY <1>1, <1>2, Zenon DEF Hand, Cat
<1>4. Streaming(r, wr, cl, sn)
  BY <1>1
<1>5. /\ ~ finalize => Streaming(x.next, Cat(wr, chunk), Cat(cl, x.clean), Cat(sn, x.out))
      /\ finalize /\ chunk = <<>> => Finished(x.next, wr, Cat(cl, x.clean), Cat(sn, x.out))
  BY <1>2, <1>4, ChunkFacts
<1> QED
  BY <1>1, <1>3, <1>5, Zenon

(* Every step preserves the output invariant.                               *)
LEMMA OutputStep ==
  OutputInv /\ [CallNext]_toolCallVars => OutputInv'
<1> SUFFICES ASSUME OutputInv, [CallNext]_toolCallVars PROVE OutputInv'
  OBVIOUS
<1> USE DEF OutputInv
<1>1. CASE Load
  BY <1>1 DEF Load, outVars
<1>2. CASE Finalize
  <2>1. /\ phase = "running" /\ phase' = "ended" /\ written' = written /\ Hand(<<>>, TRUE)
    BY <1>2 DEF Finalize
  <2>2. Finished(redactor', written, clean', sent')
    BY <2>1, HandFacts, CatFacts
  <2> QED
    BY <2>1, <2>2
<1>3. ASSUME NEW args \in Args, Check(args) PROVE OutputInv'
  <2>1. /\ phase = "loaded" /\ phase' \in {"admitted", "denied"}
        /\ UNCHANGED outVars
    BY <1>3, Zenon DEF Check
  <2> QED
    BY <2>1 DEF outVars
<1>4. ASSUME NEW values \in Values, NEW rules \in Rules, Start(values, rules) PROVE OutputInv'
  <2>1. /\ phase = "admitted" /\ phase' = "running" /\ redactor' = NewRedactor(values, rules)
        /\ UNCHANGED <<written, clean, sent>>
    BY <1>4 DEF Start
  <2>2. values \subseteq Seq(Symbols)
    BY ValueAssumption
  <2>3. PICK r : r = NewRedactor(values, rules)
    OBVIOUS
  <2>4. Streaming(r, <<>>, <<>>, <<>>)
    BY <2>2, <2>3, NewStreams
  <2> QED
    BY <2>1, <2>3, <2>4
<1>5. ASSUME NEW chunk \in SeqOf(Alphabet, MaxChunk) \ {<<>>}, Write(chunk) PROVE OutputInv'
  <2>1. /\ phase = "running" /\ phase' = phase /\ Len(written) + Len(chunk) <= MaxOutput
        /\ Hand(chunk, FALSE) /\ written' = written \o chunk
    BY <1>5 DEF Write, callVars
  <2>2. chunk \in Text
    BY BoundAssumption, SeqOfFacts DEF Text
  <2>3. Streaming(redactor', Cat(written, chunk), clean', sent')
    BY <2>1, <2>2, HandFacts
  <2>4. written' = Cat(written, chunk)
    BY <2>1, Zenon DEF Cat
  <2>5. written' \in Text /\ Len(written') <= MaxOutput
    BY <2>1, <2>2, BoundAssumption DEF Text
  <2> QED
    BY <2>1, <2>3, <2>4, <2>5
<1>6. CASE UNCHANGED toolCallVars
  BY <1>6 DEF toolCallVars, callVars, outVars
<1> QED
  BY <1>1, <1>2, <1>3, <1>4, <1>5, <1>6 DEF CallNext

(* So it always holds.                                                      *)
LEMMA OutputAlways ==
  CallSpec => []OutputInv
  BY OutputInit, OutputStep, PTL DEF CallSpec

(* From the invariant: no secret in what stage one let through, which is    *)
(* the beginning of the output with all secrets replaced; and with rules    *)
(* that put marks in place of phrases, no secret in what was sent, which    *)
(* holds no phrase that stage one did not let through, and no match.        *)
LEMMA StreamingHides ==
  ASSUME NEW r \in Redactors, NEW wr \in Text, NEW cl \in Text, NEW sn \in Text,
         RedactorOK(r, cl, sn),
         ReplaceSecrets(r.secrets, wr) = Cat(cl, ReplaceSecrets(r.secrets, r.secretCarry))
  PROVE  /\ \A s \in r.secrets : s \notin SubSeqs(cl)
         /\ Marking(r.rules) =>
              /\ \A s \in r.secrets : s \notin SubSeqs(sn)
              /\ \A i \in 1 .. Len(r.rules) :
                   Len(r.rules[i].head) <= Overlap + 1 => r.rules[i].head \notin SubSeqs(sn)
<1>1. /\ r.secrets \subseteq Phrases /\ r.secrets \in SUBSET Text /\ RulesTyped(r.rules)
      /\ r.secretCarry \in Text /\ r.carry \in Text
  BY RedactorFields
<1>2. NothingNew(r.rules, cl, sn, r.carry) /\ NoHead(r.rules, Cat(sn, r.carry))
  BY Zenon DEF RedactorOK
<1>3. ASSUME NEW s \in r.secrets PROVE s \in Phrases /\ ~ Occurs(s, cl)
  <2>1. s \in Phrases
    BY <1>1
  <2>2. PICK R \in Text : R = ReplaceSecrets(r.secrets, r.secretCarry)
    BY <1>1, ReplaceSecretsInText
  <2>3. ~ Occurs(s, Cat(cl, R))
    BY <1>1, <2>2, NoSecretLeft
  <2> QED
    BY <2>1, <2>3, OccursCat
<1>4. ASSUME NEW s \in r.secrets, s \in SubSeqs(cl) PROVE FALSE
  BY <1>3, <1>4, SubSeqOccurs
<1>5. ASSUME Marking(r.rules), NEW s \in r.secrets, s \in SubSeqs(sn) PROVE FALSE
  <2>1. s \in Phrases
    BY <1>3
  <2>2. Occurs(s, sn)
    BY <1>5, <2>1, SubSeqOccurs
  <2>3. Occurs(s, Cat(sn, r.carry)) /\ Cat(Cat(sn, r.carry), <<>>) = Cat(sn, r.carry)
    BY <1>1, <2>1, <2>2, OccursCat, CatFacts
  <2>4. <<>> \in Text /\ Cat(cl, <<>>) = cl
    BY CatFacts
  <2>5. Occurs(s, cl)
    BY <1>2, <1>5, <2>1, <2>3, <2>4, Zenon DEF NothingNew
  <2> QED
    BY <1>3, <2>5
<1>6. ASSUME Marking(r.rules), NEW i \in 1 .. Len(r.rules), Len(r.rules[i].head) <= Overlap + 1,
             r.rules[i].head \in SubSeqs(sn)
      PROVE  FALSE
  <2>1. PICK h \in Phrases : h = r.rules[i].head
    BY <1>1, <1>6, MarkingRules, Zenon DEF PhraseRules
  <2>2. Occurs(h, sn)
    BY <1>6, <2>1, SubSeqOccurs
  <2>3. Occurs(h, Cat(sn, r.carry))
    BY <1>1, <2>2, OccursCat
  <2> QED
    BY <1>2, <1>6, <2>1, <2>3, Zenon DEF NoHead
<1> QED
  BY <1>4, <1>5, <1>6, Zenon

(* The part of the invariant that does not depend on the phase.             *)
LEMMA OutputWhole ==
  ASSUME OutputInv
  PROVE  /\ redactor \in Redactors /\ written \in Text /\ clean \in Text /\ sent \in Text
         /\ RedactorOK(redactor, clean, sent)
         /\ ReplaceSecrets(redactor.secrets, written)
              = Cat(clean, ReplaceSecrets(redactor.secrets, redactor.secretCarry))
<1>1. CASE phase = "ended"
  <2>1. Finished(redactor, written, clean, sent)
    BY <1>1 DEF OutputInv
  <2>2. /\ redactor \in Redactors /\ written \in Text /\ clean \in Text /\ sent \in Text
        /\ RedactorOK(redactor, clean, sent)
        /\ Replaced(redactor, written) = clean /\ redactor.secretCarry = <<>>
    BY <2>1, Zenon DEF Finished
  <2>3. PICK r \in Redactors : r = redactor
    BY <2>2
  <2>4. ReplaceSecrets(r.secrets, <<>>) = <<>>
    BY RedactorFields, ReplaceSecretsEmpty
  <2>5. Cat(clean, <<>>) = clean
    BY <2>2, CatFacts
  <2> QED
    BY <2>2, <2>3, <2>4, <2>5, Zenon DEF Replaced
<1>2. CASE phase # "ended"
  <2>1. Streaming(redactor, written, clean, sent)
    BY <1>2 DEF OutputInv
  <2>2. /\ redactor \in Redactors /\ written \in Text /\ clean \in Text /\ sent \in Text
        /\ RedactorOK(redactor, clean, sent)
        /\ \A d \in Text : Replaced(redactor, Cat(written, d))
                             = Cat(clean, Replaced(redactor, Cat(redactor.secretCarry, d)))
    BY <2>1, Zenon DEF Streaming
  <2>3. PICK r \in Redactors : r = redactor
    BY <2>2
  <2>4. r.secretCarry \in Text
    BY RedactorFields
  <2>5. /\ <<>> \in Text /\ Cat(written, <<>>) = written
        /\ Cat(redactor.secretCarry, <<>>) = redactor.secretCarry
    BY <2>2, <2>3, <2>4, CatFacts
  <2>6. Replaced(redactor, Cat(written, <<>>))
          = Cat(clean, Replaced(redactor, Cat(redactor.secretCarry, <<>>)))
    BY <2>2, <2>5, Zenon
  <2> QED
    BY <2>2, <2>5, <2>6, Zenon DEF Replaced
<1> QED
  BY <1>1, <1>2

(* However the output of a tool is cut into chunks, the secrets in it are   *)
(* replaced as in one piece, and only what may be the start of a secret is  *)
(* held back: RedactChunk and redactSecrets, for any secrets and any        *)
(* output.                                                                  *)
THEOREM StreamedAsWholeHolds ==
  CallSpec => []StreamedAsWhole
<1>1. OutputInv => StreamedAsWhole
  <2> SUFFICES ASSUME OutputInv PROVE StreamedAsWhole
    OBVIOUS
  <2>1. ReplaceSecrets(redactor.secrets, written)
          = Cat(clean, ReplaceSecrets(redactor.secrets, redactor.secretCarry))
    BY OutputWhole
  <2>2. phase = "ended" => redactor.secretCarry = <<>>
    BY DEF OutputInv, Finished
  <2>3. redactor.secretCarry # <<>> => IsSecretPrefix(redactor.secrets, redactor.secretCarry)
    BY <2>2, Zenon DEF OutputInv, Streaming
  <2> QED
    BY <2>1, <2>2, <2>3, Zenon DEF StreamedAsWhole, Cat
<1> QED
  BY <1>1, OutputAlways, PTL

(* No secret gets through redactSecrets, for any rules.  Where the rules    *)
(* put marks in place of texts without marks, what redactRules has sent     *)
(* holds no secret, and nothing that a rule matches whose head fits into    *)
(* the overlap and one symbol.  What is kept is bounded by the overlap, and *)
(* the flush sends it.                                                      *)
THEOREM NoMatchSentHolds ==
  CallSpec => []NoMatchSent
<1>1. OutputInv => NoMatchSent
  <2> SUFFICES ASSUME OutputInv PROVE NoMatchSent
    OBVIOUS
  <2>1. PICK r, wr, cl, sn : r = redactor /\ wr = written /\ cl = clean /\ sn = sent
    OBVIOUS
  <2>2. /\ r \in Redactors /\ wr \in Text /\ cl \in Text /\ sn \in Text
        /\ RedactorOK(r, cl, sn)
        /\ ReplaceSecrets(r.secrets, wr) = Cat(cl, ReplaceSecrets(r.secrets, r.secretCarry))
    BY <2>1, OutputWhole
  <2>3. /\ \A s \in r.secrets : s \notin SubSeqs(cl)
        /\ Marking(r.rules) =>
             /\ \A s \in r.secrets : s \notin SubSeqs(sn)
             /\ \A i \in 1 .. Len(r.rules) :
                  Len(r.rules[i].head) <= Overlap + 1 => r.rules[i].head \notin SubSeqs(sn)
    BY <2>2, StreamingHides
  <2>4. Len(r.carry) <= Overlap
    BY <2>2 DEF RedactorOK
  <2>5. phase = "ended" => redactor.carry = <<>>
    BY DEF OutputInv, Finished
  <2> QED
    BY <2>1, <2>3, <2>4, <2>5, Zenon DEF NoMatchSent
<1> QED
  BY <1>1, OutputAlways, PTL

(* Every variable of ToolCall keeps its type; what a tool writes stays      *)
(* within the bound.                                                        *)
THEOREM CallTypeOKHolds ==
  CallSpec => []CallTypeOK
<1>1. OutputInv /\ PolicyInv => CallTypeOK
  <2> SUFFICES ASSUME OutputInv, PolicyInv PROVE CallTypeOK
    OBVIOUS
  <2>1. phase \in {"file", "refused", "loaded", "denied", "admitted", "running", "ended"}
    BY Zenon DEF OutputInv
  <2>2. written \in SeqOf(Alphabet, MaxOutput)
    BY SeqOfFacts, BoundAssumption DEF OutputInv, Text
  <2>3. clean \in Seq(Alphabet) /\ sent \in Seq(Alphabet)
    <3>1. clean \in Text /\ sent \in Text
      BY OutputWhole
    <3> QED
      BY <3>1, Zenon DEF Text
  <2>4. call.verdict \in {"none", "ok", "blocked", "not allowed", "internal error"}
    <3>1. CASE phase = "loaded"
      <4>1. PICK t : call = [args |-> <<>>, raw |-> t, verdict |-> "none"]
        BY <3>1, Zenon DEF PolicyInv
      <4> QED
        BY <4>1
    <3>2. CASE phase \in {"admitted", "denied"}
      <4>1. PICK t \in Tools, args \in Args :
              /\ ToolOK(t)
              /\ call = [args |-> args, raw |-> t, verdict |-> CheckToolArgs(args, LoadTool(t))]
        BY <3>2, Zenon DEF PolicyInv
      <4>2. PICK v : v = CheckToolArgs(args, LoadTool(t))
        OBVIOUS
      <4>3. v \in {"ok", "blocked", "not allowed"}
        BY <4>1, <4>2, VerdictRight
      <4>4. call.verdict = v
        BY <4>1, <4>2
      <4> QED
        BY <4>3, <4>4
    <3>3. CASE phase \notin {"loaded", "admitted", "denied"}
      BY <3>3, Zenon DEF PolicyInv
    <3> QED
      BY <3>1, <3>2, <3>3, Zenon
  <2> QED
    BY <2>1, <2>2, <2>3, <2>4, Zenon DEF CallTypeOK
<1> QED
  BY <1>1, OutputAlways, PolicyAlways, PTL

-----------------------------------------------------------------------------
(* Admission.                                                               *)

(* A handler in progress: what it verified, when, and how late it can be.   *)
HandlerOK ==
  \A h \in Handlers : pc[h] # "idle" =>
    /\ req[h] \in Messages
    /\ ts[decoded[req[h]]] \in Int
    /\ signedWith[decoded[req[h]]] = epoch
    /\ TimestampOK(ts[decoded[req[h]]], verifiedAt[h])
    /\ verifiedAt[h] <= now /\ now <= verifiedAt[h] + MaxDelay
    /\ pc[h] = "stamped" => verifiedAt[h] <= stamp[h] /\ stamp[h] <= now

(* What was accepted was signed, under a secret that exists; only what was  *)
(* accepted is stored.                                                      *)
SignedOK ==
  /\ \A r \in Requests : signedWith[r] <= epoch
  /\ \A m \in accepted : ts[decoded[m]] \in Int
  /\ \A m \in Messages : entries[m] # Absent => m \in accepted

(* The HMAC text of an accepted message is kept until no handler can act on *)
(* the message any more, unless it was evicted or stored too briefly.       *)
Retained ==
  \A m \in accepted \ (evicted \union brief) : signedWith[decoded[m]] = epoch =>
    \/ entries[m] # Absent /\ entries[m] > Deadline(m)
    \/ now > Deadline(m)

IInv == TypeOK /\ HandlerOK /\ SignedOK /\ Retained /\ AtMostOnce

USE DurationAssumption, ConfigAssumption, AbsentAssumption

LEMMA TTLType == TypeOK => ttl \in Int
BY DEF TypeOK, ReplayTTL

LEMMA EvictExpiredType ==
  ASSUME NEW es \in [Messages -> Int \union {Absent}], NEW n \in Int
  PROVE  /\ EvictExpired(es, n) \in [Messages -> Int \union {Absent}]
         /\ \A r \in Messages : \/ EvictExpired(es, n)[r] = es[r]
                                \/ EvictExpired(es, n)[r] = Absent /\ es[r] \in Int /\ es[r] < n
         /\ \A r \in Messages : es[r] \in Int /\ es[r] >= n => EvictExpired(es, n)[r] = es[r]
BY DEF EvictExpired

LEMMA InitIInv == Init => IInv
BY DEF Init, IInv, TypeOK, HandlerOK, SignedOK, Retained, AtMostOnce

(* The clock: once it passes a deadline it stays past it.                   *)
LEMMA TickStep == ASSUME IInv, Tick PROVE IInv'
<1> USE DEF IInv, Tick, cacheVars, reqVars, handlerVars, histVars
<1>1. TypeOK'
  BY DEF TypeOK
<1>2. HandlerOK'
  BY DEF HandlerOK, TypeOK, TimestampOK
<1>3. SignedOK' /\ AtMostOnce'
  BY DEF SignedOK, AtMostOnce, TypeOK
<1>4. Retained'
  BY DEF Retained, Deadline, SignedOK, TypeOK
<1> QED
  BY <1>1, <1>2, <1>3, <1>4

(* Signing concerns a request no message of which has verified.             *)
LEMMA SignStep ==
  ASSUME IInv, NEW r \in Requests, NEW x \in Timestamps, Sign(r, x) PROVE IInv'
<1> USE DEF IInv, Sign, cacheVars, handlerVars, histVars
<1>1. TypeOK'
  BY DEF TypeOK
<1>2. /\ \A m \in accepted : decoded[m] # r
      /\ \A h \in Handlers : pc[h] # "idle" => decoded[req[h]] # r
  BY DEF SignedOK, HandlerOK
<1>3. HandlerOK'
  BY <1>2 DEF HandlerOK, TypeOK, TimestampOK
<1>4. SignedOK' /\ AtMostOnce'
  BY <1>2 DEF SignedOK, AtMostOnce, TypeOK
<1>5. Retained'
  BY <1>2 DEF Retained, Deadline, TypeOK
<1> QED
  BY <1>1, <1>3, <1>4, <1>5

LEMMA VerifyStep ==
  ASSUME IInv, NEW h \in Handlers, NEW r \in Messages, Verify(h, r) PROVE IInv'
<1> USE DEF IInv, Verify, cacheVars, reqVars, histVars
<1>1. TypeOK'
  BY DEF TypeOK
<1>2. HandlerOK'
  BY DEF HandlerOK, TypeOK, TimestampOK
<1>3. SignedOK' /\ AtMostOnce' /\ Retained'
  BY DEF SignedOK, AtMostOnce, Retained, Deadline, TypeOK
<1> QED
  BY <1>1, <1>2, <1>3

LEMMA StampStep ==
  ASSUME IInv, NEW h \in Handlers, Stamp(h) PROVE IInv'
<1> USE DEF IInv, Stamp, cacheVars, reqVars, histVars
<1>1. TypeOK'
  BY DEF TypeOK
<1>2. HandlerOK'
  BY DEF HandlerOK, TypeOK, TimestampOK
<1>3. SignedOK' /\ AtMostOnce' /\ Retained'
  BY DEF SignedOK, AtMostOnce, Retained, Deadline, TypeOK
<1> QED
  BY <1>1, <1>2, <1>3

(* A handler that reaches the cache is before the deadline of its request.  *)
LEMMA StampBeforeDeadline ==
  ASSUME IInv, NEW h \in Handlers, pc[h] = "stamped"
  PROVE  /\ req[h] \in Messages /\ stamp[h] \in Int /\ Deadline(req[h]) \in Int
         /\ stamp[h] <= now /\ now <= Deadline(req[h])
         /\ stamp[h] + 2 * Drift + MaxDelay >= Deadline(req[h])
BY DEF IInv, TypeOK, HandlerOK, TimestampOK, Deadline

(* Dropping what expired by a clock reading keeps what must be retained.    *)
LEMMA EvictRetains ==
  ASSUME IInv, NEW n \in Int, n <= now,
         NEW r \in accepted \ (evicted \union brief), signedWith[decoded[r]] = epoch
  PROVE  \/ EvictExpired(entries, n)[r] # Absent /\ EvictExpired(entries, n)[r] > Deadline(r)
         \/ now > Deadline(r)
<1>1. r \in Messages /\ Deadline(r) \in Int /\ now \in Int
  BY DEF IInv, TypeOK, SignedOK, Deadline
<1>2. CASE now > Deadline(r)
  BY <1>2
<1>3. CASE entries[r] # Absent /\ entries[r] > Deadline(r)
  <2>1. entries \in [Messages -> Int \union {Absent}]
    BY DEF IInv, TypeOK
  <2>2. \/ EvictExpired(entries, n)[r] = entries[r]
        \/ entries[r] \in Int /\ entries[r] < n
    BY <1>1, <2>1, EvictExpiredType
  <2> QED
    BY <1>1, <1>3, <2>2
<1> QED
  BY <1>2, <1>3 DEF IInv, Retained

LEMMA RejectStep ==
  ASSUME IInv, NEW h \in Handlers, RejectSeen(h) PROVE IInv'
<1> DEFINE es == EvictExpired(entries, stamp[h])
<1>0. pc[h] = "stamped" /\ entries' = es
  BY DEF RejectSeen
<1>1. req[h] \in Messages /\ stamp[h] \in Int /\ stamp[h] <= now
  BY <1>0, StampBeforeDeadline
<1>2. es \in [Messages -> Int \union {Absent}] /\ \A r \in Messages : es[r] \in {entries[r], Absent}
  BY <1>1, EvictExpiredType DEF IInv, TypeOK
<1>3. TypeOK'
  BY <1>0, <1>1, <1>2 DEF IInv, TypeOK, RejectSeen, Done, reqVars
<1>4. HandlerOK'
  BY DEF IInv, TypeOK, HandlerOK, TimestampOK, RejectSeen, Done, reqVars
<1>5. SignedOK' /\ AtMostOnce'
  BY <1>0, <1>2 DEF IInv, TypeOK, SignedOK, AtMostOnce, RejectSeen, reqVars
<1>6. Retained'
  <2> SUFFICES ASSUME NEW r \in accepted \ (evicted \union brief), signedWith[decoded[r]] = epoch
               PROVE  (es[r] # Absent /\ es[r] > Deadline(r)) \/ now > Deadline(r)
    BY <1>0 DEF Retained, RejectSeen, reqVars, Deadline
  <2> QED
    BY <1>1, EvictRetains
<1> QED
  BY <1>3, <1>4, <1>5, <1>6 DEF IInv

(* The heart of the argument: a message that is accepted a second time had  *)
(* its entry evicted, or stored too briefly.                                *)
LEMMA AcceptStep ==
  ASSUME IInv, NEW h \in Handlers, Accept(h) PROVE IInv'
<1> DEFINE es == EvictExpired(entries, stamp[h])
           q == req[h]
<1>0. PICK E \in Oldest(es, IF Room(es) THEN 0 ELSE 1) :
        entries' = StoreNew(h, es, E) /\ evicted' = evicted \union E
  BY DEF Accept
<1>1. /\ q \in Messages /\ stamp[h] \in Int /\ Deadline(q) \in Int /\ now \in Int
      /\ stamp[h] <= now /\ now <= Deadline(q)
      /\ stamp[h] + 2 * Drift + MaxDelay >= Deadline(q)
  BY StampBeforeDeadline DEF Accept, IInv, TypeOK
<1>2. /\ es \in [Messages -> Int \union {Absent}]
      /\ \A r \in Messages : es[r] \in {entries[r], Absent}
  BY <1>1, EvictExpiredType, ZenonT(30) DEF IInv, TypeOK
<1>3. E \subseteq Messages
  BY <1>0 DEF Oldest, Stored
<1>4. ttl \in Int /\ (q \in brief' \/ stamp[h] + ttl > Deadline(q))
  BY <1>1, TTLType DEF IInv, Accept
<1>5. /\ entries' \in [Messages -> Int \union {Absent}]
      /\ entries'[q] = stamp[h] + ttl
      /\ \A r \in Messages \ {q} : entries'[r] = IF r \in E THEN Absent ELSE es[r]
  BY <1>0, <1>1, <1>2, <1>4 DEF StoreNew, Drop
<1>6. TypeOK'
  BY <1>0, <1>1, <1>3, <1>5 DEF IInv, TypeOK, Accept, Done, reqVars
<1>7. HandlerOK'
  BY DEF IInv, TypeOK, HandlerOK, TimestampOK, Accept, Done, reqVars
<1>8. SignedOK'
  BY <1>1, <1>2, <1>5 DEF IInv, TypeOK, SignedOK, HandlerOK, Accept, reqVars
<1>9. AtMostOnce'
  <2>1. q \in accepted => q \in evicted \union brief
    <3> SUFFICES ASSUME q \in accepted, q \notin evicted \union brief PROVE FALSE
      OBVIOUS
    <3>1. signedWith[decoded[q]] = epoch
      BY DEF IInv, HandlerOK, Accept
    <3>2. es[q] # Absent /\ es[q] > Deadline(q)
      BY <1>1, <3>1, EvictRetains
    <3>3. es[q] \in Int /\ stamp[h] < es[q]
      BY <1>1, <1>2, <3>2
    <3> QED
      BY <3>2, <3>3 DEF Accept, Seen
  <2> QED
    BY <1>0, <2>1 DEF IInv, AtMostOnce, Accept
<1>10. Retained'
  <2> SUFFICES ASSUME NEW r \in accepted' \ (evicted' \union brief'), signedWith[decoded[r]] = epoch
               PROVE  (entries'[r] # Absent /\ entries'[r] > Deadline(r)) \/ now > Deadline(r)
    BY DEF Retained, Accept, reqVars, Deadline
  <2>1. CASE r = q
    BY <1>1, <1>4, <1>5, <2>1
  <2>2. CASE r # q
    <3>1. r \in accepted \ (evicted \union brief) /\ r \notin E /\ r \in Messages
      BY <1>0, <2>2 DEF Accept, IInv, TypeOK
    <3>2. (es[r] # Absent /\ es[r] > Deadline(r)) \/ now > Deadline(r)
      BY <1>1, <3>1, EvictRetains
    <3> QED
      BY <1>5, <2>2, <3>1, <3>2
  <2> QED
    BY <2>1, <2>2
<1> QED
  BY <1>6, <1>7, <1>8, <1>9, <1>10 DEF IInv

(* A reload keeps the expiry of every entry it does not evict.              *)
LEMMA UpdateStep ==
  ASSUME IInv, NEW d \in ConfigTTLs, NEW m \in ConfigMax, UpdateSettings(d, m)
  PROVE  IInv'
<1>0. PICK E \in Oldest(entries, Excess(m)) :
        entries' = Drop(entries, E) /\ evicted' = evicted \union E
  BY DEF UpdateSettings
<1>1. E \subseteq Messages
  BY <1>0 DEF Oldest, Stored
<1>2. TypeOK'
  BY <1>0, <1>1 DEF IInv, TypeOK, UpdateSettings, Drop, reqVars, handlerVars
<1>3. HandlerOK'
  BY DEF IInv, HandlerOK, TimestampOK, UpdateSettings, reqVars, handlerVars
<1>4. SignedOK' /\ AtMostOnce'
  BY <1>0 DEF IInv, TypeOK, SignedOK, AtMostOnce, UpdateSettings, Drop, reqVars
<1>5. Retained'
  BY <1>0 DEF IInv, TypeOK, Retained, Deadline, UpdateSettings, Drop, reqVars
<1> QED
  BY <1>2, <1>3, <1>4, <1>5 DEF IInv

(* After a restart no signature of an earlier run verifies.                 *)
LEMMA RestartStep ==
  ASSUME IInv, NEW d \in ConfigTTLs, NEW m \in ConfigMax, Restart(d, m)
  PROVE  IInv'
<1> USE DEF IInv, Restart, NextSecret, reqVars, histVars
<1>1. TypeOK'
  BY DEF TypeOK
<1>2. HandlerOK' /\ SignedOK' /\ AtMostOnce'
  BY DEF HandlerOK, SignedOK, AtMostOnce, TypeOK
<1>3. Retained'
  BY DEF Retained, SignedOK, TypeOK
<1> QED
  BY <1>1, <1>2, <1>3

(* The inductive invariant.                                                 *)
THEOREM Inductive == Spec => []IInv
<1>1. IInv /\ [Next]_vars => IInv'
  <2> SUFFICES ASSUME IInv, [Next]_vars PROVE IInv'
    OBVIOUS
  <2>1. CASE UNCHANGED vars
    BY <2>1 DEF IInv, TypeOK, HandlerOK, TimestampOK, SignedOK, Retained, Deadline,
       AtMostOnce, vars, cacheVars, reqVars, handlerVars, histVars
  <2> QED
    BY <2>1, TickStep, SignStep, VerifyStep, StampStep, RejectStep, AcceptStep,
       UpdateStep, RestartStep DEF Next
<1> QED
  BY <1>1, InitIInv, PTL DEF Spec

(* A message, that is a signed request under one text of its HMAC, is       *)
(* handed on at most once, across concurrent deliveries, reloads and        *)
(* restarts, unless its entry was evicted for lack of room or stored with   *)
(* an expiry before the last instant at which it verifies.                  *)
THEOREM HandedOnOnce == Spec => []AtMostOnce
BY Inductive, PTL DEF IInv

(* Every entry was stored for as long as its request verifies.              *)
NeverBrief == brief = {}

(* With a lifetime longer than the time in which a request verifies, as the *)
(* default replay_cache_ttl is, no entry is stored too briefly, and the     *)
(* same message is handed on again only after an eviction.  (Another text   *)
(* of the same signature is another message.)                               *)
THEOREM LongRetentionSuffices ==
  ASSUME LongRetention
  PROVE  Spec => [](NeverBrief /\ again \subseteq evicted)
<1>1. Init => NeverBrief
  BY DEF Init, NeverBrief
<1>2. IInv /\ NeverBrief /\ [Next]_vars => NeverBrief'
  <2> SUFFICES ASSUME IInv, NeverBrief, [Next]_vars PROVE NeverBrief'
    OBVIOUS
  <2>1. ASSUME NEW h \in Handlers, Accept(h) PROVE NeverBrief'
    <3>1. pc[h] = "stamped"
      BY <2>1 DEF Accept
    <3>2. /\ stamp[h] \in Int /\ Deadline(req[h]) \in Int
          /\ stamp[h] + 2 * Drift + MaxDelay >= Deadline(req[h])
      BY <3>1, StampBeforeDeadline
    <3>3. ttl \in Int /\ ttl > 2 * Drift + MaxDelay
      BY TTLType, LongRetention DEF LongRetention, IInv, TypeOK
    <3> QED
      BY <2>1, <3>2, <3>3 DEF Accept, NeverBrief
  <2>2. ASSUME UNCHANGED histVars PROVE NeverBrief'
    BY <2>2 DEF histVars, NeverBrief
  <2>3. ASSUME NEW h \in Handlers, RejectSeen(h) PROVE NeverBrief'
    BY <2>3 DEF RejectSeen, NeverBrief
  <2>4. ASSUME NEW d \in ConfigTTLs, NEW m \in ConfigMax, UpdateSettings(d, m) PROVE NeverBrief'
    BY <2>4 DEF UpdateSettings, NeverBrief
  <2> QED
    BY <2>1, <2>2, <2>3, <2>4 DEF Next, vars, Tick, Sign, Stamp, Verify, Restart
<1>3. AtMostOnce /\ NeverBrief => again \subseteq evicted
  BY DEF AtMostOnce, NeverBrief
<1> QED
  BY <1>1, <1>2, <1>3, Inductive, HandedOnOnce, PTL DEF Spec

(* The step that hands a message on is an admission: the argument of        *)
(* AcceptStep for a message that was handed on before.                      *)
LEMMA AcceptAdmits ==
  ASSUME IInv, IInv', NEW h \in Handlers, Accept(h) PROVE Promise!Admit(req[h])
<1> DEFINE es == EvictExpired(entries, stamp[h])
<1>0. PICK E \in Oldest(es, IF Room(es) THEN 0 ELSE 1) : evicted' = evicted \union E
  BY DEF Accept
<1>1. req[h] \in Messages /\ stamp[h] \in Int /\ stamp[h] <= now /\ now <= Deadline(req[h])
      /\ Deadline(req[h]) \in Int /\ now \in Int
  BY StampBeforeDeadline DEF Accept, IInv, TypeOK
<1>2. /\ es \in [Messages -> Int \union {Absent}]
      /\ \A r \in Messages : es[r] \in {entries[r], Absent}
  BY <1>1, EvictExpiredType, ZenonT(30) DEF IInv, TypeOK
<1>3. E \subseteq accepted
  BY <1>0, <1>2 DEF Oldest, Stored, IInv, SignedOK
<1>4. req[h] \in accepted => req[h] \in evicted \union brief
  <2> SUFFICES ASSUME req[h] \in accepted, req[h] \notin evicted \union brief PROVE FALSE
    OBVIOUS
  <2>1. signedWith[decoded[req[h]]] = epoch
    BY DEF IInv, HandlerOK, Accept
  <2>2. es[req[h]] # Absent /\ es[req[h]] > Deadline(req[h])
    BY <1>1, <2>1, EvictRetains
  <2>3. es[req[h]] \in Int /\ stamp[h] < es[req[h]]
    BY <1>1, <1>2, <2>2
  <2> QED
    BY <2>2, <2>3 DEF Accept, Seen
<1> DEFINE F == E \union (IF stamp[h] + ttl <= Deadline(req[h]) THEN {req[h]} ELSE {})
<1>5. F \in SUBSET (accepted \union {req[h]})
  BY <1>3
<1>6. evicted' \union brief' = (evicted \union brief) \union F
  BY <1>0 DEF Accept
<1> QED
  <2> HIDE DEF F
  <2> QED
    BY <1>4, <1>5, <1>6 DEF Accept, Promise!Admit, Promise!Forget

(* A refusal as a replay always has a cause.                                *)
LEMMA RejectRefuses ==
  ASSUME IInv, NEW h \in Handlers, RejectSeen(h) PROVE Promise!Refuse(req[h])
<1>1. pc[h] = "stamped"
  BY DEF RejectSeen
<1>2. req[h] \in Messages /\ stamp[h] \in Int
  BY <1>1, StampBeforeDeadline
<1>3. entries[req[h]] # Absent
  <2>1. EvictExpired(entries, stamp[h])[req[h]] # Absent
    BY DEF RejectSeen, Seen
  <2>2. entries \in [Messages -> Int \union {Absent}]
    BY DEF IInv, TypeOK
  <2> QED
    BY <1>2, <2>1, <2>2 DEF EvictExpired
<1>4. req[h] \in accepted
  BY <1>2, <1>3 DEF IInv, SignedOK
<1> QED
  BY <1>4 DEF RejectSeen, Promise!Refuse

(* A reload that lowers the limit only makes room.                          *)
LEMMA UpdateMakesRoom ==
  ASSUME IInv, NEW d \in ConfigTTLs, NEW m \in ConfigMax, UpdateSettings(d, m)
  PROVE  Promise!MakeRoom
<1>0. PICK E \in Oldest(entries, Excess(m)) : evicted' = evicted \union E
  BY DEF UpdateSettings
<1>1. E \subseteq accepted
  BY <1>0 DEF Oldest, Stored, IInv, SignedOK
<1> QED
  BY <1>0, <1>1 DEF UpdateSettings, Promise!MakeRoom, Promise!Forget

(* The cache implements AdmitOnce for messages: initial states map to       *)
(* initial states, and every step to an admission, a refusal, room made, or *)
(* a stutter.                                                               *)
THEOREM Refinement == Spec => ImplementsAdmitOnce
<1>1. Init => Promise!Init
  BY DEF Init, Promise!Init
<1>2. IInv /\ IInv' /\ [Next]_vars => [Promise!Next]_(Promise!vars)
  <2> SUFFICES ASSUME IInv, IInv', [Next]_vars PROVE [Promise!Next]_(Promise!vars)
    OBVIOUS
  <2>1. ASSUME NEW h \in Handlers, Accept(h) PROVE Promise!Next
    <3>1. req[h] \in Messages
      BY <2>1 DEF Accept, IInv, HandlerOK
    <3> QED
      BY <2>1, <3>1, AcceptAdmits DEF Promise!Next
  <2>2. ASSUME NEW h \in Handlers, RejectSeen(h) PROVE Promise!Next
    <3>1. req[h] \in Messages
      BY <2>2 DEF RejectSeen, IInv, HandlerOK
    <3> QED
      BY <2>2, <3>1, RejectRefuses DEF Promise!Next
  <2>3. ASSUME NEW d \in ConfigTTLs, NEW m \in ConfigMax, UpdateSettings(d, m)
        PROVE  Promise!Next
    BY <2>3, UpdateMakesRoom DEF Promise!Next
  <2>4. ASSUME UNCHANGED histVars PROVE UNCHANGED Promise!vars
    BY <2>4 DEF histVars, Promise!vars
  <2>5. CASE UNCHANGED vars
    BY <2>4, <2>5 DEF vars
  <2>6. ASSUME NEW d \in ConfigTTLs, NEW m \in ConfigMax, Restart(d, m)
        PROVE  UNCHANGED histVars
    BY <2>6 DEF Restart
  <2>7. CASE Tick
    BY <2>4, <2>7 DEF Tick
  <2>8. ASSUME NEW r \in Requests, NEW x \in Timestamps, Sign(r, x) PROVE UNCHANGED histVars
    BY <2>8 DEF Sign
  <2>9. ASSUME NEW h \in Handlers, Stamp(h) \/ \E r \in Messages : Verify(h, r)
        PROVE  UNCHANGED histVars
    BY <2>9 DEF Stamp, Verify
  <2> QED
    BY <2>1, <2>2, <2>3, <2>4, <2>5, <2>6, <2>7, <2>8, <2>9 DEF Next
<1> QED
  BY <1>1, <1>2, Inductive, PTL DEF Spec, ImplementsAdmitOnce, Promise!Spec

(* What fits the limit.  Messages may be infinite, so that the stored set is *)
(* finite is part of the invariant.                                          *)
CapacityInv ==
  TypeOK /\ IsFiniteSet(Stored(entries)) /\ Cardinality(Stored(entries)) <= maxEntries

(* Expiry only removes: evictExpiredLocked leaves a subset of the keys.     *)
LEMMA ExpiryShrinks ==
  ASSUME NEW es \in [Messages -> Int \union {Absent}], NEW n \in Int, IsFiniteSet(Stored(es))
  PROVE  /\ IsFiniteSet(Stored(EvictExpired(es, n)))
         /\ Cardinality(Stored(EvictExpired(es, n))) <= Cardinality(Stored(es))
<1>1. Stored(EvictExpired(es, n)) \in SUBSET Stored(es)
  BY DEF Stored, EvictExpired
<1> QED
  BY <1>1, FS_Subset

(* Eviction of k keys, repeated evictOneLocked, frees exactly k places.     *)
LEMMA EvictionFrees ==
  ASSUME NEW es \in [Messages -> Int \union {Absent}], IsFiniteSet(Stored(es)),
         NEW k \in Nat, NEW E \in Oldest(es, k)
  PROVE  /\ IsFiniteSet(Stored(Drop(es, E)))
         /\ Cardinality(Stored(Drop(es, E))) = Cardinality(Stored(es)) - k
<1>1. E \subseteq Stored(es) /\ Cardinality(E) = k
  BY DEF Oldest
<1>2. Stored(Drop(es, E)) = Stored(es) \ E /\ Stored(es) \cap E = E
  BY <1>1 DEF Stored, Drop
<1>3. /\ IsFiniteSet(Stored(es) \ E)
      /\ Cardinality(Stored(es) \ E) = Cardinality(Stored(es)) - Cardinality(Stored(es) \cap E)
  BY FS_Difference
<1> QED
  BY <1>1, <1>2, <1>3

(* SeenOrStore stores one key, after it has made room for it: a key that is *)
(* still present (an entry that expires at this very instant) is            *)
(* overwritten and takes no place of its own.                               *)
LEMMA AcceptFits ==
  ASSUME CapacityInv, TypeOK', NEW h \in Handlers, Accept(h), req[h] \in Messages
  PROVE  CapacityInv'
<1> DEFINE es == EvictExpired(entries, stamp[h])
           k == IF Room(es) THEN 0 ELSE 1
<1>0. PICK E \in Oldest(es, k) : entries' = StoreNew(h, es, E)
  BY DEF Accept
<1>1. stamp[h] \in Int /\ entries \in [Messages -> Int \union {Absent}] /\ maxEntries \in Nat \ {0}
      /\ ttl \in Int /\ k \in Nat
  BY TTLType DEF CapacityInv, TypeOK
<1>2. /\ es \in [Messages -> Int \union {Absent}]
      /\ IsFiniteSet(Stored(es)) /\ Cardinality(Stored(es)) <= Cardinality(Stored(entries))
  BY <1>1, EvictExpiredType, ExpiryShrinks DEF CapacityInv
<1>3. Cardinality(Stored(es)) \in Nat /\ Cardinality(Stored(entries)) \in Nat
  BY <1>2, FS_CardinalityType DEF CapacityInv
<1>4. Cardinality(Stored(es)) <= maxEntries
  BY <1>1, <1>2, <1>3 DEF CapacityInv
<1>5. /\ IsFiniteSet(Stored(Drop(es, E)))
      /\ Cardinality(Stored(Drop(es, E))) = Cardinality(Stored(es)) - k
  <2> HIDE DEF es, k
  <2> QED
    BY <1>0, <1>1, <1>2, EvictionFrees
<1>6. Cardinality(Stored(Drop(es, E))) + 1 <= maxEntries
  BY <1>1, <1>3, <1>4, <1>5 DEF Room
<1>7. Stored(entries') = Stored(Drop(es, E)) \union {req[h]}
  BY <1>0, <1>1, <1>2 DEF StoreNew, Drop, Stored
<1>8. /\ IsFiniteSet(Stored(Drop(es, E)) \union {req[h]})
      /\ Cardinality(Stored(Drop(es, E)) \union {req[h]}) <= Cardinality(Stored(Drop(es, E))) + 1
  <2>1. Cardinality(Stored(Drop(es, E))) \in Nat
    BY <1>5, FS_CardinalityType
  <2> HIDE DEF es
  <2>2. /\ IsFiniteSet(Stored(Drop(es, E)) \union {req[h]})
        /\ Cardinality(Stored(Drop(es, E)) \union {req[h]}) =
             IF req[h] \in Stored(Drop(es, E)) THEN Cardinality(Stored(Drop(es, E)))
                                               ELSE Cardinality(Stored(Drop(es, E))) + 1
    BY <1>5, FS_AddElement
  <2> QED
    BY <2>1, <2>2
<1>9. maxEntries' = maxEntries /\ Stored(entries)' = Stored(entries')
  BY DEF Accept, Stored
<1>10. Cardinality(Stored(Drop(es, E)) \union {req[h]}) \in Nat
       /\ Cardinality(Stored(Drop(es, E))) \in Nat
  BY <1>5, <1>8, FS_CardinalityType
<1>11. Cardinality(Stored(entries')) <= maxEntries /\ IsFiniteSet(Stored(entries'))
  BY <1>1, <1>6, <1>7, <1>8, <1>10
<1> QED
  BY <1>9, <1>11 DEF CapacityInv

(* A reload that lowers replay_cache_max_entries trims what is stored in    *)
(* the same step.                                                           *)
LEMMA UpdateFits ==
  ASSUME CapacityInv, TypeOK', NEW d \in ConfigTTLs, NEW m \in ConfigMax, UpdateSettings(d, m)
  PROVE  CapacityInv'
<1>0. PICK E \in Oldest(entries, Excess(m)) : entries' = Drop(entries, E)
  BY DEF UpdateSettings
<1>1. /\ entries \in [Messages -> Int \union {Absent}]
      /\ IsFiniteSet(Stored(entries)) /\ Cardinality(Stored(entries)) \in Nat /\ m \in Nat
  BY FS_CardinalityType DEF CapacityInv, TypeOK
<1>2. Excess(m) \in Nat /\ Cardinality(Stored(entries)) - Excess(m) <= m
  BY <1>1 DEF Excess
<1>3. IsFiniteSet(Stored(entries')) /\ Cardinality(Stored(entries')) <= m
  BY <1>0, <1>1, <1>2, EvictionFrees
<1> QED
  BY <1>3 DEF CapacityInv, UpdateSettings, Stored

(* The cache holds at most replay_cache_max_entries HMAC texts in every     *)
(* state, whatever the clock, the deliveries and the reloads do, and right  *)
(* after a reload that lowers the limit.                                    *)
THEOREM Capacity == Spec => []WithinCapacity
<1>1. Init => CapacityInv
  <2> SUFFICES ASSUME Init PROVE CapacityInv
    OBVIOUS
  <2>1. TypeOK
    BY InitIInv DEF IInv
  <2>2. Stored(entries) = {}
    BY DEF Init, Stored
  <2> QED
    BY <2>1, <2>2, FS_EmptySet DEF CapacityInv, TypeOK
<1>2. IInv /\ IInv' /\ CapacityInv /\ [Next]_vars => CapacityInv'
  <2> SUFFICES ASSUME IInv, IInv', CapacityInv, [Next]_vars PROVE CapacityInv'
    OBVIOUS
  <2>0. TypeOK /\ TypeOK' /\ \A h \in Handlers : pc[h] # "idle" => req[h] \in Messages
    BY DEF IInv, HandlerOK
  <2>1. ASSUME UNCHANGED <<entries, maxEntries>> PROVE CapacityInv'
    BY <2>0, <2>1 DEF CapacityInv, Stored
  <2>2. ASSUME NEW h \in Handlers, Accept(h) PROVE CapacityInv'
    BY <2>0, <2>2, AcceptFits DEF Accept
  <2>3. ASSUME NEW h \in Handlers, RejectSeen(h) PROVE CapacityInv'
    <3> DEFINE es == EvictExpired(entries, stamp[h])
    <3>1. entries' = es /\ maxEntries' = maxEntries
      BY <2>3 DEF RejectSeen
    <3>2. IsFiniteSet(Stored(es)) /\ Cardinality(Stored(es)) <= Cardinality(Stored(entries))
      BY <2>0, ExpiryShrinks DEF CapacityInv, TypeOK
    <3>3. /\ Cardinality(Stored(es)) \in Nat /\ Cardinality(Stored(entries)) \in Nat
          /\ maxEntries \in Nat
      BY <2>0, <3>2, FS_CardinalityType DEF CapacityInv, TypeOK
    <3> HIDE DEF es
    <3>4. Cardinality(Stored(es)) <= maxEntries
      BY <3>2, <3>3 DEF CapacityInv
    <3> QED
      BY <2>0, <3>1, <3>2, <3>4 DEF CapacityInv, Stored
  <2>4. ASSUME NEW d \in ConfigTTLs, NEW m \in ConfigMax, UpdateSettings(d, m)
        PROVE  CapacityInv'
    BY <2>0, <2>4, UpdateFits
  <2>5. ASSUME NEW d \in ConfigTTLs, NEW m \in ConfigMax, Restart(d, m)
        PROVE  CapacityInv'
    <3>1. Stored(entries)' = {}
      BY <2>5 DEF Restart, Stored
    <3> QED
      BY <2>0, <3>1, FS_EmptySet DEF CapacityInv, TypeOK
  <2>6. ASSUME \/ UNCHANGED vars
               \/ Tick
               \/ \E r \in Requests, x \in Timestamps : Sign(r, x)
               \/ \E h \in Handlers : Stamp(h) \/ \E r \in Messages : Verify(h, r)
        PROVE  UNCHANGED <<entries, maxEntries>>
    BY <2>6 DEF vars, Tick, Sign, Stamp, Verify, cacheVars
  <2> QED
    BY <2>1, <2>2, <2>3, <2>4, <2>5, <2>6 DEF Next
<1> QED
  BY <1>1, <1>2, Inductive, PTL DEF Spec, CapacityInv, WithinCapacity
=============================================================================
