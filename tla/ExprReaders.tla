---------------------------- MODULE ExprReaders ----------------------------
(***************************************************************************)
(* What the evaluator (expr.rs) and the compiler (expr_compile.rs) make of *)
(* the text that Expressions has checked, and what the grammar says it     *)
(* means.                                                                  *)
(*                                                                         *)
(* A value is the code that computes it, leaves and operators in postfix   *)
(* order, and what it counts as: true, false, or text that is no number.   *)
(***************************************************************************)
EXTENDS Expressions

-----------------------------------------------------------------------------
(* Values and operators, as expr_ops.rs and strict_bool have them.         *)

Value(code, is) == [code |-> code, is |-> is]
Failed   == Value(<<"error">>, "failed")
Empty    == Value(<<"empty">>, "text")
Bool(b)  == Value(<<IF b THEN "1" ELSE "0">>, IF b THEN "true" ELSE "false")
Number(code) == Value(code, IF outcome THEN "true" ELSE "false")
Read(l)  == Value(<<l>>, CASE l = "z" -> "false" [] l = "w" -> "text" [] OTHER -> "true")

(* Comparisons take any operands, the others numbers.                      *)
Comparing == {"==", "eq", "in", "lt", "<"}
Apply(op, a, b) ==
  IF op \notin Comparing /\ "text" \in {a.is, b.is} THEN Failed ELSE Number(a.code \o b.code \o <<op>>)
Apply1(op, a) ==
  CASE a.is = "text" -> Failed
    [] a.is # "text" /\ op = "!" -> Value(Append(a.code, op), IF a.is = "true" THEN "false" ELSE "true")
    [] OTHER -> Number(Append(a.code, op))
Call(args) ==
  IF \E a \in Range(args) : a.is = "text" THEN Failed
  ELSE Number(<<"[">> \o FlattenSeq([i \in DOMAIN args |-> args[i].code]) \o <<"]">>)

(* canonicalize_result: what is left a string and looks like a number      *)
(* becomes the number.                                                     *)
Canonical(v) == IF v.code \in {<<"t">>, <<"z">>, <<"s">>} THEN [v EXCEPT !.code = Append(@, "number")] ELSE v

-----------------------------------------------------------------------------
(* The evaluator: each operator reads from a position of the text and      *)
(* returns the value, the position after it and the leaves it has read.    *)

At(p) == IF p \in DOMAIN text THEN text[p] ELSE "END"
Got(v, p, reads) == [v |-> v, at |-> p, reads |-> reads]
FailAt(r)   == [r EXCEPT !.v = Failed]
Fails(r)    == r.v = Failed
After(r, s) == [s EXCEPT !.reads = r.reads \o @]
WithValue(r, v) == IF Fails(r) THEN r ELSE [r EXCEPT !.v = v]
Expect(l, r) == IF Fails(r) THEN r ELSE IF At(r.at) = l THEN [r EXCEPT !.at = @ + 1] ELSE FailAt(r)

(* parse_bitor to parse_multiplicative: the operators of each level.       *)
Levels == <<{"|"}, {"^"}, {"&"}, {"==", "eq", "in", "lt"}, {"<"}, {"<<"}, {"+", "-"}, {"*"}>>

(* skip_balanced: the position of the first of the stops at depth 0.       *)
RECURSIVE Skip(_, _, _)
Skip(p, depth, stops) ==
  CASE \/ At(p) = "END"
       \/ depth = 0 /\ At(p) \in stops \cup {")"} -> p
    [] OTHER -> Skip(p + 1, CASE At(p) \in Opening -> depth + 1
                              [] At(p) = ")"       -> depth - 1
                              [] OTHER             -> depth, stops)
OrStopsOnOr == {"||"}
OrStops  == {"||", "?"}
AndStops == {"&&", "||", "?"}

(* skip_ternary_operand: as above, past the colons of the conditionals     *)
(* opened on the way.                                                      *)
RECURSIVE SkipTernary(_, _, _)
SkipTernary(p, depth, opened) ==
  CASE \/ At(p) = "END"
       \/ depth = 0 /\ At(p) \in {")", ","}
       \/ depth = 0 /\ At(p) = ":" /\ opened = 0 -> p
    [] At(p) \in Opening             -> SkipTernary(p + 1, depth + 1, opened)
    [] At(p) = ")" /\ depth > 0       -> SkipTernary(p + 1, depth - 1, opened)
    [] depth = 0 /\ At(p) = "?"       -> SkipTernary(p + 1, depth, opened + 1)
    [] depth = 0 /\ At(p) = ":" /\ opened > 0 -> SkipTernary(p + 1, depth, opened - 1)
    [] OTHER                         -> SkipTernary(p + 1, depth, opened)

RECURSIVE Ternary(_), Or(_), And(_), Level(_, _), Power(_), UnaryAt(_)

(* parse_function_call, with the values read so far.                       *)
RECURSIVE Arguments(_, _)
NextArgument(a, args) ==
  CASE Fails(a)       -> a
    [] At(a.at) = "," -> Arguments([a EXCEPT !.at = @ + 1], Append(args, a.v))
    [] OTHER          -> Expect(")", WithValue(a, Call(Append(args, a.v))))
Arguments(r, args) ==
  IF At(r.at) = ")" THEN Expect(")", WithValue(r, Call(args)))
  ELSE NextArgument(After(r, Ternary(r.at)), args)

(* parse_primary; where nothing starts an operand, nothing is read.        *)
Primary(p) ==
  CASE At(p) = "("      -> Expect(")", Ternary(p + 1))
    [] At(p) \in Leaves -> Got(Read(At(p)), p + 1, <<At(p)>>)
    [] At(p) = "f("     -> Arguments(Got(Empty, p + 1, <<>>), <<>>)
    [] OTHER            -> Got(Empty, p, <<>>)

(* parse_unary: a minus is one only before what may start an operand, and  *)
(* a quote is not on its list.                                             *)
MinusStarts == {"t", "z", "w", "n"} \cup Opening \cup Unary
Signed(op, of) == WithValue(of, Apply1(op, of.v))
UnaryAt(p) ==
  CASE At(p) \in {"!", "~"} -> Signed(At(p), UnaryAt(p + 1))
    [] At(p) = "-" /\ At(p + 1) \in MinusStarts -> Signed("neg", UnaryAt(p + 1))
    [] At(p) = "+" -> UnaryAt(p + 1)
    [] OTHER       -> Primary(p)

(* parse_power.                                                            *)
Raised(base, exp) == WithValue(exp, Apply("**", base.v, exp.v))
PowerOf(base) ==
  IF Fails(base) \/ At(base.at) # "**" THEN base ELSE Raised(base, After(base, Power(base.at + 1)))
Power(p) == PowerOf(UnaryAt(p))

(* A level, and its loop over what it has on the left.                     *)
Joined(left, right) == WithValue(right, Apply(At(left.at), left.v, right.v))
RECURSIVE Chain(_, _)
Chain(k, left) ==
  IF Fails(left) \/ At(left.at) \notin Levels[k] THEN left
  ELSE Chain(k, Joined(left, After(left, Level(k + 1, left.at + 1))))
Level(k, p) == IF k > Len(Levels) THEN Power(p) ELSE Chain(k, Level(k + 1, p))

(* A logical operator's right operand, as a boolean.                       *)
AsBool(r) == IF r.v.is = "text" THEN FailAt(r) ELSE WithValue(r, Bool(r.v.is = "true"))

(* parse_and and parse_or.                                                 *)
RECURSIVE AndTail(_), OrTail(_)
AndTail(left) ==
  CASE Fails(left) \/ At(left.at) # "&&" -> left
    [] left.v.is = "text"  -> FailAt(left)
    [] left.v.is = "false" -> AndTail([left EXCEPT !.v = Bool(FALSE), !.at = Skip(@ + 1, 0, AndStops)])
    [] OTHER               -> AndTail(AsBool(After(left, Level(1, left.at + 1))))
And(p) == AndTail(Level(1, p))
OrTail(left) ==
  CASE Fails(left) \/ At(left.at) # "||" -> left
    [] left.v.is = "text" -> FailAt(left)
    [] left.v.is = "true" -> OrTail([left EXCEPT !.v = Bool(TRUE), !.at = Skip(@ + 1, 0, OrStops)])
    [] OTHER              -> OrTail(AsBool(After(left, And(left.at + 1))))
Or(p) == OrTail(And(p))

(* parse_ternary.                                                          *)
PastElse(yes) == IF Fails(yes) THEN yes ELSE [yes EXCEPT !.at = SkipTernary(@, 0, 0)]
FromElse(no)  == IF Fails(no) THEN no ELSE After(no, Ternary(no.at))
Branch(cond) ==
  CASE Fails(cond) \/ At(cond.at) # "?" -> cond
    [] cond.v.is = "text" -> FailAt(cond)
    [] cond.v.is = "true" -> PastElse(Expect(":", After(cond, Ternary(cond.at + 1))))
    [] OTHER              -> FromElse(Expect(":", [cond EXCEPT !.at = SkipTernary(@ + 1, 0, 0)]))
Ternary(p) == Branch(Or(p))

(* eval_expr, after the check: what is left of the text goes unread.       *)
Finished(r) == WithValue(r, Canonical(r.v))
Evaluated == Finished(Ternary(1))

-----------------------------------------------------------------------------
(* The compiler.  Its tokens are the lexemes, but for a minus and a number *)
(* it takes for one; of some lexemes it makes no token.                    *)

NoToken == {"s", "?", ":", "f(", ",", "in", "lt"}
BeforeNegative == {"(", "!", "~", "+", "-", "*", "==", "eq", "<", "&&", "||", "|", "^", "&", "<<"}
RECURSIVE TokensFrom(_, _)
TokensFrom(p, tokens) ==
  CASE At(p) = "END" -> tokens
    [] At(p) = "-" /\ At(p + 1) = "n" /\ (tokens = <<>> \/ Last(tokens) \in BeforeNegative) ->
         TokensFrom(p + 2, Append(tokens, "-n"))
    [] OTHER -> TokensFrom(p + 1, Append(tokens, At(p)))
Tokens == TokensFrom(1, <<>>)

Token(ts, p) == IF p \in DOMAIN ts THEN ts[p] ELSE "END"
NoCode == [code |-> <<"none">>, at |-> 0]
Emit(code, c) == IF c = NoCode THEN c ELSE [c EXCEPT !.code = code \o @]
EmitOp(c, op) == IF c = NoCode THEN c ELSE [c EXCEPT !.code = Append(@, op)]

RECURSIVE CodeUnary(_, _), CodePower(_, _), CodeLevel(_, _, _), CodeChain(_, _, _)

(* parse_primary and parse_unary; there is no code for a unary plus.       *)
Closed(ts, in) == IF in # NoCode /\ Token(ts, in.at) = ")" THEN [in EXCEPT !.at = @ + 1] ELSE NoCode
CodeUnary(ts, p) ==
  CASE Token(ts, p) \in {"!", "~", "-"} ->
         EmitOp(CodeUnary(ts, p + 1), IF Token(ts, p) = "-" THEN "neg" ELSE Token(ts, p))
    [] Token(ts, p) \in {"t", "z", "w", "n"} -> [code |-> <<Token(ts, p)>>, at |-> p + 1]
    [] Token(ts, p) = "-n"                   -> [code |-> <<"n", "neg">>, at |-> p + 1]
    [] Token(ts, p) = "("                    -> Closed(ts, CodeLevel(ts, 1, p + 1))
    [] OTHER                                 -> NoCode
CodePowerOf(ts, base) ==
  IF base = NoCode \/ Token(ts, base.at) # "**" THEN base
  ELSE Emit(base.code, EmitOp(CodePower(ts, base.at + 1), "**"))
CodePower(ts, p) == CodePowerOf(ts, CodeUnary(ts, p))
CodeChain(ts, k, left) ==
  IF left = NoCode \/ Token(ts, left.at) \notin Levels[k] THEN left
  ELSE CodeChain(ts, k, Emit(left.code, EmitOp(CodeLevel(ts, k + 1, left.at + 1), Token(ts, left.at))))
CodeLevel(ts, k, p) == IF k > Len(Levels) THEN CodePower(ts, p) ELSE CodeChain(ts, k, CodeLevel(ts, k + 1, p))

(* try_compile_expr: whole texts of two tokens and more, that do not       *)
(* compare a number as it is written.                                      *)
CompiledInPart ==
  LET ts == Tokens IN
  IF Range(text) \cap NoToken # {} \/ Len(ts) < 2 THEN NoCode ELSE CodeLevel(ts, 1, 1)
Compiled ==
  LET ts == Tokens
      c == CodeLevel(ts, 1, 1)
  IN
  IF \/ Range(text) \cap NoToken # {} \/ Len(ts) < 2
     \/ Range(ts) \cap {"n", "-n"} # {} /\ "eq" \in Range(ts)
  THEN NoCode
  ELSE IF c # NoCode /\ c.at = Len(ts) + 1 THEN c ELSE NoCode

(* peephole_pass: two Not after one another are taken out.                 *)
RECURSIVE Peephole(_)
Peephole(code) ==
  CASE Len(code) < 2 -> code
    [] Len(code) >= 2 /\ code[1] = "!" /\ code[2] = "!" -> Peephole(Tail(Tail(code)))
    [] OTHER -> <<code[1]>> \o Peephole(Tail(code))

(* The executor, on the stack: an operation pops its operands.             *)
Execute(m, op) ==
  LET n == Len(m.stack)
      pushed(v, k) == IF v = Failed THEN [m EXCEPT !.failed = TRUE]
                      ELSE [m EXCEPT !.stack = Append(SubSeq(@, 1, n - k), v)]
  IN CASE m.failed      -> m
       [] op \in Leaves -> [m EXCEPT !.stack = Append(@, Read(op)), !.reads = Append(@, op)]
       [] op \in {"!", "~", "neg"} -> pushed(Apply1(op, m.stack[n]), 1)
       [] OTHER         -> pushed(Apply(op, m.stack[n - 1], m.stack[n]), 2)
Run(code) == FoldLeft(Execute, [stack |-> <<>>, reads |-> <<>>, failed |-> FALSE], code)

-----------------------------------------------------------------------------
(* The grammar: where an operator binds, by the ranks of the check, and    *)
(* what text from lo to hi means.                                          *)

DepthAt(lo, i) == Cardinality({j \in lo..(i - 1) : text[j] \in Opening})
                - Cardinality({j \in lo..(i - 1) : text[j] = ")"})
AfterOperand(i) == i > 1 /\ text[i - 1] \in Leaves \cup {")"}
Infixes(lo, hi) == {i \in (lo + 1)..hi : text[i] \in Binary /\ AfterOperand(i) /\ DepthAt(lo, i) = 0}

(* The operator a text is the operands of: the last of those that bind     *)
(* least, the first if they group to the right.                            *)
Root(lo, hi) ==
  LET least == {i \in Infixes(lo, hi) : \A j \in Infixes(lo, hi) : Rank[text[i]] <= Rank[text[j]]}
  IN IF text[Min(least)] \in {"?", ":", "**"} THEN Min(least) ELSE Max(least)
(* The colon of the conditional at i.                                      *)
ColonsOf(lo, hi, i) ==
  {j \in Infixes(lo, hi) : /\ j > i /\ text[j] = ":"
      /\ LET between == {k \in Infixes(lo, hi) : i < k /\ k < j}
         IN Cardinality({k \in between : text[k] = "?"}) = Cardinality({k \in between : text[k] = ":"})}
(* The spans of the arguments of a call, between its parentheses.          *)
ArgumentSpans(lo, hi) ==
  LET cuts == SetToSortSeq({lo - 1, hi + 1} \cup {i \in lo..hi : text[i] = "," /\ DepthAt(lo, i) = 0}, <)
  IN IF hi < lo THEN <<>> ELSE [i \in 1..(Len(cuts) - 1) |-> <<cuts[i] + 1, cuts[i + 1] - 1>>]

RECURSIVE Fits(_, _)
Fits(lo, hi) ==
  /\ lo <= hi
  /\ LET i == Root(lo, hi)
         colons == ColonsOf(lo, hi, i)
     IN IF Infixes(lo, hi) = {}
        THEN \/ lo = hi /\ text[lo] \in Leaves
             \/ text[lo] \in Unary /\ Fits(lo + 1, hi)
             \/ text[lo] = "(" /\ text[hi] = ")" /\ Fits(lo + 1, hi - 1)
             \/ /\ text[lo] = "f(" /\ text[hi] = ")"
                /\ \A s \in Range(ArgumentSpans(lo + 1, hi - 1)) : Fits(s[1], s[2])
        ELSE CASE text[i] \in {",", ":"} -> FALSE
               [] text[i] = "?" -> /\ colons # {}
                                   /\ Fits(lo, i - 1)
                                   /\ Fits(i + 1, Min(colons) - 1) /\ Fits(Min(colons) + 1, hi)
               [] OTHER -> Fits(lo, i - 1) /\ Fits(i + 1, hi)

(* The value of a text that fits, and the leaves it reads: a logical       *)
(* operator and a conditional read only the operands they need.            *)
Means(v, reads) == [v |-> v, at |-> Len(text) + 1, reads |-> reads]
RECURSIVE Meaning(_, _)
Meaning(lo, hi) ==
  LET i == Root(lo, hi)
      colon == Min(ColonsOf(lo, hi, i))
      a == Meaning(lo, i - 1)
      b == After(a, Meaning(i + 1, hi))
      of == Meaning(lo + 1, hi)
      spans == ArgumentSpans(lo + 1, hi - 1)
      args == [k \in DOMAIN spans |-> Meaning(spans[k][1], spans[k][2])]
      ready(k) == \A j \in 1..(k - 1) : ~Fails(args[j])
      reads == FlattenSeq([k \in DOMAIN args |-> IF ready(k) THEN args[k].reads ELSE <<>>])
      decides == CASE text[i] = "||" -> "true" [] text[i] = "&&" -> "false" [] OTHER -> "none"
  IN IF Infixes(lo, hi) = {}
     THEN CASE lo = hi         -> Means(Read(text[lo]), <<text[lo]>>)
            [] text[lo] = "+"  -> of
            [] text[lo] \in {"!", "~"} -> WithValue(of, Apply1(text[lo], of.v))
            [] text[lo] = "-"  -> WithValue(of, Apply1("neg", of.v))
            [] text[lo] = "("  -> Meaning(lo + 1, hi - 1)
            [] OTHER           -> Means(IF \E k \in DOMAIN args : Fails(args[k]) THEN Failed
                                        ELSE Call([k \in DOMAIN args |-> args[k].v]), reads)
     ELSE CASE Fails(a) -> a
            [] text[i] \in {"?", "||", "&&"} /\ a.v.is = "text" -> FailAt(a)
            [] text[i] = "?" -> After(a, IF a.v.is = "true" THEN Meaning(i + 1, colon - 1)
                                         ELSE Meaning(colon + 1, hi))
            [] text[i] \in {"||", "&&"} -> IF a.v.is = decides THEN WithValue(a, Bool(a.v.is = "true"))
                                           ELSE AsBool(b)
            [] OTHER -> WithValue(b, Apply(text[i], a.v, b.v))
Meant == Finished(Meaning(1, Len(text)))

-----------------------------------------------------------------------------
(* Properties.                                                             *)

AllRead == Len(text) + 1
Accepted == verdict = "ok"

(* The check accepts the texts of the grammar and no others, and what it   *)
(* says is wrong with a text is wrong with it: the parentheses it calls    *)
(* unbalanced are, the colon it misses has a ? that waits for it, and a    *)
(* colon it did not expect has none (check_expr's reduce loop, whose       *)
(* breaks and errors depend on the operators left on its stack).           *)
ChecksTheGrammar ==
  /\ Accepted => Fits(1, Len(text))
  /\ verdict \notin {"open", "ok"} => ~Fits(1, Len(text))
  /\ verdict = "unbalanced open paren"  => DepthAt(1, AllRead) > 0
  /\ verdict = "unbalanced close paren" => DepthAt(1, AllRead) < 0
  /\ verdict = "missing colon" =>
       \E i \in DOMAIN text : text[i] = "?" /\ \A j \in ColonsOf(1, Len(text), i) : j = Len(text)

(* Where reading the right operand of the logical operator at i would stop.*)
OperandStop(i) ==
  LET stops == {j \in (i + 1)..Len(text) :
                  /\ DepthAt(i + 1, j) = 0
                  /\ \/ text[j] = ")"
                     \/ AfterOperand(j) /\ text[j] \in Binary /\ Rank[text[j]] <= Rank[text[i]]}
  IN IF stops = {} THEN AllRead ELSE Min(stops)
SkipsWell(i) == Skip(i + 1, 0, IF text[i] = "||" THEN OrStops ELSE AndStops) = OperandStop(i)

(* The comments of skip_or_operand and skip_and_operand: they skip one     *)
(* operand, of the level their operator parses on its right.               *)
SkipsOneOperand == Accepted => \A i \in DOMAIN text : text[i] \in {"||", "&&"} => SkipsWell(i)

(* Three ways in which the evaluator is known to leave the grammar: it     *)
(* skips an operand without a halt at a colon or a comma, it takes no      *)
(* minus before a quote, and it has lt a level lower than the check.       *)
SkipsFar == \E i \in DOMAIN text : text[i] \in {"||", "&&"} /\ At(OperandStop(i)) \in {":", ","}
QuoteNegated == \E i \in 1..(Len(text) - 1) : text[i] = "-" /\ ~AfterOperand(i) /\ text[i + 1] = "s"
LtAmongOthers == "lt" \in Range(text) /\ Range(text) \cap {"==", "eq", "in", "<"} # {}

(* But for those, the evaluator finds in a text that was accepted the      *)
(* value the grammar gives it, reads to its end, and evaluates the leaves  *)
(* of the operands that are needed, in order, and no others (parse_ternary *)
(* down to parse_primary; the skips scan lexemes and know no grammar).     *)
ReadsTheGrammar ==
  Accepted /\ ~SkipsFar /\ ~QuoteNegated /\ ~LtAmongOthers =>
    /\ Evaluated.v = Meant.v /\ Evaluated.reads = Meant.reads
    /\ ~Fails(Evaluated) => Evaluated.at = AllRead

(* The compiler compiles no text the check would reject, and its code, run *)
(* on the stack, reads the same leaves and comes to the same value as the  *)
(* evaluator, or fails where it fails.  Two codes are known to differ: a   *)
(* variable in parentheses, which is not made a number, and !!.            *)
CompiledAgrees ==
  LET c == Compiled
      m == Run(Peephole(c.code))
  IN verdict # "open" /\ c # NoCode /\ c.code \notin {<<"t">>, <<"z">>, <<"w">>} /\ Peephole(c.code) = c.code =>
       /\ Accepted
       /\ m.reads = Evaluated.reads
       /\ IF m.failed THEN Fails(Evaluated) ELSE m.stack = <<Evaluated.v>>
=============================================================================
