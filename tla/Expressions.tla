---------------------------- MODULE Expressions ----------------------------
(***************************************************************************)
(* Expressions: the syntax check every expression text passes first        *)
(* (expr_check.rs), the evaluator that walks the text (expr.rs), and the   *)
(* compiler that turns some texts into stack code (expr_compile.rs).       *)
(*                                                                         *)
(* The three read the same grammar in three ways: the check keeps a stack  *)
(* of incomplete operators and ranks them, the evaluator descends from one *)
(* level of operators to the next and skips the operands it must not       *)
(* evaluate without parsing them, the compiler descends over its own       *)
(* tokens.  This module is the check, one lexeme a step; what the other    *)
(* two make of the text, over its state, is in ExprReaders.                *)
(*                                                                         *)
(* A lexeme is a token: t and z are variables with a number that is true   *)
(* and one that is false, w a variable whose value is no number, n a       *)
(* number as written, s a quoted number, f( the name of a function with    *)
(* its parenthesis; of the operators of a rank one or two stand for all.   *)
(***************************************************************************)
EXTENDS Integers, Sequences, FiniteSets, SequencesExt, FiniteSetsExt

CONSTANTS
  Lexicons   \* the lexemes a text keeps to, of, and how many it has, upto (bounds of the model)

ASSUME ExpressionsAssumption == \A x \in Lexicons : x.upto \in Nat

VARIABLES
  lexicon,   \* one of Lexicons, for good
  outcome,   \* what the numbers that operators and functions compute count as, for good
  text,      \* the lexemes read
  stack,     \* operators that wait for an operand, START at the bottom
  complete,  \* the subtree that waits for its operator: leaf, colon or other
  operand,   \* last_operand: the last item read was an operand
  verdict    \* open, ok, or the reason the text was rejected

vars == <<lexicon, outcome, text, stack, complete, operand, verdict>>

Leaves == {"t", "z", "w", "n", "s"}
Unary  == {"!", "~", "+", "-"}
Opening == {"(", "f("}

(* Lx::prec, from the rank that binds least.                               *)
Ranks == <<{"END"}, {"START"}, {")"}, {"("}, {","}, {"?", ":"}, {"||"}, {"&&"}, {"|"}, {"^"}, {"&"},
           {"==", "eq", "in"}, {"<", "lt"}, {"<<"}, {"+", "-"}, {"*"}, {"**"},
           {"unary+", "unary-", "!", "~", "function"}>>
Rank == [l \in UNION Range(Ranks) |-> CHOOSE k \in DOMAIN Ranks : l \in Ranks[k]]
Binary == UNION {Ranks[k] : k \in 5..17}

Init == /\ lexicon \in Lexicons /\ outcome \in BOOLEAN
        /\ text = <<>> /\ stack = <<"START">> /\ complete = "leaf" /\ operand = FALSE
        /\ verdict = "open"

-----------------------------------------------------------------------------
(* The check.                                                              *)

Reject(reason) == verdict' = reason /\ UNCHANGED <<stack, complete, operand>>

Take(l) == /\ verdict = "open" /\ Len(text) < lexicon.upto /\ l \in lexicon.of
           /\ text' = Append(text, l) /\ UNCHANGED <<lexicon, outcome>>

Leaf(l) == /\ l \in Leaves /\ Take(l)
           /\ IF operand THEN Reject("missing operator")
              ELSE /\ complete' = "leaf" /\ operand' = TRUE
                   /\ UNCHANGED <<stack, verdict>>

(* What a unary lexeme pushes: plus and minus are unary where no operand   *)
(* came before, a function brings its parenthesis.                         *)
Pushes(l) == CASE l = "f(" -> <<"function", "(">>
               [] l = "+" -> <<"unary+">>
               [] l = "-" -> <<"unary-">>
               [] OTHER   -> <<l>>

Prefix(l) == /\ \/ l \in Opening \cup {"!", "~"}
                \/ l \in {"+", "-"} /\ ~operand
             /\ Take(l)
             /\ IF operand THEN Reject("missing operator")
                ELSE /\ stack' = stack \o Pushes(l) /\ complete' = "leaf"
                     /\ UNCHANGED <<operand, verdict>>

InCall(s) == Len(s) >= 2 /\ s[Len(s) - 1] = "function"

(* arrival_error: an operator where an operand is due.                     *)
ArrivalError(l) ==
  LET top == Last(stack) IN
  CASE l = ")" /\ top = "("                         -> "empty subexpression"
    [] Rank[top] > Rank[l] /\ top = "("             -> "unbalanced open paren"
    [] Rank[top] > Rank[l] /\ top = ","             -> "missing function argument"
    [] Rank[top] > Rank[l] /\ top = "START"         -> "empty expression"
    [] Rank[top] <= Rank[l] /\ l = ")"              -> "unbalanced close paren"
    [] Rank[top] <= Rank[l] /\ l = "," /\ top = "(" /\ InCall(stack) -> "missing function argument"
    [] OTHER                                        -> "missing operand"

(* The complete subtree becomes the operand of the operators that wait,    *)
(* while their rank says so.                                               *)
RECURSIVE Reduce(_, _, _)
Reduce(s, c, l) ==
  LET top  == Last(s)
      kept == [stack |-> s, complete |-> c, top |-> top, reason |-> "none"]
      wrong(reason) == [kept EXCEPT !.reason = reason]
      now  == IF top = ":" THEN "colon" ELSE "other"
  IN CASE Rank[top] < Rank[l] -> kept
       [] Rank[top] = Rank[l] /\ \/ l = "**"
                                 \/ top = "?" /\ c # "colon"
                                 \/ top = ":" /\ l = "?"     -> kept
       [] top = "(" /\ l # ")"        -> wrong("unbalanced open paren")
       [] top = "?" /\ c # "colon"    -> wrong("missing colon")
       [] top # "?" /\ c = "colon"    -> wrong("unexpected colon")
       [] top \in {"START", "("}      -> [kept EXCEPT !.stack = Front(s), !.complete = now]
       [] OTHER                       -> Reduce(Front(s), now, l)

(* What is wrong with l once the operators before it are reduced.          *)
AfterReduceAnyComma(r, l) ==
  CASE r.reason # "none"                     -> r.reason
    [] l = ")" /\ r.top # "("                -> "unbalanced close paren"
    [] l # "END" /\ r.complete = "colon"     -> "unexpected colon"
    [] OTHER                                 -> "none"
AfterReduce(r, l) ==
  CASE r.reason # "none"                                     -> r.reason
    [] l = ")" /\ r.top # "("                                -> "unbalanced close paren"
    [] l = "," /\ (r.top # "(" \/ ~InCall(r.stack))          -> "unexpected comma"
    [] l # "END" /\ r.complete = "colon"                     -> "unexpected colon"
    [] OTHER                                                 -> "none"

(* An operator, a comma or a parenthesis that closes.                      *)
Infix(l) ==
  /\ l \in Binary \cup {")"} /\ (l \in {"+", "-"} => operand)
  /\ Take(l)
  /\ LET r == Reduce(stack, complete, l)
         reason == AfterReduce(r, l)
     IN CASE ~operand /\ l = ")" /\ Last(stack) = "(" /\ InCall(stack) ->
               /\ stack' = Front(stack) /\ complete' = "other" /\ operand' = TRUE
               /\ UNCHANGED verdict
          [] ~operand /\ ~(l = ")" /\ Last(stack) = "(" /\ InCall(stack)) -> Reject(ArrivalError(l))
          [] operand /\ reason # "none" -> Reject(reason)
          [] operand /\ reason = "none" /\ l = ")" ->
               /\ stack' = r.stack /\ complete' = r.complete
               /\ UNCHANGED <<operand, verdict>>
          [] OTHER -> /\ stack' = Append(r.stack, l) /\ complete' = "leaf" /\ operand' = FALSE
                      /\ UNCHANGED verdict

(* The end of the text.                                                    *)
End ==
  /\ verdict = "open"
  /\ LET r == Reduce(stack, complete, "END")
     IN verdict' = CASE ~operand              -> ArrivalError("END")
                     [] operand /\ r.reason # "none" -> r.reason
                     [] OTHER                 -> "ok"
  /\ UNCHANGED <<lexicon, outcome, text, stack, complete, operand>>

Next == End \/ \E l \in lexicon.of : Leaf(l) \/ Prefix(l) \/ Infix(l)

Spec == Init /\ [][Next]_vars
=============================================================================
