----------------------------- MODULE MCProcCall -----------------------------
(* Instances of ProcCall for TLC: p keeps statics and is global, q is a    *)
(* proc of ::a, h a local helper.                                          *)
EXTENDS ProcCall

MCHome == [k \in Procs |-> IF k = "q" THEN "a" ELSE "::"]

Mode(engines, habits) == [engines |-> engines, habits |-> habits]
Both == {"full", "direct"}

(* call_proc alone with all that keeps its promises; both copies, the      *)
(* same without tail calls; both with the habits that break promises; and  *)
(* scripts that assign and tail-call when the body is over.                *)
MCModes ==
  {Mode({"full"}, {"tail", "defer", "simple"}),
   Mode(Both, {"defer"}),
   Mode(Both, {"recurse", "redefine", "absolute"}),
   Mode(Both, {"simple", "tail"}),
   Mode({"full"}, {"tail", "late"}), Mode(Both, {"tail", "late"})}
(* What the direct copy's tail calls do to deferred scripts.               *)
MCDirectTail == {Mode(Both, {"tail", "defer"})}
=============================================================================
