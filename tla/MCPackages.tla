----------------------------- MODULE MCPackages -----------------------------
(***************************************************************************)
(* Instances, for TLC, of the packages that keep to themselves: the two    *)
(* kinds of limiters of pkg/workqueue and the codes of pkg/mapping.  They  *)
(* share nothing, so a run lets only one of them leave its initial state:  *)
(* their states add up instead of multiplying.                             *)
(***************************************************************************)
EXTENDS TokenLimiter, ItemLimiters, Base58

\* Three digits, and "0", which is not one.
Digits3 == <<"1", "2", "3">>

PackagesInit == Init /\ LimiterInit /\ CodeInit

TokenLimiterStep ==
  /\ LimiterInit /\ CodeInit
  /\ Next
  /\ UNCHANGED <<limiterVars, codeVars>>

ItemLimiterStep ==
  /\ Init /\ CodeInit
  /\ LimiterNext
  /\ UNCHANGED <<vars, codeVars>>

CodeStep ==
  /\ Init /\ LimiterInit
  /\ CodeNext
  /\ UNCHANGED <<vars, limiterVars>>

PackagesSpec ==
  PackagesInit
    /\ [][TokenLimiterStep \/ ItemLimiterStep \/ CodeStep]_<<vars, limiterVars, codeVars>>

PackagesSymmetry == Permutations(Procs) \cup Permutations(Goroutines)
=============================================================================
