----------------------------- MODULE MCCommands -----------------------------
(***************************************************************************)
(* Two processes, two source files, three extern aliases.                  *)
(***************************************************************************)
EXTENDS Commands

MCAliases == <<"a", "b", "c">>

\* One directory under two names and another one; three different targets.
MCTargets == {[a |-> "./x", b |-> "time", c |-> "./x"],
              [a |-> "./x", b |-> "./y", c |-> "./x"]}
=============================================================================
