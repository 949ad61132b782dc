---------------------------- MODULE MCMigrations ----------------------------
(***************************************************************************)
(* The files that define an object more than once: 001 and 014 replace the *)
(* readiness view, 012 adds a retention policy, which 013 replaces; the    *)
(* tables come with 001.                                                   *)
(***************************************************************************)
EXTENDS Migrations, TLC

CONSTANTS view, policy, tables

FourFiles == 4
TheReplaces == << {view}, {}, {policy}, {view} >>
TheAdds == << {tables}, {policy}, {}, {} >>

AnyRunner == Permutations(Runners)
=============================================================================
