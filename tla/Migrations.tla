----------------------------- MODULE Migrations -----------------------------
(***************************************************************************)
(* The migration runner memeco-migrate: it reads which versions are        *)
(* recorded in schema_migrations, and then executes and records each other *)
(* file of the migrations directory, in the order of the file names.       *)
(*                                                                         *)
(* A file is a number, its place in that order.  Of what the files say the *)
(* model keeps the objects that a later file may define again (the         *)
(* readiness views, a retention policy): a file replaces an object or adds *)
(* it where there is none, which is why every file may be executed twice.  *)
(* A file is sent as one query: it takes effect as a whole or not at all,  *)
(* with the explicit transaction or in the implicit one of PostgreSQL.     *)
(* Execution and record are two statements, and nothing keeps a second     *)
(* runner out.                                                             *)
(***************************************************************************)
EXTENDS Integers

CONSTANTS
    Runners,    \* processes that may run the migrations
    LastFile,   \* number of migration files
    Objects,    \* what the files define
    Replaces,   \* Replaces[f]: objects file f drops and creates anew
    Adds        \* Adds[f]: objects file f creates IF NOT EXISTS

Files == 1..LastFile
None == 0       \* the owner of an object that does not exist

ASSUME FilesAssumption ==
    /\ LastFile \in Nat \ {0}
    /\ Replaces \in [Files -> SUBSET Objects]
    /\ Adds \in [Files -> SUBSET Objects]

VARIABLES
    recorded,   \* versions in schema_migrations
    owner,      \* owner[o]: the file whose definition of o is in the database
    runner,     \* each runner: where it is and the files it has to apply
    spoiled     \* a runner stopped beside or after another one

vars == <<recorded, owner, runner, spoiled>>

Off == [pc |-> "off", pending |-> {}]

Init ==
    /\ recorded = {}
    /\ owner = [o \in Objects |-> None]
    /\ runner = [r \in Runners |-> Off]
    /\ spoiled = FALSE

-----------------------------------------------------------------------------
\* The file a runner is at: pending is sorted by file name.
First(files) == CHOOSE f \in files : \A g \in files : f <= g
At(r) == First(runner[r].pending)

\* run_migrations up to the list of pending files; without one it returns,
\* and a dry run only prints the list.  A changed checksum is only reported.
Starts(r) ==
    /\ runner[r].pc = "off"
    /\ Files \ recorded # {}
    /\ runner' = [runner EXCEPT ![r] = [pc |-> "applies",
                                        pending |-> Files \ recorded]]
    /\ UNCHANGED <<recorded, owner, spoiled>>

\* Whose definition of o the database has once file f has been executed.
Defined(f, o) ==
    IF \/ o \in Replaces[f]
       \/ o \in Adds[f] /\ owner[o] = None
    THEN f ELSE owner[o]

Applies(r) ==
    /\ runner[r].pc = "applies"
    /\ owner' = [o \in Objects |-> Defined(At(r), o)]
    /\ runner' = [runner EXCEPT ![r].pc = "records"]
    /\ UNCHANGED <<recorded, spoiled>>

\* Where a runner goes with the files it has left.
Goes(r, left) ==
    runner' = [runner EXCEPT ![r] =
                  IF left = {} THEN Off ELSE [pc |-> "applies", pending |-> left]]

\* Mutant: files that another runner has recorded meanwhile are skipped.
Records_SkipsRecorded(r) ==
    /\ runner[r].pc = "records"
    /\ recorded' = recorded \union {At(r)}
    /\ Goes(r, runner[r].pending \ recorded')
    /\ UNCHANGED <<owner, spoiled>>

\* INSERT ... ON CONFLICT (version) DO NOTHING
Records(r) ==
    /\ runner[r].pc = "records"
    /\ recorded' = recorded \union {At(r)}
    /\ Goes(r, runner[r].pending \ {At(r)})
    /\ UNCHANGED <<owner, spoiled>>

\* Whether a stop of r may leave another runner's work undone.
Harms(r) ==
    \/ At(r) \in recorded
    \/ \E q \in Runners \ {r} : runner[q].pc # "off"

\* Mutant: an error is printed and the loop goes on with the next file.
Stops_GoesOn(r) ==
    /\ runner[r].pc # "off"
    /\ Goes(r, runner[r].pending \ {At(r)})
    /\ spoiled' = (spoiled \/ Harms(r))
    /\ UNCHANGED <<recorded, owner>>

\* A statement raises and the process exits, or it is killed: before the file
\* took effect or after it, when its answer is lost.
Stops(r) ==
    /\ runner[r].pc # "off"
    /\ runner' = [runner EXCEPT ![r] = Off]
    /\ spoiled' = (spoiled \/ Harms(r))
    /\ UNCHANGED <<recorded, owner>>

Next == \E r \in Runners : Starts(r) \/ Applies(r) \/ Records(r) \/ Stops(r)

Spec == Init /\ [][Next]_vars

-----------------------------------------------------------------------------
(***************************************************************************)
(* Properties.                                                             *)
(***************************************************************************)
\* The variables have their types, and a runner is busy exactly while it has
\* files to apply.
TypeOK ==
    /\ recorded \in SUBSET Files
    /\ owner \in [Objects -> Files \union {None}]
    /\ runner \in [Runners -> [pc : {"off", "applies", "records"},
                               pending : SUBSET Files]]
    /\ \A r \in Runners : runner[r].pc = "off" <=> runner[r].pending = {}
    /\ spoiled \in BOOLEAN

\* Migrations are applied "in filename order" (apply_migrations.py:5): however
\* many runners there are and wherever they stop, a version is recorded only
\* after all before it, and a runner works on a file only after these.
AppliedInOrder ==
    /\ \A f \in recorded, g \in Files : g < f => g \in recorded
    /\ \A r \in Runners, g \in Files :
          runner[r].pc # "off" /\ g < At(r) => g \in recorded

\* The file whose definition of an object the database ends with: the last
\* one that replaces it, if none adds it later, or else the first that adds it.
ReplacesLast(f, o) ==
    /\ o \in Replaces[f]
    /\ \A g \in Files : o \in Replaces[g] \union Adds[g] => g <= f
AddsFirst(f, o) ==
    /\ o \in Adds[f]
    /\ \A g \in Files : o \notin Replaces[g]
    /\ \A g \in Files : o \in Adds[g] => f <= g
IsFinal(f, o) == ReplacesLast(f, o) \/ AddsFirst(f, o)

\* When the runner has nothing left to do ("All migrations are up to date."),
\* the schema is the one the files describe, though runners stopped between a
\* file and its record and executed each other's files again; unless one
\* stopped while another was at work or while it repeated what was recorded.
UpToDateIsCurrent ==
    recorded = Files /\ ~spoiled /\ (\A r \in Runners : runner[r].pc = "off")
        => \A o \in Objects, f \in Files : IsFinal(f, o) => owner[o] = f

\* A run that ends by itself ("Done.") leaves no version unrecorded.
Ended(r) == Records(r) /\ runner'[r].pc = "off"
DoneIsComplete == [][\A r \in Runners : Ended(r) => recorded' = Files]_vars
=============================================================================
