-------------------------- MODULE Migrations_proofs --------------------------
(***************************************************************************)
(* Proofs about Migrations, for any files, objects and runners.            *)
(***************************************************************************)
EXTENDS Migrations, TLAPS

\* Where a runner is: what it has left is a tail of the files, and all files
\* before that are recorded.
Tail(m) == m..LastFile
Prefix(k) == 1..k

Place(r, m) ==
    /\ m \in Files
    /\ runner[r].pending = Tail(m)
    /\ \A g \in Files : g < m => g \in recorded

InPlace ==
    /\ \E k \in 0..LastFile : recorded = Prefix(k)
    /\ \A r \in Runners : runner[r].pc # "off" => \E m \in Files : Place(r, m)

LEMMA FirstOfTail ==
    ASSUME NEW m \in Files
    PROVE  First(Tail(m)) = m
<1>1. m \in Tail(m) /\ \A g \in Tail(m) : m <= g /\ g \in Int
  BY FilesAssumption DEF Files, Tail
<1>2. \A f \in Tail(m) : (\A g \in Tail(m) : f <= g) => f = m
  BY <1>1
<1>. QED BY <1>1, <1>2 DEF First

LEMMA AtPlace ==
    ASSUME NEW r \in Runners, NEW m, Place(r, m)
    PROVE  At(r) = m
  BY FirstOfTail DEF At, Place

LEMMA TailNext ==
    ASSUME NEW m \in Files
    PROVE  /\ Tail(m) \ {m} = Tail(m + 1)
           /\ m = LastFile => Tail(m) \ {m} = {}
           /\ m # LastFile => m + 1 \in Files /\ Tail(m) \ {m} # {}
<1>1. m \in Int /\ 1 <= m /\ m <= LastFile /\ LastFile \in Int
  BY FilesAssumption DEF Files
<1>2. Tail(m) \ {m} = Tail(m + 1)
  BY <1>1 DEF Tail
<1>3. m # LastFile => LastFile \in Tail(m + 1)
  BY <1>1 DEF Tail
<1>. QED BY <1>1, <1>2, <1>3 DEF Files, Tail

-----------------------------------------------------------------------------
(***************************************************************************)
(* Types.                                                                  *)
(***************************************************************************)
Runner == [pc : {"off", "applies", "records"}, pending : SUBSET Files]

LEMMA TypedInit == Init => TypeOK /\ InPlace
<1>. SUFFICES ASSUME Init PROVE TypeOK /\ InPlace
  OBVIOUS
<1>1. TypeOK
  BY DEF Init, TypeOK, Off
<1>2. 0 \in 0..LastFile /\ recorded = Prefix(0)
  BY FilesAssumption DEF Init, Prefix
<1>. QED BY <1>1, <1>2 DEF Init, InPlace, Off

\* What a busy runner knows: where it is.
LEMMA Busy ==
    ASSUME TypeOK, InPlace, NEW r \in Runners, runner[r].pc # "off"
    PROVE  /\ At(r) \in Files /\ Place(r, At(r))
           /\ runner[r].pending = Tail(At(r))
           /\ \A g \in Files : g < At(r) => g \in recorded
  BY AtPlace DEF InPlace, Place

LEMMA TypedStep == TypeOK /\ InPlace /\ [Next]_vars => TypeOK'
<1>. SUFFICES ASSUME TypeOK, InPlace, [Next]_vars PROVE TypeOK'
  OBVIOUS
<1>1. CASE UNCHANGED vars
  BY <1>1 DEF TypeOK, vars
<1>2. ASSUME NEW r \in Runners, Starts(r) PROVE TypeOK'
  BY <1>2 DEF TypeOK, Starts
<1>3. ASSUME NEW r \in Runners, Applies(r) PROVE TypeOK'
  <2>1. At(r) \in Files
    BY <1>3, Busy DEF Applies
  <2>2. owner' \in [Objects -> Files \union {None}]
    BY <1>3, <2>1 DEF TypeOK, Applies, Defined
  <2>. QED BY <1>3, <2>2 DEF TypeOK, Applies
<1>4. ASSUME NEW r \in Runners, Records(r) PROVE TypeOK'
  <2>1. At(r) \in Files
    BY <1>4, Busy DEF Records
  <2>2. runner' \in [Runners -> Runner]
    BY <1>4 DEF TypeOK, Records, Goes, Off, Runner
  <2>3. \A q \in Runners : runner'[q].pc = "off" <=> runner'[q].pending = {}
    BY <1>4 DEF TypeOK, Records, Goes, Off
  <2>. QED BY <1>4, <2>1, <2>2, <2>3 DEF TypeOK, Records, Runner
<1>5. ASSUME NEW r \in Runners, Stops(r) PROVE TypeOK'
  <2>1. spoiled' \in BOOLEAN
    BY <1>5 DEF Stops
  <2>. QED BY <1>5, <2>1 DEF TypeOK, Stops, Off
<1>. QED BY <1>1, <1>2, <1>3, <1>4, <1>5 DEF Next

-----------------------------------------------------------------------------
(***************************************************************************)
(* The order.                                                              *)
(***************************************************************************)
LEMMA PlaceStep == TypeOK /\ InPlace /\ [Next]_vars => InPlace'
<1>. SUFFICES ASSUME TypeOK, InPlace, [Next]_vars PROVE InPlace'
  OBVIOUS
<1>1. CASE UNCHANGED vars
  BY <1>1 DEF InPlace, Place, vars
<1>2. ASSUME NEW r \in Runners, Starts(r) PROVE InPlace'
  <2>1. PICK k \in 0..LastFile : recorded = Prefix(k)
    BY DEF InPlace
  <2>2. k # LastFile
    BY <1>2, <2>1 DEF Starts, Prefix, Files
  <2>3. k + 1 \in Files /\ Files \ recorded = Tail(k + 1)
    BY <2>1, <2>2, FilesAssumption DEF Files, Prefix, Tail
  <2>4. \A g \in Files : g < k + 1 => g \in recorded
    BY <2>1, FilesAssumption DEF Files, Prefix
  <2>5. Place(r, k + 1)'
    BY <1>2, <2>3, <2>4 DEF Starts, Place, TypeOK
  <2>6. \A q \in Runners \ {r} : runner'[q] = runner[q]
    BY <1>2 DEF Starts, TypeOK
  <2>7. \A q \in Runners \ {r}, m \in Files : Place(q, m) => Place(q, m)'
    BY <1>2, <2>6 DEF Place, Starts
  <2>. QED BY <1>2, <2>3, <2>5, <2>6, <2>7 DEF InPlace, Starts
<1>3. ASSUME NEW r \in Runners, Applies(r) PROVE InPlace'
  <2>1. \A q \in Runners : /\ runner'[q].pending = runner[q].pending
                           /\ runner'[q].pc # "off" => runner[q].pc # "off"
    BY <1>3 DEF Applies, TypeOK
  <2>2. \A q \in Runners, m \in Files : Place(q, m) => Place(q, m)'
    BY <1>3, <2>1 DEF Place, Applies
  <2>. QED BY <1>3, <2>1, <2>2 DEF InPlace, Applies
<1>4. ASSUME NEW r \in Runners, Records(r) PROVE InPlace'
  <2>1. PICK f \in Files : /\ f = At(r) /\ runner[r].pending = Tail(f)
                           /\ \A g \in Files : g < f => g \in recorded
    BY <1>4, Busy DEF Records
  <2>2. PICK k \in 0..LastFile : recorded = Prefix(k)
    BY DEF InPlace
  <2>3. f <= k + 1
    <3>1. CASE f = 1
      BY <2>2, <3>1
    <3>2. CASE f # 1
      <4>1. f - 1 \in Files /\ f - 1 < f
        BY <2>1, <3>2, FilesAssumption DEF Files
      <4>2. f - 1 \in Prefix(k)
        BY <2>1, <2>2, <4>1
      <4>. QED BY <2>1, <4>2 DEF Prefix, Files
    <3>. QED BY <3>1, <3>2
  <2>4. \E j \in 0..LastFile : recorded' = Prefix(j)
    <3>1. recorded' = Prefix(k) \union {f}
      BY <1>4, <2>1, <2>2 DEF Records
    <3>2. CASE f <= k
      BY <2>1, <2>2, <3>1, <3>2 DEF Prefix, Files
    <3>3. CASE f = k + 1
      <4>1. recorded' = Prefix(k + 1) /\ k + 1 \in 0..LastFile
        BY <2>1, <2>2, <3>1, <3>3, FilesAssumption DEF Prefix, Files
      <4>. QED BY <4>1
    <3>. QED BY <2>1, <2>2, <2>3, <3>2, <3>3 DEF Files
  <2>5. runner'[r].pc # "off" => Place(r, f + 1)' /\ f + 1 \in Files
    <3>1. f # LastFile => runner'[r].pending = Tail(f + 1) /\ f + 1 \in Files
      BY <1>4, <2>1, TailNext DEF Records, Goes, TypeOK
    <3>2. f = LastFile => runner'[r].pc = "off"
      BY <1>4, <2>1, TailNext DEF Records, Goes, Off, TypeOK
    <3>3. \A g \in Files : g < f + 1 => g \in recorded'
      BY <1>4, <2>1, FilesAssumption DEF Records, Files
    <3>. QED BY <3>1, <3>2, <3>3 DEF Place
  <2>6. \A q \in Runners \ {r} : runner'[q] = runner[q]
    BY <1>4 DEF Records, Goes, TypeOK
  <2>7. \A q \in Runners \ {r}, m \in Files : Place(q, m) => Place(q, m)'
    BY <1>4, <2>6 DEF Place, Records
  <2>. QED BY <2>4, <2>5, <2>6, <2>7 DEF InPlace
<1>5. ASSUME NEW r \in Runners, Stops(r) PROVE InPlace'
  <2>1. \A q \in Runners : runner'[q].pc # "off" => runner'[q] = runner[q]
    BY <1>5 DEF Stops, Off, TypeOK
  <2>2. \A q \in Runners, m \in Files :
           runner'[q].pc # "off" /\ Place(q, m) => Place(q, m)'
    BY <1>5, <2>1 DEF Place, Stops
  <2>. QED BY <1>5, <2>1, <2>2 DEF InPlace, Stops
<1>. QED BY <1>1, <1>2, <1>3, <1>4, <1>5 DEF Next

LEMMA Ordered == TypeOK /\ InPlace => AppliedInOrder
<1>. SUFFICES ASSUME TypeOK, InPlace PROVE AppliedInOrder
  OBVIOUS
<1>1. \A f \in recorded, g \in Files : g < f => g \in recorded
  BY FilesAssumption DEF InPlace, Prefix, Files
<1>. QED BY <1>1, Busy DEF AppliedInOrder

LEMMA Invariant == Spec => [](TypeOK /\ InPlace)
  BY TypedInit, TypedStep, PlaceStep, PTL DEF Spec

\* The variables of the runner keep their types (apply_migrations.py).
THEOREM MigrationsTyped == Spec => []TypeOK
  BY Invariant, PTL

\* Versions are recorded in file name order, whatever runners overlap or stop
\* (apply_migrations.run_migrations).
THEOREM MigrationsInOrder == Spec => []AppliedInOrder
  BY Invariant, Ordered, PTL

\* A run that ends by itself has recorded every version, also when another
\* runner stopped meanwhile (apply_migrations.run_migrations).
THEOREM DoneMeansComplete == Spec => DoneIsComplete
<1>1. TypeOK /\ InPlace /\ [Next]_vars
        => [\A r \in Runners : Ended(r) => recorded' = Files]_vars
  <2>. SUFFICES ASSUME TypeOK, InPlace, NEW r \in Runners, Ended(r)
       PROVE  recorded' = Files
    OBVIOUS
  <2>. DEFINE f == At(r)
  <2>1. /\ f \in Files /\ runner[r].pending = Tail(f)
        /\ \A g \in Files : g < f => g \in recorded
    BY Busy DEF Ended, Records
  <2>2. f = LastFile
    BY <2>1, TailNext DEF Ended, Records, Goes, TypeOK
  <2>3. \A g \in Files : g < f \/ g = f
    BY <2>2, FilesAssumption DEF Files
  <2>. QED BY <2>1, <2>3 DEF Ended, Records, TypeOK
<1>. QED BY <1>1, Invariant, PTL DEF Spec, DoneIsComplete

-----------------------------------------------------------------------------
(***************************************************************************)
(* The schema.  Once the file that defines an object for good has been     *)
(* executed, either the object is defined by it or some runner still has   *)
(* to execute it: an earlier file executed again spoils the object, but    *)
(* the runner that executes it goes on to this file as well.               *)
(***************************************************************************)
Behind(q, f) ==
    /\ runner[q].pc # "off"
    /\ At(q) < f \/ (At(q) = f /\ runner[q].pc = "applies")

Made(f) ==
    \/ f \in recorded
    \/ \E q \in Runners : runner[q].pc = "records" /\ At(q) = f

Owned(o, f) == Made(f) => owner[o] = f \/ \E q \in Runners : Behind(q, f)

Replaced == ~spoiled => \A o \in Objects, f \in Files :
                           ReplacesLast(f, o) => Owned(o, f)
Added == \A o \in Objects, f \in Files :
            AddsFirst(f, o) => /\ owner[o] \in {None, f}
                               /\ Made(f) => owner[o] = f

LEMMA SchemaInit == Init => Replaced /\ Added
  BY DEF Init, Replaced, Added, Owned, Made, Off

LEMMA AddedStep ==
    ASSUME TypeOK, InPlace, Added, [Next]_vars
    PROVE  Added'
<1>. SUFFICES ASSUME NEW o \in Objects, NEW f \in Files, AddsFirst(f, o)
     PROVE  owner'[o] \in {None, f} /\ (Made(f)' => owner'[o] = f)
  BY DEF Added
<1>. USE DEF None
<1>1. /\ owner[o] \in {None, f} /\ (Made(f) => owner[o] = f)
      /\ \A g \in Files : o \notin Replaces[g]
      /\ \A g \in Files : o \in Adds[g] => f <= g
      /\ o \in Adds[f] /\ f # None
  BY DEF Added, AddsFirst, Files
<1>2. \A q \in Runners : runner'[q].pending = runner[q].pending => At(q)' = At(q)
  BY DEF At
<1>3. CASE UNCHANGED vars
  BY <1>1, <1>2, <1>3 DEF vars, Made
<1>4. ASSUME NEW r \in Runners, Starts(r) PROVE owner'[o] = f \/ ~Made(f)'
  <2>1. \A q \in Runners : runner'[q].pc = "records" => runner'[q] = runner[q]
    BY <1>4 DEF Starts, TypeOK
  <2>. QED BY <1>1, <1>2, <1>4, <2>1 DEF Made, Starts
<1>5. ASSUME NEW r \in Runners, Applies(r)
      PROVE  owner'[o] \in {None, f} /\ (Made(f)' => owner'[o] = f)
  <2>1. /\ At(r) \in Files
        /\ \A g \in Files : g < At(r) => g \in recorded
    BY <1>5, Busy DEF Applies
  <2>2. \A q \in Runners : q # r => runner'[q] = runner[q]
    BY <1>5 DEF Applies, TypeOK
  <2>3. At(r)' = At(r)
    BY <1>2, <1>5 DEF Applies, TypeOK
  <2>4. Made(f)' => Made(f) \/ At(r) = f
    BY <1>2, <1>5, <2>2, <2>3 DEF Made, Applies, TypeOK
  <2>5. owner'[o] = Defined(At(r), o) /\ o \notin Replaces[At(r)]
    BY <1>1, <1>5, <2>1 DEF Applies
  <2>6. CASE At(r) = f
    BY <1>1, <2>5, <2>6 DEF Defined
  <2>7. CASE At(r) # f
    <3>1. o \in Adds[At(r)] => f \in recorded
      BY <1>1, <2>1, <2>7 DEF Files
    <3>. QED BY <1>1, <2>4, <2>5, <2>7, <3>1 DEF Defined, Made
  <2>. QED BY <2>6, <2>7
<1>6. ASSUME NEW r \in Runners, Records(r) PROVE owner'[o] = f \/ ~Made(f)'
  <2>1. \A q \in Runners : runner'[q].pc = "records" => runner'[q] = runner[q]
    BY <1>6 DEF Records, Goes, Off, TypeOK
  <2>. QED BY <1>1, <1>2, <1>6, <2>1 DEF Made, Records
<1>7. ASSUME NEW r \in Runners, Stops(r) PROVE owner'[o] = f \/ ~Made(f)'
  <2>1. \A q \in Runners : runner'[q].pc = "records" => runner'[q] = runner[q]
    BY <1>7 DEF Stops, Off, TypeOK
  <2>. QED BY <1>1, <1>2, <1>7, <2>1 DEF Made, Stops
<1>8. ASSUME NEW r \in Runners, Starts(r) \/ Records(r) \/ Stops(r)
      PROVE  owner' = owner
  BY <1>8 DEF Starts, Records, Stops
<1>. QED BY <1>1, <1>3, <1>4, <1>5, <1>6, <1>7, <1>8 DEF Next

LEMMA ReplacedStep ==
    ASSUME TypeOK, InPlace, Replaced, [Next]_vars
    PROVE  Replaced'
<1>. SUFFICES ASSUME ~spoiled', NEW o \in Objects, NEW f \in Files,
                     ReplacesLast(f, o), Made(f)'
     PROVE  owner'[o] = f \/ \E q \in Runners : Behind(q, f)'
  BY DEF Replaced, Owned
<1>1. ~spoiled
  BY DEF Next, Starts, Applies, Records, Stops, vars, TypeOK
<1>2. /\ Made(f) => owner[o] = f \/ \E q \in Runners : Behind(q, f)
      /\ o \in Replaces[f] /\ f # None
      /\ \A g \in Files : o \in Replaces[g] \union Adds[g] => g <= f
  BY <1>1 DEF Replaced, Owned, ReplacesLast, None, Files
<1>3. \A q \in Runners : runner'[q].pending = runner[q].pending => At(q)' = At(q)
  BY DEF At
<1>4. CASE UNCHANGED vars
  BY <1>2, <1>3, <1>4 DEF vars, Made, Behind
<1>5. ASSUME NEW r \in Runners, Starts(r)
      PROVE  owner'[o] = f \/ \E q \in Runners : Behind(q, f)'
  <2>1. /\ \A q \in Runners : q # r => runner'[q] = runner[q]
        /\ runner[r].pc = "off" /\ runner'[r].pc = "applies"
        /\ owner' = owner /\ recorded' = recorded
    BY <1>5 DEF Starts, TypeOK
  <2>2. Made(f)
    BY <1>3, <2>1 DEF Made
  <2>3. \A q \in Runners : Behind(q, f) => Behind(q, f)'
    BY <1>3, <2>1 DEF Behind
  <2>. QED BY <1>2, <2>1, <2>2, <2>3
<1>6. ASSUME NEW r \in Runners, Applies(r)
      PROVE  owner'[o] = f \/ \E q \in Runners : Behind(q, f)'
  <2>1. At(r) \in Files /\ At(r)' = At(r)
    BY <1>3, <1>6, Busy DEF Applies, TypeOK
  <2>2. /\ \A q \in Runners : q # r => runner'[q] = runner[q]
        /\ runner[r].pc = "applies" /\ runner'[r].pc = "records"
        /\ recorded' = recorded
    BY <1>6 DEF Applies, TypeOK
  <2>3. CASE At(r) < f
    BY <2>1, <2>2, <2>3 DEF Behind
  <2>4. CASE At(r) = f
    BY <1>2, <1>6, <2>4 DEF Applies, Defined
  <2>5. CASE At(r) > f
    <3>1. o \notin Replaces[At(r)] \union Adds[At(r)]
      BY <1>2, <2>1, <2>5 DEF Files
    <3>2. owner'[o] = owner[o]
      BY <1>6, <3>1 DEF Applies, Defined
    <3>3. Made(f)
      BY <1>3, <2>1, <2>2, <2>5 DEF Made, Files
    <3>4. \A q \in Runners : Behind(q, f) => q # r /\ Behind(q, f)'
      BY <1>3, <2>1, <2>2, <2>5 DEF Behind, Files
    <3>. QED BY <1>2, <3>2, <3>3, <3>4
  <2>. QED BY <2>1, <2>3, <2>4, <2>5 DEF Files
<1>7. ASSUME NEW r \in Runners, Records(r)
      PROVE  owner'[o] = f \/ \E q \in Runners : Behind(q, f)'
  <2>1. PICK m \in Files : m = At(r) /\ runner[r].pending = Tail(m)
    BY <1>7, Busy DEF Records
  <2>2. /\ \A q \in Runners : q # r => runner'[q] = runner[q]
        /\ runner[r].pc = "records" /\ owner' = owner
        /\ recorded' = recorded \union {m}
    BY <1>7, <2>1 DEF Records, Goes, TypeOK
  <2>3. CASE m < f
    <3>1. m # LastFile
      BY <2>1, <2>3, FilesAssumption DEF Files
    <3>2. /\ m + 1 \in Files /\ runner'[r].pc = "applies"
          /\ runner'[r].pending = Tail(m + 1)
      BY <1>7, <2>1, <3>1, TailNext DEF Records, Goes, TypeOK
    <3>3. At(r)' = m + 1
      BY <3>2, FirstOfTail DEF At
    <3>4. m + 1 <= f
      BY <2>3 DEF Files
    <3>. QED BY <2>1, <3>2, <3>3, <3>4 DEF Behind, Files
  <2>4. CASE m >= f
    <3>1. \A q \in Runners : Behind(q, f) => q # r /\ Behind(q, f)'
      BY <1>3, <2>1, <2>2, <2>4 DEF Behind, Files
    <3>2. Made(f)
      <4>1. \A q \in Runners : runner'[q].pc = "records" => q # r
        BY <1>7 DEF Records, Goes, Off, TypeOK
      <4>. QED BY <1>3, <2>1, <2>2, <4>1 DEF Made
    <3>. QED BY <1>2, <2>2, <3>1, <3>2
  <2>. QED BY <2>3, <2>4 DEF Files
<1>8. ASSUME NEW r \in Runners, Stops(r)
      PROVE  owner'[o] = f \/ \E q \in Runners : Behind(q, f)'
  <2>1. /\ \A q \in Runners : runner'[q].pc = "off"
        /\ \A q \in Runners : q # r => runner[q].pc = "off"
        /\ At(r) \notin recorded /\ owner' = owner /\ recorded' = recorded
    BY <1>8 DEF Stops, Harms, Off, TypeOK
  <2>2. f \in recorded
    BY <2>1 DEF Made
  <2>3. At(r) \in Files /\ runner[r].pc # "off"
    BY <1>8, Busy DEF Stops
  <2>4. At(r) > f
    <3>1. \A g \in Files : g < f => g \in recorded
      BY <2>2, Ordered DEF AppliedInOrder
    <3>. QED BY <2>1, <2>2, <2>3, <3>1 DEF Files
  <2>5. \A q \in Runners : ~Behind(q, f)
    BY <2>1, <2>3, <2>4 DEF Behind, Files
  <2>. QED BY <1>2, <2>1, <2>2, <2>5 DEF Made
<1>. QED BY <1>4, <1>5, <1>6, <1>7, <1>8 DEF Next

\* An up-to-date table of versions means an up-to-date schema: any number of
\* runners may stop between a file and its record and execute each other's
\* files again, unless one stops beside another or while it repeats what is
\* recorded (apply_migrations._apply_migration and run_migrations).
THEOREM UpToDateSchema == Spec => []UpToDateIsCurrent
<1>1. TypeOK /\ Replaced /\ Added => UpToDateIsCurrent
  <2>. SUFFICES ASSUME TypeOK, Replaced, Added, recorded = Files, ~spoiled,
                       \A r \in Runners : runner[r].pc = "off",
                       NEW o \in Objects, NEW f \in Files, IsFinal(f, o)
       PROVE  owner[o] = f
    BY DEF UpToDateIsCurrent
  <2>1. CASE ReplacesLast(f, o)
    BY <2>1 DEF Replaced, Owned, Made, Behind
  <2>2. CASE AddsFirst(f, o)
    BY <2>2 DEF Added, Made
  <2>. QED BY <2>1, <2>2 DEF IsFinal
<1>2. TypeOK /\ InPlace /\ Replaced /\ Added /\ [Next]_vars
        => Replaced' /\ Added'
  BY AddedStep, ReplacedStep
<1>. QED BY <1>1, <1>2, SchemaInit, Invariant, PTL DEF Spec
=============================================================================
