-------------------------- MODULE MigrationsProofs ---------------------------
(***************************************************************************)
(* Proofs about Migrations, for any number of runs of any age and any      *)
(* number of Downs: two transactions never make the same object, so that   *)
(* each migration is committed once, and in turn.  Then about Startup, the *)
(* process that runs a migration, or serves on the schema it leaves.       *)
(***************************************************************************)
EXTENDS Migrations, Startup, TLAPS

-----------------------------------------------------------------------------
(* The migrations                                                          *)

Length(v) == CASE v = 1 -> 3 [] v = 2 -> 1 [] v = 3 -> 3 [] v = 4 -> 3

LEMMA Lengths == \A v \in Versions :
    Length(v) \in 1..3 /\ Len(Creates[v]) = Length(v) /\ Len(Drops[v]) = Length(v)
<1>1. Len(Creates[1]) = 3 /\ Len(Creates[2]) = 1 /\ Len(Creates[3]) = 3 /\ Len(Creates[4]) = 3
  BY DEF Creates
<1>2. Len(Drops[1]) = 3 /\ Len(Drops[2]) = 1 /\ Len(Drops[3]) = 3 /\ Len(Drops[4]) = 3
  BY DEF Drops
<1>3. Length(1) = 3 /\ Length(2) = 1 /\ Length(3) = 3 /\ Length(4) = 3
  BY DEF Length
<1> TAKE v \in Versions
<1>4. v = 1 \/ v = 2 \/ v = 3 \/ v = 4
  BY DEF Versions
<1>5. Length(v) \in 1..3
  BY <1>4 DEF Length
<1>6. Len(Creates[v]) = Length(v)
  BY <1>1, <1>3, <1>4
<1>7. Len(Drops[v]) = Length(v)
  BY <1>2, <1>3, <1>4
<1> QED
  BY <1>5, <1>6, <1>7

LEMMA Distinct == \A v, w \in Versions : \A i \in 1..Length(v), j \in 1..Length(w) :
    Creates[v][i] = Creates[w][j] => v = w /\ i = j
<1> SUFFICES ASSUME NEW v \in Versions, NEW w \in Versions,
                    NEW i \in 1..Length(v), NEW j \in 1..Length(w),
                    Creates[v][i] = Creates[w][j]
             PROVE  v = w /\ i = j
  OBVIOUS
<1>1. v \in {1, 2, 3, 4} /\ w \in {1, 2, 3, 4} /\ i \in {1, 2, 3} /\ j \in {1, 2, 3}
  BY DEF Versions, Length
<1> QED
  BY <1>1 DEF Length, Creates

\* What the first n - 1 statements of v make.
Made(v, n) == {Creates[v][i] : i \in 1..(n - 1)}

LEMMA AllMade == \A v \in Versions : Made(v, Length(v) + 1) = Objects(v)
BY Lengths DEF Made, Objects

LEMMA MadeOne == ASSUME NEW v \in Versions, NEW n \in 1..Length(v)
                 PROVE  Made(v, n + 1) = Made(v, n) \cup {Creates[v][n]}
<1>1. Length(v) \in 1..3
  BY Lengths
<1>2. 1..((n + 1) - 1) = (1..(n - 1)) \cup {n}
  BY <1>1
<1> QED
  BY <1>2, Zenon DEF Made

\* No migration makes what another has made.
LEMMA Apart == ASSUME NEW v \in Versions, NEW w \in Versions, NEW x \in Objects(v), x \in Objects(w)
               PROVE  v = w
<1>1. PICK i \in 1..Length(v) : x = Creates[v][i]
  BY Lengths DEF Objects
<1>2. PICK j \in 1..Length(w) : x = Creates[w][j]
  BY Lengths DEF Objects
<1>3. Creates[v][i] = Creates[w][j]
  BY <1>1, <1>2
<1> QED
  BY <1>3, Distinct, Zenon

\* Down drops what Up has made, each thing after what refers to it.
LEMMA DropsAll == \A v \in Versions : {Drops[v][i] : i \in 1..Length(v)} = Objects(v)
<1> TAKE v \in Versions
<1>1. v = 1 \/ v = 2 \/ v = 3 \/ v = 4
  BY DEF Versions
<1>2. Objects(v) = {Creates[v][i] : i \in 1..Length(v)}
  BY Lengths DEF Objects
<1>3. Length(1) = 3 /\ Length(2) = 1 /\ Length(3) = 3 /\ Length(4) = 3
  BY DEF Length
<1>4. CASE v = 2
  BY <1>2, <1>3, <1>4 DEF Creates, Drops
<1>5. CASE v # 2
  <2>1. Length(v) = 3
    BY <1>1, <1>3, <1>5
  <2>2. /\ Drops[v][1] \in {Creates[v][1], Creates[v][2], Creates[v][3]}
        /\ Drops[v][2] \in {Creates[v][1], Creates[v][2], Creates[v][3]}
        /\ Drops[v][3] \in {Creates[v][1], Creates[v][2], Creates[v][3]}
        /\ Creates[v][1] \in {Drops[v][1], Drops[v][2], Drops[v][3]}
        /\ Creates[v][2] \in {Drops[v][1], Drops[v][2], Drops[v][3]}
        /\ Creates[v][3] \in {Drops[v][1], Drops[v][2], Drops[v][3]}
    BY <1>1, <1>5 DEF Creates, Drops
  <2>3. {Drops[v][i] : i \in 1..3} = {Drops[v][1], Drops[v][2], Drops[v][3]}
    OBVIOUS
  <2>4. {Creates[v][i] : i \in 1..3} = {Creates[v][1], Creates[v][2], Creates[v][3]}
    OBVIOUS
  <2> QED
    BY <1>2, <2>1, <2>2, <2>3, <2>4
<1> QED
  BY <1>4, <1>5

-----------------------------------------------------------------------------
(* The inductive invariant                                                 *)

Shape == \A p \in Migrator : Under(p) =>
    /\ exit[p] = -1
    /\ run[p].version = 0 => run[p].next = 1
    /\ run[p].version # 0 => run[p].next \in 1..(Length(run[p].version) + 1)
    /\ run[p].dir = "down" => run[p].version # 0 /\ \A q \in Migrator \ {p} : ~Under(q)

\* A migration is there whole or not at all, and in turn.
Whole ==
    /\ schema \subseteq AllObjects
    /\ \A v \in Versions : \A x \in Objects(v) : x \in schema <=> applied[v] = 1
Ordered == \A v, w \in Versions : applied[v] = 1 /\ w <= v => applied[w] = 1

\* What open transactions count on.
InTurn == \A p \in Migrator : Open(p, "up") =>
    \A w \in Versions : w < run[p].version => applied[w] = 1
Top == \A p \in Migrator : Open(p, "down") =>
    \A w \in Versions : applied[w] = 1 <=> w <= run[p].version

\* What an open transaction has made is in no other, and not committed.
MadeBy(p) == Made(run[p].version, run[p].next)
Exclusive == \A p \in Migrator : Open(p, "up") =>
    /\ \A x \in MadeBy(p) : x \notin schema
    /\ \A q \in Migrator \ {p} : Open(q, "up") => \A x \in MadeBy(p) : x \notin MadeBy(q)

IInv == TypeOK /\ Shape /\ Whole /\ Ordered /\ InTurn /\ Top /\ Exclusive

LEMMA CurrentIs == ASSUME TypeOK, Ordered
                   PROVE  /\ Current \in 0..4
                          /\ \A w \in Versions : applied[w] = 1 <=> w <= Current
<1> DEFINE Highest(v) == /\ v # 0 => applied[v] > 0
                         /\ \A w \in Versions : applied[w] > 0 => w <= v
<1>1. \A v \in Versions : applied[v] \in {0, 1}
  BY DEF TypeOK
<1>2. \E v \in Versions \cup {0} : Highest(v)
  <2>1. CASE applied[4] = 1
    BY <2>1 DEF Versions
  <2>2. CASE applied[4] = 0 /\ applied[3] = 1
    BY <2>2, <1>1 DEF Versions
  <2>3. CASE applied[4] = 0 /\ applied[3] = 0 /\ applied[2] = 1
    BY <2>3, <1>1 DEF Versions
  <2>4. CASE applied[4] = 0 /\ applied[3] = 0 /\ applied[2] = 0 /\ applied[1] = 1
    BY <2>4, <1>1 DEF Versions
  <2>5. CASE applied[4] = 0 /\ applied[3] = 0 /\ applied[2] = 0 /\ applied[1] = 0
    BY <2>5, <1>1 DEF Versions
  <2> QED
    BY <1>1, <2>1, <2>2, <2>3, <2>4, <2>5 DEF Versions
<1>3. Current \in Versions \cup {0} /\ Highest(Current)
  BY <1>2 DEF Current
<1> QED
  BY <1>1, <1>3 DEF Ordered, Versions

LEMMA RunIs == ASSUME TypeOK, NEW p \in Migrator, Under(p)
               PROVE  /\ run[p] \in RunState
                      /\ run[p].version # 0 => run[p].version \in Versions
BY DEF TypeOK, Under, RunState

LEMMA DoneIs == ASSUME TypeOK, Shape, NEW p \in Migrator, Open(p, "up")
                PROVE  /\ Done(p) = MadeBy(p)
                       /\ AtEnd(p) => Done(p) = Objects(run[p].version)
                       /\ ~AtEnd(p) => /\ run[p].next \in 1..Length(run[p].version)
                                       /\ Object(p) = Creates[run[p].version][run[p].next]
<1>1. run[p].version \in Versions /\ run[p].next \in 1..(Length(run[p].version) + 1)
  BY RunIs DEF Shape, Open
<1>2. Statements(p) = Creates[run[p].version]
  BY DEF Open, Statements
<1>3. Done(p) = MadeBy(p)
  BY <1>2 DEF Done, MadeBy, Made
<1>4. Length(run[p].version) \in 1..3 /\ Len(Statements(p)) = Length(run[p].version)
  BY <1>1, <1>2, Lengths
<1>5. AtEnd(p) => run[p].next = Length(run[p].version) + 1
  BY <1>1, <1>4 DEF AtEnd
<1>6. ~AtEnd(p) => run[p].next \in 1..Length(run[p].version)
  BY <1>1, <1>4 DEF AtEnd
<1> QED
  BY <1>1, <1>2, <1>3, <1>5, <1>6, AllMade DEF MadeBy, Object

LEMMA DroppedIs == ASSUME TypeOK, Shape, NEW p \in Migrator, Open(p, "down")
                   PROVE  /\ run[p].version \in Versions
                          /\ Statements(p) = Drops[run[p].version]
                          /\ AtEnd(p) => Done(p) = Objects(run[p].version)
                          /\ ~AtEnd(p) => run[p].next \in 1..Length(run[p].version)
<1>1. run[p].version \in Versions /\ run[p].next \in 1..(Length(run[p].version) + 1)
  BY RunIs DEF Shape, Open
<1>2. Statements(p) = Drops[run[p].version]
  BY DEF Open, Statements
<1>4. Length(run[p].version) \in 1..3 /\ Len(Statements(p)) = Length(run[p].version)
  BY <1>1, <1>2, Lengths
<1>5. AtEnd(p) => run[p].next = Length(run[p].version) + 1
  BY <1>1, <1>4 DEF AtEnd
<1>6. AtEnd(p) => 1..(run[p].next - 1) = 1..Length(run[p].version)
  BY <1>4, <1>5
<1>7. AtEnd(p) => Done(p) = Objects(run[p].version)
  BY <1>1, <1>2, <1>6, DropsAll DEF Done
<1> QED
  BY <1>1, <1>2, <1>4, <1>7 DEF AtEnd

LEMMA MadeAreObjects ==
    ASSUME NEW v \in Versions, NEW n \in 1..(Length(v) + 1), NEW x \in Made(v, n)
    PROVE  x \in Objects(v)
<1>1. 1..(n - 1) \subseteq 1..Length(v) /\ Len(Creates[v]) = Length(v)
  BY Lengths
<1> QED
  BY <1>1 DEF Made, Objects

LEMMA Initially == Init => IInv
<1> SUFFICES ASSUME Init PROVE IInv
  OBVIOUS
<1> USE RunAssumption DEF Init
<1>1. TypeOK
  BY DEF TypeOK, Versions
<1>2. \A p \in Migrator : ~Under(p) /\ ~Open(p, "up") /\ ~Open(p, "down")
  BY DEF Under, Open
<1>3. Whole /\ Ordered
  BY DEF Whole, Ordered
<1> QED
  BY <1>1, <1>2, <1>3 DEF IInv, Shape, InTurn, Top, Exclusive

-----------------------------------------------------------------------------
(* The steps                                                               *)

\* A run that ends without a commit leaves what it has made to nobody.
LEMMA EndKeeps == ASSUME IInv, NEW p \in Migrator, NEW result \in {-1, 0, 1}, End(p, result),
                         UNCHANGED <<schema, applied, downs>>
                  PROVE  IInv'
<1> USE RunAssumption, NilAssumption DEF IInv
<1>1. TypeOK'
  BY DEF TypeOK, End
<1>2. \A q \in Migrator : /\ q # p => run'[q] = run[q] /\ exit'[q] = exit[q]
                          /\ q = p => run'[q] = Nil
  BY DEF TypeOK, End
<1>3. \A q \in Migrator : Under(q)' => q # p /\ Under(q)
  BY <1>2 DEF Under
<1>4. \A q \in Migrator, dir \in {"up", "down"} : Open(q, dir)' => q # p /\ Open(q, dir)
  BY <1>2, <1>3 DEF Open
<1>5. Shape'
  BY <1>2, <1>3 DEF Shape
<1>6. Whole' /\ Ordered'
  BY DEF Whole, Ordered
<1>7. InTurn' /\ Top'
  BY <1>2, <1>4 DEF InTurn, Top
<1>8. Exclusive'
  BY <1>2, <1>4 DEF Exclusive, MadeBy
<1> QED
  BY <1>1, <1>5, <1>6, <1>7, <1>8

LEMMA MigrateKeeps == ASSUME IInv, NEW p \in Migrator, Migrate(p) PROVE IInv'
<1> USE RunAssumption, NilAssumption DEF IInv
<1>1. run'[p] = [dir |-> "up", version |-> 0, next |-> 1] /\ exit'[p] = -1
  BY DEF Migrate, Begin, TypeOK
<1>2. \A q \in Migrator \ {p} : run'[q] = run[q] /\ exit'[q] = exit[q]
  BY DEF Migrate, Begin, TypeOK
<1>3. UNCHANGED <<schema, applied, downs>>
  BY DEF Migrate
<1>4. TypeOK'
  <2>1. [dir |-> "up", version |-> 0, next |-> 1] \in RunState
    BY DEF RunState
  <2> QED
    BY <2>1, <1>3 DEF Migrate, Begin, TypeOK
<1>5. \A q \in Migrator, dir \in {"up", "down"} : Open(q, dir)' => q # p /\ Open(q, dir)
  BY <1>1, <1>2 DEF Open, Under
<1>6. Shape'
  <2> SUFFICES ASSUME NEW q \in Migrator, Under(q)'
               PROVE  /\ exit'[q] = -1
                      /\ run'[q].version = 0 => run'[q].next = 1
                      /\ run'[q].version # 0 => run'[q].next \in 1..(Length(run'[q].version) + 1)
                      /\ run'[q].dir # "down"
    BY DEF Shape
  <2>1. CASE q = p
    BY <2>1, <1>1
  <2>2. CASE q # p
    <3>1. Under(q) /\ run[q].dir = "up"
      BY <2>2, <1>2 DEF Under, Migrate
    <3> QED
      BY <3>1, <2>2, <1>2 DEF Shape
  <2> QED BY <2>1, <2>2
<1>7. Whole' /\ Ordered'
  BY <1>3 DEF Whole, Ordered
<1>8. InTurn' /\ Top'
  BY <1>2, <1>3, <1>5 DEF InTurn, Top
<1>9. Exclusive'
  BY <1>2, <1>3, <1>5 DEF Exclusive, MadeBy
<1> QED
  BY <1>4, <1>6, <1>7, <1>8, <1>9

LEMMA NextKeeps == ASSUME IInv, NEW p \in Migrator, NextMigration(p) PROVE IInv'
<1> USE RunAssumption, NilAssumption DEF IInv
<1> DEFINE v == Current + 1
<1>1. v \in Versions /\ \A w \in Versions : w < v => applied[w] = 1
  BY CurrentIs DEF NextMigration, Versions
<1>2. run[p] \in RunState /\ run[p].next = 1 /\ run[p].dir = "up" /\ exit[p] = -1 /\ Under(p)
  BY RunIs DEF NextMigration, Between, Shape
<1>3. run'[p] \in RunState /\ run'[p].dir = "up" /\ run'[p].next = 1 /\ run'[p].version = v
  BY <1>1, <1>2 DEF NextMigration, TypeOK, RunState
<1>4. \A q \in Migrator \ {p} : run'[q] = run[q]
  BY DEF NextMigration, TypeOK
<1>5. UNCHANGED <<schema, applied, exit, downs>>
  BY DEF NextMigration
<1> HIDE DEF v
<1>6. TypeOK'
  BY <1>3, <1>5 DEF NextMigration, TypeOK
<1>7. \A q \in Migrator : (Under(q)' <=> Under(q)) /\ (run'[q] # Nil => run'[q].dir = run[q].dir)
  BY <1>2, <1>3, <1>4 DEF Under
<1>8. Shape'
  <2>1. 1 \in 1..(Length(v) + 1)
    BY <1>1, Lengths
  <2> QED
    BY <2>1, <1>1, <1>2, <1>3, <1>4, <1>5, <1>7 DEF Shape, Versions
<1>9. Whole' /\ Ordered'
  BY <1>5 DEF Whole, Ordered
<1>10. InTurn'
  BY <1>1, <1>3, <1>4, <1>5 DEF InTurn, Open, Under
<1>11. Top'
  BY <1>3, <1>4, <1>5 DEF Top, Open, Under
<1>12. MadeBy(p)' = {} /\ \A q \in Migrator \ {p} : MadeBy(q)' = MadeBy(q)
  <2>1. 1..(1 - 1) = {}
    OBVIOUS
  <2> QED
    BY <2>1, <1>3, <1>4 DEF MadeBy, Made
<1>13. Exclusive'
  BY <1>4, <1>5, <1>12 DEF Exclusive, Open, Under
<1> QED
  BY <1>6, <1>8, <1>9, <1>10, <1>11, <1>13

\* The statement of one run: version and direction stay.
LEMMA StatementKeeps ==
    ASSUME IInv, NEW p \in Migrator, Under(p), run[p].version \in Versions,
           run[p].next \in 1..Length(run[p].version),
           run' = [run EXCEPT ![p].next = @ + 1],
           UNCHANGED <<schema, applied, exit, downs>>
    PROVE  /\ run'[p].version = run[p].version /\ run'[p].next = run[p].next + 1
           /\ \A q \in Migrator \ {p} : run'[q] = run[q]
           /\ \A q \in Migrator : Under(q)' <=> Under(q)
           /\ \A q \in Migrator, dir \in {"up", "down"} : Open(q, dir)' <=> Open(q, dir)
           /\ \A q \in Migrator \ {p} : MadeBy(q)' = MadeBy(q)
           /\ TypeOK' /\ Shape' /\ Whole' /\ Ordered' /\ InTurn' /\ Top'
<1> USE RunAssumption, NilAssumption DEF IInv
<1>1. run[p] \in RunState
  BY RunIs
<1>2. Length(run[p].version) \in 1..3
  BY Lengths
<1>3. /\ run'[p] \in RunState /\ run'[p].version = run[p].version /\ run'[p].dir = run[p].dir
      /\ run'[p].next = run[p].next + 1
  BY <1>1, <1>2 DEF TypeOK, RunState
<1>4. \A q \in Migrator \ {p} : run'[q] = run[q]
  BY DEF TypeOK
<1>5. TypeOK'
  BY <1>3 DEF TypeOK
<1>6. \A q \in Migrator : Under(q)' <=> Under(q)
  BY <1>3, <1>4 DEF Under
<1>7. \A q \in Migrator, dir \in {"up", "down"} : Open(q, dir)' <=> Open(q, dir)
  BY <1>3, <1>4, <1>6 DEF Open
<1>8. run'[p].next \in 1..(Length(run[p].version) + 1)
  BY <1>2, <1>3
<1>9. Shape'
  BY <1>3, <1>4, <1>6, <1>8 DEF Shape, Versions
<1>10. Whole' /\ Ordered'
  BY DEF Whole, Ordered
<1>11. InTurn' /\ Top'
  BY <1>3, <1>4, <1>7 DEF InTurn, Top
<1>12. \A q \in Migrator \ {p} : MadeBy(q)' = MadeBy(q)
  BY <1>4 DEF MadeBy
<1> QED
  BY <1>3, <1>4, <1>5, <1>6, <1>7, <1>9, <1>10, <1>11, <1>12

LEMMA CreateKeeps == ASSUME IInv, NEW p \in Migrator, Create(p) PROVE IInv'
<1> USE DEF IInv
<1> DEFINE x == Object(p)
<1>1. Open(p, "up") /\ Under(p) /\ run[p].version \in Versions
  BY RunIs DEF Create, Open
<1>2. run[p].next \in 1..Length(run[p].version) /\ x = Creates[run[p].version][run[p].next]
  BY <1>1, DoneIs DEF Create
<1>3. x \notin schema /\ \A q \in Migrator \ {p} : Open(q, "up") => x \notin MadeBy(q)
  BY DoneIs DEF Create, Locked
<1>. UNCHANGED <<schema, applied, exit, downs>> /\ run' = [run EXCEPT ![p].next = @ + 1]
  BY DEF Create
<1>4. /\ run'[p].version = run[p].version /\ run'[p].next = run[p].next + 1
      /\ \A q \in Migrator, dir \in {"up", "down"} : Open(q, dir)' <=> Open(q, dir)
      /\ \A q \in Migrator \ {p} : MadeBy(q)' = MadeBy(q)
      /\ TypeOK' /\ Shape' /\ Whole' /\ Ordered' /\ InTurn' /\ Top'
  BY <1>1, <1>2, StatementKeeps
<1>5. MadeBy(p)' = MadeBy(p) \cup {x}
  BY <1>1, <1>2, <1>4, MadeOne DEF MadeBy
<1> HIDE DEF x
<1>6. schema' = schema
  BY DEF Create
<1>7. Exclusive'
  BY <1>1, <1>3, <1>4, <1>5, <1>6 DEF Exclusive
<1> QED
  BY <1>4, <1>7

LEMMA CommitUpKeeps == ASSUME IInv, NEW p \in Migrator, CommitUp(p) PROVE IInv'
<1> USE RunAssumption, NilAssumption DEF IInv
<1> DEFINE v == run[p].version
<1>1. /\ Open(p, "up") /\ Under(p) /\ AtEnd(p) /\ v \in Versions
      /\ run[p] \in RunState /\ run[p].dir = "up" /\ exit[p] = -1
  BY RunIs DEF CommitUp, Open, Shape
<1>2. Done(p) = Objects(v) /\ Done(p) = MadeBy(p)
  BY <1>1, DoneIs
<1>3. run'[p] \in RunState /\ run'[p].dir = "up" /\ run'[p].version = 0 /\ run'[p].next = 1
  <2>1. run'[p] = [[run[p] EXCEPT !.version = 0] EXCEPT !.next = 1]
    BY DEF CommitUp, TypeOK
  <2>2. [run[p] EXCEPT !.version = 0] = [dir |-> "up", version |-> 0, next |-> run[p].next]
    BY <1>1 DEF RunState
  <2>3. run'[p] = [dir |-> "up", version |-> 0, next |-> 1]
    BY <2>1, <2>2
  <2> QED
    BY <2>3 DEF RunState
<1>4. \A q \in Migrator \ {p} : run'[q] = run[q]
  BY DEF CommitUp, TypeOK
<1>5. exit' = exit /\ downs' = downs /\ schema' = schema \cup Objects(v)
  BY <1>2 DEF CommitUp
<1> HIDE DEF v
\* What p has made is not there yet, so that the migration is applied for the first time.
<1>6. applied[v] = 0
  <2>1. Creates[v][1] \in Objects(v)
    BY <1>1, Lengths DEF Objects
  <2>2. Creates[v][1] \notin schema
    BY <2>1, <1>1, <1>2 DEF Exclusive
  <2>3. applied[v] # 1
    BY <2>1, <2>2, <1>1 DEF Whole
  <2> QED
    BY <2>3, <1>1 DEF TypeOK
<1>7. applied' = [applied EXCEPT ![v] = 1]
  <2>1. applied' = [applied EXCEPT ![v] = applied[v] + 1]
    BY DEF CommitUp, v
  <2> QED
    BY <2>1, <1>6
<1>8. /\ \A w \in Versions : applied'[w] = IF w = v THEN 1 ELSE applied[w]
      /\ \A w \in Versions : w < v => applied[w] = 1
  BY <1>1, <1>7 DEF TypeOK, InTurn, v
<1>9. TypeOK'
  <2>1. schema' \subseteq AllObjects
    BY <1>1, <1>5 DEF TypeOK, AllObjects
  <2>2. run' \in [Migrator -> RunState \cup {Nil}]
    BY <1>3 DEF CommitUp, TypeOK
  <2> QED
    BY <2>1, <2>2, <1>5, <1>7 DEF TypeOK
<1>10. \A q \in Migrator : Under(q)' <=> Under(q)
  BY <1>1, <1>3, <1>4 DEF Under
<1>11. \A q \in Migrator, dir \in {"up", "down"} : Open(q, dir)' => q # p /\ Open(q, dir)
  BY <1>3, <1>4, <1>10 DEF Open
<1>12. Shape'
  BY <1>1, <1>3, <1>4, <1>5, <1>10 DEF Shape
<1>13. Whole'
  <2>1. ASSUME NEW w \in Versions, NEW x \in Objects(w)
        PROVE  x \in schema' <=> applied'[w] = 1
    <3>1. CASE w = v
      BY <3>1, <1>5, <1>8
    <3>2. CASE w # v
      <4>1. x \notin Objects(v)
        BY <3>2, <1>1, Apart
      <4> QED
        BY <4>1, <3>2, <1>5, <1>8 DEF Whole
    <3> QED BY <3>1, <3>2
  <2> QED
    BY <2>1, <1>9 DEF Whole, TypeOK
<1>14. Ordered'
  BY <1>1, <1>8 DEF Ordered, Versions
<1>15. InTurn'
  BY <1>4, <1>8, <1>11 DEF InTurn
\* Nothing is taken back while p runs.
<1>16. Top'
  BY <1>1, <1>11 DEF Top, Shape, Open
<1>17. \A q \in Migrator \ {p} : MadeBy(q)' = MadeBy(q)
  BY <1>4 DEF MadeBy
<1>18. Exclusive'
  <2> SUFFICES ASSUME NEW q \in Migrator, Open(q, "up")', NEW x \in MadeBy(q)
               PROVE  /\ x \notin schema'
                      /\ \A r \in Migrator \ {q} : Open(r, "up")' => x \notin MadeBy(r)'
    BY <1>11, <1>17 DEF Exclusive
  <2>1. q # p /\ Open(q, "up")
    BY <1>11
  <2>2. x \notin schema /\ x \notin MadeBy(p)
    BY <2>1, <1>1 DEF Exclusive
  <2>3. ASSUME NEW r \in Migrator \ {q}, Open(r, "up")'
        PROVE  x \notin MadeBy(r)'
    BY <2>1, <2>3, <1>11, <1>17 DEF Exclusive
  <2> QED
    BY <2>2, <2>3, <1>2, <1>5
<1> QED
  BY <1>9, <1>12, <1>13, <1>14, <1>15, <1>16, <1>18

LEMMA DownKeeps == ASSUME IInv, NEW p \in Migrator, Down(p) PROVE IInv'
<1> USE RunAssumption, NilAssumption DEF IInv
<1> DEFINE v == Current
<1>1. v \in Versions /\ \A w \in Versions : applied[w] = 1 <=> w <= v
  BY CurrentIs DEF Down, Versions
<1>2. run'[p] = [dir |-> "down", version |-> v, next |-> 1] /\ exit'[p] = -1
  BY DEF Down, TypeOK
<1>3. \A q \in Migrator \ {p} : run'[q] = Nil
  BY DEF Down, Under, TypeOK
<1>4. UNCHANGED <<schema, applied>>
  BY DEF Down
<1>5. TypeOK'
  <2>1. [dir |-> "down", version |-> v, next |-> 1] \in RunState
    BY <1>1 DEF RunState
  <2>2. downs' \in 0..MaxDowns
    BY DEF Down, TypeOK
  <2> QED
    BY <2>1, <2>2 DEF Down, TypeOK
<1> HIDE DEF v
<1>6. Shape'
  <2>1. 1 \in 1..(Length(v) + 1) /\ v # 0
    BY <1>1, Lengths DEF Versions
  <2> QED
    BY <2>1, <1>2, <1>3 DEF Shape, Under
<1>7. Whole' /\ Ordered'
  BY <1>4 DEF Whole, Ordered
<1>8. \A q \in Migrator : /\ ~Open(q, "up")'
                          /\ Open(q, "down")' => q = p
  BY <1>2, <1>3 DEF Open, Under
<1>9. InTurn' /\ Top' /\ Exclusive'
  BY <1>1, <1>2, <1>4, <1>8 DEF InTurn, Top, Exclusive
<1> QED
  BY <1>5, <1>6, <1>7, <1>9

LEMMA DropKeeps == ASSUME IInv, NEW p \in Migrator, Drop(p) PROVE IInv'
<1> USE DEF IInv
<1>1. Open(p, "down") /\ Under(p) /\ run[p].dir = "down" /\ run[p].version \in Versions
  BY RunIs DEF Drop, Open
<1>2. run[p].next \in 1..Length(run[p].version)
  BY <1>1, DroppedIs DEF Drop
<1>. UNCHANGED <<schema, applied, exit, downs>> /\ run' = [run EXCEPT ![p].next = @ + 1]
  BY DEF Drop
<1>3. /\ \A q \in Migrator, dir \in {"up", "down"} : Open(q, dir)' <=> Open(q, dir)
      /\ TypeOK' /\ Shape' /\ Whole' /\ Ordered' /\ InTurn' /\ Top'
  BY <1>1, <1>2, StatementKeeps
\* Nothing is made while p takes back.
<1>4. \A q \in Migrator : ~Open(q, "up")
  BY <1>1 DEF Shape, Open
<1>5. Exclusive'
  BY <1>3, <1>4 DEF Exclusive
<1> QED
  BY <1>3, <1>5

LEMMA CommitDownKeeps == ASSUME IInv, NEW p \in Migrator, CommitDown(p) PROVE IInv'
<1> USE RunAssumption, NilAssumption DEF IInv
<1> DEFINE v == run[p].version
<1>1. Open(p, "down") /\ Under(p) /\ run[p].dir = "down" /\ v \in Versions /\ Done(p) = Objects(v)
  BY DroppedIs DEF CommitDown, Open
<1>2. \A q \in Migrator : run'[q] = Nil
  BY <1>1 DEF CommitDown, End, Shape, Under, TypeOK
<1>3. \A w \in Versions : applied'[w] = IF w = v THEN 0 ELSE applied[w]
  BY <1>1 DEF CommitDown, TypeOK
<1>4. \A w \in Versions : applied[w] = 1 <=> w <= v
  BY <1>1 DEF Top
<1>5. schema' = schema \ Objects(v)
  BY <1>1 DEF CommitDown
<1>6. TypeOK'
  BY <1>1, <1>5 DEF CommitDown, End, TypeOK
<1> HIDE DEF v
<1>7. Whole'
  <2>1. ASSUME NEW w \in Versions, NEW x \in Objects(w)
        PROVE  x \in schema' <=> applied'[w] = 1
    <3>1. CASE w = v
      BY <3>1, <1>3, <1>5
    <3>2. CASE w # v
      <4>1. x \notin Objects(v)
        BY <3>2, <1>1, Apart
      <4> QED
        BY <4>1, <3>2, <1>3, <1>5 DEF Whole
    <3> QED BY <3>1, <3>2
  <2> QED
    BY <2>1, <1>6 DEF Whole, TypeOK
<1>8. Ordered'
  BY <1>1, <1>3, <1>4 DEF Ordered, Versions
<1>9. Shape' /\ InTurn' /\ Top' /\ Exclusive'
  BY <1>2 DEF Shape, InTurn, Top, Exclusive, Open, Under
<1> QED
  BY <1>6, <1>7, <1>8, <1>9

LEMMA Inductive == IInv /\ [Next]_vars => IInv'
<1> SUFFICES ASSUME IInv, [Next]_vars PROVE IInv'
  OBVIOUS
<1>1. CASE UNCHANGED vars
  <2>1. /\ UNCHANGED <<schema, applied, run, exit, downs>>
        /\ \A p \in Migrator : Under(p)' <=> Under(p)
        /\ \A p \in Migrator, dir \in {"up", "down"} : Open(p, dir)' <=> Open(p, dir)
        /\ \A p \in Migrator : MadeBy(p)' = MadeBy(p)
    BY <1>1 DEF vars, Under, Open, MadeBy
  <2> QED
    BY <2>1 DEF IInv, TypeOK, Shape, Whole, Ordered, InTurn, Top, Exclusive
<1>2. ASSUME NEW p \in Migrator,
             Migrate(p) \/ Go(p) \/ Down(p) \/ Drop(p) \/ CommitDown(p) \/ Fail(p)
      PROVE  IInv'
  <2>1. CASE Migrate(p) BY <2>1, MigrateKeeps
  <2>2. CASE NextMigration(p) BY <2>2, NextKeeps
  <2>3. CASE Create(p) BY <2>3, CreateKeeps
  <2>4. CASE AlreadyExists(p) BY <2>4, EndKeeps DEF AlreadyExists
  <2>5. CASE CommitUp(p) BY <2>5, CommitUpKeeps
  <2>6. CASE UpToDate(p) BY <2>6, EndKeeps DEF UpToDate
  <2>7. CASE Down(p) BY <2>7, DownKeeps
  <2>8. CASE Drop(p) BY <2>8, DropKeeps
  <2>9. CASE CommitDown(p) BY <2>9, CommitDownKeeps
  <2>10. CASE Fail(p) BY <2>10, EndKeeps DEF Fail
  <2> QED
    BY <1>2, <2>1, <2>2, <2>3, <2>4, <2>5, <2>6, <2>7, <2>8, <2>9, <2>10 DEF Go
<1> QED
  BY <1>1, <1>2 DEF Next

LEMMA Safe == Spec => []IInv
BY Initially, Inductive, PTL DEF Spec

-----------------------------------------------------------------------------
(* The theorems                                                            *)

\* Types; in particular no version row is ever written twice (CommitUp).
THEOREM TypeCorrect == Spec => []TypeOK
BY Safe, PTL DEF IInv

\* The version table tells what the schema is, however many runs of whatever age race and
\* wherever they die (Migrate; each migration and its version row in one transaction).
THEOREM VersionsAreTrue == Spec => []VersionsTellSchema
<1>1. ASSUME IInv PROVE VersionsTellSchema
  <2>1. \A v \in Versions : applied[v] \in {0, 1}
    BY <1>1 DEF IInv, TypeOK
  <2>2. schema = UNION {Objects(v) : v \in {w \in Versions : applied[w] > 0}}
    <3>1. \A v \in Versions : applied[v] > 0 <=> applied[v] = 1
      BY <2>1
    <3>2. \A x : x \in schema <=> \E v \in Versions : applied[v] = 1 /\ x \in Objects(v)
      BY <1>1 DEF IInv, Whole, AllObjects
    <3> QED
      BY <3>1, <3>2
  <2>3. \A v \in Versions : applied[v] > 0 => \A w \in 1..v : applied[w] = 1
    BY <1>1, <2>1 DEF IInv, Ordered, Versions
  <2> QED
    BY <2>2, <2>3 DEF VersionsTellSchema
<1> QED BY Safe, <1>1, PTL

\* A run that reports success leaves everything its binary embeds applied ("It is safe to
\* run repeatedly", migrate.go), whoever did it.
THEOREM SuccessMeansComplete == Spec => SuccessIsComplete
<1> DEFINE Complete(p) == Between(p, "up") /\ exit'[p] = 0 => \A v \in 1..Embedded[p] : applied'[v] = 1
<1>1. ASSUME IInv, [Next]_vars, NEW p \in Migrator, Between(p, "up"), exit'[p] = 0
      PROVE  \A v \in 1..Embedded[p] : applied'[v] = 1
  <2>1. Under(p) /\ run[p].version = 0 /\ run[p].dir = "up" /\ exit[p] = -1
    BY <1>1 DEF Between, IInv, Shape
  <2>2. exit \in [Migrator -> {-1, 0, 1}]
    BY <1>1 DEF IInv, TypeOK
  <2>3. CASE UpToDate(p)
    <3>1. Current >= Embedded[p] /\ applied' = applied
      BY <2>3 DEF UpToDate
    <3> QED
      BY <1>1, <3>1, CurrentIs, RunAssumption DEF IInv, Versions
  <2>4. CASE \E q \in Migrator \ {p} :
          Migrate(q) \/ Go(q) \/ Down(q) \/ Drop(q) \/ CommitDown(q) \/ Fail(q)
    <3>1. exit'[p] = exit[p]
      BY <2>4, <2>2 DEF Migrate, Go, Down, Drop, CommitDown, Fail, NextMigration, Create,
                        AlreadyExists, CommitUp, UpToDate, Begin, End
    <3> QED
      BY <3>1, <2>1, <1>1
  <2>5. CASE Migrate(p) \/ Down(p)
    BY <2>5, <2>1 DEF Migrate, Down
  <2>6. CASE NextMigration(p) \/ Create(p) \/ CommitUp(p) \/ Drop(p) \/ UNCHANGED vars
    BY <2>6, <2>1, <1>1 DEF NextMigration, Create, CommitUp, Drop, vars
  <2>7. CASE AlreadyExists(p) \/ CommitDown(p)
    BY <2>7, <2>1 DEF AlreadyExists, CommitDown, Open
  <2>8. CASE Fail(p)
    BY <2>8, <2>2, <1>1 DEF Fail, End
  <2> QED
    BY <1>1, <2>3, <2>4, <2>5, <2>6, <2>7, <2>8 DEF Next, Go
<1>2. IInv /\ [Next]_vars => [\A p \in Migrator : Complete(p)]_vars
  BY <1>1
<1> QED
  BY Safe, <1>2, PTL DEF Spec, SuccessIsComplete

\* Migrations can be taken back in turn: no Down section drops what is referenced ("so it
\* is reversible", migrations_test.go).
THEOREM DownsGoThrough == Spec => []DownsAreInOrder
<1>1. ASSUME IInv, NEW p \in Migrator, Open(p, "down"), ~AtEnd(p), Referenced(p)
      PROVE  FALSE
  <2> DEFINE v == run[p].version
  <2> DEFINE n == run[p].next
  <2>1. v \in Versions /\ Statements(p) = Drops[v] /\ n \in 1..Length(v)
    BY <1>1, DroppedIs DEF IInv
  <2>2. PICK object \in schema \ Done(p) : Drops[v][n] \in References(object)
    BY <1>1, <2>1 DEF Referenced, Object
  <2>3. PICK w \in Versions : w <= v /\ object \in Objects(w)
    BY <1>1, <2>2 DEF IInv, Whole, Top, AllObjects
  <2>4. \A i \in 1..(n - 1) : object # Drops[v][i]
    BY <2>1, <2>2 DEF Done
  <2>5. PICK j \in 1..Length(w) : object = Creates[w][j]
    BY <2>3, Lengths DEF Objects
  <2> HIDE DEF v, n
  <2>6. v \in {1, 2, 3, 4} /\ w \in {1, 2, 3, 4} /\ n \in {1, 2, 3} /\ j \in {1, 2, 3}
    BY <2>1, <2>3, <2>5 DEF Versions, Length
  <2>7. object # Drops[v][1] \/ n = 1
    BY <2>4, <2>6
  <2>8. object # Drops[v][2] \/ n \in {1, 2}
    BY <2>4, <2>6
  <2> QED
    BY <2>1, <2>2, <2>3, <2>5, <2>6, <2>7, <2>8 DEF Length, Creates, Drops, References
<1>2. IInv => DownsAreInOrder
  BY <1>1 DEF DownsAreInOrder
<1> QED BY Safe, <1>2, PTL
-----------------------------------------------------------------------------
(* All the runs together are one SchemaVersion                             *)

Numbered == Current \in 0..4 /\ \A w \in Versions : applied[w] = 1 <=> w <= Current

LEMMA NumberedNow == IInv => Numbered
BY CurrentIs DEF IInv, Numbered

\* The step from one numbering to the next.
LEMMA Renumbered ==
    ASSUME NEW m \in 0..4, NEW n \in 0..4,
           \A w \in Versions : w <= m <=> w <= n
    PROVE  m = n
BY DEF Versions

LEMMA EndSeen ==
    ASSUME IInv, NEW p \in Migrator, Under(p), NEW result \in {1, -1}, End(p, result),
           UNCHANGED <<schema, applied, downs>>
    PROVE  Database!Fail(p) \/ UNCHANGED Database!vars
<1>1. exit[p] = -1 /\ exit \in [Migrator -> {-1, 0, 1}]
  BY DEF IInv, Shape, TypeOK
<1>2. Current' = Current
  BY DEF Current
<1>3. exit' = [exit EXCEPT ![p] = result]
  BY DEF End
<1>4. result = -1 => exit' = exit
  BY <1>1, <1>3
<1> QED
  BY <1>1, <1>2, <1>3, <1>4 DEF Database!Fail, Database!vars

LEMMA CommitUpSeen ==
    ASSUME IInv, IInv', NEW p \in Migrator, CommitUp(p), Numbered, Numbered'
    PROVE  Database!Up
<1> DEFINE v == run[p].version
<1>1. Open(p, "up") /\ Under(p) /\ AtEnd(p) /\ v \in Versions
  BY RunIs DEF CommitUp, Open, IInv
<1>2. Done(p) = Objects(v)
  BY <1>1, DoneIs DEF IInv
<1>3. schema' = schema \cup Objects(v) /\ exit' = exit
  BY <1>2 DEF CommitUp
<1>4. applied' = [applied EXCEPT ![v] = applied[v] + 1]
  BY DEF CommitUp
<1>5. \A w \in Versions : w < v => applied[w] = 1
  BY <1>1 DEF IInv, InTurn
<1> HIDE DEF v
<1>6. applied[v] \in {0, 1} /\ applied'[v] \in {0, 1} /\ applied'[v] = applied[v] + 1
  BY <1>1, <1>4 DEF IInv, TypeOK
<1>7. applied[v] = 0 /\ applied'[v] = 1
  BY <1>6
<1>8. \A w \in Versions : w # v => applied'[w] = applied[w]
  BY <1>4 DEF IInv, TypeOK
<1>9. Current + 1 = v
  <2>1. ~(v <= Current) /\ Current \in 0..4
    BY <1>1, <1>7 DEF Numbered
  <2>2. v = 1 \/ v - 1 <= Current
    BY <1>1, <1>5 DEF Numbered, Versions
  <2> QED
    BY <1>1, <2>1, <2>2 DEF Versions
<1>10. Current' = v
  <2>1. v <= Current' /\ Current' \in 0..4
    BY <1>1, <1>7 DEF Numbered
  <2>2. \A w \in Versions : w > v => ~(w <= Current')
    BY <1>1, <1>8, <1>9 DEF Numbered, Versions
  <2> QED
    BY <1>1, <2>1, <2>2 DEF Versions
<1> QED
  BY <1>1, <1>3, <1>9, <1>10 DEF Database!Up

LEMMA CommitDownSeen ==
    ASSUME IInv, IInv', NEW p \in Migrator, CommitDown(p), Numbered, Numbered'
    PROVE  Database!TakeBack(p)
<1> DEFINE v == run[p].version
<1>1. Open(p, "down") /\ Under(p) /\ AtEnd(p) /\ v \in Versions /\ exit[p] = -1
  BY RunIs DEF CommitDown, Open, IInv, Shape
<1>2. Done(p) = Objects(v)
  BY <1>1, DroppedIs DEF IInv
<1>3. schema' = schema \ Objects(v) /\ exit' = [exit EXCEPT ![p] = 0]
  BY <1>2 DEF CommitDown, End
<1>4. applied' = [applied EXCEPT ![v] = 0]
  BY DEF CommitDown
<1>5. \A w \in Versions : applied[w] = 1 <=> w <= v
  BY <1>1 DEF IInv, Top
<1> HIDE DEF v
<1>6. \A w \in Versions : applied'[w] = IF w = v THEN 0 ELSE applied[w]
  BY <1>1, <1>4 DEF IInv, TypeOK
<1>7. Current = v
  BY <1>1, <1>5, Renumbered DEF Numbered, Versions
<1>8. \A w \in Versions : applied'[w] = 1 <=> w <= v - 1
  BY <1>1, <1>5, <1>6 DEF Versions
<1>9. Current' = v - 1
  <2>1. Current' \in 0..4 /\ v - 1 \in 0..4
    BY <1>1 DEF Numbered, Versions
  <2>2. \A w \in Versions : w <= Current' <=> w <= v - 1
    BY <1>8 DEF Numbered
  <2> QED
    BY <2>1, <2>2, Renumbered
<1> QED
  BY <1>1, <1>3, <1>7, <1>9 DEF Database!TakeBack, Versions

\* Any number of runs of any age, racing and dying, are seen from outside as one database
\* that moves by a whole version at a time and runs that report what is so (migrate.go).
THEOREM Refinement == Spec => ImplementsSchemaVersion
<1>1. Init => Database!Init
  <2> SUFFICES ASSUME Init PROVE Database!Init
    OBVIOUS
  <2>1. Numbered /\ \A w \in Versions : applied[w] # 1
    BY Initially, NumberedNow DEF Init
  <2>2. Current = 0
    BY <2>1 DEF Numbered, Versions
  <2> QED
    BY <2>2 DEF Init, Database!Init
<1>2. IInv /\ IInv' /\ [Next]_vars => [Database!Next]_(Database!vars)
  <2>0. IInv' => Numbered'
    BY NumberedNow, PTL
  <2> SUFFICES ASSUME IInv, IInv', [Next]_vars
               PROVE  Database!Next \/ UNCHANGED Database!vars
    OBVIOUS
  <2>1. Numbered /\ Numbered'
    BY <2>0, NumberedNow
  <2>2. applied' = applied => Current' = Current
    BY DEF Current
  <2>3. ASSUME NEW p \in Migrator, Migrate(p) \/ Down(p) PROVE Database!Next
    <3>1. exit' = [exit EXCEPT ![p] = -1] /\ UNCHANGED <<schema, applied>>
      BY <2>3 DEF Migrate, Down, Begin
    <3> QED
      BY <2>2, <3>1 DEF Database!Next, Database!Start
  <2>4. ASSUME NEW p \in Migrator, NextMigration(p) \/ Create(p) \/ Drop(p)
        PROVE  UNCHANGED Database!vars
    BY <2>2, <2>4 DEF NextMigration, Create, Drop, Database!vars
  <2>5. ASSUME NEW p \in Migrator, AlreadyExists(p) \/ Fail(p)
        PROVE  Database!Next \/ UNCHANGED Database!vars
    <3>1. Under(p) /\ UNCHANGED <<schema, applied, downs>> /\ (End(p, 1) \/ End(p, -1))
      BY <2>5 DEF AlreadyExists, Fail, Open
    <3> QED
      BY <3>1, EndSeen DEF Database!Next
  <2>6. ASSUME NEW p \in Migrator, UpToDate(p) PROVE Database!Next
    <3>1. exit' = [exit EXCEPT ![p] = 0] /\ UNCHANGED <<schema, applied>>
          /\ Current >= Embedded[p]
      BY <2>6 DEF UpToDate, End
    <3>2. exit[p] = -1
      BY <2>6 DEF UpToDate, Between, IInv, Shape
    <3> QED
      BY <2>2, <3>1, <3>2 DEF Database!Next, Database!Succeed
  <2>7. ASSUME NEW p \in Migrator, CommitUp(p) PROVE Database!Next
    BY <2>1, <2>7, CommitUpSeen DEF Database!Next
  <2>8. ASSUME NEW p \in Migrator, CommitDown(p) PROVE Database!Next
    BY <2>1, <2>8, CommitDownSeen DEF Database!Next
  <2>9. UNCHANGED vars => UNCHANGED Database!vars
    BY <2>2 DEF vars, Database!vars
  <2> QED
    BY <2>3, <2>4, <2>5, <2>6, <2>7, <2>8, <2>9 DEF Next, Go
<1> QED
  BY <1>1, <1>2, Safe, PTL DEF Spec, ImplementsSchemaVersion, Database!Spec

-----------------------------------------------------------------------------
(* The process around them: Startup, for every command and environment     *)

\* Who is at work with what.  A configuration is what Load made of the environment, and
\* only one that it did not refuse; the pool is open for those who use it, and the accounts
\* are served over an open pool by a service that could be built.
Working == {"loaded", "opened", "ready", "serving"}
AtWork ==
    /\ stage = "loading" => cmd \in {"api", "migrate"}
    /\ stage \in Working =>
         /\ cmd \in {"api", "migrate"}
         /\ cfg = Loaded /\ DefaultsAllowed
    /\ stage \in {"ready", "serving"} => cmd = "api"
OpenInTurn ==
    /\ stage = "opened" => pool = "open"
    /\ pool = "open" => stage \in {"opened", "ready", "serving"}
    /\ routes # "none" => stage \in {"ready", "serving"}
    /\ routes = "auth" => pool = "open" /\ ServiceBuilds

ProcessInv == ProcessTypeOK /\ AtWork /\ OpenInTurn /\ EndsInOrder

LEMMA LoadedIsConfig == ProcessTypeOK => Loaded \in Config
<1> SUFFICES ASSUME ProcessTypeOK PROVE Loaded \in Config
  OBVIOUS
<1>1. env \in Environment
  BY DEF ProcessTypeOK
<1>2. \A s \in Secrets :
        getenv(env.secret[s], "dev") \in SecretValues \ {"unset"}
  BY <1>1 DEF Environment, SecretValues, getenv
<1>3. getenv(env.panel, "dev") \in PanelValues \ {"unset"}
  BY <1>1 DEF Environment, PanelValues, getenv
<1>4. env.dsn \in DSNValues
  BY <1>1 DEF Environment
<1> QED
  BY <1>2, <1>3, <1>4 DEF Loaded, Config

\* What a command has opened is closed when it returns.
LEMMA ReturnKeeps ==
    ASSUME ProcessInv, NEW result \in {0, 1}, Return(result),
           result = 0 /\ cmd \in {"api", "scheduler", "worker"} => stop,
           UNCHANGED <<cmd, env, cfg, stop>>
    PROVE  ProcessInv'
<1>1. /\ stage' = "exited" /\ status' = result /\ routes' = "none"
      /\ pool' \in {"none", "closed"}
  BY DEF ProcessInv, ProcessTypeOK, Return
<1>2. ProcessTypeOK'
  BY <1>1 DEF ProcessInv, ProcessTypeOK, Stage
<1>3. AtWork' /\ OpenInTurn' /\ EndsInOrder'
  BY <1>1 DEF AtWork, Working, OpenInTurn, EndsInOrder
<1> QED
  BY <1>2, <1>3 DEF ProcessInv

LEMMA ProcessInitInv == ProcessInit => ProcessInv
BY DEF ProcessInit, ProcessInv, ProcessTypeOK, Stage, AtWork, Working, OpenInTurn,
       EndsInOrder

LEMMA RunKeeps == ProcessInv /\ Run => ProcessInv'
<1> SUFFICES ASSUME ProcessInv, Run PROVE ProcessInv'
  OBVIOUS
<1>1. CASE cmd \in {"version", "help", "none"} /\ Return(0)
  BY <1>1, ReturnKeeps DEF Run
<1>2. CASE cmd = "unknown" /\ Return(1)
  BY <1>2, ReturnKeeps DEF Run
<1>3. CASE /\ \/ cmd \in {"api", "migrate"} /\ stage' = "loading"
              \/ cmd \in {"scheduler", "worker"} /\ stage' = "waiting"
           /\ UNCHANGED <<pool, routes, status>>
  <2>1. stage = "start" /\ UNCHANGED <<cmd, env, cfg, stop, pool, routes, status>>
    BY <1>3 DEF Run
  <2>2. ProcessTypeOK'
    BY <1>3, <2>1 DEF ProcessInv, ProcessTypeOK, Stage
  <2>3. AtWork' /\ OpenInTurn' /\ EndsInOrder'
    BY <1>3, <2>1 DEF ProcessInv, AtWork, Working, OpenInTurn, EndsInOrder
  <2> QED
    BY <2>2, <2>3 DEF ProcessInv
<1> QED
  BY <1>1, <1>2, <1>3 DEF Run

LEMMA LoadKeeps == ProcessInv /\ (Load \/ LoadFails) => ProcessInv'
<1>1. ASSUME ProcessInv, Load PROVE ProcessInv'
  <2>1. /\ stage = "loading" /\ stage' = "loaded" /\ cfg' = Loaded
        /\ DefaultsAllowed
        /\ UNCHANGED <<cmd, env, pool, routes, stop, status>>
    BY <1>1 DEF Load
  <2>2. ProcessTypeOK'
    BY <1>1, <2>1, LoadedIsConfig DEF ProcessInv, ProcessTypeOK, Stage
  <2>3. Loaded' = Loaded
    BY <2>1 DEF Loaded
  <2>4. DefaultsAllowed'
    BY <2>1, <2>3 DEF DefaultsAllowed, Development
  <2>5. AtWork'
    BY <1>1, <2>1, <2>3, <2>4 DEF ProcessInv, AtWork, Working
  <2>6. OpenInTurn' /\ EndsInOrder'
    BY <1>1, <2>1 DEF ProcessInv, OpenInTurn, EndsInOrder
  <2> QED
    BY <2>2, <2>5, <2>6 DEF ProcessInv
<1>2. ASSUME ProcessInv, LoadFails PROVE ProcessInv'
  BY <1>2, ReturnKeeps DEF LoadFails
<1> QED
  BY <1>1, <1>2

\* A step that moves on with what was loaded.
LEMMA GoesOn ==
    ASSUME ProcessInv, UNCHANGED <<cmd, env, cfg>>, stage \in Working
    PROVE  /\ cmd' \in {"api", "migrate"}
           /\ cfg' = Loaded' /\ DefaultsAllowed'
           /\ ServiceBuilds' <=> ServiceBuilds
<1>1. cmd \in {"api", "migrate"} /\ cfg = Loaded /\ DefaultsAllowed
  BY DEF ProcessInv, AtWork
<1>2. Loaded' = Loaded
  BY DEF Loaded
<1>3. DefaultsAllowed'
  BY <1>1, <1>2 DEF DefaultsAllowed, Development
<1>4. ServiceBuilds' <=> ServiceBuilds
  BY DEF ServiceBuilds
<1> QED
  BY <1>1, <1>2, <1>3, <1>4

LEMMA StoreKeeps ==
    ProcessInv /\ (NoStore \/ OpenFails \/ OpenStore) => ProcessInv'
<1>1. ASSUME ProcessInv, NoStore PROVE ProcessInv'
  <2>1. CASE cmd = "migrate" /\ Return(1)
    BY <1>1, <2>1, ReturnKeeps DEF NoStore
  <2>2. CASE cmd = "api" /\ stage' = "ready" /\ UNCHANGED <<pool, routes, status>>
    <3>1. stage = "loaded" /\ UNCHANGED <<cmd, env, cfg, stop>>
      BY <1>1 DEF NoStore
    <3>2. ProcessTypeOK'
      BY <1>1, <2>2, <3>1 DEF ProcessInv, ProcessTypeOK, Stage
    <3>3. AtWork'
      BY <1>1, <2>2, <3>1, GoesOn DEF AtWork, Working
    <3>4. OpenInTurn' /\ EndsInOrder'
      BY <1>1, <2>2, <3>1 DEF ProcessInv, OpenInTurn, EndsInOrder
    <3> QED
      BY <3>2, <3>3, <3>4 DEF ProcessInv
  <2> QED
    BY <1>1, <2>1, <2>2 DEF NoStore
<1>2. ASSUME ProcessInv, OpenFails PROVE ProcessInv'
  <2>1. /\ stage = "loaded" /\ stage' = "exited" /\ status' = 1 /\ pool' \in {"none", "closed"}
        /\ UNCHANGED <<cmd, env, cfg, routes, stop>>
    BY <1>2 DEF OpenFails
  <2>2. ProcessTypeOK'
    BY <1>2, <2>1 DEF ProcessInv, ProcessTypeOK, Stage
  <2>3. AtWork' /\ OpenInTurn' /\ EndsInOrder'
    BY <1>2, <2>1 DEF ProcessInv, AtWork, Working, OpenInTurn, EndsInOrder
  <2> QED
    BY <2>2, <2>3 DEF ProcessInv
<1>3. ASSUME ProcessInv, OpenStore PROVE ProcessInv'
  <2>1. /\ stage = "loaded" /\ stage' = "opened" /\ pool' = "open"
        /\ UNCHANGED <<cmd, env, cfg, routes, stop, status>>
    BY <1>3 DEF OpenStore
  <2>2. ProcessTypeOK'
    BY <1>3, <2>1 DEF ProcessInv, ProcessTypeOK, Stage
  <2>3. AtWork'
    BY <1>3, <2>1, GoesOn DEF AtWork, Working
  <2>4. OpenInTurn' /\ EndsInOrder'
    BY <1>3, <2>1 DEF ProcessInv, OpenInTurn, EndsInOrder
  <2> QED
    BY <2>2, <2>3, <2>4 DEF ProcessInv
<1> QED
  BY <1>1, <1>2, <1>3

LEMMA ServiceKeeps ==
    ProcessInv /\ (NewService \/ NewServiceFails \/ Listen) => ProcessInv'
<1>1. ASSUME ProcessInv, NewService PROVE ProcessInv'
  <2>1. /\ stage = "opened" /\ cmd = "api" /\ stage' = "ready" /\ routes' = "auth"
        /\ ServiceBuilds
        /\ UNCHANGED <<cmd, env, cfg, pool, stop, status>>
    BY <1>1 DEF NewService
  <2>2. ProcessTypeOK'
    BY <1>1, <2>1 DEF ProcessInv, ProcessTypeOK, Stage
  <2>3. AtWork' /\ ServiceBuilds'
    BY <1>1, <2>1, GoesOn DEF AtWork, Working
  <2>4. OpenInTurn' /\ EndsInOrder'
    BY <1>1, <2>1, <2>3 DEF ProcessInv, OpenInTurn, EndsInOrder
  <2> QED
    BY <2>2, <2>3, <2>4 DEF ProcessInv
<1>2. ASSUME ProcessInv, NewServiceFails PROVE ProcessInv'
  BY <1>2, ReturnKeeps DEF NewServiceFails
<1>3. ASSUME ProcessInv, Listen PROVE ProcessInv'
  <2>1. /\ stage = "ready" /\ stage' = "serving" /\ routes' \in {"health", "auth"}
        /\ routes' = "auth" => routes = "auth"
        /\ UNCHANGED <<cmd, env, cfg, pool, stop, status>>
    BY <1>3 DEF Listen
  <2>2. cmd = "api"
    BY <1>3, <2>1 DEF ProcessInv, AtWork
  <2>3. ProcessTypeOK'
    BY <1>3, <2>1 DEF ProcessInv, ProcessTypeOK, Stage
  <2>4. AtWork' /\ (ServiceBuilds' <=> ServiceBuilds)
    BY <1>3, <2>1, <2>2, GoesOn DEF AtWork, Working
  <2>5. OpenInTurn' /\ EndsInOrder'
    BY <1>3, <2>1, <2>4 DEF ProcessInv, OpenInTurn, EndsInOrder
  <2> QED
    BY <2>3, <2>4, <2>5 DEF ProcessInv
<1> QED
  BY <1>1, <1>2, <1>3

LEMMA WorkKeeps ==
    ProcessInv /\ (\/ ServeStops \/ ListenerFails
                   \/ runMigrate \/ runPlaceholder) => ProcessInv'
<1>1. ASSUME ProcessInv, ServeStops PROVE ProcessInv'
  BY <1>1, ReturnKeeps DEF ServeStops
<1>2. ASSUME ProcessInv, ListenerFails PROVE ProcessInv'
  BY <1>2, ReturnKeeps DEF ListenerFails
<1>3. ASSUME ProcessInv, runMigrate PROVE ProcessInv'
  BY <1>3, ReturnKeeps DEF runMigrate
<1>4. ASSUME ProcessInv, runPlaceholder PROVE ProcessInv'
  BY <1>4, ReturnKeeps DEF runPlaceholder
<1> QED
  BY <1>1, <1>2, <1>3, <1>4

LEMMA SignalKeeps == ProcessInv /\ (Signal \/ UNCHANGED processVars) => ProcessInv'
<1> SUFFICES ASSUME ProcessInv, Signal \/ UNCHANGED processVars PROVE ProcessInv'
  OBVIOUS
<1>1. /\ UNCHANGED <<cmd, env, stage, cfg, pool, routes, status>>
      /\ stop' = stop \/ stop' = TRUE
  BY DEF Signal, processVars
<1>2. ProcessTypeOK'
  BY <1>1 DEF ProcessInv, ProcessTypeOK
<1>3. stage \in Working => AtWork' /\ (ServiceBuilds' <=> ServiceBuilds)
  BY <1>1, GoesOn DEF ProcessInv, AtWork
<1>4. AtWork'
  BY <1>1, <1>3 DEF ProcessInv, AtWork
<1>5. OpenInTurn'
  BY <1>1, <1>3 DEF ProcessInv, OpenInTurn, Working
<1>6. EndsInOrder'
  BY <1>1 DEF ProcessInv, EndsInOrder
<1> QED
  BY <1>2, <1>4, <1>5, <1>6 DEF ProcessInv

LEMMA ProcessSafe == ProcessSpec => []ProcessInv
<1>1. ProcessInv /\ [ProcessNext]_(processVars) => ProcessInv'
  BY RunKeeps, LoadKeeps, StoreKeeps, ServiceKeeps, WorkKeeps, SignalKeeps
     DEF ProcessNext, Step
<1> QED
  BY ProcessInitInv, <1>1, PTL DEF ProcessSpec

\* Whatever step of a start fails and whenever the signal comes, a process that has ended
\* has left nothing open, and none that waits to be told to stop reports success untold
\* (OpenStore, the deferred Close of runAPI and runMigrate, Run, Serve).
THEOREM ProcessEndsInOrder == ProcessSpec => []EndsInOrder
<1>1. ProcessInv => EndsInOrder
  BY DEF ProcessInv
<1> QED BY ProcessSafe, <1>1, PTL

\* In every environment, what serves accounts outside development does so on the secrets
\* and the URL of the operator, over an open store (Load, NewService).
THEOREM ProcessServesOnOwnSecrets == ProcessSpec => []ServesOnOwnSecrets
<1>1. ASSUME ProcessInv, routes = "auth"
      PROVE  /\ pool = "open" /\ ServiceBuilds
             /\ cfg = Loaded /\ DefaultsAllowed
             /\ env \in Environment
  BY <1>1 DEF ProcessInv, AtWork, Working, OpenInTurn, ProcessTypeOK
<1>2. ASSUME ProcessInv, routes = "auth", env.app = "production"
      PROVE  /\ \A s \in Secrets : env.secret[s] \in {"own", "blank"}
             /\ env.panel = "own"
  <2>1. /\ \A s \in Secrets : getenv(env.secret[s], "dev") # "dev"
        /\ getenv(env.panel, "dev") # "dev"
    BY <1>1, <1>2 DEF DefaultsAllowed, Development, Loaded, getenv
  <2>2. \A s \in Secrets : env.secret[s] \in {"own", "blank"}
    BY <1>1, <1>2, <2>1 DEF getenv, Environment, SecretValues
  <2>3. getenv(env.panel, "dev") # "relative"
    BY <1>1, <1>2 DEF ServiceBuilds, Loaded
  <2>4. env.panel = "own"
    BY <1>1, <1>2, <2>1, <2>3 DEF getenv, Environment, PanelValues
  <2> QED
    BY <2>2, <2>4
<1>3. ProcessInv => ServesOnOwnSecrets
  BY <1>1, <1>2 DEF ServesOnOwnSecrets, ServiceBuilds
<1> QED BY ProcessSafe, <1>3, PTL

\* The types of one process, from its command line to its end (Run).
THEOREM ProcessTypeCorrect == ProcessSpec => []ProcessTypeOK
<1>1. ProcessInv => ProcessTypeOK
  BY DEF ProcessInv
<1> QED BY ProcessSafe, <1>1, PTL
==============================================================================
