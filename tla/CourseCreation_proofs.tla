------------------------ MODULE CourseCreation_proofs ------------------------
(***************************************************************************)
(* Proofs about CourseCreation: that a course a client was told is done is *)
(* whole, that the plan a session would load is the newest one, that a job *)
(* makes one course and that the gauge never says too little; for plans of *)
(* any length, any jobs and handlers and all bounds.  At the end, proofs   *)
(* about the building of the plan itself, CurriculumPlan.                  *)
(***************************************************************************)
EXTENDS CourseCreation, FiniteSetTheorems, SequenceTheorems, WellFoundedInduction, TLAPS

From == Job \union {"list", "post", "stream", "regenerate"}

Status == {"absent", "active", "inactive", "deleted"}

Place == {"idle", "open", "student", "build", "deactivate", "insert", "ensure",
          "course", "module", "read", "master", "roadmap", "report"}

Work == [from : From, queue : SUBSET Plan, plan : Plan \union {0}, next : 1..K,
         seen : 0..K]

TypeInv ==
    /\ jobs \in [Job -> {"yet", "there", "gone"}]
    /\ gauge \in Int
    /\ curricula \in [Plan -> [status : Status, by : From]]
    /\ modules \in [Plan -> 0..K] /\ roadmap \in [Plan -> SUBSET (0..K)]
    /\ rows \subseteq Stored /\ masters \subseteq rows
    /\ pc \in [Handler -> Place] /\ work \in [Handler -> Work]
    /\ done \subseteq Plan
    /\ limit \in Nat /\ torn \in BOOLEAN
    /\ begun \in 0..MaxRequests /\ faults \in Nat

\* A request has a course of its own from the plan on, or from its beginning if
\* it builds a roadmap again.
ShapeOK(h) ==
    /\ pc[h] \in Planning \union {"open", "student"} => work[h].plan = 0
    /\ pc[h] \in {"master", "roadmap", "report"} => work[h].plan # 0
    /\ pc[h] # "idle" /\ work[h].from = "regenerate" =>
          work[h].plan # 0 /\ pc[h] \in {"roadmap", "report"}
    /\ pc[h] # "idle" /\ work[h].plan # 0 => work[h].plan \in Planned

Shapes == \A h \in Handler : ShapeOK(h)

\* The requests that may still make a plan, or end without one.
Ahead == {h \in Handler : pc[h] # "idle" /\ work[h].plan = 0}

\* Plans are numbered as they are stored, and there is a number for each.
Numbered ==
    /\ IsFiniteSet(InFlight) /\ Cardinality(InFlight) <= limit
    /\ IsFiniteSet(Planned) /\ Planned = 1..Cardinality(Planned)
    /\ Cardinality(Planned) + Cardinality(Ahead) <= begun

BaseInv == TypeInv /\ Shapes /\ Numbered

\* Somebody may still read the course.
Alive(p) == curricula[p].status # "deleted"

\* How far a creation has brought the course it made the plan of.
MadeOK(h) ==
    LET w == work[h] IN
    pc[h] # "idle" /\ w.plan # 0 /\ w.from # "regenerate" /\ Alive(w.plan) =>
        /\ pc[h] = "course" => w.next = 1
        /\ pc[h] # "course" => w.plan \in rows
        /\ pc[h] = "module" => modules[w.plan] >= w.next - 1
        /\ pc[h] \notin {"course", "module"} => modules[w.plan] = K
        /\ pc[h] = "report" => roadmap[w.plan] # {}

Whole(p) == Alive(p) => p \in rows /\ modules[p] = K /\ roadmap[p] # {}

WholeInv ==
    /\ BaseInv
    /\ \A h \in Handler : MadeOK(h)
    /\ \A p \in done : Whole(p) /\ p \in Planned

\* With one request at a time a roadmap is built from all of the modules.
ShownOK(h) ==
    LET w == work[h] IN
    w.plan # 0 /\ Alive(w.plan) =>
        /\ pc[h] = "roadmap" /\ (w.from # "regenerate" \/ w.plan \in done) => w.seen = K
        /\ pc[h] = "report" /\ w.from # "regenerate" => roadmap[w.plan] = {K}

ShownInv ==
    /\ WholeInv
    /\ limit = 1 =>
        /\ \A h \in Handler : ShownOK(h)
        /\ \A p \in done : Alive(p) => roadmap[p] = {K}

\* Nobody is between deactivating the plans and storing one, nor ended there.
Steady == ~torn /\ ~\E h \in Handler : Tears(h)

NewestInv ==
    /\ BaseInv
    /\ Steady => \A p \in Planned : p = Cardinality(Planned) =>
                    curricula[p].status \in {"active", "deleted"}

\* With one request at a time no plan is active while one is about to be stored.
OneActiveInv ==
    /\ BaseInv
    /\ limit = 1 =>
        /\ \A p, q \in Plan : curricula[p].status = "active" /\ curricula[q].status = "active"
                                => p = q
        /\ \A h \in Handler, p \in Plan : pc[h] = "insert" => curricula[p].status # "active"

\* A job has its plan from its one handler that has it, or is over.
Spent(j) ==
    jobs[j] = "gone" \/ \E h \in Handler : work[h].from = j /\ pc[h] # "idle" /\ work[h].plan # 0

OnceInv ==
    /\ BaseInv
    /\ limit = 1 =>
        /\ \A h \in Handler : pc[h] # "idle" /\ work[h].from \in Job => jobs[work[h].from] = "there"
        /\ \A p \in Planned : curricula[p].by \in Job => Spent(curricula[p].by)
        /\ \A p, q \in Planned : curricula[p].by = curricula[q].by /\ curricula[p].by \in Job
                                    => p = q

\* The handlers the gauge counts; it may count more, of creations that were cut.
Counted == {h \in Handler : pc[h] \in Planning}

GaugeInv == BaseInv /\ gauge >= Cardinality(Counted)

-----------------------------------------------------------------------------
(* Types, the shape of a request and the numbers of plans. *)

LEMMA AddOne ==
    ASSUME NEW S, IsFiniteSet(S), NEW x
    PROVE  /\ IsFiniteSet(S \union {x}) /\ Cardinality(S \union {x}) \in Nat
           /\ Cardinality(S) \in Nat
           /\ Cardinality(S \union {x}) <= Cardinality(S) + 1
<1>1. Cardinality(S) \in Nat
  BY FS_CardinalityType
<1>2. IsFiniteSet(S \union {x})
  BY FS_AddElement
<1>3. Cardinality(S \union {x}) = IF x \in S THEN Cardinality(S) ELSE Cardinality(S) + 1
  BY FS_AddElement
<1> QED BY <1>1, <1>2, <1>3

LEMMA MaxOfTwo ==
    ASSUME NEW a \in Int, NEW b \in Int
    PROVE  Max({a, b}) \in {a, b} /\ Max({a, b}) >= a /\ Max({a, b}) >= b
<1>1. CASE a >= b
  <2>1. a \in {a, b} /\ \A y \in {a, b} : a >= y
    BY <1>1
  <2> QED BY <2>1 DEF Max
<1>2. CASE b >= a
  <2>1. b \in {a, b} /\ \A y \in {a, b} : b >= y
    BY <1>2
  <2> QED BY <2>1 DEF Max
<1> QED BY <1>1, <1>2

\* A request that goes on or ends leaves the others alone.
Turn(h) ==
    /\ pc[h] # "idle"
    /\ pc' = [pc EXCEPT ![h] = pc'[h]]
    /\ work' = [work EXCEPT ![h] = work'[h]]

Moves(h) ==
    /\ Turn(h)
    /\ pc'[h] \in Place /\ work'[h] \in Work
    /\ ShapeOK(h)'
    /\ work[h].plan # 0 => work'[h].plan # 0 \/ pc'[h] = "idle"

LEMMA AheadBounded ==
    ASSUME BaseInv
    PROVE  /\ IsFiniteSet(Ahead) /\ Cardinality(Ahead) \in Nat
           /\ Cardinality(Planned) \in Nat /\ IsFiniteSet(InFlight)
           /\ Cardinality(InFlight) \in Nat
<1>1. Ahead \subseteq InFlight
  BY DEF Ahead, InFlight
<1> QED BY <1>1, FS_Subset, FS_CardinalityType DEF BaseInv, Numbered

\* Only fewer requests in flight, of which none goes back to before its plan.
LEMMA FewerKeep ==
    ASSUME BaseInv, InFlight' \subseteq InFlight, Ahead' \subseteq Ahead, Planned' = Planned,
           UNCHANGED <<limit, begun>>
    PROVE  Numbered'
<1>1. /\ IsFiniteSet(InFlight') /\ Cardinality(InFlight') <= Cardinality(InFlight)
      /\ Cardinality(InFlight') \in Nat /\ Cardinality(Ahead') <= Cardinality(Ahead)
      /\ Cardinality(Ahead') \in Nat
  BY AheadBounded, FS_Subset, FS_CardinalityType
<1> QED BY <1>1, AheadBounded DEF BaseInv, TypeInv, Numbered

LEMMA TurnKeeps ==
    ASSUME BaseInv, NEW h \in Handler, Moves(h), UNCHANGED <<limit, begun>>, Planned' = Planned
    PROVE  /\ pc' \in [Handler -> Place] /\ work' \in [Handler -> Work]
           /\ Shapes' /\ Numbered'
<1> pc \in [Handler -> Place] /\ work \in [Handler -> Work]
  BY DEF BaseInv, TypeInv
<1>1. InFlight' \subseteq InFlight /\ Ahead' \subseteq Ahead
  BY DEF Moves, Turn, InFlight, Ahead
<1>2. Numbered'
  BY <1>1, FewerKeep
<1>3. ASSUME NEW g \in Handler
      PROVE  ShapeOK(g)'
  <2>1. CASE g = h
    BY <2>1 DEF Moves
  <2>2. CASE g # h
    <3>1. pc'[g] = pc[g] /\ work'[g] = work[g]
      BY <2>2 DEF Moves, Turn
    <3> QED BY <3>1 DEF BaseInv, Shapes, ShapeOK
  <2> QED BY <2>1, <2>2
<1> QED BY <1>2, <1>3 DEF Moves, Turn, Shapes

LEMMA Bounds == K \in Nat \ {0} /\ MaxRequests \in Nat /\ Limits \subseteq Nat
BY ModuleAssumption, BoundAssumption

LEMMA MaxOfModules ==
    ASSUME NEW a \in 0..K, NEW b \in 0..K
    PROVE  Max({a, b}) \in 0..K /\ Max({a, b}) >= a /\ Max({a, b}) >= b
<1>1. a \in Int /\ b \in Int
  BY Bounds
<1>2. Max({a, b}) \in {a, b} /\ Max({a, b}) >= a /\ Max({a, b}) >= b
  BY <1>1, MaxOfTwo
<1> QED BY <1>2

LEMMA FirstModule == 1 \in 1..K
BY Bounds

LEMMA IdleTyped == Idle \in Work
BY Bounds DEF Idle, Work, From

LEMMA InitBase == Init => BaseInv
<1> SUFFICES ASSUME Init PROVE BaseInv
  OBVIOUS
<1>1. Planned = {} /\ InFlight = {} /\ Ahead = {} /\ Stored = {}
  BY DEF Init, NoPlan, Planned, InFlight, Ahead, Stored
<1>2. TypeInv
  <2>1. /\ curricula \in [Plan -> [status : Status, by : From]]
        /\ modules \in [Plan -> 0..K] /\ roadmap \in [Plan -> SUBSET (0..K)]
    BY Bounds DEF Init, NoPlan, Status, From
  <2>2. /\ jobs \in [Job -> {"yet", "there", "gone"}] /\ gauge \in Int
        /\ pc \in [Handler -> Place] /\ work \in [Handler -> Work]
    BY IdleTyped DEF Init, Place
  <2>3. limit \in Nat /\ torn \in BOOLEAN
    BY Bounds DEF Init
  <2>4. begun \in 0..MaxRequests /\ faults \in Nat
    BY Bounds DEF Init
  <2> QED BY <1>1, <2>1, <2>2, <2>3, <2>4 DEF Init, TypeInv
<1>3. Shapes
  BY DEF Init, Shapes, ShapeOK, Idle
<1>4. Cardinality({}) = 0 /\ IsFiniteSet({}) /\ 1..0 = {}
  BY FS_EmptySet
<1>5. Numbered
  BY <1>1, <1>2, <1>4 DEF Numbered, TypeInv, Init
<1> QED BY <1>2, <1>3, <1>5 DEF BaseInv

\* What is planned and stored depends on the plans alone.
LEMMA SamePlans ==
    ASSUME UNCHANGED curricula
    PROVE  Planned' = Planned /\ Stored' = Stored
BY DEF Planned, Stored

LEMMA BeginKeeps ==
    ASSUME BaseInv, NEW h \in Handler, NEW to \in Place \ {"idle"}, NEW w \in Work,
           Begin(h, to, w), ShapeOK(h)'
    PROVE  BaseInv'
<1> pc \in [Handler -> Place] /\ work \in [Handler -> Work] /\ begun \in 0..MaxRequests
    /\ limit \in Nat
  BY DEF BaseInv, TypeInv
<1>1. /\ Planned' = Planned /\ Stored' = Stored
      /\ UNCHANGED <<jobs, gauge, curricula, modules, rows, roadmap, masters, done, limit,
                     torn, faults>>
  BY SamePlans DEF Begin, memory, tables
<1>2. /\ InFlight' \subseteq InFlight \union {h}
      /\ Ahead' \subseteq Ahead \union {h}
  BY DEF Begin, Goto, InFlight, Ahead
<1>3. /\ IsFiniteSet(InFlight \union {h})
      /\ Cardinality(InFlight \union {h}) <= Cardinality(InFlight) + 1
      /\ IsFiniteSet(Ahead \union {h})
      /\ Cardinality(Ahead \union {h}) <= Cardinality(Ahead) + 1
      /\ Cardinality(InFlight) \in Nat
  <2>1. IsFiniteSet(InFlight) /\ IsFiniteSet(Ahead)
        /\ Cardinality(InFlight) \in Nat /\ Cardinality(Ahead) \in Nat
    BY AheadBounded
  <2>2. IsFiniteSet(InFlight \union {h})
        /\ Cardinality(InFlight \union {h}) <= Cardinality(InFlight) + 1
    BY <2>1, AddOne
  <2>3. IsFiniteSet(Ahead \union {h})
        /\ Cardinality(Ahead \union {h}) <= Cardinality(Ahead) + 1
    BY <2>1, AddOne
  <2> QED BY <2>1, <2>2, <2>3
<1>4. /\ IsFiniteSet(InFlight') /\ Cardinality(InFlight') <= Cardinality(InFlight \union {h})
      /\ Cardinality(Ahead') <= Cardinality(Ahead \union {h})
      /\ Cardinality(InFlight') \in Nat /\ Cardinality(Ahead') \in Nat
      /\ Cardinality(InFlight \union {h}) \in Nat /\ Cardinality(Ahead \union {h}) \in Nat
  BY <1>2, <1>3, FS_Subset, FS_CardinalityType
<1>5. Cardinality(InFlight) < limit /\ begun + limit <= MaxRequests /\ begun' = begun + 1
  BY DEF Begin
<1>6. begun' \in 0..MaxRequests
  BY <1>3, <1>5, Bounds
<1>7. Numbered'
  BY <1>1, <1>3, <1>4, <1>5, AheadBounded DEF Numbered, BaseInv
<1>8. pc' \in [Handler -> Place] /\ work' \in [Handler -> Work]
  BY DEF Begin, Goto
<1>9. TypeInv'
  BY <1>1, <1>6, <1>8 DEF BaseInv, TypeInv
<1>10. Shapes'
  <2>1. ASSUME NEW g \in Handler, g # h
        PROVE  ShapeOK(g)'
    <3>1. pc'[g] = pc[g] /\ work'[g] = work[g]
      BY <2>1 DEF Begin, Goto
    <3> QED BY <1>1, <3>1 DEF BaseInv, Shapes, ShapeOK
  <2> QED BY <2>1 DEF Shapes
<1> QED BY <1>7, <1>9, <1>10 DEF BaseInv

LEMMA FinishMoves ==
    ASSUME BaseInv, NEW h \in Handler, pc[h] # "idle", NEW answer, Finish(h, answer),
           answer = "done" => work[h].plan # 0
    PROVE  /\ Moves(h)
           /\ jobs' \in [Job -> {"yet", "there", "gone"}] /\ done' \subseteq Plan
<1> pc \in [Handler -> Place] /\ work \in [Handler -> Work] /\ work[h] \in Work
  BY DEF BaseInv, TypeInv
<1>1. pc'[h] = "idle" /\ work'[h] = Idle /\ Turn(h)
  BY DEF Finish, Goto, Turn
<1>2. ShapeOK(h)'
  BY <1>1 DEF ShapeOK, Planning
<1>3. done' \subseteq Plan
  BY DEF Finish, BaseInv, TypeInv, Work
<1>4. jobs' \in [Job -> {"yet", "there", "gone"}]
  BY DEF Finish, BaseInv, TypeInv
<1> QED BY <1>1, <1>2, <1>3, <1>4, IdleTyped DEF Moves, Place

\* A failure ends a request or leaves it where it has no plan, or shows one.
LEMMA FailingMoves ==
    ASSUME BaseInv, NEW h \in Handler, pc[h] # "idle", Failing(h), UNCHANGED curricula
    PROVE  /\ Moves(h)
           /\ jobs' \in [Job -> {"yet", "there", "gone"}] /\ done' \subseteq Plan
<1> pc \in [Handler -> Place] /\ work \in [Handler -> Work] /\ work[h] \in Work
  BY DEF BaseInv, TypeInv
<1> ShapeOK(h) /\ Planned' = Planned
  BY SamePlans DEF BaseInv, Shapes
<1>1. CASE pc[h] = "master"
  <2>1. /\ pc'[h] = "roadmap" /\ work'[h] = [work[h] EXCEPT !.seen = modules[work[h].plan]]
        /\ Turn(h) /\ UNCHANGED <<jobs, done>>
    BY <1>1 DEF Failing, Goto, Turn
  <2>2. work[h].plan \in Plan
    BY <1>1 DEF ShapeOK, Work
  <2>3. PICK k \in 0..K : work'[h] = [work[h] EXCEPT !.seen = k]
    BY <2>1, <2>2 DEF BaseInv, TypeInv
  <2>4. work'[h] \in Work /\ work'[h].plan = work[h].plan /\ work'[h].from = work[h].from
    <3>1. work'[h].plan = work[h].plan /\ work'[h].from = work[h].from
      BY <2>3 DEF Work
    <3>2. work'[h] \in Work
      BY <2>3 DEF Work
    <3> QED BY <3>1, <3>2
  <2>5. ShapeOK(h)'
    BY <1>1, <2>1, <2>4 DEF ShapeOK, Planning
  <2> QED BY <1>1, <2>1, <2>2, <2>4, <2>5 DEF Moves, BaseInv, TypeInv, Place
<1>2. CASE pc[h] \in Planning \ {"ensure"}
  <2>1. /\ pc'[h] = "ensure" /\ work'[h] = work[h]
        /\ Turn(h) /\ UNCHANGED <<jobs, done>>
    BY <1>2 DEF Failing, Goto, Turn, Planning
  <2>2. ShapeOK(h)'
    BY <1>2, <2>1 DEF ShapeOK, Planning
  <2> QED BY <1>2, <2>1, <2>2 DEF Moves, BaseInv, TypeInv, Place
<1>3. CASE /\ pc[h] # "master" /\ pc[h] \notin Planning \ {"ensure"}
           /\ work[h].plan = 0 /\ work[h].queue # {} /\ work[h].from # "list"
  <2>1. /\ pc'[h] = "student" /\ work'[h] = [work[h] EXCEPT !.queue = {}, !.next = 1]
        /\ Turn(h) /\ UNCHANGED <<jobs, done>>
    BY <1>3 DEF Failing, Goto, Turn
  <2>2. work'[h] \in Work /\ work'[h].plan = work[h].plan /\ work'[h].from = work[h].from
    BY <2>1, FirstModule DEF Work
  <2>3. ShapeOK(h)'
    BY <1>3, <2>1, <2>2 DEF ShapeOK, Planning
  <2> QED BY <1>3, <2>1, <2>2, <2>3 DEF Moves, BaseInv, TypeInv, Place
<1>4. CASE /\ pc[h] # "master" /\ pc[h] \notin Planning \ {"ensure"}
           /\ ~(work[h].plan = 0 /\ work[h].queue # {} /\ work[h].from # "list")
  <2>1. Finish(h, "error")
    BY <1>4 DEF Failing
  <2> QED BY <2>1, FinishMoves
<1> QED BY <1>1, <1>2, <1>3, <1>4

\* What a step has to leave as it is for the rest to be kept by TurnKeeps.
LEMMA MovesKeepBase ==
    ASSUME BaseInv, NEW h \in Handler, Moves(h), UNCHANGED <<curricula, limit, begun>>,
           modules' \in [Plan -> 0..K], roadmap' \in [Plan -> SUBSET (0..K)],
           rows' \subseteq Stored, masters' \subseteq rows',
           jobs' \in [Job -> {"yet", "there", "gone"}], done' \subseteq Plan,
           gauge' \in Int, torn' \in BOOLEAN, faults' \in Nat
    PROVE  BaseInv'
<1>1. Planned' = Planned /\ Stored' = Stored
  BY SamePlans
<1>2. /\ pc' \in [Handler -> Place] /\ work' \in [Handler -> Work]
      /\ Shapes' /\ Numbered'
  BY <1>1, TurnKeeps
<1>3. TypeInv'
  BY <1>1, <1>2 DEF BaseInv, TypeInv
<1> QED BY <1>2, <1>3 DEF BaseInv

LEMMA PlanningKeepsBase ==
    ASSUME BaseInv, NEW h \in Handler,
           StartStream(h) \/ UpsertStudent(h) \/ BuildCurriculum(h) \/ EnsureStudent(h)
    PROVE  BaseInv'
<1> pc \in [Handler -> Place] /\ work \in [Handler -> Work] /\ work[h] \in Work
    /\ gauge \in Int /\ TypeInv /\ Stored \subseteq Plan /\ ShapeOK(h)
  BY DEF BaseInv, TypeInv, Shapes, Stored
<1>1. CASE StartStream(h)
  <2>1. /\ pc'[h] \in {"course", "idle", "student"}
        /\ work'[h] = [work[h] EXCEPT !.queue = Stored]
        /\ Turn(h) /\ pc[h] = "open" /\ Planned' = Planned
    BY <1>1, SamePlans DEF StartStream, Goto, Turn, AfterSync, tables
  <2>2. work'[h] \in Work /\ work'[h].plan = work[h].plan /\ work'[h].from = work[h].from
    BY <2>1 DEF Work
  <2>3. ShapeOK(h)'
    BY <2>1, <2>2 DEF ShapeOK, Planning
  <2>4. Moves(h)
    BY <2>1, <2>2, <2>3 DEF Moves, Place
  <2> QED BY <1>1, <2>4, MovesKeepBase DEF StartStream, memory, tables, bounds, TypeInv
<1>2. CASE UpsertStudent(h)
  <2>1. /\ pc'[h] = "build" /\ work'[h] = work[h] /\ gauge' \in Int
        /\ Turn(h) /\ pc[h] = "student" /\ Planned' = Planned
    BY <1>2, SamePlans DEF UpsertStudent, Goto, Turn, tables
  <2>2. ShapeOK(h)'
    BY <2>1 DEF ShapeOK, Planning
  <2>3. Moves(h)
    BY <2>1, <2>2 DEF Moves, Place
  <2> QED BY <1>2, <2>1, <2>3, MovesKeepBase DEF UpsertStudent, tables, bounds, TypeInv
<1>3. CASE BuildCurriculum(h)
  <2>1. /\ pc'[h] \in {"deactivate", "ensure"} /\ work'[h] = work[h]
        /\ Turn(h) /\ pc[h] = "build" /\ Planned' = Planned
    BY <1>3, SamePlans DEF BuildCurriculum, Goto, Turn, tables
  <2>2. ShapeOK(h)'
    BY <2>1 DEF ShapeOK, Planning
  <2>3. Moves(h)
    BY <2>1, <2>2 DEF Moves, Place
  <2> QED BY <1>3, <2>3, MovesKeepBase DEF BuildCurriculum, memory, tables, bounds, TypeInv
<1>4. CASE EnsureStudent(h)
  <2>1. pc[h] # "idle" /\ Finish(h, "error") /\ gauge' \in Int
    BY <1>4 DEF EnsureStudent
  <2> QED BY <1>4, <2>1, FinishMoves, MovesKeepBase DEF EnsureStudent, tables, bounds, TypeInv
<1> QED BY <1>1, <1>2, <1>3, <1>4

\* The plan that is stored has the next number, which there is.
LEMMA InsertStores ==
    ASSUME BaseInv, NEW h \in Handler, InsertCurriculum(h)
    PROVE  /\ pc[h] = "insert" /\ work[h].plan = 0 /\ h \in Ahead /\ pc'[h] = "course" /\ Turn(h)
           /\ UNCHANGED <<limit, begun, torn, faults, jobs, modules, rows, roadmap, masters, done>>
           /\ gauge' = gauge - 1
           /\ \E p \in Plan :
                /\ p = Cardinality(Planned) + 1 /\ p \notin Planned /\ p \in Nat \ {0}
                /\ Planned = 1..(p-1)
                /\ work'[h] \in Work /\ work'[h].plan = p /\ work'[h].from = work[h].from
                /\ \A q \in Plan : q # p => curricula'[q] = curricula[q]
                /\ curricula'[p] = [status |-> "active", by |-> work[h].from]
                /\ curricula' \in [Plan -> [status : Status, by : From]]
                /\ Planned' = Planned \union {p} /\ Stored' = Stored \union {p}
                /\ IsFiniteSet(Planned') /\ Cardinality(Planned') = p /\ Planned' = 1..p
<1> pc \in [Handler -> Place] /\ work \in [Handler -> Work] /\ work[h] \in Work
    /\ gauge \in Int /\ TypeInv /\ ShapeOK(h)
  BY DEF BaseInv, TypeInv, Shapes
<1>1. pc[h] = "insert" /\ h \in Ahead /\ work[h].plan = 0
  BY DEF InsertCurriculum, Ahead, ShapeOK, Planning
<1>2. /\ Cardinality(Ahead \ {h}) = Cardinality(Ahead) - 1
      /\ Cardinality(Planned) \in Nat /\ Cardinality(Ahead) \in Nat
      /\ Cardinality(Ahead \ {h}) \in Nat
  BY <1>1, AheadBounded, FS_RemoveElement, FS_CardinalityType
<1>3. Cardinality(Planned) + Cardinality(Ahead) <= begun /\ begun \in 0..MaxRequests
      /\ Planned = 1..Cardinality(Planned) /\ IsFiniteSet(Planned)
  BY DEF BaseInv, Numbered, TypeInv
<1>4. Cardinality(Planned) + 1 \in Plan
  BY <1>2, <1>3, Bounds DEF Plan
<1>5. PICK p \in Plan : p = Cardinality(Planned) + 1
  BY <1>4
<1>6. p \notin Planned /\ p \in Nat \ {0} /\ Planned = 1..(p-1)
  BY <1>2, <1>3, <1>5
<1>7. curricula' = [curricula EXCEPT ![p] = [status |-> "active", by |-> work[h].from]]
  BY <1>5 DEF InsertCurriculum
<1>8. /\ work' = [work EXCEPT ![h].plan = p, ![h].next = 1]
      /\ work'[h] = [work[h] EXCEPT !.plan = p, !.next = 1]
  BY <1>5 DEF InsertCurriculum
<1>9. /\ pc'[h] = "course" /\ Turn(h)
      /\ UNCHANGED <<limit, begun, torn, faults, jobs, modules, rows, roadmap, masters, done>>
      /\ gauge' = gauge - 1
  <2>1. pc' = [pc EXCEPT ![h] = "course"] /\ gauge' = gauge - 1
    BY DEF InsertCurriculum, Goto
  <2>2. UNCHANGED <<limit, begun, torn, faults, jobs, modules, rows, roadmap, masters, done>>
    BY DEF InsertCurriculum, bounds
  <2>3. Turn(h)
    BY <1>1, <1>8, <2>1 DEF Turn
  <2> QED BY <2>1, <2>2, <2>3
<1>10. work'[h] \in Work /\ work'[h].plan = p /\ work'[h].from = work[h].from
  <2>1. work'[h].plan = p /\ work'[h].from = work[h].from
    BY <1>8 DEF Work
  <2>2. work'[h] \in Work
    BY <1>8, FirstModule DEF Work
  <2> QED BY <2>1, <2>2
<1>11. \A q \in Plan : q # p => curricula'[q] = curricula[q]
  BY <1>7 DEF TypeInv
<1>12. curricula'[p] = [status |-> "active", by |-> work[h].from]
  BY <1>7 DEF TypeInv
<1>13. Planned' = Planned \union {p} /\ Stored' = Stored \union {p}
  BY <1>11, <1>12 DEF Planned, Stored
<1>14. IsFiniteSet(Planned') /\ Cardinality(Planned') = p
  BY <1>2, <1>3, <1>5, <1>6, <1>13, FS_AddElement
<1>15. Planned' = 1..p
  BY <1>6, <1>13
<1>16. curricula' \in [Plan -> [status : Status, by : From]]
  BY <1>7 DEF TypeInv, Status, Work
<1> QED BY <1>1, <1>5, <1>6, <1>9, <1>10, <1>11, <1>12, <1>13, <1>14, <1>15, <1>16

LEMMA StoringKeepsBase ==
    ASSUME BaseInv, NEW h \in Handler, Deactivate(h) \/ InsertCurriculum(h)
    PROVE  BaseInv'
<1> pc \in [Handler -> Place] /\ work \in [Handler -> Work] /\ work[h] \in Work
    /\ gauge \in Int /\ TypeInv /\ ShapeOK(h)
  BY DEF BaseInv, TypeInv, Shapes
<1>1. CASE Deactivate(h)
  <2>1. \A p \in Plan : /\ p \in Planned' <=> p \in Planned
                        /\ p \in Stored' <=> p \in Stored
    BY <1>1 DEF Deactivate, Planned, Stored
  <2>2. Planned' = Planned /\ Stored' = Stored
    BY <2>1 DEF Planned, Stored
  <2>3. curricula' \in [Plan -> [status : Status, by : From]]
    BY <1>1 DEF Deactivate, TypeInv, Status
  <2>4. /\ pc'[h] = "insert" /\ work'[h] = work[h]
        /\ Turn(h) /\ pc[h] = "deactivate"
    BY <1>1 DEF Deactivate, Goto, Turn
  <2>5. ShapeOK(h)'
    BY <2>4 DEF ShapeOK, Planning
  <2>6. Moves(h)
    BY <2>4, <2>5 DEF Moves, Place
  <2>7. UNCHANGED <<limit, begun, torn, faults, memory, modules, rows, roadmap, masters, done>>
    BY <1>1 DEF Deactivate, bounds
  <2>8. /\ pc' \in [Handler -> Place] /\ work' \in [Handler -> Work]
        /\ Shapes' /\ Numbered'
    BY <2>2, <2>6, <2>7, TurnKeeps
  <2> QED BY <2>2, <2>3, <2>7, <2>8 DEF BaseInv, TypeInv, memory
<1>2. CASE InsertCurriculum(h)
  <2>1. /\ pc[h] = "insert" /\ h \in Ahead /\ pc'[h] = "course" /\ Turn(h) /\ gauge' \in Int
        /\ UNCHANGED <<limit, begun, torn, faults, jobs, modules, rows, roadmap, masters, done>>
    <3>1. gauge' = gauge - 1
      BY <1>2, InsertStores
    <3>2. gauge' \in Int
      BY <3>1
    <3>3. /\ pc[h] = "insert" /\ h \in Ahead /\ pc'[h] = "course" /\ Turn(h)
          /\ UNCHANGED <<limit, begun, torn, faults, jobs, modules, rows, roadmap, masters, done>>
      BY <1>2, InsertStores
    <3> QED BY <3>2, <3>3
  <2>2. PICK p \in Plan :
          /\ p = Cardinality(Planned) + 1 /\ p \in Nat \ {0}
          /\ work'[h] \in Work /\ work'[h].plan = p /\ work'[h].from = work[h].from
          /\ curricula' \in [Plan -> [status : Status, by : From]]
          /\ Planned' = Planned \union {p} /\ Stored' = Stored \union {p}
          /\ IsFiniteSet(Planned') /\ Cardinality(Planned') = p /\ Planned' = 1..p
    BY <1>2, InsertStores
  <2>3. /\ Cardinality(Ahead \ {h}) = Cardinality(Ahead) - 1 /\ IsFiniteSet(Ahead \ {h})
        /\ Cardinality(Ahead) \in Nat
    BY <2>1, AheadBounded, FS_RemoveElement
  <2>4. Ahead' \subseteq Ahead \ {h} /\ InFlight' \subseteq InFlight
    BY <2>1, <2>2 DEF Ahead, InFlight, Turn
  <2>5. /\ Cardinality(Ahead') <= Cardinality(Ahead) - 1 /\ Cardinality(Ahead') \in Nat
        /\ IsFiniteSet(InFlight') /\ Cardinality(InFlight') <= Cardinality(InFlight)
        /\ Cardinality(InFlight') \in Nat
    BY <2>3, <2>4, AheadBounded, FS_Subset, FS_CardinalityType
  <2>6. Numbered'
    <3>1. IsFiniteSet(InFlight') /\ Cardinality(InFlight') <= limit'
      BY <2>1, <2>5, AheadBounded DEF Numbered, BaseInv, TypeInv
    <3>2. Cardinality(Planned) + Cardinality(Ahead) <= begun /\ begun \in Int
          /\ Cardinality(Planned) \in Nat
      BY AheadBounded DEF Numbered, BaseInv, TypeInv
    <3>3. Cardinality(Planned') + Cardinality(Ahead') <= begun'
      BY <2>1, <2>2, <2>3, <2>5, <3>2
    <3> QED BY <2>2, <3>1, <3>3 DEF Numbered
  <2>7. pc' \in [Handler -> Place] /\ work' \in [Handler -> Work]
    BY <2>1, <2>2 DEF Turn, Place
  <2>8. Shapes'
    <3>1. ASSUME NEW g \in Handler, g # h
          PROVE  ShapeOK(g)'
      <4>1. pc'[g] = pc[g] /\ work'[g] = work[g]
        BY <2>1, <3>1 DEF Turn
      <4> QED BY <2>2, <4>1 DEF BaseInv, Shapes, ShapeOK
    <3>2. ShapeOK(h)'
      BY <2>1, <2>2 DEF ShapeOK, Planning
    <3> QED BY <3>1, <3>2 DEF Shapes
  <2>9. TypeInv'
    BY <2>1, <2>2, <2>7 DEF TypeInv
  <2> QED BY <2>6, <2>8, <2>9 DEF BaseInv
<1> QED BY <1>1, <1>2

LEMMA CourseKeepsBase ==
    ASSUME BaseInv, NEW h \in Handler,
           UpsertCourse(h) \/ UpsertModule(h) \/ ReadCourse(h) \/ Refused(h)
    PROVE  BaseInv'
<1> pc \in [Handler -> Place] /\ work \in [Handler -> Work] /\ work[h] \in Work
    /\ TypeInv /\ Stored \subseteq Plan /\ rows \subseteq Plan /\ ShapeOK(h)
  BY DEF BaseInv, TypeInv, Shapes, Stored
<1>1. CASE UpsertCourse(h)
  <2>1. /\ pc'[h] = "module" /\ work'[h] = work[h] /\ Turn(h) /\ pc[h] = "course"
        /\ Target(h) \in Stored /\ Planned' = Planned
    BY <1>1, SamePlans DEF UpsertCourse, Writable, Goto, Turn
  <2>2. ShapeOK(h)'
    BY <2>1 DEF ShapeOK, Planning
  <2>3. Moves(h)
    BY <2>1, <2>2 DEF Moves, Place
  <2> QED BY <1>1, <2>1, <2>3, MovesKeepBase DEF UpsertCourse, memory, bounds, TypeInv
<1>2. CASE UpsertModule(h)
  <2>1. /\ pc'[h] \in {"module", "read"} /\ Turn(h) /\ pc[h] = "module"
        /\ Target(h) \in rows /\ Planned' = Planned
    BY <1>2, SamePlans DEF UpsertModule, Writable, Goto, Turn
  <2>2. PICK m \in 1..K : work'[h] = [work[h] EXCEPT !.next = m]
    <3>1. work[h].next \in 1..K
      BY DEF Work
    <3>2. (IF work[h].next < K THEN work[h].next + 1 ELSE 1) \in 1..K
      BY <3>1, Bounds
    <3> QED BY <1>2, <3>2 DEF UpsertModule
  <2>3. work'[h] \in Work /\ work'[h].plan = work[h].plan /\ work'[h].from = work[h].from
    BY <2>2 DEF Work
  <2>4. ShapeOK(h)'
    BY <2>1, <2>3 DEF ShapeOK, Planning
  <2>5. Moves(h)
    BY <2>1, <2>3, <2>4 DEF Moves, Place
  <2>6. modules' \in [Plan -> 0..K]
    <3>1. modules[Target(h)] \in 0..K /\ work[h].next \in 0..K
      BY <2>1, Bounds DEF TypeInv, Work
    <3>2. Max({modules[Target(h)], work[h].next}) \in 0..K
      BY <3>1, MaxOfModules
    <3> QED BY <1>2, <2>1, <3>2 DEF UpsertModule, TypeInv
  <2> QED BY <1>2, <2>5, <2>6, MovesKeepBase DEF UpsertModule, memory, bounds, TypeInv
<1>3. CASE ReadCourse(h)
  <2>1. pc[h] = "read" /\ Planned' = Planned
    BY <1>3, SamePlans DEF ReadCourse, tables
  <2>2. CASE work[h].plan = 0
    <3> DEFINE left == work[h].queue \ {Target(h)}
    <3>1. left \in SUBSET Plan
      BY DEF Work
    <3>2. /\ pc'[h] \in {"course", "idle", "student"}
          /\ work'[h] = [work[h] EXCEPT !.queue = left]
          /\ Turn(h) /\ UNCHANGED <<jobs, done>>
      BY <1>3, <2>1, <2>2 DEF ReadCourse, Goto, Turn, AfterSync
    <3>3. work'[h] \in Work /\ work'[h].plan = work[h].plan /\ work'[h].from = work[h].from
      BY <3>1, <3>2 DEF Work
    <3>4. ShapeOK(h)'
      BY <2>1, <2>2, <3>2, <3>3 DEF ShapeOK, Planning
    <3>5. Moves(h)
      BY <2>2, <3>2, <3>3, <3>4 DEF Moves, Place
    <3> QED BY <1>3, <3>2, <3>5, MovesKeepBase DEF ReadCourse, tables, bounds, TypeInv
  <2>3. CASE work[h].plan # 0 /\ work[h].plan \in rows
    <3>1. /\ pc'[h] = "master" /\ work'[h] = work[h] /\ Turn(h) /\ UNCHANGED <<jobs, done>>
      BY <1>3, <2>1, <2>3 DEF ReadCourse, Goto, Turn
    <3>2. ShapeOK(h)'
      BY <2>1, <2>3, <3>1 DEF ShapeOK, Planning
    <3>3. Moves(h)
      BY <3>1, <3>2 DEF Moves, Place
    <3> QED BY <1>3, <3>1, <3>3, MovesKeepBase DEF ReadCourse, tables, bounds, TypeInv
  <2>4. CASE work[h].plan # 0 /\ work[h].plan \notin rows
    <3>1. Finish(h, "error")
      BY <1>3, <2>4 DEF ReadCourse
    <3> QED BY <1>3, <2>1, <3>1, FinishMoves, MovesKeepBase DEF ReadCourse, tables, bounds, TypeInv
  <2> QED BY <2>2, <2>3, <2>4
<1>4. CASE Refused(h)
  <2>1. pc[h] # "idle" /\ Failing(h) /\ UNCHANGED <<gauge, tables, bounds>>
    BY <1>4 DEF Refused
  <2> QED BY <2>1, FailingMoves, MovesKeepBase DEF tables, bounds, TypeInv
<1> QED BY <1>1, <1>2, <1>3, <1>4

LEMMA RoadmapsKeepBase ==
    ASSUME BaseInv, NEW h \in Handler,
           SaveMasterRoadmap(h) \/ SaveCourseRoadmap(h) \/ Report(h)
    PROVE  BaseInv'
<1> pc \in [Handler -> Place] /\ work \in [Handler -> Work] /\ work[h] \in Work
    /\ TypeInv /\ Stored \subseteq Plan /\ rows \subseteq Plan /\ ShapeOK(h)
  BY DEF BaseInv, TypeInv, Shapes, Stored
<1>1. CASE SaveMasterRoadmap(h)
  <2>1. /\ pc'[h] = "roadmap" /\ Turn(h) /\ pc[h] = "master" /\ Planned' = Planned
        /\ masters' \subseteq rows /\ work[h].plan \in Plan
    BY <1>1, SamePlans DEF SaveMasterRoadmap, Goto, Turn, TypeInv, ShapeOK, Work
  <2>2. PICK k \in 0..K : work'[h] = [work[h] EXCEPT !.seen = k]
    BY <1>1, <2>1 DEF SaveMasterRoadmap, TypeInv
  <2>3. work'[h] \in Work /\ work'[h].plan = work[h].plan /\ work'[h].from = work[h].from
    <3>1. work'[h].plan = work[h].plan /\ work'[h].from = work[h].from
      BY <2>2 DEF Work
    <3>2. work'[h] \in Work
      BY <2>2 DEF Work
    <3> QED BY <3>1, <3>2
  <2>4. ShapeOK(h)'
    BY <2>1, <2>3 DEF ShapeOK, Planning
  <2>5. Moves(h)
    BY <2>1, <2>3, <2>4 DEF Moves, Place
  <2> QED BY <1>1, <2>1, <2>5, MovesKeepBase DEF SaveMasterRoadmap, memory, bounds, TypeInv
<1>2. CASE SaveCourseRoadmap(h)
  <2>1. pc[h] = "roadmap" /\ Planned' = Planned
    BY <1>2, SamePlans DEF SaveCourseRoadmap
  <2>2. CASE work[h].plan \in rows
    <3>1. /\ pc'[h] = "report" /\ work'[h] = work[h] /\ Turn(h) /\ UNCHANGED <<jobs, done>>
      BY <1>2, <2>2 DEF SaveCourseRoadmap, Goto, Turn
    <3>2. ShapeOK(h)'
      BY <2>1, <3>1 DEF ShapeOK, Planning
    <3>3. Moves(h)
      BY <3>1, <3>2 DEF Moves, Place
    <3>4. roadmap' \in [Plan -> SUBSET (0..K)]
      <4>1. work[h].seen \in 0..K
        BY DEF Work
      <4>2. roadmap' = [roadmap EXCEPT ![work[h].plan] = {work[h].seen}]
        BY <1>2, <2>2 DEF SaveCourseRoadmap
      <4> QED BY <4>1, <4>2 DEF TypeInv
    <3> QED BY <1>2, <3>1, <3>3, <3>4, MovesKeepBase DEF SaveCourseRoadmap, bounds, TypeInv
  <2>3. CASE work[h].plan \notin rows
    <3>1. Finish(h, "error") /\ UNCHANGED roadmap
      BY <1>2, <2>3 DEF SaveCourseRoadmap
    <3> QED BY <1>2, <2>1, <3>1, FinishMoves, MovesKeepBase DEF SaveCourseRoadmap, bounds, TypeInv
  <2> QED BY <2>2, <2>3
<1>3. CASE Report(h)
  <2>1. pc[h] = "report" /\ work[h].plan # 0
    BY <1>3 DEF Report, ShapeOK
  <2>2. PICK answer : Finish(h, answer)
    BY <1>3 DEF Report
  <2> QED BY <1>3, <2>1, <2>2, FinishMoves, MovesKeepBase DEF Report, tables, bounds, TypeInv
<1> QED BY <1>1, <1>2, <1>3

LEMMA AroundKeepsBase ==
    ASSUME BaseInv,
           \/ Restart \/ UNCHANGED vars
           \/ \E j \in Job : CreateIntent(j)
           \/ \E p \in Plan : DeleteCourse(p)
           \/ \E h \in Handler : Fail(h) \/ Leave(h)
    PROVE  BaseInv'
<1> pc \in [Handler -> Place] /\ work \in [Handler -> Work] /\ TypeInv /\ Stored \subseteq Plan
  BY DEF BaseInv, TypeInv, Stored
<1>0. ASSUME UNCHANGED <<pc, work, limit, begun>>, Planned' = Planned
      PROVE  Shapes' /\ Numbered'
  <2>1. Shapes'
    BY <1>0 DEF Shapes, ShapeOK, BaseInv
  <2>2. InFlight' = InFlight /\ Ahead' = Ahead
    BY <1>0 DEF InFlight, Ahead
  <2> QED BY <1>0, <2>1, <2>2, FewerKeep
<1>1. CASE Restart
  <2>1. /\ UNCHANGED <<tables, done, limit, begun>> /\ gauge' = 0
        /\ pc' = [h \in Handler |-> "idle"] /\ work' = [h \in Handler |-> Idle]
        /\ torn' \in BOOLEAN /\ faults' \in Nat
        /\ jobs' \in [Job -> {"yet", "there", "gone"}]
    BY <1>1 DEF Restart, TypeInv
  <2>2. Planned' = Planned /\ Stored' = Stored
    BY <2>1, SamePlans DEF tables
  <2>3. InFlight' \subseteq InFlight /\ Ahead' \subseteq Ahead
    BY <2>1 DEF InFlight, Ahead
  <2>4. Numbered'
    BY <2>1, <2>2, <2>3, FewerKeep
  <2>5. Shapes'
    BY <2>1 DEF Shapes, ShapeOK, Idle, Planning
  <2>6. TypeInv'
    BY <2>1, <2>2, IdleTyped DEF TypeInv, tables, Place
  <2> QED BY <2>4, <2>5, <2>6 DEF BaseInv
<1>2. CASE UNCHANGED vars
  <2>1. UNCHANGED <<jobs, gauge, curricula, modules, rows, roadmap, masters, pc, work, done,
                    limit, torn, begun, faults>>
    BY <1>2 DEF vars, memory, tables, bounds
  <2> QED BY <1>0, <2>1, SamePlans DEF BaseInv, TypeInv
<1>3. ASSUME NEW j \in Job, CreateIntent(j)
      PROVE  BaseInv'
  <2>1. UNCHANGED <<gauge, curricula, modules, rows, roadmap, masters, pc, work, done,
                    limit, torn, begun, faults>>
    BY <1>3 DEF CreateIntent, tables, bounds
  <2>2. jobs' \in [Job -> {"yet", "there", "gone"}]
    BY <1>3 DEF CreateIntent, TypeInv
  <2> QED BY <1>0, <2>1, <2>2, SamePlans DEF BaseInv, TypeInv
<1>4. ASSUME NEW p \in Plan, DeleteCourse(p)
      PROVE  BaseInv'
  <2>1. p \in Stored /\ p \in rows
    BY <1>4 DEF DeleteCourse, TypeInv
  <2>2. curricula' = [curricula EXCEPT ![p].status = "deleted"]
    BY <1>4 DEF DeleteCourse
  <2>3. \A q \in Plan : /\ q \in Planned' <=> q \in Planned
                        /\ q \in Stored' <=> q \in Stored /\ q # p
    BY <2>1, <2>2 DEF Planned, Stored, TypeInv
  <2>4. Planned' = Planned /\ Stored' = Stored \ {p}
    BY <2>3 DEF Planned, Stored
  <2>5. curricula' \in [Plan -> [status : Status, by : From]]
    BY <2>2 DEF TypeInv, Status
  <2>6. modules' \in [Plan -> 0..K] /\ roadmap' \in [Plan -> SUBSET (0..K)]
    BY <1>4, Bounds DEF DeleteCourse, TypeInv
  <2>7. rows' \subseteq Stored' /\ masters' \subseteq rows'
    BY <1>4, <2>4 DEF DeleteCourse, TypeInv
  <2>8. UNCHANGED <<memory, pc, work, done, bounds>>
    BY <1>4 DEF DeleteCourse
  <2> QED BY <1>0, <2>4, <2>5, <2>6, <2>7, <2>8 DEF BaseInv, TypeInv, memory, bounds
<1>5. ASSUME NEW h \in Handler, Fail(h)
      PROVE  BaseInv'
  <2>1. /\ pc[h] # "idle" /\ Failing(h) /\ UNCHANGED <<gauge, tables, limit, begun>>
        /\ torn' \in BOOLEAN /\ faults' \in Nat
    BY <1>5 DEF Fail, TypeInv
  <2> QED BY <2>1, FailingMoves, MovesKeepBase DEF tables, TypeInv
<1>6. ASSUME NEW h \in Handler, Leave(h)
      PROVE  BaseInv'
  <2>1. /\ pc[h] # "idle" /\ UNCHANGED <<gauge, tables, limit, begun, faults>>
        /\ torn' \in BOOLEAN
    BY <1>6 DEF Leave, TypeInv
  <2>2. Planned' = Planned
    BY <2>1, SamePlans DEF tables
  <2>3. CASE pc[h] = "open"
    <3>1. pc'[h] = "idle" /\ work'[h] = Idle /\ Turn(h) /\ UNCHANGED <<jobs, done>>
      BY <1>6, <2>3 DEF Leave, Goto, Turn
    <3>2. ShapeOK(h)'
      BY <3>1 DEF ShapeOK, Planning
    <3>3. Moves(h)
      BY <3>1, <3>2, IdleTyped DEF Moves, Place
    <3> QED BY <2>1, <3>1, <3>3, MovesKeepBase DEF tables, TypeInv
  <2>4. CASE pc[h] # "open"
    <3>1. Finish(h, "cut")
      BY <1>6, <2>4 DEF Leave
    <3> QED BY <2>1, <3>1, FinishMoves, MovesKeepBase DEF tables, TypeInv
  <2> QED BY <2>3, <2>4
<1> QED BY <1>1, <1>2, <1>3, <1>4, <1>5, <1>6

LEMMA BeginningKeepsBase ==
    ASSUME BaseInv, NEW h \in Handler,
           \/ \E j \in Job : OpenStream(h, j)
           \/ \E p \in Plan : RegenerateRoadmap(h, p)
           \/ OpenStreamDirect(h) \/ CreateDirect(h) \/ ListCourses(h)
    PROVE  BaseInv'
<1> pc \in [Handler -> Place] /\ work \in [Handler -> Work] /\ TypeInv /\ Stored \subseteq Plan
  BY DEF BaseInv, TypeInv, Stored
<1>0. ASSUME NEW to \in {"open", "course", "student"}, NEW w \in Work,
             Begin(h, to, w), w.plan = 0, w.from # "regenerate"
      PROVE  BaseInv'
  <2>1. ShapeOK(h)'
    BY <1>0 DEF Begin, Goto, ShapeOK, Planning
  <2>2. to \in Place \ {"idle"}
    BY DEF Place
  <2> QED BY <1>0, <2>1, <2>2, BeginKeeps
<1>1. ASSUME NEW j \in Job, OpenStream(h, j)
      PROVE  BaseInv'
  <2> DEFINE w == [Idle EXCEPT !.from = j]
  <2>1. w \in Work /\ w.plan = 0 /\ w.from = j /\ j # "regenerate"
    BY IdleTyped, JobAssumption DEF Work, Idle, From
  <2> QED BY <1>0, <1>1, <2>1 DEF OpenStream
<1>2. ASSUME NEW p \in Plan, RegenerateRoadmap(h, p)
      PROVE  BaseInv'
  <2>1. PICK k \in 0..K : k = modules[p]
    BY DEF TypeInv
  <2> DEFINE w == [Idle EXCEPT !.from = "regenerate", !.plan = p, !.seen = k]
  <2>2. w \in Work /\ w.plan = p /\ w.from = "regenerate" /\ p # 0
    <3>1. p # 0
      BY Bounds DEF Plan
    <3>2. w.plan = p /\ w.from = "regenerate"
      BY DEF Idle
    <3>3. w \in Work
      BY IdleTyped DEF Work, Idle, From
    <3> QED BY <3>1, <3>2, <3>3
  <2>3. Begin(h, "roadmap", w) /\ p \in rows
    BY <1>2, <2>1 DEF RegenerateRoadmap
  <2>4. p \in Planned /\ Planned' = Planned
    BY <2>3, SamePlans DEF TypeInv, Stored, Planned, Begin, tables
  <2>5. ShapeOK(h)'
    BY <2>2, <2>3, <2>4 DEF Begin, Goto, ShapeOK, Planning
  <2>6. "roadmap" \in Place \ {"idle"}
    BY DEF Place
  <2> HIDE DEF w
  <2> QED BY <2>2, <2>3, <2>5, <2>6, BeginKeeps
<1>3. CASE OpenStreamDirect(h)
  <2> DEFINE w == [Idle EXCEPT !.from = "stream"]
  <2>1. w \in Work /\ w.plan = 0 /\ w.from # "regenerate"
    BY IdleTyped DEF Work, Idle, From
  <2> QED BY <1>0, <1>3, <2>1 DEF OpenStreamDirect
<1>4. CASE CreateDirect(h)
  <2> DEFINE w == [Idle EXCEPT !.from = "post", !.queue = Stored]
  <2>1. w \in Work /\ w.plan = 0 /\ w.from # "regenerate"
    BY IdleTyped DEF Work, Idle, From
  <2>2. PICK to \in {"course", "student"} : to = AfterSync("post", Stored)
    BY DEF AfterSync
  <2>3. Begin(h, to, w)
    BY <1>4, <2>2 DEF CreateDirect
  <2> QED BY <1>0, <2>1, <2>3
<1>5. CASE ListCourses(h)
  <2> DEFINE w == [Idle EXCEPT !.queue = Stored]
  <2>1. w \in Work /\ w.plan = 0 /\ w.from # "regenerate"
    BY IdleTyped DEF Work, Idle, From
  <2> QED BY <1>0, <1>5, <2>1 DEF ListCourses
<1> QED BY <1>1, <1>2, <1>3, <1>4, <1>5

LEMMA BaseInductive == BaseInv /\ [Next]_vars => BaseInv'
BY BeginningKeepsBase, PlanningKeepsBase, StoringKeepsBase, CourseKeepsBase,
   RoadmapsKeepBase, AroundKeepsBase DEF Next, Handle

-----------------------------------------------------------------------------
(* A course that is done is whole. *)

\* What a handler does with its own request.
StepOf(h) ==
    \/ \E j \in Job : OpenStream(h, j)
    \/ \E p \in Plan : RegenerateRoadmap(h, p)
    \/ OpenStreamDirect(h) \/ CreateDirect(h) \/ ListCourses(h)
    \/ Handle(h) \/ Fail(h) \/ Leave(h)

Stands(g) == pc'[g] = pc[g] /\ work'[g] = work[g]

LEMMA FailingIsOnes ==
    ASSUME BaseInv, NEW h \in Handler, NEW g \in Handler \ {h},
           Failing(h) \/ \E answer : Finish(h, answer)
    PROVE  Stands(g)
BY DEF Failing, Finish, Goto, Stands, BaseInv, TypeInv

LEMMA StepsAreOnes ==
    ASSUME BaseInv, NEW h \in Handler, StepOf(h), NEW g \in Handler \ {h}
    PROVE  Stands(g)
<1> pc \in [Handler -> Place] /\ work \in [Handler -> Work]
  BY DEF BaseInv, TypeInv
<1>1. ASSUME NEW to, NEW w, Begin(h, to, w)
      PROVE  Stands(g)
  BY <1>1 DEF Begin, Goto, Stands
<1>2. CASE \/ \E j \in Job : OpenStream(h, j)
           \/ \E p \in Plan : RegenerateRoadmap(h, p)
           \/ OpenStreamDirect(h) \/ CreateDirect(h) \/ ListCourses(h)
  BY <1>1, <1>2 DEF OpenStream, RegenerateRoadmap, OpenStreamDirect, CreateDirect, ListCourses
<1>3. CASE StartStream(h) \/ UpsertStudent(h) \/ BuildCurriculum(h) \/ Deactivate(h)
  BY <1>3 DEF StartStream, UpsertStudent, BuildCurriculum, Deactivate, Goto, Stands
<1>4. CASE InsertCurriculum(h) \/ UpsertCourse(h) \/ UpsertModule(h) \/ SaveMasterRoadmap(h)
  BY <1>4 DEF InsertCurriculum, UpsertCourse, UpsertModule, SaveMasterRoadmap, Goto, Stands
<1>5. CASE EnsureStudent(h) \/ Refused(h) \/ Report(h) \/ Fail(h)
  BY <1>5, FailingIsOnes DEF EnsureStudent, Refused, Report, Fail
<1>6. CASE ReadCourse(h)
  BY <1>6, FailingIsOnes DEF ReadCourse, Goto, Stands
<1>7. CASE SaveCourseRoadmap(h)
  BY <1>7, FailingIsOnes DEF SaveCourseRoadmap, Goto, Stands
<1>8. CASE Leave(h)
  BY <1>8, FailingIsOnes DEF Leave, Goto, Stands
<1> QED BY <1>2, <1>3, <1>4, <1>5, <1>6, <1>7, <1>8 DEF StepOf, Handle

LEMMA WhoMoves ==
    ASSUME BaseInv, [Next]_vars, NEW g \in Handler
    PROVE  Stands(g) \/ StepOf(g) \/ Restart
<1>1. CASE UNCHANGED vars \/ (\E j \in Job : CreateIntent(j)) \/ (\E p \in Plan : DeleteCourse(p))
  BY <1>1 DEF vars, CreateIntent, DeleteCourse, Stands
<1>2. ASSUME NEW h \in Handler, StepOf(h)
      PROVE  Stands(g) \/ StepOf(g)
  BY <1>2, StepsAreOnes
<1> QED BY <1>1, <1>2 DEF Next, StepOf

\* A course that is not deleted loses nothing, and one that is stays so.
Kept(p) ==
    /\ Alive(p)' => Alive(p)
    /\ Alive(p)' => /\ p \in rows => p \in rows'
                    /\ modules'[p] >= modules[p]
                    /\ roadmap[p] # {} => roadmap'[p] # {}

LEMMA TablesKept ==
    ASSUME BaseInv, [Next]_vars, NEW p \in Plan
    PROVE  Kept(p)
<1> TypeInv /\ Numbered /\ modules[p] \in Int
  BY DEF BaseInv, TypeInv
<1>1. ASSUME UNCHANGED tables
      PROVE  Kept(p)
  BY <1>1 DEF tables, Kept, Alive
<1>2. ASSUME NEW h \in Handler, StepOf(h), ~UNCHANGED tables
      PROVE  Kept(p)
  <2>1. CASE Deactivate(h)
    <3>1. UNCHANGED <<modules, rows, roadmap>>
      BY <2>1 DEF Deactivate
    <3>2. Alive(p)' => Alive(p)
      BY <2>1 DEF Deactivate, Alive, Stored, TypeInv
    <3> QED BY <3>1, <3>2 DEF Kept
  <2>2. CASE InsertCurriculum(h)
    <3>1. UNCHANGED <<modules, rows, roadmap>>
      BY <2>2 DEF InsertCurriculum
    <3>2. PICK q : /\ q = Cardinality(Planned) + 1
                   /\ curricula' = [curricula EXCEPT ![q] = [status |-> "active",
                                                             by |-> work[h].from]]
      BY <2>2 DEF InsertCurriculum
    <3>3. q \notin Planned
      BY <3>2, AheadBounded DEF Numbered
    <3>4. ~Alive(p) => p \in Planned
      BY DEF Alive, Planned
    <3>5. Alive(p)' => Alive(p)
      BY <3>2, <3>3, <3>4 DEF Alive, TypeInv
    <3> QED BY <3>1, <3>5 DEF Kept
  <2>3. CASE UpsertCourse(h)
    BY <2>3 DEF UpsertCourse, Kept, Alive
  <2>4. CASE UpsertModule(h)
    <3>1. Target(h) \in Plan /\ work[h].next \in 0..K /\ modules[Target(h)] \in 0..K
      <4>1. Target(h) \in Plan
        BY <2>4 DEF UpsertModule, Writable, TypeInv, Stored
      <4>2. work[h].next \in 1..K
        BY DEF TypeInv, Work
      <4> QED BY <4>1, <4>2, Bounds DEF TypeInv
    <3>2. PICK m : m = Max({modules[Target(h)], work[h].next})
      OBVIOUS
    <3>3. m \in 0..K /\ m >= modules[Target(h)]
      BY <3>1, <3>2, MaxOfModules
    <3>4. modules' = [modules EXCEPT ![Target(h)] = m]
      BY <2>4, <3>2 DEF UpsertModule
    <3>5. modules'[p] >= modules[p]
      BY <3>3, <3>4 DEF TypeInv
    <3> QED BY <2>4, <3>5 DEF UpsertModule, Kept, Alive
  <2>5. CASE SaveMasterRoadmap(h)
    BY <2>5 DEF SaveMasterRoadmap, Kept, Alive
  <2>6. CASE SaveCourseRoadmap(h)
    <3>1. UNCHANGED <<curricula, modules, rows>>
      BY <2>6 DEF SaveCourseRoadmap
    <3>2. roadmap[p] # {} => roadmap'[p] # {}
      BY <2>6 DEF SaveCourseRoadmap, TypeInv
    <3> QED BY <3>1, <3>2 DEF Kept, Alive
  <2>7. CASE OpenStreamDirect(h) \/ CreateDirect(h) \/ ListCourses(h)
             \/ (\E j \in Job : OpenStream(h, j)) \/ \E q \in Plan : RegenerateRoadmap(h, q)
    BY <1>2, <2>7 DEF OpenStreamDirect, CreateDirect, ListCourses, OpenStream,
                      RegenerateRoadmap, Begin
  <2>8. CASE StartStream(h) \/ UpsertStudent(h) \/ BuildCurriculum(h) \/ EnsureStudent(h)
             \/ ReadCourse(h) \/ Refused(h) \/ Report(h) \/ Fail(h) \/ Leave(h)
    BY <1>2, <2>8 DEF StartStream, UpsertStudent, BuildCurriculum, EnsureStudent, ReadCourse,
                      Refused, Report, Fail, Leave
  <2> QED BY <1>2, <2>1, <2>2, <2>3, <2>4, <2>5, <2>6, <2>7, <2>8 DEF StepOf, Handle
<1>3. ASSUME NEW q \in Plan, DeleteCourse(q)
      PROVE  Kept(p)
  <2>1. CASE p = q
    BY <1>3, <2>1 DEF DeleteCourse, Kept, Alive, TypeInv
  <2>2. CASE p # q
    BY <1>3, <2>2 DEF DeleteCourse, Kept, Alive, TypeInv
  <2> QED BY <2>1, <2>2
<1>4. CASE Restart \/ UNCHANGED vars \/ \E j \in Job : CreateIntent(j)
  BY <1>1, <1>4 DEF Restart, vars, CreateIntent
<1> QED BY <1>1, <1>2, <1>3, <1>4 DEF Next, StepOf

LEMMA PlansStay ==
    ASSUME BaseInv, [Next]_vars, NEW p \in Planned
    PROVE  p \in Planned'
<1> TypeInv /\ p \in Plan
  BY DEF BaseInv, TypeInv, Planned
<1>1. CASE UNCHANGED curricula
  BY <1>1 DEF Planned
<1>2. ASSUME NEW h \in Handler, StepOf(h), ~UNCHANGED curricula
      PROVE  p \in Planned'
  <2>1. CASE Deactivate(h)
    BY <2>1 DEF Deactivate, Planned, TypeInv
  <2>2. CASE InsertCurriculum(h)
    BY <2>2 DEF InsertCurriculum, Planned, TypeInv
  <2>3. CASE OpenStreamDirect(h) \/ CreateDirect(h) \/ ListCourses(h)
             \/ (\E j \in Job : OpenStream(h, j)) \/ \E q \in Plan : RegenerateRoadmap(h, q)
    BY <1>2, <2>3 DEF OpenStreamDirect, CreateDirect, ListCourses, OpenStream,
                      RegenerateRoadmap, Begin, tables
  <2>4. CASE StartStream(h) \/ UpsertStudent(h) \/ BuildCurriculum(h) \/ EnsureStudent(h)
             \/ ReadCourse(h) \/ Refused(h) \/ Report(h) \/ Fail(h) \/ Leave(h)
    BY <1>2, <2>4 DEF StartStream, UpsertStudent, BuildCurriculum, EnsureStudent, ReadCourse,
                      Refused, Report, Fail, Leave, tables
  <2>5. CASE UpsertCourse(h) \/ UpsertModule(h) \/ SaveMasterRoadmap(h) \/ SaveCourseRoadmap(h)
    BY <1>2, <2>5 DEF UpsertCourse, UpsertModule, SaveMasterRoadmap, SaveCourseRoadmap
  <2> QED BY <1>2, <2>1, <2>2, <2>3, <2>4, <2>5 DEF StepOf, Handle
<1>3. ASSUME NEW q \in Plan, DeleteCourse(q)
      PROVE  p \in Planned'
  BY <1>3 DEF DeleteCourse, Planned, TypeInv
<1>4. CASE Restart \/ UNCHANGED vars \/ \E j \in Job : CreateIntent(j)
  BY <1>1, <1>4 DEF Restart, vars, CreateIntent, tables
<1> QED BY <1>1, <1>2, <1>3, <1>4 DEF Next, StepOf

LEMMA MadeStands ==
    ASSUME WholeInv, BaseInv', [Next]_vars, NEW g \in Handler, Stands(g)
    PROVE  MadeOK(g)'
<1>1. CASE pc[g] # "idle" /\ work[g].plan # 0
  <2>1. PICK p \in Plan : p = work[g].plan
    BY <1>1 DEF WholeInv, BaseInv, Shapes, ShapeOK, Planned
  <2>2. Kept(p)
    BY TablesKept DEF WholeInv
  <2>3. modules[p] \in 0..K /\ modules'[p] \in 0..K
    BY DEF WholeInv, BaseInv, TypeInv
  <2>4. MadeOK(g) /\ work[g].next \in 1..K
    BY DEF WholeInv, BaseInv, TypeInv, Work
  <2> QED BY <2>1, <2>2, <2>3, <2>4, Bounds DEF MadeOK, Kept, Stands
<1>2. CASE pc[g] = "idle" \/ work[g].plan = 0
  BY <1>2 DEF MadeOK, Stands
<1> QED BY <1>1, <1>2

\* A failure leaves a request without a plan, or where it builds the roadmap.
LEMMA FailingMakes ==
    ASSUME WholeInv, BaseInv', NEW h \in Handler, pc[h] # "idle", Failing(h), UNCHANGED tables
    PROVE  MadeOK(h)'
<1> pc \in [Handler -> Place] /\ work \in [Handler -> Work] /\ work[h] \in Work
    /\ ShapeOK(h) /\ MadeOK(h)
  BY DEF WholeInv, BaseInv, TypeInv, Shapes
<1>1. CASE pc[h] = "master"
  <2>1. pc'[h] = "roadmap" /\ work'[h] = [work[h] EXCEPT !.seen = modules[work[h].plan]]
    BY <1>1 DEF Failing, Goto
  <2>2. /\ work'[h].plan = work[h].plan /\ work'[h].from = work[h].from
        /\ work'[h].next = work[h].next
    BY <2>1 DEF Work
  <2>3. UNCHANGED <<curricula, modules, rows, roadmap>>
    BY DEF tables
  <2> QED BY <1>1, <2>1, <2>2, <2>3 DEF MadeOK, Alive
<1>2. CASE pc[h] # "master"
  <2>1. work'[h].plan = 0 \/ pc'[h] = "idle"
    BY <1>2 DEF Failing, Finish, Goto, ShapeOK, Work, Planning
  <2> QED BY <2>1 DEF MadeOK
<1> QED BY <1>1, <1>2

LEMMA MoverMakes ==
    ASSUME WholeInv, BaseInv', [Next]_vars, NEW h \in Handler, StepOf(h)
    PROVE  MadeOK(h)'
<1> pc \in [Handler -> Place] /\ work \in [Handler -> Work] /\ work[h] \in Work
    /\ ShapeOK(h) /\ MadeOK(h) /\ modules \in [Plan -> 0..K]
    /\ \A p \in Plan : modules'[p] \in 0..K
  BY DEF WholeInv, BaseInv, TypeInv, Shapes
<1>1. ASSUME pc'[h] = "idle" \/ work'[h].plan = 0 \/ work'[h].from = "regenerate"
      PROVE  MadeOK(h)'
  BY <1>1 DEF MadeOK
<1>2. CASE \/ \E j \in Job : OpenStream(h, j)
           \/ \E p \in Plan : RegenerateRoadmap(h, p)
           \/ OpenStreamDirect(h) \/ CreateDirect(h) \/ ListCourses(h)
  <2>1. work'[h].plan = 0 \/ work'[h].from = "regenerate"
    BY <1>2 DEF OpenStream, RegenerateRoadmap, OpenStreamDirect, CreateDirect, ListCourses,
                Begin, Idle
  <2> QED BY <1>1, <2>1
<1>3. CASE StartStream(h) \/ UpsertStudent(h) \/ BuildCurriculum(h) \/ Deactivate(h)
  <2>1. work'[h].plan = 0
    BY <1>3 DEF StartStream, UpsertStudent, BuildCurriculum, Deactivate, ShapeOK, Planning, Work
  <2> QED BY <1>1, <2>1
<1>4. CASE InsertCurriculum(h)
  <2>1. pc'[h] = "course"
    BY <1>4 DEF InsertCurriculum, Goto
  <2>2. PICK p : work'[h] = [work[h] EXCEPT !.plan = p, !.next = 1]
    BY <1>4 DEF InsertCurriculum
  <2>3. work'[h].next = 1
    BY <2>2 DEF Work
  <2> QED BY <2>1, <2>3 DEF MadeOK
<1>5. CASE UpsertCourse(h) /\ work[h].plan # 0
  <2>1. /\ pc[h] = "course" /\ pc'[h] = "module" /\ work'[h] = work[h]
        /\ rows' = rows \union {work[h].plan} /\ UNCHANGED <<curricula, modules>>
        /\ work[h].plan \in Stored
    BY <1>5 DEF UpsertCourse, Writable, Target, Goto
  <2>2. PICK p \in Plan : p = work[h].plan
    BY <2>1 DEF Stored
  <2>3. modules[p] >= 1 - 1
    BY Bounds
  <2> QED BY <2>1, <2>2, <2>3 DEF MadeOK, Alive
<1>6. CASE UpsertModule(h) /\ work[h].plan # 0
  <2>1. /\ pc[h] = "module" /\ work[h].plan \in rows /\ UNCHANGED <<curricula, rows>>
        /\ work' = [work EXCEPT ![h].next = IF work[h].next < K THEN work[h].next + 1 ELSE 1]
        /\ modules' = [modules EXCEPT ![work[h].plan] = Max({@, work[h].next})]
        /\ IF work[h].next < K THEN UNCHANGED pc ELSE Goto(h, "read")
    BY <1>6 DEF UpsertModule, Writable, Target
  <2>2. PICK p \in Plan : p = work[h].plan
    BY <2>1 DEF WholeInv, BaseInv, TypeInv, Stored
  <2>3. PICK m \in 1..K : m = work[h].next
    BY DEF Work
  <2>4. modules[p] \in 0..K /\ m \in 0..K
    BY Bounds
  <2>5. modules'[p] = Max({modules[p], m})
    BY <2>1, <2>2, <2>3
  <2>6. modules'[p] \in 0..K /\ modules'[p] >= m
    BY <2>4, <2>5, MaxOfModules
  <2>7. work'[h].plan = p /\ work'[h].next = IF m < K THEN m + 1 ELSE 1
    BY <2>1, <2>2, <2>3 DEF Work
  <2>8. CASE m < K
    BY <2>1, <2>2, <2>3, <2>6, <2>7, <2>8, Bounds DEF MadeOK, Alive
  <2>9. CASE m = K
    <3>1. pc'[h] = "read" /\ modules'[p] = K
      BY <2>1, <2>3, <2>6, <2>9, Bounds DEF Goto
    <3> QED BY <2>1, <2>2, <2>7, <3>1 DEF MadeOK, Alive
  <2> QED BY <2>3, <2>8, <2>9, Bounds
<1>7. CASE (UpsertCourse(h) \/ UpsertModule(h)) /\ work[h].plan = 0
  <2>1. work'[h].plan = 0
    BY <1>7 DEF UpsertCourse, UpsertModule, Work
  <2> QED BY <1>1, <2>1
<1>8. CASE ReadCourse(h)
  <2>1. CASE work[h].plan = 0
    <3>1. work'[h].plan = 0
      BY <1>8, <2>1 DEF ReadCourse, Work
    <3> QED BY <1>1, <3>1
  <2>2. CASE work[h].plan # 0 /\ work[h].plan \notin rows
    BY <1>1, <1>8, <2>2 DEF ReadCourse, Finish, Goto
  <2>3. CASE work[h].plan # 0 /\ work[h].plan \in rows
    <3>1. /\ pc'[h] = "master" /\ pc[h] = "read" /\ work'[h] = work[h]
          /\ UNCHANGED <<curricula, modules, rows, roadmap>>
      BY <1>8, <2>3 DEF ReadCourse, Goto, tables
    <3> QED BY <3>1 DEF MadeOK, Alive
  <2> QED BY <2>1, <2>2, <2>3
<1>9. CASE Refused(h) \/ Fail(h)
  <2>1. pc[h] # "idle" /\ Failing(h) /\ UNCHANGED tables
    BY <1>9 DEF Refused, Fail
  <2> QED BY <2>1, FailingMakes
<1>10. CASE SaveMasterRoadmap(h)
  <2>1. /\ pc[h] = "master" /\ pc'[h] = "roadmap"
        /\ work'[h] = [work[h] EXCEPT !.seen = modules[work[h].plan]]
        /\ UNCHANGED <<curricula, modules, rows, roadmap>>
    BY <1>10 DEF SaveMasterRoadmap, Goto
  <2>2. /\ work'[h].plan = work[h].plan /\ work'[h].from = work[h].from
    BY <2>1 DEF Work
  <2> QED BY <2>1, <2>2 DEF MadeOK, Alive
<1>11. CASE SaveCourseRoadmap(h)
  <2>1. CASE work[h].plan \notin rows
    BY <1>1, <1>11, <2>1 DEF SaveCourseRoadmap, Finish, Goto
  <2>2. CASE work[h].plan \in rows
    <3>1. /\ pc[h] = "roadmap" /\ pc'[h] = "report" /\ work'[h] = work[h]
          /\ roadmap' = [roadmap EXCEPT ![work[h].plan] = {work[h].seen}]
          /\ UNCHANGED <<curricula, modules, rows>>
      BY <1>11, <2>2 DEF SaveCourseRoadmap, Goto
    <3>2. work[h].plan \in Plan
      BY <2>2 DEF WholeInv, BaseInv, TypeInv, Stored
    <3>3. roadmap'[work[h].plan] = {work[h].seen}
      BY <3>1, <3>2 DEF WholeInv, BaseInv, TypeInv
    <3> QED BY <3>1, <3>3 DEF MadeOK, Alive
  <2> QED BY <2>1, <2>2
<1>12. CASE Report(h) \/ EnsureStudent(h) \/ Leave(h)
  BY <1>1, <1>12 DEF Report, EnsureStudent, Leave, Finish, Goto
<1> QED BY <1>2, <1>3, <1>4, <1>5, <1>6, <1>7, <1>8, <1>9, <1>10, <1>11, <1>12 DEF StepOf, Handle

\* Only the answer of a creation says that a course is done.
LEMMA WhoIsDone ==
    ASSUME BaseInv, [Next]_vars, NEW p \in done', p \notin done
    PROVE  \E h \in Handler : /\ pc[h] = "report" /\ work[h].from # "regenerate"
                              /\ work[h].plan = p /\ UNCHANGED tables
<1>1. ASSUME NEW h \in Handler, Failing(h) \/ Finish(h, "error") \/ Finish(h, "cut")
      PROVE  done' = done
  BY <1>1 DEF Failing, Finish
<1>2. ASSUME NEW h \in Handler, StepOf(h), ~Report(h)
      PROVE  done' = done
  <2>1. CASE \/ \E j \in Job : OpenStream(h, j)
             \/ \E q \in Plan : RegenerateRoadmap(h, q)
             \/ OpenStreamDirect(h) \/ CreateDirect(h) \/ ListCourses(h)
    BY <2>1 DEF OpenStream, RegenerateRoadmap, OpenStreamDirect, CreateDirect, ListCourses, Begin
  <2>2. CASE StartStream(h) \/ UpsertStudent(h) \/ BuildCurriculum(h) \/ Deactivate(h)
             \/ InsertCurriculum(h) \/ UpsertCourse(h) \/ UpsertModule(h) \/ SaveMasterRoadmap(h)
    BY <2>2 DEF StartStream, UpsertStudent, BuildCurriculum, Deactivate, InsertCurriculum,
                UpsertCourse, UpsertModule, SaveMasterRoadmap
  <2>3. CASE EnsureStudent(h) \/ Refused(h) \/ ReadCourse(h) \/ SaveCourseRoadmap(h)
             \/ Fail(h) \/ Leave(h)
    BY <1>1, <2>3 DEF EnsureStudent, Refused, ReadCourse, SaveCourseRoadmap, Fail, Leave
  <2> QED BY <1>2, <2>1, <2>2, <2>3 DEF StepOf, Handle
<1>3. ASSUME \/ Restart \/ UNCHANGED vars \/ (\E j \in Job : CreateIntent(j))
             \/ \E q \in Plan : DeleteCourse(q)
      PROVE  done' = done
  BY <1>3 DEF Restart, vars, CreateIntent, DeleteCourse
<1>4. PICK h \in Handler : Report(h)
  <2>1. \/ \E h \in Handler : StepOf(h)
        \/ Restart \/ UNCHANGED vars \/ (\E j \in Job : CreateIntent(j))
        \/ \E q \in Plan : DeleteCourse(q)
    BY DEF Next, StepOf
  <2>2. \E h \in Handler : StepOf(h)
    BY <1>3, <2>1
  <2> QED BY <1>2, <2>2
<1>5. work[h].from # "regenerate" /\ p = work[h].plan
  BY <1>4 DEF Report, Finish
<1> QED BY <1>4, <1>5 DEF Report

LEMMA WholeInductive == WholeInv /\ [Next]_vars => WholeInv'
<1> SUFFICES ASSUME WholeInv, [Next]_vars
             PROVE  /\ BaseInv' /\ \A h \in Handler : MadeOK(h)'
                    /\ \A p \in done' : Whole(p)' /\ p \in Planned'
  BY DEF WholeInv
<1>1. BaseInv /\ BaseInv'
  BY BaseInductive DEF WholeInv
<1>2. ASSUME NEW g \in Handler
      PROVE  MadeOK(g)'
  <2>1. CASE Stands(g)
    BY <1>1, <2>1, MadeStands
  <2>2. CASE StepOf(g)
    BY <1>1, <2>2, MoverMakes
  <2>3. CASE Restart
    BY <2>3 DEF Restart, MadeOK
  <2> QED BY <1>1, <2>1, <2>2, <2>3, WhoMoves
<1>3. ASSUME NEW p \in done'
      PROVE  Whole(p)' /\ p \in Planned'
  <2>1. p \in Plan /\ modules[p] \in 0..K /\ modules'[p] \in 0..K
    BY <1>1 DEF BaseInv, TypeInv
  <2>2. Kept(p)
    BY <1>1, <2>1, TablesKept
  <2>3. Whole(p) /\ p \in Planned
    <3>1. CASE p \in done
      BY <3>1 DEF WholeInv
    <3>2. CASE p \notin done
      <4>1. PICK h \in Handler : /\ pc[h] = "report" /\ work[h].from # "regenerate"
                                 /\ work[h].plan = p
        BY <1>1, <3>2, WhoIsDone
      <4>2. MadeOK(h) /\ ShapeOK(h)
        BY DEF WholeInv, BaseInv, Shapes
      <4> QED BY <4>1, <4>2 DEF MadeOK, ShapeOK, Whole
    <3> QED BY <3>1, <3>2
  <2>4. Whole(p)'
    BY <2>1, <2>2, <2>3, Bounds DEF Whole, Kept
  <2>5. p \in Planned'
    BY <1>1, <2>1, <2>3, PlansStay
  <2> QED BY <2>4, <2>5
<1> QED BY <1>1, <1>2, <1>3

-----------------------------------------------------------------------------
(* One request at a time: its roadmap shows all of the modules. *)

LEMMA Solo ==
    ASSUME BaseInv, limit = 1, NEW h \in Handler, pc[h] # "idle"
    PROVE  \A g \in Handler \ {h} : pc[g] = "idle"
<1> SUFFICES ASSUME NEW g \in Handler \ {h}, pc[g] # "idle"
             PROVE  FALSE
  OBVIOUS
<1>1. {h, g} \subseteq InFlight
  BY DEF InFlight
<1>2. Cardinality({h}) = 1 /\ IsFiniteSet({h})
  BY FS_Singleton
<1>3. Cardinality({h} \union {g}) = 2 /\ {h} \union {g} = {h, g}
  BY <1>2, FS_AddElement
<1>4. Cardinality({h, g}) <= Cardinality(InFlight) /\ Cardinality(InFlight) \in Nat
  BY <1>1, FS_Subset, FS_CardinalityType DEF BaseInv, Numbered
<1>5. Cardinality(InFlight) <= 1
  BY DEF BaseInv, Numbered
<1>6. Cardinality({h, g}) = 2
  BY <1>3
<1> QED BY <1>4, <1>5, <1>6

LEMMA StepsByKind ==
    ASSUME [Next]_vars
    PROVE  \/ \E h \in Handler : StepOf(h)
           \/ Restart \/ UNCHANGED vars
           \/ \E j \in Job : CreateIntent(j)
           \/ \E p \in Plan : DeleteCourse(p)
BY DEF Next, StepOf

\* The limit is chosen once, and only a saved roadmap is another one.
LEMMA StepsChange ==
    ASSUME NEW h \in Handler, StepOf(h)
    PROVE  limit' = limit /\ (roadmap' = roadmap \/ SaveCourseRoadmap(h))
<1>1. CASE OpenStreamDirect(h) \/ CreateDirect(h) \/ ListCourses(h)
           \/ (\E j \in Job : OpenStream(h, j)) \/ \E q \in Plan : RegenerateRoadmap(h, q)
  BY <1>1 DEF OpenStreamDirect, CreateDirect, ListCourses, OpenStream,
              RegenerateRoadmap, Begin, tables
<1>2. CASE StartStream(h) \/ UpsertStudent(h) \/ BuildCurriculum(h) \/ EnsureStudent(h)
           \/ ReadCourse(h) \/ Refused(h) \/ Report(h) \/ Fail(h) \/ Leave(h)
  BY <1>2 DEF StartStream, UpsertStudent, BuildCurriculum, EnsureStudent, ReadCourse,
              Refused, Report, Fail, Leave, tables, bounds
<1>3. CASE Deactivate(h) \/ InsertCurriculum(h) \/ UpsertCourse(h) \/ UpsertModule(h)
           \/ SaveMasterRoadmap(h) \/ SaveCourseRoadmap(h)
  BY <1>3 DEF Deactivate, InsertCurriculum, UpsertCourse, UpsertModule, SaveMasterRoadmap,
              SaveCourseRoadmap, bounds
<1> QED BY <1>1, <1>2, <1>3 DEF StepOf, Handle

LEMMA LimitStays == [Next]_vars => limit' = limit
BY StepsByKind, StepsChange DEF Restart, vars, CreateIntent, DeleteCourse, bounds

LEMMA MoverShows ==
    ASSUME ShownInv, limit = 1, NEW h \in Handler, StepOf(h), BaseInv'
    PROVE  ShownOK(h)'
<1> pc \in [Handler -> Place] /\ work \in [Handler -> Work] /\ work[h] \in Work
    /\ ShapeOK(h) /\ MadeOK(h) /\ ShownOK(h) /\ rows \subseteq Plan
  BY DEF ShownInv, WholeInv, BaseInv, TypeInv, Shapes, Stored
<1>1. ASSUME pc'[h] \notin {"roadmap", "report"}
      PROVE  ShownOK(h)'
  BY <1>1 DEF ShownOK
<1>2. CASE \/ \E j \in Job : OpenStream(h, j)
           \/ OpenStreamDirect(h) \/ CreateDirect(h) \/ ListCourses(h)
  <2>1. pc'[h] \in {"open", "course", "student", "idle"}
    BY <1>2 DEF OpenStream, OpenStreamDirect, CreateDirect, ListCourses, Begin, Goto, AfterSync
  <2> QED BY <1>1, <2>1
<1>3. ASSUME NEW p \in Plan, RegenerateRoadmap(h, p)
      PROVE  ShownOK(h)'
  <2>1. /\ work'[h] = [Idle EXCEPT !.from = "regenerate", !.plan = p, !.seen = modules[p]]
        /\ pc'[h] = "roadmap" /\ UNCHANGED <<curricula, done>>
    BY <1>3 DEF RegenerateRoadmap, Begin, Goto, tables
  <2>2. work'[h].plan = p /\ work'[h].seen = modules[p]
    BY <2>1 DEF Idle
  <2>3. p \in done /\ Alive(p) => modules[p] = K
    BY DEF ShownInv, WholeInv, Whole
  <2>4. work'[h].from = "regenerate"
    BY <2>1 DEF Idle
  <2> QED BY <2>1, <2>2, <2>3, <2>4 DEF ShownOK, Alive
<1>4. CASE StartStream(h) \/ UpsertStudent(h) \/ BuildCurriculum(h) \/ Deactivate(h)
           \/ InsertCurriculum(h) \/ UpsertCourse(h)
  <2>1. pc'[h] \in Planning \union {"open", "course", "student", "idle", "module"}
    BY <1>4 DEF StartStream, UpsertStudent, BuildCurriculum, Deactivate, InsertCurriculum,
                UpsertCourse, Goto, AfterSync, Planning
  <2> QED BY <1>1, <2>1 DEF Planning
<1>5. CASE UpsertModule(h)
  BY <1>1, <1>5 DEF UpsertModule, Goto
<1>6. CASE ReadCourse(h)
  <2>1. pc'[h] \in {"course", "student", "idle", "master"}
    BY <1>6 DEF ReadCourse, Finish, Goto, AfterSync
  <2> QED BY <1>1, <2>1
<1>7. ASSUME pc[h] = "master", pc'[h] = "roadmap", UNCHANGED <<curricula, done, modules>>,
             work'[h] = [work[h] EXCEPT !.seen = modules[work[h].plan]]
      PROVE  ShownOK(h)'
  <2>1. /\ work'[h].plan = work[h].plan /\ work'[h].from = work[h].from
        /\ work'[h].seen = modules[work[h].plan]
    BY <1>7 DEF Work
  <2>2. work[h].plan # 0 /\ work[h].from # "regenerate"
    BY <1>7 DEF ShapeOK
  <2>3. Alive(work[h].plan) => modules[work[h].plan] = K
    BY <1>7, <2>2 DEF MadeOK
  <2> QED BY <1>7, <2>1, <2>3 DEF ShownOK, Alive
<1>8. CASE SaveMasterRoadmap(h)
  BY <1>7, <1>8 DEF SaveMasterRoadmap, Goto
<1>9. CASE Refused(h) \/ Fail(h)
  <2>1. Failing(h) /\ UNCHANGED tables
    BY <1>9 DEF Refused, Fail
  <2>2. CASE pc[h] = "master"
    BY <1>7, <2>1, <2>2 DEF Failing, Goto, tables
  <2>3. CASE pc[h] # "master"
    <3>1. pc'[h] \in {"ensure", "student", "idle"}
      BY <2>1, <2>3 DEF Failing, Finish, Goto
    <3> QED BY <1>1, <3>1
  <2> QED BY <2>2, <2>3
<1>10. CASE SaveCourseRoadmap(h)
  <2>1. CASE work[h].plan \notin rows
    BY <1>1, <1>10, <2>1 DEF SaveCourseRoadmap, Finish, Goto
  <2>2. CASE work[h].plan \in rows
    <3>1. /\ pc[h] = "roadmap" /\ pc'[h] = "report" /\ work'[h] = work[h]
          /\ roadmap' = [roadmap EXCEPT ![work[h].plan] = {work[h].seen}]
          /\ UNCHANGED <<curricula, modules, rows>>
      BY <1>10, <2>2 DEF SaveCourseRoadmap, Goto
    <3>2. roadmap'[work[h].plan] = {work[h].seen}
      BY <2>2, <3>1 DEF ShownInv, WholeInv, BaseInv, TypeInv
    <3> QED BY <3>1, <3>2 DEF ShownOK, Alive
  <2> QED BY <2>1, <2>2
<1>11. CASE Report(h) \/ EnsureStudent(h) \/ Leave(h)
  BY <1>1, <1>11 DEF Report, EnsureStudent, Leave, Finish, Goto
<1> QED BY <1>2, <1>3, <1>4, <1>5, <1>6, <1>8, <1>9, <1>10, <1>11 DEF StepOf, Handle

LEMMA ShownInductive == ShownInv /\ [Next]_vars => ShownInv'
<1> SUFFICES ASSUME ShownInv, [Next]_vars
             PROVE  /\ WholeInv'
                    /\ limit' = 1 => /\ \A h \in Handler : ShownOK(h)'
                                     /\ \A p \in done' : Alive(p)' => roadmap'[p] = {K}
  BY DEF ShownInv
<1>1. WholeInv /\ WholeInv' /\ BaseInv /\ BaseInv'
  BY WholeInductive DEF ShownInv, WholeInv
<1>2. ASSUME limit' = 1, NEW g \in Handler
      PROVE  ShownOK(g)'
  <2>0. limit = 1 /\ ShownOK(g)
    BY <1>2, LimitStays DEF ShownInv
  <2>1. CASE StepOf(g)
    BY <1>1, <2>0, <2>1, MoverShows
  <2>2. CASE Stands(g) /\ pc[g] \in {"roadmap", "report"}
    <3>1. ASSUME NEW h \in Handler, StepOf(h)
          PROVE  h = g
      <4>1. h # g => pc[h] = "idle"
        BY <1>1, <2>0, <2>2, Solo
      <4>2. pc[h] = "idle" => Cardinality(InFlight) < limit
        BY <3>1 DEF StepOf, Handle, OpenStream, RegenerateRoadmap, OpenStreamDirect,
             CreateDirect, ListCourses, Begin, StartStream, UpsertStudent, BuildCurriculum,
             Deactivate, InsertCurriculum, EnsureStudent, UpsertCourse, UpsertModule, ReadCourse,
             Refused, SaveMasterRoadmap, SaveCourseRoadmap, Report, Fail, Leave
      <4>3. Cardinality(InFlight) >= 1
        <5>1. {g} \subseteq InFlight
          BY <2>2 DEF InFlight
        <5>2. Cardinality({g}) = 1
          BY FS_Singleton
        <5> QED BY <1>1, <5>1, <5>2, AheadBounded, FS_Subset
      <4> QED BY <1>1, <2>0, <4>1, <4>2, <4>3, AheadBounded
    <3>2. CASE \E h \in Handler : StepOf(h)
      BY <1>1, <2>0, <3>1, <3>2, MoverShows
    <3>3. CASE Restart
      BY <3>3 DEF Restart, ShownOK
    <3>4. CASE UNCHANGED vars \/ \E j \in Job : CreateIntent(j)
      BY <2>0, <2>2, <3>4 DEF vars, CreateIntent, tables, ShownOK, Alive, Stands
    <3>5. ASSUME NEW p \in Plan, DeleteCourse(p)
          PROVE  ShownOK(g)'
      BY <1>1, <2>0, <2>2, <3>5 DEF DeleteCourse, ShownOK, Alive, Stands, BaseInv, TypeInv
    <3> QED BY <3>2, <3>3, <3>4, <3>5, StepsByKind
  <2>3. CASE Stands(g) /\ pc[g] \notin {"roadmap", "report"}
    BY <2>3 DEF Stands, ShownOK
  <2>4. CASE Restart
    BY <2>4 DEF Restart, ShownOK
  <2> QED BY <1>1, <2>1, <2>2, <2>3, <2>4, WhoMoves
<1>3. ASSUME limit' = 1, NEW p \in done', Alive(p)'
      PROVE  roadmap'[p] = {K}
  <2>0. limit = 1 /\ p \in Plan
    BY <1>1, <1>3, LimitStays DEF BaseInv, TypeInv
  <2>1. Alive(p)
    BY <1>1, <1>3, <2>0, TablesKept DEF Kept
  <2>2. CASE p \notin done
    <3>1. PICK h \in Handler : /\ pc[h] = "report" /\ work[h].from # "regenerate"
                               /\ work[h].plan = p /\ UNCHANGED tables
      BY <1>1, <2>2, WhoIsDone
    <3>2. ShownOK(h) /\ p # 0
      BY <1>1, <2>0, <3>1 DEF ShownInv, BaseInv, Shapes, ShapeOK
    <3> QED BY <2>1, <3>1, <3>2 DEF ShownOK, tables
  <2>3. CASE p \in done
    <3>1. roadmap[p] = {K}
      BY <2>0, <2>1, <2>3 DEF ShownInv
    <3>2. ASSUME NEW h \in Handler, SaveCourseRoadmap(h)
          PROVE  roadmap'[p] = {K}
      <4>1. ShownOK(h) /\ ShapeOK(h) /\ roadmap \in [Plan -> SUBSET (0..K)]
        BY <1>1, <2>0 DEF ShownInv, BaseInv, Shapes, TypeInv
      <4>2. CASE work[h].plan = p /\ p \in rows
        <5>1. work[h].seen = K
          BY <2>1, <2>3, <3>2, <4>1, <4>2 DEF SaveCourseRoadmap, ShownOK, ShapeOK
        <5> QED BY <2>0, <3>2, <4>1, <4>2, <5>1 DEF SaveCourseRoadmap
      <4>3. CASE work[h].plan # p \/ p \notin rows
        BY <2>0, <3>1, <3>2, <4>1, <4>3 DEF SaveCourseRoadmap
      <4> QED BY <4>2, <4>3
    <3>3. CASE \E h \in Handler : StepOf(h)
      BY <3>1, <3>2, <3>3, StepsChange
    <3>4. CASE Restart \/ UNCHANGED vars \/ \E j \in Job : CreateIntent(j)
      BY <3>1, <3>4 DEF Restart, vars, CreateIntent, tables
    <3>5. ASSUME NEW q \in Plan, DeleteCourse(q)
          PROVE  roadmap'[p] = {K}
      BY <1>1, <1>3, <2>0, <3>1, <3>5 DEF DeleteCourse, Alive, BaseInv, TypeInv
    <3> QED BY <3>3, <3>4, <3>5, StepsByKind
  <2> QED BY <2>2, <2>3
<1> QED BY <1>1, <1>2, <1>3

\* Requests have their types in every behaviour, and every plan has a number.
THEOREM TypeCorrect == Spec => []BaseInv
BY InitBase, BaseInductive, PTL DEF Spec

\* A client that was told its course is done has it whole until it is deleted,
\* whatever failed, was listed, synced or created meanwhile: create_course writes the
\* modules, the roadmap and the answer in this order, and nothing takes them back.
THEOREM DoneCoursesAreWhole == Spec => []DoneIsWhole
<1>1. Init => ShownInv
  <2>1. Init => \A h \in Handler : MadeOK(h) /\ ShownOK(h)
    BY DEF Init, MadeOK, ShownOK, Idle
  <2>2. Init => done = {}
    BY DEF Init
  <2> QED BY <2>1, <2>2, InitBase DEF ShownInv, WholeInv
<1>2. ShownInv => DoneIsWhole
  BY DEF ShownInv, WholeInv, Whole, Alive, DoneIsWhole
<1> QED BY <1>1, <1>2, ShownInductive, PTL DEF Spec

-----------------------------------------------------------------------------
(* The plan that a session would load. *)

\* Plans are changed by deactivating, storing and deleting alone.
LEMMA PlansChange ==
    ASSUME NEW h \in Handler, StepOf(h)
    PROVE  curricula' = curricula \/ Deactivate(h) \/ InsertCurriculum(h)
<1>1. CASE OpenStreamDirect(h) \/ CreateDirect(h) \/ ListCourses(h)
           \/ (\E j \in Job : OpenStream(h, j)) \/ \E q \in Plan : RegenerateRoadmap(h, q)
  BY <1>1 DEF OpenStreamDirect, CreateDirect, ListCourses, OpenStream,
              RegenerateRoadmap, Begin, tables
<1>2. CASE StartStream(h) \/ UpsertStudent(h) \/ BuildCurriculum(h) \/ EnsureStudent(h)
           \/ ReadCourse(h) \/ Refused(h) \/ Report(h) \/ Fail(h) \/ Leave(h)
  BY <1>2 DEF StartStream, UpsertStudent, BuildCurriculum, EnsureStudent, ReadCourse,
              Refused, Report, Fail, Leave, tables
<1>3. CASE UpsertCourse(h) \/ UpsertModule(h) \/ SaveMasterRoadmap(h) \/ SaveCourseRoadmap(h)
  BY <1>3 DEF UpsertCourse, UpsertModule, SaveMasterRoadmap, SaveCourseRoadmap
<1> QED BY <1>1, <1>2, <1>3 DEF StepOf, Handle

\* A request that is between the two statements stores its plan or tears them.
LEMMA TearStands ==
    ASSUME NEW h \in Handler, StepOf(h), pc[h] = "insert"
    PROVE  InsertCurriculum(h) \/ torn'
BY DEF StepOf, Handle, OpenStream, RegenerateRoadmap, OpenStreamDirect,
       CreateDirect, ListCourses, Begin, StartStream, UpsertStudent, BuildCurriculum,
       Deactivate, EnsureStudent, UpsertCourse, UpsertModule, ReadCourse,
       Refused, SaveMasterRoadmap, SaveCourseRoadmap, Report, Fail, Leave, Tears

LEMMA TornStays == [Next]_vars /\ torn => torn'
<1>1. ASSUME NEW h \in Handler, StepOf(h), torn
      PROVE  torn'
  <2>1. CASE OpenStreamDirect(h) \/ CreateDirect(h) \/ ListCourses(h)
             \/ (\E j \in Job : OpenStream(h, j)) \/ \E q \in Plan : RegenerateRoadmap(h, q)
    BY <1>1, <2>1 DEF OpenStreamDirect, CreateDirect, ListCourses, OpenStream,
                      RegenerateRoadmap, Begin
  <2>2. CASE StartStream(h) \/ UpsertStudent(h) \/ BuildCurriculum(h) \/ EnsureStudent(h)
             \/ ReadCourse(h) \/ Refused(h) \/ Report(h) \/ Fail(h) \/ Leave(h)
    BY <1>1, <2>2 DEF StartStream, UpsertStudent, BuildCurriculum, EnsureStudent, ReadCourse,
                      Refused, Report, Fail, Leave, bounds
  <2>3. CASE Deactivate(h) \/ InsertCurriculum(h) \/ UpsertCourse(h) \/ UpsertModule(h)
             \/ SaveMasterRoadmap(h) \/ SaveCourseRoadmap(h)
    BY <1>1, <2>3 DEF Deactivate, InsertCurriculum, UpsertCourse, UpsertModule,
                      SaveMasterRoadmap, SaveCourseRoadmap, bounds
  <2> QED BY <1>1, <2>1, <2>2, <2>3 DEF StepOf, Handle
<1> QED BY <1>1, StepsByKind DEF Restart, vars, CreateIntent, DeleteCourse, bounds

\* Nothing but storing a plan ends the time between the two statements well.
LEMMA SteadyBefore ==
    ASSUME BaseInv, [Next]_vars, Steady', \A h \in Handler : ~InsertCurriculum(h)
    PROVE  Steady
<1>1. ~torn
  BY TornStays DEF Steady
<1>2. ASSUME NEW g \in Handler, pc[g] = "insert"
      PROVE  FALSE
  <2>1. CASE Stands(g)
    BY <1>2, <2>1 DEF Stands, Steady, Tears
  <2>2. CASE StepOf(g)
    BY <1>2, <2>2, TearStands DEF Steady
  <2>3. CASE Restart
    BY <1>2, <2>3 DEF Restart, Steady, Tears
  <2> QED BY <2>1, <2>2, <2>3, WhoMoves
<1> QED BY <1>1, <1>2 DEF Steady, Tears

LEMMA NewestInductive == NewestInv /\ [Next]_vars => NewestInv'
<1> SUFFICES ASSUME NewestInv, [Next]_vars
             PROVE  /\ BaseInv'
                    /\ Steady' => \A p \in Planned' : p = Cardinality(Planned') =>
                                     curricula'[p].status \in {"active", "deleted"}
  BY DEF NewestInv
<1>1. BaseInv /\ BaseInv' /\ TypeInv
  BY BaseInductive DEF NewestInv, BaseInv
<1>2. ASSUME Steady', NEW p \in Planned', p = Cardinality(Planned')
      PROVE  curricula'[p].status \in {"active", "deleted"}
  <2>1. ASSUME NEW h \in Handler, InsertCurriculum(h)
        PROVE  curricula'[p].status \in {"active", "deleted"}
    <3>1. PICK q \in Plan : /\ curricula'[q] = [status |-> "active", by |-> work[h].from]
                            /\ Cardinality(Planned') = q
      BY <1>1, <2>1, InsertStores
    <3> QED BY <1>2, <3>1
  <2>2. ASSUME \A h \in Handler : ~InsertCurriculum(h), ~\E h \in Handler : Deactivate(h)
        PROVE  curricula'[p].status \in {"active", "deleted"}
    <3>1. Steady
      BY <1>1, <1>2, <2>2, SteadyBefore
    <3>2. ASSUME curricula' = curricula
          PROVE  curricula'[p].status \in {"active", "deleted"}
      <4>1. Planned' = Planned
        BY <3>2, SamePlans
      <4>2. p \in Planned /\ p = Cardinality(Planned)
        BY <1>2, <4>1
      <4> QED BY <3>1, <3>2, <4>2 DEF NewestInv
    <3>3. ASSUME NEW q \in Plan, DeleteCourse(q)
          PROVE  curricula'[p].status \in {"active", "deleted"}
      <4>1. q \in Stored /\ curricula' = [curricula EXCEPT ![q].status = "deleted"]
        BY <1>1, <3>3 DEF DeleteCourse, TypeInv
      <4>2. \A o \in Plan : o \in Planned' <=> o \in Planned
        BY <1>1, <4>1 DEF Planned, Stored, TypeInv
      <4>3. Planned' = Planned
        BY <4>2 DEF Planned
      <4>4. p \in Planned /\ p = Cardinality(Planned) /\ p \in Plan
        BY <1>2, <4>3 DEF Planned
      <4>5. curricula[p].status \in {"active", "deleted"}
        BY <3>1, <4>4 DEF NewestInv
      <4> QED BY <1>1, <4>1, <4>4, <4>5 DEF TypeInv
    <3> QED BY <2>2, <3>2, <3>3, StepsByKind, PlansChange
            DEF Restart, vars, CreateIntent, tables
  <2>3. ASSUME NEW h \in Handler, Deactivate(h)
        PROVE  FALSE
    <3>1. pc'[h] = "insert"
      BY <1>1, <2>3 DEF Deactivate, Goto, TypeInv
    <3> QED BY <1>2, <3>1 DEF Steady, Tears
  <2> QED BY <2>1, <2>2, <2>3
<1> QED BY <1>1, <1>2

LEMMA OneActiveInductive == OneActiveInv /\ [Next]_vars => OneActiveInv'
<1> SUFFICES ASSUME OneActiveInv, [Next]_vars, BaseInv', limit' = 1
             PROVE  /\ \A p, q \in Plan :
                          curricula'[p].status = "active" /\ curricula'[q].status = "active" => p = q
                    /\ \A h \in Handler, p \in Plan :
                          pc'[h] = "insert" => curricula'[p].status # "active"
  BY BaseInductive DEF OneActiveInv
<1>1. BaseInv /\ TypeInv /\ limit = 1
  BY LimitStays DEF OneActiveInv, BaseInv
<1>2. ASSUME NEW h \in Handler, Deactivate(h), NEW p \in Plan
      PROVE  curricula'[p].status # "active"
  BY <1>1, <1>2 DEF Deactivate, Stored, TypeInv
<1>3. ASSUME NEW h \in Handler, InsertCurriculum(h)
      PROVE  /\ \A p, q \in Plan :
                   curricula'[p].status = "active" /\ curricula'[q].status = "active" => p = q
             /\ \A g \in Handler : pc'[g] # "insert"
  <2>1. pc[h] = "insert" /\ pc'[h] = "course" /\ Turn(h)
    BY <1>1, <1>3, InsertStores
  <2>2. PICK n \in Plan : \A q \in Plan : q # n => curricula'[q] = curricula[q]
    BY <1>1, <1>3, InsertStores
  <2>3. \A p \in Plan : curricula[p].status # "active"
    BY <1>1, <2>1 DEF OneActiveInv
  <2>4. \A p \in Plan : curricula'[p].status = "active" => p = n
    BY <2>2, <2>3
  <2>5. \A g \in Handler \ {h} : pc[g] = "idle"
    BY <1>1, <2>1, Solo
  <2>6. \A g \in Handler : pc'[g] # "insert"
    BY <1>1, <2>1, <2>5 DEF Turn, TypeInv
  <2> QED BY <2>4, <2>6
<1>4. ASSUME NEW g \in Handler, pc'[g] = "insert", pc[g] # "insert"
      PROVE  Deactivate(g)
  <2>1. CASE StepOf(g)
    <3>1. CASE \/ \E j \in Job : OpenStream(g, j)
               \/ \E p \in Plan : RegenerateRoadmap(g, p)
               \/ OpenStreamDirect(g) \/ CreateDirect(g) \/ ListCourses(g)
      BY <1>1, <1>4, <3>1 DEF OpenStream, RegenerateRoadmap, OpenStreamDirect, CreateDirect,
                         ListCourses, Begin, Goto, AfterSync, TypeInv
    <3>2. CASE StartStream(g) \/ UpsertStudent(g) \/ BuildCurriculum(g) \/ EnsureStudent(g)
               \/ ReadCourse(g) \/ Report(g) \/ Leave(g) \/ InsertCurriculum(g)
      BY <1>1, <1>4, <3>2 DEF StartStream, UpsertStudent, BuildCurriculum, EnsureStudent, ReadCourse,
                         Report, Leave, InsertCurriculum, Finish, Goto, AfterSync, TypeInv
    <3>3. CASE UpsertCourse(g) \/ UpsertModule(g) \/ SaveMasterRoadmap(g) \/ SaveCourseRoadmap(g)
      BY <1>1, <1>4, <3>3 DEF UpsertCourse, UpsertModule, SaveMasterRoadmap, SaveCourseRoadmap,
                         Finish, Goto, TypeInv
    <3>4. CASE Refused(g) \/ Fail(g)
      BY <1>1, <1>4, <3>4 DEF Refused, Fail, Failing, Finish, Goto, TypeInv
    <3> QED BY <2>1, <3>1, <3>2, <3>3, <3>4 DEF StepOf, Handle
  <2>2. CASE Stands(g)
    BY <1>4, <2>2 DEF Stands
  <2>3. CASE Restart
    BY <1>4, <2>3 DEF Restart
  <2> QED BY <1>1, <2>1, <2>2, <2>3, WhoMoves
<1>5. ASSUME \A p \in Plan : curricula'[p].status = "active" => curricula[p].status = "active",
             \A h \in Handler : ~Deactivate(h)
      PROVE  /\ \A p, q \in Plan :
                   curricula'[p].status = "active" /\ curricula'[q].status = "active" => p = q
             /\ \A h \in Handler, p \in Plan :
                   pc'[h] = "insert" => curricula'[p].status # "active"
  BY <1>1, <1>4, <1>5 DEF OneActiveInv
<1>6. ASSUME NEW q \in Plan, DeleteCourse(q)
      PROVE  \A p \in Plan : curricula'[p].status = "active" => curricula[p].status = "active"
  BY <1>1, <1>6 DEF DeleteCourse, TypeInv
<1>7. \/ \E h \in Handler : Deactivate(h) \/ InsertCurriculum(h)
      \/ \A p \in Plan : curricula'[p].status = "active" => curricula[p].status = "active"
  BY <1>6, StepsByKind, PlansChange DEF Restart, vars, CreateIntent, tables
<1> QED BY <1>2, <1>3, <1>5, <1>7

-----------------------------------------------------------------------------
(* A job makes one course. *)

LEMMA OnlyOne ==
    ASSUME BaseInv, limit = 1, NEW g \in Handler, pc[g] # "idle", NEW h \in Handler, StepOf(h)
    PROVE  h = g /\ pc[h] # "idle"
<1>1. h # g => pc[h] = "idle"
  BY Solo
<1>2. pc[h] = "idle" => Cardinality(InFlight) < limit
  BY DEF StepOf, Handle, OpenStream, RegenerateRoadmap, OpenStreamDirect,
         CreateDirect, ListCourses, Begin, StartStream, UpsertStudent, BuildCurriculum,
         Deactivate, InsertCurriculum, EnsureStudent, UpsertCourse, UpsertModule, ReadCourse,
         Refused, SaveMasterRoadmap, SaveCourseRoadmap, Report, Fail, Leave
<1>3. Cardinality(InFlight) >= 1
  <2>1. {g} \subseteq InFlight
    BY DEF InFlight
  <2>2. Cardinality({g}) = 1
    BY FS_Singleton
  <2> QED BY <2>1, <2>2, AheadBounded, FS_Subset
<1> QED BY <1>1, <1>2, <1>3, AheadBounded

\* A request that begins for a job finds it there.
LEMMA StepBegins ==
    ASSUME BaseInv, NEW h \in Handler, StepOf(h), pc[h] = "idle"
    PROVE  /\ UNCHANGED <<jobs, curricula>>
           /\ work'[h].from \in Job => jobs[work'[h].from] = "there"
<1> work \in [Handler -> Work]
  BY DEF BaseInv, TypeInv
<1>1. ASSUME NEW j \in Job, OpenStream(h, j)
      PROVE  /\ UNCHANGED <<jobs, curricula>>
             /\ work'[h].from \in Job => jobs[work'[h].from] = "there"
  <2>1. work'[h] = [Idle EXCEPT !.from = j] /\ UNCHANGED <<jobs, curricula>> /\ jobs[j] = "there"
    BY <1>1 DEF OpenStream, Begin, memory, tables
  <2>2. work'[h].from = j
    BY <2>1 DEF Idle
  <2> QED BY <2>1, <2>2
<1>2. ASSUME OpenStreamDirect(h) \/ CreateDirect(h) \/ ListCourses(h)
             \/ \E p \in Plan : RegenerateRoadmap(h, p)
      PROVE  UNCHANGED <<jobs, curricula>> /\ work'[h].from \notin Job
  <2>1. UNCHANGED <<jobs, curricula>>
    BY <1>2 DEF OpenStreamDirect, CreateDirect, ListCourses, RegenerateRoadmap, Begin,
                memory, tables
  <2>2. work'[h].from \in {"list", "post", "stream", "regenerate"}
    BY <1>2 DEF OpenStreamDirect, CreateDirect, ListCourses, RegenerateRoadmap, Begin, Idle
  <2> QED BY <2>1, <2>2, JobAssumption
<1>3. \/ \E j \in Job : OpenStream(h, j)
      \/ OpenStreamDirect(h) \/ CreateDirect(h) \/ ListCourses(h)
      \/ \E p \in Plan : RegenerateRoadmap(h, p)
  BY DEF StepOf, Handle, StartStream, UpsertStudent, BuildCurriculum,
         Deactivate, InsertCurriculum, EnsureStudent, UpsertCourse, UpsertModule, ReadCourse,
         Refused, SaveMasterRoadmap, SaveCourseRoadmap, Report, Fail, Leave
<1> QED BY <1>1, <1>2, <1>3

\* What a request that is handled does to the jobs: it stays the one of its job,
\* and clears it when it ends, if it has made its plan.
Carries(h) ==
    /\ work'[h].from = work[h].from \/ pc'[h] = "idle"
    /\ work[h].plan # 0 =>
          \/ pc'[h] # "idle" /\ work'[h].plan # 0 /\ work'[h].from = work[h].from
          \/ work[h].from \in Job => jobs'[work[h].from] = "gone"
    /\ \A j \in Job : \/ jobs'[j] = jobs[j]
                      \/ j = work[h].from /\ jobs'[j] = "gone" /\ pc'[h] = "idle"

LEMMA StepCarries ==
    ASSUME BaseInv, NEW h \in Handler, StepOf(h), pc[h] # "idle"
    PROVE  Carries(h)
<1> pc \in [Handler -> Place] /\ work \in [Handler -> Work] /\ work[h] \in Work
    /\ ShapeOK(h) /\ jobs \in [Job -> {"yet", "there", "gone"}]
  BY DEF BaseInv, TypeInv, Shapes
<1>1. ASSUME NEW answer, Finish(h, answer)
      PROVE  Carries(h)
  <2>1. pc'[h] = "idle"
    BY <1>1 DEF Finish, Goto
  <2>2. work[h].from \in Job => jobs' = [jobs EXCEPT ![work[h].from] = "gone"]
    BY <1>1 DEF Finish
  <2>3. work[h].from \notin Job => jobs' = jobs
    BY <1>1 DEF Finish
  <2> QED BY <2>1, <2>2, <2>3 DEF Carries
<1>2. ASSUME jobs' = jobs, pc'[h] # "idle", work'[h].from = work[h].from,
             work'[h].plan = work[h].plan \/ work[h].plan = 0
      PROVE  Carries(h)
  BY <1>2 DEF Carries
<1>3. ASSUME work' = work, pc'[h] # "idle", jobs' = jobs
      PROVE  Carries(h)
  BY <1>2, <1>3
<1>4. CASE UpsertStudent(h) \/ BuildCurriculum(h) \/ Deactivate(h) \/ UpsertCourse(h)
  BY <1>3, <1>4 DEF UpsertStudent, BuildCurriculum, Deactivate, UpsertCourse, Goto, memory
<1>5. CASE StartStream(h)
  <2>1. /\ work' = [work EXCEPT ![h].queue = Stored] /\ pc[h] = "open" /\ jobs' = jobs
        /\ pc'[h] = AfterSync(work[h].from, Stored)
    BY <1>5 DEF StartStream, Goto, memory
  <2>2. work'[h].from = work[h].from
    BY <2>1 DEF Work
  <2>3. work[h].plan = 0
    BY <2>1 DEF ShapeOK
  <2> QED BY <2>1, <2>2, <2>3 DEF Carries
<1>6. CASE InsertCurriculum(h)
  <2>1. /\ pc'[h] = "course" /\ work[h].plan = 0 /\ jobs' = jobs
        /\ work'[h].from = work[h].from
    BY <1>6, InsertStores
  <2> QED BY <1>2, <2>1
<1>7. CASE UpsertModule(h)
  <2>1. /\ work' = [work EXCEPT ![h].next = IF work[h].next < K THEN work[h].next + 1 ELSE 1]
        /\ pc'[h] \in {"module", "read"} /\ jobs' = jobs
    BY <1>7 DEF UpsertModule, Goto, memory
  <2>2. work'[h].from = work[h].from /\ work'[h].plan = work[h].plan
    BY <2>1 DEF Work
  <2> QED BY <1>2, <2>1, <2>2
<1>8. CASE ReadCourse(h)
  <2>1. CASE work[h].plan = 0
    <3>1. /\ work' = [work EXCEPT ![h].queue = work[h].queue \ {Target(h)}] /\ jobs' = jobs
      BY <1>8, <2>1 DEF ReadCourse
    <3>2. work'[h].from = work[h].from
      BY <3>1 DEF Work
    <3> QED BY <2>1, <3>1, <3>2 DEF Carries
  <2>2. CASE work[h].plan # 0 /\ work[h].plan \in rows
    BY <1>3, <1>8, <2>2 DEF ReadCourse, Goto
  <2>3. CASE work[h].plan # 0 /\ work[h].plan \notin rows
    BY <1>1, <1>8, <2>3 DEF ReadCourse
  <2> QED BY <2>1, <2>2, <2>3
<1>9. CASE Refused(h) \/ Fail(h)
  <2>1. Failing(h)
    BY <1>9 DEF Refused, Fail
  <2>2. CASE pc[h] = "master"
    <3>1. /\ work' = [work EXCEPT ![h].seen = modules[work[h].plan]] /\ jobs' = jobs
          /\ pc'[h] = "roadmap"
      BY <2>1, <2>2 DEF Failing, Goto
    <3>2. work'[h].from = work[h].from /\ work'[h].plan = work[h].plan
      BY <3>1 DEF Work
    <3> QED BY <1>2, <3>1, <3>2
  <2>3. CASE pc[h] \in Planning \ {"ensure"}
    <3>1. work' = work /\ pc'[h] = "ensure" /\ jobs' = jobs
      BY <2>1, <2>3 DEF Failing, Goto, Planning
    <3> QED BY <1>3, <3>1
  <2>4. CASE /\ pc[h] \notin (Planning \ {"ensure"}) \union {"master"}
             /\ work[h].plan = 0 /\ work[h].queue # {} /\ work[h].from # "list"
    <3>1. /\ work' = [work EXCEPT ![h].queue = {}, ![h].next = 1] /\ jobs' = jobs
          /\ pc'[h] = "student"
      BY <2>1, <2>4 DEF Failing, Goto
    <3>2. work'[h].from = work[h].from
      BY <3>1 DEF Work
    <3> QED BY <1>2, <2>4, <3>1, <3>2
  <2>5. CASE Finish(h, "error")
    BY <1>1, <2>5
  <2> QED BY <2>1, <2>2, <2>3, <2>4, <2>5 DEF Failing
<1>10. CASE SaveMasterRoadmap(h)
  <2>1. /\ work' = [work EXCEPT ![h].seen = modules[work[h].plan]] /\ jobs' = jobs
        /\ pc'[h] = "roadmap"
    BY <1>10 DEF SaveMasterRoadmap, Goto, memory
  <2>2. work'[h].from = work[h].from /\ work'[h].plan = work[h].plan
    BY <2>1 DEF Work
  <2> QED BY <1>2, <2>1, <2>2
<1>11. CASE SaveCourseRoadmap(h)
  <2>1. CASE work[h].plan \in rows
    BY <1>3, <1>11, <2>1 DEF SaveCourseRoadmap, Goto
  <2>2. CASE work[h].plan \notin rows
    BY <1>1, <1>11, <2>2 DEF SaveCourseRoadmap
  <2> QED BY <2>1, <2>2
<1>12. CASE EnsureStudent(h) \/ Report(h)
  BY <1>1, <1>12 DEF EnsureStudent, Report
<1>13. CASE Leave(h)
  <2>1. CASE pc[h] = "open"
    BY <1>13, <2>1 DEF Leave, Goto, Carries, ShapeOK
  <2>2. CASE pc[h] # "open"
    BY <1>1, <1>13, <2>2 DEF Leave
  <2> QED BY <2>1, <2>2
<1>14. CASE \/ \E j \in Job : OpenStream(h, j)
            \/ \E p \in Plan : RegenerateRoadmap(h, p)
            \/ OpenStreamDirect(h) \/ CreateDirect(h) \/ ListCourses(h)
  BY <1>14 DEF OpenStream, RegenerateRoadmap, OpenStreamDirect, CreateDirect, ListCourses, Begin
<1> QED BY <1>4, <1>5, <1>6, <1>7, <1>8, <1>9, <1>10, <1>11, <1>12, <1>13, <1>14 DEF StepOf, Handle

\* A job whose plan was made, or that is over, stays so.
LEMMA SpentStays ==
    ASSUME OnceInv, [Next]_vars, limit = 1, NEW j \in Job, Spent(j)
    PROVE  Spent(j)'
<1> BaseInv /\ jobs \in [Job -> {"yet", "there", "gone"}]
  BY DEF OnceInv, BaseInv, TypeInv
<1>1. CASE jobs[j] = "gone"
  <2>1. ASSUME NEW h \in Handler, StepOf(h)
        PROVE  jobs'[j] = "gone"
    BY <1>1, <2>1, StepBegins, StepCarries DEF Carries
  <2>2. ASSUME NEW i \in Job, CreateIntent(i)
        PROVE  jobs'[j] = "gone"
    BY <1>1, <2>2 DEF CreateIntent
  <2>3. jobs'[j] = "gone"
    BY <1>1, <2>1, <2>2, StepsByKind DEF Restart, vars, DeleteCourse, memory
  <2> QED BY <2>3 DEF Spent
<1>2. ASSUME NEW h \in Handler, work[h].from = j, pc[h] # "idle", work[h].plan # 0
      PROVE  Spent(j)'
  <2>1. CASE Stands(h)
    BY <1>2, <2>1 DEF Stands, Spent
  <2>2. CASE StepOf(h)
    BY <1>2, <2>2, StepCarries DEF Carries, Spent
  <2>3. CASE Restart
    BY <1>2, <2>3 DEF Restart, OnceInv, Spent
  <2> QED BY <2>1, <2>2, <2>3, WhoMoves
<1> QED BY <1>1, <1>2 DEF Spent

\* A plan is an earlier one or the one that is stored in this step.
LEMMA WhosePlan ==
    ASSUME BaseInv, [Next]_vars, NEW p \in Planned'
    PROVE  \/ p \in Planned /\ curricula'[p].by = curricula[p].by
           \/ \E h \in Handler : /\ InsertCurriculum(h) /\ p = Cardinality(Planned) + 1
                                 /\ curricula'[p].by = work[h].from
<1> TypeInv /\ p \in Plan
  BY DEF BaseInv, TypeInv, Planned
<1>1. ASSUME NEW h \in Handler, Deactivate(h)
      PROVE  p \in Planned /\ curricula'[p].by = curricula[p].by
  <2>1. curricula'[p] = IF p \in Stored THEN [curricula[p] EXCEPT !.status = "inactive"]
                        ELSE curricula[p]
    BY <1>1 DEF Deactivate
  <2>2. curricula'[p].by = curricula[p].by
    BY <2>1 DEF TypeInv
  <2>3. p \in Planned
    BY <2>1 DEF Planned, Stored
  <2> QED BY <2>2, <2>3
<1>2. ASSUME NEW h \in Handler, InsertCurriculum(h)
      PROVE  \/ p \in Planned /\ curricula'[p].by = curricula[p].by
             \/ p = Cardinality(Planned) + 1 /\ curricula'[p].by = work[h].from
  <2>1. PICK n \in Plan :
          /\ n = Cardinality(Planned) + 1
          /\ \A q \in Plan : q # n => curricula'[q] = curricula[q]
          /\ curricula'[n] = [status |-> "active", by |-> work[h].from]
          /\ Planned' = Planned \union {n}
    BY <1>2, InsertStores
  <2> QED BY <2>1
<1>3. ASSUME NEW q \in Plan, DeleteCourse(q)
      PROVE  p \in Planned /\ curricula'[p].by = curricula[p].by
  <2>1. q \in Stored /\ curricula' = [curricula EXCEPT ![q].status = "deleted"]
    BY <1>3 DEF DeleteCourse, TypeInv
  <2>2. curricula'[p].by = curricula[p].by
    BY <2>1 DEF TypeInv
  <2>3. p \in Planned
    BY <2>1 DEF Planned, Stored, TypeInv
  <2> QED BY <2>2, <2>3
<1>4. CASE curricula' = curricula
  BY <1>4 DEF Planned
<1> QED BY <1>1, <1>2, <1>3, <1>4, StepsByKind, PlansChange
        DEF Restart, vars, CreateIntent, tables

LEMMA OnceInductive == OnceInv /\ [Next]_vars => OnceInv'
<1> SUFFICES ASSUME OnceInv, [Next]_vars, BaseInv', limit' = 1
             PROVE  /\ \A h \in Handler : pc'[h] # "idle" /\ work'[h].from \in Job =>
                          jobs'[work'[h].from] = "there"
                    /\ \A p \in Planned' : curricula'[p].by \in Job => Spent(curricula[p].by)'
                    /\ \A p, q \in Planned' :
                          curricula'[p].by = curricula'[q].by /\ curricula'[p].by \in Job => p = q
  BY BaseInductive DEF OnceInv
<1>1. BaseInv /\ limit = 1 /\ jobs \in [Job -> {"yet", "there", "gone"}]
  BY LimitStays DEF OnceInv, BaseInv, TypeInv
<1>2. ASSUME NEW g \in Handler, pc'[g] # "idle", work'[g].from \in Job
      PROVE  jobs'[work'[g].from] = "there"
  <2>1. CASE StepOf(g)
    <3>1. CASE pc[g] = "idle"
      BY <1>1, <1>2, <2>1, <3>1, StepBegins
    <3>2. CASE pc[g] # "idle"
      BY <1>1, <1>2, <2>1, <3>2, StepCarries DEF Carries, OnceInv
    <3> QED BY <3>1, <3>2
  <2>2. CASE Stands(g) /\ ~StepOf(g)
    <3>1. pc[g] # "idle" /\ work'[g].from = work[g].from /\ jobs[work[g].from] = "there"
      BY <1>1, <1>2, <2>2 DEF Stands, OnceInv
    <3>2. ~\E h \in Handler : StepOf(h)
      BY <1>1, <2>2, <3>1, OnlyOne
    <3>3. ASSUME NEW j \in Job, CreateIntent(j)
          PROVE  jobs'[work'[g].from] = "there"
      BY <1>1, <3>1, <3>3 DEF CreateIntent
    <3>4. CASE Restart
      BY <1>2, <3>4 DEF Restart
    <3>5. CASE UNCHANGED vars \/ \E p \in Plan : DeleteCourse(p)
      BY <3>1, <3>5 DEF vars, DeleteCourse, memory
    <3> QED BY <3>2, <3>3, <3>4, <3>5, StepsByKind
  <2>3. CASE Restart
    BY <1>2, <2>3 DEF Restart
  <2> QED BY <1>1, <2>1, <2>2, <2>3, WhoMoves
<1>3. ASSUME NEW p \in Planned', curricula'[p].by \in Job
      PROVE  Spent(curricula[p].by)'
  <2>1. CASE p \in Planned /\ curricula'[p].by = curricula[p].by
    <3>1. PICK i \in Job : i = curricula[p].by /\ i = curricula'[p].by
      BY <1>3, <2>1
    <3>2. Spent(i)
      BY <1>1, <2>1, <3>1 DEF OnceInv
    <3>3. Spent(i)'
      BY <1>1, <3>2, SpentStays
    <3> QED BY <3>1, <3>3 DEF Spent
  <2>2. ASSUME NEW h \in Handler, InsertCurriculum(h), curricula'[p].by = work[h].from
        PROVE  Spent(curricula[p].by)'
    <3>1. pc'[h] = "course" /\ work'[h].from = work[h].from /\ work'[h].plan # 0
      BY <1>1, <2>2, InsertStores
    <3> QED BY <2>2, <3>1 DEF Spent
  <2> QED BY <1>1, <2>1, <2>2, WhosePlan
<1>4. ASSUME NEW p \in Planned, NEW h \in Handler, InsertCurriculum(h), work[h].from \in Job,
             curricula[p].by = work[h].from
      PROVE  FALSE
  <2>1. pc[h] = "insert" /\ work[h].plan = 0
    BY <1>1, <1>4, InsertStores
  <2>2. Spent(work[h].from) /\ jobs[work[h].from] = "there"
    BY <1>1, <1>4, <2>1 DEF OnceInv
  <2>3. PICK g \in Handler : work[g].from = work[h].from /\ pc[g] # "idle" /\ work[g].plan # 0
    BY <2>2 DEF Spent
  <2> QED BY <1>1, <2>1, <2>3, Solo
<1>5. ASSUME NEW p \in Planned', NEW q \in Planned', curricula'[p].by = curricula'[q].by,
             curricula'[p].by \in Job
      PROVE  p = q
  <2>1. CASE /\ p \in Planned /\ curricula'[p].by = curricula[p].by
             /\ q \in Planned /\ curricula'[q].by = curricula[q].by
    BY <1>1, <1>5, <2>1 DEF OnceInv
  <2>2. CASE p \in Planned /\ curricula'[p].by = curricula[p].by /\ q \notin Planned
    BY <1>1, <1>4, <1>5, <2>2, WhosePlan
  <2>3. CASE p \notin Planned /\ q \in Planned /\ curricula'[q].by = curricula[q].by
    BY <1>1, <1>4, <1>5, <2>3, WhosePlan
  <2>4. CASE p = Cardinality(Planned) + 1 /\ q = Cardinality(Planned) + 1
    BY <2>4
  <2>5. \A n \in Planned : n # Cardinality(Planned) + 1
    BY <1>1, AheadBounded DEF BaseInv, Numbered
  <2> QED BY <1>1, <1>5, <2>1, <2>2, <2>3, <2>4, <2>5, WhosePlan
<1> QED BY <1>2, <1>3, <1>5

-----------------------------------------------------------------------------
(* The gauge. *)

\* Requests that are not planned for are not counted when the gauge stays.
LEMMA GaugeStays ==
    ASSUME GaugeInv, gauge' >= gauge, Counted' \subseteq Counted, gauge' \in Int
    PROVE  gauge' >= Cardinality(Counted')
<1>1. IsFiniteSet(Counted)
  <2>1. Counted \subseteq InFlight
    BY DEF Counted, InFlight, Planning
  <2> QED BY <2>1, AheadBounded, FS_Subset DEF GaugeInv
<1>2. Cardinality(Counted') <= Cardinality(Counted) /\ Cardinality(Counted') \in Nat
      /\ Cardinality(Counted) \in Nat
  BY <1>1, FS_Subset, FS_CardinalityType
<1> QED BY <1>2 DEF GaugeInv, BaseInv, TypeInv

LEMMA GaugeInductive == GaugeInv /\ [Next]_vars => GaugeInv'
<1> SUFFICES ASSUME GaugeInv, [Next]_vars, BaseInv'
             PROVE  gauge' >= Cardinality(Counted')
  BY BaseInductive DEF GaugeInv
<1> BaseInv /\ TypeInv /\ pc \in [Handler -> Place] /\ gauge \in Int /\ gauge' \in Int
  BY DEF GaugeInv, BaseInv, TypeInv
<1>1. IsFiniteSet(Counted) /\ Cardinality(Counted) \in Nat
  <2>1. Counted \subseteq InFlight
    BY DEF Counted, InFlight, Planning
  <2> QED BY <2>1, AheadBounded, FS_Subset, FS_CardinalityType
<1>2. ASSUME NEW h \in Handler, UpsertStudent(h)
      PROVE  gauge' >= Cardinality(Counted')
  <2>1. gauge' = gauge + 1 /\ pc' = [pc EXCEPT ![h] = "build"]
    BY <1>2 DEF UpsertStudent, Goto
  <2>2. Counted' \subseteq Counted \union {h}
    BY <2>1 DEF Counted
  <2>3. IsFiniteSet(Counted \union {h}) /\ Cardinality(Counted \union {h}) \in Nat
        /\ Cardinality(Counted \union {h}) <= Cardinality(Counted) + 1
    BY <1>1, AddOne
  <2>4. Cardinality(Counted') <= Cardinality(Counted \union {h}) /\ Cardinality(Counted') \in Nat
    BY <2>2, <2>3, FS_Subset, FS_CardinalityType
  <2> QED BY <1>1, <2>1, <2>3, <2>4 DEF GaugeInv
<1>3. ASSUME NEW h \in Handler, gauge' = gauge - 1, pc[h] \in Planning,
             pc' = [pc EXCEPT ![h] = pc'[h]], pc'[h] \notin Planning
      PROVE  gauge' >= Cardinality(Counted')
  <2>1. Counted' \subseteq Counted \ {h} /\ h \in Counted
    BY <1>3 DEF Counted
  <2>2. IsFiniteSet(Counted \ {h}) /\ Cardinality(Counted \ {h}) = Cardinality(Counted) - 1
    BY <1>1, <2>1, FS_RemoveElement
  <2>3. Cardinality(Counted') <= Cardinality(Counted \ {h}) /\ Cardinality(Counted') \in Nat
    BY <2>1, <2>2, FS_Subset, FS_CardinalityType
  <2> QED BY <1>1, <1>3, <2>2, <2>3 DEF GaugeInv
<1>4. ASSUME NEW h \in Handler, InsertCurriculum(h) \/ EnsureStudent(h)
      PROVE  gauge' >= Cardinality(Counted')
  <2>1. gauge' = gauge - 1 /\ pc[h] \in Planning
    BY <1>4 DEF InsertCurriculum, EnsureStudent, Planning
  <2>2. pc' = [pc EXCEPT ![h] = pc'[h]] /\ pc'[h] \in {"course", "idle"}
    BY <1>4 DEF InsertCurriculum, EnsureStudent, Finish, Goto
  <2> QED BY <1>3, <2>1, <2>2 DEF Planning
<1>5. ASSUME gauge' = gauge, \A g \in Handler : pc'[g] \in Planning => pc[g] \in Planning
      PROVE  gauge' >= Cardinality(Counted')
  BY <1>5, GaugeStays DEF Counted
<1>6. ASSUME NEW h \in Handler, StepOf(h), ~UpsertStudent(h),
             ~InsertCurriculum(h), ~EnsureStudent(h)
      PROVE  gauge' = gauge /\ (pc'[h] \in Planning => pc[h] \in Planning)
  <2>1. CASE OpenStreamDirect(h) \/ CreateDirect(h) \/ ListCourses(h)
             \/ (\E j \in Job : OpenStream(h, j)) \/ \E q \in Plan : RegenerateRoadmap(h, q)
    BY <2>1 DEF OpenStreamDirect, CreateDirect, ListCourses, OpenStream,
                RegenerateRoadmap, Begin, Goto, AfterSync, memory, Planning
  <2>2. CASE StartStream(h) \/ BuildCurriculum(h) \/ Deactivate(h) \/ ReadCourse(h)
             \/ Report(h) \/ Leave(h)
    BY <2>2 DEF StartStream, BuildCurriculum, Deactivate, ReadCourse, Report, Leave,
                Finish, Goto, AfterSync, memory, Planning
  <2>3. CASE UpsertCourse(h) \/ UpsertModule(h) \/ SaveMasterRoadmap(h) \/ SaveCourseRoadmap(h)
    BY <2>3 DEF UpsertCourse, UpsertModule, SaveMasterRoadmap, SaveCourseRoadmap,
                Finish, Goto, memory, Planning
  <2>4. CASE Refused(h) \/ Fail(h)
    BY <2>4 DEF Refused, Fail, Failing, Finish, Goto, Planning
  <2> QED BY <1>6, <2>1, <2>2, <2>3, <2>4 DEF StepOf, Handle
<1>7. ASSUME NEW h \in Handler, StepOf(h)
      PROVE  gauge' >= Cardinality(Counted')
  <2>1. \A g \in Handler \ {h} : pc'[g] = pc[g]
    BY <1>7, StepsAreOnes DEF Stands
  <2> QED BY <1>2, <1>4, <1>5, <1>6, <1>7, <2>1
<1>8. CASE Restart
  <2>1. Counted' = {} /\ gauge' = 0
    BY <1>8 DEF Restart, Counted, Planning
  <2> QED BY <2>1, FS_EmptySet
<1>9. CASE UNCHANGED vars \/ (\E j \in Job : CreateIntent(j)) \/ \E p \in Plan : DeleteCourse(p)
  BY <1>5, <1>9 DEF vars, CreateIntent, DeleteCourse, memory
<1> QED BY <1>7, <1>8, <1>9, StepsByKind

LEMMA NewestOfPlans ==
    ASSUME BaseInv, NEW p \in Planned, p = Max(Planned)
    PROVE  p = Cardinality(Planned)
<1>1. Planned = 1..Cardinality(Planned) /\ Cardinality(Planned) \in Nat
  BY AheadBounded DEF BaseInv, Numbered
<1>2. Cardinality(Planned) \in Planned /\ \A q \in Planned : Cardinality(Planned) >= q
  BY <1>1
<1>3. Max(Planned) \in Planned /\ \A q \in Planned : Max(Planned) >= q
  BY <1>2 DEF Max
<1> QED BY <1>1, <1>2, <1>3

LEMMA AtMostOne ==
    ASSUME NEW S, \A p, q \in S : p = q
    PROVE  Cardinality(S) <= 1
<1>1. CASE S = {}
  <2>1. Cardinality({}) = 0
    BY FS_EmptySet
  <2> QED BY <1>1, <2>1
<1>2. ASSUME NEW p \in S
      PROVE  Cardinality(S) <= 1
  <2>1. S = {p}
    OBVIOUS
  <2>2. Cardinality({p}) = 1
    BY FS_Singleton
  <2> QED BY <2>1, <2>2
<1>3. S = {} \/ \E p \in S : TRUE
  OBVIOUS
<1> QED BY <1>1, <1>2, <1>3

\* Creations leave the plans and the books in order: the newest plan is the one
\* that loads, unless a creation is or was cut between the two statements of
\* _persist_curriculum; a job makes one course; and the gauge never says less than
\* is being planned, though it may say more.
THEOREM PlansAndBooksInOrder == Spec => []CreationsInOrder
<1> DEFINE IInv == NewestInv /\ OneActiveInv /\ OnceInv /\ GaugeInv
<1>1. Init => IInv
  <2>1. Init => \A h \in Handler : pc[h] = "idle"
    BY DEF Init
  <2>2. Init => \A p \in Plan : curricula[p].status = "absent"
    BY DEF Init, NoPlan
  <2>3. Init => Planned = {} /\ Counted = {} /\ gauge = 0
    BY <2>1, <2>2 DEF Planned, Counted, Planning, Init
  <2>4. Init => gauge >= Cardinality(Counted)
    BY <2>3, FS_EmptySet
  <2>5. Init => NewestInv /\ OnceInv
    BY <2>1, <2>3, InitBase DEF NewestInv, OnceInv
  <2>6. Init => OneActiveInv
    BY <2>1, <2>2, InitBase DEF OneActiveInv
  <2> QED BY <2>4, <2>5, <2>6, InitBase DEF GaugeInv
<1>2. IInv /\ [Next]_vars => IInv'
  BY NewestInductive, OneActiveInductive, OnceInductive, GaugeInductive
<1>3. IInv => CreationsInOrder
  <2> SUFFICES ASSUME IInv PROVE NewestPlanLoads /\ OneCoursePerJob /\ GaugeCovers
    BY DEF CreationsInOrder
  <2>1. \A p \in Planned :
          p = Max(Planned) /\ ~torn /\ ~(\E h \in Handler : Tears(h))
            => curricula[p].status \in {"active", "deleted"}
    BY NewestOfPlans DEF NewestInv, Steady
  <2>2. limit = 1 => Cardinality({p \in Plan : curricula[p].status = "active"}) <= 1
    BY AtMostOne DEF OneActiveInv
  <2>3. OneCoursePerJob
    BY DEF OnceInv, OneCoursePerJob
  <2>4. GaugeCovers
    BY DEF GaugeInv, GaugeCovers, Counted
  <2> QED BY <2>1, <2>2, <2>3, <2>4 DEF NewestPlanLoads
<1> QED BY <1>1, <1>2, <1>3, PTL DEF Spec

-----------------------------------------------------------------------------
(* What is computed step by step                                           *)
(*                                                                         *)
(* The provers have no induction: it comes from the well-foundedness of <  *)
(* on the numbers, as a least number and as a set that holds 0 and with    *)
(* each number the next.                                                   *)

LEMMA LeastOf ==
    ASSUME NEW S, S \subseteq Nat, S # {}
    PROVE  \E m \in S : \A n \in S : m <= n
<1> DEFINE R == OpToRel(<, Nat)
<1>1. IsWellFoundedOn(R, Nat)
  BY NatLessThanWellFounded, Zenon
<1> HIDE DEF R
<1>2. PICK m \in S : \A n \in S : ~(<<n, m>> \in R)
  BY <1>1, WFMin
<1>3. \A n \in S : ~(n < m)
  BY <1>2 DEF R, OpToRel
<1> QED BY <1>2, <1>3

\* Induction on the numbers up to n.
LEMMA UpTo ==
    ASSUME NEW n \in Nat, NEW S, 0 \in S, \A i \in 1..n : i - 1 \in S => i \in S
    PROVE  \A i \in 0..n : i \in S
<1> SUFFICES ASSUME NEW k \in 0..n, k \notin S PROVE FALSE
  OBVIOUS
<1> DEFINE C == {i \in 0..n : i \notin S}
<1>0. C \subseteq Nat /\ k \in C
  OBVIOUS
<1> HIDE DEF C
<1>4. C # {}
  BY <1>0
<1>1. PICK m \in C : \A i \in C : m <= i
  BY <1>0, <1>4, LeastOf
<1> USE DEF C
<1>2. m \in 1..n /\ m \notin S
  BY <1>1
<1>3. m - 1 \in S
  BY <1>1, <1>2
<1> QED BY <1>2, <1>3

\* g is what comes of base when the steps 1..n are taken one after the other.
Takes(g, n, X, base, step) ==
    /\ g \in [0..n -> X] /\ g[0] = base
    /\ \A i \in 1..n : g[i] = step[i][g[i - 1]]

LEMMA Stepwise ==
    ASSUME NEW n \in Nat, NEW X, NEW base \in X, NEW step \in [1..n -> [X -> X]]
    PROVE  \E g : Takes(g, n, X, base, step)
<1> DEFINE S == {k \in 0..n : \E g : Takes(g, k, X, base, step)}
<1>1. 0 \in S
  <2> DEFINE g == [i \in 0..0 |-> base]
  <2>1. Takes(g, 0, X, base, step)
    BY DEF Takes
  <2> HIDE DEF g
  <2> QED BY <2>1
<1>2. ASSUME NEW k \in 1..n, k - 1 \in S PROVE k \in S
  <2>1. PICK g : Takes(g, k - 1, X, base, step)
    BY <1>2
  <2>2. /\ g \in [0..(k - 1) -> X] /\ g[0] = base
        /\ \A i \in 1..(k - 1) : g[i] = step[i][g[i - 1]]
    BY <2>1 DEF Takes
  <2> DEFINE h == [i \in 0..k |-> IF i = k THEN step[k][g[k - 1]] ELSE g[i]]
  <2>3. k - 1 \in 0..(k - 1) /\ g[k - 1] \in X /\ step[k] \in [X -> X]
    BY <1>2, <2>2
  <2>4. step[k][g[k - 1]] \in X
    BY <2>3
  <2>5. h \in [0..k -> X]
    BY <1>2, <2>2, <2>4
  <2>6. h[0] = base
    BY <1>2, <2>2
  <2>7. \A i \in 1..k : h[i] = step[i][h[i - 1]]
    BY <1>2, <2>2
  <2> HIDE DEF h
  <2>8. Takes(h, k, X, base, step)
    BY <2>5, <2>6, <2>7 DEF Takes
  <2>9. k \in 0..n
    BY <1>2
  <2> QED BY <2>8, <2>9
<1> HIDE DEF S
<1>3. \A i \in 0..n : i \in S
  BY <1>1, <1>2, UpTo
<1> QED BY <1>3 DEF S

-----------------------------------------------------------------------------
(* The building of a plan                                                  *)
(*                                                                         *)
(* What a creation stores is the plan of the curriculum architect,         *)
(* CurriculumPlan under the name Planner: each theorem states what it      *)
(* assumes of the constants as PlanBounds.                                 *)

CONSTANTS Paces, Concept, Blank, Needs, Excluded, Studied, Coverages, StepIds, MaxModules, None

VARIABLES pace, no_prior, declared, recorded, skills, known, mastery, plan_pc, attempt,
          concepts, raw_modules, confident, plan, short, repaired

Planner == INSTANCE CurriculumPlan WITH pc <- plan_pc

\* What CurriculumPlan assumes of its constants.
PlanBounds == MaxModules \in Nat /\ Coverages \subseteq Seq(Concept)

\* The entries of a list before it is fixed, and of one that was.
Module == [id : Nat, concept : Concept, step : StepIds \union Nat]
Entry  == [concept : Concept \union {Blank}, step : StepIds \union Nat] \union Module

\* The student's records are as at first, and the profile trusts what they say.
StudentOK ==
    /\ recorded \in [Concept -> Planner!Scores \union {None}]
    /\ skills \in [Concept -> {{}, {40}, {92}}]
    /\ plan_pc # "profile" =>
         known = Planner!AssumedKnown /\ mastery = [c \in Concept |-> Planner!Seed(c)]

\* The modules have been fixed from here on; they repeat nothing unless their list was
\* too short and replaced.
Fixed == {"lengthen", "build", "repair", "accept", "built"}

ListOK ==
    /\ concepts \in Seq(Concept) /\ raw_modules \in Seq(Entry)
    /\ plan_pc \in Fixed => raw_modules \in Seq(Module)
    /\ plan_pc \in Fixed /\ Planner!Repeats(raw_modules) => short /\ ~repaired
    /\ repaired => plan_pc \in {"accept", "built"}

\* Of the modules of a list a plan leaves out only some about given concepts, and shows
\* each of those it has among the modules of its step of the roadmap.
Known == {c \in known : mastery[c] # None /\ mastery[c] >= Planner!Threshold}

LeavesOutOf(list, ready, gone) ==
    \A i \in 1..Len(list) :
        (\A j \in 1..Len(ready) : ready[j].concept # list[i].concept)
            => list[i].concept \in gone

ShownIn(road, ready) ==
    \A i \in 1..Len(ready) : \E j \in 1..Len(road[ready[i].step]) :
        road[ready[i].step][j].concept = ready[i].concept

\* A plan has what its list comes to.
PlanOK ==
    /\ \E ready, road, path, found, ok :
         plan = [modules |-> ready, roadmap |-> road, learning_path |-> path,
                 issues |-> found, passed |-> ok]
    /\ plan_pc \in {"repair", "accept", "built"} =>
         /\ Planner!Repeats(plan.modules) => short /\ ~repaired
         /\ LeavesOutOf(raw_modules, plan.modules, Known)
         /\ ShownIn(plan.roadmap, plan.modules)
         /\ ~repaired => plan.learning_path = Planner!Path(plan.modules)

PlanInv == StudentOK /\ ListOK /\ PlanOK

LEMMA PickedStep ==
    ASSUME NEW T, NEW list \in Seq(T), NEW positions
    PROVE  \E f \in [0..Len(list) -> Seq(T)] :
             /\ f[0] = <<>> /\ Planner!Picked(list, positions) = f[Len(list)]
             /\ \A i \in 1..Len(list) :
                  f[i] = IF i \in positions THEN Append(f[i - 1], list[i]) ELSE f[i - 1]
<1> DEFINE n == Len(list)
           step == [i \in 1..n |-> [x \in Seq(T) |-> IF i \in positions THEN Append(x, list[i]) ELSE x]]
           Rule(f) == [i \in 0..n |-> IF i = 0 THEN <<>>
                                      ELSE IF i \in positions THEN Append(f[i - 1], list[i]) ELSE f[i - 1]]
           F == CHOOSE f : f = Rule(f)
<1>1. n \in Nat /\ \A i \in 1..n : list[i] \in T
  OBVIOUS
<1>2. step \in [1..n -> [Seq(T) -> Seq(T)]] /\ <<>> \in Seq(T)
  BY <1>1
<1>3. PICK g \in [0..n -> Seq(T)] : g[0] = <<>> /\ \A i \in 1..n : g[i] = step[i][g[i - 1]]
  <2>1. \E g : Takes(g, n, Seq(T), <<>>, step)
    <3> HIDE DEF step, n
    <3> QED BY <1>1, <1>2, Stepwise
  <2> HIDE DEF step, n
  <2> QED BY <2>1 DEF Takes
<1>4. \A i \in 1..n : g[i] = IF i \in positions THEN Append(g[i - 1], list[i]) ELSE g[i - 1]
  <2> TAKE i \in 1..n
  <2>1. i - 1 \in 0..n /\ g[i - 1] \in Seq(T)
    BY <1>1, <1>3
  <2> QED BY <1>3, <2>1
<1>5. g = Rule(g)
  <2> HIDE DEF n, step
  <2>1. \A i \in 0..n : g[i] = IF i = 0 THEN <<>>
                 ELSE IF i \in positions THEN Append(g[i - 1], list[i]) ELSE g[i - 1]
    <3> TAKE i \in 0..n
    <3>1. CASE i = 0
      BY <1>3, <3>1
    <3>2. CASE i # 0
      <4>1. i \in 1..n
        BY <1>1, <3>2
      <4> QED BY <1>4, <3>2, <4>1
    <3> QED BY <3>1, <3>2
  <2>2. g = [i \in 0..n |-> g[i]]
    BY <1>3
  <2> QED BY <2>1, <2>2
<1> HIDE DEF Rule
<1>6. F = Rule(F)
  BY <1>5
<1> HIDE DEF F
<1>7. F[0] = <<>> /\ \A i \in 1..n : F[i] = IF i \in positions THEN Append(F[i - 1], list[i]) ELSE F[i - 1]
  <2> HIDE DEF n
  <2>1. 0 \in 0..n /\ \A i \in 1..n : i \in 0..n /\ i # 0
    BY <1>1
  <2>2. \A i \in 0..n : F[i] = IF i = 0 THEN <<>>
                 ELSE IF i \in positions THEN Append(F[i - 1], list[i]) ELSE F[i - 1]
    BY <1>6 DEF Rule
  <2> QED BY <2>1, <2>2
<1>8. F \in [0..n -> Seq(T)]
  <2>1. \A i \in 0..n : F[i] \in Seq(T)
    <3> DEFINE S == {i \in 0..n : F[i] \in Seq(T)}
    <3> HIDE DEF n
    <3>1. 0 \in S
      <4>1. 0 \in 0..n
        BY <1>1
      <4> QED BY <1>2, <1>7, <4>1
    <3>2. ASSUME NEW i \in 1..n, i - 1 \in S PROVE i \in S
      <4>1. i \in 0..n /\ F[i - 1] \in Seq(T) /\ list[i] \in T
        BY <1>1, <3>2
      <4>2. Append(F[i - 1], list[i]) \in Seq(T)
        BY <4>1
      <4>3. F[i] = IF i \in positions THEN Append(F[i - 1], list[i]) ELSE F[i - 1]
        BY <1>7
      <4>4. F[i] \in Seq(T)
        BY <4>1, <4>2, <4>3
      <4> QED BY <4>1, <4>4
    <3> HIDE DEF S
    <3>3. \A i \in 0..n : i \in S
      BY <1>1, <3>1, <3>2, UpTo
    <3> QED BY <3>3 DEF S
  <2>2. F = [i \in 0..n |-> F[i]]
    BY <1>6 DEF Rule
  <2> QED BY <2>1, <2>2
<1>9. Planner!Picked(list, positions) = F[n]
  BY DEF Planner!Picked, F, Rule
<1> QED BY <1>7, <1>8, <1>9

\* got is what a list of n entries has at some positions: the p[k]-th is got[k].
Picks(list, n, positions, got, p) ==
    /\ p \in [1..Len(got) -> 1..n]
    /\ \A k \in 1..Len(got) : p[k] \in positions /\ got[k] = list[p[k]]
    /\ \A j, k \in 1..Len(got) : j < k => p[j] < p[k]
    /\ \A i \in 1..n : i \in positions => \E k \in 1..Len(got) : p[k] = i

LEMMA PicksNext ==
    ASSUME NEW T, NEW list \in Seq(T), NEW positions, NEW n \in 1..Len(list),
           NEW got \in Seq(T), NEW p, Picks(list, n - 1, positions, got, p)
    PROVE  /\ n \notin positions => Picks(list, n, positions, got, p)
           /\ n \in positions => \E q : Picks(list, n, positions, Append(got, list[n]), q)
<1> DEFINE x == Len(got)
           y == Len(list)
<1>1. x \in Nat /\ y \in Nat /\ list[n] \in T
  OBVIOUS
<1>2. /\ p \in [1..x -> 1..(n - 1)]
      /\ \A k \in 1..x : p[k] \in positions /\ got[k] = list[p[k]]
      /\ \A j, k \in 1..x : j < k => p[j] < p[k]
      /\ \A i \in 1..(n - 1) : i \in positions => \E k \in 1..x : p[k] = i
  BY DEF Picks
<1>3. ASSUME n \notin positions PROVE Picks(list, n, positions, got, p)
  <2> HIDE DEF x, y
  <2>1. n \in 1..y
    BY DEF y
  <2>2. p \in [1..x -> 1..n]
    BY <1>1, <1>2, <2>1
  <2>3. \A i \in 1..n : i \in positions => \E k \in 1..x : p[k] = i
    <3> TAKE i \in 1..n
    <3> HAVE i \in positions
    <3>1. i # n
      BY <1>3
    <3>2. i \in 1..(n - 1)
      BY <1>1, <2>1, <3>1
    <3> QED BY <1>2, <3>2
  <2> QED BY <1>2, <2>2, <2>3 DEF Picks, x
<1>4. ASSUME n \in positions PROVE \E q : Picks(list, n, positions, Append(got, list[n]), q)
  <2> DEFINE more == Append(got, list[n])
             q == [k \in 1..(x + 1) |-> IF k = x + 1 THEN n ELSE p[k]]
  <2>1. /\ Len(more) = x + 1 /\ more[x + 1] = list[n]
        /\ \A k \in 1..x : more[k] = got[k]
    BY <1>1
  <2> HIDE DEF more, x, y
  <2>2. n \in 1..y
    BY DEF y
  <2>3. q[x + 1] = n /\ \A k \in 1..x : q[k] = p[k]
    BY <1>1
  <2>4. q \in [1..(x + 1) -> 1..n]
    BY <1>1, <1>2, <2>2
  <2> HIDE DEF q
  <2>5. ASSUME NEW k \in 1..(x + 1) PROVE q[k] \in positions /\ more[k] = list[q[k]]
    <3>1. CASE k = x + 1
      BY <1>4, <2>1, <2>3, <3>1
    <3>2. CASE k # x + 1
      <4>1. k \in 1..x
        BY <1>1, <3>2
      <4> QED BY <1>2, <2>1, <2>3, <4>1
    <3> QED BY <3>1, <3>2
  <2>6. ASSUME NEW j \in 1..(x + 1), NEW k \in 1..(x + 1), j < k PROVE q[j] < q[k]
    <3>1. j \in 1..x /\ q[j] = p[j] /\ p[j] \in 1..(n - 1)
      BY <1>1, <1>2, <2>3, <2>6
    <3>2. CASE k = x + 1
      BY <2>2, <2>3, <1>1, <3>1, <3>2
    <3>3. CASE k # x + 1
      <4>1. k \in 1..x /\ q[k] = p[k]
        BY <1>1, <2>3, <3>3
      <4> QED BY <1>2, <2>6, <3>1, <4>1
    <3> QED BY <3>2, <3>3
  <2>7. ASSUME NEW i \in 1..n, i \in positions PROVE \E k \in 1..(x + 1) : q[k] = i
    <3>1. CASE i = n
      <4>1. x + 1 \in 1..(x + 1)
        BY <1>1
      <4> QED BY <2>3, <3>1, <4>1
    <3>2. CASE i # n
      <4>1. i \in 1..(n - 1)
        BY <1>1, <2>2, <3>2
      <4>2. PICK k \in 1..x : p[k] = i
        BY <1>2, <2>7, <4>1
      <4>3. k \in 1..(x + 1)
        BY <1>1
      <4> QED BY <2>3, <4>2, <4>3
    <3> QED BY <3>1, <3>2
  <2>8. Picks(list, n, positions, more, q)
    BY <2>1, <2>4, <2>5, <2>6, <2>7 DEF Picks
  <2> QED BY <2>8 DEF more
<1> QED BY <1>3, <1>4

\* Picked keeps the entries at its positions, all of them and in their order.
LEMMA PickedKeeps ==
    ASSUME NEW T, NEW list \in Seq(T), NEW positions
    PROVE  /\ Planner!Picked(list, positions) \in Seq(T)
           /\ \E p : Picks(list, Len(list), positions, Planner!Picked(list, positions), p)
<1>1. PICK f \in [0..Len(list) -> Seq(T)] :
             /\ f[0] = <<>> /\ Planner!Picked(list, positions) = f[Len(list)]
             /\ \A i \in 1..Len(list) :
                  f[i] = IF i \in positions THEN Append(f[i - 1], list[i]) ELSE f[i - 1]
  BY PickedStep
<1> DEFINE y == Len(list)
           S == {n \in 0..y : \E p : Picks(list, n, positions, f[n], p)}
<1>2. y \in Nat /\ 0 \in 0..y /\ y \in 0..y
  OBVIOUS
<1>3. 0 \in S
  <2>1. Picks(list, 0, positions, <<>>, <<>>)
    BY DEF Picks
  <2> QED BY <1>1, <1>2, <2>1
<1>4. ASSUME NEW n \in 1..y, n - 1 \in S PROVE n \in S
  <2>1. n \in 0..y /\ n - 1 \in 0..y
    BY <1>2
  <2>2. f[n - 1] \in Seq(T)
    BY <1>1, <2>1
  <2>3. PICK p : Picks(list, n - 1, positions, f[n - 1], p)
    BY <1>4
  <2>4. f[n] = IF n \in positions THEN Append(f[n - 1], list[n]) ELSE f[n - 1]
    BY <1>1
  <2>5. \E q : Picks(list, n, positions, f[n], q)
    BY <2>2, <2>3, <2>4, PicksNext
  <2> QED BY <2>1, <2>5
<1> HIDE DEF S
<1>5. y \in S
  <2> HIDE DEF y
  <2>1. \A n \in 0..y : n \in S
    BY <1>2, <1>3, <1>4, UpTo
  <2> QED BY <1>2, <2>1
<1> QED BY <1>1, <1>2, <1>5 DEF S

\* What is fixed of a list is made of modules.
LEMMA FixedIsModules ==
    ASSUME NEW list \in Seq(Entry)
    PROVE  Planner!StructuralFix(list) \in Seq(Module)
<1> DEFINE n == Len(list)
           X == [out : Seq(Module), step : Nat, prev : Concept \union {Blank}]
           base == [out |-> <<>>, step |-> 1, prev |-> Blank]
           step == [i \in 1..n |-> [x \in X |-> Planner!Entered(x, list[i], i)]]
           Rule(f) == [i \in 0..n |-> IF i = 0 THEN [out |-> <<>>, step |-> 1, prev |-> Blank]
                                      ELSE Planner!Entered(f[i - 1], list[i], i)]
           F == CHOOSE f : f = Rule(f)
<1>1. n \in Nat /\ \A i \in 1..n : list[i] \in Entry
  OBVIOUS
<1>2. ASSUME NEW x \in X, NEW i \in 1..n PROVE Planner!Entered(x, list[i], i) \in X
  <2> DEFINE m == list[i]
             next == IF m.step # 0 \/ m.concept = x.prev THEN x.step ELSE x.step + 1
             taken == IF m.step # 0 THEN m.step ELSE next
  <2>1. m \in Entry /\ i \in Nat
    BY <1>1
  <2>2. m.concept \in Concept \union {Blank} /\ m.step \in StepIds \union Nat
    BY <2>1 DEF Entry, Module
  <2>3. x.out \in Seq(Module) /\ x.step \in Nat /\ x.prev \in Concept \union {Blank}
    OBVIOUS
  <2> HIDE DEF m
  <2>4. next \in Nat
    BY <2>3
  <2>5. taken \in StepIds \union Nat
    BY <2>2, <2>4
  <2> HIDE DEF next, taken
  <2>6. CASE m.concept = Blank
    BY <2>6 DEF Planner!Entered, m
  <2>7. CASE m.concept # Blank
    <3> DEFINE module == [id |-> i, concept |-> m.concept, step |-> taken]
    <3>1. module \in Module
      BY <2>1, <2>2, <2>5, <2>7 DEF Module
    <3> HIDE DEF module
    <3>2. Append(x.out, module) \in Seq(Module)
      BY <2>3, <3>1
    <3>3. [out |-> Append(x.out, module), step |-> next, prev |-> m.concept] \in X
      BY <2>2, <2>4, <3>2
    <3>4. Planner!Entered(x, list[i], i)
            = [out |-> Append(x.out, module), step |-> next, prev |-> m.concept]
      BY <2>7 DEF Planner!Entered, m, next, taken, module
    <3> QED BY <3>3, <3>4
  <2> QED BY <2>6, <2>7
<1>3. base \in X
  OBVIOUS
<1>4. step \in [1..n -> [X -> X]]
  <2> HIDE DEF X, n
  <2> QED BY <1>2
<1>5. PICK g : g \in [0..n -> X] /\ g[0] = base /\ \A i \in 1..n : g[i] = step[i][g[i - 1]]
  <2> HIDE DEF step, n, base, X
  <2>1. \E g : Takes(g, n, X, base, step)
    BY <1>1, <1>3, <1>4, Stepwise
  <2> QED BY <2>1 DEF Takes
<1>6. \A i \in 1..n : g[i] = Planner!Entered(g[i - 1], list[i], i)
  <2> TAKE i \in 1..n
  <2> HIDE DEF X, n
  <2>1. i - 1 \in 0..n
    BY <1>1
  <2>2. g[i - 1] \in X
    BY <1>5, <2>1
  <2> QED BY <1>5, <2>2
<1>7. g = Rule(g)
  <2> HIDE DEF n, step, X
  <2>1. ASSUME NEW i \in 0..n
        PROVE  g[i] = IF i = 0 THEN base ELSE Planner!Entered(g[i - 1], list[i], i)
    <3>1. CASE i = 0
      BY <1>5, <3>1
    <3>2. CASE i # 0
      <4>1. i \in 1..n
        BY <1>1, <3>2
      <4> QED BY <1>6, <3>2, <4>1
    <3> QED BY <3>1, <3>2
  <2>2. g = [i \in 0..n |-> g[i]]
    BY <1>5
  <2> QED BY <2>1, <2>2
<1> HIDE DEF Rule
<1>8. F = Rule(F)
  BY <1>7
<1> HIDE DEF F
<1>9. \A i \in 0..n : F[i] = IF i = 0 THEN base ELSE Planner!Entered(F[i - 1], list[i], i)
  <2> HIDE DEF n
  <2> QED BY <1>8 DEF Rule
<1>10. \A i \in 0..n : F[i] \in X
  <2> DEFINE S == {i \in 0..n : F[i] \in X}
  <2> HIDE DEF n, X
  <2>1. 0 \in S
    <3>1. 0 \in 0..n
      BY <1>1
    <3>2. F[0] = base
      BY <1>9, <3>1
    <3> QED BY <1>3, <3>1, <3>2
  <2>2. ASSUME NEW i \in 1..n, i - 1 \in S PROVE i \in S
    <3>1. i \in 0..n /\ i # 0 /\ F[i - 1] \in X
      BY <1>1, <2>2
    <3>2. F[i] = Planner!Entered(F[i - 1], list[i], i)
      BY <1>9, <3>1
    <3> QED BY <1>2, <3>1, <3>2
  <2> HIDE DEF S
  <2>3. \A i \in 0..n : i \in S
    BY <1>1, <2>1, <2>2, UpTo
  <2> QED BY <2>3 DEF S
<1>11. Planner!StructuralFix(list) = F[n].out
  BY DEF Planner!StructuralFix, F, Rule
<1>12. n \in 0..n
  BY <1>1
<1>13. F[n] \in X
  <2> HIDE DEF n, X
  <2> QED BY <1>10, <1>12
<1> QED BY <1>11, <1>13

\* A list whose entries come from different places of one without repeats has none.
LEMMA PickedRepeats ==
    ASSUME NEW list \in Seq(Module), NEW positions, Planner!Repeats(Planner!Picked(list, positions))
    PROVE  \E i \in positions \intersect 1..Len(list), j \in positions \intersect 1..Len(list) :
             j < i /\ list[i].concept = list[j].concept
<1> DEFINE got == Planner!Picked(list, positions)
           x == Len(got)
           y == Len(list)
<1>1. got \in Seq(Module) /\ \E p : Picks(list, y, positions, got, p)
  BY PickedKeeps
<1>2. PICK p : Picks(list, y, positions, got, p)
  BY <1>1
<1>3. PICK i \in 1..x : \E j \in 1..(i - 1) : got[i].concept = got[j].concept
  BY DEF Planner!Repeats
<1>4. PICK j \in 1..(i - 1) : got[i].concept = got[j].concept
  BY <1>3
<1> HIDE DEF got
<1>5. x \in Nat
  BY <1>1
<1> HIDE DEF x, y
<1>6. j \in 1..x /\ j < i
  BY <1>5
<1>7. /\ p[i] \in 1..y /\ p[i] \in positions /\ got[i] = list[p[i]]
      /\ p[j] \in 1..y /\ p[j] \in positions /\ got[j] = list[p[j]]
      /\ p[j] < p[i]
  BY <1>2, <1>6 DEF Picks, x
<1>8. list[p[i]].concept = list[p[j]].concept
  BY <1>4, <1>7
<1> QED BY <1>7, <1>8 DEF y

\* Deduplicating leaves no two modules about one concept.
LEMMA DeduplicatedOnce ==
    ASSUME NEW list \in Seq(Module)
    PROVE  Planner!Deduplicate(list) \in Seq(Module) /\ ~Planner!Repeats(Planner!Deduplicate(list))
<1> DEFINE firsts == {i \in 1..Len(list) : \A j \in 1..(i - 1) : list[j].concept # list[i].concept}
<1>1. Planner!Deduplicate(list) = Planner!Picked(list, firsts)
  BY DEF Planner!Deduplicate
<1>2. Planner!Picked(list, firsts) \in Seq(Module)
  <2> HIDE DEF firsts
  <2> QED BY PickedKeeps
<1>3. ASSUME Planner!Repeats(Planner!Picked(list, firsts)) PROVE FALSE
  <2>1. PICK i \in firsts \intersect 1..Len(list), j \in firsts \intersect 1..Len(list) :
           j < i /\ list[i].concept = list[j].concept
    <3> HIDE DEF firsts
    <3> QED BY <1>3, PickedRepeats
  <2>2. j \in 1..(i - 1)
    BY <2>1
  <2> QED BY <2>1, <2>2
<1> QED BY <1>1, <1>2, <1>3

\* Compressing repeats nothing that was not repeated, and leaves out what is mastered.
LEMMA CompressedKeeps ==
    ASSUME NEW list \in Seq(Module)
    PROVE  /\ Planner!Compress(list) \in Seq(Module)
           /\ Planner!Repeats(Planner!Compress(list)) => Planner!Repeats(list)
           /\ LeavesOutOf(list, Planner!Compress(list), Known)
<1> DEFINE open == {i \in 1..Len(list) : ~Planner!Mastered(list[i])}
           kept == Planner!Picked(list, open)
           y == Len(list)
<1>1. Planner!Compress(list) = IF kept = <<>> THEN list ELSE kept
  BY DEF Planner!Compress
<1>2. kept \in Seq(Module)
  <2> HIDE DEF open
  <2> QED BY PickedKeeps
<1>3. PICK p : Picks(list, y, open, kept, p)
  <2> HIDE DEF open
  <2> QED BY PickedKeeps
<1>4. Planner!Repeats(kept) => Planner!Repeats(list)
  <2> HAVE Planner!Repeats(kept)
  <2>1. PICK i \in open \intersect 1..y, j \in open \intersect 1..y :
           j < i /\ list[i].concept = list[j].concept
    <3> HIDE DEF open
    <3> QED BY PickedRepeats
  <2>2. i \in 1..y /\ j \in 1..(i - 1)
    BY <2>1
  <2> QED BY <2>1, <2>2 DEF Planner!Repeats
<1>5. LeavesOutOf(list, kept, Known)
  <2> SUFFICES ASSUME NEW i \in 1..y, list[i].concept \notin Known,
                      \A j \in 1..Len(kept) : kept[j].concept # list[i].concept
               PROVE  FALSE
    BY DEF LeavesOutOf
  <2>1. i \in open
    BY DEF Planner!Mastered, Known
  <2> HIDE DEF open, kept, y
  <2>2. PICK k \in 1..Len(kept) : p[k] = i
    BY <1>3, <2>1 DEF Picks
  <2>3. kept[k] = list[i]
    BY <1>3, <2>2 DEF Picks
  <2> QED BY <2>3
<1>6. LeavesOutOf(list, list, Known)
  BY DEF LeavesOutOf
<1> HIDE DEF kept
<1> QED BY <1>1, <1>2, <1>4, <1>5, <1>6

\* Numbering the steps leaves the concepts, and every module is among those of its step.
LEMMA RenumberedShown ==
    ASSUME NEW list \in Seq(Module)
    PROVE  /\ Len(Planner!Renumbered(list)) = Len(list)
           /\ \A i \in 1..Len(list) : Planner!Renumbered(list)[i].concept = list[i].concept
           /\ ShownIn(Planner!Roadmap(list), Planner!Renumbered(list))
<1> DEFINE firsts == Planner!FirstOfStep(list)
           first == {i \in 1..Len(list) : \A j \in 1..(i - 1) : list[j].step # list[i].step}
           y == Len(list)
           f == Len(firsts)
           Spot(i) == CHOOSE s \in 1..f : firsts[s].step = list[i].step
           ready == Planner!Renumbered(list)
           road == Planner!Roadmap(list)
<1>1. y \in Nat /\ \A i \in 1..y : list[i] \in Module
  OBVIOUS
<1>2. firsts = Planner!Picked(list, first)
  BY DEF Planner!FirstOfStep
<1>3. ASSUME NEW i \in 1..y PROVE \E s \in 1..f : firsts[s].step = list[i].step
  <2> DEFINE alike == {j \in 1..y : list[j].step = list[i].step}
  <2>1. alike \subseteq Nat /\ alike # {}
    BY <1>1
  <2> HIDE DEF alike
  <2>2. PICK j \in alike : \A k \in alike : j <= k
    BY <2>1, LeastOf
  <2> USE DEF alike
  <2>3. j \in 1..y /\ list[j].step = list[i].step
    BY <2>2
  <2>4. ASSUME NEW k \in 1..(j - 1) PROVE list[k].step # list[j].step
    <3>1. k \in 1..y /\ k < j
      BY <1>1, <2>3
    <3> QED BY <2>2, <2>3, <3>1
  <2>5. j \in first
    BY <2>3, <2>4
  <2>6. PICK p : Picks(list, y, first, firsts, p)
    <3> HIDE DEF first, firsts
    <3> QED BY <1>2, PickedKeeps
  <2> HIDE DEF first, firsts, y
  <2>7. PICK s \in 1..f : p[s] = j
    BY <2>3, <2>5, <2>6 DEF Picks
  <2>8. firsts[s] = list[j]
    BY <2>6, <2>7 DEF Picks
  <2> QED BY <2>3, <2>8
<1>4. ASSUME NEW i \in 1..y PROVE Spot(i) \in 1..f /\ firsts[Spot(i)].step = list[i].step
  <2> HIDE DEF firsts, f, y
  <2> QED BY <1>3
<1> HIDE DEF Spot
<1>5. ready = [i \in 1..y |-> [list[i] EXCEPT !.step = Spot(i)]]
  BY DEF Planner!Renumbered, Spot
<1>6. Len(ready) = y
  <2> HIDE DEF ready, y
  <2> QED BY <1>1, <1>5
<1>7. ASSUME NEW i \in 1..y PROVE ready[i].concept = list[i].concept /\ ready[i].step = Spot(i)
  <2>1. ready[i] = [list[i] EXCEPT !.step = Spot(i)]
    <3> HIDE DEF ready, y
    <3> QED BY <1>5
  <2>2. list[i] \in Module
    BY <1>1
  <2> HIDE DEF ready, y
  <2> QED BY <2>1, <2>2 DEF Module
<1>8. ASSUME NEW i \in 1..y
      PROVE  \E j \in 1..Len(road[ready[i].step]) :
               road[ready[i].step][j].concept = ready[i].concept
  <2> DEFINE own == {k \in 1..Len(list) : list[k].step = firsts[Spot(i)].step}
             shown == Planner!Picked(list, own)
  <2>1. road[ready[i].step] = shown
    <3>1. road = [s \in 1..f |-> Planner!Picked(list, {k \in 1..Len(list) : list[k].step = firsts[s].step})]
      BY DEF Planner!Roadmap
    <3> HIDE DEF road, firsts, f, y
    <3> QED BY <1>4, <1>7, <3>1
  <2>2. i \in own
    <3> HIDE DEF firsts, f
    <3> QED BY <1>4
  <2>3. PICK p : Picks(list, y, own, shown, p)
    <3> HIDE DEF own
    <3> QED BY PickedKeeps
  <2> HIDE DEF own, shown, road, ready, y
  <2>4. PICK k \in 1..Len(shown) : p[k] = i
    BY <2>2, <2>3 DEF Picks
  <2>5. shown[k] = list[i]
    BY <2>3, <2>4 DEF Picks
  <2> QED BY <1>7, <2>1, <2>5
<1>9. ShownIn(road, ready)
  <2> HIDE DEF road, ready, y
  <2> QED BY <1>6, <1>8 DEF ShownIn
<1> QED BY <1>6, <1>7, <1>9

\* What the student is trusted with, and what may be left out for it, stays with it.
LEMMA StudentStays ==
    ASSUME StudentOK, UNCHANGED <<pace, no_prior, declared, recorded, skills, known, mastery>>,
           plan_pc # "profile"
    PROVE  StudentOK' /\ Known' = Known
<1>1. Planner!AssumedKnown' = Planner!AssumedKnown
  BY DEF Planner!AssumedKnown, Planner!Declared, Planner!FromHistory, Planner!Nodes
<1>2. ASSUME NEW c \in Concept PROVE Planner!Seed(c)' = Planner!Seed(c)
  BY <1>1 DEF Planner!Seed, Planner!Weak, Planner!Nodes
<1>3. Known' = Known
  BY DEF Known, Planner!Threshold
<1>4. recorded' = recorded /\ skills' = skills /\ known' = known /\ mastery' = mastery
  OBVIOUS
<1>5. [c \in Concept |-> Planner!Seed(c)]' = [c \in Concept |-> Planner!Seed(c)]
  BY <1>2
<1>6. StudentOK'
  BY <1>1, <1>4, <1>5 DEF StudentOK, Planner!Scores
<1> QED BY <1>3, <1>6

\* What the typed modules and the roadmap have of the list they are made of.
LEMMA MadeOfList ==
    ASSUME NEW list \in Seq(Module)
    PROVE  LET kept == Planner!Compress(list)
               ready == Planner!Renumbered(kept)
           IN  /\ Planner!Repeats(ready) => Planner!Repeats(list)
               /\ LeavesOutOf(list, ready, Known)
               /\ ShownIn(Planner!Roadmap(kept), ready)
<1> DEFINE kept == Planner!Compress(list)
           ready == Planner!Renumbered(kept)
           y == Len(kept)
<1>1. /\ kept \in Seq(Module) /\ LeavesOutOf(list, kept, Known)
      /\ Planner!Repeats(kept) => Planner!Repeats(list)
  BY CompressedKeeps
<1> HIDE DEF kept
<1>2. /\ Len(ready) = y /\ \A i \in 1..y : ready[i].concept = kept[i].concept
      /\ ShownIn(Planner!Roadmap(kept), ready)
  BY <1>1, RenumberedShown
<1>3. y \in Nat
  BY <1>1
<1> HIDE DEF ready
<1>4. Planner!Repeats(ready) => Planner!Repeats(kept)
  <2> HIDE DEF y
  <2> SUFFICES ASSUME NEW i \in 1..y, NEW j \in 1..(i - 1), ready[i].concept = ready[j].concept
               PROVE  Planner!Repeats(kept)
    BY <1>2 DEF Planner!Repeats
  <2>1. j \in 1..y
    BY <1>3
  <2>2. kept[i].concept = kept[j].concept
    BY <1>2, <2>1
  <2> QED BY <2>2 DEF Planner!Repeats, y
<1>5. LeavesOutOf(list, ready, Known)
  <2> HIDE DEF y
  <2>1. ASSUME NEW i \in 1..Len(list), \A j \in 1..y : ready[j].concept # list[i].concept
        PROVE  list[i].concept \in Known
    BY <1>1, <1>2, <2>1 DEF LeavesOutOf, y
  <2> QED BY <1>2, <2>1 DEF LeavesOutOf
<1> QED BY <1>1, <1>2, <1>4, <1>5 DEF kept, ready

LEMMA PlanInit == Planner!Init => PlanInv
<1> SUFFICES ASSUME Planner!Init PROVE PlanInv
  OBVIOUS
<1>1. StudentOK
  <2>1. recorded \in [Concept -> Planner!Scores \union {None}]
    BY DEF Planner!Init
  <2>2. skills \in [Concept -> {{}, {40}, {92}}]
    BY DEF Planner!Init
  <2> QED BY <2>1, <2>2 DEF StudentOK, Planner!Init
<1>2. ListOK
  BY DEF Planner!Init, ListOK, Fixed
<1>3. PlanOK
  BY DEF Planner!Init, PlanOK, Planner!NoPlan
<1> QED BY <1>1, <1>2, <1>3 DEF PlanInv

\* The lists of the LLM may be fixed.
LEMMA RepliesAreEntries ==
    ASSUME PlanBounds, NEW list \in Planner!Replies
    PROVE  list \in Seq(Entry)
<1>1. PICK n \in 1..MaxModules : list \in [1..n -> Planner!RawModule]
  BY DEF Planner!Replies
<1>2. n \in Nat
  BY DEF PlanBounds
<1>3. Planner!RawModule \subseteq Entry
  BY DEF Planner!RawModule, Entry
<1>4. list \in [1..n -> Entry]
  BY <1>1, <1>3
<1> QED BY <1>2, <1>4

LEMMA ProfileKeeps == ASSUME PlanInv, Planner!Profile PROVE PlanInv'
<1> USE DEF Planner!Profile, Planner!student
<1>1. StudentOK'
  <2>1. Planner!AssumedKnown' = Planner!AssumedKnown
    BY DEF Planner!AssumedKnown, Planner!Declared, Planner!FromHistory, Planner!Nodes
  <2>2. ASSUME NEW c \in Concept PROVE Planner!Seed(c)' = Planner!Seed(c)
    BY <2>1 DEF Planner!Seed, Planner!Weak, Planner!Nodes
  <2>3. [c \in Concept |-> Planner!Seed(c)]' = [c \in Concept |-> Planner!Seed(c)]
    BY <2>2
  <2> QED BY <2>1, <2>3 DEF PlanInv, StudentOK, Planner!Scores
<1>2. ListOK'
  BY DEF PlanInv, ListOK, Fixed
<1>3. PlanOK'
  BY DEF PlanInv, PlanOK
<1> QED BY <1>1, <1>2, <1>3 DEF PlanInv

\* A call that changes the modules to entries, if at all, before there is a plan.
LEMMA CallKeeps ==
    ASSUME PlanInv, UNCHANGED <<pace, no_prior, declared, recorded, skills, known, mastery>>,
           UNCHANGED <<plan, short, repaired>>, plan_pc # "profile",
           plan_pc' \notin Fixed, plan_pc \notin {"accept", "built"},
           concepts' \in Seq(Concept), raw_modules' \in Seq(Entry)
    PROVE  PlanInv'
<1>1. StudentOK'
  BY StudentStays DEF PlanInv
<1>2. ListOK'
  BY DEF PlanInv, ListOK
<1>3. PlanOK'
  BY DEF PlanInv, PlanOK, Fixed
<1> QED BY <1>1, <1>2, <1>3 DEF PlanInv

LEMMA FixKeeps ==
    ASSUME PlanInv, Planner!Fix \/ Planner!Lengthen, PlanBounds PROVE PlanInv'
<1>1. StudentOK'
  BY StudentStays DEF PlanInv, Planner!Fix, Planner!Lengthen, Planner!student, Planner!trust
<1>2. PlanOK'
  BY DEF PlanInv, PlanOK, Planner!Fix, Planner!Lengthen, Planner!Lengthened
<1>3. CASE Planner!Fix
  <2>1. raw_modules' = Planner!Deduplicate(Planner!StructuralFix(raw_modules))
    BY <1>3 DEF Planner!Fix
  <2>2. raw_modules' \in Seq(Module) /\ ~Planner!Repeats(raw_modules')
    BY <2>1, FixedIsModules, DeduplicatedOnce DEF PlanInv, ListOK
  <2>3. raw_modules' \in Seq(Entry)
    BY <2>2 DEF Entry
  <2>4. ListOK'
    BY <1>3, <2>2, <2>3 DEF PlanInv, ListOK, Planner!Fix
  <2> QED BY <1>1, <1>2, <2>4 DEF PlanInv
<1>4. CASE Planner!Lengthen
  <2>1. PICK list \in Planner!Repairs \union {raw_modules} :
           raw_modules' = Planner!StructuralFix(list)
    BY <1>4 DEF Planner!Lengthen
  <2>2. list \in Seq(Entry)
    BY RepliesAreEntries DEF PlanInv, ListOK, Planner!Repairs
  <2>3. raw_modules' \in Seq(Module)
    BY <2>1, <2>2, FixedIsModules
  <2>4. raw_modules' \in Seq(Entry)
    BY <2>3 DEF Entry
  <2>5. ListOK'
    BY <1>4, <2>3, <2>4 DEF PlanInv, ListOK, Planner!Lengthen, Planner!Lengthened, Fixed
  <2> QED BY <1>1, <1>2, <2>5 DEF PlanInv
<1> QED BY <1>3, <1>4

LEMMA BuildKeeps == ASSUME PlanInv, Planner!Build PROVE PlanInv'
<1> DEFINE kept == Planner!Compress(raw_modules)
           ready == Planner!Renumbered(kept)
           road == Planner!Roadmap(kept)
<1>1. StudentOK' /\ Known' = Known
  BY StudentStays DEF PlanInv, Planner!Build, Planner!student, Planner!trust
<1>2. raw_modules \in Seq(Module) /\ ~repaired /\ (Planner!Repeats(raw_modules) => short)
  BY DEF PlanInv, ListOK, Planner!Build, Fixed
<1>3. /\ Planner!Repeats(ready) => short
      /\ LeavesOutOf(raw_modules, ready, Known) /\ ShownIn(road, ready)
  BY <1>2, MadeOfList
<1>4. /\ plan_pc' \in {"repair", "accept"} /\ UNCHANGED <<raw_modules, short, repaired, concepts>>
      /\ \E found, ok : plan' = [modules |-> ready, roadmap |-> road,
                                 learning_path |-> Planner!Path(ready),
                                 issues |-> found, passed |-> ok]
  BY DEF Planner!Build, Planner!LearningPath
<1> HIDE DEF ready, road
<1>5. /\ plan'.modules = ready /\ plan'.roadmap = road
      /\ plan'.learning_path = Planner!Path(ready)
  BY <1>4
<1>6. PlanOK'
  <2>1. Planner!Repeats(plan'.modules) => short' /\ ~repaired'
    BY <1>2, <1>3, <1>4, <1>5
  <2>2. LeavesOutOf(raw_modules', plan'.modules, Known') /\ ShownIn(plan'.roadmap, plan'.modules)
    BY <1>1, <1>3, <1>4, <1>5
  <2>3. plan'.learning_path = Planner!Path(plan'.modules)
    BY <1>5
  <2> QED BY <1>4, <2>1, <2>2, <2>3 DEF PlanOK
<1>7. ListOK'
  BY <1>2, <1>4 DEF PlanInv, ListOK, Fixed
<1> QED BY <1>1, <1>6, <1>7 DEF PlanInv

LEMMA RepairKeeps == ASSUME PlanInv, PlanBounds, Planner!Repair PROVE PlanInv'
<1>1. StudentOK' /\ Known' = Known
  BY StudentStays DEF PlanInv, Planner!Repair, Planner!student, Planner!trust
<1>2. PICK fixed \in Planner!RepairedLists
                       \union {Planner!Deduplicate(Planner!StructuralFix(raw_modules))} :
        LET modules0 == Planner!Compress(fixed)
        IN  IF Len(modules0) >= 2
            THEN /\ raw_modules' = fixed
                 /\ plan' = [plan EXCEPT !.modules = Planner!Renumbered(modules0),
                                         !.roadmap = Planner!Roadmap(modules0),
                                         !.issues = Planner!Issues(modules0),
                                         !.passed = Planner!Issues(modules0) = {}]
                 /\ repaired' = TRUE
            ELSE UNCHANGED <<raw_modules, plan, repaired>>
  BY DEF Planner!Repair
<1>3. /\ plan_pc = "repair" /\ plan_pc' = "accept" /\ UNCHANGED <<concepts, short>>
      /\ repaired = FALSE \/ ~repaired
  BY DEF PlanInv, ListOK, Planner!Repair
<1>4. CASE UNCHANGED <<raw_modules, plan, repaired>>
  <2>1. ListOK'
    BY <1>3, <1>4 DEF PlanInv, ListOK, Fixed
  <2>2. PlanOK'
    BY <1>1, <1>3, <1>4 DEF PlanInv, PlanOK
  <2> QED BY <1>1, <2>1, <2>2 DEF PlanInv
<1>5. CASE ~UNCHANGED <<raw_modules, plan, repaired>>
  <2> DEFINE kept == Planner!Compress(fixed)
             ready == Planner!Renumbered(kept)
             road == Planner!Roadmap(kept)
             found == Planner!Issues(kept)
  <2>1. /\ raw_modules' = fixed /\ repaired' = TRUE
        /\ plan' = [plan EXCEPT !.modules = ready, !.roadmap = road,
                                !.issues = found, !.passed = found = {}]
    BY <1>2, <1>5
  <2>2. PICK list \in Seq(Entry) : fixed = Planner!Deduplicate(Planner!StructuralFix(list))
    <3>1. CASE fixed \in Planner!RepairedLists
      <4>1. PICK list \in Planner!Repairs : fixed = Planner!Deduplicate(Planner!StructuralFix(list))
        BY <3>1 DEF Planner!RepairedLists
      <4>2. list \in Seq(Entry)
        BY RepliesAreEntries DEF Planner!Repairs
      <4> QED BY <4>1, <4>2
    <3>2. CASE fixed = Planner!Deduplicate(Planner!StructuralFix(raw_modules))
      BY <3>2 DEF PlanInv, ListOK
    <3> QED BY <3>1, <3>2
  <2>3. fixed \in Seq(Module) /\ ~Planner!Repeats(fixed)
    BY <2>2, FixedIsModules, DeduplicatedOnce
  <2>4. fixed \in Seq(Entry)
    BY <2>3 DEF Entry
  <2>5. ListOK'
    BY <1>3, <2>1, <2>3, <2>4 DEF PlanInv, ListOK
  <2>6. ~Planner!Repeats(ready) /\ LeavesOutOf(fixed, ready, Known) /\ ShownIn(road, ready)
    BY <2>3, MadeOfList
  <2> HIDE DEF ready, road, found
  <2>7. PICK m, r, l, i, p :
          plan = [modules |-> m, roadmap |-> r, learning_path |-> l, issues |-> i, passed |-> p]
    BY DEF PlanInv, PlanOK
  <2>8. plan' = [modules |-> ready, roadmap |-> road, learning_path |-> l,
                 issues |-> found, passed |-> (found = {})]
    BY <2>1, <2>7
  <2>9. plan'.modules = ready /\ plan'.roadmap = road
    BY <2>8
  <2>10. PlanOK'
    <3>1. ~Planner!Repeats(plan'.modules)
      BY <2>6, <2>9
    <3>2. LeavesOutOf(raw_modules', plan'.modules, Known') /\ ShownIn(plan'.roadmap, plan'.modules)
      BY <1>1, <2>1, <2>6, <2>9
    <3> QED BY <2>1, <2>8, <3>1, <3>2 DEF PlanOK
  <2> QED BY <1>1, <2>5, <2>10 DEF PlanInv
<1> QED BY <1>4, <1>5

LEMMA AcceptKeeps == ASSUME PlanInv, Planner!Accept PROVE PlanInv'
<1>1. StudentOK' /\ Known' = Known
  BY StudentStays DEF PlanInv, Planner!Accept, Planner!student, Planner!trust
<1>2. PICK m, r, l, i, p :
        plan = [modules |-> m, roadmap |-> r, learning_path |-> l, issues |-> i, passed |-> p]
  BY DEF PlanInv, PlanOK
<1>3. /\ plan' = [modules |-> m, roadmap |-> r, learning_path |-> l, issues |-> i, passed |-> TRUE]
      /\ plan_pc = "accept" /\ plan_pc' = "built"
      /\ UNCHANGED <<raw_modules, concepts, short, repaired>>
  BY <1>2 DEF Planner!Accept
<1>4. /\ plan'.modules = plan.modules /\ plan'.roadmap = plan.roadmap
      /\ plan'.learning_path = plan.learning_path
  BY <1>2, <1>3
<1>5. PlanOK'
  <2>1. /\ Planner!Repeats(plan'.modules) => short' /\ ~repaired'
        /\ LeavesOutOf(raw_modules', plan'.modules, Known')
        /\ ShownIn(plan'.roadmap, plan'.modules)
        /\ ~repaired' => plan'.learning_path = Planner!Path(plan'.modules)
    BY <1>1, <1>3, <1>4 DEF PlanInv, PlanOK
  <2> QED BY <1>3, <2>1 DEF PlanOK
<1>6. ListOK'
  BY <1>3 DEF PlanInv, ListOK, Fixed
<1> QED BY <1>1, <1>5, <1>6 DEF PlanInv

LEMMA CallsKeep ==
    ASSUME PlanInv, PlanBounds,
           \/ Planner!Unavailable \/ Planner!Cover \/ Planner!CoverFails \/ Planner!Sequence
           \/ Planner!SequenceFails \/ Planner!AuditPasses \/ Planner!FillGaps
    PROVE  PlanInv'
<1>1. concepts \in Seq(Concept) /\ raw_modules \in Seq(Entry)
  BY DEF PlanInv, ListOK
<1> USE DEF Planner!student, Planner!trust
<1>2. CASE Planner!Unavailable
  BY <1>1, <1>2, CallKeeps DEF Planner!Unavailable, Fixed
<1>3. CASE Planner!Cover
  <2>1. concepts' \in Seq(Concept)
    BY <1>3 DEF Planner!Cover, PlanBounds
  <2> QED BY <1>1, <1>3, <2>1, CallKeeps DEF Planner!Cover, Fixed
<1>4. CASE Planner!CoverFails
  BY <1>1, <1>4, CallKeeps DEF Planner!CoverFails, Fixed
<1>5. CASE Planner!Sequence
  <2>1. raw_modules' \in Seq(Entry)
    BY <1>5, RepliesAreEntries DEF Planner!Sequence
  <2> QED BY <1>1, <1>5, <2>1, CallKeeps DEF Planner!Sequence, Fixed
<1>6. CASE Planner!SequenceFails
  <2>1. Planner!Fallback \in Seq(Entry)
    <3> DEFINE n == Len(concepts)
    <3>1. n \in Nat /\ \A i \in 1..n : concepts[i] \in Concept
      BY <1>1
    <3> HIDE DEF n
    <3>2. \A i \in 1..n : [concept |-> concepts[i], step |-> i] \in Entry
      BY <3>1 DEF Entry
    <3>3. [i \in 1..n |-> [concept |-> concepts[i], step |-> i]] \in Seq(Entry)
      BY <3>1, <3>2
    <3> QED BY <3>3 DEF Planner!Fallback, n
  <2>2. raw_modules' \in Seq(Entry)
    BY <1>1, <1>6, <2>1 DEF Planner!SequenceFails
  <2> QED BY <1>1, <1>6, <2>2, CallKeeps DEF Planner!SequenceFails, Fixed
<1>7. CASE Planner!AuditPasses
  BY <1>1, <1>7, CallKeeps DEF Planner!AuditPasses, Fixed
<1>8. CASE Planner!FillGaps
  <2>1. raw_modules' \in Seq(Entry)
    BY <1>8, RepliesAreEntries DEF Planner!FillGaps
  <2> QED BY <1>1, <1>8, <2>1, CallKeeps DEF Planner!FillGaps, Fixed
<1> QED BY <1>2, <1>3, <1>4, <1>5, <1>6, <1>7, <1>8

LEMMA PlanStutters == ASSUME PlanInv, UNCHANGED Planner!vars PROVE PlanInv'
<1> USE DEF Planner!vars, Planner!student, Planner!trust
<1>1. StudentOK' /\ Known' = Known
  <2>1. CASE plan_pc # "profile"
    BY <2>1, StudentStays DEF PlanInv
  <2>2. CASE plan_pc = "profile"
    BY <2>2 DEF PlanInv, StudentOK, Known, Planner!Threshold, Planner!Scores
  <2> QED BY <2>1, <2>2
<1>2. ListOK'
  BY DEF PlanInv, ListOK
<1>3. PlanOK'
  BY <1>1 DEF PlanInv, PlanOK
<1> QED BY <1>1, <1>2, <1>3 DEF PlanInv

LEMMA PlansKeepInv == ASSUME PlanBounds PROVE Planner!Spec => []PlanInv
<1>1. PlanInv /\ [Planner!Next]_(Planner!vars) => PlanInv'
  <2> SUFFICES ASSUME PlanInv, [Planner!Next]_(Planner!vars) PROVE PlanInv'
    OBVIOUS
  <2>1. CASE UNCHANGED Planner!vars
    BY <2>1, PlanStutters
  <2>2. CASE Planner!Next
    BY <2>2, ProfileKeeps, CallsKeep, FixKeeps, BuildKeeps, RepairKeeps, AcceptKeeps
       DEF Planner!Next
  <2> QED BY <2>1, <2>2
<1> QED BY <1>1, PlanInit, PTL DEF Planner!Spec

\* A plan has no two modules about one concept, but for a list that was too short and
\* whose replacement is not deduplicated; its learning path names its modules in their
\* order, unless the repair replaced them; and each is among those of its step of the
\* roadmap: _deduplicate_concepts, _build_master_roadmap and the repair of _build_plan,
\* for lists of any length.
THEOREM PlansAreInOrder == ASSUME PlanBounds PROVE Planner!Spec => []Planner!PlanInOrder
<1>1. PlanInv => Planner!NoRepeats
  BY DEF PlanInv, PlanOK, Planner!NoRepeats
<1>2. PlanInv => Planner!PathFollowsPlan
  <2> SUFFICES ASSUME PlanInv, plan_pc = "built", ~repaired
               PROVE  /\ plan.learning_path = Planner!Path(plan.modules)
                      /\ \A i \in 1..Len(plan.modules) :
                           \E j \in 1..Len(plan.roadmap[plan.learning_path[i].step]) :
                             plan.roadmap[plan.learning_path[i].step][j].concept
                               = plan.learning_path[i].concept
    BY DEF Planner!PathFollowsPlan
  <2> DEFINE ready == plan.modules
             road == plan.roadmap
             n == Len(ready)
  <2>1. plan.learning_path = Planner!Path(ready) /\ ShownIn(road, ready)
    BY DEF PlanInv, PlanOK
  <2>2. Planner!Path(ready) = [i \in 1..n |-> [step |-> ready[i].step, concept |-> ready[i].concept]]
    BY DEF Planner!Path
  <2> HIDE DEF ready, road
  <2>3. ASSUME NEW i \in 1..n
        PROVE  \E j \in 1..Len(road[Planner!Path(ready)[i].step]) :
                 road[Planner!Path(ready)[i].step][j].concept = Planner!Path(ready)[i].concept
    <3>1. /\ Planner!Path(ready)[i].step = ready[i].step
          /\ Planner!Path(ready)[i].concept = ready[i].concept
      <4> HIDE DEF n
      <4> QED BY <2>2
    <3> QED BY <2>1, <3>1 DEF ShownIn
  <2> QED BY <2>1, <2>3 DEF ready, road
<1> QED BY <1>1, <1>2, PlansKeepInv, PTL DEF Planner!PlanInOrder

\* What a plan leaves out is known, by the student's word or a verified score, and no score
\* on record is below the threshold of the pace: _compress_mastered with
\* filter_relevant_student_history and the seeds of _create_course_impl, for any
\* history, wishes and lists.
THEOREM DropsHaveEvidence == ASSUME PlanBounds PROVE Planner!Spec => []Planner!DroppedOnEvidence
<1>1. PlanInv => Planner!DroppedOnEvidence
  <2> SUFFICES ASSUME PlanInv, plan_pc = "built",
                      NEW i \in 1..Len(raw_modules), NEW c, c = raw_modules[i].concept,
                      \A j \in 1..Len(plan.modules) : plan.modules[j].concept # c
               PROVE  /\ recorded[c] = None \/ recorded[c] >= Planner!Threshold
                      /\ c \in Planner!Declared \/ \E score \in Planner!Nodes(c) : score >= 70
    BY DEF Planner!DroppedOnEvidence
  <2>1. raw_modules \in Seq(Module) /\ LeavesOutOf(raw_modules, plan.modules, Known)
    BY DEF PlanInv, ListOK, PlanOK, Fixed
  <2>2. c \in Known
    BY <2>1 DEF LeavesOutOf
  <2>3. c \in Concept
    <3>1. raw_modules[i] \in Module
      BY <2>1
    <3> QED BY <3>1 DEF Module
  <2>4. /\ c \in Planner!AssumedKnown /\ mastery[c] = Planner!Seed(c)
        /\ mastery[c] >= Planner!Threshold
    BY <2>2, <2>3 DEF PlanInv, StudentOK, Known
  <2>5. recorded[c] = None \/ recorded[c] >= Planner!Threshold
    BY <2>4 DEF Planner!Seed
  <2>6. ASSUME NEW score \in Planner!Nodes(c), score >= 90 PROVE score >= 70
    <3>1. skills[c] \in {{}, {40}, {92}} /\ recorded[c] \in {40, 80, None}
      BY <2>3 DEF PlanInv, StudentOK, Planner!Scores
    <3>2. score \in {40, 80, 92}
      BY <2>6, <3>1 DEF Planner!Nodes
    <3> QED BY <2>6, <3>2
  <2>7. c \in Planner!Declared \/ \E score \in Planner!Nodes(c) : score >= 70
    <3>1. c \in Planner!Declared \/ c \in Planner!FromHistory
      BY <2>4 DEF Planner!AssumedKnown
    <3>2. CASE c \in Planner!FromHistory
      <4>1. PICK score \in Planner!Nodes(c) : IF no_prior THEN score >= 90 ELSE score >= 70
        BY <3>2 DEF Planner!FromHistory
      <4>2. score >= 70
        <5>1. CASE no_prior
          BY <2>6, <4>1, <5>1
        <5>2. CASE ~no_prior
          BY <4>1, <5>2
        <5> QED BY <5>1, <5>2
      <4> QED BY <4>1, <4>2
    <3> QED BY <3>1, <3>2
  <2> QED BY <2>5, <2>7
<1> QED BY <1>1, PlansKeepInv, PTL
-----------------------------------------------------------------------------
(* The timetables of a course                                              *)
(*                                                                         *)
(* The roadmap of a course and its learning schedule, CourseSchedule under *)
(* the name Timetable: the theorems state what it assumes of its constants *)
(* as ScheduleBounds.  What it computes it computes step by step.          *)

CONSTANTS Minutes, Learners, Capacities, Durations, Slot, MaxSlots, Request,
          MaxInFlight

VARIABLES estimates, profile, day_plan, schedule, told, unsure, request_pc, job,
          overlapped, requests_begun, request_faults

Timetable == INSTANCE CourseSchedule
               WITH modules <- estimates, roadmap <- day_plan, pc <- request_pc,
                    begun <- requests_begun, faults <- request_faults

\* The total of numbers is what adding one after the other comes to.
LEMMA TotalAdds ==
    ASSUME NEW ns \in Seq(Nat)
    PROVE  \E f \in [0..Len(ns) -> Nat] :
             /\ f[0] = 0 /\ Timetable!Total(ns) = f[Len(ns)]
             /\ \A i \in 1..Len(ns) : f[i] = f[i - 1] + ns[i]
<1> DEFINE n == Len(ns)
           X == Nat
           base == 0
           step == [i \in 1..n |-> [x \in X |-> x + ns[i]]]
           Rule(f) == [i \in 0..n |-> IF i = 0 THEN 0 ELSE f[i - 1] + ns[i]]
           F == CHOOSE f : f = Rule(f)
<1>1. n \in Nat /\ \A i \in 1..n : ns[i] \in Nat
  OBVIOUS
<1>2. ASSUME NEW x \in X, NEW i \in 1..n PROVE x + ns[i] \in X
  BY <1>1
<1>3. base \in X
  OBVIOUS
<1>4. step \in [1..n -> [X -> X]]
  <2> HIDE DEF X, n
  <2> QED BY <1>2
<1>5. PICK g : g \in [0..n -> X] /\ g[0] = base /\ \A i \in 1..n : g[i] = step[i][g[i - 1]]
  <2> HIDE DEF step, n, base, X
  <2>1. \E g : Takes(g, n, X, base, step)
    BY <1>1, <1>3, <1>4, Stepwise
  <2> QED BY <2>1 DEF Takes
<1>6. \A i \in 1..n : g[i] = g[i - 1] + ns[i]
  <2> TAKE i \in 1..n
  <2> HIDE DEF X, n
  <2>1. i - 1 \in 0..n
    BY <1>1
  <2>2. g[i - 1] \in X
    BY <1>5, <2>1
  <2> QED BY <1>5, <2>2
<1>7. g = Rule(g)
  <2> HIDE DEF n, step, X
  <2>1. ASSUME NEW i \in 0..n
        PROVE  g[i] = IF i = 0 THEN base ELSE g[i - 1] + ns[i]
    <3>1. CASE i = 0
      BY <1>5, <3>1
    <3>2. CASE i # 0
      <4>1. i \in 1..n
        BY <1>1, <3>2
      <4> QED BY <1>6, <3>2, <4>1
    <3> QED BY <3>1, <3>2
  <2>2. g = [i \in 0..n |-> g[i]]
    BY <1>5
  <2> QED BY <2>1, <2>2
<1> HIDE DEF Rule
<1>8. F = Rule(F)
  BY <1>7
<1> HIDE DEF F
<1>9. /\ F = [i \in 0..n |-> F[i]]
      /\ \A i \in 0..n : F[i] = IF i = 0 THEN base ELSE F[i - 1] + ns[i]
  <2> HIDE DEF n
  <2> QED BY <1>8 DEF Rule
<1>10. F[0] = base /\ \A i \in 1..n : F[i] = F[i - 1] + ns[i]
  <2> HIDE DEF n, base
  <2>1. 0 \in 0..n /\ \A i \in 1..n : i \in 0..n /\ i # 0
    BY <1>1
  <2> QED BY <1>9, <2>1
<1>11. \A i \in 0..n : F[i] \in X
  <2> DEFINE S == {i \in 0..n : F[i] \in X}
  <2> HIDE DEF n, X, base
  <2>1. 0 \in S
    BY <1>1, <1>3, <1>10
  <2>2. ASSUME NEW i \in 1..n, i - 1 \in S PROVE i \in S
    <3>1. i \in 0..n /\ F[i - 1] \in X
      BY <1>1, <2>2
    <3> QED BY <1>2, <1>10, <3>1
  <2> HIDE DEF S
  <2>3. \A i \in 0..n : i \in S
    BY <1>1, <2>1, <2>2, UpTo
  <2> QED BY <2>3 DEF S
<1>12. F \in [0..n -> X]
  <2> HIDE DEF n, X
  <2> QED BY <1>9, <1>11
<1>13. Timetable!Total(ns) = F[n]
  BY DEF Timetable!Total, F, Rule
<1> QED BY <1>10, <1>12, <1>13

LEMMA TotalOfNone == Timetable!Total(<<>>) = 0
<1>1. <<>> \in Seq(Nat) /\ Len(<<>>) = 0
  OBVIOUS
<1> QED BY <1>1, TotalAdds

\* One number more adds itself, however the two lists are written.
LEMMA TotalNext ==
    ASSUME NEW ns \in Seq(Nat), NEW ms \in Seq(Nat), Len(ms) = Len(ns) + 1,
           \A i \in 1..Len(ns) : ms[i] = ns[i]
    PROVE  /\ Timetable!Total(ns) \in Nat
           /\ Timetable!Total(ms) = Timetable!Total(ns) + ms[Len(ms)]
<1> DEFINE n == Len(ns)
<1>1. PICK f \in [0..n -> Nat] :
        /\ f[0] = 0 /\ Timetable!Total(ns) = f[n]
        /\ \A i \in 1..n : f[i] = f[i - 1] + ns[i]
  BY TotalAdds
<1>2. PICK g \in [0..(n + 1) -> Nat] :
        /\ g[0] = 0 /\ Timetable!Total(ms) = g[n + 1]
        /\ \A i \in 1..(n + 1) : g[i] = g[i - 1] + ms[i]
  BY TotalAdds
<1>3. n \in Nat /\ \A i \in 1..n : ms[i] = ns[i]
  <2>1. n \in Nat
    OBVIOUS
  <2>2. \A i \in 1..n : ms[i] = ns[i]
    OBVIOUS
  <2> QED BY <2>1, <2>2
<1> HIDE DEF n
<1>4. f[n] = g[n]
  <2> DEFINE S == {i \in 0..n : f[i] = g[i]}
  <2>1. 0 \in S
    BY <1>1, <1>2, <1>3
  <2>2. ASSUME NEW i \in 1..n, i - 1 \in S PROVE i \in S
    <3>1. i \in 0..n /\ i \in 1..(n + 1)
      BY <1>3
    <3>2. f[i] = f[i - 1] + ns[i] /\ g[i] = g[i - 1] + ms[i] /\ ms[i] = ns[i]
      BY <1>1, <1>2, <1>3, <3>1
    <3> QED BY <2>2, <3>1, <3>2
  <2> HIDE DEF S
  <2>3. \A i \in 0..n : i \in S
    BY <1>3, <2>1, <2>2, UpTo
  <2>4. n \in S
    BY <1>3, <2>3
  <2> QED BY <2>4 DEF S
<1>5. n + 1 \in 1..(n + 1) /\ n \in 0..n /\ (n + 1) - 1 = n
  BY <1>3
<1>6. g[n + 1] = g[n] + ms[n + 1]
  BY <1>2, <1>5
<1>7. f[n] \in Nat
  BY <1>1, <1>5
<1>8. Len(ms) = n + 1
  BY DEF n
<1> QED BY <1>1, <1>2, <1>4, <1>6, <1>7, <1>8

LEMMA TotalTyped ==
    ASSUME NEW ns \in Seq(Nat) PROVE Timetable!Total(ns) \in Nat
<1>1. PICK f \in [0..Len(ns) -> Nat] : Timetable!Total(ns) = f[Len(ns)]
  BY TotalAdds
<1>2. Len(ns) \in 0..Len(ns)
  OBVIOUS
<1> QED BY <1>1, <1>2

\* The minutes of a queue of modules are a number, and each module adds its own.
LEMMA MinutesTyped ==
    ASSUME NEW D, NEW mins \in [D -> Nat], NEW queue \in Seq(D)
    PROVE  /\ [i \in 1..Len(queue) |-> mins[queue[i]]] \in Seq(Nat)
           /\ Timetable!MinutesIn(queue, mins) \in Nat
<1> DEFINE n == Len(queue)
           ns == [i \in 1..n |-> mins[queue[i]]]
<1>1. n \in Nat /\ \A i \in 1..n : queue[i] \in D
  OBVIOUS
<1>2. ns \in Seq(Nat)
  <2> HIDE DEF n
  <2>1. \A i \in 1..n : mins[queue[i]] \in Nat
    BY <1>1
  <2>2. ns \in [1..n -> Nat]
    BY <2>1
  <2> QED BY <1>1, <2>2
<1>3. Timetable!MinutesIn(queue, mins) = Timetable!Total(ns)
  BY DEF Timetable!MinutesIn
<1> QED BY <1>2, <1>3, TotalTyped

LEMMA MinutesOfNone == ASSUME NEW mins PROVE Timetable!MinutesIn(<<>>, mins) = 0
<1>1. [i \in 1..Len(<<>>) |-> mins[<<>>[i]]] = <<>>
  OBVIOUS
<1> QED BY <1>1, TotalOfNone DEF Timetable!MinutesIn

LEMMA MinutesNext ==
    ASSUME NEW D, NEW mins \in [D -> Nat], NEW queue \in Seq(D), NEW m \in D
    PROVE  Timetable!MinutesIn(Append(queue, m), mins)
             = Timetable!MinutesIn(queue, mins) + mins[m]
<1> DEFINE n == Len(queue)
           more == Append(queue, m)
           ns == [i \in 1..Len(queue) |-> mins[queue[i]]]
           ms == [i \in 1..Len(more) |-> mins[more[i]]]
<1>1. /\ n \in Nat /\ more \in Seq(D) /\ Len(more) = n + 1 /\ more[n + 1] = m
      /\ \A i \in 1..n : more[i] = queue[i]
  OBVIOUS
<1>2. ns \in Seq(Nat) /\ ms \in Seq(Nat)
  <2> HIDE DEF more
  <2> QED BY <1>1, MinutesTyped
<1>3. Len(ns) = n /\ Len(ms) = n + 1
  <2> HIDE DEF more
  <2> QED BY <1>1
<1>4. \A i \in 1..n : ms[i] = ns[i]
  <2> HIDE DEF more
  <2>1. 1..n \subseteq 1..Len(more)
    BY <1>1
  <2> QED BY <1>1, <2>1
<1>5. ms[n + 1] = mins[m]
  <2> HIDE DEF more
  <2>1. n + 1 \in 1..Len(more)
    BY <1>1
  <2> QED BY <1>1, <2>1
<1>6. Timetable!MinutesIn(queue, mins) = Timetable!Total(ns)
      /\ Timetable!MinutesIn(more, mins) = Timetable!Total(ms)
  BY DEF Timetable!MinutesIn
<1> HIDE DEF ns, ms
<1>7. Timetable!Total(ms) = Timetable!Total(ns) + ms[Len(ms)]
  <2> HIDE DEF n, more
  <2> QED BY <1>2, <1>3, <1>4, TotalNext
<1> QED BY <1>3, <1>5, <1>6, <1>7

\* What comes before the j-th module of a queue, and with it.
LEMMA MinutesBefore ==
    ASSUME NEW D, NEW mins \in [D -> Nat], NEW queue \in Seq(D), NEW j \in 1..Len(queue)
    PROVE  Timetable!MinutesIn(SubSeq(queue, 1, j), mins)
             = Timetable!MinutesIn(SubSeq(queue, 1, j - 1), mins) + mins[queue[j]]
<1>1. /\ SubSeq(queue, 1, j - 1) \in Seq(D) /\ queue[j] \in D
      /\ SubSeq(queue, 1, j) = Append(SubSeq(queue, 1, j - 1), queue[j])
  OBVIOUS
<1> QED BY <1>1, MinutesNext

LEMMA MinutesGrow ==
    ASSUME NEW D, NEW mins \in [D -> Nat], NEW queue \in Seq(D),
           NEW j \in 0..Len(queue), NEW k \in j..Len(queue)
    PROVE  Timetable!MinutesIn(SubSeq(queue, 1, j), mins)
             <= Timetable!MinutesIn(SubSeq(queue, 1, k), mins)
<1> DEFINE y == Len(queue)
           P == [i \in 0..y |-> Timetable!MinutesIn(SubSeq(queue, 1, i), mins)]
<1>1. y \in Nat
  OBVIOUS
<1>2. \A i \in 0..y : P[i] \in Nat
  <2> TAKE i \in 0..y
  <2>1. SubSeq(queue, 1, i) \in Seq(D)
    OBVIOUS
  <2> QED BY <2>1, MinutesTyped
<1>3. \A i \in 1..y : P[i] = P[i - 1] + mins[queue[i]] /\ mins[queue[i]] \in Nat
  <2> TAKE i \in 1..y
  <2>1. i \in 0..y /\ i - 1 \in 0..y /\ queue[i] \in D
    OBVIOUS
  <2> HIDE DEF y
  <2>2. i \in 1..Len(queue)
    BY DEF y
  <2> QED BY <2>1, <2>2, MinutesBefore
<1>4. P[j] <= P[k]
  <2> DEFINE S == {i \in 0..(k - j) : P[j] <= P[j + i]}
  <2>1. j \in 0..y /\ k \in j..y /\ k - j \in Nat
    BY <1>1
  <2> HIDE DEF P, y
  <2>2. 0 \in S
    BY <1>2, <2>1
  <2>3. ASSUME NEW i \in 1..(k - j), i - 1 \in S PROVE i \in S
    <3>1. j + i \in 1..y /\ (j + i) - 1 = j + (i - 1) /\ i \in 0..(k - j) /\ j + (i - 1) \in 0..y
      BY <1>1, <2>1
    <3>2. P[j] <= P[j + (i - 1)]
      BY <2>3
    <3>3. P[j + i] = P[j + (i - 1)] + mins[queue[j + i]] /\ mins[queue[j + i]] \in Nat
      BY <1>3, <3>1
    <3>4. P[j] <= P[j + i]
      BY <1>2, <2>1, <3>1, <3>2, <3>3
    <3> QED BY <3>1, <3>4
  <2> HIDE DEF S
  <2>4. \A i \in 0..(k - j) : i \in S
    BY <2>1, <2>2, <2>3, UpTo
  <2>5. k - j \in 0..(k - j) /\ j + (k - j) = k
    BY <1>1, <2>1
  <2>6. k - j \in S
    BY <2>4, <2>5
  <2> QED BY <2>5, <2>6 DEF S
<1>5. j \in 0..y /\ k \in 0..y
  OBVIOUS
<1> QED BY <1>4, <1>5

\* Flattening is concatenating one list after the other.
LEMMA FlattenAdds ==
    ASSUME NEW T, NEW seqs \in Seq(Seq(T))
    PROVE  \E f \in [0..Len(seqs) -> Seq(T)] :
             /\ f[0] = <<>> /\ Timetable!FlattenSeq(seqs) = f[Len(seqs)]
             /\ \A i \in 1..Len(seqs) : f[i] = f[i - 1] \o seqs[i]
<1> DEFINE n == Len(seqs)
           X == Seq(T)
           base == <<>>
           step == [i \in 1..n |-> [x \in X |-> x \o seqs[i]]]
           Rule(f) == [i \in 1..n |-> IF i = 1 THEN seqs[i] ELSE f[i - 1] \o seqs[i]]
           F == CHOOSE f : f = Rule(f)
<1>1. n \in Nat /\ base \in X /\ \A i \in 1..n : seqs[i] \in X
  OBVIOUS
<1>2. ASSUME NEW x \in X, NEW i \in 1..n PROVE x \o seqs[i] \in X
  BY <1>1
<1>3. step \in [1..n -> [X -> X]]
  <2> HIDE DEF X, n
  <2> QED BY <1>2
<1>4. PICK g : g \in [0..n -> X] /\ g[0] = base /\ \A i \in 1..n : g[i] = step[i][g[i - 1]]
  <2> HIDE DEF step, n, base, X
  <2>1. \E g : Takes(g, n, X, base, step)
    BY <1>1, <1>3, Stepwise
  <2> QED BY <2>1 DEF Takes
<1>5. \A i \in 1..n : g[i] = g[i - 1] \o seqs[i]
  <2> TAKE i \in 1..n
  <2> HIDE DEF X, n
  <2>1. i - 1 \in 0..n
    BY <1>1
  <2>2. g[i - 1] \in X
    BY <1>4, <2>1
  <2> QED BY <1>4, <2>2
<1> HIDE DEF step
<1> DEFINE h == [i \in 1..n |-> g[i]]
<1>6. h = Rule(h)
  <2>1. ASSUME NEW i \in 1..n
        PROVE  g[i] = IF i = 1 THEN seqs[i] ELSE h[i - 1] \o seqs[i]
    <3>1. CASE i = 1
      <4>1. g[1] = <<>> \o seqs[1] /\ seqs[1] \in X
        <5> HIDE DEF X, n
        <5>1. 1 \in 1..n /\ 1 - 1 = 0
          BY <3>1
        <5>2. g[1] = g[1 - 1] \o seqs[1]
          BY <1>5, <5>1
        <5> QED BY <1>1, <1>4, <5>1, <5>2
      <4> QED BY <3>1, <4>1
    <3>2. CASE i # 1
      <4> HIDE DEF n
      <4>1. i - 1 \in 1..n
        BY <1>1, <3>2
      <4>2. h[i - 1] = g[i - 1]
        BY <4>1
      <4> QED BY <1>5, <3>2, <4>2
    <3> QED BY <3>1, <3>2
  <2> HIDE DEF n
  <2> QED BY <2>1
<1> HIDE DEF Rule
<1>7. F = Rule(F)
  BY <1>6
<1> HIDE DEF F
<1>8. \A i \in 1..n : F[i] = IF i = 1 THEN seqs[i] ELSE F[i - 1] \o seqs[i]
  <2> HIDE DEF n
  <2> QED BY <1>7 DEF Rule
<1>9. \A i \in 1..n : F[i] = g[i]
  <2> DEFINE S == {i \in 0..n : i = 0 \/ F[i] = g[i]}
  <2> HIDE DEF n, X
  <2>1. 0 \in S
    BY <1>1
  <2>2. ASSUME NEW i \in 1..n, i - 1 \in S PROVE i \in S
    <3>1. i \in 0..n
      BY <1>1
    <3>2. CASE i = 1
      <4>1. g[1] = <<>> \o seqs[1] /\ seqs[1] \in X
        <5> HIDE DEF X, n
        <5>1. 1 \in 1..n /\ 1 - 1 = 0
          BY <3>2
        <5>2. g[1] = g[1 - 1] \o seqs[1]
          BY <1>5, <5>1
        <5> QED BY <1>1, <1>4, <5>1, <5>2
      <4>2. g[1] = seqs[1]
        BY <4>1 DEF X
      <4> QED BY <1>8, <3>1, <3>2, <4>2
    <3>3. CASE i # 1
      <4>1. i - 1 # 0
        BY <1>1, <3>3
      <4>2. F[i - 1] = g[i - 1]
        BY <2>2, <4>1
      <4> QED BY <1>5, <1>8, <3>1, <3>3, <4>2
    <3> QED BY <3>2, <3>3
  <2>3. \A i \in 0..n : i \in S
    <3> HIDE DEF S
    <3> QED BY <1>1, <2>1, <2>2, UpTo
  <2>4. ASSUME NEW i \in 1..n PROVE F[i] = g[i]
    <3>1. i \in 0..n /\ i # 0
      BY <1>1
    <3> QED BY <2>3, <3>1
  <2> QED BY <2>4
<1>10. Timetable!FlattenSeq(seqs) = IF n = 0 THEN seqs ELSE F[n]
  BY DEF Timetable!FlattenSeq, F, Rule
<1>11. Timetable!FlattenSeq(seqs) = g[n]
  <2>1. CASE n = 0
    <3>1. seqs = <<>>
      BY <2>1
    <3> QED BY <1>4, <1>10, <2>1, <3>1
  <2>2. CASE n # 0
    <3> HIDE DEF n
    <3>1. n \in 1..n
      BY <1>1, <2>2
    <3> QED BY <1>9, <1>10, <2>2, <3>1
  <2> QED BY <2>1, <2>2
<1> QED BY <1>4, <1>5, <1>11

LEMMA FlattenOfNone == Timetable!FlattenSeq(<<>>) = <<>>
BY DEF Timetable!FlattenSeq

LEMMA FlattenNext ==
    ASSUME NEW T, NEW seqs \in Seq(Seq(T)), NEW s \in Seq(T)
    PROVE  /\ Timetable!FlattenSeq(seqs) \in Seq(T)
           /\ Timetable!FlattenSeq(Append(seqs, s)) = Timetable!FlattenSeq(seqs) \o s
<1> DEFINE n == Len(seqs)
           more == Append(seqs, s)
<1>1. /\ n \in Nat /\ more \in Seq(Seq(T)) /\ Len(more) = n + 1 /\ more[n + 1] = s
      /\ \A i \in 1..n : more[i] = seqs[i]
  OBVIOUS
<1>2. PICK f \in [0..n -> Seq(T)] :
        /\ f[0] = <<>> /\ Timetable!FlattenSeq(seqs) = f[n]
        /\ \A i \in 1..n : f[i] = f[i - 1] \o seqs[i]
  BY FlattenAdds
<1>3. PICK g \in [0..(n + 1) -> Seq(T)] :
        /\ g[0] = <<>> /\ Timetable!FlattenSeq(more) = g[n + 1]
        /\ \A i \in 1..(n + 1) : g[i] = g[i - 1] \o more[i]
  <2> HIDE DEF more
  <2>1. \E g \in [0..Len(more) -> Seq(T)] :
          /\ g[0] = <<>> /\ Timetable!FlattenSeq(more) = g[Len(more)]
          /\ \A i \in 1..Len(more) : g[i] = g[i - 1] \o more[i]
    BY <1>1, FlattenAdds
  <2>2. Len(more) = n + 1
    BY <1>1
  <2> QED BY <2>1, <2>2
<1> HIDE DEF n, more
<1>4. f[n] = g[n]
  <2> DEFINE S == {i \in 0..n : f[i] = g[i]}
  <2>1. 0 \in S
    BY <1>1, <1>2, <1>3
  <2>2. ASSUME NEW i \in 1..n, i - 1 \in S PROVE i \in S
    <3>1. i \in 0..n /\ i \in 1..(n + 1)
      BY <1>1
    <3>2. f[i] = f[i - 1] \o seqs[i] /\ g[i] = g[i - 1] \o more[i] /\ more[i] = seqs[i]
      BY <1>1, <1>2, <1>3, <3>1
    <3> QED BY <2>2, <3>1, <3>2
  <2> HIDE DEF S
  <2>3. \A i \in 0..n : i \in S
    BY <1>1, <2>1, <2>2, UpTo
  <2>4. n \in S
    BY <1>1, <2>3
  <2> QED BY <2>4 DEF S
<1>5. n + 1 \in 1..(n + 1) /\ n \in 0..n /\ (n + 1) - 1 = n
  BY <1>1
<1>6. g[n + 1] = g[n] \o more[n + 1]
  BY <1>3, <1>5
<1>7. f[n] \in Seq(T)
  BY <1>2, <1>5
<1> QED BY <1>1, <1>2, <1>3, <1>4, <1>6, <1>7 DEF more

\* The days a course gets and the minutes aimed at.
StudyDays(total, days, capacity) ==
    Timetable!Greater(1, Timetable!Lesser(Timetable!CeilDiv(total, capacity), days))

PerDay(total, days, capacity) ==
    Timetable!Lesser(Timetable!CeilDiv(total, StudyDays(total, days, capacity)), capacity)

LEMMA DaysAndTarget ==
    ASSUME NEW total \in Nat, NEW capacity \in Nat \ {0}, NEW days \in Nat \ {0},
           NEW study, study = StudyDays(total, days, capacity),
           NEW target, target = PerDay(total, days, capacity)
    PROVE  study \in 1..days /\ target \in Int /\ target <= capacity
<1>1. Timetable!CeilDiv(total, capacity) \in Int
  BY DEF Timetable!CeilDiv
<1>2. study \in 1..days
  <2> DEFINE c == Timetable!CeilDiv(total, capacity)
  <2> HIDE DEF c
  <2>1. c \in Int /\ study = Timetable!Greater(1, Timetable!Lesser(c, days))
    BY <1>1 DEF c, StudyDays
  <2> QED BY <2>1 DEF Timetable!Greater, Timetable!Lesser
<1>3. study \in Nat \ {0}
  BY <1>2
<1>4. Timetable!CeilDiv(total, study) \in Int
  BY <1>3 DEF Timetable!CeilDiv
<1>5. target \in Int /\ target <= capacity
  <2> DEFINE c == Timetable!CeilDiv(total, study)
  <2> HIDE DEF c
  <2>1. c \in Int /\ target = Timetable!Lesser(c, capacity)
    BY <1>4 DEF c, PerDay
  <2> QED BY <2>1 DEF Timetable!Lesser
<1> QED BY <1>2, <1>5

\* The packing as far as it has come: days that are full, the one being filled and its
\* minutes.
Packings(D) == [days : Seq(Seq(D)), items : Seq(D), used : Nat]

LEMMA PlaceTyped ==
    ASSUME NEW D, NEW mins \in [D -> Nat], NEW x \in Packings(D), NEW m \in D,
           NEW study, NEW target
    PROVE  Timetable!Place(x, m, mins, study, target) \in Packings(D)
<1>1. x.days \in Seq(Seq(D)) /\ x.items \in Seq(D) /\ x.used \in Nat /\ mins[m] \in Nat
  BY DEF Packings
<1>2. /\ Append(x.days, x.items) \in Seq(Seq(D)) /\ <<m>> \in Seq(D)
      /\ Append(x.items, m) \in Seq(D) /\ x.used + mins[m] \in Nat
  BY <1>1
<1>3. [days |-> Append(x.days, x.items), items |-> <<m>>, used |-> mins[m]] \in Packings(D)
  BY <1>1, <1>2 DEF Packings
<1>4. [x EXCEPT !.items = Append(@, m), !.used = @ + mins[m]] \in Packings(D)
  BY <1>1, <1>2 DEF Packings
<1> QED BY <1>3, <1>4 DEF Timetable!Place

\* f packs the modules one after the other, into what the days come to.
Packs(f, N, mins, days, capacity) ==
    /\ f \in [0..N -> Packings(1..N)]
    /\ f[0] = [days |-> <<>>, items |-> <<>>, used |-> 0]
    /\ Timetable!PackModulesIntoDays(mins, days, capacity) = Append(f[N].days, f[N].items)
    /\ \A m \in 1..N :
         f[m] = Timetable!Place(f[m - 1], m, mins,
                                StudyDays(Timetable!Total(mins), days, capacity),
                                PerDay(Timetable!Total(mins), days, capacity))

LEMMA PacksOneByOne ==
    ASSUME NEW N \in Nat, NEW mins \in [1..N -> Nat], Len(mins) = N, NEW days, NEW capacity
    PROVE  \E f : Packs(f, N, mins, days, capacity)
<1> DEFINE study == StudyDays(Timetable!Total(mins), days, capacity)
           target == PerDay(Timetable!Total(mins), days, capacity)
<1> DEFINE n == Len(mins)
           X == Packings(1..N)
           base == [days |-> <<>>, items |-> <<>>, used |-> 0]
           step == [i \in 1..n |-> [x \in X |-> Timetable!Place(x, i, mins, study, target)]]
           Rule(f) == [i \in 0..n |->
                        IF i = 0 THEN [days |-> <<>>, items |-> <<>>, used |-> 0]
                        ELSE Timetable!Place(f[i - 1], i, mins, study, target)]
           F == CHOOSE f : f = Rule(f)
<1>1. n = N /\ n \in Nat
  OBVIOUS
<1>2. ASSUME NEW x \in X, NEW i \in 1..n
      PROVE  Timetable!Place(x, i, mins, study, target) \in X
  BY <1>1, PlaceTyped
<1> HIDE DEF study, target
<1>3. base \in X
  BY DEF Packings
<1>4. step \in [1..n -> [X -> X]]
  <2> HIDE DEF X, n
  <2> QED BY <1>2
<1>5. PICK g : g \in [0..n -> X] /\ g[0] = base /\ \A i \in 1..n : g[i] = step[i][g[i - 1]]
  <2> HIDE DEF step, n, base, X
  <2>1. \E g : Takes(g, n, X, base, step)
    BY <1>1, <1>3, <1>4, Stepwise
  <2> QED BY <2>1 DEF Takes
<1>6. \A i \in 1..n : g[i] = Timetable!Place(g[i - 1], i, mins, study, target)
  <2> TAKE i \in 1..n
  <2> HIDE DEF X, n
  <2>1. i - 1 \in 0..n
    BY <1>1
  <2>2. g[i - 1] \in X
    BY <1>5, <2>1
  <2> QED BY <1>5, <2>2
<1>7. g = Rule(g)
  <2> HIDE DEF n, step, X
  <2>1. ASSUME NEW i \in 0..n
        PROVE  g[i] = IF i = 0 THEN base ELSE Timetable!Place(g[i - 1], i, mins, study, target)
    <3>1. CASE i = 0
      BY <1>5, <3>1
    <3>2. CASE i # 0
      <4>1. i \in 1..n
        BY <1>1, <3>2
      <4> QED BY <1>6, <3>2, <4>1
    <3> QED BY <3>1, <3>2
  <2>2. g = [i \in 0..n |-> g[i]]
    BY <1>5
  <2> QED BY <2>1, <2>2
<1> HIDE DEF Rule
<1>8. F = Rule(F)
  BY <1>7
<1> HIDE DEF F
<1>9. /\ F = [i \in 0..n |-> F[i]]
      /\ \A i \in 0..n : F[i] =
           IF i = 0 THEN base
           ELSE Timetable!Place(F[i - 1], i, mins, study, target)
  <2> HIDE DEF n
  <2> QED BY <1>8 DEF Rule
<1>10. F[0] = base /\ \A i \in 1..n : F[i] = Timetable!Place(F[i - 1], i, mins, study, target)
  <2> HIDE DEF n, base
  <2>1. 0 \in 0..n /\ \A i \in 1..n : i \in 0..n /\ i # 0
    BY <1>1
  <2> QED BY <1>9, <2>1
<1>11. \A i \in 0..n : F[i] \in X
  <2> DEFINE S == {i \in 0..n : F[i] \in X}
  <2> HIDE DEF n, X, base
  <2>1. 0 \in S
    BY <1>1, <1>3, <1>10
  <2>2. ASSUME NEW i \in 1..n, i - 1 \in S PROVE i \in S
    <3>1. i \in 0..n /\ F[i - 1] \in X
      BY <1>1, <2>2
    <3> QED BY <1>2, <1>10, <3>1
  <2> HIDE DEF S
  <2>3. \A i \in 0..n : i \in S
    BY <1>1, <2>1, <2>2, UpTo
  <2> QED BY <2>3 DEF S
<1>12. F \in [0..n -> X]
  <2> HIDE DEF n, X
  <2> QED BY <1>9, <1>11
<1>13. Timetable!PackModulesIntoDays(mins, days, capacity) = Append(F[n].days, F[n].items)
  BY DEF Timetable!PackModulesIntoDays, StudyDays, PerDay, study, target, F, Rule
<1> HIDE DEF n, X
<1> QED BY <1>1, <1>10, <1>12, <1>13 DEF X, study, target, Packs

\* The modules 1, 2, ..., m in their order.
Course(m) == [k \in 1..m |-> k]

LEMMA CourseNext ==
    ASSUME NEW m \in Nat \ {0}
    PROVE  Course(m - 1) \o <<m>> = Course(m) /\ Course(m) \in Seq(Nat)
<1>1. Course(m) \in Seq(Nat) /\ Course(m - 1) \in Seq(Nat)
  BY DEF Course
<1>2. /\ Len(Course(m)) = m /\ Len(Course(m - 1)) = m - 1
      /\ \A k \in 1..m : Course(m)[k] = k
      /\ \A k \in 1..(m - 1) : Course(m - 1)[k] = k
  BY DEF Course
<1> DEFINE s == Course(m - 1) \o <<m>>
<1>3. /\ s \in Seq(Nat) /\ Len(s) = m /\ s[m] = m
      /\ \A k \in 1..(m - 1) : s[k] = k
  BY <1>1, <1>2
<1> HIDE DEF s
<1>4. \A k \in 1..m : s[k] = Course(m)[k]
  BY <1>2, <1>3
<1>5. s = Course(m)
  BY <1>1, <1>2, <1>3, <1>4
<1> QED BY <1>1, <1>5 DEF s

LEMMA AppendedLast ==
    ASSUME NEW T, NEW s \in Seq(T), NEW q \in Seq(T), NEW m \in T
    PROVE  s \o Append(q, m) = (s \o q) \o <<m>>
<1> DEFINE a == s \o Append(q, m)
           b == (s \o q) \o <<m>>
<1>1. a \in Seq(T) /\ b \in Seq(T) /\ Len(a) = Len(b)
  OBVIOUS
<1>2. ASSUME NEW i \in 1..Len(a) PROVE a[i] = b[i]
  OBVIOUS
<1> HIDE DEF a, b
<1>3. a = b
  BY <1>1, <1>2
<1> QED BY <1>3 DEF a, b

\* The days hold the modules so far in their order; the full ones, and the one being
\* filled unless it is the last, have no more minutes than a day has.
PackedOK(x, m, mins, study, capacity) ==
    /\ Timetable!FlattenSeq(x.days) \o x.items = Course(m)
    /\ Len(x.days) <= study - 1
    /\ \A d \in 1..Len(x.days) : Timetable!MinutesIn(x.days[d], mins) <= capacity
    /\ x.used = Timetable!MinutesIn(x.items, mins)
    /\ x.used <= capacity \/ Len(x.days) = study - 1

LEMMA PlaceKeeps ==
    ASSUME NEW N \in Nat, NEW mins \in [1..N -> Nat], NEW x \in Packings(1..N), NEW m \in 1..N,
           NEW study \in Nat \ {0}, NEW target \in Int, NEW capacity \in Nat,
           target <= capacity, mins[m] <= capacity,
           PackedOK(x, m - 1, mins, study, capacity)
    PROVE  PackedOK(Timetable!Place(x, m, mins, study, target), m, mins, study, capacity)
<1> DEFINE D == 1..N
           y == Len(x.days)
           full == Timetable!FlattenSeq(x.days)
<1>1. /\ x.days \in Seq(Seq(D)) /\ x.items \in Seq(D) /\ x.used \in Nat /\ mins[m] \in Nat
      /\ x = [days |-> x.days, items |-> x.items, used |-> x.used]
  BY DEF Packings
<1>2. full \in Seq(D) /\ Timetable!FlattenSeq(Append(x.days, x.items)) = full \o x.items
  <2> HIDE DEF D
  <2> QED BY <1>1, FlattenNext
<1>3. y \in Nat
  BY <1>1
<1>6. full \o x.items = Course(m - 1) /\ y <= study - 1
  BY DEF PackedOK
<1>7. ASSUME NEW d \in 1..y PROVE Timetable!MinutesIn(x.days[d], mins) <= capacity
  BY DEF PackedOK
<1>8. x.used = Timetable!MinutesIn(x.items, mins)
  BY DEF PackedOK
<1>9. x.used <= capacity \/ y = study - 1
  BY DEF PackedOK
<1>4. CASE /\ x.used + mins[m] > target
           /\ x.items # <<>>
           /\ Len(x.days) < study - 1
  <2> DEFINE z == [days |-> Append(x.days, x.items), items |-> <<m>>, used |-> mins[m]]
  <2>1. Timetable!Place(x, m, mins, study, target) = z
    BY <1>4 DEF Timetable!Place
  <2>2. Timetable!FlattenSeq(z.days) \o z.items = Course(m)
    <3>1. Timetable!FlattenSeq(z.days) = Course(m - 1)
      BY <1>2, <1>6
    <3>2. m \in Nat \ {0}
      OBVIOUS
    <3> QED BY <3>1, <3>2, CourseNext
  <2>3. /\ Len(z.days) = y + 1 /\ z.days[y + 1] = x.items
        /\ \A d \in 1..y : z.days[d] = x.days[d]
    BY <1>1
  <2>4. y < study - 1
    BY <1>4
  <2>5. Timetable!MinutesIn(z.items, mins) = mins[m]
    <3>1. <<>> \in Seq(D) /\ <<m>> = Append(<<>>, m)
      OBVIOUS
    <3>2. Timetable!MinutesIn(<<m>>, mins) = Timetable!MinutesIn(<<>>, mins) + mins[m]
      <4> HIDE DEF D
      <4>1. m \in D /\ mins \in [D -> Nat]
        BY DEF D
      <4> QED BY <3>1, <4>1, MinutesNext
    <3> QED BY <1>1, <3>2, MinutesOfNone
  <2>6. ASSUME NEW d \in 1..(y + 1) PROVE Timetable!MinutesIn(z.days[d], mins) <= capacity
    <3>1. CASE d = y + 1
      <4>1. x.used <= capacity
        <5> HIDE DEF y
        <5>1. y # study - 1
          BY <1>3, <2>4
        <5> QED BY <1>9, <5>1
      <4>2. z.days[d] = x.items
        BY <2>3, <3>1
      <4> HIDE DEF z
      <4> QED BY <1>8, <4>1, <4>2
    <3>2. CASE d # y + 1
      <4> HIDE DEF z, y, full
      <4>1. d \in 1..y
        BY <1>3, <3>2
      <4> QED BY <1>7, <2>3, <4>1
    <3> QED BY <3>1, <3>2
  <2>7. z.used = mins[m]
    OBVIOUS
  <2> HIDE DEF z, y, full
  <2>8. Len(z.days) <= study - 1
    BY <1>3, <2>3, <2>4
  <2>9. PackedOK(z, m, mins, study, capacity)
    BY <2>2, <2>3, <2>5, <2>6, <2>7, <2>8 DEF PackedOK
  <2> QED BY <2>1, <2>9
<1>5. CASE ~ /\ x.used + mins[m] > target
             /\ x.items # <<>>
             /\ Len(x.days) < study - 1
  <2> DEFINE z == [days |-> x.days, items |-> Append(x.items, m), used |-> x.used + mins[m]]
  <2>1. Timetable!Place(x, m, mins, study, target) = z
    <3>1. Timetable!Place(x, m, mins, study, target)
            = [x EXCEPT !.items = Append(@, m), !.used = @ + mins[m]]
      BY <1>5 DEF Timetable!Place
    <3> QED BY <1>1, <3>1
  <2>2. Timetable!FlattenSeq(z.days) \o z.items = Course(m)
    <3>1. full \o Append(x.items, m) = (full \o x.items) \o <<m>>
      <4>1. m \in D
        OBVIOUS
      <4> HIDE DEF full, D
      <4> QED BY <1>1, <1>2, <4>1, AppendedLast
    <3>2. m \in Nat \ {0}
      OBVIOUS
    <3> QED BY <1>6, <3>1, <3>2, CourseNext
  <2>3. Timetable!MinutesIn(z.items, mins) = x.used + mins[m]
    <3> HIDE DEF D
    <3>1. m \in D /\ mins \in [D -> Nat]
      BY DEF D
    <3>2. z.items = Append(x.items, m)
      OBVIOUS
    <3>3. Timetable!MinutesIn(Append(x.items, m), mins)
            = Timetable!MinutesIn(x.items, mins) + mins[m]
      BY <1>1, <3>1, MinutesNext
    <3> HIDE DEF z
    <3> QED BY <1>8, <3>2, <3>3
  <2>4. z.used <= capacity \/ y = study - 1
    <3>1. CASE x.used + mins[m] <= target
      BY <1>1, <3>1
    <3>2. CASE x.items = <<>>
      <4>1. Timetable!MinutesIn(<<>>, mins) = 0
        BY MinutesOfNone
      <4>2. x.used = 0
        BY <1>8, <3>2, <4>1
      <4> QED BY <1>1, <4>2
    <3>3. CASE ~(y < study - 1)
      <4> HIDE DEF y
      <4> QED BY <1>3, <1>6, <3>3
    <3>4. x.used + mins[m] <= target \/ x.items = <<>> \/ ~(y < study - 1)
      BY <1>1, <1>5
    <3> QED BY <3>1, <3>2, <3>3, <3>4
  <2>5. z.days = x.days /\ z.used = x.used + mins[m]
    OBVIOUS
  <2> HIDE DEF z
  <2>6. PackedOK(z, m, mins, study, capacity)
    BY <1>3, <1>6, <1>7, <2>2, <2>3, <2>4, <2>5 DEF PackedOK
  <2> QED BY <2>1, <2>6
<1> QED BY <1>4, <1>5

\* Packing spreads the whole course in its order over days that there are, of which only
\* the last may have too many minutes.
LEMMA PackedDays ==
    ASSUME NEW N \in Nat, NEW mins \in [1..N -> Nat], NEW days \in Nat \ {0},
           NEW capacity \in Nat \ {0}, \A m \in 1..N : mins[m] <= capacity,
           NEW p, p = Timetable!PackModulesIntoDays(mins, days, capacity)
    PROVE  /\ p \in Seq(Seq(1..N)) /\ Len(p) \in 1..days
           /\ Timetable!FlattenSeq(p) = Course(N)
           /\ \A d \in 1..(Len(p) - 1) : Timetable!MinutesIn(p[d], mins) <= capacity
<1> DEFINE study == StudyDays(Timetable!Total(mins), days, capacity)
           target == PerDay(Timetable!Total(mins), days, capacity)
<1>1. mins \in Seq(Nat) /\ Len(mins) = N /\ Timetable!Total(mins) \in Nat
  BY TotalTyped
<1>2. study \in 1..days /\ target \in Int /\ target <= capacity
  BY <1>1, DaysAndTarget
<1>3. PICK f \in [0..N -> Packings(1..N)] :
         /\ f[0] = [days |-> <<>>, items |-> <<>>, used |-> 0]
         /\ p = Append(f[N].days, f[N].items)
         /\ \A m \in 1..N : f[m] = Timetable!Place(f[m - 1], m, mins, study, target)
  <2>1. \E f : Packs(f, N, mins, days, capacity)
    BY <1>1, PacksOneByOne
  <2> QED BY <2>1 DEF Packs
<1> HIDE DEF study, target
<1>4. study \in Nat \ {0}
  BY <1>2
<1>5. PackedOK(f[N], N, mins, study, capacity)
  <2> DEFINE S == {m \in 0..N : PackedOK(f[m], m, mins, study, capacity)}
  <2>1. 0 \in S
    <3> DEFINE z == [days |-> <<>>, items |-> <<>>, used |-> 0]
    <3>1. Timetable!FlattenSeq(<<>>) \o <<>> = Course(0)
      BY FlattenOfNone DEF Course
    <3>2. 0 <= study - 1 /\ 0 <= capacity
      BY <1>4
    <3>3. z.days = <<>> /\ z.items = <<>> /\ z.used = 0 /\ Len(z.days) = 0
      OBVIOUS
    <3> HIDE DEF z
    <3>4. PackedOK(z, 0, mins, study, capacity)
      BY <3>1, <3>2, <3>3, MinutesOfNone DEF PackedOK
    <3>5. f[0] = z
      BY <1>3 DEF z
    <3> QED BY <3>4, <3>5
  <2>2. ASSUME NEW m \in 1..N, m - 1 \in S PROVE m \in S
    <3>1. m \in 0..N /\ f[m - 1] \in Packings(1..N)
      BY <1>3
    <3>2. PackedOK(f[m - 1], m - 1, mins, study, capacity)
      BY <2>2
    <3>3. PackedOK(Timetable!Place(f[m - 1], m, mins, study, target), m, mins, study, capacity)
      BY <1>2, <1>4, <3>1, <3>2, PlaceKeeps
    <3> QED BY <1>3, <3>1, <3>3
  <2> HIDE DEF S
  <2>3. \A m \in 0..N : m \in S
    BY <2>1, <2>2, UpTo
  <2>4. N \in S
    BY <2>3
  <2> QED BY <2>4 DEF S
<1> DEFINE x == f[N]
           y == Len(x.days)
<1>6. /\ x \in Packings(1..N) /\ PackedOK(x, N, mins, study, capacity)
      /\ p = Append(x.days, x.items)
  BY <1>3, <1>5
<1> HIDE DEF x
<1>7. x.days \in Seq(Seq(1..N)) /\ x.items \in Seq(1..N)
  BY <1>6 DEF Packings
<1>8. /\ y \in Nat /\ p \in Seq(Seq(1..N)) /\ Len(p) = y + 1
      /\ \A d \in 1..y : p[d] = x.days[d]
  BY <1>6, <1>7
<1>9. Timetable!FlattenSeq(p) = Course(N)
  <2>1. Timetable!FlattenSeq(p) = Timetable!FlattenSeq(x.days) \o x.items
    BY <1>6, <1>7, FlattenNext
  <2> QED BY <1>6, <2>1 DEF PackedOK
<1>10. y <= study - 1 /\ \A d \in 1..y : Timetable!MinutesIn(x.days[d], mins) <= capacity
  BY <1>6 DEF PackedOK
<1> HIDE DEF y
<1>11. Len(p) \in 1..days /\ Len(p) - 1 = y
  BY <1>2, <1>8, <1>10
<1> QED BY <1>8, <1>9, <1>10, <1>11

\* The modules of a day with their times, each as long as its minutes; and a break between
\* any two of one slot.
Timed(D) == [module : D, slot : Nat, start : Nat, end : Nat]

Placed(timed, items, mins) ==
    /\ Len(timed) <= Len(items)
    /\ \A j \in 1..Len(timed) :
         timed[j].module = items[j] /\ timed[j].end = timed[j].start + mins[items[j]]

Apart(timed) ==
    \A j, k \in 1..Len(timed) :
        j < k /\ timed[j].slot = timed[k].slot => timed[j].end + 5 <= timed[k].start

LEMMA LaidOutInTurn ==
    ASSUME NEW D, NEW mins \in [D -> Nat], NEW queue \in Seq(D), NEW slot \in Nat, NEW from \in Nat,
           NEW s, s = Timetable!LaidOut(queue, slot, from, mins)
    PROVE  /\ s \in Seq(Timed(D)) /\ Len(s) = Len(queue) /\ Placed(s, queue, mins) /\ Apart(s)
           /\ \A j \in 1..Len(s) : s[j].slot = slot /\ from <= s[j].start
<1> DEFINE y == Len(queue)
           P(j) == Timetable!MinutesIn(SubSeq(queue, 1, j), mins)
           begin(j) == from + 5 * (j - 1) + P(j - 1)
           item(j) == [module |-> queue[j], slot |-> slot, start |-> begin(j),
                       end |-> begin(j) + mins[queue[j]]]
<1>1. y \in Nat /\ \A j \in 1..y : queue[j] \in D
  OBVIOUS
<1>2. s = [j \in 1..y |-> item(j)]
  BY DEF Timetable!LaidOut
<1>3. ASSUME NEW j \in 0..y PROVE P(j) \in Nat
  <2>1. SubSeq(queue, 1, j) \in Seq(D)
    OBVIOUS
  <2> QED BY <2>1, MinutesTyped
<1>4. ASSUME NEW j \in 1..y
      PROVE  /\ P(j - 1) \in Nat /\ P(j) = P(j - 1) + mins[queue[j]] /\ mins[queue[j]] \in Nat
             /\ j - 1 \in Nat
  <2>1. P(j) = P(j - 1) + mins[queue[j]]
    BY MinutesBefore
  <2> HIDE DEF P
  <2>2. j - 1 \in 0..y
    BY <1>1
  <2> QED BY <1>1, <1>3, <2>1, <2>2
<1>5. ASSUME NEW i \in 0..y, NEW j \in i..y PROVE P(i) <= P(j)
  BY MinutesGrow
<1> HIDE DEF P, y
<1>6. ASSUME NEW j \in 1..y
      PROVE  begin(j) \in Nat /\ begin(j) + mins[queue[j]] \in Nat /\ from <= begin(j)
  BY <1>4
<1>7. ASSUME NEW j \in 1..y
      PROVE  /\ s[j] = item(j) /\ s[j] \in Timed(D)
             /\ s[j].module = queue[j] /\ s[j].slot = slot /\ s[j].start = begin(j)
             /\ s[j].end = begin(j) + mins[queue[j]]
  <2> HIDE DEF begin
  <2>1. s[j] = item(j)
    BY <1>2
  <2>2. item(j) \in Timed(D)
    BY <1>1, <1>6 DEF Timed
  <2> QED BY <2>1, <2>2
<1> HIDE DEF item
<1>8. s \in Seq(Timed(D)) /\ Len(s) = y
  <2>1. s = [j \in 1..y |-> s[j]]
    BY <1>2
  <2>2. s \in [1..y -> Timed(D)]
    BY <1>7, <2>1
  <2> QED BY <1>1, <2>2
<1>9. ASSUME NEW i \in 1..y, NEW j \in 1..y, i < j PROVE s[i].end + 5 <= s[j].start
  <2>1. i \in 0..y /\ j - 1 \in i..y /\ j - 1 \in Nat
    BY <1>1, <1>9
  <2>2. P(i) <= P(j - 1)
    BY <1>5, <2>1
  <2>3. s[i].end = from + 5 * (i - 1) + P(i)
    <3>1. PICK a \in Nat, b \in Nat : a = P(i - 1) /\ b = mins[queue[i]]
      BY <1>4
    <3>2. P(i) = a + b /\ s[i].end = from + 5 * (i - 1) + a + b
      BY <1>4, <1>7, <3>1
    <3> QED BY <3>1, <3>2
  <2>4. s[j].start = from + 5 * (j - 1) + P(j - 1)
    BY <1>7
  <2>5. P(i) \in Nat /\ P(j - 1) \in Nat
    BY <1>3, <1>4, <2>1
  <2>6. PICK a \in Nat, b \in Nat : a = P(i) /\ b = P(j - 1)
    BY <2>5
  <2>7. from + 5 * (i - 1) + a + 5 <= from + 5 * (j - 1) + b
    BY <1>9, <2>2, <2>6
  <2> QED BY <2>3, <2>4, <2>6, <2>7
<1>10. Apart(s)
  BY <1>8, <1>9 DEF Apart
<1>11. Placed(s, queue, mins)
  <2>1. y <= y
    BY <1>1
  <2> HIDE DEF begin
  <2> QED BY <1>7, <1>8, <2>1 DEF Placed, y
<1>12. \A j \in 1..Len(s) : s[j].slot = slot /\ from <= s[j].start
  <2> HIDE DEF begin
  <2> QED BY <1>6, <1>7, <1>8
<1> QED BY <1>8, <1>10, <1>11, <1>12 DEF y

\* What is laid out: all of a queue in its order, in one slot and from a minute on.
InTurn(s, D, queue, slot, from, mins) ==
    /\ s \in Seq(Timed(D)) /\ Len(s) = Len(queue) /\ Placed(s, queue, mins) /\ Apart(s)
    /\ \A j \in 1..Len(s) : s[j].slot = slot /\ from <= s[j].start

LEMMA AllInTurn ==
    ASSUME NEW D, NEW mins \in [D -> Nat], NEW queue \in Seq(D), NEW slot \in Nat, NEW from \in Nat
    PROVE  InTurn(Timetable!LaidOut(queue, slot, from, mins), D, queue, slot, from, mins)
<1> DEFINE s == Timetable!LaidOut(queue, slot, from, mins)
<1> HIDE DEF s
<1>1. s = Timetable!LaidOut(queue, slot, from, mins)
  BY DEF s
<1>2. /\ s \in Seq(Timed(D)) /\ Len(s) = Len(queue) /\ Placed(s, queue, mins) /\ Apart(s)
      /\ \A j \in 1..Len(s) : s[j].slot = slot /\ from <= s[j].start
  BY <1>1, LaidOutInTurn
<1>3. InTurn(s, D, queue, slot, from, mins)
  BY <1>2 DEF InTurn
<1> QED BY <1>3 DEF s

\* A queue is what is left of the modules after the first c.
Left(queue, items, c) ==
    /\ Len(queue) = Len(items) - c
    /\ \A j \in 1..Len(queue) : queue[j] = items[c + j]

\* Laying the next modules out after those that are continues the day.
LEMMA PlacedGoesOn ==
    ASSUME NEW D, NEW mins \in [D -> Nat], NEW items \in Seq(D), NEW queue \in Seq(D),
           NEW timed \in Seq(Timed(D)), NEW more \in Seq(Timed(D)),
           Placed(timed, items, mins), Left(queue, items, Len(timed)),
           Placed(more, queue, mins)
    PROVE  /\ timed \o more \in Seq(Timed(D)) /\ Len(timed \o more) = Len(timed) + Len(more)
           /\ Placed(timed \o more, items, mins)
           /\ (/\ Apart(timed) /\ Apart(more)
               /\ \A j \in 1..Len(timed), k \in 1..Len(more) :
                    timed[j].slot = more[k].slot => timed[j].end + 5 <= more[k].start)
                => Apart(timed \o more)
<1> DEFINE c == Len(timed)
           k == Len(more)
           n == Len(items)
           s == timed \o more
<1>1. c \in Nat /\ k \in Nat /\ n \in Nat
  OBVIOUS
<1>2. /\ s \in Seq(Timed(D)) /\ Len(s) = c + k
      /\ \A j \in 1..c : s[j] = timed[j]
      /\ \A j \in 1..k : s[c + j] = more[j]
  <2>1. s \in Seq(Timed(D)) /\ Len(s) = c + k
    OBVIOUS
  <2>2. \A j \in 1..c : s[j] = timed[j]
    OBVIOUS
  <2>3. \A j \in 1..k : s[c + j] = more[j]
    OBVIOUS
  <2> QED BY <2>1, <2>2, <2>3
<1>3. c <= n /\ Len(queue) = n - c /\ k <= Len(queue)
  BY DEF Placed, Left
<1>4. \A j \in 1..c : /\ timed[j].module = items[j]
                      /\ timed[j].end = timed[j].start + mins[items[j]]
  BY DEF Placed
<1>5. \A j \in 1..k : more[j].module = items[c + j]
                      /\ more[j].end = more[j].start + mins[items[c + j]]
  <2> TAKE j \in 1..k
  <2>1. j \in 1..Len(queue)
    <3> HIDE DEF k, n, c
    <3> QED BY <1>1, <1>3
  <2>2. queue[j] = items[c + j]
    BY <2>1 DEF Left
  <2> QED BY <2>2 DEF Placed
<1>6. ASSUME NEW j \in 1..(c + k)
      PROVE  j \in 1..c \/ (j - c \in 1..k /\ c + (j - c) = j)
  <2> HIDE DEF c, k
  <2> QED BY <1>1
<1> HIDE DEF c, k, n, s
<1>7. Placed(s, items, mins)
  <2>1. c + k <= n
    BY <1>1, <1>3
  <2>2. ASSUME NEW j \in 1..(c + k)
        PROVE  s[j].module = items[j] /\ s[j].end = s[j].start + mins[items[j]]
    <3>1. CASE j \in 1..c
      BY <1>2, <1>4, <3>1
    <3>2. CASE j - c \in 1..k /\ c + (j - c) = j
      <4>1. s[c + (j - c)] = more[j - c]
        BY <1>2, <3>2
      <4>2. more[j - c].module = items[c + (j - c)]
            /\ more[j - c].end = more[j - c].start + mins[items[c + (j - c)]]
        BY <1>5, <3>2
      <4> QED BY <3>2, <4>1, <4>2
    <3> QED BY <1>6, <3>1, <3>2
  <2> QED BY <1>2, <2>1, <2>2 DEF Placed, n
<1>8. ASSUME Apart(timed), Apart(more),
             \A j \in 1..c, i \in 1..k :
               timed[j].slot = more[i].slot => timed[j].end + 5 <= more[i].start
      PROVE  Apart(s)
  <2> SUFFICES ASSUME NEW i \in 1..(c + k), NEW j \in 1..(c + k), i < j, s[i].slot = s[j].slot
               PROVE  s[i].end + 5 <= s[j].start
    BY <1>2 DEF Apart
  <2>1. CASE j \in 1..c
    <3>1. i \in 1..c
      BY <1>1, <2>1
    <3>2. s[i] = timed[i] /\ s[j] = timed[j]
      BY <1>2, <2>1, <3>1
    <3> QED BY <1>8, <2>1, <3>1, <3>2 DEF Apart, c
  <2>2. CASE j - c \in 1..k /\ c + (j - c) = j
    <3>1. s[j] = more[j - c]
      <4>1. s[c + (j - c)] = more[j - c]
        BY <1>2, <2>2
      <4> QED BY <2>2, <4>1
    <3>2. CASE i \in 1..c
      BY <1>2, <1>8, <2>2, <3>1, <3>2
    <3>3. CASE i - c \in 1..k /\ c + (i - c) = i
      <4>1. s[i] = more[i - c]
        <5>1. s[c + (i - c)] = more[i - c]
          BY <1>2, <3>3
        <5> QED BY <3>3, <5>1
      <4>2. i - c < j - c
        BY <1>1
      <4> QED BY <1>8, <2>2, <3>1, <3>3, <4>1, <4>2 DEF Apart, k
    <3> QED BY <1>6, <3>2, <3>3
  <2> QED BY <1>6, <2>1, <2>2
<1> QED BY <1>2, <1>7, <1>8 DEF s, c, k

\* Some number of modules fits in any minutes: as many as can be.
LEMMA SomeFit ==
    ASSUME NEW D, NEW mins \in [D -> Nat], NEW queue \in Seq(D), NEW budget \in Nat
    PROVE  Timetable!Fitting(queue, budget, mins) \in 0..Len(queue)
<1> DEFINE y == Len(queue)
           P(j) == Timetable!MinutesIn(SubSeq(queue, 1, j), mins)
           full == {k \in 0..y : k = y \/ P(k + 1) > budget}
<1>1. y \in Nat
  OBVIOUS
<1>2. ASSUME NEW j \in 0..y PROVE P(j) \in Nat
  <2>1. SubSeq(queue, 1, j) \in Seq(D)
    OBVIOUS
  <2> QED BY <2>1, MinutesTyped
<1>3. P(0) = 0
  <2>1. SubSeq(queue, 1, 0) = <<>>
    OBVIOUS
  <2> QED BY <2>1, MinutesOfNone
<1>4. Timetable!Fitting(queue, budget, mins)
        = CHOOSE k \in 0..y : P(k) <= budget /\ (k < y => P(k + 1) > budget)
  BY DEF Timetable!Fitting
<1> HIDE DEF P, y
<1>5. full \subseteq Nat /\ y \in full
  BY <1>1
<1> HIDE DEF full
<1>6. PICK k \in full : \A i \in full : k <= i
  BY <1>5, LeastOf
<1> USE DEF full
<1>7. k \in 0..y /\ (k < y => P(k + 1) > budget)
  BY <1>1, <1>6
<1>8. P(k) <= budget
  <2>1. CASE k = 0
    BY <1>3, <2>1
  <2>2. CASE k # 0
    <3>1. k - 1 \in 0..y /\ k - 1 # y /\ (k - 1) + 1 = k
      BY <1>1, <1>7, <2>2
    <3>2. k - 1 \notin full
      BY <1>1, <1>6, <1>7
    <3>3. ~(P(k) > budget)
      BY <3>1, <3>2
    <3>4. P(k) \in Nat
      BY <1>2, <1>7
    <3> QED BY <3>3, <3>4
  <2> QED BY <2>1, <2>2
<1> HIDE DEF full
<1> QED BY <1>4, <1>7, <1>8 DEF y

\* The share of a slot is a number of minutes.
LEMMA BudgetTyped ==
    ASSUME NEW slots \in Seq(Nat), slots # <<>>, NEW slot, NEW total \in Nat
    PROVE  Timetable!Budget(slot, slots, total) \in Nat
<1> DEFINE n == Len(slots)
           d == total \div n
<1>1. n \in Nat \ {0}
  OBVIOUS
<1>2. d \in Nat
  <2> HIDE DEF n
  <2> QED BY <1>1
<1> HIDE DEF d
<1>3. d + 1 \in Nat /\ d + 0 \in Nat
  BY <1>2
<1>4. \E e \in {0, 1} : Timetable!Budget(slot, slots, total) = d + e
  BY DEF Timetable!Budget, d
<1> QED BY <1>3, <1>4

\* A queue is cut in two.
LEMMA Cut ==
    ASSUME NEW D, NEW q \in Seq(D), NEW k \in 0..Len(q)
    PROVE  /\ SubSeq(q, 1, k) \in Seq(D) /\ Len(SubSeq(q, 1, k)) = k
           /\ \A j \in 1..k : SubSeq(q, 1, k)[j] = q[j]
           /\ SubSeq(q, k + 1, Len(q)) \in Seq(D)
           /\ Len(SubSeq(q, k + 1, Len(q))) = Len(q) - k
           /\ \A j \in 1..(Len(q) - k) : SubSeq(q, k + 1, Len(q))[j] = q[k + j]
<1> DEFINE n == Len(q)
           a == SubSeq(q, 1, k)
           b == SubSeq(q, k + 1, n)
<1>1. n \in Nat /\ k \in Nat /\ k <= n /\ \A i \in 1..n : q[i] \in D
  OBVIOUS
<1> HIDE DEF n
<1>2. 1 \in Int /\ k \in Int /\ k + 1 \in Int /\ n \in Int
  BY <1>1
<1>3. (\A i \in 1..k : q[i] \in D) /\ (\A i \in (k + 1)..n : q[i] \in D)
  BY <1>1
<1>4. a \in Seq(D) /\ Len(a) = (IF 1 <= k THEN k - 1 + 1 ELSE 0)
      /\ \A i \in 1..(k - 1 + 1) : a[i] = q[1 + i - 1]
  BY <1>2, <1>3, SubSeqProperties
<1>5. b \in Seq(D) /\ Len(b) = (IF k + 1 <= n THEN n - (k + 1) + 1 ELSE 0)
      /\ \A i \in 1..(n - (k + 1) + 1) : b[i] = q[(k + 1) + i - 1]
  BY <1>2, <1>3, SubSeqProperties
<1> HIDE DEF a, b
<1>6. Len(a) = k /\ Len(b) = n - k
  BY <1>1, <1>4, <1>5
<1>7. ASSUME NEW j \in 1..k PROVE a[j] = q[j]
  <2>1. j \in 1..(k - 1 + 1) /\ 1 + j - 1 = j
    BY <1>1
  <2> QED BY <1>4, <2>1
<1>8. ASSUME NEW j \in 1..(n - k) PROVE b[j] = q[k + j]
  <2>1. j \in 1..(n - (k + 1) + 1) /\ (k + 1) + j - 1 = k + j
    BY <1>1
  <2> QED BY <1>5, <2>1
<1> QED BY <1>4, <1>5, <1>6, <1>7, <1>8 DEF a, b, n

\* A day as far as its slots are filled: what is left and what is laid out.
Fillings(D) == [queue : Seq(D), timed : Seq(Timed(D))]

LEMMA FillTyped ==
    ASSUME NEW D, NEW mins \in [D -> Nat], NEW x \in Fillings(D), NEW slot \in Nat,
           NEW budget \in Nat
    PROVE  \E k \in 0..Len(x.queue) :
             LET front == SubSeq(x.queue, 1, k)
                 rest  == SubSeq(x.queue, k + 1, Len(x.queue))
                 more  == Timetable!LaidOut(front, slot, slot, mins)
             IN  /\ front \in Seq(D) /\ rest \in Seq(D) /\ more \in Seq(Timed(D))
                 /\ Timetable!Fill(x, slot, budget, mins)
                      = [queue |-> rest, timed |-> x.timed \o more]
                 /\ Timetable!Fill(x, slot, budget, mins) \in Fillings(D)
<1> DEFINE q == x.queue
           k == Timetable!Fitting(q, budget, mins)
           front == SubSeq(q, 1, k)
           rest  == SubSeq(q, k + 1, Len(q))
           more  == Timetable!LaidOut(front, slot, slot, mins)
<1>1. q \in Seq(D) /\ x.timed \in Seq(Timed(D))
  BY DEF Fillings
<1>2. k \in 0..Len(q)
  <2> HIDE DEF q
  <2> QED BY <1>1, SomeFit
<1>3. Timetable!Fill(x, slot, budget, mins) = [queue |-> rest, timed |-> x.timed \o more]
  BY DEF Timetable!Fill
<1> HIDE DEF k, q
<1>4. front \in Seq(D) /\ rest \in Seq(D)
  BY <1>1, <1>2, Cut
<1> HIDE DEF front, rest
<1>5. more \in Seq(Timed(D))
  BY <1>4, LaidOutInTurn
<1> HIDE DEF more
<1>6. Timetable!Fill(x, slot, budget, mins) \in Fillings(D)
  BY <1>1, <1>3, <1>4, <1>5 DEF Fillings
<1> QED BY <1>2, <1>3, <1>4, <1>5, <1>6 DEF front, rest, more, q

\* f fills the slots one after the other, and what is left goes on in the last one.
Fills(f, D, items, slots, mins) ==
    /\ f \in [0..Len(slots) -> Fillings(D)]
    /\ f[0] = [queue |-> items, timed |-> <<>>]
    /\ \A i \in 1..Len(slots) :
         f[i] = Timetable!Fill(f[i - 1], slots[i],
                  Timetable!Budget(slots[i], slots, Timetable!MinutesIn(items, mins)), mins)
    /\ LET last == f[Len(slots)]
           over == slots[Len(slots)]
       IN  Timetable!AssignTimes(items, slots, mins)
             = last.timed \o Timetable!LaidOut(last.queue, over,
                                               Timetable!LeftoverFrom(last.timed, over), mins)

LEMMA FillsInTurn ==
    ASSUME NEW D, NEW mins \in [D -> Nat], NEW items \in Seq(D),
           NEW slots \in Seq(Nat), slots # <<>>
    PROVE  \E f : Fills(f, D, items, slots, mins)
<1> DEFINE n == Len(slots)
           X == Fillings(D)
           base == [queue |-> items, timed |-> <<>>]
           step == [i \in 1..n |-> [x \in X |-> Timetable!Fill(x, slots[i],
                      Timetable!Budget(slots[i], slots, Timetable!MinutesIn(items, mins)), mins)]]
           Rule(f) == [i \in 0..n |->
                        IF i = 0 THEN [queue |-> items, timed |-> <<>>]
                        ELSE Timetable!Fill(f[i - 1], slots[i],
                      Timetable!Budget(slots[i], slots, Timetable!MinutesIn(items, mins)), mins)]
           F == CHOOSE f : f = Rule(f)
<1>1. n \in Nat /\ \A i \in 1..n : slots[i] \in Nat
  OBVIOUS
<1>2. ASSUME NEW x \in X, NEW i \in 1..n
      PROVE  Timetable!Fill(x, slots[i],
               Timetable!Budget(slots[i], slots, Timetable!MinutesIn(items, mins)), mins) \in X
  <2>1. Timetable!Budget(slots[i], slots, Timetable!MinutesIn(items, mins)) \in Nat
    BY MinutesTyped, BudgetTyped
  <2> QED BY <1>1, <2>1, FillTyped
<1>3. base \in X
  BY DEF Fillings
<1>4. step \in [1..n -> [X -> X]]
  <2> HIDE DEF X, n
  <2> QED BY <1>2
<1>5. PICK g : g \in [0..n -> X] /\ g[0] = base /\ \A i \in 1..n : g[i] = step[i][g[i - 1]]
  <2> HIDE DEF step, n, base, X
  <2>1. \E g : Takes(g, n, X, base, step)
    BY <1>1, <1>3, <1>4, Stepwise
  <2> QED BY <2>1 DEF Takes
<1>6. \A i \in 1..n : g[i] = Timetable!Fill(g[i - 1], slots[i],
                      Timetable!Budget(slots[i], slots, Timetable!MinutesIn(items, mins)), mins)
  <2> TAKE i \in 1..n
  <2> HIDE DEF X, n
  <2>1. i - 1 \in 0..n
    BY <1>1
  <2>2. g[i - 1] \in X
    BY <1>5, <2>1
  <2> QED BY <1>5, <2>2
<1>7. g = Rule(g)
  <2> HIDE DEF n, step, X
  <2>1. ASSUME NEW i \in 0..n
        PROVE  g[i] = IF i = 0 THEN base ELSE Timetable!Fill(g[i - 1], slots[i],
                      Timetable!Budget(slots[i], slots, Timetable!MinutesIn(items, mins)), mins)
    <3>1. CASE i = 0
      BY <1>5, <3>1
    <3>2. CASE i # 0
      <4>1. i \in 1..n
        BY <1>1, <3>2
      <4> QED BY <1>6, <3>2, <4>1
    <3> QED BY <3>1, <3>2
  <2>2. g = [i \in 0..n |-> g[i]]
    BY <1>5
  <2> QED BY <2>1, <2>2
<1> HIDE DEF Rule
<1>8. F = Rule(F)
  BY <1>7
<1> HIDE DEF F
<1>9. /\ F = [i \in 0..n |-> F[i]]
      /\ \A i \in 0..n : F[i] = IF i = 0 THEN base ELSE Timetable!Fill(F[i - 1], slots[i],
                      Timetable!Budget(slots[i], slots, Timetable!MinutesIn(items, mins)), mins)
  <2> HIDE DEF n
  <2> QED BY <1>8 DEF Rule
<1>10. F[0] = base /\ \A i \in 1..n : F[i] = Timetable!Fill(F[i - 1], slots[i],
                      Timetable!Budget(slots[i], slots, Timetable!MinutesIn(items, mins)), mins)
  <2> HIDE DEF n, base
  <2>1. 0 \in 0..n /\ \A i \in 1..n : i \in 0..n /\ i # 0
    BY <1>1
  <2> QED BY <1>9, <2>1
<1>11. \A i \in 0..n : F[i] \in X
  <2> DEFINE S == {i \in 0..n : F[i] \in X}
  <2> HIDE DEF n, X, base
  <2>1. 0 \in S
    BY <1>1, <1>3, <1>10
  <2>2. ASSUME NEW i \in 1..n, i - 1 \in S PROVE i \in S
    <3>1. i \in 0..n /\ F[i - 1] \in X
      BY <1>1, <2>2
    <3> QED BY <1>2, <1>10, <3>1
  <2> HIDE DEF S
  <2>3. \A i \in 0..n : i \in S
    BY <1>1, <2>1, <2>2, UpTo
  <2> QED BY <2>3 DEF S
<1>12. F \in [0..n -> X]
  <2> HIDE DEF n, X
  <2> QED BY <1>9, <1>11
<1>13. Timetable!AssignTimes(items, slots, mins)
          = F[n].timed \o Timetable!LaidOut(F[n].queue, slots[n],
                                           Timetable!LeftoverFrom(F[n].timed, slots[n]), mins)
  BY DEF Timetable!AssignTimes, Timetable!Last, F, Rule
<1> QED BY <1>10, <1>12, <1>13 DEF Fills

\* What is laid out continues in the order of the modules, in the slots so far; without a
\* slot asked for twice no two modules of one are too close.
Filled(x, i, items, slots, mins) ==
    /\ Placed(x.timed, items, mins) /\ Left(x.queue, items, Len(x.timed))
    /\ \A j \in 1..Len(x.timed) : \E q \in 1..i : x.timed[j].slot = slots[q]
    /\ Timetable!IsInjective(slots) => Apart(x.timed)

LEMMA FillKeeps ==
    ASSUME NEW D, NEW mins \in [D -> Nat], NEW items \in Seq(D), NEW slots \in Seq(Nat),
           NEW x \in Fillings(D), NEW i \in 1..Len(slots), NEW budget \in Nat,
           Filled(x, i - 1, items, slots, mins)
    PROVE  Filled(Timetable!Fill(x, slots[i], budget, mins), i, items, slots, mins)
<1> DEFINE q == x.queue
           t == x.timed
           c == Len(x.timed)
           n == Len(items)
           slot == slots[i]
<1>1. slot \in Nat /\ q \in Seq(D) /\ t \in Seq(Timed(D)) /\ c \in Nat /\ n \in Nat
  BY DEF Fillings
<1>2. PICK k \in 0..Len(q) :
             LET front == SubSeq(q, 1, k)
                 rest  == SubSeq(q, k + 1, Len(q))
                 more  == Timetable!LaidOut(front, slot, slot, mins)
             IN  /\ front \in Seq(D) /\ rest \in Seq(D) /\ more \in Seq(Timed(D))
                 /\ Timetable!Fill(x, slot, budget, mins)
                      = [queue |-> rest, timed |-> t \o more]
                 /\ Timetable!Fill(x, slot, budget, mins) \in Fillings(D)
  <2> HIDE DEF slot
  <2> QED BY <1>1, FillTyped
<1> DEFINE front == SubSeq(q, 1, k)
           rest  == SubSeq(q, k + 1, Len(q))
           more  == Timetable!LaidOut(front, slot, slot, mins)
           z == Timetable!Fill(x, slot, budget, mins)
<1>3. /\ front \in Seq(D) /\ rest \in Seq(D) /\ more \in Seq(Timed(D))
      /\ z = [queue |-> rest, timed |-> t \o more]
  BY <1>2
<1>4. /\ Len(front) = k /\ Len(rest) = Len(q) - k
      /\ \A j \in 1..k : front[j] = q[j]
      /\ \A j \in 1..Len(rest) : rest[j] = q[k + j]
  <2> HIDE DEF q
  <2> QED BY <1>1, Cut
<1> HIDE DEF front, rest
<1>5. /\ Len(more) = Len(front) /\ Placed(more, front, mins) /\ Apart(more)
      /\ \A j \in 1..Len(more) : more[j].slot = slot /\ slot <= more[j].start
  <2>1. more = Timetable!LaidOut(front, slot, slot, mins)
    OBVIOUS
  <2> HIDE DEF slot, more, front
  <2>3. front \in Seq(D) /\ slot \in Nat
    BY <1>1, <1>3
  <2>2. /\ more \in Seq(Timed(D)) /\ Len(more) = Len(front) /\ Placed(more, front, mins)
        /\ Apart(more)
        /\ \A j \in 1..Len(more) : more[j].slot = slot /\ slot <= more[j].start
    <3>1. InTurn(Timetable!LaidOut(front, slot, slot, mins), D, front, slot, slot, mins)
      BY <2>3, AllInTurn
    <3>2. InTurn(more, D, front, slot, slot, mins)
      BY <2>1, <3>1
    <3> QED BY <3>2 DEF InTurn
  <2> QED BY <2>2
<1> HIDE DEF more, slot
<1>6. Len(q) \in Nat /\ k \in Nat /\ k <= Len(q)
  BY <1>1
<1> HIDE DEF q, t
<1>7. Placed(t, items, mins) /\ Left(q, items, c)
  BY DEF Filled, q, t
<1>8. Placed(more, q, mins)
  <2>1. /\ Len(more) = k
        /\ \A j \in 1..k : /\ more[j].module = front[j]
                           /\ more[j].end = more[j].start + mins[front[j]]
    BY <1>4, <1>5 DEF Placed
  <2>2. \A j \in 1..k : /\ more[j].module = q[j]
                        /\ more[j].end = more[j].start + mins[q[j]]
    BY <1>4, <2>1
  <2> QED BY <1>6, <2>1, <2>2 DEF Placed
<1>9. c = Len(t)
  BY DEF t
<1>10. /\ t \o more \in Seq(Timed(D)) /\ Len(t \o more) = c + k
       /\ Placed(t \o more, items, mins)
       /\ (/\ Apart(t) /\ Apart(more)
           /\ \A j \in 1..c, l \in 1..k :
                t[j].slot = more[l].slot => t[j].end + 5 <= more[l].start)
            => Apart(t \o more)
  <2>1. Len(more) = k
    BY <1>4, <1>5
  <2>2. Left(q, items, Len(t))
    BY <1>7, <1>9
  <2>3. /\ t \o more \in Seq(Timed(D)) /\ Len(t \o more) = Len(t) + Len(more)
        /\ Placed(t \o more, items, mins)
        /\ (/\ Apart(t) /\ Apart(more)
            /\ \A j \in 1..Len(t), l \in 1..Len(more) :
                 t[j].slot = more[l].slot => t[j].end + 5 <= more[l].start)
             => Apart(t \o more)
    BY <1>1, <1>3, <1>7, <1>8, <2>2, PlacedGoesOn
  <2> HIDE DEF c
  <2> QED BY <1>9, <2>1, <2>3
<1>11. Left(rest, items, c + k)
  <2> DEFINE y == Len(q)
  <2>1. y = n - c /\ \A j \in 1..y : q[j] = items[c + j]
    BY <1>7 DEF Left
  <2>2. y \in Nat /\ k <= y /\ Len(rest) = y - k /\ \A j \in 1..(y - k) : rest[j] = q[k + j]
    BY <1>4, <1>6
  <2> HIDE DEF y, n, c
  <2>3. ASSUME NEW j \in 1..(y - k) PROVE rest[j] = items[(c + k) + j]
    <3>1. k + j \in 1..y /\ c + (k + j) = (c + k) + j
      BY <1>1, <1>6, <2>2
    <3>2. q[k + j] = items[c + (k + j)]
      BY <2>1, <3>1
    <3> QED BY <2>2, <3>1, <3>2
  <2>4. y - k = n - (c + k)
    BY <1>1, <1>6, <2>1, <2>2
  <2> QED BY <2>2, <2>3, <2>4 DEF Left, n
<1>12. \A j \in 1..Len(more) : more[j].slot = slots[i]
  BY <1>5 DEF slot
<1>13. \A j \in 1..c : \E p \in 1..(i - 1) : t[j].slot = slots[p]
  BY DEF Filled, t
<1>14. ASSUME NEW j \in 1..Len(t \o more) PROVE \E p \in 1..i : (t \o more)[j].slot = slots[p]
  <2>1. CASE j \in 1..c
    <3>1. PICK p \in 1..(i - 1) : t[j].slot = slots[p]
      BY <1>13, <2>1
    <3>2. (t \o more)[j] = t[j]
      BY <1>1, <1>3, <1>9, <2>1 DEF t
    <3>3. p \in 1..i
      OBVIOUS
    <3> QED BY <3>1, <3>2, <3>3
  <2>2. CASE j \notin 1..c
    <3>1. j - c \in 1..k /\ c + (j - c) = j
      <4>1. Len(t \o more) = c + k
        BY <1>10
      <4>2. j \in 1..(c + k)
        BY <4>1
      <4>3. c \in Nat /\ k \in Nat
        BY <1>1, <1>6
      <4> HIDE DEF c
      <4> QED BY <2>2, <4>2, <4>3
    <3>2. (t \o more)[j] = more[j - c]
      <4>1. t \in Seq(Timed(D)) /\ Len(t) = c /\ Len(more) = k
        BY <1>1, <1>4, <1>5, <1>9 DEF t
      <4>2. \A l \in 1..k : (t \o more)[c + l] = more[l]
        <5> HIDE DEF c
        <5>2. t \in Seq(Timed(D)) /\ more \in Seq(Timed(D))
          BY <1>1, <1>3
        <5>1. \A l \in 1..Len(more) : (t \o more)[Len(t) + l] = more[l]
          BY ONLY <5>2
        <5> QED BY <4>1, <5>1
      <4>3. (t \o more)[c + (j - c)] = more[j - c]
        BY <3>1, <4>2
      <4> QED BY <3>1, <4>3
    <3>3. Len(more) = k
      BY <1>4, <1>5
    <3>4. i \in 1..i
      OBVIOUS
    <3> QED BY <1>12, <3>1, <3>2, <3>3, <3>4
  <2> QED BY <2>1, <2>2
<1>15. ASSUME Timetable!IsInjective(slots) PROVE Apart(t \o more)
  <2>1. Apart(t)
    BY <1>15 DEF Filled, t
  <2>2. ASSUME NEW j \in 1..c, NEW l \in 1..k PROVE t[j].slot # more[l].slot
    <3>1. PICK p \in 1..(i - 1) : t[j].slot = slots[p]
      BY <1>13
    <3>2. p \in DOMAIN slots /\ i \in DOMAIN slots /\ p # i
      OBVIOUS
    <3>3. slots[p] # slots[i]
      BY <1>15, <3>2 DEF Timetable!IsInjective
    <3>4. more[l].slot = slots[i]
      BY <1>4, <1>5, <1>12
    <3> QED BY <3>1, <3>3, <3>4
  <2> QED BY <1>5, <1>10, <2>1, <2>2
<1>16. Filled(z, i, items, slots, mins)
  <2>1. z.queue = rest /\ z.timed = t \o more
    BY <1>3
  <2> HIDE DEF z
  <2> QED BY <1>10, <1>11, <1>14, <1>15, <2>1 DEF Filled
<1> QED BY <1>16 DEF slot

\* The last of some of the first numbers.
LEMMA LastOf ==
    ASSUME NEW n \in Nat, NEW S, S \subseteq 1..n, S # {}
    PROVE  Timetable!Max(S) \in S /\ \A i \in S : i <= Timetable!Max(S)
<1> DEFINE T == {k \in 0..n : n - k \in S}
<1>1. T \subseteq Nat
  OBVIOUS
<1>2. T # {}
  <2>1. PICK i \in S : TRUE
    OBVIOUS
  <2>2. i \in Nat /\ n - i \in 0..n /\ n - (n - i) = i
    BY <2>1
  <2> QED BY <2>2
<1> HIDE DEF T
<1>3. PICK k \in T : \A i \in T : k <= i
  BY <1>1, <1>2, LeastOf
<1> USE DEF T
<1>4. k \in 0..n /\ n - k \in S
  BY <1>3
<1>5. ASSUME NEW i \in S PROVE n - k >= i
  <2>1. i \in 1..n /\ n - i \in 0..n /\ n - (n - i) = i
    OBVIOUS
  <2>2. n - i \in T
    BY <2>1
  <2>3. k <= n - i
    BY <1>3, <2>2
  <2> QED BY <1>4, <2>1, <2>3
<1>6. \E x \in S : \A y \in S : x >= y
  BY <1>4, <1>5
<1>7. Timetable!Max(S) = CHOOSE x \in S : \A y \in S : x >= y
  BY DEF Timetable!Max
<1> HIDE DEF T
<1>8. Timetable!Max(S) \in S /\ \A y \in S : Timetable!Max(S) >= y
  BY <1>6, <1>7
<1>9. \A y \in S : y \in Nat
  OBVIOUS
<1> QED BY <1>8, <1>9

\* What fits in no slot begins five minutes after all that is in the last one.
LEMMA LeftoverAfter ==
    ASSUME NEW D, NEW mins \in [D -> Nat], NEW items \in Seq(D), NEW timed \in Seq(Timed(D)),
           Placed(timed, items, mins), NEW slot \in Nat
    PROVE  /\ Timetable!LeftoverFrom(timed, slot) \in Nat
           /\ Apart(timed) =>
                \A j \in 1..Len(timed) :
                  timed[j].slot = slot
                    => timed[j].end + 5 <= Timetable!LeftoverFrom(timed, slot)
<1> DEFINE c == Len(timed)
           there == {i \in DOMAIN timed : timed[i].slot = slot}
           l == Timetable!Max(there)
<1>1. c \in Nat /\ there \subseteq 1..c /\ DOMAIN timed = 1..c
  OBVIOUS
<1>2. \A j \in 1..c : timed[j] \in Timed(D)
  OBVIOUS
<1>3. ASSUME NEW j \in 1..c
      PROVE  timed[j].start \in Nat /\ timed[j].end \in Nat /\ timed[j].start <= timed[j].end
  <2>1. timed[j].start \in Nat /\ timed[j].end \in Nat
    BY <1>2 DEF Timed
  <2>2. timed[j].end = timed[j].start + mins[items[j]]
    BY DEF Placed
  <2>3. j \in 1..Len(items)
    <3> DEFINE n == Len(items)
    <3>1. c <= n /\ n \in Nat
      BY DEF Placed
    <3> HIDE DEF n, c
    <3>2. j \in 1..n
      BY <1>1, <3>1
    <3> QED BY <3>2 DEF n
  <2>4. mins[items[j]] \in Nat
    BY <2>3
  <2> QED BY <2>1, <2>2, <2>4
<1>4. Timetable!LeftoverFrom(timed, slot) = IF there = {} THEN slot ELSE timed[l].end + 5
  BY DEF Timetable!LeftoverFrom
<1>5. CASE there = {}
  <2>1. \A j \in 1..c : timed[j].slot # slot
    BY <1>5
  <2> QED BY <1>4, <1>5, <2>1
<1>6. CASE there # {}
  <2> HIDE DEF c
  <2>1. l \in there /\ \A i \in there : i <= l
    <3> HIDE DEF there
    <3> QED BY <1>1, <1>6, LastOf
  <2> HIDE DEF l
  <2>2. l \in 1..c /\ timed[l].slot = slot
    BY <1>1, <2>1
  <2>3. timed[l].end + 5 \in Nat
    BY <1>3, <2>2
  <2>4. ASSUME Apart(timed), NEW j \in 1..c, timed[j].slot = slot
        PROVE  timed[j].end + 5 <= timed[l].end + 5
    <3>1. j \in there
      BY <1>1, <2>4
    <3>2. CASE j = l
      BY <2>3, <3>2
    <3>3. CASE j # l
      <4>1. j < l
        <5>1. j <= l
          BY <2>1, <3>1
        <5>2. j \in Nat /\ l \in Nat
          BY <1>1, <2>2
        <5> QED BY <3>3, <5>1, <5>2
      <4>2. timed[j].end + 5 <= timed[l].start
        BY <2>2, <2>4, <4>1 DEF Apart, c
      <4>3. timed[l].start <= timed[l].end
        BY <1>3, <2>2
      <4>4. PICK a \in Nat, b \in Nat, e \in Nat :
              a = timed[j].end /\ b = timed[l].start /\ e = timed[l].end
        BY <1>3, <2>2, <2>4
      <4>5. a + 5 <= b /\ b <= e
        BY <4>2, <4>3, <4>4
      <4>6. a + 5 <= e + 5
        BY <4>5
      <4> QED BY <4>4, <4>6
    <3> QED BY <3>2, <3>3
  <2> HIDE DEF there
  <2> QED BY <1>4, <1>6, <2>3, <2>4 DEF c
<1> QED BY <1>5, <1>6

\* A day with its times: all of its modules in their order, apart without a slot asked for
\* twice.
DayDone(s, D, items, slots, mins) ==
    /\ s \in Seq(Timed(D)) /\ Len(s) = Len(items) /\ Placed(s, items, mins)
    /\ Timetable!IsInjective(slots) => Apart(s)

LEMMA AssignedDay ==
    ASSUME NEW D, NEW mins \in [D -> Nat], NEW items \in Seq(D), NEW slots \in Seq(Nat), slots # <<>>
    PROVE  DayDone(Timetable!AssignTimes(items, slots, mins), D, items, slots, mins)
<1> DEFINE n == Len(slots)
           B(i) == Timetable!Budget(slots[i], slots, Timetable!MinutesIn(items, mins))
<1>1. n \in Nat /\ n # 0 /\ \A i \in 1..n : slots[i] \in Nat
  OBVIOUS
<1>2. \A i \in 1..n : B(i) \in Nat
  BY MinutesTyped, BudgetTyped
<1> HIDE DEF B
<1>3. PICK f : Fills(f, D, items, slots, mins)
  BY FillsInTurn
<1>4. /\ f \in [0..n -> Fillings(D)]
      /\ f[0] = [queue |-> items, timed |-> <<>>]
      /\ \A i \in 1..n : f[i] = Timetable!Fill(f[i - 1], slots[i], B(i), mins)
  BY <1>3 DEF Fills, B
<1>5. Timetable!AssignTimes(items, slots, mins)
        = f[n].timed \o Timetable!LaidOut(f[n].queue, slots[n],
                          Timetable!LeftoverFrom(f[n].timed, slots[n]), mins)
  BY <1>3 DEF Fills
<1>6. Filled(f[n], n, items, slots, mins)
  <2> DEFINE S == {i \in 0..n : Filled(f[i], i, items, slots, mins)}
  <2>1. 0 \in S
    <3> DEFINE z == [queue |-> items, timed |-> <<>>]
    <3>1. z.queue = items /\ z.timed = <<>> /\ Len(z.timed) = 0
      OBVIOUS
    <3> HIDE DEF z
    <3>2. Placed(<<>>, items, mins) /\ Apart(<<>>)
      BY DEF Placed, Apart
    <3>3. Left(items, items, 0)
      <4>1. Len(items) \in Nat /\ \A j \in 1..Len(items) : 0 + j = j
        OBVIOUS
      <4> QED BY <4>1 DEF Left
    <3>4. Filled(z, 0, items, slots, mins)
      BY <3>1, <3>2, <3>3 DEF Filled
    <3>5. f[0] = z
      BY <1>4 DEF z
    <3>6. 0 \in 0..n
      BY <1>1
    <3> QED BY <3>4, <3>5, <3>6
  <2>2. ASSUME NEW i \in 1..n, i - 1 \in S PROVE i \in S
    <3>1. i \in 0..n /\ i - 1 \in 0..n
      BY <1>1
    <3>2. f[i - 1] \in Fillings(D)
      BY <1>4, <3>1
    <3>3. Filled(f[i - 1], i - 1, items, slots, mins)
      BY <2>2
    <3>4. Filled(Timetable!Fill(f[i - 1], slots[i], B(i), mins), i, items, slots, mins)
      BY <1>2, <3>2, <3>3, FillKeeps
    <3> QED BY <1>4, <3>1, <3>4
  <2> HIDE DEF S, n
  <2>3. \A i \in 0..n : i \in S
    BY <1>1, <2>1, <2>2, UpTo
  <2>4. n \in S
    BY <1>1, <2>3
  <2> QED BY <2>4 DEF S
<1> DEFINE q == f[n].queue
           t == f[n].timed
           over == slots[n]
           from == Timetable!LeftoverFrom(t, over)
           more == Timetable!LaidOut(q, over, from, mins)
<1>7. q \in Seq(D) /\ t \in Seq(Timed(D))
  <2>1. f[n] \in Fillings(D)
    <3> HIDE DEF n
    <3> QED BY <1>1, <1>4
  <2> QED BY <2>1 DEF Fillings
<1>8. /\ Placed(t, items, mins) /\ Left(q, items, Len(t))
      /\ Timetable!IsInjective(slots) => Apart(t)
  BY <1>6 DEF Filled
<1>9. over \in Nat
  BY <1>1
<1> HIDE DEF q, t, over
<1>10. /\ from \in Nat
       /\ Apart(t) => \A j \in 1..Len(t) : t[j].slot = over => t[j].end + 5 <= from
  BY <1>7, <1>8, <1>9, LeftoverAfter
<1> HIDE DEF from
<1>11. InTurn(more, D, q, over, from, mins)
  BY <1>7, <1>9, <1>10, AllInTurn
<1> HIDE DEF more
<1>12. /\ more \in Seq(Timed(D)) /\ Len(more) = Len(q) /\ Placed(more, q, mins) /\ Apart(more)
       /\ \A j \in 1..Len(more) : more[j].slot = over /\ from <= more[j].start
  BY <1>11 DEF InTurn
<1>13. /\ t \o more \in Seq(Timed(D)) /\ Len(t \o more) = Len(t) + Len(more)
       /\ Placed(t \o more, items, mins)
       /\ (/\ Apart(t) /\ Apart(more)
           /\ \A j \in 1..Len(t), l \in 1..Len(more) :
                t[j].slot = more[l].slot => t[j].end + 5 <= more[l].start)
            => Apart(t \o more)
  BY <1>7, <1>8, <1>12, PlacedGoesOn
<1>14. Len(t \o more) = Len(items)
  <2> DEFINE c == Len(t)
             y == Len(q)
             k == Len(items)
  <2>1. c \in Nat /\ k \in Nat /\ y = k - c /\ Len(t \o more) = c + y
    <3>1. Len(t) \in Nat /\ Len(items) \in Nat
      BY <1>7
    <3>2. Len(q) = Len(items) - Len(t)
      BY <1>8 DEF Left
    <3>3. Len(t \o more) = Len(t) + Len(q)
      BY <1>12, <1>13
    <3> QED BY <3>1, <3>2, <3>3
  <2> HIDE DEF c, y, k
  <2>2. Len(t \o more) = k
    BY <2>1
  <2> QED BY <2>2 DEF k
<1>15. ASSUME Apart(t), NEW j \in 1..Len(t), NEW l \in 1..Len(more), t[j].slot = more[l].slot
       PROVE  t[j].end + 5 <= more[l].start
  <2>1. more[l].slot = over /\ from <= more[l].start
    BY <1>12
  <2>2. t[j].end + 5 <= from
    BY <1>10, <1>15, <2>1
  <2>3. t[j] \in Timed(D) /\ more[l] \in Timed(D)
    BY <1>7, <1>12
  <2>4. PICK a \in Nat, b \in Nat : a = t[j].end /\ b = more[l].start
    BY <2>3 DEF Timed
  <2> QED BY <1>10, <2>1, <2>2, <2>4
<1>16. Timetable!IsInjective(slots) => Apart(t \o more)
  BY <1>8, <1>12, <1>13, <1>15
<1>17. DayDone(t \o more, D, items, slots, mins)
  BY <1>13, <1>14, <1>16 DEF DayDone
<1>18. Timetable!AssignTimes(items, slots, mins) = t \o more
  BY <1>5 DEF t, more, q, over, from
<1> QED BY <1>17, <1>18

\* Days without modules after the packed ones add nothing.
LEMMA RestDays ==
    ASSUME NEW T, NEW packed \in Seq(Seq(T)), NEW n \in Nat
    PROVE  Timetable!FlattenSeq([d \in 1..(Len(packed) + n) |->
                                   IF d <= Len(packed) THEN packed[d] ELSE <<>>])
             = Timetable!FlattenSeq(packed)
<1> DEFINE l == Len(packed)
           h(k) == [d \in 1..(l + k) |-> IF d <= l THEN packed[d] ELSE <<>>]
           S == {k \in 0..n : Timetable!FlattenSeq(h(k)) = Timetable!FlattenSeq(packed)}
<1>1. l \in Nat /\ Timetable!FlattenSeq(packed) \in Seq(T)
  <2>1. <<>> \in Seq(T)
    OBVIOUS
  <2> QED BY <2>1, FlattenNext
<1>2. ASSUME NEW k \in Nat
      PROVE  h(k) \in Seq(Seq(T)) /\ Len(h(k)) = l + k
  <2>1. ASSUME NEW d \in 1..(l + k)
        PROVE  (IF d <= l THEN packed[d] ELSE <<>>) \in Seq(T)
    OBVIOUS
  <2>2. l + k \in Nat
    BY <1>1
  <2> HIDE DEF l
  <2>3. h(k) \in [1..(l + k) -> Seq(T)]
    BY <2>1
  <2> HIDE DEF h
  <2> QED BY <2>2, <2>3
<1>3. h(0) = packed
  <2>2. l + 0 = l /\ \A d \in 1..l : d <= l
    BY <1>1
  <2>1. h(0) = [d \in 1..l |-> packed[d]]
    <3> HIDE DEF l
    <3> QED BY <2>2
  <2>3. packed = [d \in DOMAIN packed |-> packed[d]] /\ DOMAIN packed = 1..l
    OBVIOUS
  <2> HIDE DEF h, l
  <2> QED BY <2>1, <2>3
<1>4. 0 \in S
  <2> HIDE DEF h
  <2> QED BY <1>3
<1>5. ASSUME NEW k \in 1..n, k - 1 \in S PROVE k \in S
  <2>1. k - 1 \in Nat /\ k \in 0..n /\ k \in Nat
    OBVIOUS
  <2>2. h(k) = Append(h(k - 1), <<>>)
    <3> DEFINE a == h(k - 1)
               b == h(k)
    <3>1. /\ a \in Seq(Seq(T)) /\ Len(a) = l + (k - 1) /\ b \in Seq(Seq(T)) /\ Len(b) = l + k
      BY <1>2, <2>1
    <3> HIDE DEF l
    <3>2. \A d \in 1..(l + (k - 1)) : b[d] = a[d]
      BY <1>1, <2>1
    <3>3. b[l + k] = <<>>
      BY <1>1, <2>1
    <3> HIDE DEF a, b
    <3>4. b = Append(a, <<>>)
      BY <1>1, <2>1, <3>1, <3>2, <3>3
    <3> QED BY <3>4 DEF a, b
  <2> HIDE DEF h
  <2>3. <<>> \in Seq(T) /\ h(k - 1) \in Seq(Seq(T))
    BY <1>2, <2>1
  <2>4. Timetable!FlattenSeq(h(k)) = Timetable!FlattenSeq(h(k - 1)) \o <<>>
    BY <2>2, <2>3, FlattenNext
  <2>5. Timetable!FlattenSeq(h(k - 1)) = Timetable!FlattenSeq(packed)
    BY <1>5
  <2>6. Timetable!FlattenSeq(h(k)) = Timetable!FlattenSeq(packed)
    BY <1>1, <2>4, <2>5
  <2> QED BY <2>1, <2>6
<1> HIDE DEF S
<1>6. \A k \in 0..n : k \in S
  BY <1>4, <1>5, UpTo
<1>7. n \in S
  BY <1>6
<1> QED BY <1>7 DEF S

\* The minutes a module is given are never more than a day has.
LEMMA NormalisedFits ==
    ASSUME NEW estimate \in Nat, NEW capacity \in Nat \ 0..29
    PROVE  /\ Timetable!Normalised(estimate, capacity) \in Nat
           /\ Timetable!Normalised(estimate, capacity) <= capacity
<1> DEFINE e == IF estimate = 0 THEN 30 ELSE estimate
<1>1. e \in Nat /\ capacity \in Nat /\ capacity >= 30
  OBVIOUS
<1>2. Timetable!Normalised(estimate, capacity)
        = Timetable!Greater(5, Timetable!Lesser(e, capacity))
  BY DEF Timetable!Normalised
<1> HIDE DEF e
<1> QED BY <1>1, <1>2 DEF Timetable!Greater, Timetable!Lesser

\* A day that is done has the modules and the minutes of what was packed for it.
LEMMA DayHolds ==
    ASSUME NEW D, NEW mins \in [D -> Nat], NEW items \in Seq(D), NEW slots, NEW s,
           DayDone(s, D, items, slots, mins)
    PROVE  /\ Timetable!ModulesOf(s) = items
           /\ Timetable!MinutesOf(s) = Timetable!MinutesIn(items, mins)
<1> DEFINE n == Len(items)
<1>1. /\ s \in Seq(Timed(D)) /\ Len(s) = n /\ n \in Nat
      /\ \A j \in 1..n : s[j].module = items[j] /\ s[j].end = s[j].start + mins[items[j]]
  BY DEF DayDone, Placed
<1>2. \A j \in 1..n : items[j] \in D
  OBVIOUS
<1> HIDE DEF n
<1>3. DOMAIN s = 1..n
  BY <1>1
<1>4. ASSUME NEW j \in 1..n PROVE s[j].end - s[j].start = mins[items[j]]
  <2>1. s[j] \in Timed(D)
    BY <1>1
  <2>2. PICK a \in Nat, b \in Nat : a = s[j].start /\ b = mins[items[j]]
    BY <1>2, <2>1 DEF Timed
  <2>3. s[j].end = a + b
    BY <1>1, <2>2
  <2>4. (a + b) - a = b
    OBVIOUS
  <2> QED BY <2>2, <2>3, <2>4
<1>5. Timetable!ModulesOf(s) = items
  <2>1. Timetable!ModulesOf(s) = [j \in 1..n |-> items[j]]
    BY <1>1, <1>3 DEF Timetable!ModulesOf
  <2> QED BY <2>1 DEF n
<1>6. [i \in DOMAIN s |-> s[i].end - s[i].start] = [i \in 1..n |-> mins[items[i]]]
  BY <1>3, <1>4
<1>7. Timetable!MinutesOf(s) = Timetable!MinutesIn(items, mins)
  BY <1>6 DEF Timetable!MinutesOf, Timetable!MinutesIn, n
<1> QED BY <1>5, <1>7

\* What a schedule for a course of N modules promises.
DaysOK(g, N, days, capacity, slots) ==
    /\ Timetable!FlattenSeq([d \in DOMAIN g |-> Timetable!ModulesOf(g[d])]) = Course(N)
    /\ Len(g) = days
    /\ Timetable!IsInjective(slots) =>
         \A d \in DOMAIN g : \A i, j \in DOMAIN g[d] :
           i < j /\ g[d][i].slot = g[d][j].slot => g[d][i].end + 5 <= g[d][j].start
    /\ \A d \in DOMAIN g :
         Timetable!MinutesOf(g[d]) > capacity
           => \A e \in DOMAIN g : e > d => g[e] = <<>>

LEMMA GeneratedDays ==
    ASSUME NEW N \in Nat, NEW est \in [1..N -> Nat], NEW days \in Nat \ {0},
           NEW capacity \in Nat \ 0..29, NEW asked \in Seq(Nat)
    PROVE  DaysOK(Timetable!GenerateLearningSchedule(est, days, capacity, asked),
                  N, days, capacity, asked)
<1> DEFINE D == 1..N
           mins == [m \in DOMAIN est |-> Timetable!Normalised(est[m], capacity)]
           slots == IF asked = <<>> THEN <<360>> ELSE asked
           p == Timetable!PackModulesIntoDays(mins, days, capacity)
           l == Len(p)
           g == Timetable!GenerateLearningSchedule(est, days, capacity, asked)
<1>1. mins \in [D -> Nat] /\ \A m \in D : mins[m] <= capacity
  BY NormalisedFits
<1>2. slots \in Seq(Nat) /\ slots # <<>> /\ (Timetable!IsInjective(asked) => Timetable!IsInjective(slots))
  <2>1. CASE asked = <<>>
    <3>1. <<360>> \in Seq(Nat) /\ <<360>> # <<>> /\ DOMAIN <<360>> = {1}
      OBVIOUS
    <3>2. Timetable!IsInjective(<<360>>)
      BY <3>1 DEF Timetable!IsInjective
    <3> QED BY <2>1, <3>1, <3>2
  <2>2. CASE asked # <<>>
    BY <2>2
  <2> QED BY <2>1, <2>2
<1>3. g = [d \in 1..Timetable!Greater(days, l) |->
             IF d <= l THEN Timetable!AssignTimes(p[d], slots, mins) ELSE <<>>]
  BY DEF Timetable!GenerateLearningSchedule
<1> HIDE DEF mins, slots
<1>4. capacity \in Nat \ {0} /\ capacity \in Nat
  OBVIOUS
<1>5. /\ p \in Seq(Seq(D)) /\ l \in 1..days /\ Timetable!FlattenSeq(p) = Course(N)
      /\ \A d \in 1..(l - 1) : Timetable!MinutesIn(p[d], mins) <= capacity
  <2> HIDE DEF p
  <2>1. p = Timetable!PackModulesIntoDays(mins, days, capacity)
    BY DEF p
  <2> QED BY <1>1, <1>4, <2>1, PackedDays
<1> HIDE DEF p, g
<1>6. Timetable!Greater(days, l) = days
  <2> HIDE DEF l
  <2> QED BY <1>5 DEF Timetable!Greater
<1>7. /\ DOMAIN g = 1..days /\ g = [d \in 1..days |-> g[d]]
      /\ \A d \in 1..l : g[d] = Timetable!AssignTimes(p[d], slots, mins)
      /\ \A d \in 1..days : ~(d <= l) => g[d] = <<>>
  <2> HIDE DEF l
  <2>1. \A d \in 1..l : d \in 1..days /\ d <= l
    BY <1>5
  <2> QED BY <1>3, <1>6, <2>1
<1>8. \A d \in 1..l : p[d] \in Seq(D)
  BY <1>5
<1> HIDE DEF l
<1>9. ASSUME NEW d \in 1..l PROVE DayDone(g[d], D, p[d], slots, mins)
  <2> HIDE DEF D
  <2>1. DayDone(Timetable!AssignTimes(p[d], slots, mins), D, p[d], slots, mins)
    BY <1>1, <1>2, <1>8, AssignedDay
  <2> QED BY <1>7, <2>1
<1>10. ASSUME NEW d \in 1..l
       PROVE  /\ Timetable!ModulesOf(g[d]) = p[d]
              /\ Timetable!MinutesOf(g[d]) = Timetable!MinutesIn(p[d], mins)
  <2> HIDE DEF D
  <2>1. p[d] \in Seq(D) /\ DayDone(g[d], D, p[d], slots, mins)
    BY <1>8, <1>9
  <2> QED BY <1>1, <2>1, DayHolds
<1>11. Timetable!ModulesOf(<<>>) = <<>> /\ Timetable!MinutesOf(<<>>) = 0
  <2>1. [i \in DOMAIN <<>> |-> <<>>[i].end - <<>>[i].start] = <<>>
    OBVIOUS
  <2>2. [i \in DOMAIN <<>> |-> <<>>[i].module] = <<>>
    OBVIOUS
  <2> QED BY <2>1, <2>2, TotalOfNone DEF Timetable!ModulesOf, Timetable!MinutesOf
<1>12. Timetable!FlattenSeq([d \in DOMAIN g |-> Timetable!ModulesOf(g[d])]) = Course(N)
  <2> DEFINE h == [d \in 1..(Len(p) + (days - l)) |-> IF d <= Len(p) THEN p[d] ELSE <<>>]
  <2>1. days - l \in Nat /\ l + (days - l) = days
    BY <1>5
  <2>2. Timetable!FlattenSeq(h) = Course(N)
    <3>1. Timetable!FlattenSeq(h) = Timetable!FlattenSeq(p)
      BY <1>5, <2>1, RestDays
    <3> HIDE DEF h
    <3> QED BY <1>5, <3>1
  <2>3. h = [d \in 1..days |-> IF d <= l THEN p[d] ELSE <<>>]
    BY <2>1 DEF l
  <2> HIDE DEF h
  <2>4. ASSUME NEW d \in 1..days
        PROVE  Timetable!ModulesOf(g[d]) = IF d <= l THEN p[d] ELSE <<>>
    <3>1. CASE d <= l
      <4>1. d \in 1..l
        BY <1>5, <3>1
      <4> QED BY <1>10, <3>1, <4>1
    <3>2. CASE ~(d <= l)
      BY <1>7, <1>11, <3>2
    <3> QED BY <3>1, <3>2
  <2>5. [d \in DOMAIN g |-> Timetable!ModulesOf(g[d])] = h
    BY <1>7, <2>3, <2>4
  <2> QED BY <2>2, <2>5
<1>13. Len(g) = days
  <2>1. days \in Nat
    OBVIOUS
  <2> QED BY <1>7, <2>1
<1>14. ASSUME Timetable!IsInjective(asked), NEW d \in DOMAIN g,
              NEW i \in DOMAIN g[d], NEW j \in DOMAIN g[d], i < j, g[d][i].slot = g[d][j].slot
       PROVE  g[d][i].end + 5 <= g[d][j].start
  <2>1. CASE d <= l
    <3>1. d \in 1..l
      BY <1>5, <1>7, <2>1
    <3>2. g[d] \in Seq(Timed(D)) /\ Apart(g[d])
      BY <1>2, <1>9, <1>14, <3>1 DEF DayDone
    <3>3. DOMAIN g[d] = 1..Len(g[d])
      BY <3>2
    <3> QED BY <1>14, <3>2, <3>3 DEF Apart
  <2>2. CASE ~(d <= l)
    <3>1. g[d] = <<>>
      BY <1>7, <2>2
    <3>2. DOMAIN <<>> = {}
      OBVIOUS
    <3> QED BY <3>1, <3>2
  <2> QED BY <2>1, <2>2
<1>15. ASSUME NEW d \in DOMAIN g, Timetable!MinutesOf(g[d]) > capacity,
              NEW e \in DOMAIN g, e > d
       PROVE  g[e] = <<>>
  <2>1. d \in 1..days /\ e \in 1..days
    BY <1>7
  <2>2. ~(d <= l - 1)
    <3> SUFFICES ASSUME d <= l - 1 PROVE FALSE
      OBVIOUS
    <3>1. d \in 1..(l - 1) /\ d \in 1..l
      BY <1>5, <2>1
    <3>2. Timetable!MinutesOf(g[d]) <= capacity
      BY <1>5, <1>10, <3>1
    <3>3. Timetable!MinutesOf(g[d]) \in Nat
      <4>1. Timetable!MinutesIn(p[d], mins) \in Nat
        BY <1>1, <1>8, <3>1, MinutesTyped
      <4> QED BY <1>10, <3>1, <4>1
    <3> DEFINE a == Timetable!MinutesOf(g[d])
    <3>4. a > capacity /\ a <= capacity /\ a \in Nat
      BY <1>15, <3>2, <3>3
    <3> HIDE DEF a
    <3> QED BY <1>4, <3>4
  <2>3. ~(e <= l)
    BY <1>5, <1>15, <2>1, <2>2
  <2> QED BY <1>7, <2>1, <2>3
<1>16. DaysOK(g, N, days, capacity, asked)
  BY <1>12, <1>13, <1>14, <1>15 DEF DaysOK
<1> QED BY <1>16 DEF g

\* The days of a roadmap, with their modules and minutes.
Days(D) == [items : Seq(D), total : Nat]

Items(days) == [d \in DOMAIN days |-> days[d].items]

LEMMA ItemsNext ==
    ASSUME NEW D, NEW days \in Seq(Days(D)), NEW day \in Days(D)
    PROVE  /\ Items(days) \in Seq(Seq(D)) /\ Append(days, day) \in Seq(Days(D))
           /\ Items(Append(days, day)) = Append(Items(days), day.items)
<1> DEFINE n == Len(days)
           more == Append(days, day)
           a == Items(days)
           b == Items(more)
<1>1. /\ n \in Nat /\ more \in Seq(Days(D)) /\ Len(more) = n + 1 /\ more[n + 1] = day
      /\ \A d \in 1..n : more[d] = days[d]
  OBVIOUS
<1>2. DOMAIN days = 1..n /\ DOMAIN more = 1..(n + 1)
  BY <1>1
<1>3. ASSUME NEW d \in 1..n PROVE days[d].items \in Seq(D)
  <2>1. days[d] \in Days(D)
    OBVIOUS
  <2> QED BY <2>1 DEF Days
<1>4. day.items \in Seq(D)
  BY DEF Days
<1> HIDE DEF more, n
<1>5. a \in [1..n -> Seq(D)] /\ \A d \in 1..n : a[d] = days[d].items
  BY <1>2, <1>3 DEF Items
<1>6. a \in Seq(Seq(D)) /\ Len(a) = n
  BY <1>1, <1>5
<1>7. /\ b = [d \in 1..(n + 1) |-> more[d].items]
      /\ \A d \in 1..n : b[d] = a[d]
      /\ b[n + 1] = day.items
  <2>1. b = [d \in 1..(n + 1) |-> more[d].items]
    BY <1>2 DEF Items
  <2>2. n + 1 \in 1..(n + 1) /\ \A d \in 1..n : d \in 1..(n + 1)
    BY <1>1
  <2> HIDE DEF a, b
  <2> QED BY <1>1, <1>5, <2>1, <2>2
<1>8. b \in Seq(Seq(D)) /\ Len(b) = n + 1
  <2>1. \A d \in 1..(n + 1) : b[d] \in Seq(D)
    <3> TAKE d \in 1..(n + 1)
    <3>1. d \in 1..n \/ d = n + 1
      BY <1>1
    <3> HIDE DEF a, b
    <3> QED BY <1>4, <1>5, <1>7, <3>1
  <2>2. n + 1 \in Nat
    BY <1>1
  <2> HIDE DEF a, b
  <2>3. b \in [1..(n + 1) -> Seq(D)]
    BY <1>7, <2>1
  <2> QED BY <1>7, <2>2, <2>3
<1> HIDE DEF a, b
<1>9. b = Append(a, day.items)
  <2> DEFINE s == day.items
  <2>1. /\ a \in Seq(Seq(D)) /\ b \in Seq(Seq(D)) /\ s \in Seq(D) /\ Len(a) = n
        /\ Len(b) = n + 1 /\ n \in Nat
    BY <1>1, <1>4, <1>6, <1>8
  <2>2. b[n + 1] = s /\ \A d \in 1..n : b[d] = a[d]
    BY <1>7
  <2> HIDE DEF s
  <2>3. b = Append(a, s)
    BY ONLY <2>1, <2>2
  <2> QED BY <2>3 DEF s
<1> QED BY <1>1, <1>6, <1>9 DEF a, b, more

\* A day with more than one module keeps to its limits.
KeepsTo(day, most, capacity) ==
    Len(day.items) > 1 => Len(day.items) <= most /\ day.total <= capacity + 10

RoomIn(queue, mins, most, capacity) ==
    Len(queue) > 1 => Len(queue) <= most /\ Timetable!MinutesIn(queue, mins) + 20 <= capacity

LEMMA FinishedKeeps ==
    ASSUME NEW D, NEW mins \in [D -> Nat], NEW queue \in Seq(D), NEW most \in Nat,
           NEW capacity \in Nat, RoomIn(queue, mins, most, capacity)
    PROVE  /\ Timetable!Finished(queue, mins) \in Days(D)
           /\ Timetable!Finished(queue, mins).items = queue
           /\ KeepsTo(Timetable!Finished(queue, mins), most, capacity)
<1> DEFINE content == Timetable!MinutesIn(queue, mins)
           long == IF Len(queue) >= 2 THEN 10 ELSE 5
           rest == IF content >= 75 THEN 10 ELSE 0
           total == content + 10 + long + rest
           z == Timetable!Finished(queue, mins)
<1>1. content \in Nat
  BY MinutesTyped
<1>2. z = [items |-> queue, total |-> total]
  BY DEF Timetable!Finished
<1>3. long \in {5, 10} /\ rest \in {0, 10}
  OBVIOUS
<1> HIDE DEF content, long, rest, z
<1>4. total \in Nat /\ total <= content + 30
  BY <1>1, <1>3
<1> HIDE DEF total
<1>5. z \in Days(D) /\ z.items = queue /\ z.total = total
  BY <1>2, <1>4 DEF Days
<1>6. Len(queue) > 1 => total <= capacity + 10
  <2>1. Len(queue) > 1 => content + 20 <= capacity
    BY DEF RoomIn, content
  <2> QED BY <1>1, <1>4, <2>1
<1>7. KeepsTo(z, most, capacity)
  BY <1>5, <1>6 DEF KeepsTo, RoomIn
<1> QED BY <1>5, <1>7 DEF z

\* The roadmap as far as it is built: finished days, and the one being filled.
Builds(D) == [done : Seq(Days(D)), day : Seq(D)]

LEMMA ScheduledTyped ==
    ASSUME NEW D, NEW mins \in [D -> Nat], NEW x \in Builds(D), NEW m \in D, NEW most, NEW capacity
    PROVE  Timetable!Scheduled(x, m, mins, most, capacity) \in Builds(D)
<1>1. x.done \in Seq(Days(D)) /\ x.day \in Seq(D)
  BY DEF Builds
<1>2. Timetable!Finished(x.day, mins) \in Days(D)
  <2> DEFINE content == Timetable!MinutesIn(x.day, mins)
             total == content + 10 + (IF Len(x.day) >= 2 THEN 10 ELSE 5)
                        + (IF content >= 75 THEN 10 ELSE 0)
  <2>1. content \in Nat
    BY <1>1, MinutesTyped
  <2>2. Timetable!Finished(x.day, mins) = [items |-> x.day, total |-> total]
    BY DEF Timetable!Finished
  <2> HIDE DEF content
  <2>3. total \in Nat
    BY <2>1
  <2> HIDE DEF total
  <2> QED BY <1>1, <2>2, <2>3 DEF Days
<1>3. [x EXCEPT !.day = Append(@, m)] \in Builds(D)
  <2>1. Append(x.day, m) \in Seq(D)
    BY <1>1
  <2> QED BY <1>1, <2>1 DEF Builds
<1>4. [done |-> Append(x.done, Timetable!Finished(x.day, mins)), day |-> <<m>>] \in Builds(D)
  <2>1. Append(x.done, Timetable!Finished(x.day, mins)) \in Seq(Days(D)) /\ <<m>> \in Seq(D)
    BY <1>1, <1>2
  <2> QED BY <2>1 DEF Builds
<1> QED BY <1>3, <1>4 DEF Timetable!Scheduled

BuiltOK(x, m, mins, most, capacity) ==
    /\ Timetable!FlattenSeq(Items(x.done)) \o x.day = Course(m)
    /\ \A d \in 1..Len(x.done) : KeepsTo(x.done[d], most, capacity)
    /\ RoomIn(x.day, mins, most, capacity)

LEMMA ScheduledKeeps ==
    ASSUME NEW N \in Nat, NEW mins \in [1..N -> Nat], NEW x \in Builds(1..N), NEW m \in 1..N,
           NEW most \in Nat, NEW capacity \in Nat,
           BuiltOK(x, m - 1, mins, most, capacity)
    PROVE  BuiltOK(Timetable!Scheduled(x, m, mins, most, capacity), m, mins, most, capacity)
<1> DEFINE D == 1..N
           full == Timetable!FlattenSeq(Items(x.done))
           fin == Timetable!Finished(x.day, mins)
<1>1. x.done \in Seq(Days(D)) /\ x.day \in Seq(D) /\ x = [done |-> x.done, day |-> x.day]
      /\ m \in D /\ mins \in [D -> Nat] /\ m \in Nat \ {0}
  BY DEF Builds
<1>2. /\ full \o x.day = Course(m - 1)
      /\ \A d \in 1..Len(x.done) : KeepsTo(x.done[d], most, capacity)
      /\ RoomIn(x.day, mins, most, capacity)
  BY DEF BuiltOK
<1> HIDE DEF D
<1>3. fin \in Days(D) /\ fin.items = x.day /\ KeepsTo(fin, most, capacity)
  BY <1>1, <1>2, FinishedKeeps
<1> HIDE DEF fin
<1>4. /\ Items(x.done) \in Seq(Seq(D)) /\ Append(x.done, fin) \in Seq(Days(D))
      /\ Items(Append(x.done, fin)) = Append(Items(x.done), x.day)
  <2>1. Items(Append(x.done, fin)) = Append(Items(x.done), fin.items)
    BY <1>1, <1>3, ItemsNext
  <2> QED BY <1>1, <1>3, <2>1, ItemsNext
<1>5. full \in Seq(D) /\ Timetable!FlattenSeq(Append(Items(x.done), x.day)) = full \o x.day
  BY <1>1, <1>4, FlattenNext
<1> HIDE DEF full
<1>6. CASE Timetable!DayTakes(x.day, m, mins, most, capacity)
  <2> DEFINE z == [done |-> x.done, day |-> Append(x.day, m)]
  <2>1. Timetable!Scheduled(x, m, mins, most, capacity) = z
    <3>1. Timetable!Scheduled(x, m, mins, most, capacity) = [x EXCEPT !.day = Append(@, m)]
      BY <1>6 DEF Timetable!Scheduled
    <3> QED BY <1>1, <3>1
  <2>2. full \o Append(x.day, m) = Course(m)
    <3>1. full \o Append(x.day, m) = (full \o x.day) \o <<m>>
      <4> DEFINE y == x.day
      <4>1. y \in Seq(D) /\ full \in Seq(D) /\ m \in D
        BY <1>1, <1>5
      <4> HIDE DEF y
      <4>2. full \o Append(y, m) = (full \o y) \o <<m>>
        BY ONLY <4>1
      <4> QED BY <4>2 DEF y
    <3> QED BY <1>1, <1>2, <3>1, CourseNext
  <2>3. RoomIn(Append(x.day, m), mins, most, capacity)
    <3> DEFINE n == Len(x.day)
               a == Timetable!MinutesIn(x.day, mins)
    <3>1. n \in Nat /\ Len(Append(x.day, m)) = n + 1
      BY <1>1
    <3>2. x.day = <<>> \/ (n < most /\ a + mins[m] + 20 <= capacity)
      BY <1>6 DEF Timetable!DayTakes
    <3>3. Timetable!MinutesIn(Append(x.day, m), mins) = a + mins[m]
      BY <1>1, MinutesNext
    <3>4. x.day = <<>> => n = 0
      OBVIOUS
    <3> HIDE DEF n, a
    <3>5. n + 1 > 1 => (n + 1 <= most /\ a + mins[m] + 20 <= capacity)
      BY <3>1, <3>2, <3>4
    <3> QED BY <3>1, <3>3, <3>5 DEF RoomIn
  <2>4. z.done = x.done /\ z.day = Append(x.day, m)
    OBVIOUS
  <2> HIDE DEF z
  <2>5. BuiltOK(z, m, mins, most, capacity)
    BY <1>2, <2>2, <2>3, <2>4 DEF BuiltOK, full
  <2> QED BY <2>1, <2>5
<1>7. CASE ~Timetable!DayTakes(x.day, m, mins, most, capacity)
  <2> DEFINE z == [done |-> Append(x.done, fin), day |-> <<m>>]
  <2>1. Timetable!Scheduled(x, m, mins, most, capacity) = z
    BY <1>7 DEF Timetable!Scheduled, fin
  <2>2. Timetable!FlattenSeq(Items(Append(x.done, fin))) \o <<m>> = Course(m)
    BY <1>1, <1>2, <1>4, <1>5, CourseNext
  <2>3. RoomIn(<<m>>, mins, most, capacity)
    <3>1. ~(Len(<<m>>) > 1)
      OBVIOUS
    <3> QED BY <3>1 DEF RoomIn
  <2>4. ASSUME NEW d \in 1..Len(Append(x.done, fin))
        PROVE  KeepsTo(Append(x.done, fin)[d], most, capacity)
    <3> DEFINE n == Len(x.done)
               s == Append(x.done, fin)
    <3>1. n \in Nat /\ Len(s) = n + 1 /\ s[n + 1] = fin /\ \A e \in 1..n : s[e] = x.done[e]
      BY <1>1, <1>3
    <3> HIDE DEF n, s
    <3>2. d \in 1..(n + 1)
      BY <3>1 DEF s
    <3>3. d = n + 1 \/ d \in 1..n
      BY <3>1, <3>2
    <3>4. KeepsTo(s[d], most, capacity)
      BY <1>2, <1>3, <3>1, <3>3 DEF n
    <3> QED BY <3>4 DEF s
  <2>5. z.done = Append(x.done, fin) /\ z.day = <<m>>
    OBVIOUS
  <2> HIDE DEF z
  <2>6. BuiltOK(z, m, mins, most, capacity)
    BY <2>2, <2>3, <2>4, <2>5 DEF BuiltOK
  <2> QED BY <2>1, <2>6
<1> QED BY <1>6, <1>7

\* f builds the roadmap of N modules one after the other.
BuildsUp(f, N, mins, most, capacity, road) ==
    /\ f \in [0..N -> Builds(1..N)]
    /\ f[0] = [done |-> <<>>, day |-> <<>>]
    /\ \A m \in 1..N : f[m] = Timetable!Scheduled(f[m - 1], m, mins, most, capacity)
    /\ road = Append(f[N].done, Timetable!Finished(f[N].day, mins))

LEMMA BuildsOneByOne ==
    ASSUME NEW N \in Nat, NEW est \in [1..N -> Nat], NEW speed, NEW learner,
           NEW mins \in [1..N -> Nat],
           mins = [m \in DOMAIN est |->
                     Timetable!ModuleMinutes(est[m], speed, learner)]
    PROVE  \E f : BuildsUp(f, N, mins, Timetable!MaxModulesPerDay(speed, learner, N),
                           Timetable!DailyCapacity(speed, learner),
                           Timetable!BuildSchedule(est, speed, learner))
<1>14. Len(est) = N
  OBVIOUS
<1> DEFINE most == Timetable!MaxModulesPerDay(speed, learner, Len(est))
           capacity == Timetable!DailyCapacity(speed, learner)
<1> DEFINE n == Len(est)
           X == Builds(1..N)
           base == [done |-> <<>>, day |-> <<>>]
           step == [i \in 1..n |-> [x \in X |-> Timetable!Scheduled(x, i, mins, most, capacity)]]
           Rule(f) == [i \in 0..n |->
                        IF i = 0 THEN [done |-> <<>>, day |-> <<>>]
                        ELSE Timetable!Scheduled(f[i - 1], i, mins, most, capacity)]
           F == CHOOSE f : f = Rule(f)
<1>1. n = N /\ n \in Nat
  BY <1>14
<1>2. ASSUME NEW x \in X, NEW i \in 1..n
      PROVE  Timetable!Scheduled(x, i, mins, most, capacity) \in X
  BY <1>1, ScheduledTyped
<1> HIDE DEF most, capacity
<1>3. base \in X
  BY DEF Builds
<1>4. step \in [1..n -> [X -> X]]
  <2> HIDE DEF X, n
  <2> QED BY <1>2
<1>5. PICK g : g \in [0..n -> X] /\ g[0] = base /\ \A i \in 1..n : g[i] = step[i][g[i - 1]]
  <2> HIDE DEF step, n, base, X
  <2>1. \E g : Takes(g, n, X, base, step)
    BY <1>1, <1>3, <1>4, Stepwise
  <2> QED BY <2>1 DEF Takes
<1>6. \A i \in 1..n : g[i] = Timetable!Scheduled(g[i - 1], i, mins, most, capacity)
  <2> TAKE i \in 1..n
  <2> HIDE DEF X, n
  <2>1. i - 1 \in 0..n
    BY <1>1
  <2>2. g[i - 1] \in X
    BY <1>5, <2>1
  <2> QED BY <1>5, <2>2
<1>7. g = Rule(g)
  <2> HIDE DEF n, step, X
  <2>1. ASSUME NEW i \in 0..n
        PROVE  g[i] = IF i = 0 THEN base ELSE Timetable!Scheduled(g[i - 1], i, mins, most, capacity)
    <3>1. CASE i = 0
      BY <1>5, <3>1
    <3>2. CASE i # 0
      <4>1. i \in 1..n
        BY <1>1, <3>2
      <4> QED BY <1>6, <3>2, <4>1
    <3> QED BY <3>1, <3>2
  <2>2. g = [i \in 0..n |-> g[i]]
    BY <1>5
  <2> QED BY <2>1, <2>2
<1> HIDE DEF Rule
<1>8. F = Rule(F)
  BY <1>7
<1> HIDE DEF F
<1>9. /\ F = [i \in 0..n |-> F[i]]
      /\ \A i \in 0..n : F[i] =
           IF i = 0 THEN base
           ELSE Timetable!Scheduled(F[i - 1], i, mins, most, capacity)
  <2> HIDE DEF n
  <2> QED BY <1>8 DEF Rule
<1>10. /\ F[0] = base
       /\ \A i \in 1..n : F[i] = Timetable!Scheduled(F[i - 1], i, mins, most, capacity)
  <2> HIDE DEF n, base
  <2>1. 0 \in 0..n /\ \A i \in 1..n : i \in 0..n /\ i # 0
    BY <1>1
  <2> QED BY <1>9, <2>1
<1>11. \A i \in 0..n : F[i] \in X
  <2> DEFINE S == {i \in 0..n : F[i] \in X}
  <2> HIDE DEF n, X, base
  <2>1. 0 \in S
    BY <1>1, <1>3, <1>10
  <2>2. ASSUME NEW i \in 1..n, i - 1 \in S PROVE i \in S
    <3>1. i \in 0..n /\ F[i - 1] \in X
      BY <1>1, <2>2
    <3> QED BY <1>2, <1>10, <3>1
  <2> HIDE DEF S
  <2>3. \A i \in 0..n : i \in S
    BY <1>1, <2>1, <2>2, UpTo
  <2> QED BY <2>3 DEF S
<1>12. F \in [0..n -> X]
  <2> HIDE DEF n, X
  <2> QED BY <1>9, <1>11
<1>13. Timetable!BuildSchedule(est, speed, learner)
          = Append(F[n].done, Timetable!Finished(F[n].day, mins))
  BY DEF Timetable!BuildSchedule, most, capacity, F, Rule
<1> HIDE DEF n, X
<1>15. BuildsUp(F, N, mins, most, capacity, Timetable!BuildSchedule(est, speed, learner))
  BY <1>1, <1>10, <1>12, <1>13 DEF X, BuildsUp
<1> QED BY <1>14, <1>15 DEF most, capacity

\* What a roadmap for N modules promises.
RoadOK(road, N, most, capacity) ==
    /\ Timetable!FlattenSeq([d \in DOMAIN road |-> road[d].items]) = Course(N)
    /\ \A d \in DOMAIN road :
         Len(road[d].items) > 1 =>
           Len(road[d].items) <= most /\ road[d].total <= capacity + 10

LEMMA ProfileTyped ==
    ASSUME NEW speed \in {"fast", "medium", "deep"}, NEW learner, NEW n \in Nat,
           NEW estimate \in Nat
    PROVE  /\ Timetable!ModuleMinutes(estimate, speed, learner) \in Nat
           /\ Timetable!DailyCapacity(speed, learner) \in Nat
           /\ Timetable!MaxModulesPerDay(speed, learner, n) \in Nat
<1>1. Timetable!DailyCapacity(speed, learner) \in Nat
  BY DEF Timetable!DailyCapacity
<1>2. Timetable!MaxModulesPerDay(speed, learner, n) \in Nat
  <2> DEFINE base == (IF speed = "fast" THEN 3 ELSE 2) + (IF "beginner" \in learner THEN 0 ELSE 1)
             large == IF n > 25 THEN Timetable!Lesser(base + 1, 4) ELSE base
  <2>1. base \in Nat
    OBVIOUS
  <2>2. Timetable!MaxModulesPerDay(speed, learner, n)
          = IF n > 35 THEN Timetable!Lesser(large + 1, 5) ELSE large
    BY DEF Timetable!MaxModulesPerDay
  <2> HIDE DEF base
  <2>3. large \in Nat
    BY <2>1 DEF Timetable!Lesser
  <2> HIDE DEF large
  <2> QED BY <2>2, <2>3 DEF Timetable!Lesser
<1>3. Timetable!ModuleMinutes(estimate, speed, learner) \in Nat
  BY DEF Timetable!ModuleMinutes, Timetable!Greater
<1> QED BY <1>1, <1>2, <1>3

LEMMA BuiltRoad ==
    ASSUME NEW N \in Nat, NEW est \in [1..N -> Nat],
           NEW speed \in {"fast", "medium", "deep"}, NEW learner
    PROVE  RoadOK(Timetable!BuildSchedule(est, speed, learner), N,
                  Timetable!MaxModulesPerDay(speed, learner, N),
                  Timetable!DailyCapacity(speed, learner))
<1> DEFINE D == 1..N
           mins == [m \in DOMAIN est |-> Timetable!ModuleMinutes(est[m], speed, learner)]
           most == Timetable!MaxModulesPerDay(speed, learner, N)
           capacity == Timetable!DailyCapacity(speed, learner)
           road == Timetable!BuildSchedule(est, speed, learner)
<1>1. most \in Nat /\ capacity \in Nat
  <2>1. 0 \in Nat
    OBVIOUS
  <2> QED BY <2>1, ProfileTyped
<1>2. mins \in [D -> Nat]
  BY ProfileTyped
<1>3. PICK f : BuildsUp(f, N, mins, most, capacity, road)
  <2> HIDE DEF mins
  <2>1. mins = [m \in DOMAIN est |-> Timetable!ModuleMinutes(est[m], speed, learner)]
    BY DEF mins
  <2> QED BY <1>2, <2>1, BuildsOneByOne
<1> HIDE DEF mins, most, capacity, road
<1>4. /\ f \in [0..N -> Builds(D)]
      /\ f[0] = [done |-> <<>>, day |-> <<>>]
      /\ \A m \in 1..N : f[m] = Timetable!Scheduled(f[m - 1], m, mins, most, capacity)
      /\ road = Append(f[N].done, Timetable!Finished(f[N].day, mins))
  BY <1>3 DEF BuildsUp
<1>5. BuiltOK(f[N], N, mins, most, capacity)
  <2> DEFINE S == {m \in 0..N : BuiltOK(f[m], m, mins, most, capacity)}
  <2>1. 0 \in S
    <3> DEFINE z == [done |-> <<>>, day |-> <<>>]
    <3>1. z.done = <<>> /\ z.day = <<>> /\ Len(z.done) = 0 /\ Len(z.day) = 0
      OBVIOUS
    <3> HIDE DEF z
    <3>2. Items(<<>>) = <<>>
      BY DEF Items
    <3>3. Timetable!FlattenSeq(Items(<<>>)) \o <<>> = Course(0)
      BY <3>2, FlattenOfNone DEF Course
    <3>4. BuiltOK(z, 0, mins, most, capacity)
      BY <3>1, <3>3 DEF BuiltOK, RoomIn
    <3>5. f[0] = z
      BY <1>4 DEF z
    <3> QED BY <3>4, <3>5
  <2>2. ASSUME NEW m \in 1..N, m - 1 \in S PROVE m \in S
    <3>1. m \in 0..N /\ f[m - 1] \in Builds(1..N)
      BY <1>4
    <3>2. BuiltOK(f[m - 1], m - 1, mins, most, capacity)
      BY <2>2
    <3>3. BuiltOK(Timetable!Scheduled(f[m - 1], m, mins, most, capacity), m, mins, most, capacity)
      BY <1>1, <1>2, <3>1, <3>2, ScheduledKeeps
    <3> QED BY <1>4, <3>1, <3>3
  <2> HIDE DEF S
  <2>3. \A m \in 0..N : m \in S
    BY <2>1, <2>2, UpTo
  <2>4. N \in S
    BY <2>3
  <2> QED BY <2>4 DEF S
<1> DEFINE x == f[N]
           fin == Timetable!Finished(x.day, mins)
<1>6. x \in Builds(D) /\ BuiltOK(x, N, mins, most, capacity) /\ road = Append(x.done, fin)
  BY <1>4, <1>5
<1> HIDE DEF x, D
<1>7. x.done \in Seq(Days(D)) /\ x.day \in Seq(D)
  BY <1>6 DEF Builds
<1>8. /\ Timetable!FlattenSeq(Items(x.done)) \o x.day = Course(N)
      /\ \A d \in 1..Len(x.done) : KeepsTo(x.done[d], most, capacity)
      /\ RoomIn(x.day, mins, most, capacity)
  BY <1>6 DEF BuiltOK
<1>9. fin \in Days(D) /\ fin.items = x.day /\ KeepsTo(fin, most, capacity)
  BY <1>1, <1>2, <1>7, <1>8, FinishedKeeps
<1> HIDE DEF fin
<1>10. Timetable!FlattenSeq(Items(road)) = Course(N)
  <2>1. /\ Items(x.done) \in Seq(Seq(D))
        /\ Items(Append(x.done, fin)) = Append(Items(x.done), fin.items)
    BY <1>7, <1>9, ItemsNext
  <2>2. Timetable!FlattenSeq(Append(Items(x.done), x.day))
          = Timetable!FlattenSeq(Items(x.done)) \o x.day
    BY <1>7, <2>1, FlattenNext
  <2> QED BY <1>6, <1>8, <1>9, <2>1, <2>2
<1>11. ASSUME NEW d \in DOMAIN road PROVE KeepsTo(road[d], most, capacity)
  <2> DEFINE n == Len(x.done)
  <2>1. /\ n \in Nat /\ DOMAIN road = 1..(n + 1) /\ road[n + 1] = fin
        /\ \A e \in 1..n : road[e] = x.done[e]
    BY <1>6, <1>7, <1>9
  <2> HIDE DEF n
  <2>2. d = n + 1 \/ d \in 1..n
    BY <2>1
  <2> QED BY <1>8, <1>9, <2>1, <2>2 DEF n
<1>12. RoadOK(road, N, most, capacity)
  BY <1>10, <1>11 DEF RoadOK, Items, KeepsTo
<1> QED BY <1>12 DEF road, most, capacity

\* What CourseSchedule assumes of its constants.
ScheduleBounds ==
    /\ Minutes \subseteq Nat /\ Paces \subseteq {"fast", "medium", "deep"}
    /\ Learners \subseteq SUBSET {"beginner", "exam"}
    /\ Capacities \subseteq Nat \ 0..29
    /\ Durations \subseteq Nat \ {0}
    /\ Slot \subseteq Nat /\ 360 \in Slot
    /\ {MaxModules, MaxSlots, MaxInFlight, MaxRequests, MaxFaults} \subseteq Nat

\* A document is sound for a course of N modules.
RowOK(row, N) ==
    /\ row = [days |-> row.days, total_days |-> row.total_days, capacity |-> row.capacity,
              slots |-> row.slots, ticked |-> row.ticked]
    /\ DaysOK(row.days, N, row.total_days, row.capacity, row.slots)

\* The roadmap and the saved schedule are sound, and so is every document that a request
\* may still save while there is the course.
TimetableInv ==
    /\ \E n \in Nat : estimates \in [1..n -> Nat]
    /\ profile.pace \in {"fast", "medium", "deep"}
    /\ RoadOK(day_plan, Len(estimates),
              Timetable!MaxModulesPerDay(profile.pace, profile.learner, Len(estimates)),
              Timetable!DailyCapacity(profile.pace, profile.learner))
    /\ schedule # Timetable!NoSchedule => estimates # <<>> /\ RowOK(schedule, Len(estimates))
    /\ DOMAIN request_pc = Request /\ DOMAIN job = Request
    /\ \A r \in Request :
         request_pc[r] # "idle" /\ estimates # <<>> => RowOK(job[r].row, Len(estimates))

LEMMA NoScheduleOK == RowOK(Timetable!NoSchedule, 0)
<1> DEFINE z == Timetable!NoSchedule
<1>1. z = [days |-> <<>>, total_days |-> 0, capacity |-> 0, slots |-> <<>>, ticked |-> {}]
  BY DEF Timetable!NoSchedule
<1> HIDE DEF z
<1>2. z.days = <<>> /\ z.total_days = 0 /\ z.capacity = 0 /\ z.slots = <<>> /\ z.ticked = {}
  BY <1>1
<1>3. DaysOK(<<>>, 0, 0, 0, <<>>)
  <2>1. DOMAIN <<>> = {} /\ Len(<<>>) = 0
    OBVIOUS
  <2>2. [d \in DOMAIN <<>> |-> Timetable!ModulesOf(<<>>[d])] = <<>>
    OBVIOUS
  <2>3. Course(0) = <<>>
    BY DEF Course
  <2> QED BY <2>1, <2>2, <2>3, FlattenOfNone DEF DaysOK
<1>4. RowOK(z, 0)
  BY <1>1, <1>2, <1>3 DEF RowOK
<1> QED BY <1>4 DEF z

LEMMA NoRoadOK == ASSUME NEW most, NEW capacity PROVE RoadOK(<<>>, 0, most, capacity)
<1>1. DOMAIN <<>> = {}
  OBVIOUS
<1>2. [d \in DOMAIN <<>> |-> <<>>[d].items] = <<>>
  OBVIOUS
<1>3. Course(0) = <<>>
  BY DEF Course
<1> QED BY <1>1, <1>2, <1>3, FlattenOfNone DEF RoadOK

LEMMA TimetableInit == ASSUME ScheduleBounds, Timetable!Init PROVE TimetableInv
<1>1. PICK n \in 1..MaxModules : estimates \in [1..n -> Minutes]
  BY DEF Timetable!Init
<1>2. n \in Nat /\ estimates \in [1..n -> Nat] /\ Len(estimates) = n
  <2>1. n \in Nat /\ Minutes \subseteq Nat
    BY DEF ScheduleBounds
  <2>2. estimates \in [1..n -> Nat]
    BY <1>1, <2>1
  <2> QED BY ONLY <2>1, <2>2
<1>3. profile.pace \in {"fast", "medium", "deep"}
  BY DEF Timetable!Init, ScheduleBounds
<1>4. day_plan = Timetable!BuildSchedule(estimates, profile.pace, profile.learner)
  BY DEF Timetable!Init
<1>5. RoadOK(day_plan, Len(estimates),
             Timetable!MaxModulesPerDay(profile.pace, profile.learner, Len(estimates)),
             Timetable!DailyCapacity(profile.pace, profile.learner))
  BY <1>2, <1>3, <1>4, BuiltRoad
<1>6. schedule = Timetable!NoSchedule
  BY DEF Timetable!Init
<1>7. /\ DOMAIN request_pc = Request /\ DOMAIN job = Request
      /\ \A r \in Request : request_pc[r] = "idle"
  BY DEF Timetable!Init
<1> QED BY <1>2, <1>3, <1>5, <1>6, <1>7 DEF TimetableInv

\* What a request may generate is sound.
LEMMA GeneratedRow ==
    ASSUME ScheduleBounds, TimetableInv,
           NEW days \in Durations, NEW capacity \in Capacities,
           NEW slots \in Timetable!SlotChoice
    PROVE  RowOK([days |-> Timetable!GenerateLearningSchedule(estimates, days, capacity, slots),
                  total_days |-> days, capacity |-> capacity,
                  slots |-> slots, ticked |-> {}], Len(estimates))
<1>1. PICK n \in Nat : estimates \in [1..n -> Nat]
  BY DEF TimetableInv
<1>2. Len(estimates) = n
  BY <1>1
<1>3. days \in Nat \ {0} /\ capacity \in Nat \ 0..29
  BY DEF ScheduleBounds
<1>4. slots \in Seq(Nat)
  <2>1. PICK k \in 0..MaxSlots : slots \in [1..k -> Slot]
    BY DEF Timetable!SlotChoice
  <2>2. k \in Nat /\ Slot \subseteq Nat
    BY DEF ScheduleBounds
  <2>3. slots \in [1..k -> Nat]
    BY <2>1, <2>2
  <2> QED BY <2>2, <2>3
<1> DEFINE g == Timetable!GenerateLearningSchedule(estimates, days, capacity, slots)
<1>5. DaysOK(g, n, days, capacity, slots)
  BY <1>1, <1>3, <1>4, GeneratedDays
<1> HIDE DEF g
<1> DEFINE row == [days |-> g, total_days |-> days, capacity |-> capacity,
                   slots |-> slots, ticked |-> {}]
<1>6. /\ row.days = g /\ row.total_days = days /\ row.capacity = capacity
      /\ row.slots = slots /\ row.ticked = {}
  OBVIOUS
<1>7. RowOK(row, n)
  BY <1>5, <1>6 DEF RowOK
<1> QED BY <1>2, <1>7 DEF g

\* Ticking leaves a document sound.
LEMMA TickedRow ==
    ASSUME NEW row, NEW N, RowOK(row, N), NEW ticks
    PROVE  RowOK([row EXCEPT !.ticked = ticks], N) /\ [row EXCEPT !.ticked = ticks].ticked = ticks
<1> DEFINE z == [row EXCEPT !.ticked = ticks]
<1>1. row = [days |-> row.days, total_days |-> row.total_days, capacity |-> row.capacity,
             slots |-> row.slots, ticked |-> row.ticked]
  BY DEF RowOK
<1>2. z = [days |-> row.days, total_days |-> row.total_days, capacity |-> row.capacity,
           slots |-> row.slots, ticked |-> ticks]
  BY <1>1
<1> HIDE DEF z
<1>3. /\ z.days = row.days /\ z.total_days = row.total_days /\ z.capacity = row.capacity
      /\ z.slots = row.slots /\ z.ticked = ticks
  BY <1>2
<1>4. RowOK(z, N)
  BY <1>2, <1>3 DEF RowOK
<1> QED BY <1>3, <1>4 DEF z

LEMMA FlaggedRow ==
    ASSUME NEW row, NEW N, RowOK(row, N), NEW m, NEW completed
    PROVE  /\ RowOK(Timetable!Flagged(row, m, completed), N)
           /\ Timetable!Flagged(row, m, completed).ticked =
                IF m \in DOMAIN estimates
                THEN Timetable!Ticked(row.ticked, m, completed) ELSE row.ticked
<1>1. PICK ticks : ticks = Timetable!Ticked(row.ticked, m, completed)
  OBVIOUS
<1>2. CASE m \in DOMAIN estimates
  <2>1. Timetable!Flagged(row, m, completed) = [row EXCEPT !.ticked = ticks]
    BY <1>1, <1>2 DEF Timetable!Flagged
  <2> QED BY <1>1, <1>2, <2>1, TickedRow
<1>3. CASE m \notin DOMAIN estimates
  BY <1>3 DEF Timetable!Flagged
<1> QED BY <1>2, <1>3

LEMMA TimetableKept ==
    ASSUME ScheduleBounds, TimetableInv, [Timetable!Next]_(Timetable!vars)
    PROVE  TimetableInv'
<1> DEFINE N == Len(estimates)
<1>0. /\ \E n \in Nat : estimates \in [1..n -> Nat]
      /\ profile.pace \in {"fast", "medium", "deep"}
      /\ RoadOK(day_plan, Len(estimates),
                Timetable!MaxModulesPerDay(profile.pace, profile.learner, Len(estimates)),
                Timetable!DailyCapacity(profile.pace, profile.learner))
      /\ schedule # Timetable!NoSchedule => estimates # <<>> /\ RowOK(schedule, Len(estimates))
      /\ DOMAIN request_pc = Request /\ DOMAIN job = Request
  BY DEF TimetableInv
<1>j. \A r \in Request :
        request_pc[r] # "idle" /\ estimates # <<>> => RowOK(job[r].row, Len(estimates))
  BY DEF TimetableInv
<1>1. CASE Timetable!DeleteCourse
  <2>1. /\ estimates' = <<>> /\ day_plan' = <<>> /\ schedule' = Timetable!NoSchedule
        /\ profile' = profile /\ request_pc' = request_pc /\ job' = job
    BY <1>1 DEF Timetable!DeleteCourse
  <2>2. <<>> \in [1..0 -> Nat] /\ 0 \in Nat /\ Len(<<>>) = 0
    OBVIOUS
  <2>3. \E n \in Nat : estimates' \in [1..n -> Nat]
    BY <2>1, <2>2
  <2>4. RoadOK(day_plan, Len(estimates),
               Timetable!MaxModulesPerDay(profile.pace, profile.learner, Len(estimates)),
               Timetable!DailyCapacity(profile.pace, profile.learner))'
    BY <2>1, <2>2, NoRoadOK
  <2> QED BY <1>0, <2>1, <2>3, <2>4 DEF TimetableInv
<1>2. ASSUME NEW r \in Request, NEW days \in Durations, NEW capacity \in Capacities,
             NEW slots \in Timetable!SlotChoice,
             Timetable!GenerateSchedule(r, days, capacity, slots)
      PROVE  TimetableInv'
  <2> DEFINE row == [days |-> Timetable!GenerateLearningSchedule(estimates, days, capacity, slots),
                     total_days |-> days, capacity |-> capacity,
                     slots |-> slots, ticked |-> {}]
             document == [Timetable!NoJob EXCEPT !.row = row]
  <2>1. RowOK(row, N)
    BY GeneratedRow
  <2>2. /\ /\ request_pc' = [request_pc EXCEPT ![r] = "enrich"]
        /\ job' = [job EXCEPT ![r] = document]
        /\ UNCHANGED <<estimates, profile, day_plan, schedule>>
    BY <1>2 DEF Timetable!GenerateSchedule, Timetable!Begin, Timetable!creation
  <2> HIDE DEF row
  <2>3. document.row = row
    BY DEF Timetable!NoJob
  <2> HIDE DEF document, N
  <2>4. ASSUME NEW q \in Request, request_pc[q]' # "idle", estimates' # <<>>
        PROVE  RowOK(job[q].row, Len(estimates))'
    <3>1. CASE q = r
      <4>1. job[q]' = document
        BY <1>0, <2>2, <3>1
      <4> QED BY <2>1, <2>2, <2>3, <4>1 DEF N
    <3>2. CASE q # r
      <4>1. job[q]' = job[q] /\ request_pc[q]' = request_pc[q]
        BY <1>0, <2>2, <3>2
      <4> QED BY <1>j, <2>2, <2>4, <4>1
    <3> QED BY <3>1, <3>2
  <2>5. DOMAIN request_pc' = Request /\ DOMAIN job' = Request
    BY <1>0, <2>2
  <2> QED BY <1>0, <2>2, <2>4, <2>5 DEF TimetableInv
<1>3. ASSUME NEW r \in Request, NEW m, NEW completed, Timetable!ReadSchedule(r, m, completed)
      PROVE  TimetableInv'
  <2> DEFINE document == [row |-> schedule, module |-> m, completed |-> completed]
  <2>1. /\ /\ request_pc' = [request_pc EXCEPT ![r] = "write"]
        /\ job' = [job EXCEPT ![r] = document]
        /\ UNCHANGED <<estimates, profile, day_plan, schedule>>
        /\ schedule # Timetable!NoSchedule
    BY <1>3 DEF Timetable!ReadSchedule, Timetable!Begin, Timetable!creation, Timetable!Saved
  <2>2. document.row = schedule
    OBVIOUS
  <2> HIDE DEF document, N
  <2>3. ASSUME NEW q \in Request, request_pc[q]' # "idle", estimates' # <<>>
        PROVE  RowOK(job[q].row, Len(estimates))'
    <3>1. CASE q = r
      <4>1. job[q]' = document
        BY <1>0, <2>1, <3>1
      <4> QED BY <1>0, <2>1, <2>2, <4>1
    <3>2. CASE q # r
      <4>1. job[q]' = job[q] /\ request_pc[q]' = request_pc[q]
        BY <1>0, <2>1, <3>2
      <4> QED BY <1>j, <2>1, <2>3, <4>1
    <3> QED BY <3>1, <3>2
  <2>4. DOMAIN request_pc' = Request /\ DOMAIN job' = Request
    BY <1>0, <2>1
  <2> QED BY <1>0, <2>1, <2>3, <2>4 DEF TimetableInv
<1>e. ASSUME NEW r \in Request, Timetable!End(r), UNCHANGED estimates
      PROVE  /\ DOMAIN request_pc' = Request /\ DOMAIN job' = Request
             /\ \A q \in Request :
                  request_pc'[q] # "idle" /\ estimates' # <<>> => RowOK(job'[q].row, Len(estimates'))
  <2>1. /\ request_pc' = [request_pc EXCEPT ![r] = "idle"]
        /\ job' = [job EXCEPT ![r] = Timetable!NoJob]
    BY <1>e DEF Timetable!End
  <2>2. ASSUME NEW q \in Request, request_pc'[q] # "idle", estimates' # <<>>
        PROVE  RowOK(job'[q].row, Len(estimates'))
    <3>1. q # r /\ job'[q] = job[q] /\ request_pc'[q] = request_pc[q]
      BY <1>0, <2>1, <2>2
    <3> QED BY <1>e, <1>j, <2>2, <3>1
  <2> QED BY <1>0, <2>1, <2>2
<1>4. ASSUME NEW r \in Request, Timetable!SaveCourseSchedule(r) PROVE TimetableInv'
  <2>1. /\ schedule' = IF estimates # <<>> THEN job[r].row ELSE schedule
        /\ Timetable!End(r) /\ UNCHANGED <<estimates, profile, day_plan>>
        /\ request_pc[r] # "idle"
    BY <1>4 DEF Timetable!SaveCourseSchedule, Timetable!Exists, Timetable!creation
  <2>2. schedule' # Timetable!NoSchedule => estimates' # <<>> /\ RowOK(schedule', Len(estimates'))
    BY <1>0, <1>j, <2>1
  <2> QED BY <1>0, <1>e, <2>1, <2>2 DEF TimetableInv
<1>5. ASSUME NEW r \in Request, Timetable!UpdateScheduleModuleCompletion(r) PROVE TimetableInv'
  <2> DEFINE z == Timetable!Flagged(job[r].row, job[r].module, job[r].completed)
  <2>1. /\ schedule' = IF schedule # Timetable!NoSchedule THEN z ELSE schedule
        /\ request_pc' = [request_pc EXCEPT ![r] = "answer"] /\ job' = job
        /\ UNCHANGED <<estimates, profile, day_plan>>
        /\ request_pc[r] # "idle"
    BY <1>5 DEF Timetable!UpdateScheduleModuleCompletion, Timetable!Saved, Timetable!creation
  <2>2. schedule # Timetable!NoSchedule => RowOK(z, Len(estimates))
    BY <1>0, <1>j, <2>1, FlaggedRow
  <2> HIDE DEF z
  <2>3. schedule' # Timetable!NoSchedule => estimates' # <<>> /\ RowOK(schedule', Len(estimates'))
    BY <1>0, <2>1, <2>2
  <2>4. DOMAIN request_pc' = Request /\ \A q \in Request : request_pc'[q] # "idle" => request_pc[q] # "idle"
    BY <1>0, <2>1
  <2> QED BY <1>0, <1>j, <2>1, <2>3, <2>4 DEF TimetableInv
<1>8. ASSUME NEW r \in Request, Timetable!AnswerTick(r) PROVE TimetableInv'
  <2>1. Timetable!End(r) /\ UNCHANGED <<estimates, profile, day_plan, schedule>>
    BY <1>8 DEF Timetable!AnswerTick, Timetable!creation
  <2> QED BY <1>0, <1>e, <2>1 DEF TimetableInv
<1>6. ASSUME NEW r \in Request, Timetable!Fault(r) PROVE TimetableInv'
  <2>1. Timetable!End(r) /\ UNCHANGED <<estimates, profile, day_plan, schedule>>
    BY <1>6 DEF Timetable!Fault, Timetable!creation
  <2> QED BY <1>0, <1>e, <2>1 DEF TimetableInv
<1>7. CASE UNCHANGED Timetable!vars
  BY <1>7 DEF TimetableInv, Timetable!vars, Timetable!creation
<1> QED BY <1>1, <1>2, <1>3, <1>4, <1>5, <1>6, <1>7, <1>8 DEF Timetable!Next

LEMMA TimetableAlways == ASSUME ScheduleBounds PROVE Timetable!Spec => []TimetableInv
<1>1. TimetableInv /\ [Timetable!Next]_(Timetable!vars) => TimetableInv'
  BY TimetableKept
<1> QED BY <1>1, TimetableInit, PTL DEF Timetable!Spec

\* Whatever estimates, days, minutes and slots: a saved schedule has every module of the
\* course once and in its order, takes the days asked for, leaves breaks, and gives only its
\* last day more minutes than it has; and the roadmap keeps to the limits of its days.
\* _pack_modules_into_days, _assign_times_to_days and build_recommended_schedule, for
\* courses of any length and any number of slots, with ticking, deletion and dying
\* handlers in between.
THEOREM TimetablesAreSound ==
    ASSUME ScheduleBounds
    PROVE  Timetable!Spec => []Timetable!SoundTimetables
<1>1. TimetableInv => Timetable!SoundTimetables
  <2> SUFFICES ASSUME TimetableInv PROVE Timetable!SoundTimetables
    OBVIOUS
  <2>1. PICK n \in Nat : estimates \in [1..n -> Nat]
    BY DEF TimetableInv
  <2>2. Len(estimates) = n /\ DOMAIN estimates = 1..n
    BY <2>1
  <2>3. [m \in DOMAIN estimates |-> m] = Course(n)
    BY <2>2 DEF Course
  <2>4. Timetable!RoadmapFits
    <3>1. RoadOK(day_plan, n, Timetable!MaxModulesPerDay(profile.pace, profile.learner, n),
                 Timetable!DailyCapacity(profile.pace, profile.learner))
      BY <2>2 DEF TimetableInv
    <3> QED BY <2>2, <2>3, <3>1 DEF RoadOK, Timetable!RoadmapFits
  <2>5. \E N : RowOK(schedule, N) /\ (schedule # Timetable!NoSchedule => N = n)
    BY <2>2, NoScheduleOK DEF TimetableInv
  <2>6. PICK N : RowOK(schedule, N) /\ (schedule # Timetable!NoSchedule => N = n)
    BY <2>5
  <2> DEFINE g == schedule.days
  <2>7. /\ Timetable!FlattenSeq([d \in DOMAIN g |-> Timetable!ModulesOf(g[d])]) = Course(N)
        /\ Len(g) = schedule.total_days
        /\ Timetable!IsInjective(schedule.slots) =>
             \A d \in DOMAIN g : \A i, j \in DOMAIN g[d] :
               i < j /\ g[d][i].slot = g[d][j].slot => g[d][i].end + 5 <= g[d][j].start
        /\ \A d \in DOMAIN g :
             Timetable!MinutesOf(g[d]) > schedule.capacity
               => \A e \in DOMAIN g : e > d => g[e] = <<>>
    BY <2>6 DEF RowOK, DaysOK
  <2>8. Timetable!EveryModuleOnce
    BY <2>3, <2>6, <2>7 DEF Timetable!EveryModuleOnce, Timetable!Saved
  <2>9. Timetable!TakesItsDays
    BY <2>7 DEF Timetable!TakesItsDays
  <2>10. Timetable!BreaksBetween
    BY <2>7 DEF Timetable!BreaksBetween
  <2>11. Timetable!OnlyLastOverflows
    BY <2>7 DEF Timetable!OnlyLastOverflows
  <2> QED BY <2>4, <2>8, <2>9, <2>10, <2>11 DEF Timetable!SoundTimetables
<1> QED BY <1>1, TimetableAlways, PTL

\* The rest of the ticks' invariant.  Two requests in hand have overlapped; and where an
\* answer vouches for a module, the schedule, and every document that is about to be
\* written over it, agree with what the answers said.
InHand == {r \in Request : request_pc[r] # "idle"}

Vouched == DOMAIN estimates \ unsure

OverlapInv ==
    /\ DOMAIN estimates \subseteq Timetable!ModuleId
    /\ \A q, r \in InHand : q # r => r \in overlapped
    /\ \A r \in Request : request_pc[r] = "enrich" => job[r].row.ticked = {}
    /\ \A r \in Request : request_pc[r] = "answer" => job[r].module \in unsure
    /\ \A r \in Request :
         request_pc[r] \in {"write", "answer"} => job[r].module \in Timetable!ModuleId

AgreeInv ==
    schedule # Timetable!NoSchedule =>
      /\ \A m \in Vouched : m \in schedule.ticked <=> m \in told
      /\ \A r \in Request : request_pc[r] = "write" =>
           \A m \in Vouched : m \in job[r].row.ticked <=> m \in told
      /\ \A r \in Request :
           request_pc[r] = "answer" /\ r \notin overlapped /\ job[r].module \in DOMAIN estimates =>
             (job[r].module \in schedule.ticked
                <=> job[r].module \in Timetable!Ticked(told, job[r].module, job[r].completed))

TicksInv == TimetableInv /\ OverlapInv /\ AgreeInv

LEMMA TicksInit == ASSUME ScheduleBounds, Timetable!Init PROVE TicksInv
<1>1. TimetableInv
  BY TimetableInit
<1>2. schedule = Timetable!NoSchedule /\ \A r \in Request : request_pc[r] = "idle"
  BY DEF Timetable!Init
<1>3. DOMAIN estimates \subseteq Timetable!ModuleId
  <2>1. PICK n \in 1..MaxModules : estimates \in [1..n -> Minutes]
    BY DEF Timetable!Init
  <2>2. MaxModules \in Nat
    BY DEF ScheduleBounds
  <2> QED BY <2>1, <2>2 DEF Timetable!ModuleId
<1> QED BY <1>1, <1>2, <1>3 DEF TicksInv, OverlapInv, AgreeInv, InHand

\* Where a request stands and what it holds once it has begun, and the overlap.
LEMMA Begun ==
    ASSUME TicksInv, NEW r \in Request, NEW to, to # "idle", NEW document,
           Timetable!Begin(r, to, document)
    PROVE  /\ request_pc'[r] = to /\ job'[r] = document
           /\ \A q \in Request : q # r => request_pc'[q] = request_pc[q] /\ job'[q] = job[q]
           /\ \A q, s \in InHand' : q # s => s \in overlapped'
           /\ \A q \in Request : q # r /\ request_pc[q] # "idle" => q \in overlapped'
<1>1. /\ request_pc' = [request_pc EXCEPT ![r] = to] /\ job' = [job EXCEPT ![r] = document]
      /\ request_pc[r] = "idle"
      /\ overlapped' = IF InHand = {} THEN {} ELSE InHand \union {r}
  BY DEF Timetable!Begin, Timetable!InFlight, Timetable!Idle, InHand
<1>2. DOMAIN request_pc = Request /\ DOMAIN job = Request
  BY DEF TicksInv, TimetableInv
<1>3. /\ request_pc'[r] = to /\ job'[r] = document
      /\ \A q \in Request : q # r => request_pc'[q] = request_pc[q] /\ job'[q] = job[q]
  BY <1>1, <1>2
<1>4. InHand' = InHand \union {r}
  BY <1>3 DEF InHand
<1> QED BY <1>1, <1>3, <1>4 DEF InHand

LEMMA Ended ==
    ASSUME TicksInv, NEW r \in Request, Timetable!End(r), request_pc[r] # "idle"
    PROVE  /\ request_pc'[r] = "idle"
           /\ \A q \in Request : q # r => request_pc'[q] = request_pc[q] /\ job'[q] = job[q]
           /\ \A q, s \in InHand' : q # s => s \in overlapped'
           /\ \A q \in Request : q # r => (q \in overlapped' <=> q \in overlapped)
           /\ r \notin overlapped => InHand' = {}
<1>1. /\ request_pc' = [request_pc EXCEPT ![r] = "idle"]
      /\ job' = [job EXCEPT ![r] = Timetable!NoJob]
      /\ overlapped' = overlapped \ {r}
  BY DEF Timetable!End
<1>2. DOMAIN request_pc = Request /\ DOMAIN job = Request
  BY DEF TicksInv, TimetableInv
<1>3. \A q, s \in InHand : q # s => s \in overlapped
  BY DEF TicksInv, OverlapInv
<1>4. /\ request_pc'[r] = "idle"
      /\ \A q \in Request : q # r => request_pc'[q] = request_pc[q] /\ job'[q] = job[q]
  BY <1>1, <1>2
<1>5. InHand' = InHand \ {r} /\ r \in InHand
  BY <1>4 DEF InHand
<1> QED BY <1>1, <1>3, <1>4, <1>5

LEMMA TicksKept ==
    ASSUME ScheduleBounds, TicksInv, [Timetable!Next]_(Timetable!vars)
    PROVE  TicksInv'
<1>a. TimetableInv /\ TimetableInv'
  BY TimetableKept DEF TicksInv
<1>s. schedule # Timetable!NoSchedule => estimates # <<>>
  BY <1>a DEF TimetableInv
<1>o. /\ DOMAIN estimates \subseteq Timetable!ModuleId
      /\ \A q, r \in InHand : q # r => r \in overlapped
      /\ \A r \in Request : request_pc[r] = "enrich" => job[r].row.ticked = {}
      /\ \A r \in Request : request_pc[r] = "answer" => job[r].module \in unsure
      /\ \A r \in Request :
           request_pc[r] \in {"write", "answer"} => job[r].module \in Timetable!ModuleId
  BY DEF TicksInv, OverlapInv
<1>g. schedule # Timetable!NoSchedule =>
        /\ \A m \in DOMAIN estimates \ unsure : m \in schedule.ticked <=> m \in told
        /\ \A r \in Request : request_pc[r] = "write" =>
             \A m \in DOMAIN estimates \ unsure : m \in job[r].row.ticked <=> m \in told
        /\ \A r \in Request :
             request_pc[r] = "answer" /\ r \notin overlapped /\ job[r].module \in DOMAIN estimates =>
               (job[r].module \in schedule.ticked
                  <=> job[r].module \in Timetable!Ticked(told, job[r].module, job[r].completed))
  BY DEF TicksInv, AgreeInv, Vouched
<1> SUFFICES OverlapInv' /\ AgreeInv'
  BY <1>a DEF TicksInv
<1>1. CASE Timetable!DeleteCourse
  <2>1. /\ schedule' = Timetable!NoSchedule /\ request_pc' = request_pc /\ job' = job
        /\ unsure' = unsure /\ overlapped' = overlapped /\ estimates' = <<>>
    BY <1>1 DEF Timetable!DeleteCourse, Timetable!answers
  <2>2. InHand' = InHand /\ DOMAIN estimates' = {}
    BY <2>1 DEF InHand
  <2> QED BY <1>o, <2>1, <2>2 DEF OverlapInv, AgreeInv
<1>2. ASSUME NEW r \in Request, NEW days \in Durations, NEW capacity \in Capacities,
             NEW slots \in Timetable!SlotChoice,
             Timetable!GenerateSchedule(r, days, capacity, slots)
      PROVE  OverlapInv' /\ AgreeInv'
  <2> DEFINE row == [days |-> Timetable!GenerateLearningSchedule(estimates, days, capacity, slots),
                     total_days |-> days, capacity |-> capacity,
                     slots |-> slots, ticked |-> {}]
             document == [Timetable!NoJob EXCEPT !.row = row]
  <2>1. /\ Timetable!Begin(r, "enrich", document) /\ schedule' = schedule /\ told' = told
        /\ unsure' = unsure /\ estimates' = estimates
    BY <1>2 DEF Timetable!GenerateSchedule, Timetable!answers
  <2>2. row.ticked = {}
    OBVIOUS
  <2> HIDE DEF row
  <2>3. document.row.ticked = {}
    BY <2>2 DEF Timetable!NoJob
  <2> HIDE DEF document
  <2>4. /\ request_pc'[r] = "enrich" /\ job'[r] = document
        /\ \A q \in Request : q # r => request_pc'[q] = request_pc[q] /\ job'[q] = job[q]
        /\ \A q, s \in InHand' : q # s => s \in overlapped'
        /\ \A q \in Request : q # r /\ request_pc[q] # "idle" => q \in overlapped'
    BY <2>1, Begun
  <2>5. OverlapInv'
    BY <1>o, <2>1, <2>3, <2>4 DEF OverlapInv
  <2>6. AgreeInv'
    <3>1. \A q \in Request : request_pc'[q] \in {"write", "answer"} =>
            q # r /\ request_pc[q] = request_pc'[q] /\ job'[q] = job[q]
      BY <2>4
    <3>2. \A q \in Request : request_pc'[q] = "answer" => q \in overlapped'
      BY <2>4, <3>1
    <3> QED BY <1>g, <2>1, <3>1, <3>2 DEF AgreeInv, Vouched
  <2> QED BY <2>5, <2>6
<1>3. ASSUME NEW r \in Request, NEW m \in Timetable!ModuleId, NEW completed,
             Timetable!ReadSchedule(r, m, completed)
      PROVE  OverlapInv' /\ AgreeInv'
  <2> DEFINE document == [row |-> schedule, module |-> m, completed |-> completed]
  <2>1. /\ Timetable!Begin(r, "write", document) /\ schedule' = schedule /\ told' = told
        /\ unsure' = unsure /\ estimates' = estimates
    BY <1>3 DEF Timetable!ReadSchedule, Timetable!answers
  <2>2. document.row = schedule /\ document.module \in Timetable!ModuleId
    OBVIOUS
  <2> HIDE DEF document
  <2>4. /\ request_pc'[r] = "write" /\ job'[r] = document
        /\ \A q \in Request : q # r => request_pc'[q] = request_pc[q] /\ job'[q] = job[q]
        /\ \A q, s \in InHand' : q # s => s \in overlapped'
        /\ \A q \in Request : q # r /\ request_pc[q] # "idle" => q \in overlapped'
    BY <2>1, Begun
  <2>5. OverlapInv'
    BY <1>o, <2>1, <2>2, <2>4 DEF OverlapInv
  <2>6. AgreeInv'
    <3>1. \A q \in Request : request_pc'[q] \in {"write", "answer"} =>
            \/ q = r /\ request_pc'[q] = "write" /\ job'[q].row = schedule
            \/ q # r /\ request_pc[q] = request_pc'[q] /\ job'[q] = job[q]
      BY <2>2, <2>4
    <3>2. \A q \in Request : request_pc'[q] = "answer" => q \in overlapped'
      BY <2>4, <3>1
    <3> QED BY <1>g, <2>1, <3>1, <3>2 DEF AgreeInv, Vouched
  <2> QED BY <2>5, <2>6
<1>4. ASSUME NEW r \in Request, Timetable!SaveCourseSchedule(r)
      PROVE  OverlapInv' /\ AgreeInv'
  <2>1. /\ schedule' = IF estimates # <<>> THEN job[r].row ELSE schedule
        /\ told' = IF estimates # <<>> THEN {} ELSE told
        /\ unsure' = IF r \in overlapped THEN Timetable!ModuleId
                     ELSE IF estimates # <<>> THEN {} ELSE unsure
        /\ Timetable!End(r) /\ request_pc[r] = "enrich" /\ estimates' = estimates
    BY <1>4 DEF Timetable!SaveCourseSchedule, Timetable!Exists
  <2>2. /\ request_pc'[r] = "idle"
        /\ \A q \in Request : q # r => request_pc'[q] = request_pc[q] /\ job'[q] = job[q]
        /\ \A q, s \in InHand' : q # s => s \in overlapped'
        /\ \A q \in Request : q # r => (q \in overlapped' <=> q \in overlapped)
        /\ r \notin overlapped => InHand' = {}
    BY <2>1, Ended
  <2>3. \A q \in Request : request_pc'[q] # "idle" =>
          q # r /\ request_pc'[q] = request_pc[q] /\ job'[q] = job[q]
    BY <2>2
  <2>4. CASE r \in overlapped
    <3>1. unsure' = Timetable!ModuleId /\ r \in InHand
      BY <2>1, <2>4 DEF InHand
    <3>2. ASSUME NEW q \in Request, request_pc'[q] = "answer" PROVE job'[q].module \in unsure'
      <4>1. q # r /\ request_pc[q] = "answer" /\ job'[q] = job[q]
        BY <2>3, <3>2
      <4> QED BY <1>o, <3>1, <4>1
    <3>3. OverlapInv'
      BY <1>o, <2>1, <2>2, <2>3, <3>2 DEF OverlapInv
    <3>4. ASSUME NEW q \in Request, request_pc'[q] = "answer" PROVE q \in overlapped'
      <4>1. q # r /\ request_pc[q] = "answer" /\ r \in InHand /\ q \in InHand
        BY <2>3, <3>1, <3>4 DEF InHand
      <4> QED BY <1>o, <2>2, <4>1
    <3>5. AgreeInv'
      BY <1>o, <2>1, <3>1, <3>4 DEF AgreeInv, Vouched
    <3> QED BY <3>3, <3>5
  <2>5. CASE r \notin overlapped
    <3>1. \A q \in Request : request_pc'[q] = "idle"
      BY <2>2, <2>5 DEF InHand
    <3>2. OverlapInv'
      BY <1>o, <2>1, <2>2, <3>1 DEF OverlapInv
    <3>3. schedule' # Timetable!NoSchedule => schedule'.ticked = {} /\ told' = {}
      BY <1>o, <1>s, <2>1
    <3>4. AgreeInv'
      BY <3>1, <3>3 DEF AgreeInv
    <3> QED BY <3>2, <3>4
  <2> QED BY <2>4, <2>5
<1>5. ASSUME NEW r \in Request, Timetable!UpdateScheduleModuleCompletion(r)
      PROVE  OverlapInv' /\ AgreeInv'
  <2> DEFINE i == job[r].module
             z == Timetable!Flagged(job[r].row, i, job[r].completed)
  <2>1. /\ schedule' = IF schedule # Timetable!NoSchedule THEN z ELSE schedule
        /\ request_pc' = [request_pc EXCEPT ![r] = "answer"] /\ job' = job
        /\ told' = told /\ unsure' = unsure \union {i} /\ overlapped' = overlapped
        /\ estimates' = estimates /\ request_pc[r] = "write"
    BY <1>5 DEF Timetable!UpdateScheduleModuleCompletion, Timetable!Saved
  <2>2. /\ request_pc'[r] = "answer"
        /\ \A q \in Request : q # r => request_pc'[q] = request_pc[q]
        /\ InHand' = InHand
    BY <1>a, <2>1 DEF TimetableInv, InHand
  <2>3. OverlapInv'
    BY <1>o, <2>1, <2>2 DEF OverlapInv
  <2>4. SUFFICES ASSUME schedule' # Timetable!NoSchedule
                 PROVE  /\ \A m \in DOMAIN estimates \ unsure' : m \in schedule'.ticked <=> m \in told
                        /\ \A q \in Request : request_pc'[q] = "write" =>
                             \A m \in DOMAIN estimates \ unsure' : m \in job[q].row.ticked <=> m \in told
                        /\ \A q \in Request :
                             request_pc'[q] = "answer" /\ q \notin overlapped /\ job[q].module \in DOMAIN estimates =>
                               (job[q].module \in schedule'.ticked
                                  <=> job[q].module \in Timetable!Ticked(told, job[q].module, job[q].completed))
    BY <2>1, <2>3 DEF AgreeInv, Vouched
  <2>5. schedule # Timetable!NoSchedule /\ schedule' = z
    BY <2>1, <2>4
  <2>6. RowOK(job[r].row, Len(estimates))
    BY <1>a, <1>s, <2>1, <2>5 DEF TimetableInv
  <2>7. z.ticked = IF i \in DOMAIN estimates
                   THEN Timetable!Ticked(job[r].row.ticked, i, job[r].completed) ELSE job[r].row.ticked
    BY <2>6, FlaggedRow
  <2> HIDE DEF z
  <2>8. \A m \in DOMAIN estimates \ unsure' : m \in schedule'.ticked <=> m \in told
    <3>1. \A m \in DOMAIN estimates \ unsure' : m # i /\ (m \in job[r].row.ticked <=> m \in told)
      BY <1>g, <2>1, <2>5
    <3> QED BY <2>5, <2>7, <3>1 DEF Timetable!Ticked
  <2>9. \A q \in Request : request_pc'[q] = "write" =>
          \A m \in DOMAIN estimates \ unsure' : m \in job[q].row.ticked <=> m \in told
    BY <1>g, <2>1, <2>2, <2>5
  <2>10. ASSUME NEW q \in Request, request_pc'[q] = "answer", q \notin overlapped,
                job[q].module \in DOMAIN estimates
         PROVE  job[q].module \in schedule'.ticked
                  <=> job[q].module \in Timetable!Ticked(told, job[q].module, job[q].completed)
    <3>1. q = r
      <4>1. q \in InHand /\ r \in InHand
        BY <2>1, <2>2, <2>10 DEF InHand
      <4> QED BY <1>o, <2>10, <4>1
    <3> QED BY <2>5, <2>7, <2>10, <3>1 DEF Timetable!Ticked
  <2> QED BY <2>8, <2>9, <2>10
<1>6. ASSUME NEW r \in Request, Timetable!AnswerTick(r)
      PROVE  OverlapInv' /\ AgreeInv'
  <2> DEFINE i == job[r].module
  <2>1. /\ told' = Timetable!Ticked(told, i, job[r].completed)
        /\ unsure' = IF r \in overlapped THEN unsure ELSE unsure \ {i}
        /\ Timetable!End(r) /\ request_pc[r] = "answer"
        /\ estimates' = estimates /\ schedule' = schedule
    BY <1>6 DEF Timetable!AnswerTick
  <2>2. /\ request_pc'[r] = "idle"
        /\ \A q \in Request : q # r => request_pc'[q] = request_pc[q] /\ job'[q] = job[q]
        /\ \A q, s \in InHand' : q # s => s \in overlapped'
        /\ \A q \in Request : q # r => (q \in overlapped' <=> q \in overlapped)
        /\ r \notin overlapped => InHand' = {}
    BY <2>1, Ended
  <2>3. \A m : m # i => (m \in told' <=> m \in told)
    BY <2>1 DEF Timetable!Ticked
  <2>4. CASE r \in overlapped
    <3>1. \A q \in Request : request_pc'[q] # "idle" =>
            q # r /\ request_pc'[q] = request_pc[q] /\ job'[q] = job[q]
      BY <2>2
    <3>2. i \in unsure /\ unsure' = unsure
      BY <1>o, <2>1, <2>4
    <3>3. OverlapInv'
      BY <1>o, <2>1, <2>2, <3>1, <3>2 DEF OverlapInv
    <3>4. ASSUME NEW q \in Request, request_pc'[q] = "answer" PROVE q \in overlapped'
      <4>1. q # r /\ q \in InHand /\ r \in InHand
        BY <2>1, <3>1, <3>4 DEF InHand
      <4> QED BY <1>o, <2>2, <4>1
    <3>5. \A m \in DOMAIN estimates \ unsure : m \in told' <=> m \in told
      BY <2>3, <3>2
    <3> HIDE DEF i
    <3>6. AgreeInv'
      BY <1>g, <2>1, <3>1, <3>2, <3>4, <3>5 DEF AgreeInv, Vouched
    <3> QED BY <3>3, <3>6
  <2>5. CASE r \notin overlapped
    <3>1. \A q \in Request : request_pc'[q] = "idle"
      BY <2>2, <2>5 DEF InHand
    <3>2. OverlapInv'
      BY <1>o, <2>1, <2>2, <3>1 DEF OverlapInv
    <3>3. ASSUME schedule # Timetable!NoSchedule, NEW m \in DOMAIN estimates, m \notin unsure'
          PROVE  m \in schedule.ticked <=> m \in told'
      <4>1. CASE m = i
        BY <1>g, <2>1, <2>5, <3>3, <4>1
      <4>2. CASE m # i
        BY <1>g, <2>1, <2>3, <2>5, <3>3, <4>2
      <4> QED BY <4>1, <4>2
    <3>4. AgreeInv'
      BY <2>1, <3>1, <3>3 DEF AgreeInv, Vouched
    <3> QED BY <3>2, <3>4
  <2> QED BY <2>4, <2>5
<1>7. ASSUME NEW r \in Request, Timetable!Fault(r)
      PROVE  OverlapInv' /\ AgreeInv'
  <2>1. /\ Timetable!End(r) /\ request_pc[r] # "idle" /\ schedule' = schedule /\ told' = told
        /\ unsure' = unsure /\ estimates' = estimates
    BY <1>7 DEF Timetable!Fault, Timetable!Idle, Timetable!answers
  <2>2. /\ request_pc'[r] = "idle"
        /\ \A q \in Request : q # r => request_pc'[q] = request_pc[q] /\ job'[q] = job[q]
        /\ \A q, s \in InHand' : q # s => s \in overlapped'
        /\ \A q \in Request : q # r => (q \in overlapped' <=> q \in overlapped)
    BY <2>1, Ended
  <2>3. \A q \in Request : request_pc'[q] # "idle" =>
          q # r /\ request_pc'[q] = request_pc[q] /\ job'[q] = job[q]
    BY <2>2
  <2>4. OverlapInv'
    BY <1>o, <2>1, <2>2, <2>3 DEF OverlapInv
  <2>5. AgreeInv'
    BY <1>g, <2>1, <2>2, <2>3 DEF AgreeInv, Vouched
  <2> QED BY <2>4, <2>5
<1>8. CASE UNCHANGED Timetable!vars
  <2>1. /\ schedule' = schedule /\ told' = told /\ request_pc' = request_pc /\ job' = job
        /\ unsure' = unsure /\ overlapped' = overlapped /\ estimates' = estimates
    BY <1>8 DEF Timetable!vars, Timetable!answers
  <2>2. InHand' = InHand
    BY <2>1 DEF InHand
  <2> QED BY <1>o, <1>g, <2>1, <2>2 DEF OverlapInv, AgreeInv, Vouched
<1> QED BY <1>1, <1>2, <1>3, <1>4, <1>5, <1>6, <1>7, <1>8 DEF Timetable!Next

\* The schedule shows of every module what its last answered tick said, unless a handler
\* died between writing the tick and answering it, or the request that wrote it was not
\* alone: update_schedule_module_completion writes the document back that it read, and no
\* other handler, id or course of events touches a tick that an answer vouches for.
THEOREM TicksAreShown == ASSUME ScheduleBounds PROVE Timetable!Spec => []Timetable!TicksShown
<1>1. TicksInv => Timetable!TicksShown
  BY DEF TicksInv, AgreeInv, Vouched, Timetable!TicksShown, Timetable!Saved
<1>2. TicksInv /\ [Timetable!Next]_(Timetable!vars) => TicksInv'
  BY TicksKept
<1> QED BY <1>1, <1>2, TicksInit, PTL DEF Timetable!Spec
=============================================================================
