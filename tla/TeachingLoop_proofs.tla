-------------------------- MODULE TeachingLoop_proofs --------------------------
(***************************************************************************)
(* What holds of the tutoring sessions of a student for any plans, any     *)
(* detours and doubts, and any number of sessions and failures: questions  *)
(* are about the lesson, findings reach the tables, the stored index skips *)
(* nothing, and the third reteach never comes.  The last part is about the *)
(* calls of the LLM that the agents of the sessions make.                  *)
(***************************************************************************)
EXTENDS TeachingLoop, FiniteSetTheorems, SequenceTheorems, TLAPS

-----------------------------------------------------------------------------
(* The inductive invariant *)

Place == {"idle", "ended", "lost", "stopped", "setup", "creating", "revisiting",
          "module", "evaluating", "adapting", "routing", "escalating", "replacing",
          "ending"}

\* From a lesson to what follows from it there is a module to work on.
Working == pc \in {"evaluating", "adapting", "routing", "escalating", "replacing"}

\* A session without a plan has nothing yet.
Blank ==
    pc \in {"setup", "creating"} =>
      rebuilt = <<>> /\ content = [id \in ModuleId |-> {}] /\ earned = {}

\* A plan that is built can be stored.
Room == pc \in {"creating", "replacing"} => Len(curricula) < MaxPlans

BaseInv ==
    /\ TypeOK
    /\ pc \in Place
    /\ Working => MayTeach
    /\ Blank
    /\ Room

\* Modules of the same id are namesakes, and the ids of modules that were
\* inserted name their concept.
WellNamed(modules) ==
    /\ \A i, j \in DOMAIN modules :
         modules[i].id = modules[j].id => modules[i].concept \in Namesakes(modules[j])
    /\ \A i \in DOMAIN modules :
         Named(modules[i].id) # {} => modules[i].concept \in Named(modules[i].id)

\* What is kept under the id of a module is about its namesakes, also under the
\* id of a module yet to be inserted.
KeptApart ==
    /\ \A i \in DOMAIN curriculum.modules :
         content[curriculum.modules[i].id] \subseteq Namesakes(curriculum.modules[i])
    /\ \A id \in ModuleId : Named(id) # {} => content[id] \subseteq Named(id)

FitInv ==
    /\ \A p \in DOMAIN curricula : WellNamed(curricula[p].modules)
    /\ rebuilt = <<>> => WellNamed(curriculum.modules) /\ KeptApart

\* Concepts that were completed are those of modules still on the list.
EarnedListed ==
    rebuilt = <<>> =>
      \A c \in earned : \E i \in DOMAIN curriculum.modules :
        curriculum.modules[i].id \in completed /\ curriculum.modules[i].concept = c

FindInv == EarnedListed /\ FindingsOnRecord

\* Every module before the index has been completed.
Behind(c) ==
    \A i \in 1..c.current_index : i \in DOMAIN c.modules /\ c.modules[i] \in passed

\* As long as nothing was inserted, the session works on the plan that is stored.
OnTrack ==
    (active # 0 /\ active \notin shifted /\ rebuilt = <<>> /\ pc \notin {"idle", "lost", "stopped"}) =>
      curriculum.modules = curricula[active].modules /\ Behind(curriculum)

SkipInv ==
    /\ \A p \in DOMAIN curricula \ shifted : Behind(curricula[p])
    /\ rebuilt # <<>> => rebuilt[1].current_index = 0
    /\ OnTrack

-----------------------------------------------------------------------------
(* The operators on curricula *)

\* The smaller of two numbers is one of them, and not above either.
LEMMA MinOfTwo ==
  ASSUME NEW a \in Nat, NEW b \in Nat
  PROVE  /\ Min({a, b}) \in Nat
         /\ Min({a, b}) <= a /\ Min({a, b}) <= b
         /\ Min({a, b}) = a \/ Min({a, b}) = b
<1>1. \E x \in {a, b} : \A y \in {a, b} : x =< y
  OBVIOUS
<1>2. Min({a, b}) \in {a, b} /\ \A y \in {a, b} : Min({a, b}) =< y
  BY <1>1 DEF Min
<1> QED BY <1>2

\* Modules that are inserted come between the others, and nothing is lost.
LEMMA Inserted ==
  ASSUME NEW c \in Curriculum, NEW ms \in Seq(Modules)
  PROVE  /\ InsertAll(c, ms) \in Curriculum
         /\ InsertAll(c, ms).current_index = c.current_index
         /\ \A i \in DOMAIN InsertAll(c, ms).modules :
              \/ \E j \in DOMAIN c.modules : InsertAll(c, ms).modules[i] = c.modules[j]
              \/ \E j \in DOMAIN ms : InsertAll(c, ms).modules[i] = ms[j]
         /\ \A j \in DOMAIN c.modules : \E i \in DOMAIN InsertAll(c, ms).modules :
              InsertAll(c, ms).modules[i] = c.modules[j]
         /\ ms = <<>> => InsertAll(c, ms).modules = c.modules
<1> DEFINE s == c.modules
           n == Len(s)
           k == Min({c.current_index, n})
           t == SubSeq(s, 1, k) \o ms \o SubSeq(s, k + 1, n)
<1>1. s \in Seq(Modules) /\ n \in Nat /\ c.current_index \in Nat
  BY DEF Curriculum
<1>2. k \in Nat /\ k <= n
  <2> HIDE DEF n
  <2> QED BY <1>1, MinOfTwo
<1>3. InsertAll(c, ms) = [c EXCEPT !.modules = t]
  BY DEF InsertAll
<1> HIDE DEF k, s
<1>4. /\ SubSeq(s, 1, k) \in Seq(Modules) /\ Len(SubSeq(s, 1, k)) = k
      /\ \A i \in 1..k : SubSeq(s, 1, k)[i] = s[i]
  <2>1. \A i \in 1..k : s[i] \in Modules
    BY <1>1, <1>2
  <2>2. /\ SubSeq(s, 1, k) \in Seq(Modules)
        /\ Len(SubSeq(s, 1, k)) = IF 1 <= k THEN k - 1 + 1 ELSE 0
        /\ \A i \in 1..k - 1 + 1 : SubSeq(s, 1, k)[i] = s[1 + i - 1]
    BY <1>2, <2>1, SubSeqProperties
  <2> QED BY <1>2, <2>2
<1>5. /\ SubSeq(s, k + 1, n) \in Seq(Modules) /\ Len(SubSeq(s, k + 1, n)) = n - k
      /\ \A i \in 1..n - k : SubSeq(s, k + 1, n)[i] = s[k + i]
  <2>1. \A i \in k + 1..n : s[i] \in Modules
    BY <1>1, <1>2
  <2>2. /\ SubSeq(s, k + 1, n) \in Seq(Modules)
        /\ Len(SubSeq(s, k + 1, n)) = IF k + 1 <= n THEN n - (k + 1) + 1 ELSE 0
        /\ \A i \in 1..n - (k + 1) + 1 : SubSeq(s, k + 1, n)[i] = s[k + 1 + i - 1]
    <3>1. k + 1 \in Int /\ n \in Int
      BY <1>1, <1>2
    <3> HIDE DEF n
    <3> QED BY <2>1, <3>1, SubSeqProperties
  <2> QED BY <1>1, <1>2, <2>2
<1> DEFINE u == SubSeq(s, 1, k)
           v == SubSeq(s, k + 1, n)
           uv == u \o ms
<1>50. \A i \in 1..n - k : v[i] = s[k + i]
  BY <1>5
<1>6. /\ uv \in Seq(Modules) /\ Len(uv) = k + Len(ms)
      /\ \A i \in 1..k + Len(ms) : uv[i] = IF i <= k THEN u[i] ELSE ms[i - k]
  <2> HIDE DEF u
  <2>1. u \in Seq(Modules) /\ Len(u) = k
    BY <1>4 DEF u
  <2> QED BY <2>1, ConcatProperties
<1>7. /\ t \in Seq(Modules) /\ Len(t) = k + Len(ms) + (n - k)
      /\ \A i \in 1..k + Len(ms) + (n - k) :
           t[i] = IF i <= k + Len(ms) THEN uv[i] ELSE v[i - (k + Len(ms))]
  <2>1. t = uv \o v
    OBVIOUS
  <2>2. v \in Seq(Modules) /\ Len(v) = n - k
    BY <1>5
  <2> HIDE DEF uv, v, t
  <2>3. /\ t \in Seq(Modules) /\ Len(t) = Len(uv) + Len(v)
        /\ \A i \in 1..Len(uv) + Len(v) :
             t[i] = IF i <= Len(uv) THEN uv[i] ELSE v[i - Len(uv)]
    BY <1>6, <2>1, <2>2, ConcatProperties
  <2> QED BY <1>6, <2>2, <2>3
<1> HIDE DEF t, uv, v
<1>8. Len(ms) \in Nat /\ DOMAIN ms = 1..Len(ms) /\ DOMAIN s = 1..n /\ DOMAIN t = 1..Len(t)
  BY <1>1, <1>7, LenProperties
<1>9. \A i \in DOMAIN t : \/ \E j \in DOMAIN s : t[i] = s[j]
                          \/ \E j \in DOMAIN ms : t[i] = ms[j]
  <2> SUFFICES ASSUME NEW i \in DOMAIN t
               PROVE  \/ \E j \in DOMAIN s : t[i] = s[j]
                      \/ \E j \in DOMAIN ms : t[i] = ms[j]
    OBVIOUS
  <2> HIDE DEF n
  <2>1. CASE i <= k
    BY <1>1, <1>2, <1>4, <1>6, <1>7, <1>8, <2>1
  <2>2. CASE k < i /\ i <= k + Len(ms)
    <3>1. t[i] = ms[i - k] /\ i - k \in DOMAIN ms
      BY <1>1, <1>2, <1>6, <1>7, <1>8, <2>2
    <3> QED BY <3>1
  <2>3. CASE k + Len(ms) < i
    <3>1. i \in 1..k + Len(ms) + (n - k)
      BY <1>7, <1>8
    <3>4. ~(i <= k + Len(ms)) /\ i - (k + Len(ms)) \in 1..n - k
      BY <1>1, <1>2, <1>8, <2>3, <3>1
    <3>2. t[i] = v[i - (k + Len(ms))] /\ i - (k + Len(ms)) \in 1..n - k
      BY <1>7, <3>1, <3>4
    <3>3. t[i] = s[k + (i - (k + Len(ms)))] /\ k + (i - (k + Len(ms))) \in DOMAIN s
      BY <1>1, <1>2, <1>50, <1>8, <3>2
    <3> QED BY <3>3
  <2> QED BY <1>1, <1>2, <1>7, <1>8, <2>1, <2>2, <2>3
<1>10. \A j \in DOMAIN s : \E i \in DOMAIN t : t[i] = s[j]
  <2> SUFFICES ASSUME NEW j \in DOMAIN s PROVE \E i \in DOMAIN t : t[i] = s[j]
    OBVIOUS
  <2> HIDE DEF n
  <2>1. CASE j <= k
    <3>2. /\ j \in 1..k /\ j \in 1..k + Len(ms) /\ j <= k + Len(ms)
          /\ j \in 1..k + Len(ms) + (n - k)
      BY <1>1, <1>2, <1>8, <2>1
    <3>3. t[j] = uv[j]
      BY <1>7, <3>2
    <3>4. uv[j] = u[j]
      BY <1>6, <2>1, <3>2
    <3>1. j \in DOMAIN t /\ t[j] = s[j]
      BY <1>4, <1>7, <1>8, <3>2, <3>3, <3>4
    <3> QED BY <3>1
  <2>2. CASE k < j
    <3>1. /\ Len(ms) + j \in 1..k + Len(ms) + (n - k)
          /\ ~(Len(ms) + j <= k + Len(ms))
          /\ Len(ms) + j - (k + Len(ms)) = j - k
      BY <1>1, <1>2, <1>8, <2>2
    <3>2. t[Len(ms) + j] = v[j - k]
      <4> DEFINE i == Len(ms) + j
      <4>1. i \in 1..k + Len(ms) + (n - k) /\ ~(i <= k + Len(ms)) /\ i - (k + Len(ms)) = j - k
        BY <1>1, <1>2, <1>8, <2>2
      <4> HIDE DEF i
      <4>2. t[i] = v[i - (k + Len(ms))]
        BY <1>7, <4>1
      <4>3. t[i] = v[j - k]
        BY <4>1, <4>2
      <4> QED BY <4>3 DEF i
    <3>3. v[j - k] = s[k + (j - k)] /\ k + (j - k) = j
      BY <1>1, <1>2, <1>50, <1>8, <2>2
    <3>4. Len(ms) + j \in DOMAIN t
      BY <1>7, <1>8, <3>1
    <3> QED BY <3>2, <3>3, <3>4
  <2> QED BY <1>1, <1>2, <1>8, <2>1, <2>2
<1>11. ms = <<>> => t = s
  <2> SUFFICES ASSUME ms = <<>> PROVE t = s
    OBVIOUS
  <2>1. Len(ms) = 0
    BY EmptySeq
  <2> HIDE DEF n
  <2>2. Len(t) = n
    BY <1>1, <1>2, <1>7, <2>1
  <2>3. ASSUME NEW i \in 1..Len(t) PROVE t[i] = s[i]
    <3>1. CASE i <= k
      BY <1>1, <1>2, <1>4, <1>6, <1>7, <2>1, <3>1
    <3>2. CASE k < i
      <4>1. i \in 1..n /\ i - k \in 1..n - k /\ i - (k + Len(ms)) = i - k
        BY <1>1, <1>2, <2>1, <2>2, <3>2
      <4>2. t[i] = v[i - k]
        BY <1>2, <1>7, <2>1, <2>2, <3>2, <4>1
      <4>3. v[i - k] = s[k + (i - k)] /\ k + (i - k) = i
        BY <1>1, <1>2, <1>50, <4>1
      <4> QED BY <4>2, <4>3
    <3> QED BY <1>1, <1>2, <2>2, <3>1, <3>2
  <2>4. Len(t) = Len(s)
    BY <2>2 DEF n
  <2> QED BY <1>1, <1>7, <2>3, <2>4, SeqEqual
<1>12. /\ [c EXCEPT !.modules = t] \in Curriculum
       /\ [c EXCEPT !.modules = t].current_index = c.current_index
       /\ [c EXCEPT !.modules = t].modules = t
  BY <1>7 DEF Curriculum
<1> QED BY <1>3, <1>9, <1>10, <1>11, <1>12 DEF s

\* The modules to revisit are modules of concepts.
LEMMA RevisitsTyped ==
  ASSUME NEW due \in Due
  PROVE  /\ Revisits(due) \in Seq(Modules)
         /\ \A i \in DOMAIN Revisits(due) :
              Revisits(due)[i].concept \in Named(Revisits(due)[i].id)
         /\ due = <<>> => Revisits(due) = <<>>
<1>1. PICK S \in Rows : due \in SetToSeqs(S \ Rest(curriculum))
  BY DEF Due
<1>2. S \subseteq Concept
  BY <1>1 DEF Rows, Persistent
<1>3. Cardinality(S \ Rest(curriculum)) \in Nat
  <2>1. IsFiniteSet(S \ Rest(curriculum))
    BY <1>2, ConceptAssumption, FS_Subset
  <2> QED BY <2>1, FS_CardinalityType
<1>4. PICK n \in Nat : n = Cardinality(S \ Rest(curriculum))
  BY <1>3
<1>5. due \in [1..n -> Concept]
  BY <1>1, <1>2, <1>4 DEF SetToSeqs
<1>6. \A c \in Concept :
        /\ Module(0, RevisitId(c), c) \in Modules
        /\ Module(0, RevisitId(c), c).concept \in Named(Module(0, RevisitId(c), c).id)
  BY BoundAssumption DEF Module, Modules, ModuleId, RevisitId, Named
<1>7. DOMAIN due = 1..n /\ \A i \in 1..n : due[i] \in Concept
  BY <1>5
<1>8. Revisits(due) = [i \in 1..n |-> Module(0, RevisitId(due[i]), due[i])]
  BY <1>7 DEF Revisits
<1>9. Revisits(due) \in [1..n -> Modules]
  BY <1>6, <1>7, <1>8
<1>10. Revisits(due) \in Seq(Modules)
  BY <1>9
<1>11. \A i \in DOMAIN Revisits(due) :
         Revisits(due)[i].concept \in Named(Revisits(due)[i].id)
  BY <1>6, <1>7, <1>8
<1>12. due = <<>> => Revisits(due) = <<>>
  <2> SUFFICES ASSUME due = <<>> PROVE Revisits(due) = <<>>
    OBVIOUS
  <2>1. DOMAIN due = {}
    OBVIOUS
  <2>2. DOMAIN Revisits(due) = {}
    BY <2>1 DEF Revisits
  <2>3. DOMAIN Revisits(due) = 1..Len(Revisits(due)) /\ Len(Revisits(due)) \in Nat
    BY <1>10, LenProperties
  <2>4. Len(Revisits(due)) = 0
    BY <2>2, <2>3
  <2> QED BY <1>10, <2>4, EmptySeq
<1> QED BY <1>10, <1>11, <1>12

\* A plan has modules, each with an id of its own.
LEMMA PlanTyped ==
  ASSUME NEW p \in 0..MaxPlans, NEW concepts \in {Plan, Remedy}
  PROVE  /\ BuildModules(p, concepts) \in Seq(Modules)
         /\ WellNamed(BuildModules(p, concepts))
<1>1. concepts \in Seq(Concept) /\ Plan \in Seq(Concept) /\ Remedy \in Seq(Concept)
  BY PlanAssumption
<1>2. /\ Len(concepts) \in Nat /\ DOMAIN concepts = 1..Len(concepts)
      /\ \A i \in 1..Len(concepts) : concepts[i] \in Concept
      /\ 1..Len(concepts) \subseteq 1..Len(Plan) + Len(Remedy)
  <2>1. Len(Plan) \in Nat /\ Len(Remedy) \in Nat
    BY <1>1
  <2>2. Len(concepts) = Len(Plan) \/ Len(concepts) = Len(Remedy)
    OBVIOUS
  <2> QED BY <1>1, <2>1, <2>2
<1>3. \A i \in 1..Len(concepts) :
        /\ Module(p, <<"m", i>>, concepts[i]) \in Modules
        /\ Module(p, <<"m", i>>, concepts[i]).id = <<"m", i>>
        /\ Module(p, <<"m", i>>, concepts[i]).concept = concepts[i]
  BY <1>2 DEF Module, Modules, ModuleId
<1>4. BuildModules(p, concepts) =
        [i \in 1..Len(concepts) |-> Module(p, <<"m", i>>, concepts[i])]
  BY <1>2 DEF BuildModules
<1>5. BuildModules(p, concepts) \in [1..Len(concepts) -> Modules]
  BY <1>3, <1>4
<1>6. BuildModules(p, concepts) \in Seq(Modules)
  BY <1>2, <1>5
<1>7. WellNamed(BuildModules(p, concepts))
  <2>1. \A i \in DOMAIN BuildModules(p, concepts) :
          /\ i \in 1..Len(concepts)
          /\ BuildModules(p, concepts)[i].id = <<"m", i>>
          /\ BuildModules(p, concepts)[i].concept = concepts[i]
    BY <1>3, <1>4
  <2>2. \A i \in DOMAIN BuildModules(p, concepts) :
          Named(BuildModules(p, concepts)[i].id) = {}
    BY <2>1 DEF Named
  <2> QED BY <2>1, <2>2 DEF WellNamed, Namesakes
<1> QED BY <1>6, <1>7

\* There is a module at the index of a curriculum that is not finished.
LEMMA AtTyped ==
  ASSUME NEW c \in Curriculum, ~Finished(c)
  PROVE  /\ c.current_index \in Nat /\ c.current_index + 1 \in DOMAIN c.modules
         /\ At(c) \in Modules /\ At(c).id \in ModuleId /\ At(c).concept \in Concept
<1>1. c.modules \in Seq(Modules) /\ c.current_index \in Nat
  BY DEF Curriculum
<1>2. c.current_index + 1 \in 1..Len(c.modules)
  BY <1>1, LenProperties DEF Finished
<1>3. c.current_index + 1 \in DOMAIN c.modules /\ At(c) \in Modules
  BY <1>1, <1>2, LenProperties DEF At
<1> QED BY <1>1, <1>3 DEF Modules

\* What is on the list of a curriculum is a module.
LEMMA ListTyped ==
  ASSUME NEW c \in Curriculum, NEW i \in DOMAIN c.modules
  PROVE  c.modules[i] \in Modules /\ c.modules[i].id \in ModuleId
<1>1. c.modules \in Seq(Modules)
  BY DEF Curriculum
<1>2. c.modules[i] \in Modules
  BY <1>1, LenProperties
<1> QED BY <1>2 DEF Modules

\* A list of no modules is a curriculum, and finished.
LEMMA NoneTyped == NoCurriculum \in Curriculum /\ NoCurriculum.modules = <<>>
<1>1. <<>> \in Seq(Modules)
  BY EmptySeq
<1> QED BY <1>1 DEF NoCurriculum, Curriculum

\* The curriculum in the state is one.
LEMMA StateTyped ==
  ASSUME TypeOK
  PROVE  /\ StateCurriculum \in Curriculum
         /\ CurrentModule # Unknown => CurrentModule \in Modules
<1>1. StateCurriculum \in Curriculum
  BY DEF StateCurriculum, TypeOK
<1> QED BY <1>1, AtTyped DEF CurrentModule

-----------------------------------------------------------------------------
(* Types *)

Marks == [Concept -> Score \cup {Unknown}]

\* What is in memory, when it is all gone.
LEMMA ForgetTyped ==
  ASSUME Forget
  PROVE  /\ curriculum' \in Curriculum /\ rebuilt' = <<>>
         /\ concept_mastery' \in Marks /\ reteach_count' \in Nat
         /\ doubt_counts' \in [Concept -> Nat] /\ content' \in [ModuleId -> SUBSET Concept]
         /\ completed' \subseteq ModuleId /\ modules_done' \in 0..ModulesPerSession
         /\ report' \in [score : Score, hint : Hint]
         /\ content' = [id \in ModuleId |-> {}] /\ earned' = {}
<1>1. NoReport \in [score : Score, hint : Hint]
  BY DEF NoReport, Score, Hint
<1>2. 0 \in 0..ModulesPerSession
  BY BoundAssumption
<1> QED BY <1>1, <1>2, NoneTyped DEF Forget, Marks, NoDoubts

\* A session begins with what is stored.
LEMMA StartTyped ==
  ASSUME BaseInv, Start
  PROVE  BaseInv'
<1>1. TypeOK
  BY DEF BaseInv
<1>2. curriculum' \in Curriculum
  <2>1. CASE active = 0
    BY <2>1, NoneTyped DEF Start
  <2>2. CASE active # 0
    <3>1. curricula[active] \in Curriculum
      BY <1>1, <2>2 DEF TypeOK
    <3>2. Loaded(active) \in Curriculum
      BY <3>1 DEF Loaded, Curriculum
    <3> QED BY <2>2, <3>2 DEF Start
  <2> QED BY <2>1, <2>2
<1>3. NoReport \in [score : Score, hint : Hint] /\ 0 \in 0..ModulesPerSession
  BY BoundAssumption DEF NoReport, Score, Hint
<1>4. pc' \in Place /\ ~Working'
  BY DEF Start, Goto, FirstStep, Place, Working
<1>5. session' \in 0..MaxSessions
  BY <1>1, BoundAssumption DEF Start, TypeOK
<1>6. /\ rebuilt' = <<>> /\ content' = [id \in ModuleId |-> {}] /\ earned' = {}
      /\ completed' = {} /\ modules_done' = 0 /\ report' = NoReport
      /\ doubt_counts' = [c \in Concept |-> 0]
      /\ concept_mastery' = mastery /\ reteach_count' = reteach_stored
      /\ UNCHANGED <<tables, rounds, passed, shifted, faults>>
  BY DEF Start, NoDoubts
<1>7. TypeOK'
  BY <1>1, <1>2, <1>3, <1>5, <1>6 DEF TypeOK, tables
<1>8. Room'
  BY DEF Start, Goto, FirstStep, Room
<1> QED BY <1>4, <1>6, <1>7, <1>8 DEF BaseInv, Blank

\* Revisits are put in, a plan is deactivated.
LEMMA OpeningTyped ==
  ASSUME BaseInv, CheckDoubts \/ Deactivate
  PROVE  BaseInv'
<1>1. TypeOK
  BY DEF BaseInv
<1>2. CASE CheckDoubts
  <2>1. curriculum' \in Curriculum
    <3>1. \/ \E due \in Due : curriculum' = InsertAll(curriculum, Revisits(due))
          \/ UNCHANGED curriculum
      BY <1>2 DEF CheckDoubts
    <3>2. \A due \in Due : InsertAll(curriculum, Revisits(due)) \in Curriculum
      BY <1>1, RevisitsTyped, Inserted DEF TypeOK
    <3> QED BY <1>1, <3>1, <3>2 DEF TypeOK
  <2>2. faults' \in 0..MaxFaults
    <3>1. faults' = faults \/ (faults < MaxFaults /\ faults' = faults + 1)
      BY <1>2 DEF CheckDoubts, Fault
    <3> QED BY <1>1, <3>1, BoundAssumption DEF TypeOK
  <2>3. /\ pc' = "module"
        /\ UNCHANGED <<tables, session, rounds, rebuilt, student, tally, report>>
    BY <1>2 DEF CheckDoubts, Goto
  <2>4. TypeOK'
    BY <1>1, <2>1, <2>2, <2>3 DEF TypeOK, tables, student, tally
  <2>5. pc' \in Place /\ ~Working' /\ Blank' /\ Room'
    BY <2>3 DEF Place, Working, Blank, Room
  <2> QED BY <2>4, <2>5 DEF BaseInv
<1>3. CASE Deactivate
  <2>1. /\ active' = 0 /\ pc \in {"setup", "escalating"}
        /\ pc' = IF pc = "setup" THEN "creating" ELSE "replacing"
        /\ UNCHANGED <<curricula, mastery, reteach_stored, doubt_log, session, rounds,
                       path, student, tally, report, shifted, faults>>
    BY <1>3 DEF Deactivate, Goto
  <2>2. TypeOK'
    BY <1>1, <2>1 DEF TypeOK, path, student, tally
  <2>3. pc' \in Place
    BY <2>1 DEF Place
  <2>4. Working' => MayTeach'
    <3>1. Working' => pc = "escalating"
      BY <2>1 DEF Working
    <3>2. MayTeach => MayTeach'
      BY <2>1 DEF MayTeach, Finished, path, tally
    <3> QED BY <3>1, <3>2 DEF BaseInv, Working
  <2>5. Blank'
    BY <2>1 DEF BaseInv, Blank, path, student, tally
  <2>6. Room'
    BY <1>3, <2>1 DEF Deactivate, Room
  <2> QED BY <2>2, <2>3, <2>4, <2>5, <2>6 DEF BaseInv
<1> QED BY <1>2, <1>3

\* What replaces a list from the index on is a list of modules.
LEMMA ReplacedTyped ==
  ASSUME NEW c \in Curriculum, ~Finished(c), NEW new \in Seq(Modules)
  PROVE  [c EXCEPT !.modules = SubSeq(@, 1, c.current_index) \o new] \in Curriculum
<1>1. c.modules \in Seq(Modules) /\ c.current_index \in Nat
  BY DEF Curriculum
<1>2. \A i \in 1..c.current_index : c.modules[i] \in Modules
  BY <1>1 DEF Finished
<1>3. SubSeq(c.modules, 1, c.current_index) \in Seq(Modules)
  BY <1>1, <1>2, SubSeqProperties
<1>4. SubSeq(c.modules, 1, c.current_index) \o new \in Seq(Modules)
  BY <1>3, ConcatProperties
<1> QED BY <1>4 DEF Curriculum

\* A plan is stored, the first one or one that replaces what is left.
LEMMA PlansTyped ==
  ASSUME BaseInv, CreatePlan \/ ReplacePlan
  PROVE  BaseInv'
<1>1. TypeOK
  BY DEF BaseInv
<1>2. Len(curricula) + 1 \in 0..MaxPlans
  <2>1. Len(curricula) < MaxPlans
    BY DEF BaseInv, Room, CreatePlan, ReplacePlan
  <2> QED BY <1>1, <2>1, BoundAssumption DEF TypeOK
<1>3. ASSUME NEW concepts \in {Plan, Remedy}, Stored(concepts)
      PROVE  /\ curricula' \in Seq(Curriculum) /\ Len(curricula') = Len(curricula) + 1
             /\ active' \in 0..Len(curricula')
             /\ BuildModules(Len(curricula) + 1, concepts) \in Seq(Modules)
             /\ [modules |-> BuildModules(Len(curricula) + 1, concepts),
                 current_index |-> 0] \in Curriculum
  <2>1. PICK ms : ms = BuildModules(Len(curricula) + 1, concepts)
    OBVIOUS
  <2>2. ms \in Seq(Modules)
    BY <1>2, <2>1, PlanTyped
  <2>3. [modules |-> ms, current_index |-> 0] \in Curriculum
    BY <2>2 DEF Curriculum
  <2>4. curricula' = Append(curricula, [modules |-> ms, current_index |-> 0])
    BY <1>3, <2>1 DEF Stored
  <2>5. curricula' \in Seq(Curriculum) /\ Len(curricula') = Len(curricula) + 1
    BY <1>1, <2>3, <2>4, AppendProperties DEF TypeOK
  <2>6. active' \in 0..Len(curricula')
    BY <1>1, <1>3, <2>5 DEF Stored, TypeOK
  <2> QED BY <2>1, <2>2, <2>3, <2>5, <2>6
<1>4. CASE CreatePlan
  <2>1. Stored(Plan)
    BY <1>4 DEF CreatePlan
  <2>2. curriculum' \in Curriculum
    BY <1>3, <1>4, <2>1 DEF CreatePlan
  <2>3. /\ pc' = "module"
        /\ UNCHANGED <<mastery, reteach_stored, doubt_log>>
        /\ UNCHANGED <<session, rounds, rebuilt, student, tally, report, shifted, faults>>
    BY <1>4 DEF CreatePlan, Stored, Goto
  <2>4. curricula' \in Seq(Curriculum) /\ Len(curricula') <= MaxPlans /\ active' \in 0..Len(curricula')
    BY <1>2, <1>3, <2>1
  <2>5. TypeOK'
    BY <1>1, <2>2, <2>3, <2>4 DEF TypeOK, student, tally
  <2>6. pc' \in Place /\ ~Working' /\ Blank' /\ Room'
    BY <2>3 DEF Place, Working, Blank, Room
  <2> QED BY <2>5, <2>6 DEF BaseInv
<1>5. CASE ReplacePlan
  <2>1. Stored(Remedy) /\ pc = "replacing"
    BY <1>5 DEF ReplacePlan
  <2>2. PICK new : new = BuildModules(Len(curricula) + 1, Remedy)
    OBVIOUS
  <2>3. new \in Seq(Modules) /\ [modules |-> new, current_index |-> 0] \in Curriculum
    BY <1>3, <2>1, <2>2
  <2>4. /\ rebuilt' = <<[modules |-> new, current_index |-> 0]>>
        /\ curriculum' = [curriculum EXCEPT
             !.modules = SubSeq(@, 1, curriculum.current_index) \o new]
    BY <1>5, <2>2 DEF ReplacePlan
  <2>5. rebuilt'[1] \in Curriculum
    BY <2>3, <2>4
  <2>6. curriculum' \in Curriculum
    <3>1. ~Finished(curriculum) /\ curriculum \in Curriculum
      BY <1>1, <2>1 DEF BaseInv, Working, MayTeach, TypeOK
    <3> QED BY <2>3, <2>4, <3>1, ReplacedTyped
  <2>7. /\ pc' \in {"module", "ending"}
        /\ UNCHANGED <<mastery, reteach_stored, doubt_log>>
        /\ UNCHANGED <<session, rounds, student, tally, report, shifted, faults>>
    BY <1>5 DEF ReplacePlan, Stored, Onward, Goto
  <2>8. curricula' \in Seq(Curriculum) /\ Len(curricula') <= MaxPlans /\ active' \in 0..Len(curricula')
    BY <1>2, <1>3, <2>1
  <2>9. TypeOK'
    BY <1>1, <2>5, <2>6, <2>7, <2>8 DEF TypeOK, student, tally
  <2>10. pc' \in Place /\ ~Working' /\ Blank' /\ Room'
    BY <2>7 DEF Place, Working, Blank, Room
  <2> QED BY <2>9, <2>10 DEF BaseInv
<1> QED BY <1>4, <1>5

\* The module the loop works on goes on the list of completed ones.
LEMMA CompleteTyped ==
  ASSUME TypeOK, MayTeach, Complete
  PROVE  /\ curriculum' \in Curriculum /\ curriculum'.modules = curriculum.modules
         /\ curriculum'.current_index = curriculum.current_index + 1
         /\ completed' \subseteq ModuleId
         /\ modules_done' \in 0..ModulesPerSession
<1>1. curriculum \in Curriculum /\ ~Finished(curriculum)
  BY DEF TypeOK, MayTeach
<1>2. At(curriculum).id \in ModuleId /\ curriculum.current_index \in Nat
  BY <1>1, AtTyped
<1>3. curriculum' = [curriculum EXCEPT !.current_index = curriculum.current_index + 1]
  BY DEF Complete
<1>4. /\ curriculum' \in Curriculum /\ curriculum'.modules = curriculum.modules
      /\ curriculum'.current_index = curriculum.current_index + 1
  BY <1>1, <1>2, <1>3 DEF Curriculum
<1>5. completed' \subseteq ModuleId
  BY <1>2 DEF Complete, TypeOK
<1>6. modules_done' \in 0..ModulesPerSession
  <2>1. modules_done' = modules_done + 1 /\ modules_done < ModulesPerSession
    BY DEF Complete, MayTeach
  <2> QED BY <2>1, BoundAssumption DEF TypeOK
<1> QED BY <1>4, <1>5, <1>6

\* A fault is counted within its bound.
LEMMA FaultTyped ==
  ASSUME TypeOK, Fault \/ UNCHANGED faults
  PROVE  faults' \in 0..MaxFaults
<1>1. faults' = faults \/ (faults < MaxFaults /\ faults' = faults + 1)
  BY DEF Fault
<1> QED BY <1>1, BoundAssumption DEF TypeOK

\* A build that fails ends the session, or skips the concept.
LEMMA BuildFailsTyped ==
  ASSUME BaseInv, BuildFails
  PROVE  BaseInv'
<1>1. TypeOK
  BY DEF BaseInv
<1>2. /\ pc \in {"setup", "creating", "escalating", "replacing"}
      /\ UNCHANGED <<tables, session, rounds, shifted>>
  BY DEF BuildFails
<1>3. faults' \in 0..MaxFaults
  <2>1. Fault \/ UNCHANGED faults
    BY DEF BuildFails
  <2> QED BY <1>1, <2>1, FaultTyped
<1>4. CASE pc \in {"setup", "creating"}
  <2>1. Forget /\ pc' = "lost"
    BY <1>4 DEF BuildFails, Goto
  <2>2. TypeOK'
    BY <1>1, <1>2, <1>3, <2>1, ForgetTyped DEF TypeOK, tables, Marks
  <2> QED BY <2>1, <2>2 DEF BaseInv, Place, Working, Blank, Room
<1>5. CASE pc \notin {"setup", "creating"}
  <2>1. /\ Complete /\ pc' \in {"module", "ending"} /\ UNCHANGED <<student, report>>
        /\ UNCHANGED rebuilt
    BY <1>5 DEF BuildFails, Onward, Goto, Complete
  <2>2. MayTeach
    BY <1>2, <1>5 DEF BaseInv, Working
  <2>3. TypeOK'
    BY <1>1, <1>2, <1>3, <2>1, <2>2, CompleteTyped DEF TypeOK, tables, student
  <2> QED BY <2>1, <2>3 DEF BaseInv, Place, Working, Blank, Room
<1> QED BY <1>4, <1>5

\* What is kept of a lesson is a set of concepts under the id of a module.
LEMMA TeachTyped ==
  ASSUME BaseInv, Teach
  PROVE  BaseInv'
<1>1. TypeOK /\ MayTeach
  BY DEF BaseInv, Teach
<1>2. At(curriculum).concept \in Concept
  BY <1>1, AtTyped DEF TypeOK, MayTeach
<1>3. PICK m : m = CurrentModule
  OBVIOUS
<1>4. m # Unknown => m.id \in ModuleId /\ m.concept \in Concept
  BY <1>1, <1>3, StateTyped DEF Modules
<1>5. PICK lesson \in Lessons(m) :
        /\ doubt_counts' = LogDoubts(m, lesson.doubts)
        /\ content' = Record(content, m,
              Taught(lesson, m) \cup MicroExample(doubt_counts', At(curriculum).concept))
  BY <1>3 DEF Teach
<1>6. Taught(lesson, m) \subseteq Concept
  BY <1>4, <1>5 DEF Taught, Lessons
<1>7. PICK micro : micro = MicroExample(doubt_counts', At(curriculum).concept)
  OBVIOUS
<1>8. micro \subseteq Concept
  BY <1>2, <1>7 DEF MicroExample
<1>9. content' \in [ModuleId -> SUBSET Concept]
  <2>1. content' = Record(content, m, Taught(lesson, m) \cup micro)
    BY <1>5, <1>7
  <2>2. content' = content \/
        content' = [content EXCEPT ![m.id] = content[m.id] \cup (Taught(lesson, m) \cup micro)]
    BY <1>1, <1>4, <2>1 DEF Record, TypeOK
  <2>3. m # Unknown => content[m.id] \in SUBSET Concept
    BY <1>1, <1>4 DEF TypeOK
  <2> QED BY <1>1, <1>4, <1>6, <1>8, <2>1, <2>2, <2>3 DEF TypeOK, Record
<1>10. doubt_counts' \in [Concept -> Nat]
  <2>1. lesson.doubts \in Nat /\ (lesson.doubts # 0 => m.concept \in Concept)
    BY <1>4, <1>5, BoundAssumption DEF Lessons
  <2>2. doubt_counts' = IF lesson.doubts = 0 THEN doubt_counts
                        ELSE [doubt_counts EXCEPT ![m.concept] = @ + lesson.doubts]
    BY <1>5 DEF LogDoubts
  <2> QED BY <1>1, <2>1, <2>2 DEF TypeOK
<1>11. rounds' \in 0..MaxRounds
  BY <1>1, BoundAssumption DEF Teach, TypeOK
<1>12. /\ pc' = "evaluating"
       /\ UNCHANGED <<tables, session, path, concept_mastery, reteach_count,
                      tally, report, shifted, faults>>
  BY DEF Teach, Goto
<1>13. TypeOK'
  BY <1>1, <1>9, <1>10, <1>11, <1>12 DEF TypeOK, tables, path, tally
<1>14. MayTeach'
  BY <1>1, <1>12 DEF MayTeach, Finished, path, tally
<1> QED BY <1>12, <1>13, <1>14 DEF BaseInv, Place, Working, Blank, Room

\* A mark is a mark.
LEMMA GradedTyped ==
  ASSUME TypeOK, NEW score \in Score
  PROVE  Graded(score) \in Marks
BY DEF TypeOK, Graded, Marks

\* An evaluation gives a report, and may mark the concept.
LEMMA EvaluateTyped ==
  ASSUME BaseInv, Evaluate \/ EvaluationFails \/ Adapt
  PROVE  BaseInv'
<1>1. TypeOK /\ MayTeach
  BY DEF BaseInv, Working, Evaluate, EvaluationFails, Adapt
<1>2. CASE Evaluate
  <2>1. report' \in [score : Score, hint : Hint]
    BY <1>2 DEF Evaluate, Reports
  <2>2. concept_mastery' \in Marks
    <3>1. PICK r : r = report'
      OBVIOUS
    <3>2. concept_mastery' = Graded(r.score) /\ r.score \in Score
      BY <1>2, <2>1, <3>1 DEF Evaluate
    <3> QED BY <1>1, <3>2, GradedTyped
  <2>3. /\ pc' = "adapting"
        /\ UNCHANGED <<tables, session, rounds, path, reteach_count, doubt_counts, content,
                       tally, shifted, faults>>
    BY <1>2 DEF Evaluate, Goto
  <2>4. TypeOK'
    BY <1>1, <2>1, <2>2, <2>3 DEF TypeOK, tables, path, tally, Marks
  <2>5. MayTeach'
    BY <1>1, <2>3 DEF MayTeach, Finished, path, tally
  <2> QED BY <2>3, <2>4, <2>5 DEF BaseInv, Place, Working, Blank, Room
<1>3. CASE EvaluationFails
  <2>1. report' \in [score : Score, hint : Hint]
    BY <1>3 DEF EvaluationFails, Score, Hint
  <2>2. concept_mastery' \in Marks
    <3>1. concept_mastery \in Marks
      BY <1>1 DEF TypeOK, Marks
    <3>2. concept_mastery' = concept_mastery
            \/ \E score \in Score : concept_mastery' = Graded(score)
      BY <1>3 DEF EvaluationFails
    <3> QED BY <1>1, <3>1, <3>2, GradedTyped
  <2>3. /\ pc' = "adapting" /\ Fault
        /\ UNCHANGED <<tables, session, rounds, path, reteach_count, doubt_counts, content,
                       tally, shifted>>
    BY <1>3 DEF EvaluationFails, Goto
  <2>4. faults' \in 0..MaxFaults
    BY <1>1, <2>3, FaultTyped
  <2>5. TypeOK'
    BY <1>1, <2>1, <2>2, <2>3, <2>4 DEF TypeOK, tables, path, tally, Marks
  <2>6. MayTeach'
    BY <1>1, <2>3 DEF MayTeach, Finished, path, tally
  <2> QED BY <2>3, <2>5, <2>6 DEF BaseInv, Place, Working, Blank, Room
<1>4. CASE Adapt
  <2>1. reteach_count' \in Nat
    <3>1. reteach_count \in Nat
      BY <1>1 DEF TypeOK
    <3> QED BY <1>4, <3>1 DEF Adapt, Decide
  <2>2. /\ pc' = "routing" /\ report' = NoReport
        /\ UNCHANGED <<tables, session, rounds, path, concept_mastery, doubt_counts, content,
                       tally, shifted, faults>>
    BY <1>4 DEF Adapt, Goto
  <2>3. NoReport \in [score : Score, hint : Hint]
    BY DEF NoReport, Score, Hint
  <2>4. TypeOK'
    BY <1>1, <2>1, <2>2, <2>3 DEF TypeOK, tables, path, tally
  <2>5. MayTeach'
    BY <1>1, <2>2 DEF MayTeach, Finished, path, tally
  <2> QED BY <2>2, <2>4, <2>5 DEF BaseInv, Place, Working, Blank, Room
<1> QED BY <1>2, <1>3, <1>4

\* The module a detour puts in.
LEMMA DetourTyped ==
  ASSUME NEW c \in Missing
  PROVE  /\ <<Module(0, DetourId(c), c)>> \in Seq(Modules)
         /\ c \in Named(Module(0, DetourId(c), c).id)
         /\ Module(0, DetourId(c), c).concept = c
         /\ c \in Concept
<1>1. c \in Concept
  BY ChoiceAssumption
<1>2. Module(0, DetourId(c), c) \in Modules
  BY <1>1, BoundAssumption DEF Module, DetourId, Modules, ModuleId
<1>3. /\ c \in Named(Module(0, DetourId(c), c).id)
      /\ Module(0, DetourId(c), c).concept = c
  BY <1>1 DEF Module, DetourId, Named
<1>4. \A m \in Modules : <<m>> \in Seq(Modules)
  OBVIOUS
<1> QED BY <1>1, <1>2, <1>3, <1>4

\* Where the loop goes after an action.
LEMMA RouteTyped ==
  ASSUME BaseInv, Forward \/ Reteach \/ Detour \/ Escalate \/ Hold \/ LoopEnds
  PROVE  BaseInv'
<1>1. TypeOK /\ (pc = "routing" => MayTeach)
  BY DEF BaseInv, Working
<1>2. CASE Forward
  <2>1. Complete /\ MayTeach
    BY <1>1, <1>2 DEF Forward
  <2>2. /\ pc' \in {"module", "ending"} /\ reteach_count' = 0 /\ UNCHANGED rebuilt
        /\ UNCHANGED <<tables, session, rounds, concept_mastery, doubt_counts, content,
                       report, shifted, faults>>
    BY <1>2 DEF Forward, Complete, Onward, Goto
  <2>3. TypeOK'
    BY <1>1, <2>1, <2>2, CompleteTyped DEF TypeOK, tables
  <2> QED BY <2>2, <2>3 DEF BaseInv, Place, Working, Blank, Room
<1>3. CASE Detour
  <2>1. PICK c \in Missing : curriculum' = Insert(curriculum, Module(0, DetourId(c), c))
    BY <1>3 DEF Detour
  <2>2. curriculum' \in Curriculum
    BY <1>1, <2>1, DetourTyped, Inserted DEF Insert, TypeOK
  <2>3. /\ pc' \in {"module", "ending"}
        /\ UNCHANGED <<tables, session, rounds, rebuilt, student, tally, report, faults>>
    BY <1>3 DEF Detour, Onward, Goto
  <2>4. TypeOK'
    BY <1>1, <2>2, <2>3 DEF TypeOK, tables, student, tally
  <2> QED BY <2>3, <2>4 DEF BaseInv, Place, Working, Blank, Room
<1>4. CASE Reteach \/ Escalate \/ Hold \/ LoopEnds
  <2>1. /\ pc' \in {"module", "ending", "escalating"}
        /\ pc' = "escalating" => pc = "routing"
        /\ UNCHANGED <<tables, session, rounds, path, student, tally, report, shifted, faults>>
    BY <1>4 DEF Reteach, Escalate, Hold, LoopEnds, Onward, Goto
  <2>2. TypeOK'
    BY <1>1, <2>1 DEF TypeOK, tables, path, student, tally
  <2>3. MayTeach => MayTeach'
    BY <2>1 DEF MayTeach, Finished, path, tally
  <2> QED BY <1>1, <2>1, <2>2, <2>3 DEF BaseInv, Place, Working, Blank, Room
<1> QED BY <1>2, <1>3, <1>4

\* What the tables take in at the end of a session.
LEMMA FlushTyped ==
  ASSUME TypeOK, NEW concepts, Flushed(concepts), WriteDoubts
  PROVE  mastery' \in Marks /\ doubt_log' \in [1..MaxSessions -> [Concept -> Nat]]
<1>1. mastery' \in Marks
  BY DEF TypeOK, Flushed, Marks
<1>2. doubt_log' \in [1..MaxSessions -> [Concept -> Nat]]
  <2>1. ASSUME session \in 1..MaxSessions
        PROVE  [c \in Concept |-> doubt_log[session][c] + doubt_counts[c]] \in [Concept -> Nat]
    <3>1. doubt_log[session] \in [Concept -> Nat] /\ doubt_counts \in [Concept -> Nat]
      BY <2>1 DEF TypeOK
    <3> QED BY <3>1
  <2> QED BY <2>1 DEF TypeOK, WriteDoubts
<1> QED BY <1>1, <1>2

\* The ways a session ends.
LEMMA EndTyped ==
  ASSUME BaseInv, SessionFails \/ EndSession \/ Shutdown \/ Lose
  PROVE  BaseInv'
<1>1. TypeOK
  BY DEF BaseInv
<1>2. CASE SessionFails \/ Lose
  <2>1. /\ pc' = "lost" /\ Forget
        /\ UNCHANGED <<tables, session, rounds, shifted>>
        /\ Fault \/ UNCHANGED faults
    BY <1>2 DEF SessionFails, Lose, Goto
  <2>2. faults' \in 0..MaxFaults
    BY <1>1, <2>1, FaultTyped
  <2>3. TypeOK'
    BY <1>1, <2>1, <2>2, ForgetTyped DEF TypeOK, tables, Marks
  <2> QED BY <2>1, <2>3 DEF BaseInv, Place, Working, Blank, Room
<1>3. CASE EndSession
  <2>1. /\ Flushed(CompletedConcepts) /\ reteach_stored' = reteach_count /\ WriteDoubts
        /\ pc' = "ended"
        /\ UNCHANGED <<curricula, active, session, rounds, path, student, tally,
                       report, shifted, faults>>
    BY <1>3 DEF EndSession, Goto
  <2>2. mastery' \in Marks /\ doubt_log' \in [1..MaxSessions -> [Concept -> Nat]]
    BY <1>1, <2>1, FlushTyped
  <2>3. TypeOK'
    BY <1>1, <2>1, <2>2 DEF TypeOK, path, student, tally, Marks
  <2> QED BY <2>1, <2>3 DEF BaseInv, Place, Working, Blank, Room
<1>4. CASE Shutdown
  <2>1. /\ Flushed(Concept) /\ reteach_stored' = reteach_count /\ WriteDoubts
        /\ pc' = "stopped" /\ Fault /\ Forget
        /\ UNCHANGED <<active, session, rounds, passed, shifted>>
    BY <1>4 DEF Shutdown, Goto
  <2>2. mastery' \in Marks /\ doubt_log' \in [1..MaxSessions -> [Concept -> Nat]]
    BY <1>1, <2>1, FlushTyped
  <2>3. faults' \in 0..MaxFaults
    BY <1>1, <2>1, FaultTyped
  <2>4. curricula' \in Seq(Curriculum) /\ Len(curricula') = Len(curricula)
    <3>1. CASE dirty /\ active # 0
      <4>1. PICK k : k = SavedIndex
        OBVIOUS
      <4>2. k \in Nat
        BY <1>1, <4>1, StateTyped DEF SavedIndex, Curriculum
      <4>3. active \in 1..Len(curricula) /\ curricula[active] \in Curriculum
        BY <1>1, <3>1 DEF TypeOK
      <4>4. [curricula[active] EXCEPT !.current_index = k] \in Curriculum
        BY <4>2, <4>3 DEF Curriculum
      <4>5. curricula' = [curricula EXCEPT ![active] =
                            [curricula[active] EXCEPT !.current_index = k]]
        BY <1>1, <1>4, <3>1, <4>1, <4>3 DEF Shutdown, TypeOK
      <4> QED BY <1>1, <4>3, <4>4, <4>5, ExceptSeq DEF TypeOK
    <3>2. CASE ~(dirty /\ active # 0)
      BY <1>1, <1>4, <3>2 DEF Shutdown, TypeOK
    <3> QED BY <3>1, <3>2
  <2>5. TypeOK'
    BY <1>1, <2>1, <2>2, <2>3, <2>4, ForgetTyped DEF TypeOK, Marks
  <2> QED BY <2>1, <2>5 DEF BaseInv, Place, Working, Blank, Room
<1> QED BY <1>2, <1>3, <1>4

\* Every step keeps the types.
LEMMA BaseInductive == BaseInv /\ [Next]_vars => BaseInv'
<1>1. BaseInv /\ UNCHANGED vars => BaseInv'
  BY DEF BaseInv, TypeOK, Working, MayTeach, Finished, Blank, Room, vars, tables, path,
         student, tally
<1> QED BY <1>1, StartTyped, OpeningTyped, PlansTyped, BuildFailsTyped, TeachTyped,
           EvaluateTyped, RouteTyped, EndTyped DEF Next

\* There is no plan and no session.
LEMMA BaseInit == Init => BaseInv
<1> SUFFICES ASSUME Init PROVE BaseInv
  OBVIOUS
<1>1. curricula \in Seq(Curriculum) /\ Len(curricula) = 0
  BY EmptySeq DEF Init
<1>2. NoReport \in [score : Score, hint : Hint]
  BY DEF NoReport, Score, Hint
<1>3. TypeOK
  BY <1>1, <1>2, NoneTyped, BoundAssumption DEF Init, TypeOK, NoDoubts
<1> QED BY <1>3 DEF Init, BaseInv, Place, Working, Blank, Room

\* The tables and the memory of a session hold values of their types.
THEOREM TypeCorrect == Spec => []BaseInv
BY BaseInit, BaseInductive, PTL DEF Spec

\* The third reteach never comes: below three in memory and in the table, over
\* all sessions (decide, save, load).
THEOREM EscalatesInTime == Spec => []EscalatedInTime
<1>1. Init => EscalatedInTime
  BY DEF Init, EscalatedInTime
<1>2. BaseInv /\ EscalatedInTime /\ [Next]_vars => EscalatedInTime'
  <2> SUFFICES ASSUME BaseInv, EscalatedInTime, [Next]_vars PROVE EscalatedInTime'
    OBVIOUS
  <2>1. reteach_count \in Nat
    BY DEF BaseInv, TypeOK
  <2>2. CASE Adapt
    BY <2>1, <2>2 DEF Adapt, Decide, EscalatedInTime, tables
  <2>3. CASE Start \/ CheckDoubts \/ Deactivate \/ CreatePlan \/ ReplacePlan \/ BuildFails
    BY <2>3 DEF Start, CheckDoubts, Deactivate, CreatePlan, ReplacePlan, BuildFails, Stored,
                Complete, Forget, EscalatedInTime, tables, student
  <2>4. CASE Teach \/ Evaluate \/ EvaluationFails \/ Forward \/ Reteach \/ Detour
    BY <2>4 DEF Teach, Evaluate, EvaluationFails, Forward, Reteach, Detour,
                EscalatedInTime, tables, student
  <2>5. CASE Escalate \/ Hold \/ LoopEnds \/ SessionFails \/ EndSession \/ Shutdown \/ Lose
    BY <2>5 DEF Escalate, Hold, LoopEnds, SessionFails, EndSession, Shutdown, Lose, Forget,
                EscalatedInTime, tables, student
  <2>6. CASE UNCHANGED vars
    BY <2>6 DEF vars, tables, student, EscalatedInTime
  <2> QED BY <2>2, <2>3, <2>4, <2>5, <2>6 DEF Next
<1> QED BY <1>1, <1>2, TypeCorrect, PTL DEF Spec

-----------------------------------------------------------------------------
(* The plans that are stored *)

\* A plan is stored after the others, and becomes the active one.
LEMMA StoredAfter ==
  ASSUME BaseInv, NEW concepts \in {Plan, Remedy}, Stored(concepts), Len(curricula) < MaxPlans
  PROVE  \A p \in DOMAIN curricula' :
           \/ p \in DOMAIN curricula /\ curricula'[p] = curricula[p]
           \/ /\ p = active'
              /\ curricula'[p].modules = BuildModules(Len(curricula) + 1, concepts)
              /\ curricula'[p].current_index = 0
              /\ WellNamed(BuildModules(Len(curricula) + 1, concepts))
<1>1. TypeOK /\ Len(curricula) + 1 \in 0..MaxPlans
  BY BoundAssumption DEF BaseInv, TypeOK
<1>2. PICK ms : ms = BuildModules(Len(curricula) + 1, concepts)
  OBVIOUS
<1>3. ms \in Seq(Modules) /\ WellNamed(ms)
  BY <1>1, <1>2, PlanTyped
<1>4. PICK new : new = [modules |-> ms, current_index |-> 0]
  OBVIOUS
<1>5. new \in Curriculum
  BY <1>3, <1>4 DEF Curriculum
<1>6. curricula' = Append(curricula, new) /\ active' = Len(curricula) + 1
  BY <1>2, <1>4 DEF Stored
<1>7. curricula \in Seq(Curriculum)
  BY <1>1 DEF TypeOK
<1>8. /\ curricula' \in Seq(Curriculum) /\ Len(curricula') = Len(curricula) + 1
      /\ \A i \in 1..Len(curricula) : curricula'[i] = curricula[i]
      /\ curricula'[Len(curricula) + 1] = new
  BY <1>5, <1>6, <1>7, AppendProperties
<1>9. /\ DOMAIN curricula = 1..Len(curricula) /\ Len(curricula) \in Nat
      /\ DOMAIN curricula' = 1..Len(curricula) + 1
  BY <1>7, <1>8, LenProperties
<1>10. \A p \in DOMAIN curricula' :
         p \in DOMAIN curricula \/ p = Len(curricula) + 1
  BY <1>9
<1> QED BY <1>2, <1>3, <1>4, <1>6, <1>8, <1>9, <1>10

\* The server saves an index, and no more of a plan.
LEMMA SavedPlans ==
  ASSUME BaseInv, Shutdown
  PROVE  \A p \in DOMAIN curricula' :
           /\ p \in DOMAIN curricula
           /\ curricula'[p].modules = curricula[p].modules
           /\ \/ curricula'[p].current_index = curricula[p].current_index
              \/ p = active /\ active # 0 /\ curricula'[p].current_index = SavedIndex
<1>1. TypeOK /\ curricula \in Seq(Curriculum)
  BY DEF BaseInv, TypeOK
<1>2. CASE dirty /\ active # 0
  <2>1. PICK k : k = SavedIndex
    OBVIOUS
  <2>2. active \in DOMAIN curricula /\ curricula[active] \in Curriculum
    BY <1>1, <1>2 DEF TypeOK
  <2>3. PICK new : new = [curricula[active] EXCEPT !.current_index = k]
    OBVIOUS
  <2>4. curricula' = [curricula EXCEPT ![active] = new]
    BY <1>2, <2>1, <2>2, <2>3 DEF Shutdown
  <2>5. new.modules = curricula[active].modules /\ new.current_index = k
    BY <2>2, <2>3 DEF Curriculum
  <2>6. /\ DOMAIN curricula' = DOMAIN curricula /\ curricula'[active] = new
        /\ \A p \in DOMAIN curricula \ {active} : curricula'[p] = curricula[p]
    BY <2>2, <2>4
  <2> QED BY <1>2, <2>1, <2>5, <2>6
<1>3. CASE ~(dirty /\ active # 0)
  <2>1. UNCHANGED curricula
    BY <1>3 DEF Shutdown
  <2> QED BY <2>1
<1> QED BY <1>2, <1>3

-----------------------------------------------------------------------------
(* Questions about the lesson *)

\* Modules with an id that names their concept can be put in.
LEMMA NamedInserted ==
  ASSUME NEW c \in Curriculum, NEW ms \in Seq(Modules), WellNamed(c.modules),
         \A i \in DOMAIN ms : ms[i].concept \in Named(ms[i].id)
  PROVE  WellNamed(InsertAll(c, ms).modules)
<1>1. PICK t : t = InsertAll(c, ms).modules
  OBVIOUS
<1>2. \A i \in DOMAIN t :
        \/ \E j \in DOMAIN c.modules : t[i] = c.modules[j]
        \/ t[i].concept \in Named(t[i].id)
  <2>1. \A i \in DOMAIN t :
          \/ \E j \in DOMAIN c.modules : t[i] = c.modules[j]
          \/ \E j \in DOMAIN ms : t[i] = ms[j]
    BY <1>1, Inserted
  <2> QED BY <2>1
<1>3. ASSUME NEW i \in DOMAIN t, Named(t[i].id) # {}
      PROVE  t[i].concept \in Named(t[i].id)
  BY <1>2, <1>3 DEF WellNamed
<1>4. ASSUME NEW i \in DOMAIN t, NEW j \in DOMAIN t, t[i].id = t[j].id
      PROVE  t[i].concept \in Namesakes(t[j])
  <2>1. CASE Named(t[i].id) # {}
    <3>1. t[i].concept \in Named(t[j].id)
      BY <1>3, <1>4, <2>1
    <3> QED BY <3>1 DEF Namesakes
  <2>2. CASE Named(t[i].id) = {}
    <3>1. PICK k \in DOMAIN c.modules : t[i] = c.modules[k]
      BY <1>2, <2>2
    <3>2. PICK l \in DOMAIN c.modules : t[j] = c.modules[l]
      BY <1>2, <1>4, <2>2
    <3> QED BY <1>4, <3>1, <3>2 DEF WellNamed
  <2> QED BY <2>1, <2>2
<1> QED BY <1>1, <1>3, <1>4 DEF WellNamed

\* What is kept apart stays so when such modules come in.
LEMMA FitInserted ==
  ASSUME BaseInv, FitInv, UNCHANGED <<curricula, rebuilt, content>>,
         NEW ms \in Seq(Modules), curriculum' = InsertAll(curriculum, ms),
         \A i \in DOMAIN ms : ms[i].concept \in Named(ms[i].id)
  PROVE  FitInv'
<1>1. curriculum \in Curriculum
  BY DEF BaseInv, TypeOK
<1>2. ASSUME rebuilt = <<>> PROVE WellNamed(curriculum'.modules) /\ KeptApart'
  <2>1. WellNamed(curriculum.modules) /\ KeptApart
    BY <1>2 DEF FitInv
  <2>2. PICK t : t = InsertAll(curriculum, ms).modules
    OBVIOUS
  <2>3. curriculum'.modules = t /\ WellNamed(t)
    BY <1>1, <2>1, <2>2, NamedInserted
  <2>4. \A i \in DOMAIN t : \/ \E j \in DOMAIN curriculum.modules : t[i] = curriculum.modules[j]
                            \/ \E j \in DOMAIN ms : t[i] = ms[j]
    BY <1>1, <2>2, Inserted
  <2>5. ASSUME NEW i \in DOMAIN t PROVE content[t[i].id] \subseteq Namesakes(t[i])
    <3>1. CASE \E j \in DOMAIN curriculum.modules : t[i] = curriculum.modules[j]
      BY <2>1, <3>1 DEF KeptApart
    <3>2. CASE \E j \in DOMAIN ms : t[i] = ms[j]
      <4>1. PICK j \in DOMAIN ms : t[i] = ms[j]
        BY <3>2
      <4>2. ms[j] \in Modules
        OBVIOUS
      <4>3. t[i].id \in ModuleId /\ Named(t[i].id) # {}
        BY <4>1, <4>2 DEF Modules
      <4>4. content[t[i].id] \subseteq Named(t[i].id)
        BY <2>1, <4>3 DEF KeptApart
      <4> QED BY <4>4 DEF Namesakes
    <3> QED BY <2>4, <3>1, <3>2
  <2>6. \A id \in ModuleId : Named(id) # {} => content[id] \subseteq Named(id)
    BY <2>1 DEF KeptApart
  <2> QED BY <2>3, <2>5, <2>6 DEF KeptApart
<1> QED BY <1>2 DEF FitInv

\* Where nothing is taught and no list of modules changes, nothing mixes.
LEMMA FitQuiet ==
  ASSUME FitInv, UNCHANGED <<curricula, rebuilt, content>>,
         curriculum'.modules = curriculum.modules
  PROVE  FitInv'
BY DEF FitInv, KeptApart

\* Where the memory is blank, nothing mixes either.
LEMMA FitBlank ==
  ASSUME FitInv,
         \A p \in DOMAIN curricula' :
           p \in DOMAIN curricula /\ curricula'[p].modules = curricula[p].modules,
         content' = [id \in ModuleId |-> {}],
         WellNamed(curriculum'.modules), curriculum' \in Curriculum
  PROVE  FitInv'
<1>1. \A p \in DOMAIN curricula' : WellNamed(curricula'[p].modules)
  BY DEF FitInv
<1>2. \A i \in DOMAIN curriculum'.modules : curriculum'.modules[i].id \in ModuleId
  <2>1. PICK c \in Curriculum : c = curriculum'
    OBVIOUS
  <2> QED BY <2>1, ListTyped
<1>3. \A id \in ModuleId : content'[id] = {}
  OBVIOUS
<1>4. KeptApart'
  BY <1>2, <1>3 DEF KeptApart
<1> QED BY <1>1, <1>4 DEF FitInv

\* A list without modules has no two of the same id.
LEMMA NoneNamed == WellNamed(NoCurriculum.modules)
<1>1. DOMAIN NoCurriculum.modules = {}
  BY NoneTyped
<1> QED BY <1>1 DEF WellNamed

\* A lesson is kept under the module that is taught.
LEMMA FitTeach ==
  ASSUME BaseInv, FitInv, Teach
  PROVE  FitInv'
<1>1. TypeOK /\ MayTeach /\ UNCHANGED <<curricula, curriculum, rebuilt>>
  BY DEF BaseInv, Teach, tables, path
<1>2. ASSUME rebuilt = <<>> PROVE WellNamed(curriculum.modules) /\ KeptApart'
  <2>1. WellNamed(curriculum.modules) /\ KeptApart
    BY <1>2 DEF FitInv
  <2>2. PICK k : k = curriculum.current_index + 1
    OBVIOUS
  <2>3. /\ k \in DOMAIN curriculum.modules /\ At(curriculum) = curriculum.modules[k]
        /\ At(curriculum).id \in ModuleId
    BY <1>1, <2>2, AtTyped DEF At, TypeOK, MayTeach
  <2>4. PICK m : m = At(curriculum)
    OBVIOUS
  <2>5. CurrentModule = m
    BY <1>1, <1>2, <2>4 DEF CurrentModule, StateCurriculum, MayTeach
  <2>6. PICK lesson \in Lessons(m) :
          content' = Record(content, m, Taught(lesson, m) \cup MicroExample(doubt_counts', m.concept))
    BY <2>4, <2>5 DEF Teach
  <2>7. PICK said : said = Taught(lesson, m) \cup MicroExample(doubt_counts', m.concept)
    OBVIOUS
  <2>8. said \subseteq {m.concept}
    BY <2>7 DEF Taught, MicroExample
  <2>9. content' = content \/ content' = [content EXCEPT ![m.id] = content[m.id] \cup said]
    BY <1>1, <2>6, <2>7 DEF Record
  <2>10. content \in [ModuleId -> SUBSET Concept] /\ m.id \in ModuleId
    BY <1>1, <2>3, <2>4 DEF TypeOK
  <2>11. ASSUME NEW i \in DOMAIN curriculum.modules
         PROVE  content'[curriculum.modules[i].id] \subseteq Namesakes(curriculum.modules[i])
    <3>1. content[curriculum.modules[i].id] \subseteq Namesakes(curriculum.modules[i])
      BY <2>1 DEF KeptApart
    <3>2. CASE curriculum.modules[i].id = m.id
      <4>1. m.concept \in Namesakes(curriculum.modules[i])
        BY <2>1, <2>3, <2>4, <3>2 DEF WellNamed
      <4> QED BY <2>8, <2>9, <2>10, <3>1, <3>2, <4>1
    <3>3. CASE curriculum.modules[i].id # m.id
      <4>1. curriculum.modules[i].id \in ModuleId
        BY <1>1, ListTyped DEF TypeOK
      <4> QED BY <2>9, <2>10, <3>1, <3>3, <4>1
    <3> QED BY <3>2, <3>3
  <2>12. ASSUME NEW id \in ModuleId, Named(id) # {}
         PROVE  content'[id] \subseteq Named(id)
    <3>1. content[id] \subseteq Named(id)
      BY <2>1, <2>12 DEF KeptApart
    <3>2. CASE m.id = id
      <4>1. m.concept \in Named(id)
        BY <2>1, <2>3, <2>4, <2>12, <3>2 DEF WellNamed
      <4> QED BY <2>8, <2>9, <2>10, <3>1, <3>2, <4>1
    <3>3. CASE m.id # id
      BY <2>9, <2>10, <3>1, <3>3
    <3> QED BY <3>2, <3>3
  <2> QED BY <1>1, <2>1, <2>11, <2>12 DEF KeptApart
<1> QED BY <1>1, <1>2 DEF FitInv

\* Every step keeps what is taught apart.
LEMMA FitInductive == BaseInv /\ FitInv /\ BaseInv' /\ [Next]_vars => FitInv'
<1> SUFFICES ASSUME BaseInv, FitInv, BaseInv', [Next]_vars PROVE FitInv'
  OBVIOUS
<1>0. TypeOK /\ curriculum \in Curriculum /\ curriculum' \in Curriculum
  BY DEF BaseInv, TypeOK
<1>1. CASE Start
  <2>1. content' = [id \in ModuleId |-> {}] /\ UNCHANGED curricula
    BY <1>1 DEF Start, tables
  <2>2. WellNamed(curriculum'.modules)
    <3>1. CASE active = 0
      BY <1>1, <3>1, NoneNamed DEF Start
    <3>2. CASE active # 0
      <4>1. active \in DOMAIN curricula
        BY <1>0, <3>2, LenProperties DEF TypeOK
      <4>2. curriculum'.modules = curricula[active].modules
        BY <1>1, <3>2 DEF Start, Loaded
      <4> QED BY <4>1, <4>2 DEF FitInv
    <3> QED BY <3>1, <3>2
  <2> QED BY <1>0, <2>1, <2>2, FitBlank
<1>2. CASE CheckDoubts
  <2>1. UNCHANGED <<curricula, rebuilt, content>>
    BY <1>2 DEF CheckDoubts, tables, student
  <2>2. CASE UNCHANGED curriculum
    BY <2>1, <2>2, FitQuiet
  <2>3. ASSUME NEW due \in Due, curriculum' = InsertAll(curriculum, Revisits(due))
        PROVE  FitInv'
    BY <2>1, <2>3, RevisitsTyped, FitInserted
  <2> QED BY <1>2, <2>2, <2>3 DEF CheckDoubts
<1>3. CASE CreatePlan
  <2>1. pc = "creating" /\ Stored(Plan) /\ Len(curricula) < MaxPlans
    BY <1>3 DEF CreatePlan, BaseInv, Room
  <2>2. PICK ms : ms = BuildModules(Len(curricula) + 1, Plan)
    OBVIOUS
  <2>3. WellNamed(ms)
    <3>1. Len(curricula) + 1 \in 0..MaxPlans
      BY <1>0, <2>1, BoundAssumption DEF TypeOK
    <3> QED BY <2>2, <3>1, PlanTyped
  <2>4. curriculum'.modules = ms
    BY <1>3, <2>2 DEF CreatePlan
  <2>5. content' = [id \in ModuleId |-> {}]
    BY <1>3 DEF CreatePlan, student, BaseInv, Blank
  <2>6. \A i \in DOMAIN curriculum'.modules : curriculum'.modules[i].id \in ModuleId
    <3>1. PICK c \in Curriculum : c = curriculum'
      BY <1>0
    <3> QED BY <3>1, ListTyped
  <2>7. KeptApart'
    <3>1. \A id \in ModuleId : content'[id] = {}
      BY <2>5
    <3> QED BY <2>6, <3>1 DEF KeptApart
  <2>8. \A p \in DOMAIN curricula' : WellNamed(curricula'[p].modules)
    BY <2>1, <2>2, <2>3, StoredAfter DEF FitInv
  <2> QED BY <2>3, <2>4, <2>7, <2>8 DEF FitInv
<1>4. CASE ReplacePlan
  <2>1. Stored(Remedy) /\ Len(curricula) < MaxPlans
    BY <1>4 DEF ReplacePlan, BaseInv, Room
  <2>2. \A p \in DOMAIN curricula' : WellNamed(curricula'[p].modules)
    BY <2>1, StoredAfter DEF FitInv
  <2>3. rebuilt' # <<>>
    <3>1. \E r : rebuilt' = <<r>>
      BY <1>4 DEF ReplacePlan
    <3> QED BY <3>1
  <2> QED BY <2>2, <2>3 DEF FitInv
<1>5. CASE Teach
  BY <1>5, FitTeach
<1>6. CASE Detour
  <2>1. PICK c \in Missing : curriculum' = InsertAll(curriculum, <<Module(0, DetourId(c), c)>>)
    BY <1>6 DEF Detour, Insert
  <2>2. PICK m : m = Module(0, DetourId(c), c)
    OBVIOUS
  <2>3. <<m>> \in Seq(Modules) /\ m.concept \in Named(m.id)
    BY <2>2, DetourTyped
  <2>4. \A i \in DOMAIN <<m>> : <<m>>[i].concept \in Named(<<m>>[i].id)
    BY <2>3
  <2>5. UNCHANGED <<curricula, rebuilt, content>>
    BY <1>6 DEF Detour, tables, student
  <2> QED BY <2>1, <2>2, <2>3, <2>4, <2>5, FitInserted
<1>7. CASE Deactivate \/ Evaluate \/ EvaluationFails \/ Adapt \/ Reteach \/ Escalate \/ Hold
           \/ LoopEnds \/ EndSession \/ UNCHANGED vars
  <2>1. UNCHANGED <<curricula, rebuilt, content, curriculum>>
    BY <1>7 DEF Deactivate, Evaluate, EvaluationFails, Adapt, Reteach, Escalate, Hold,
                LoopEnds, EndSession, vars, tables, path, student
  <2> QED BY <2>1, FitQuiet
<1>8. CASE Forward \/ (BuildFails /\ pc \notin {"setup", "creating"})
  <2>1. Complete /\ UNCHANGED <<curricula, content>>
    BY <1>8 DEF Forward, BuildFails, tables, student
  <2>2. curriculum'.modules = curriculum.modules /\ UNCHANGED rebuilt
    BY <1>0, <2>1 DEF Complete, Curriculum
  <2> QED BY <2>1, <2>2, FitQuiet
<1>9. CASE SessionFails \/ Lose \/ Shutdown \/ (BuildFails /\ pc \in {"setup", "creating"})
  <2>1. Forget
    BY <1>9 DEF SessionFails, Lose, Shutdown, BuildFails
  <2>2. content' = [id \in ModuleId |-> {}] /\ curriculum' = NoCurriculum
    BY <2>1 DEF Forget
  <2>3. WellNamed(curriculum'.modules)
    BY <2>2, NoneNamed
  <2>4. \A p \in DOMAIN curricula' :
          p \in DOMAIN curricula /\ curricula'[p].modules = curricula[p].modules
    <3>1. CASE Shutdown
      BY <3>1, SavedPlans
    <3>2. CASE ~Shutdown
      <4>1. UNCHANGED curricula
        BY <1>9, <3>2 DEF SessionFails, Lose, BuildFails, tables
      <4> QED BY <4>1
    <3> QED BY <3>1, <3>2
  <2> QED BY <1>0, <2>2, <2>3, <2>4, FitBlank
<1> QED BY <1>1, <1>2, <1>3, <1>4, <1>5, <1>6, <1>7, <1>8, <1>9 DEF Next

\* Nothing is stored or taught.
LEMMA FitInit == Init => FitInv
<1> SUFFICES ASSUME Init PROVE FitInv
  OBVIOUS
<1>1. DOMAIN curricula = {} /\ curriculum = NoCurriculum /\ content = [id \in ModuleId |-> {}]
  BY DEF Init
<1>2. DOMAIN curriculum.modules = {}
  BY <1>1, NoneTyped
<1>3. \A id \in ModuleId : content[id] = {}
  BY <1>1
<1> QED BY <1>1, <1>2, <1>3, NoneNamed DEF FitInv, KeptApart

\* The questions of an evaluation are about the module that is evaluated, and
\* rest on nothing but lessons of its concept, or for a detour or a revisit of
\* concepts of the same name, though content is kept by module id and modules
\* come from three places (teach, evaluate, _run_module_loop).
THEOREM QuestionsAreFit == Spec => []QuestionsFit
<1>1. BaseInv /\ FitInv => QuestionsFit
  <2> SUFFICES ASSUME BaseInv, FitInv, pc = "evaluating", rebuilt = <<>>
               PROVE  /\ CurrentModule = At(curriculum)
                      /\ content[CurrentModule.id] \subseteq Namesakes(CurrentModule)
    BY DEF QuestionsFit
  <2>1. MayTeach /\ TypeOK
    BY DEF BaseInv, Working
  <2>2. CurrentModule = At(curriculum)
    BY <2>1 DEF CurrentModule, StateCurriculum, MayTeach
  <2>3. PICK k : k = curriculum.current_index + 1
    OBVIOUS
  <2>4. k \in DOMAIN curriculum.modules /\ At(curriculum) = curriculum.modules[k]
    BY <2>1, <2>3, AtTyped DEF At, TypeOK, MayTeach
  <2> QED BY <2>2, <2>4 DEF FitInv, KeptApart
<1> QED BY <1>1, TypeCorrect, FitInit, FitInductive, PTL DEF Spec

\* No two concepts have the same name in an id.
DistinctNames ==
    \A c, d \in Concept :
        (DetourName[c] = DetourName[d] \/ RevisitName[c] = RevisitName[d]) => c = d

\* An evaluation rests on lessons of one concept.
OneConcept ==
    (pc = "evaluating" /\ rebuilt = <<>>)
        => content[CurrentModule.id] \subseteq {CurrentModule.concept}

\* It is only the names that let another concept's lesson in: where they stay
\* distinct in the ids of detours and revisits, an evaluation rests on lessons of
\* its own concept (_run_module_loop, _check_cross_session_doubts).
THEOREM DistinctNamesSuffice ==
  ASSUME DistinctNames
  PROVE  Spec => []OneConcept
<1>1. BaseInv /\ FitInv => OneConcept
  <2> SUFFICES ASSUME BaseInv, FitInv, pc = "evaluating", rebuilt = <<>>
               PROVE  content[CurrentModule.id] \subseteq {CurrentModule.concept}
    BY DEF OneConcept
  <2>1. MayTeach /\ TypeOK
    BY DEF BaseInv, Working
  <2>2. CurrentModule = At(curriculum)
    BY <2>1 DEF CurrentModule, StateCurriculum, MayTeach
  <2>3. PICK k : k = curriculum.current_index + 1
    OBVIOUS
  <2>4. k \in DOMAIN curriculum.modules /\ At(curriculum) = curriculum.modules[k]
    BY <2>1, <2>3, AtTyped DEF At, TypeOK, MayTeach
  <2>5. PICK m : m = CurrentModule
    OBVIOUS
  <2>6. content[m.id] \subseteq {m.concept} \cup Named(m.id)
    BY <2>2, <2>4, <2>5 DEF FitInv, KeptApart, Namesakes
  <2>7. Named(m.id) # {} => m.concept \in Named(m.id)
    BY <2>2, <2>4, <2>5 DEF FitInv, WellNamed
  <2>8. ASSUME NEW c \in Named(m.id), NEW d \in Named(m.id) PROVE c = d
    BY <2>8 DEF Named, DistinctNames
  <2> QED BY <2>5, <2>6, <2>7, <2>8
<1> QED BY <1>1, TypeCorrect, FitInit, FitInductive, PTL DEF Spec

-----------------------------------------------------------------------------
(* Findings on record *)

\* Modules that stay on the list keep what was completed on it.
LEMMA EarnedKept ==
  ASSUME EarnedListed, UNCHANGED <<rebuilt, completed, earned>>,
         \A j \in DOMAIN curriculum.modules : \E i \in DOMAIN curriculum'.modules :
           curriculum'.modules[i] = curriculum.modules[j]
  PROVE  EarnedListed'
<1> SUFFICES ASSUME rebuilt = <<>>, NEW c \in earned
             PROVE  \E i \in DOMAIN curriculum'.modules :
                      /\ curriculum'.modules[i].id \in completed
                      /\ curriculum'.modules[i].concept = c
  BY DEF EarnedListed
<1>1. PICK j \in DOMAIN curriculum.modules :
        curriculum.modules[j].id \in completed /\ curriculum.modules[j].concept = c
  BY DEF EarnedListed
<1>2. PICK i \in DOMAIN curriculum'.modules : curriculum'.modules[i] = curriculum.modules[j]
  OBVIOUS
<1> QED BY <1>1, <1>2

\* The module that is completed is on the list.
LEMMA EarnedCompleted ==
  ASSUME TypeOK, MayTeach, EarnedListed, Complete
  PROVE  EarnedListed'
<1> SUFFICES ASSUME rebuilt = <<>>, NEW c \in earned'
             PROVE  \E i \in DOMAIN curriculum'.modules :
                      /\ curriculum'.modules[i].id \in completed'
                      /\ curriculum'.modules[i].concept = c
  BY DEF EarnedListed, Complete
<1>1. curriculum'.modules = curriculum.modules
  BY CompleteTyped
<1>2. completed' = completed \cup {At(curriculum).id} /\ earned' = earned \cup {At(curriculum).concept}
  BY DEF Complete
<1>3. CASE c \in earned
  BY <1>1, <1>2, <1>3 DEF EarnedListed
<1>4. CASE c = At(curriculum).concept
  <2>1. PICK k : k = curriculum.current_index + 1
    OBVIOUS
  <2>2. k \in DOMAIN curriculum.modules /\ At(curriculum) = curriculum.modules[k]
    BY <2>1, AtTyped DEF At, TypeOK, MayTeach
  <2> QED BY <1>1, <1>2, <1>4, <2>2
<1> QED BY <1>2, <1>3, <1>4

\* Every step keeps the completed modules on the list.
LEMMA EarnedInductive ==
  BaseInv /\ EarnedListed /\ [Next]_vars => EarnedListed'
<1> SUFFICES ASSUME BaseInv, EarnedListed, [Next]_vars PROVE EarnedListed'
  OBVIOUS
<1>0. TypeOK /\ curriculum \in Curriculum
  BY DEF BaseInv, TypeOK
<1>1. CASE Start \/ SessionFails \/ Lose \/ Shutdown
  <2>1. earned' = {}
    BY <1>1 DEF Start, SessionFails, Lose, Shutdown, Forget
  <2> QED BY <2>1 DEF EarnedListed
<1>2. CASE CheckDoubts
  <2>1. UNCHANGED <<rebuilt, completed, earned>>
    BY <1>2 DEF CheckDoubts, tally
  <2>2. CASE UNCHANGED curriculum
    BY <2>1, <2>2, EarnedKept
  <2>3. ASSUME NEW due \in Due, curriculum' = InsertAll(curriculum, Revisits(due))
        PROVE  EarnedListed'
    <3>1. PICK ms \in Seq(Modules) : ms = Revisits(due)
      BY RevisitsTyped
    <3>2. PICK c : c = InsertAll(curriculum, ms)
      OBVIOUS
    <3>3. \A j \in DOMAIN curriculum.modules : \E i \in DOMAIN c.modules :
            c.modules[i] = curriculum.modules[j]
      BY <1>0, <3>2, Inserted
    <3>4. curriculum' = c
      BY <2>3, <3>1, <3>2
    <3> QED BY <2>1, <3>3, <3>4, EarnedKept
  <2> QED BY <1>2, <2>2, <2>3 DEF CheckDoubts
<1>3. CASE CreatePlan
  <2>1. earned' = {}
    BY <1>3 DEF CreatePlan, BaseInv, Blank, tally
  <2> QED BY <2>1 DEF EarnedListed
<1>4. CASE ReplacePlan
  <2>1. \E r : rebuilt' = <<r>>
    BY <1>4 DEF ReplacePlan
  <2>2. rebuilt' # <<>>
    BY <2>1
  <2> QED BY <2>2 DEF EarnedListed
<1>5. CASE Detour
  <2>1. PICK c \in Missing : curriculum' = InsertAll(curriculum, <<Module(0, DetourId(c), c)>>)
    BY <1>5 DEF Detour, Insert
  <2>2. PICK ms \in Seq(Modules) : ms = <<Module(0, DetourId(c), c)>>
    BY DetourTyped
  <2>3. PICK new : new = InsertAll(curriculum, ms)
    OBVIOUS
  <2>4. \A j \in DOMAIN curriculum.modules : \E i \in DOMAIN new.modules :
          new.modules[i] = curriculum.modules[j]
    BY <1>0, <2>3, Inserted
  <2>5. curriculum' = new /\ UNCHANGED <<rebuilt, completed, earned>>
    BY <1>5, <2>1, <2>2, <2>3 DEF Detour, tally
  <2> QED BY <2>4, <2>5, EarnedKept
<1>6. CASE \/ Deactivate \/ Teach \/ Evaluate \/ EvaluationFails \/ Adapt \/ Reteach
           \/ Escalate \/ Hold \/ LoopEnds \/ EndSession \/ UNCHANGED vars
  <2>1. UNCHANGED <<rebuilt, completed, earned, curriculum>>
    BY <1>6 DEF Deactivate, Teach, Evaluate, EvaluationFails, Adapt, Reteach, Escalate,
                Hold, LoopEnds, EndSession, vars, path, tally
  <2> QED BY <2>1, EarnedKept
<1>7. CASE Forward
  BY <1>0, <1>7, EarnedCompleted DEF Forward, BaseInv, Working
<1>8. CASE BuildFails
  <2>1. CASE pc \in {"setup", "creating"}
    <3>1. earned' = {}
      BY <1>8, <2>1 DEF BuildFails, Forget
    <3> QED BY <3>1 DEF EarnedListed
  <2>2. CASE pc \notin {"setup", "creating"}
    <3>1. Complete /\ MayTeach
      BY <1>8, <2>2 DEF BuildFails, BaseInv, Working
    <3> QED BY <1>0, <3>1, EarnedCompleted
  <2> QED BY <2>1, <2>2
<1> QED BY <1>1, <1>2, <1>3, <1>4, <1>5, <1>6, <1>7, <1>8 DEF Next

\* The end of a session writes the marks of all concepts it completed.
LEMMA FindingsWritten ==
  ASSUME BaseInv, EarnedListed, FindingsOnRecord, [Next]_vars
  PROVE  FindingsOnRecord'
<1>1. CASE EndSession
  <2>1. ASSUME rebuilt = <<>>, NEW c \in earned
        PROVE  concept_mastery[c] \in {Unknown, mastery'[c]}
    <3>1. PICK i \in DOMAIN curriculum.modules :
            curriculum.modules[i].id \in completed /\ curriculum.modules[i].concept = c
      BY <2>1 DEF EarnedListed
    <3>2. curriculum.modules \in Seq(Modules)
      BY DEF BaseInv, TypeOK, Curriculum
    <3>3. curriculum.modules[i] \in ToSet(curriculum.modules) /\ curriculum.modules[i] \in Modules
      BY <3>2, LenProperties DEF ToSet
    <3>4. c \in CompletedConcepts /\ c \in Concept
      BY <2>1, <3>1, <3>3 DEF CompletedConcepts, StateCurriculum, Modules
    <3> QED BY <1>1, <3>4 DEF EndSession, Flushed
  <2>2. UNCHANGED <<rebuilt, earned, concept_mastery>>
    BY <1>1 DEF EndSession, path, tally, student
  <2> QED BY <2>1, <2>2 DEF FindingsOnRecord
<1>2. CASE UNCHANGED vars
  BY <1>2 DEF vars, tables, path, tally, student, FindingsOnRecord
<1>3. CASE Next /\ ~EndSession
  <2>1. pc' # "ended"
    <3>1. CASE Start \/ CheckDoubts \/ Deactivate \/ CreatePlan \/ ReplacePlan \/ BuildFails
      BY <3>1 DEF Start, FirstStep, CheckDoubts, Deactivate, CreatePlan, ReplacePlan,
                  BuildFails, Onward, Goto
    <3>2. CASE Teach \/ Evaluate \/ EvaluationFails \/ Adapt \/ Forward \/ Reteach \/ Detour
      BY <3>2 DEF Teach, Evaluate, EvaluationFails, Adapt, Forward, Reteach, Detour, Onward,
                  Goto
    <3>3. CASE Escalate \/ Hold \/ LoopEnds \/ SessionFails \/ Shutdown \/ Lose
      BY <3>3 DEF Escalate, Hold, LoopEnds, SessionFails, Shutdown, Lose, Goto
    <3> QED BY <1>3, <3>1, <3>2, <3>3 DEF Next
  <2> QED BY <2>1 DEF FindingsOnRecord
<1> QED BY <1>1, <1>2, <1>3

\* What a session found out about the concepts it completed is in the tables
\* when it has ended, although the end looks the concepts up by module id in a
\* list that detours and revisits have changed (_end_session).
THEOREM FindingsAreKept == Spec => []FindingsOnRecord
<1>1. Init => EarnedListed /\ FindingsOnRecord
  BY DEF Init, EarnedListed, FindingsOnRecord
<1>2. BaseInv /\ FindInv /\ [Next]_vars => FindInv'
  BY EarnedInductive, FindingsWritten DEF FindInv
<1>3. Init => FindInv
  BY <1>1 DEF FindInv
<1>4. FindInv => FindingsOnRecord
  BY DEF FindInv
<1> QED BY <1>2, <1>3, <1>4, TypeCorrect, PTL DEF Spec

-----------------------------------------------------------------------------
(* A stored index that skips nothing *)

\* The steps between lessons leave plans, the index and the lists alone.
LEMMA SkipQuiet ==
  ASSUME SkipInv, UNCHANGED <<curricula, active, shifted, rebuilt, passed, curriculum>>,
         pc' \in {"idle", "lost", "stopped"} \/ pc \notin {"idle", "lost", "stopped"}
  PROVE  SkipInv'
BY DEF SkipInv, OnTrack, Behind

\* The module at the index is completed, and the index goes past it.
LEMMA SkipCompleted ==
  ASSUME TypeOK, MayTeach, SkipInv, Complete, UNCHANGED <<curricula, active, shifted>>,
         pc \notin {"idle", "lost", "stopped"}
  PROVE  SkipInv'
<1>1. /\ passed' = passed \cup {At(curriculum)} /\ UNCHANGED rebuilt
      /\ curriculum'.modules = curriculum.modules
      /\ curriculum'.current_index = curriculum.current_index + 1
  BY CompleteTyped DEF Complete
<1>2. PICK k : k = curriculum.current_index
  OBVIOUS
<1>3. k \in Nat /\ k + 1 \in DOMAIN curriculum.modules /\ At(curriculum) = curriculum.modules[k + 1]
  BY <1>2, AtTyped DEF At, TypeOK, MayTeach
<1>4. ASSUME Behind(curriculum)
      PROVE  \A i \in 1..k + 1 : i \in DOMAIN curriculum.modules /\ curriculum.modules[i] \in passed'
  <2>1. \A i \in 1..k : i \in DOMAIN curriculum.modules /\ curriculum.modules[i] \in passed
    BY <1>2, <1>4 DEF Behind
  <2>2. \A i \in 1..k + 1 : i \in 1..k \/ i = k + 1
    BY <1>3
  <2> QED BY <1>1, <1>3, <2>1, <2>2
<1>5. OnTrack'
  BY <1>1, <1>2, <1>4 DEF SkipInv, OnTrack, Behind
<1>6. \A p \in DOMAIN curricula \ shifted : Behind(curricula[p])'
  BY <1>1 DEF SkipInv, Behind
<1> QED BY <1>1, <1>5, <1>6 DEF SkipInv

\* A list into which modules were put no longer counts as the plan that is
\* stored; with none, it is as before.
LEMMA SkipInserted ==
  ASSUME SkipInv, UNCHANGED <<curricula, active, rebuilt, passed>>, shifted \subseteq shifted',
         \/ active \in shifted'
         \/ /\ UNCHANGED shifted
            /\ curriculum'.modules = curriculum.modules
            /\ curriculum'.current_index = curriculum.current_index,
         pc \notin {"idle", "lost", "stopped"}
  PROVE  SkipInv'
<1>1. \A p \in DOMAIN curricula \ shifted' : Behind(curricula[p])'
  BY DEF SkipInv, Behind
<1>2. OnTrack'
  BY DEF SkipInv, OnTrack, Behind
<1> QED BY <1>1, <1>2 DEF SkipInv

\* When the session is gone, only the stored plans count.
LEMMA SkipGone ==
  ASSUME SkipInv, pc' \in {"idle", "lost", "stopped"}, rebuilt' = <<>>,
         UNCHANGED <<curricula, shifted, passed>>
  PROVE  SkipInv'
BY DEF SkipInv, OnTrack, Behind

\* A session starts at the index that is stored.
LEMMA SkipStart ==
  ASSUME BaseInv, SkipInv, Start
  PROVE  SkipInv'
<1>1. UNCHANGED <<curricula, active, shifted, passed>> /\ rebuilt' = <<>>
  BY DEF Start, tables
<1>2. \A p \in DOMAIN curricula \ shifted : Behind(curricula[p])'
  BY <1>1 DEF SkipInv, Behind
<1>3. ASSUME active # 0, active \notin shifted
      PROVE  /\ curriculum'.modules = curricula[active].modules
             /\ \A i \in 1..curriculum'.current_index :
                  i \in DOMAIN curriculum'.modules /\ curriculum'.modules[i] \in passed
  <2>1. active \in DOMAIN curricula
    BY <1>3 DEF BaseInv, TypeOK
  <2>2. Behind(curricula[active])
    BY <1>3, <2>1 DEF SkipInv
  <2>3. PICK c : c = Loaded(active)
    OBVIOUS
  <2>4. c.modules = curricula[active].modules /\ c.current_index = curricula[active].current_index
    BY <2>3 DEF Loaded
  <2>5. curriculum' = c
    BY <1>3, <2>3 DEF Start
  <2> QED BY <2>2, <2>4, <2>5 DEF Behind
<1>4. OnTrack'
  BY <1>1, <1>3 DEF OnTrack, Behind
<1> QED BY <1>1, <1>2, <1>4 DEF SkipInv

\* A plan that is built starts at its first module.
LEMMA SkipStored ==
  ASSUME BaseInv, SkipInv, NEW concepts \in {Plan, Remedy}, Stored(concepts),
         Len(curricula) < MaxPlans, UNCHANGED <<shifted, passed>>
  PROVE  \A p \in DOMAIN curricula' \ shifted' : Behind(curricula[p])'
<1>1. SUFFICES ASSUME NEW p \in DOMAIN curricula' \ shifted,
                      NEW i \in 1..curricula'[p].current_index
               PROVE  i \in DOMAIN curricula'[p].modules /\ curricula'[p].modules[i] \in passed
  BY DEF Behind
<1>2. CASE p \in DOMAIN curricula /\ curricula'[p] = curricula[p]
  BY <1>1, <1>2 DEF SkipInv, Behind
<1>3. CASE curricula'[p].current_index = 0
  BY <1>1, <1>3
<1> QED BY <1>1, <1>2, <1>3, StoredAfter

\* The first plan is the one the session works on.
LEMMA SkipCreated ==
  ASSUME BaseInv, SkipInv, CreatePlan
  PROVE  SkipInv'
<1>1. pc = "creating" /\ Stored(Plan) /\ Len(curricula) < MaxPlans
  BY DEF CreatePlan, BaseInv, Room
<1>2. UNCHANGED <<shifted, passed, rebuilt>> /\ rebuilt = <<>>
  BY <1>1 DEF CreatePlan, tally, BaseInv, Blank
<1>3. \A p \in DOMAIN curricula' \ shifted' : Behind(curricula[p])'
  BY <1>1, <1>2, SkipStored
<1>4. PICK ms : ms = BuildModules(Len(curricula) + 1, Plan)
  OBVIOUS
<1>5. curriculum'.modules = ms /\ curriculum'.current_index = 0
  BY <1>4 DEF CreatePlan
<1>6. active' \in DOMAIN curricula' /\ curricula'[active'].modules = ms
  <2>1. /\ curricula' = Append(curricula, [modules |-> ms, current_index |-> 0])
        /\ active' = Len(curricula) + 1
    BY <1>1, <1>4 DEF Stored
  <2>2. curricula \in Seq(Curriculum)
    BY DEF BaseInv, TypeOK
  <2>3. PICK new : new = [modules |-> ms, current_index |-> 0]
    OBVIOUS
  <2>4. new.modules = ms
    BY <2>3
  <2>5. ms \in Seq(Modules)
    <3>1. Len(curricula) + 1 \in 0..MaxPlans
      BY <1>1, <2>2, BoundAssumption, LenProperties
    <3> QED BY <1>4, <3>1, PlanTyped
  <2>6. new \in Curriculum
    BY <2>3, <2>5 DEF Curriculum
  <2>7. /\ Len(curricula') = Len(curricula) + 1 /\ curricula' \in Seq(Curriculum)
        /\ curricula'[Len(curricula) + 1] = new
    BY <2>1, <2>2, <2>3, <2>6, AppendProperties
  <2>8. Len(curricula) \in Nat /\ DOMAIN curricula' = 1..Len(curricula')
    BY <2>2, <2>7, LenProperties
  <2> QED BY <2>1, <2>4, <2>7, <2>8
<1>7. OnTrack'
  BY <1>5, <1>6 DEF OnTrack, Behind
<1> QED BY <1>2, <1>3, <1>7 DEF SkipInv

\* After an escalation the session no longer works on the stored plan, and the
\* index of the new one is never moved on.
LEMMA SkipReplaced ==
  ASSUME BaseInv, SkipInv, ReplacePlan
  PROVE  SkipInv'
<1>1. Stored(Remedy) /\ Len(curricula) < MaxPlans /\ UNCHANGED <<shifted, passed>>
  BY DEF ReplacePlan, BaseInv, Room, tally
<1>2. \A p \in DOMAIN curricula' \ shifted' : Behind(curricula[p])'
  BY <1>1, SkipStored
<1>3. \E ms : rebuilt' = <<[modules |-> ms, current_index |-> 0]>>
  BY DEF ReplacePlan
<1>4. rebuilt' # <<>> /\ rebuilt'[1].current_index = 0
  BY <1>3
<1> QED BY <1>2, <1>4 DEF SkipInv, OnTrack

\* The index saved when the server stops is that of the plan it is saved for.
LEMMA SkipSaved ==
  ASSUME BaseInv, SkipInv, Shutdown
  PROVE  SkipInv'
<1>1. /\ pc \notin {"idle", "lost", "stopped"} /\ pc' = "stopped"
      /\ rebuilt' = <<>> /\ UNCHANGED <<shifted, passed>>
  BY DEF Shutdown, Goto, Forget
<1>2. ASSUME NEW p \in DOMAIN curricula' \ shifted, NEW i \in 1..curricula'[p].current_index
      PROVE  i \in DOMAIN curricula'[p].modules /\ curricula'[p].modules[i] \in passed
  <2>1. p \in DOMAIN curricula \ shifted /\ curricula'[p].modules = curricula[p].modules
    BY <1>2, SavedPlans
  <2>2. Behind(curricula[p])
    BY <2>1 DEF SkipInv
  <2>3. CASE curricula'[p].current_index = curricula[p].current_index
    BY <1>2, <2>1, <2>2, <2>3 DEF Behind
  <2>4. CASE p = active /\ active # 0 /\ curricula'[p].current_index = SavedIndex
    <3>1. CASE rebuilt # <<>>
      <4>1. curricula'[p].current_index = 0
        BY <2>4, <3>1 DEF SavedIndex, StateCurriculum, SkipInv
      <4> QED BY <1>2, <4>1
    <3>2. CASE rebuilt = <<>>
      <4>1. curricula'[p].current_index = curriculum.current_index
        BY <2>4, <3>2 DEF SavedIndex, StateCurriculum
      <4>2. curriculum.modules = curricula[active].modules /\ Behind(curriculum)
        BY <1>1, <2>1, <2>4, <3>2 DEF SkipInv, OnTrack
      <4> QED BY <1>2, <2>1, <2>4, <4>1, <4>2 DEF Behind
    <3> QED BY <3>1, <3>2
  <2> QED BY <1>2, <2>1, <2>3, <2>4, SavedPlans
<1> QED BY <1>1, <1>2 DEF SkipInv, OnTrack, Behind

\* Every step keeps the stored indices behind completed modules.
LEMMA SkipInductive ==
  BaseInv /\ SkipInv /\ [Next]_vars => SkipInv'
<1> SUFFICES ASSUME BaseInv, SkipInv, [Next]_vars PROVE SkipInv'
  OBVIOUS
<1>0. TypeOK /\ curriculum \in Curriculum
  BY DEF BaseInv, TypeOK
<1>1. CASE Start \/ CreatePlan \/ ReplacePlan \/ Shutdown
  BY <1>1, SkipStart, SkipCreated, SkipReplaced, SkipSaved
<1>2. CASE CheckDoubts
  <2>1. /\ UNCHANGED <<curricula, active, rebuilt, passed>>
        /\ pc \notin {"idle", "lost", "stopped"}
    BY <1>2 DEF CheckDoubts, tables, tally
  <2>2. CASE UNCHANGED <<curriculum, shifted>>
    BY <2>1, <2>2, SkipInserted
  <2>3. ASSUME NEW due \in Due, curriculum' = InsertAll(curriculum, Revisits(due)),
               shifted' = shifted \cup (IF due = <<>> THEN {} ELSE {active})
        PROVE  SkipInv'
    <3>1. CASE due # <<>>
      BY <2>1, <2>3, <3>1, SkipInserted
    <3>2. CASE due = <<>>
      <4>1. PICK ms \in Seq(Modules) : ms = Revisits(due) /\ ms = <<>>
        BY <3>2, RevisitsTyped
      <4>2. PICK c : c = InsertAll(curriculum, ms)
        OBVIOUS
      <4>3. c.modules = curriculum.modules /\ c.current_index = curriculum.current_index
        BY <1>0, <4>1, <4>2, Inserted
      <4>4. curriculum' = c
        BY <2>3, <4>1, <4>2
      <4> QED BY <2>1, <2>3, <3>2, <4>3, <4>4, SkipInserted
    <3> QED BY <3>1, <3>2
  <2> QED BY <1>2, <2>2, <2>3 DEF CheckDoubts
<1>3. CASE Deactivate
  <2>1. active' = 0 /\ UNCHANGED <<curricula, shifted, rebuilt, passed>>
    BY <1>3 DEF Deactivate, path, tally
  <2> QED BY <2>1 DEF SkipInv, OnTrack, Behind
<1>4. CASE \/ Teach \/ Evaluate \/ EvaluationFails \/ Adapt \/ Reteach \/ Escalate
           \/ Hold \/ LoopEnds \/ EndSession
  <2>1. UNCHANGED <<curricula, active, shifted, rebuilt, passed, curriculum>>
    BY <1>4 DEF Teach, Evaluate, EvaluationFails, Adapt, Reteach, Escalate, Hold, LoopEnds,
                EndSession, tables, path, tally
  <2>2. pc \notin {"idle", "lost", "stopped"}
    BY <1>4 DEF Teach, Evaluate, EvaluationFails, Adapt, Reteach, Escalate, Hold, LoopEnds,
                EndSession
  <2> QED BY <2>1, <2>2, SkipQuiet
<1>5. CASE Forward \/ (BuildFails /\ pc \notin {"setup", "creating"})
  <2>1. Complete /\ UNCHANGED <<curricula, active, shifted>>
    BY <1>5 DEF Forward, BuildFails, tables
  <2>2. MayTeach /\ pc \notin {"idle", "lost", "stopped"}
    BY <1>5 DEF Forward, BuildFails, BaseInv, Working
  <2> QED BY <1>0, <2>1, <2>2, SkipCompleted
<1>6. CASE Detour
  <2>1. /\ UNCHANGED <<curricula, active, rebuilt, passed>>
        /\ shifted' = shifted \cup {active} /\ pc \notin {"idle", "lost", "stopped"}
    BY <1>6 DEF Detour, Shift, tables, tally
  <2> QED BY <2>1, SkipInserted
<1>7. CASE SessionFails \/ Lose \/ (BuildFails /\ pc \in {"setup", "creating"})
  <2>1. /\ pc' = "lost" /\ rebuilt' = <<>> /\ UNCHANGED <<curricula, shifted, passed>>
    BY <1>7 DEF SessionFails, Lose, BuildFails, Forget, Goto, tables
  <2> QED BY <2>1, SkipGone
<1>8. CASE UNCHANGED vars
  <2>1. UNCHANGED <<curricula, active, shifted, rebuilt, passed, curriculum, pc>>
    BY <1>8 DEF vars, tables, path, tally
  <2> QED BY <2>1 DEF SkipInv, OnTrack, Behind
<1> QED BY <1>1, <1>2, <1>3, <1>4, <1>5, <1>6, <1>7, <1>8 DEF Next

\* The index that is stored of a plan has nothing before it that no session
\* completed, although a session stores it only when it is stopped and may have
\* replaced the plan by then (save), unless modules were inserted.
THEOREM NothingIsSkipped == Spec => []NothingSkipped
<1>1. Init => SkipInv
  BY DEF Init, SkipInv, OnTrack
<1>2. SkipInv => NothingSkipped
  BY DEF SkipInv, Behind, NothingSkipped
<1> QED BY <1>1, <1>2, TypeCorrect, SkipInductive, PTL DEF Spec

-----------------------------------------------------------------------------
(* The calls of the LLM                                                    *)
(*                                                                         *)
(* Every agent of a session works through calls of the LLM.  What follows  *)
(* is about the calls of the whole process, GroqClient under the name LLM: *)
(* each theorem states what it assumes of the constants as LLMBounds.      *)

CONSTANTS Call, Threads, MaxRetries, MaxIterations, QueueSize, MaxChunks, MaxToolCalls

VARIABLES kind, call_pc, thread, attempt, iteration, messages, todo, chunk_queue, produced,
          sentinels, failure, yielded, left, result

LLM == INSTANCE GroqClient WITH pc <- call_pc

\* What GroqClient assumes of its constants.
LLMBounds ==
    /\ {Threads, MaxIterations, QueueSize} \subseteq Nat \ {0}
    /\ {MaxRetries, MaxChunks, MaxToolCalls} \subseteq Nat

Message == [role : {"user", "assistant", "tool"}, calls : 0..MaxToolCalls]

\* The i-th message is followed by n tool results, and no more.
Followed(said, i, n) ==
    /\ i + n <= Len(said)
    /\ \A k \in 1..n : said[i + k].role = "tool"
    /\ i + n < Len(said) => said[i + n + 1].role # "tool"

\* Every message with tool calls but the i-th is followed by their results.
AnsweredBut(said, i) ==
    \A j \in DOMAIN said : j # i /\ said[j].role = "assistant" => Followed(said, j, said[j].calls)

\* The last message with tool calls has its results but the last few, which are owed.
Owing(said, owed) ==
    \E i \in DOMAIN said, given \in 0..Len(said) :
      /\ said[i].role = "assistant" /\ said[i].calls = given + owed
      /\ i + given = Len(said) /\ Followed(said, i, given)
      /\ AnsweredBut(said, i)

\* A conversation is complete whenever the LLM may be asked, and lacks what is still to
\* be executed while tools are.
ConversationOK(c) ==
    /\ call_pc[c] = "executing" => todo[c] # <<>> /\ Owing(messages[c], Len(todo[c]))
    /\ call_pc[c] \notin {"executing", "done"} => AnsweredBut(messages[c], 0)

\* The thread of a stream has received the end of the answer.
Closed == {"closing", "ended"}

\* Streams and the other calls keep to their places, and only streams close.
PlaceOK(c) ==
    /\ kind[c] = "stream" => call_pc[c] \in {"idle", "reading", "yielded", "joining", "done"}
    /\ kind[c] # "stream" =>
         call_pc[c] \notin {"reading", "yielded", "joining"} /\ thread[c] \notin Closed
    /\ call_pc[c] = "idle" => thread[c] = "none"

\* Chunks come in order, what has been yielded before what waits, and sentinels only
\* after the last chunk that was received.
InBridge(got, waiting, n) ==
    /\ Len(got) <= n /\ \A i \in DOMAIN got : got[i] = i
    /\ n <= Len(got) + Len(waiting) /\ Len(got) + Len(waiting) <= n + 2
    /\ \A i \in DOMAIN waiting : waiting[i] = IF Len(got) + i <= n THEN Len(got) + i ELSE 0

\* Sentinels are put once the thread has the end of the answer; whoever has met one
\* has got all there is.
StreamOK(c) ==
    /\ InBridge(yielded[c], chunk_queue[c], produced[c])
    /\ thread[c] \notin Closed => Len(yielded[c]) + Len(chunk_queue[c]) = produced[c]
    /\ thread[c] = "closing" =>
         /\ sentinels[c] > 0
         /\ Len(yielded[c]) + Len(chunk_queue[c]) + sentinels[c] <= produced[c] + 2
    /\ call_pc[c] = "joining" /\ ~left[c] =>
         Len(yielded[c]) = produced[c] /\ thread[c] \in Closed

\* What a result says of the call that ended with it.
ResultOK(c) ==
    /\ result[c] # "none" => call_pc[c] = "done"
    /\ call_pc[c] = "backoff" => attempt[c] < LLM!TotalAttempts
    /\ result[c] = "rate_limit" => attempt[c] = LLM!TotalAttempts
    /\ result[c] = "complete" =>
         Len(yielded[c]) = produced[c] /\ thread[c] \in Closed /\ failure[c] # "error"

CallOK(c) == PlaceOK(c) /\ ConversationOK(c) /\ StreamOK(c) /\ ResultOK(c)

LLMTyped == LLM!TypeOK /\ IsFiniteSet(LLM!Busy)

CallInv == LLMTyped /\ \A c \in Call : CallOK(c)

-----------------------------------------------------------------------------
(* Conversations *)

\* A message that is no tool result leaves everything answered that was.
LEMMA NextMessage ==
    ASSUME NEW said \in Seq(Message), AnsweredBut(said, 0), NEW m \in Message, m.role # "tool"
    PROVE  AnsweredBut(Append(said, m), Len(said) + 1)
<1> DEFINE new == Append(said, m)
<1>1. Len(said) \in Nat /\ DOMAIN said = 1..Len(said) /\ new \in Seq(Message)
      /\ Len(new) = Len(said) + 1 /\ DOMAIN new = 1..Len(said) + 1
  OBVIOUS
<1>2. new[Len(said) + 1] = m /\ \A j \in 1..Len(said) : new[j] = said[j]
  OBVIOUS
<1>3. SUFFICES ASSUME NEW j \in DOMAIN new, j # Len(said) + 1, new[j].role = "assistant"
               PROVE  Followed(new, j, new[j].calls)
  BY DEF AnsweredBut
<1>4. j \in 1..Len(said) /\ new[j] = said[j]
  BY <1>1, <1>2, <1>3
<1> DEFINE n == said[j].calls
<1>5. said[j] \in Message /\ n \in 0..MaxToolCalls
  <2>1. said[j] \in Message
    BY <1>1, <1>4
  <2> QED BY <2>1 DEF Message
<1>6. Followed(said, j, n)
  BY <1>1, <1>3, <1>4 DEF AnsweredBut
<1>7. \A k \in 1..n : new[j + k].role = "tool"
  <2>1. TAKE k \in 1..n
  <2>2. j + k \in 1..Len(said) /\ said[j + k].role = "tool"
    BY <1>1, <1>4, <1>5, <1>6 DEF Followed
  <2> QED BY <1>2, <2>2
<1>8. ASSUME j + n < Len(new) PROVE new[j + n + 1].role # "tool"
  <2>1. CASE j + n < Len(said)
    <3>1. j + n + 1 \in 1..Len(said) /\ said[j + n + 1].role # "tool"
      BY <1>1, <1>4, <1>5, <1>6, <2>1 DEF Followed
    <3> QED BY <1>2, <3>1
  <2>2. CASE j + n = Len(said)
    BY <1>2, <2>2
  <2> QED BY <1>1, <1>4, <1>5, <1>8, <2>1, <2>2
<1>9. j + n <= Len(new)
  BY <1>1, <1>4, <1>5, <1>6 DEF Followed
<1> QED BY <1>4, <1>7, <1>8, <1>9 DEF Followed

\* Words without tool calls leave nothing unanswered.
LEMMA WordsAnswered ==
    ASSUME NEW said \in Seq(Message), AnsweredBut(said, 0), NEW m \in Message, m.role # "tool",
           m.role = "assistant" => m.calls = 0
    PROVE  Append(said, m) \in Seq(Message) /\ AnsweredBut(Append(said, m), 0)
<1> DEFINE new == Append(said, m)
<1>1. Len(said) \in Nat /\ DOMAIN said = 1..Len(said) /\ new \in Seq(Message)
      /\ Len(new) = Len(said) + 1 /\ DOMAIN new = 1..Len(said) + 1 /\ new[Len(said) + 1] = m
  OBVIOUS
<1>2. AnsweredBut(new, Len(said) + 1)
  BY NextMessage
<1>3. m.role = "assistant" => Followed(new, Len(said) + 1, 0)
  BY <1>1 DEF Followed
<1>4. ASSUME NEW j \in DOMAIN new, new[j].role = "assistant" PROVE Followed(new, j, new[j].calls)
  <2>1. CASE j = Len(said) + 1
    BY <1>1, <1>3, <1>4, <2>1
  <2>2. CASE j # Len(said) + 1
    BY <1>2, <1>4, <2>2 DEF AnsweredBut
  <2> QED BY <2>1, <2>2
<1> QED BY <1>1, <1>4 DEF AnsweredBut

\* Tool calls are owed their results.
LEMMA CallsOwed ==
    ASSUME NEW said \in Seq(Message), AnsweredBut(said, 0), NEW m \in Message, m.role = "assistant"
    PROVE  Append(said, m) \in Seq(Message) /\ Owing(Append(said, m), m.calls)
<1> DEFINE new == Append(said, m)
<1>1. Len(said) \in Nat /\ new \in Seq(Message) /\ Len(new) = Len(said) + 1
      /\ DOMAIN new = 1..Len(said) + 1 /\ new[Len(said) + 1] = m /\ m.calls \in Nat
  BY DEF Message
<1>2. AnsweredBut(new, Len(said) + 1)
  BY NextMessage
<1>3. Followed(new, Len(said) + 1, 0)
  BY <1>1 DEF Followed
<1>4. Len(said) + 1 \in DOMAIN new /\ 0 \in 0..Len(new) /\ m.calls = 0 + m.calls
      /\ Len(said) + 1 + 0 = Len(new)
  BY <1>1
<1> QED BY <1>1, <1>2, <1>3, <1>4 DEF Owing

\* A result pays for one call, the oldest that has none.
LEMMA ResultPays ==
    ASSUME NEW said \in Seq(Message), NEW owed \in Nat \ {0}, Owing(said, owed),
           NEW m \in Message, m.role = "tool"
    PROVE  Append(said, m) \in Seq(Message) /\ Owing(Append(said, m), owed - 1)
<1> DEFINE new == Append(said, m)
<1>1. Len(said) \in Nat /\ DOMAIN said = 1..Len(said) /\ new \in Seq(Message)
      /\ Len(new) = Len(said) + 1 /\ DOMAIN new = 1..Len(said) + 1
  OBVIOUS
<1>2. new[Len(said) + 1] = m /\ \A j \in 1..Len(said) : new[j] = said[j]
  OBVIOUS
<1>3. PICK i \in DOMAIN said, given \in 0..Len(said) :
        /\ said[i].role = "assistant" /\ said[i].calls = given + owed
        /\ i + given = Len(said) /\ Followed(said, i, given)
        /\ AnsweredBut(said, i)
  BY DEF Owing
<1>4. i \in 1..Len(said) /\ given \in Nat /\ new[i] = said[i]
  BY <1>1, <1>2, <1>3
<1>5. Followed(new, i, given + 1)
  <2>1. ASSUME NEW k \in 1..given + 1 PROVE new[i + k].role = "tool"
    <3>1. CASE k = given + 1
      <4>1. i + k = Len(said) + 1
        BY <1>3, <1>4, <3>1
      <4>2. new[i + k] = m
        BY <1>2, <4>1
      <4> QED BY <4>2
    <3>2. CASE k \in 1..given
      <4>1. i + k \in 1..Len(said) /\ said[i + k].role = "tool"
        BY <1>1, <1>3, <1>4, <3>2 DEF Followed
      <4> QED BY <1>2, <4>1
    <3>3. k = given + 1 \/ k \in 1..given
      <4> HIDE DEF new
      <4> QED BY <1>4
    <3> QED BY <3>1, <3>2, <3>3
  <2>2. i + (given + 1) = Len(new)
    BY <1>1, <1>3, <1>4
  <2> QED BY <1>1, <1>4, <2>1, <2>2 DEF Followed
<1>6. ASSUME NEW j \in DOMAIN new, j # i, new[j].role = "assistant"
      PROVE  Followed(new, j, new[j].calls)
  <2>1. j \in 1..Len(said) /\ new[j] = said[j]
    BY <1>1, <1>2, <1>6
  <2> DEFINE n == said[j].calls
  <2>2. said[j] \in Message /\ n \in 0..MaxToolCalls /\ said[j].role = "assistant"
    <3>1. said[j] \in Message
      BY <1>1, <2>1
    <3> QED BY <1>6, <2>1, <3>1 DEF Message
  <2>3. Followed(said, j, n)
    BY <1>1, <1>3, <1>6, <2>1, <2>2 DEF AnsweredBut
  <2>4. j < i
    <3>1. SUFFICES ASSUME j > i PROVE FALSE
      BY <1>4, <1>6, <2>1
    <3>2. j - i \in 1..given /\ i + (j - i) = j
      BY <1>1, <1>3, <1>4, <2>1, <3>1
    <3> HIDE DEF new
    <3>3. said[i + (j - i)].role = "tool"
      BY <1>3, <3>2 DEF Followed
    <3> QED BY <2>2, <3>2, <3>3
  <2>5. j + n < i
    <3>1. SUFFICES ASSUME j + n >= i PROVE FALSE
      BY <1>4, <2>1, <2>2
    <3>2. i - j \in 1..n /\ j + (i - j) = i
      BY <1>4, <2>1, <2>2, <2>4, <3>1
    <3>3. said[j + (i - j)].role = "tool"
      BY <2>3, <3>2 DEF Followed
    <3> QED BY <1>3, <3>2, <3>3
  <2>6. ASSUME NEW k \in 1..n PROVE new[j + k].role = "tool"
    <3>1. j + k \in 1..Len(said) /\ said[j + k].role = "tool"
      BY <1>1, <2>1, <2>2, <2>3, <2>6 DEF Followed
    <3> QED BY <1>2, <3>1
  <2>7. j + n + 1 \in 1..Len(said) /\ said[j + n + 1].role # "tool"
    BY <1>1, <1>4, <2>1, <2>2, <2>3, <2>5 DEF Followed
  <2>8. new[j + n + 1].role # "tool" /\ j + n <= Len(new)
    BY <1>1, <1>2, <1>4, <2>1, <2>2, <2>5, <2>7
  <2> QED BY <2>1, <2>6, <2>8 DEF Followed
<1>7. AnsweredBut(new, i)
  BY <1>6 DEF AnsweredBut
<1>8. i \in DOMAIN new /\ given + 1 \in 0..Len(new) /\ i + (given + 1) = Len(new)
      /\ given + owed = (given + 1) + (owed - 1)
  BY <1>1, <1>3, <1>4
<1> QED BY <1>1, <1>3, <1>4, <1>5, <1>7, <1>8 DEF Owing

\* When nothing is owed, everything is answered.
LEMMA AllPaid ==
    ASSUME NEW said \in Seq(Message), Owing(said, 0)
    PROVE  AnsweredBut(said, 0)
<1>1. PICK i \in DOMAIN said, given \in 0..Len(said) :
        /\ said[i].role = "assistant" /\ said[i].calls = given + 0
        /\ i + given = Len(said) /\ Followed(said, i, given)
        /\ AnsweredBut(said, i)
  BY DEF Owing
<1>2. given \in Nat
  BY <1>1
<1>3. said[i].calls = given
  BY <1>1, <1>2
<1> QED BY <1>1, <1>3 DEF AnsweredBut

-----------------------------------------------------------------------------
(* What a step of one call leaves alone *)

\* The variables of the calls, but for the sizes of the queues and of the pool.
CallsTyped ==
    /\ kind \in [Call -> LLM!Kind]
    /\ call_pc \in [Call -> LLM!Place]
    /\ thread \in [Call -> {"none", "queued", "running", "closing", "ended"}]
    /\ attempt \in [Call -> 1..LLM!TotalAttempts]
    /\ iteration \in [Call -> 1..MaxIterations]
    /\ messages \in [Call -> Seq(Message)]
    /\ todo \in [Call -> Seq({"tool", "terminal"})]
    /\ chunk_queue \in [Call -> Seq(0..MaxChunks)]
    /\ produced \in [Call -> 0..MaxChunks]
    /\ sentinels \in [Call -> 0..2]
    /\ failure \in [Call -> LLM!Failure \cup {"none"}]
    /\ yielded \in [Call -> Seq(1..MaxChunks)]
    /\ left \in [Call -> BOOLEAN]
    /\ result \in [Call -> LLM!Failure \cup {"none", "text", "terminal", "empty", "complete", "left"}]

\* The operators of the library, as the instance names them.
LEMMA SameCardinality == \A S : LLM!Cardinality(S) = Cardinality(S)
BY DEF LLM!Cardinality, Cardinality

LEMMA TypeParts ==
    LLM!TypeOK <=> /\ CallsTyped
                   /\ \A c \in Call : Len(chunk_queue[c]) <= QueueSize
                   /\ Cardinality(LLM!Busy) <= Threads
BY SameCardinality DEF LLM!TypeOK, CallsTyped, Message

Untouched(d) ==
    /\ kind'[d] = kind[d] /\ call_pc'[d] = call_pc[d] /\ thread'[d] = thread[d]
    /\ attempt'[d] = attempt[d] /\ messages'[d] = messages[d] /\ todo'[d] = todo[d]
    /\ chunk_queue'[d] = chunk_queue[d] /\ produced'[d] = produced[d]
    /\ sentinels'[d] = sentinels[d] /\ failure'[d] = failure[d]
    /\ yielded'[d] = yielded[d] /\ left'[d] = left[d] /\ result'[d] = result[d]

LEMMA UntouchedStays ==
    ASSUME NEW d \in Call, CallOK(d), Untouched(d)
    PROVE  CallOK(d)'
<1> USE DEF Untouched, CallOK
<1>1. PlaceOK(d)'
  BY DEF PlaceOK
<1>2. ConversationOK(d)'
  BY DEF ConversationOK
<1>3. StreamOK(d)'
  BY DEF StreamOK
<1>4. ResultOK(d)'
  BY DEF ResultOK
<1> QED BY <1>1, <1>2, <1>3, <1>4

Held == {"running", "closing"}

\* The pool holds no more functions than before when the one of c does not enter it.
LEMMA PoolShrinks ==
    ASSUME LLMBounds, LLMTyped, NEW c \in Call, \A d \in Call \ {c} : Untouched(d),
           thread'[c] \in Held => thread[c] \in Held
    PROVE  IsFiniteSet(LLM!Busy') /\ Cardinality(LLM!Busy') <= Threads
<1>1. LLM!Busy' \subseteq LLM!Busy
  BY DEF Untouched, LLM!Busy, Held
<1>2. IsFiniteSet(LLM!Busy) /\ Cardinality(LLM!Busy) <= Threads
  BY TypeParts DEF LLMTyped
<1>3. IsFiniteSet(LLM!Busy') /\ Cardinality(LLM!Busy') <= Cardinality(LLM!Busy)
  BY <1>1, <1>2, FS_Subset
<1>4. Cardinality(LLM!Busy') \in Nat /\ Cardinality(LLM!Busy) \in Nat /\ Threads \in Nat
  BY <1>2, <1>3, FS_CardinalityType DEF LLMBounds
<1> QED BY <1>2, <1>3, <1>4

LEMMA PoolGrows ==
    ASSUME LLMBounds, LLMTyped, NEW c \in Call, LLM!RunInThread(c)
    PROVE  IsFiniteSet(LLM!Busy') /\ Cardinality(LLM!Busy') <= Threads
<1>1. thread \in [Call -> {"none", "queued", "running", "closing", "ended"}]
  BY DEF LLMTyped, LLM!TypeOK
<1>2. thread' = [thread EXCEPT ![c] = "running"] /\ thread[c] = "queued"
      /\ Cardinality(LLM!Busy) < Threads
  BY SameCardinality DEF LLM!RunInThread, LLM!Set
<1>3. LLM!Busy' = LLM!Busy \cup {c} /\ c \notin LLM!Busy
  BY <1>1, <1>2 DEF LLM!Busy
<1>4. IsFiniteSet(LLM!Busy)
  BY DEF LLMTyped
<1>5. IsFiniteSet(LLM!Busy') /\ Cardinality(LLM!Busy') = Cardinality(LLM!Busy) + 1
  BY <1>3, <1>4, FS_AddElement
<1>6. Cardinality(LLM!Busy) \in Nat /\ Threads \in Nat
  BY <1>4, FS_CardinalityType DEF LLMBounds
<1> QED BY <1>2, <1>5, <1>6

\* A step of one call keeps the invariant when it does so for that call.
LEMMA OneMoves ==
    ASSUME CallInv, NEW c \in Call, CallsTyped', Len(chunk_queue'[c]) <= QueueSize,
           IsFiniteSet(LLM!Busy') /\ Cardinality(LLM!Busy') <= Threads,
           \A d \in Call \ {c} : Untouched(d), CallOK(c)'
    PROVE  CallInv'
<1>1. \A d \in Call : CallOK(d)'
  BY UntouchedStays DEF CallInv
<1>2. \A d \in Call : Len(chunk_queue'[d]) <= QueueSize
  BY TypeParts DEF CallInv, LLMTyped, Untouched
<1>3. (/\ CallsTyped
       /\ \A d \in Call : Len(chunk_queue[d]) <= QueueSize
       /\ Cardinality(LLM!Busy) <= Threads)'
  BY <1>2
<1>4. LLM!TypeOK'
  BY <1>3, SameCardinality DEF LLM!TypeOK, CallsTyped, Message
<1> QED BY <1>1, <1>4 DEF CallInv, LLMTyped

LEMMA InvTyped == CallInv => CallsTyped /\ \A c \in Call : Len(chunk_queue[c]) <= QueueSize
BY TypeParts DEF CallInv, LLMTyped

-----------------------------------------------------------------------------
(* Requests *)

\* A call that is no stream, or that has not begun, keeps what holds of streams.
LEMMA StreamRests ==
    ASSUME NEW c \in Call, StreamOK(c), thread[c] \notin Closed, thread'[c] \notin Closed,
           call_pc'[c] # "joining", yielded'[c] = yielded[c], chunk_queue'[c] = chunk_queue[c],
           produced'[c] = produced[c]
    PROVE  StreamOK(c)'
BY DEF StreamOK, Closed

LEMMA StartKeeps ==
    ASSUME LLMBounds, CallInv, NEW c \in Call, LLM!Start(c)
    PROVE  CallInv'
<1> USE DEF LLM!Set, LLM!Goto, LLM!loop, LLM!bridge
<1>1. CallsTyped /\ Len(chunk_queue[c]) <= QueueSize /\ CallOK(c) /\ LLMTyped
  BY InvTyped DEF CallInv
<1>2. /\ call_pc[c] = "idle" /\ thread[c] = "none"
      /\ call_pc'[c] = IF kind[c] = "stream" THEN "reading" ELSE "asking"
      /\ thread'[c] = "queued"
  BY <1>1 DEF CallsTyped, LLM!Start, CallOK, PlaceOK
<1>3. CallsTyped'
  BY <1>1 DEF CallsTyped, LLM!Start, LLM!Place
<1>4. \A d \in Call \ {c} : Untouched(d)
  BY <1>1 DEF CallsTyped, LLM!Start, Untouched
<1>5. IsFiniteSet(LLM!Busy') /\ Cardinality(LLM!Busy') <= Threads
  BY <1>1, <1>2, <1>4, PoolShrinks DEF Held
<1>6. UNCHANGED <<kind, messages, todo, attempt, chunk_queue, yielded, produced, result>>
  BY DEF LLM!Start
<1>7. CallOK(c)'
  <2>1. PlaceOK(c)'
    BY <1>1, <1>2, <1>6 DEF PlaceOK, Closed, CallOK
  <2>2. ConversationOK(c)'
    BY <1>1, <1>2, <1>6 DEF ConversationOK, CallOK
  <2>3. StreamOK(c)'
    BY <1>1, <1>2, <1>6, StreamRests DEF CallOK, Closed
  <2>4. ResultOK(c)'
    BY <1>1, <1>2, <1>6 DEF ResultOK, CallOK
  <2> QED BY <2>1, <2>2, <2>3, <2>4 DEF CallOK
<1> QED BY <1>1, <1>3, <1>4, <1>5, <1>6, <1>7, OneMoves

LEMMA RunInThreadKeeps ==
    ASSUME LLMBounds, CallInv, NEW c \in Call, LLM!RunInThread(c)
    PROVE  CallInv'
<1> USE DEF LLM!Set, LLM!loop, LLM!bridge
<1>1. CallsTyped /\ Len(chunk_queue[c]) <= QueueSize /\ CallOK(c) /\ LLMTyped
  BY InvTyped DEF CallInv
<1>2. thread[c] = "queued" /\ thread'[c] = "running"
  BY <1>1 DEF CallsTyped, LLM!RunInThread
<1>3. CallsTyped'
  BY <1>1 DEF CallsTyped, LLM!RunInThread
<1>4. \A d \in Call \ {c} : Untouched(d)
  BY <1>1 DEF CallsTyped, LLM!RunInThread, Untouched
<1>5. UNCHANGED <<kind, call_pc, messages, todo, attempt, chunk_queue, yielded, produced,
                  sentinels, failure, left, result>>
  BY DEF LLM!RunInThread
<1>6. CallOK(c)'
  BY <1>1, <1>2, <1>5 DEF CallOK, PlaceOK, ConversationOK, StreamOK, ResultOK, Closed
<1> QED BY <1>1, <1>3, <1>4, <1>5, <1>6, PoolGrows, OneMoves

\* What every answer to a request changes and leaves.
LEMMA AnswerTakes ==
    ASSUME LLMBounds, CallInv, NEW c \in Call, LLM!Returned(c)
    PROVE  /\ CallsTyped /\ CallOK(c) /\ LLMTyped
           /\ call_pc[c] = "asking" /\ kind[c] # "stream" /\ AnsweredBut(messages[c], 0)
           /\ thread[c] = "running" /\ thread' = [thread EXCEPT ![c] = "none"]
           /\ thread'[c] = "none"
           /\ UNCHANGED <<kind, chunk_queue, yielded, produced, sentinels, failure, left>>
           /\ StreamOK(c)' \/ call_pc'[c] = "joining"
<1>1. CallsTyped /\ CallOK(c) /\ LLMTyped
  BY InvTyped DEF CallInv
<1>2. /\ call_pc[c] = "asking" /\ thread[c] = "running" /\ thread' = [thread EXCEPT ![c] = "none"]
      /\ UNCHANGED <<kind, chunk_queue, yielded, produced, sentinels, failure, left>>
  BY DEF LLM!Returned, LLM!Set, LLM!bridge
<1>3. thread'[c] = "none"
  BY <1>1, <1>2 DEF CallsTyped
<1>4. kind[c] # "stream" /\ AnsweredBut(messages[c], 0)
  BY <1>1, <1>2 DEF CallOK, PlaceOK, ConversationOK
<1>5. call_pc'[c] # "joining" => StreamOK(c)'
  BY <1>1, <1>2, <1>3, StreamRests DEF CallOK, Closed
<1> QED BY <1>1, <1>2, <1>3, <1>4, <1>5

\* A call that is over with its answer.
LEMMA Answered ==
    ASSUME LLMBounds, CallInv, NEW c \in Call, LLM!Returned(c),
           NEW r \in {"rate_limit", "timeout", "error", "text", "terminal"}, LLM!Return(c, r),
           r = "rate_limit" => attempt[c] = LLM!TotalAttempts, UNCHANGED LLM!loop
    PROVE  CallInv'
<1>1. /\ CallsTyped /\ CallOK(c) /\ LLMTyped
      /\ call_pc[c] = "asking" /\ kind[c] # "stream" /\ AnsweredBut(messages[c], 0)
      /\ thread[c] = "running" /\ thread' = [thread EXCEPT ![c] = "none"]
      /\ thread'[c] = "none"
      /\ UNCHANGED <<kind, chunk_queue, yielded, produced, sentinels, failure, left>>
      /\ StreamOK(c)' \/ call_pc'[c] = "joining"
  BY AnswerTakes
<1>2. /\ call_pc' = [call_pc EXCEPT ![c] = "done"] /\ result' = [result EXCEPT ![c] = r]
      /\ UNCHANGED <<attempt, iteration, messages, todo>>
  BY DEF LLM!Return, LLM!Goto, LLM!Set, LLM!loop
<1>3. CallsTyped' /\ call_pc'[c] = "done" /\ result'[c] = r
  BY <1>1, <1>2 DEF CallsTyped, LLM!Place, LLM!Failure
<1>4. \A d \in Call \ {c} : Untouched(d)
  BY <1>1, <1>2 DEF CallsTyped, Untouched
<1>5. IsFiniteSet(LLM!Busy') /\ Cardinality(LLM!Busy') <= Threads
  BY <1>1, <1>4, PoolShrinks DEF Held
<1>6. CallOK(c)'
  <2>1. PlaceOK(c)'
    BY <1>1, <1>3 DEF PlaceOK, Closed
  <2>2. ConversationOK(c)'
    BY <1>3 DEF ConversationOK
  <2>3. ResultOK(c)'
    BY <1>2, <1>3 DEF ResultOK
  <2> QED BY <1>1, <1>3, <2>1, <2>2, <2>3 DEF CallOK
<1>7. Len(chunk_queue'[c]) <= QueueSize
  BY <1>1, InvTyped
<1> QED BY <1>3, <1>4, <1>5, <1>6, <1>7, OneMoves

LEMMA RateLimitedKeeps ==
    ASSUME LLMBounds, CallInv, NEW c \in Call, LLM!RateLimited(c)
    PROVE  CallInv'
<1>1. LLM!Returned(c) /\ UNCHANGED LLM!loop
  BY DEF LLM!RateLimited
<1>2. CASE LLM!LastAttempt(attempt[c])
  BY <1>1, <1>2, Answered DEF LLM!RateLimited, LLM!LastAttempt
<1>3. CASE ~LLM!LastAttempt(attempt[c])
  <2>1. /\ CallsTyped /\ CallOK(c) /\ LLMTyped
        /\ call_pc[c] = "asking" /\ kind[c] # "stream" /\ AnsweredBut(messages[c], 0)
        /\ thread[c] = "running" /\ thread' = [thread EXCEPT ![c] = "none"]
        /\ thread'[c] = "none"
        /\ UNCHANGED <<kind, chunk_queue, yielded, produced, sentinels, failure, left>>
        /\ StreamOK(c)' \/ call_pc'[c] = "joining"
    BY <1>1, AnswerTakes
  <2>2. /\ call_pc' = [call_pc EXCEPT ![c] = "backoff"]
        /\ UNCHANGED <<attempt, iteration, messages, todo, result>>
    BY <1>1, <1>3 DEF LLM!RateLimited, LLM!Goto, LLM!Set, LLM!loop
  <2>3. CallsTyped' /\ call_pc'[c] = "backoff"
    BY <2>1, <2>2 DEF CallsTyped, LLM!Place
  <2>4. \A d \in Call \ {c} : Untouched(d)
    BY <2>1, <2>2 DEF CallsTyped, Untouched
  <2>5. IsFiniteSet(LLM!Busy') /\ Cardinality(LLM!Busy') <= Threads
    BY <2>1, <2>4, PoolShrinks DEF Held
  <2>6. attempt[c] < LLM!TotalAttempts
    <3>1. attempt[c] \in 1..LLM!TotalAttempts /\ LLM!TotalAttempts \in Nat
      BY <2>1 DEF CallsTyped, LLM!TotalAttempts, LLMBounds
    <3> QED BY <1>3, <3>1 DEF LLM!LastAttempt
  <2>7. CallOK(c)'
    <3>1. PlaceOK(c)'
      BY <2>1, <2>3 DEF PlaceOK, Closed
    <3>2. ConversationOK(c)'
      BY <2>1, <2>2, <2>3 DEF ConversationOK
    <3>3. result[c] = "none"
      BY <2>1 DEF CallOK, ResultOK
    <3>4. ResultOK(c)'
      BY <2>2, <2>3, <2>6, <3>3 DEF ResultOK
    <3> QED BY <2>1, <2>3, <3>1, <3>2, <3>4 DEF CallOK
  <2>8. Len(chunk_queue'[c]) <= QueueSize
    BY <2>1, InvTyped
  <2> QED BY <2>3, <2>4, <2>5, <2>7, <2>8, OneMoves
<1> QED BY <1>2, <1>3

LEMMA RequestFailsKeeps ==
    ASSUME LLMBounds, CallInv, NEW c \in Call, LLM!RequestFails(c)
    PROVE  CallInv'
BY Answered DEF LLM!RequestFails

LEMMA GenerateReturnsKeeps ==
    ASSUME LLMBounds, CallInv, NEW c \in Call, LLM!GenerateReturns(c)
    PROVE  CallInv'
BY Answered DEF LLM!GenerateReturns

LEMMA TextReturnedKeeps ==
    ASSUME LLMBounds, CallInv, NEW c \in Call, LLM!TextReturned(c)
    PROVE  CallInv'
BY Answered DEF LLM!TextReturned

LEMMA WakeUpKeeps ==
    ASSUME LLMBounds, CallInv, NEW c \in Call, LLM!WakeUp(c)
    PROVE  CallInv'
<1>1. CallsTyped /\ Len(chunk_queue[c]) <= QueueSize /\ CallOK(c) /\ LLMTyped
  BY InvTyped DEF CallInv
<1>2. /\ call_pc[c] = "backoff"
      /\ call_pc' = [call_pc EXCEPT ![c] = "asking"]
      /\ attempt' = [attempt EXCEPT ![c] = attempt[c] + 1]
      /\ thread' = [thread EXCEPT ![c] = "queued"]
      /\ UNCHANGED <<kind, iteration, messages, todo, chunk_queue, yielded, produced,
                     sentinels, failure, left, result>>
  BY DEF LLM!WakeUp, LLM!Goto, LLM!Set, LLM!bridge
<1>3. /\ kind[c] # "stream" /\ AnsweredBut(messages[c], 0) /\ thread[c] \notin Closed
      /\ attempt[c] < LLM!TotalAttempts /\ result[c] = "none"
  BY <1>1, <1>2 DEF CallOK, PlaceOK, ConversationOK, ResultOK
<1>4. attempt[c] + 1 \in 1..LLM!TotalAttempts
  <2>1. attempt[c] \in 1..LLM!TotalAttempts /\ LLM!TotalAttempts \in Nat
    BY <1>1 DEF CallsTyped, LLM!TotalAttempts, LLMBounds
  <2> QED BY <1>3, <2>1
<1>5. CallsTyped' /\ call_pc'[c] = "asking" /\ thread'[c] = "queued"
  BY <1>1, <1>2, <1>4 DEF CallsTyped, LLM!Place
<1>6. \A d \in Call \ {c} : Untouched(d)
  BY <1>1, <1>2 DEF CallsTyped, Untouched
<1>7. IsFiniteSet(LLM!Busy') /\ Cardinality(LLM!Busy') <= Threads
  BY <1>1, <1>5, <1>6, PoolShrinks DEF Held
<1>8. CallOK(c)'
  <2>1. PlaceOK(c)'
    BY <1>2, <1>3, <1>5 DEF PlaceOK, Closed
  <2>2. ConversationOK(c)'
    BY <1>2, <1>3, <1>5 DEF ConversationOK
  <2>3. StreamOK(c)'
    BY <1>1, <1>2, <1>3, <1>5, StreamRests DEF CallOK, Closed
  <2>4. ResultOK(c)'
    BY <1>2, <1>3, <1>5 DEF ResultOK
  <2> QED BY <2>1, <2>2, <2>3, <2>4 DEF CallOK
<1> QED BY <1>1, <1>2, <1>5, <1>6, <1>7, <1>8, OneMoves

LEMMA RecoveredKeeps ==
    ASSUME LLMBounds, CallInv, NEW c \in Call, LLM!Recovered(c)
    PROVE  CallInv'
<1>1. /\ CallsTyped /\ CallOK(c) /\ LLMTyped
      /\ call_pc[c] = "asking" /\ kind[c] # "stream" /\ AnsweredBut(messages[c], 0)
      /\ thread[c] = "running" /\ thread' = [thread EXCEPT ![c] = "none"]
      /\ thread'[c] = "none"
      /\ UNCHANGED <<kind, chunk_queue, yielded, produced, sentinels, failure, left>>
      /\ StreamOK(c)' \/ call_pc'[c] = "joining"
  BY AnswerTakes DEF LLM!Recovered
<1>2. /\ call_pc' = [call_pc EXCEPT ![c] = "recovering"]
      /\ UNCHANGED <<attempt, iteration, messages, todo, result>>
  BY DEF LLM!Recovered, LLM!Goto, LLM!Set, LLM!loop
<1>3. CallsTyped' /\ call_pc'[c] = "recovering" /\ result[c] = "none"
  BY <1>1, <1>2 DEF CallsTyped, LLM!Place, CallOK, ResultOK
<1>4. \A d \in Call \ {c} : Untouched(d)
  BY <1>1, <1>2 DEF CallsTyped, Untouched
<1>5. IsFiniteSet(LLM!Busy') /\ Cardinality(LLM!Busy') <= Threads
  BY <1>1, <1>4, PoolShrinks DEF Held
<1>6. CallOK(c)'
  <2>1. PlaceOK(c)'
    BY <1>1, <1>3 DEF PlaceOK, Closed
  <2>2. ConversationOK(c)'
    BY <1>1, <1>2, <1>3 DEF ConversationOK
  <2>3. ResultOK(c)'
    BY <1>2, <1>3 DEF ResultOK
  <2> QED BY <1>1, <1>3, <2>1, <2>2, <2>3 DEF CallOK
<1>7. Len(chunk_queue'[c]) <= QueueSize
  BY <1>1, InvTyped
<1> QED BY <1>3, <1>4, <1>5, <1>6, <1>7, OneMoves

LEMMA ToolsCalledKeeps ==
    ASSUME LLMBounds, CallInv, NEW c \in Call, LLM!ToolsCalled(c)
    PROVE  CallInv'
<1>1. /\ CallsTyped /\ CallOK(c) /\ LLMTyped
      /\ call_pc[c] = "asking" /\ kind[c] # "stream" /\ AnsweredBut(messages[c], 0)
      /\ thread[c] = "running" /\ thread' = [thread EXCEPT ![c] = "none"]
      /\ thread'[c] = "none"
      /\ UNCHANGED <<kind, chunk_queue, yielded, produced, sentinels, failure, left>>
      /\ StreamOK(c)' \/ call_pc'[c] = "joining"
  BY AnswerTakes DEF LLM!ToolsCalled
<1>2. PICK n \in 1..MaxToolCalls, calls \in Seq({"tool", "terminal"}) :
        /\ Len(calls) = n
        /\ todo' = [todo EXCEPT ![c] = calls]
        /\ messages' = [messages EXCEPT ![c] =
                          Append(messages[c], [role |-> "assistant", calls |-> n])]
  <2>1. PICK n \in 1..MaxToolCalls : \E calls \in [1..n -> {"tool", "terminal"}] :
          /\ todo' = LLM!Set(todo, c, calls)
          /\ messages' = LLM!Set(messages, c, Append(messages[c], LLM!Says("assistant", n)))
    BY DEF LLM!ToolsCalled
  <2>2. PICK calls \in [1..n -> {"tool", "terminal"}] :
          /\ todo' = LLM!Set(todo, c, calls)
          /\ messages' = LLM!Set(messages, c, Append(messages[c], LLM!Says("assistant", n)))
    BY <2>1
  <2>3. calls \in Seq({"tool", "terminal"}) /\ Len(calls) = n
    <3>1. n \in Nat
      BY <2>1
    <3> QED BY <2>2, <3>1
  <2> QED BY <2>1, <2>2, <2>3 DEF LLM!Set, LLM!Says
<1> DEFINE m == [role |-> "assistant", calls |-> n]
<1>3. /\ call_pc' = [call_pc EXCEPT ![c] = "executing"]
      /\ UNCHANGED <<attempt, iteration, result>>
  BY DEF LLM!ToolsCalled, LLM!Goto, LLM!Set
<1>4. n \in Nat /\ n > 0 /\ m \in Message /\ m.role = "assistant" /\ m.calls = n
  <2>1. n \in Nat /\ n > 0 /\ n \in 0..MaxToolCalls
    BY <1>2 DEF LLMBounds
  <2> QED BY <2>1 DEF Message
<1> HIDE DEF m
<1>5. messages[c] \in Seq(Message)
  BY <1>1 DEF CallsTyped
<1>6. Append(messages[c], m) \in Seq(Message) /\ Owing(Append(messages[c], m), n)
  BY <1>1, <1>4, <1>5, CallsOwed
<1>7. messages' = [messages EXCEPT ![c] = Append(messages[c], m)]
  BY <1>2 DEF m
<1>8. CallsTyped'
  BY <1>1, <1>2, <1>3, <1>6, <1>7 DEF CallsTyped, LLM!Place
<1>9. /\ call_pc'[c] = "executing" /\ result[c] = "none" /\ todo'[c] = calls
      /\ messages'[c] = Append(messages[c], m)
  BY <1>1, <1>2, <1>3, <1>7 DEF CallsTyped, CallOK, ResultOK
<1>10. \A d \in Call \ {c} : Untouched(d)
  BY <1>1, <1>2, <1>3, <1>7 DEF CallsTyped, Untouched
<1>11. IsFiniteSet(LLM!Busy') /\ Cardinality(LLM!Busy') <= Threads
  BY <1>1, <1>10, PoolShrinks DEF Held
<1>12. CallOK(c)'
  <2>1. PlaceOK(c)'
    BY <1>1, <1>9 DEF PlaceOK, Closed
  <2>2. calls # <<>>
    BY <1>2, <1>4
  <2>3. ConversationOK(c)'
    BY <1>2, <1>6, <1>9, <2>2 DEF ConversationOK
  <2>4. ResultOK(c)'
    BY <1>3, <1>9 DEF ResultOK
  <2> QED BY <1>1, <1>9, <2>1, <2>3, <2>4 DEF CallOK
<1>13. Len(chunk_queue'[c]) <= QueueSize
  BY <1>1, InvTyped
<1> QED BY <1>8, <1>10, <1>11, <1>12, <1>13, OneMoves

\* The loop goes on with a conversation in which everything is answered, or ends.
LEMMA LoopGoesOn ==
    ASSUME LLMBounds, CallInv, NEW c \in Call, call_pc[c] \in {"recovering", "executing"},
           NEW said, LLM!NextIteration(c, said),
           messages[c] \o said \in Seq(Message), AnsweredBut(messages[c] \o said, 0),
           todo' \in [Call -> Seq({"tool", "terminal"})],
           \A d \in Call \ {c} : todo'[d] = todo[d],
           UNCHANGED <<kind, chunk_queue, yielded, produced, sentinels, failure, left>>
    PROVE  CallInv'
<1>1. CallsTyped /\ Len(chunk_queue[c]) <= QueueSize /\ CallOK(c) /\ LLMTyped
  BY InvTyped DEF CallInv
<1> DEFINE new == messages[c] \o said
<1>2. new \in Seq(Message) /\ AnsweredBut(new, 0)
  OBVIOUS
<1>3. /\ messages' = [messages EXCEPT ![c] = new]
      /\ \/ /\ call_pc' = [call_pc EXCEPT ![c] = "done"]
            /\ result' = [result EXCEPT ![c] = "empty"]
            /\ UNCHANGED <<attempt, iteration, thread>>
         \/ /\ iteration[c] # MaxIterations
            /\ call_pc' = [call_pc EXCEPT ![c] = "asking"]
            /\ iteration' = [iteration EXCEPT ![c] = iteration[c] + 1]
            /\ attempt' = [attempt EXCEPT ![c] = 1]
            /\ thread' = [thread EXCEPT ![c] = "queued"]
            /\ UNCHANGED result
  BY DEF LLM!NextIteration, LLM!Return, LLM!Goto, LLM!Set
<1> HIDE DEF new
<1>4. kind[c] # "stream" /\ thread[c] \notin Closed /\ result[c] = "none"
  BY <1>1 DEF CallOK, PlaceOK, ResultOK
<1>5. messages'[c] = new /\ messages' \in [Call -> Seq(Message)]
      /\ \A d \in Call \ {c} : messages'[d] = messages[d]
  BY <1>1, <1>2, <1>3 DEF CallsTyped
<1>6. CASE /\ call_pc' = [call_pc EXCEPT ![c] = "done"]
           /\ result' = [result EXCEPT ![c] = "empty"]
           /\ UNCHANGED <<attempt, iteration, thread>>
  <2>1. CallsTyped' /\ call_pc'[c] = "done" /\ result'[c] = "empty"
    BY <1>1, <1>5, <1>6 DEF CallsTyped, LLM!Place
  <2>2. \A d \in Call \ {c} : Untouched(d)
    BY <1>1, <1>5, <1>6 DEF CallsTyped, Untouched
  <2>3. IsFiniteSet(LLM!Busy') /\ Cardinality(LLM!Busy') <= Threads
    BY <1>1, <1>6, <2>2, PoolShrinks
  <2>4. CallOK(c)'
    <3>1. PlaceOK(c)'
      BY <1>4, <1>6, <2>1 DEF PlaceOK
    <3>2. ConversationOK(c)'
      BY <2>1 DEF ConversationOK
    <3>3. StreamOK(c)'
      BY <1>1, <1>4, <1>6, <2>1, StreamRests DEF CallOK
    <3>4. ResultOK(c)'
      BY <2>1 DEF ResultOK
    <3> QED BY <3>1, <3>2, <3>3, <3>4 DEF CallOK
  <2> QED BY <1>1, <2>1, <2>2, <2>3, <2>4, OneMoves
<1>7. CASE /\ iteration[c] # MaxIterations
           /\ call_pc' = [call_pc EXCEPT ![c] = "asking"]
           /\ iteration' = [iteration EXCEPT ![c] = iteration[c] + 1]
           /\ attempt' = [attempt EXCEPT ![c] = 1]
           /\ thread' = [thread EXCEPT ![c] = "queued"]
           /\ UNCHANGED result
  <2>1. iteration[c] + 1 \in 1..MaxIterations /\ 1 \in 1..LLM!TotalAttempts
    <3>1. iteration[c] \in 1..MaxIterations /\ MaxIterations \in Nat /\ MaxRetries \in Nat
      BY <1>1 DEF CallsTyped, LLMBounds
    <3>2. LLM!TotalAttempts = MaxRetries + 1
      BY DEF LLM!TotalAttempts
    <3> QED BY <1>7, <3>1, <3>2
  <2>2. CallsTyped' /\ call_pc'[c] = "asking" /\ thread'[c] = "queued"
    BY <1>1, <1>5, <1>7, <2>1 DEF CallsTyped, LLM!Place
  <2>3. \A d \in Call \ {c} : Untouched(d)
    BY <1>1, <1>5, <1>7 DEF CallsTyped, Untouched
  <2>4. IsFiniteSet(LLM!Busy') /\ Cardinality(LLM!Busy') <= Threads
    BY <1>1, <2>2, <2>3, PoolShrinks DEF Held
  <2>5. CallOK(c)'
    <3>1. PlaceOK(c)'
      BY <1>4, <2>2 DEF PlaceOK, Closed
    <3>2. ConversationOK(c)'
      BY <1>2, <1>5, <2>2 DEF ConversationOK
    <3>3. StreamOK(c)'
      BY <1>1, <1>4, <2>2, StreamRests DEF CallOK, Closed
    <3>4. ResultOK(c)'
      BY <1>4, <1>7, <2>2 DEF ResultOK
    <3> QED BY <3>1, <3>2, <3>3, <3>4 DEF CallOK
  <2> QED BY <1>1, <2>2, <2>3, <2>4, <2>5, OneMoves
<1> QED BY <1>3, <1>6, <1>7

LEMMA OneSaid ==
    ASSUME NEW said \in Seq(Message), NEW m \in Message
    PROVE  said \o <<m>> = Append(said, m)
OBVIOUS

LEMMA TwoSaid ==
    ASSUME NEW said \in Seq(Message), NEW a \in Message, NEW u \in Message
    PROVE  said \o <<a, u>> = Append(Append(said, a), u)
OBVIOUS

LEMMA RunRecoveredKeeps ==
    ASSUME LLMBounds, CallInv, NEW c \in Call, LLM!RunRecovered(c)
    PROVE  CallInv'
<1> DEFINE u == [role |-> "user", calls |-> 0]
           a == [role |-> "assistant", calls |-> 0]
<1>1. CallsTyped /\ CallOK(c)
  BY InvTyped DEF CallInv
<1>2. /\ call_pc[c] = "recovering"
      /\ UNCHANGED <<kind, todo, chunk_queue, yielded, produced, sentinels, failure, left>>
  BY DEF LLM!RunRecovered, LLM!bridge
<1>3. messages[c] \in Seq(Message) /\ AnsweredBut(messages[c], 0)
      /\ todo' \in [Call -> Seq({"tool", "terminal"})]
  BY <1>1, <1>2 DEF CallsTyped, CallOK, ConversationOK
<1>4. /\ u \in Message /\ u.role = "user" /\ a \in Message /\ a.role = "assistant"
      /\ a.calls = 0
  BY DEF Message, LLMBounds
<1>5. LLM!NextIteration(c, <<u>>) \/ LLM!NextIteration(c, <<a, u>>)
  BY DEF LLM!RunRecovered, LLM!Says
<1> HIDE DEF u, a
<1>6. CASE LLM!NextIteration(c, <<u>>)
  <2>1. messages[c] \o <<u>> \in Seq(Message) /\ AnsweredBut(messages[c] \o <<u>>, 0)
    BY <1>3, <1>4, WordsAnswered, OneSaid
  <2> QED BY <1>2, <1>3, <1>6, <2>1, LoopGoesOn
<1>7. CASE LLM!NextIteration(c, <<a, u>>)
  <2>1. Append(messages[c], a) \in Seq(Message) /\ AnsweredBut(Append(messages[c], a), 0)
    BY <1>3, <1>4, WordsAnswered
  <2>2. messages[c] \o <<a, u>> \in Seq(Message) /\ AnsweredBut(messages[c] \o <<a, u>>, 0)
    BY <1>3, <1>4, <2>1, WordsAnswered, TwoSaid
  <2> QED BY <1>2, <1>3, <1>7, <2>2, LoopGoesOn
<1> QED BY <1>5, <1>6, <1>7

LEMMA TerminalCalledKeeps ==
    ASSUME LLMBounds, CallInv, NEW c \in Call, LLM!TerminalCalled(c)
    PROVE  CallInv'
<1> DEFINE m == [role |-> "tool", calls |-> 0]
<1>1. CallsTyped /\ Len(chunk_queue[c]) <= QueueSize /\ CallOK(c) /\ LLMTyped
  BY InvTyped DEF CallInv
<1>2. /\ call_pc[c] = "executing"
      /\ messages' = [messages EXCEPT ![c] = Append(messages[c], m)]
      /\ todo' = [todo EXCEPT ![c] = <<>>]
      /\ call_pc' = [call_pc EXCEPT ![c] = "done"]
      /\ result' = [result EXCEPT ![c] = "terminal"]
      /\ UNCHANGED <<kind, thread, attempt, iteration, chunk_queue, yielded, produced,
                     sentinels, failure, left>>
  BY DEF LLM!TerminalCalled, LLM!Says, LLM!Return, LLM!Goto, LLM!Set, LLM!bridge
<1>3. m \in Message
  BY DEF Message, LLMBounds
<1> HIDE DEF m
<1>4. kind[c] # "stream" /\ thread[c] \notin Closed
  BY <1>1, <1>2 DEF CallOK, PlaceOK
<1>5. messages[c] \in Seq(Message)
  BY <1>1 DEF CallsTyped
<1>6. Append(messages[c], m) \in Seq(Message) /\ <<>> \in Seq({"tool", "terminal"})
  BY <1>3, <1>5
<1>7. CallsTyped' /\ call_pc'[c] = "done" /\ result'[c] = "terminal"
  BY <1>1, <1>2, <1>6 DEF CallsTyped, LLM!Place
<1>8. \A d \in Call \ {c} : Untouched(d)
  BY <1>1, <1>2 DEF CallsTyped, Untouched
<1>9. IsFiniteSet(LLM!Busy') /\ Cardinality(LLM!Busy') <= Threads
  BY <1>1, <1>2, <1>8, PoolShrinks
<1>10. CallOK(c)'
  <2>1. PlaceOK(c)'
    BY <1>2, <1>4, <1>7 DEF PlaceOK
  <2>2. ConversationOK(c)'
    BY <1>7 DEF ConversationOK
  <2>3. StreamOK(c)'
    BY <1>1, <1>2, <1>4, <1>7, StreamRests DEF CallOK
  <2>4. ResultOK(c)'
    BY <1>7 DEF ResultOK
  <2> QED BY <2>1, <2>2, <2>3, <2>4 DEF CallOK
<1> QED BY <1>1, <1>2, <1>7, <1>8, <1>9, <1>10, OneMoves

LEMMA ToolExecutedKeeps ==
    ASSUME LLMBounds, CallInv, NEW c \in Call, LLM!ToolExecuted(c)
    PROVE  CallInv'
<1> DEFINE m   == [role |-> "tool", calls |-> 0]
           new == Append(messages[c], m)
           n   == Len(todo[c])
<1>1. CallsTyped /\ Len(chunk_queue[c]) <= QueueSize /\ CallOK(c) /\ LLMTyped
  BY InvTyped DEF CallInv
<1>2. /\ call_pc[c] = "executing" /\ todo[c] # <<>> /\ Owing(messages[c], n)
      /\ messages[c] \in Seq(Message) /\ todo[c] \in Seq({"tool", "terminal"})
  BY <1>1 DEF LLM!ToolExecuted, CallOK, ConversationOK, CallsTyped
<1>3. m \in Message /\ m.role = "tool"
  BY DEF Message, LLMBounds
<1>4. /\ todo' = [todo EXCEPT ![c] = Tail(todo[c])]
      /\ UNCHANGED <<kind, chunk_queue, yielded, produced, sentinels, failure, left>>
      /\ n = 1 => LLM!NextIteration(c, <<m>>)
      /\ n # 1 => /\ messages' = [messages EXCEPT ![c] = messages[c] \o <<m>>]
                  /\ UNCHANGED <<call_pc, result, attempt, iteration, thread>>
  BY DEF LLM!ToolExecuted, LLM!ToolSays, LLM!Says, LLM!Set, LLM!bridge
<1> HIDE DEF m
<1>5. messages[c] \o <<m>> = new
  BY <1>2, <1>3, OneSaid
<1>6. n \in Nat \ {0} /\ Tail(todo[c]) \in Seq({"tool", "terminal"}) /\ Len(Tail(todo[c])) = n - 1
  BY <1>2
<1>7. todo' \in [Call -> Seq({"tool", "terminal"})] /\ todo'[c] = Tail(todo[c])
      /\ \A d \in Call \ {c} : todo'[d] = todo[d]
  BY <1>1, <1>4, <1>6 DEF CallsTyped
<1>8. new \in Seq(Message) /\ Owing(new, n - 1)
  BY <1>2, <1>3, <1>6, ResultPays
<1> HIDE DEF new, n
<1>9. CASE n = 1
  <2>1. AnsweredBut(new, 0)
    BY <1>8, <1>9, AllPaid
  <2> QED BY <1>2, <1>4, <1>5, <1>7, <1>8, <1>9, <2>1, LoopGoesOn
<1>10. CASE n # 1
  <2>1. messages' = [messages EXCEPT ![c] = new]
        /\ UNCHANGED <<call_pc, result, attempt, iteration, thread>>
    BY <1>4, <1>5, <1>10
  <2>2. CallsTyped' /\ messages'[c] = new
    BY <1>1, <1>4, <1>7, <1>8, <2>1 DEF CallsTyped
  <2>3. \A d \in Call \ {c} : Untouched(d)
    BY <1>1, <1>4, <1>7, <2>1 DEF CallsTyped, Untouched
  <2>4. IsFiniteSet(LLM!Busy') /\ Cardinality(LLM!Busy') <= Threads
    BY <1>1, <2>1, <2>3, PoolShrinks
  <2>5. CallOK(c)'
    <3>1. PlaceOK(c)'
      BY <1>1, <1>4, <2>1 DEF PlaceOK, CallOK
    <3>2. Tail(todo[c]) # <<>>
      <4>1. \A s \in Seq({"tool", "terminal"}) : s = <<>> => Len(s) = 0
        BY EmptySeq
      <4>2. Len(Tail(todo[c])) = n - 1 /\ Tail(todo[c]) \in Seq({"tool", "terminal"})
        BY <1>6
      <4>3. n - 1 # 0
        <5>1. n \in Nat
          BY <1>6
        <5> QED BY <1>10, <5>1
      <4>4. Tail(todo[c]) = <<>> => Len(Tail(todo[c])) = 0
        BY <4>1, <4>2
      <4> QED BY <4>2, <4>3, <4>4
    <3>3. ConversationOK(c)'
      BY <1>2, <1>6, <1>7, <1>8, <2>1, <2>2, <3>2 DEF ConversationOK
    <3>4. StreamOK(c)'
      BY <1>1, <1>4, <2>1 DEF StreamOK, CallOK
    <3>5. ResultOK(c)'
      BY <1>1, <1>4, <2>1 DEF ResultOK, CallOK
    <3> QED BY <3>1, <3>3, <3>4, <3>5 DEF CallOK
  <2> QED BY <1>1, <1>4, <2>2, <2>3, <2>4, <2>5, OneMoves
<1> QED BY <1>9, <1>10

-----------------------------------------------------------------------------
(* Streams *)

\* A stream that reads or writes stays one, and nothing is said in it.
LEMMA StreamPlaces ==
    ASSUME NEW c \in Call, CallOK(c),
           \/ call_pc[c] \in {"reading", "yielded", "joining"}
           \/ kind[c] = "stream" /\ thread[c] # "none"
           \/ thread[c] \in Closed
    PROVE  /\ kind[c] = "stream"
           /\ call_pc[c] \in {"reading", "yielded", "joining", "done"}
           /\ result[c] # "none" => call_pc[c] = "done"
BY DEF CallOK, PlaceOK, ResultOK, Closed

LEMMA ConversationRests ==
    ASSUME NEW c \in Call, ConversationOK(c), call_pc[c] # "executing",
           call_pc'[c] # "executing", call_pc[c] = "done" => call_pc'[c] = "done",
           UNCHANGED messages
    PROVE  ConversationOK(c)'
BY DEF ConversationOK

\* Putting an item keeps the bridge in order.
LEMMA ItemPut ==
    ASSUME NEW got \in Seq(Nat), NEW waiting \in Seq(Nat), NEW n \in Nat, NEW item \in Nat,
           NEW m \in Nat, InBridge(got, waiting, n),
           \/ Len(got) + Len(waiting) = n /\ item = n + 1 /\ m = n + 1
           \/ Len(got) + Len(waiting) < n + 2 /\ item = 0 /\ m = n
    PROVE  /\ InBridge(got, Append(waiting, item), m)
           /\ Len(Append(waiting, item)) = Len(waiting) + 1
<1> DEFINE new == Append(waiting, item)
<1>1. /\ Len(got) \in Nat /\ Len(waiting) \in Nat /\ Len(new) = Len(waiting) + 1
      /\ DOMAIN waiting = 1..Len(waiting) /\ DOMAIN new = 1..Len(waiting) + 1
      /\ new[Len(waiting) + 1] = item /\ \A i \in 1..Len(waiting) : new[i] = waiting[i]
  OBVIOUS
<1> HIDE DEF new
<1>2. /\ Len(got) <= n /\ n <= Len(got) + Len(waiting) /\ Len(got) + Len(waiting) <= n + 2
      /\ \A i \in DOMAIN got : got[i] = i
      /\ \A i \in DOMAIN waiting : waiting[i] = IF Len(got) + i <= n THEN Len(got) + i ELSE 0
  BY DEF InBridge
<1>3. Len(got) <= m /\ m <= Len(got) + Len(new) /\ Len(got) + Len(new) <= m + 2
  BY <1>1, <1>2
<1>4. ASSUME NEW i \in DOMAIN new PROVE new[i] = IF Len(got) + i <= m THEN Len(got) + i ELSE 0
  <2>1. CASE i = Len(waiting) + 1
    <3>1. i \in Nat /\ new[i] = item /\ Len(got) + i = Len(got) + Len(waiting) + 1
      BY <1>1, <2>1
    <3>2. CASE Len(got) + Len(waiting) = n /\ item = n + 1 /\ m = n + 1
      BY <3>1, <3>2
    <3>3. CASE Len(got) + Len(waiting) < n + 2 /\ item = 0 /\ m = n
      <4>1. ~(Len(got) + i <= m)
        BY <1>1, <1>2, <3>1, <3>3
      <4> QED BY <3>1, <3>3, <4>1
    <3> QED BY <3>2, <3>3
  <2>2. CASE i \in 1..Len(waiting)
    <3>1. new[i] = IF Len(got) + i <= n THEN Len(got) + i ELSE 0
      BY <1>1, <1>2, <2>2
    <3>2. m = n \/ Len(got) + i <= n
      BY <1>1, <2>2
    <3>3. m = n \/ m = n + 1
      OBVIOUS
    <3> QED BY <1>1, <2>2, <3>1, <3>2, <3>3
  <2>3. i = Len(waiting) + 1 \/ i \in 1..Len(waiting)
    BY <1>1, <1>4
  <2> QED BY <2>1, <2>2, <2>3
<1>5. InBridge(got, new, m)
  BY <1>2, <1>3, <1>4 DEF InBridge
<1> QED BY <1>1, <1>5 DEF new

\* Getting an item: a chunk is the next one, a sentinel comes after the last.
LEMMA ItemGot ==
    ASSUME NEW got \in Seq(Nat), NEW waiting \in Seq(Nat), NEW n \in Nat,
           InBridge(got, waiting, n), waiting # <<>>
    PROVE  /\ Len(Tail(waiting)) = Len(waiting) - 1
           /\ Head(waiting) # 0 =>
                InBridge(Append(got, Head(waiting)), Tail(waiting), n)
                /\ Len(Append(got, Head(waiting))) = Len(got) + 1
           /\ Head(waiting) = 0 => Len(got) = n
<1> DEFINE h == Head(waiting)
           rest == Tail(waiting)
           more == Append(got, h)
<1>1. /\ Len(got) \in Nat /\ Len(waiting) \in Nat /\ Len(waiting) >= 1
      /\ DOMAIN waiting = 1..Len(waiting) /\ DOMAIN got = 1..Len(got)
      /\ rest \in Seq(Nat) /\ Len(rest) = Len(waiting) - 1 /\ DOMAIN rest = 1..Len(waiting) - 1
      /\ \A i \in 1..Len(waiting) - 1 : rest[i] = waiting[i + 1]
      /\ h \in Nat /\ h = waiting[1]
  OBVIOUS
<1>2. /\ more \in Seq(Nat) /\ Len(more) = Len(got) + 1 /\ DOMAIN more = 1..Len(got) + 1
      /\ more[Len(got) + 1] = h /\ \A i \in 1..Len(got) : more[i] = got[i]
  BY <1>1
<1> HIDE DEF h, rest, more
<1>3. /\ Len(got) <= n /\ n <= Len(got) + Len(waiting) /\ Len(got) + Len(waiting) <= n + 2
      /\ \A i \in DOMAIN got : got[i] = i
      /\ \A i \in DOMAIN waiting : waiting[i] = IF Len(got) + i <= n THEN Len(got) + i ELSE 0
  BY DEF InBridge
<1>4. h = IF Len(got) + 1 <= n THEN Len(got) + 1 ELSE 0
  <2>1. 1 \in DOMAIN waiting
    BY <1>1
  <2>2. waiting[1] = IF Len(got) + 1 <= n THEN Len(got) + 1 ELSE 0
    BY <1>3, <2>1
  <2> QED BY <1>1, <2>2
<1>5. ASSUME h # 0 PROVE InBridge(more, rest, n)
  <2>1. Len(got) + 1 <= n /\ h = Len(got) + 1
    BY <1>1, <1>4, <1>5
  <2>2. \A i \in DOMAIN more : more[i] = i
    <3>1. TAKE i \in DOMAIN more
    <3>2. i = Len(got) + 1 \/ i \in 1..Len(got)
      BY <1>1, <1>2
    <3> QED BY <1>1, <1>2, <1>3, <2>1, <3>2
  <2>3. Len(more) <= n /\ n <= Len(more) + Len(rest) /\ Len(more) + Len(rest) <= n + 2
    BY <1>1, <1>2, <1>3, <2>1
  <2>4. \A i \in DOMAIN rest : rest[i] = IF Len(more) + i <= n THEN Len(more) + i ELSE 0
    <3>1. TAKE i \in DOMAIN rest
    <3>2. i \in Nat /\ i + 1 \in 1..Len(waiting) /\ rest[i] = waiting[i + 1]
      BY <1>1
    <3>3. waiting[i + 1] = IF Len(got) + (i + 1) <= n THEN Len(got) + (i + 1) ELSE 0
      BY <1>1, <1>3, <3>2
    <3>4. Len(more) + i = Len(got) + (i + 1)
      BY <1>1, <1>2, <3>2
    <3> QED BY <3>2, <3>3, <3>4
  <2> QED BY <2>2, <2>3, <2>4 DEF InBridge
<1>6. ASSUME h = 0 PROVE Len(got) = n
  <2>1. ~(Len(got) + 1 <= n)
    BY <1>1, <1>4, <1>6
  <2>2. Len(got) \in Nat /\ Len(got) <= n
    BY <1>1, <1>3
  <2> QED BY <2>1, <2>2
<1> QED BY <1>1, <1>2, <1>5, <1>6 DEF h, rest, more

\* The bridge of a call as sequences and numbers.
LEMMA BridgeTyped ==
    ASSUME LLMBounds, CallInv, NEW c \in Call
    PROVE  /\ CallsTyped /\ CallOK(c) /\ LLMTyped /\ Len(chunk_queue[c]) <= QueueSize
           /\ yielded[c] \in Seq(Nat) /\ Len(yielded[c]) \in Nat
           /\ chunk_queue[c] \in Seq(Nat) /\ Len(chunk_queue[c]) \in Nat
           /\ produced[c] \in Nat /\ sentinels[c] \in Nat /\ QueueSize \in Nat /\ MaxChunks \in Nat
           /\ chunk_queue[c] \in Seq(0..MaxChunks) /\ yielded[c] \in Seq(1..MaxChunks)
<1>1. CallsTyped /\ CallOK(c) /\ LLMTyped /\ Len(chunk_queue[c]) <= QueueSize
  BY InvTyped DEF CallInv
<1>2. /\ chunk_queue[c] \in Seq(0..MaxChunks) /\ yielded[c] \in Seq(1..MaxChunks)
      /\ produced[c] \in 0..MaxChunks /\ sentinels[c] \in 0..2
  BY <1>1 DEF CallsTyped
<1>3. QueueSize \in Nat /\ MaxChunks \in Nat
  BY DEF LLMBounds
<1>4. Seq(0..MaxChunks) \subseteq Seq(Nat) /\ Seq(1..MaxChunks) \subseteq Seq(Nat)
  BY <1>3
<1>5. yielded[c] \in Seq(Nat) /\ chunk_queue[c] \in Seq(Nat)
  BY <1>2, <1>4
<1>6. Len(yielded[c]) \in Nat /\ Len(chunk_queue[c]) \in Nat
  BY <1>5
<1> QED BY <1>1, <1>2, <1>3, <1>5, <1>6

LEMMA PutChunkKeeps ==
    ASSUME LLMBounds, CallInv, NEW c \in Call, LLM!PutChunk(c)
    PROVE  CallInv'
<1> DEFINE n    == produced[c] + 1
           more == Append(chunk_queue[c], n)
<1>1. /\ CallsTyped /\ CallOK(c) /\ LLMTyped /\ Len(chunk_queue[c]) <= QueueSize
      /\ yielded[c] \in Seq(Nat) /\ Len(yielded[c]) \in Nat
      /\ chunk_queue[c] \in Seq(Nat) /\ Len(chunk_queue[c]) \in Nat
      /\ produced[c] \in Nat /\ QueueSize \in Nat /\ MaxChunks \in Nat
      /\ chunk_queue[c] \in Seq(0..MaxChunks)
  BY BridgeTyped
<1>2. /\ kind[c] = "stream" /\ thread[c] = "running"
      /\ produced[c] < MaxChunks /\ Len(chunk_queue[c]) < QueueSize
      /\ chunk_queue' = [chunk_queue EXCEPT ![c] = more]
      /\ produced' = [produced EXCEPT ![c] = n]
      /\ UNCHANGED <<kind, call_pc, thread, attempt, iteration, messages, todo, sentinels,
                     failure, yielded, left, result>>
  BY DEF LLM!PutChunk, LLM!Put, LLM!HasRoom, LLM!Set, LLM!loop
<1>3. n \in Nat /\ n \in 0..MaxChunks
  BY <1>1, <1>2
<1>4. more \in Seq(0..MaxChunks)
  BY <1>1, <1>3
<1>5. /\ InBridge(yielded[c], chunk_queue[c], produced[c]) /\ thread[c] \notin Closed
      /\ Len(yielded[c]) + Len(chunk_queue[c]) = produced[c]
  BY <1>1, <1>2 DEF CallOK, StreamOK, Closed
<1>6. InBridge(yielded[c], more, n) /\ Len(more) = Len(chunk_queue[c]) + 1
  BY <1>1, <1>3, <1>5, ItemPut
<1> HIDE DEF n, more
<1>7. CallsTyped' /\ chunk_queue'[c] = more /\ produced'[c] = n
  BY <1>1, <1>2, <1>3, <1>4 DEF CallsTyped
<1>8. \A d \in Call \ {c} : Untouched(d)
  BY <1>1, <1>2 DEF CallsTyped, Untouched
<1>9. IsFiniteSet(LLM!Busy') /\ Cardinality(LLM!Busy') <= Threads
  BY <1>1, <1>2, <1>8, PoolShrinks
<1>10. Len(more) <= QueueSize /\ Len(yielded[c]) + Len(more) = n
  <2> DEFINE y == Len(yielded[c])
             q == Len(chunk_queue[c])
             p == produced[c]
             m == Len(more)
  <2>1. y \in Nat /\ q \in Nat /\ p \in Nat /\ QueueSize \in Nat
    BY <1>1
  <2>2. q < QueueSize /\ y + q = p /\ m = q + 1
    BY <1>2, <1>5, <1>6
  <2> HIDE DEF y, q, p, m
  <2>3. m <= QueueSize /\ y + m = p + 1
    BY <2>1, <2>2
  <2> QED BY <2>3 DEF y, p, m, n
<1>11. CallOK(c)'
  <2>1. PlaceOK(c)' /\ ConversationOK(c)'
    BY <1>1, <1>2 DEF PlaceOK, ConversationOK, CallOK
  <2>2. thread'[c] \notin Closed /\ (call_pc'[c] = "joining" => left'[c])
    BY <1>1, <1>2, <1>5 DEF CallOK, StreamOK
  <2>3. StreamOK(c)'
    BY <1>2, <1>6, <1>7, <1>10, <2>2 DEF StreamOK, Closed
  <2>4. result[c] # "complete"
    BY <1>1, <1>5 DEF CallOK, ResultOK
  <2>5. ResultOK(c)'
    BY <1>1, <1>2, <2>4 DEF ResultOK, CallOK
  <2> QED BY <2>1, <2>3, <2>5 DEF CallOK
<1> QED BY <1>7, <1>8, <1>9, <1>10, <1>11, OneMoves

LEMMA AnswerEndsKeeps ==
    ASSUME LLMBounds, CallInv, NEW c \in Call, LLM!AnswerEnds(c)
    PROVE  CallInv'
<1>1. /\ CallsTyped /\ CallOK(c) /\ LLMTyped /\ Len(chunk_queue[c]) <= QueueSize
      /\ Len(yielded[c]) \in Nat /\ Len(chunk_queue[c]) \in Nat /\ produced[c] \in Nat
  BY BridgeTyped
<1>2. PICK f \in LLM!Failure \cup {"none"}, s \in {1, 2} :
        /\ failure' = [failure EXCEPT ![c] = f]
        /\ sentinels' = [sentinels EXCEPT ![c] = s]
  BY DEF LLM!AnswerEnds, LLM!Sentinels, LLM!Set
<1>3. /\ kind[c] = "stream" /\ thread[c] = "running"
      /\ thread' = [thread EXCEPT ![c] = "closing"]
      /\ UNCHANGED <<kind, call_pc, attempt, iteration, messages, todo, chunk_queue, produced,
                     yielded, left, result>>
  BY DEF LLM!AnswerEnds, LLM!Set, LLM!loop
<1>4. CallsTyped' /\ thread'[c] = "closing" /\ sentinels'[c] = s
  BY <1>1, <1>2, <1>3 DEF CallsTyped
<1>5. \A d \in Call \ {c} : Untouched(d)
  BY <1>1, <1>2, <1>3 DEF CallsTyped, Untouched
<1>6. IsFiniteSet(LLM!Busy') /\ Cardinality(LLM!Busy') <= Threads
  BY <1>1, <1>3, <1>5, PoolShrinks DEF Held
<1>7. /\ InBridge(yielded[c], chunk_queue[c], produced[c]) /\ thread[c] \notin Closed
      /\ Len(yielded[c]) + Len(chunk_queue[c]) = produced[c]
  BY <1>1, <1>3 DEF CallOK, StreamOK, Closed
<1>8. CallOK(c)'
  <2>1. PlaceOK(c)' /\ ConversationOK(c)'
    BY <1>1, <1>3, <1>4 DEF PlaceOK, ConversationOK, CallOK
  <2>2. s > 0 /\ Len(yielded[c]) + Len(chunk_queue[c]) + s <= produced[c] + 2
    <3> DEFINE y == Len(yielded[c])
               q == Len(chunk_queue[c])
               p == produced[c]
    <3>1. y \in Nat /\ q \in Nat /\ p \in Nat /\ y + q = p
      BY <1>1, <1>7
    <3> HIDE DEF y, q, p
    <3>2. s > 0 /\ y + q + s <= p + 2
      BY <1>2, <3>1
    <3> QED BY <3>2 DEF y, q, p
  <2>3. call_pc[c] = "joining" => left[c]
    BY <1>1, <1>7 DEF CallOK, StreamOK
  <2>4. StreamOK(c)'
    BY <1>3, <1>4, <1>7, <2>2, <2>3 DEF StreamOK, Closed
  <2>5. result[c] # "complete"
    BY <1>1, <1>7 DEF CallOK, ResultOK
  <2>6. ResultOK(c)'
    BY <1>1, <1>3, <2>5 DEF ResultOK, CallOK
  <2> QED BY <2>1, <2>4, <2>6 DEF CallOK
<1> QED BY <1>1, <1>3, <1>4, <1>5, <1>6, <1>8, OneMoves

LEMMA PutSentinelKeeps ==
    ASSUME LLMBounds, CallInv, NEW c \in Call, LLM!PutSentinel(c)
    PROVE  CallInv'
<1> DEFINE more == Append(chunk_queue[c], 0)
           s    == sentinels[c]
           n    == produced[c]
<1>1. /\ CallsTyped /\ CallOK(c) /\ LLMTyped /\ Len(chunk_queue[c]) <= QueueSize
      /\ yielded[c] \in Seq(Nat) /\ Len(yielded[c]) \in Nat
      /\ chunk_queue[c] \in Seq(Nat) /\ Len(chunk_queue[c]) \in Nat
      /\ n \in Nat /\ s \in Nat /\ QueueSize \in Nat /\ MaxChunks \in Nat
      /\ chunk_queue[c] \in Seq(0..MaxChunks)
  BY BridgeTyped
<1>2. /\ thread[c] = "closing" /\ Len(chunk_queue[c]) < QueueSize
      /\ chunk_queue' = [chunk_queue EXCEPT ![c] = more]
      /\ sentinels' = [sentinels EXCEPT ![c] = s - 1]
      /\ thread' = IF s = 1 THEN [thread EXCEPT ![c] = "ended"] ELSE thread
      /\ UNCHANGED <<kind, call_pc, attempt, iteration, messages, todo, produced,
                     failure, yielded, left, result>>
  BY DEF LLM!PutSentinel, LLM!Put, LLM!HasRoom, LLM!None, LLM!Set, LLM!loop
<1>3. 0 \in 0..MaxChunks /\ more \in Seq(0..MaxChunks)
  BY <1>1
<1>4. /\ InBridge(yielded[c], chunk_queue[c], n)
      /\ s > 0 /\ Len(yielded[c]) + Len(chunk_queue[c]) + s <= n + 2
  BY <1>1, <1>2 DEF CallOK, StreamOK
<1>5. Len(yielded[c]) + Len(chunk_queue[c]) < n + 2
  <2>1. Len(yielded[c]) \in Nat /\ Len(chunk_queue[c]) \in Nat /\ n \in Nat /\ s \in Nat
    BY <1>1
  <2>2. s > 0 /\ Len(yielded[c]) + Len(chunk_queue[c]) + s <= n + 2
    BY <1>4
  <2>3. \A y, q, p, t \in Nat : t > 0 /\ y + q + t <= p + 2 => y + q < p + 2
    OBVIOUS
  <2> HIDE DEF n, s
  <2> QED BY <2>1, <2>2, <2>3
<1>6. InBridge(yielded[c], more, n) /\ Len(more) = Len(chunk_queue[c]) + 1
  BY <1>1, <1>4, <1>5, ItemPut
<1>7. s - 1 \in 0..2
  <2>1. s \in 0..2
    BY <1>1 DEF CallsTyped
  <2> QED BY <1>4, <2>1
<1> HIDE DEF more, s
<1>8. CallsTyped' /\ chunk_queue'[c] = more /\ sentinels'[c] = s - 1
  BY <1>1, <1>2, <1>3, <1>7 DEF CallsTyped
<1>9. /\ s = 1 => thread'[c] = "ended"
      /\ s # 1 => thread'[c] = "closing"
  BY <1>1, <1>2 DEF CallsTyped
<1>10. \A d \in Call \ {c} : Untouched(d)
  <2>1. \A d \in Call \ {c} : thread'[d] = thread[d]
    BY <1>1, <1>2 DEF CallsTyped
  <2> QED BY <1>1, <1>2, <2>1 DEF CallsTyped, Untouched
<1>11. IsFiniteSet(LLM!Busy') /\ Cardinality(LLM!Busy') <= Threads
  BY <1>1, <1>2, <1>10, PoolShrinks DEF Held
<1>12. Len(more) <= QueueSize
       /\ (s # 1 => s - 1 > 0 /\ Len(yielded[c]) + Len(more) + (s - 1) <= n + 2)
  <2>1. /\ Len(yielded[c]) \in Nat /\ Len(chunk_queue[c]) \in Nat /\ n \in Nat /\ s \in Nat
        /\ QueueSize \in Nat
    BY <1>1
  <2>2. s > 0 /\ Len(yielded[c]) + Len(chunk_queue[c]) + s <= n + 2
    BY <1>4
  <2>3. Len(chunk_queue[c]) < QueueSize /\ Len(more) = Len(chunk_queue[c]) + 1
    BY <1>2, <1>6
  <2>4. \A y, q, p, t, size, m \in Nat :
          t > 0 /\ y + q + t <= p + 2 /\ q < size /\ m = q + 1 =>
            m <= size /\ (t # 1 => t - 1 > 0 /\ y + m + (t - 1) <= p + 2)
    OBVIOUS
  <2>5. Len(more) \in Nat
    BY <2>1, <2>3
  <2> HIDE DEF n
  <2> QED BY <2>1, <2>2, <2>3, <2>4, <2>5
<1>13. CallOK(c)'
  <2>1. thread'[c] \in Closed /\ thread[c] \in Closed /\ kind[c] = "stream"
        /\ call_pc[c] # "executing"
    BY <1>1, <1>2, <1>9, StreamPlaces DEF Closed
  <2>2. PlaceOK(c)'
    BY <1>1, <1>2, <2>1 DEF PlaceOK, CallOK, Closed
  <2>3. ConversationOK(c)'
    BY <1>1, <1>2 DEF ConversationOK, CallOK
  <2>4. /\ call_pc'[c] = "joining" /\ ~left'[c] => Len(yielded'[c]) = produced'[c]
        /\ thread'[c] = "closing" => s # 1
    BY <1>1, <1>2, <1>9 DEF CallOK, StreamOK
  <2>5. StreamOK(c)'
    BY <1>2, <1>6, <1>8, <1>12, <2>1, <2>4 DEF StreamOK
  <2>6. ResultOK(c)'
    BY <1>1, <1>2, <2>1 DEF ResultOK, CallOK
  <2> QED BY <2>2, <2>3, <2>5, <2>6 DEF CallOK
<1>14. Len(chunk_queue'[c]) <= QueueSize
  BY <1>8, <1>12
<1> QED BY <1>8, <1>10, <1>11, <1>13, <1>14, OneMoves

LEMMA YieldChunkKeeps ==
    ASSUME LLMBounds, CallInv, NEW c \in Call, LLM!YieldChunk(c)
    PROVE  CallInv'
<1> DEFINE h    == Head(chunk_queue[c])
           rest == Tail(chunk_queue[c])
           more == Append(yielded[c], h)
           n    == produced[c]
<1>1. /\ CallsTyped /\ CallOK(c) /\ LLMTyped /\ Len(chunk_queue[c]) <= QueueSize
      /\ yielded[c] \in Seq(Nat) /\ Len(yielded[c]) \in Nat
      /\ chunk_queue[c] \in Seq(Nat) /\ Len(chunk_queue[c]) \in Nat
      /\ n \in Nat /\ sentinels[c] \in Nat /\ QueueSize \in Nat /\ MaxChunks \in Nat
      /\ chunk_queue[c] \in Seq(0..MaxChunks) /\ yielded[c] \in Seq(1..MaxChunks)
  BY BridgeTyped
<1>2. /\ call_pc[c] = "reading" /\ chunk_queue[c] # <<>> /\ h # 0
      /\ chunk_queue' = [chunk_queue EXCEPT ![c] = rest]
      /\ yielded' = [yielded EXCEPT ![c] = more]
      /\ call_pc' = [call_pc EXCEPT ![c] = "yielded"]
      /\ UNCHANGED <<kind, thread, attempt, iteration, messages, todo, produced, sentinels,
                     failure, left, result>>
  BY DEF LLM!YieldChunk, LLM!Get, LLM!None, LLM!Goto, LLM!Set, LLM!loop
<1>3. h \in 0..MaxChunks /\ rest \in Seq(0..MaxChunks)
  BY <1>1, <1>2, HeadTailProperties
<1>4. more \in Seq(1..MaxChunks)
  <2>1. h \in 1..MaxChunks
    BY <1>1, <1>2, <1>3
  <2> HIDE DEF h
  <2> QED BY <1>1, <2>1
<1>5. InBridge(yielded[c], chunk_queue[c], n)
  BY <1>1 DEF CallOK, StreamOK
<1>6. /\ InBridge(more, rest, n) /\ Len(rest) = Len(chunk_queue[c]) - 1
      /\ Len(more) = Len(yielded[c]) + 1
  BY <1>1, <1>2, <1>5, ItemGot
<1> HIDE DEF h, rest, more
<1>7. CallsTyped' /\ chunk_queue'[c] = rest /\ yielded'[c] = more /\ call_pc'[c] = "yielded"
  BY <1>1, <1>2, <1>3, <1>4 DEF CallsTyped, LLM!Place
<1>8. \A d \in Call \ {c} : Untouched(d)
  BY <1>1, <1>2 DEF CallsTyped, Untouched
<1>9. IsFiniteSet(LLM!Busy') /\ Cardinality(LLM!Busy') <= Threads
  BY <1>1, <1>2, <1>8, PoolShrinks
<1>10. /\ Len(rest) <= QueueSize
       /\ Len(more) + Len(rest) = Len(yielded[c]) + Len(chunk_queue[c])
  <2> DEFINE y == Len(yielded[c])
             q == Len(chunk_queue[c])
             y1 == Len(more)
             q1 == Len(rest)
  <2>1. y \in Nat /\ q \in Nat /\ QueueSize \in Nat
    BY <1>1
  <2>2. q <= QueueSize /\ q1 = q - 1 /\ y1 = y + 1
    BY <1>1, <1>6
  <2> HIDE DEF y, q, y1, q1
  <2>3. q1 <= QueueSize /\ y1 + q1 = y + q
    BY <2>1, <2>2
  <2> QED BY <2>3 DEF y, q, y1, q1
<1>11. CallOK(c)'
  <2>1. kind[c] = "stream" /\ result[c] = "none"
    BY <1>1, <1>2, StreamPlaces
  <2>2. PlaceOK(c)'
    BY <1>2, <1>7, <2>1 DEF PlaceOK
  <2>3. ConversationOK(c)'
    BY <1>1, <1>2, <1>7, ConversationRests DEF CallOK
  <2>4. StreamOK(c)'
    BY <1>1, <1>2, <1>6, <1>7, <1>10 DEF StreamOK, CallOK
  <2>5. ResultOK(c)'
    BY <1>2, <1>7, <2>1 DEF ResultOK
  <2> QED BY <2>2, <2>3, <2>4, <2>5 DEF CallOK
<1>12. Len(chunk_queue'[c]) <= QueueSize
  BY <1>7, <1>10
<1> QED BY <1>7, <1>8, <1>9, <1>11, <1>12, OneMoves

LEMMA GetSentinelKeeps ==
    ASSUME LLMBounds, CallInv, NEW c \in Call, LLM!GetSentinel(c)
    PROVE  CallInv'
<1> DEFINE rest == Tail(chunk_queue[c])
           n    == produced[c]
<1>1. /\ CallsTyped /\ CallOK(c) /\ LLMTyped /\ Len(chunk_queue[c]) <= QueueSize
      /\ yielded[c] \in Seq(Nat) /\ Len(yielded[c]) \in Nat
      /\ chunk_queue[c] \in Seq(Nat) /\ Len(chunk_queue[c]) \in Nat
      /\ n \in Nat /\ sentinels[c] \in Nat /\ QueueSize \in Nat /\ MaxChunks \in Nat
      /\ chunk_queue[c] \in Seq(0..MaxChunks) /\ yielded[c] \in Seq(1..MaxChunks)
  BY BridgeTyped
<1>2. /\ call_pc[c] = "reading" /\ chunk_queue[c] # <<>> /\ Head(chunk_queue[c]) = 0
      /\ chunk_queue' = [chunk_queue EXCEPT ![c] = rest]
      /\ call_pc' = [call_pc EXCEPT ![c] = "joining"]
      /\ UNCHANGED <<kind, thread, attempt, iteration, messages, todo, produced, sentinels,
                     failure, yielded, left, result>>
  BY DEF LLM!GetSentinel, LLM!Get, LLM!None, LLM!Goto, LLM!Set, LLM!loop
<1>3. rest \in Seq(0..MaxChunks)
  BY <1>1, <1>2, HeadTailProperties
<1>4. InBridge(yielded[c], chunk_queue[c], n)
  BY <1>1 DEF CallOK, StreamOK
<1>5. Len(rest) = Len(chunk_queue[c]) - 1 /\ Len(yielded[c]) = n
  BY <1>1, <1>2, <1>4, ItemGot
<1>6. Len(chunk_queue[c]) > 0
  BY <1>1, <1>2
<1>7. thread[c] \in Closed
  <2>1. SUFFICES ASSUME thread[c] \notin Closed PROVE FALSE
    OBVIOUS
  <2>2. Len(yielded[c]) + Len(chunk_queue[c]) = n
    BY <1>1, <2>1 DEF CallOK, StreamOK
  <2>3. \A y, q, p \in Nat : y + q = p /\ q > 0 => y # p
    OBVIOUS
  <2> QED BY <1>1, <1>5, <1>6, <2>2, <2>3
<1> HIDE DEF rest
<1>8. InBridge(yielded[c], rest, n)
  <2> DEFINE q == chunk_queue[c]
             y == Len(yielded[c])
  <2>1. /\ y = n /\ \A i \in DOMAIN yielded[c] : yielded[c][i] = i
        /\ y + Len(q) <= n + 2
        /\ \A i \in DOMAIN q : q[i] = IF y + i <= n THEN y + i ELSE 0
    BY <1>4, <1>5 DEF InBridge
  <2>2. /\ DOMAIN rest = 1..Len(rest) /\ Len(rest) \in Nat /\ DOMAIN q = 1..Len(q)
        /\ \A i \in 1..Len(rest) : rest[i] = q[i + 1]
    BY <1>1, <1>2 DEF rest
  <2>3. y \in Nat /\ Len(q) \in Nat /\ Len(rest) = Len(q) - 1 /\ n \in Nat
    BY <1>1, <1>5
  <2> HIDE DEF q, y, n
  <2>4. n <= y + Len(rest) /\ y + Len(rest) <= n + 2 /\ y <= n
    BY <2>1, <2>2, <2>3
  <2>5. ASSUME NEW i \in DOMAIN rest
        PROVE  rest[i] = IF y + i <= n THEN y + i ELSE 0
    <3>1. i \in Nat /\ i > 0 /\ i + 1 \in DOMAIN q /\ rest[i] = q[i + 1]
      BY <2>2, <2>3
    <3>2. ~(y + (i + 1) <= n) /\ ~(y + i <= n)
      BY <2>1, <2>3, <3>1
    <3>3. q[i + 1] = IF y + (i + 1) <= n THEN y + (i + 1) ELSE 0
      BY <2>1, <3>1
    <3> QED BY <3>1, <3>2, <3>3
  <2> QED BY <2>1, <2>4, <2>5 DEF InBridge, y
<1>9. CallsTyped' /\ chunk_queue'[c] = rest /\ call_pc'[c] = "joining"
  BY <1>1, <1>2, <1>3 DEF CallsTyped, LLM!Place
<1>10. \A d \in Call \ {c} : Untouched(d)
  BY <1>1, <1>2 DEF CallsTyped, Untouched
<1>11. IsFiniteSet(LLM!Busy') /\ Cardinality(LLM!Busy') <= Threads
  BY <1>1, <1>2, <1>10, PoolShrinks
<1>12. Len(chunk_queue'[c]) <= QueueSize
  <2>1. \A k, size \in Nat : k <= size => k - 1 <= size
    OBVIOUS
  <2> QED BY <1>1, <1>5, <1>9, <2>1
<1>13. CallOK(c)'
  <2>1. kind[c] = "stream" /\ result[c] = "none"
    BY <1>1, <1>2, StreamPlaces
  <2>2. PlaceOK(c)'
    BY <1>2, <1>9, <2>1 DEF PlaceOK
  <2>3. ConversationOK(c)'
    BY <1>1, <1>2, <1>9, ConversationRests DEF CallOK
  <2>4. thread[c] = "closing" => /\ sentinels[c] > 0
                                 /\ Len(yielded[c]) + Len(rest) + sentinels[c] <= n + 2
    <3>1. \A y, q, s, p \in Nat : y + q + s <= p + 2 => y + (q - 1) + s <= p + 2
      OBVIOUS
    <3> QED BY <1>1, <1>5, <3>1 DEF CallOK, StreamOK
  <2>5. StreamOK(c)'
    BY <1>2, <1>5, <1>7, <1>8, <1>9, <2>4 DEF StreamOK
  <2>6. ResultOK(c)'
    BY <1>2, <1>9, <2>1 DEF ResultOK
  <2> QED BY <2>2, <2>3, <2>5, <2>6 DEF CallOK
<1> QED BY <1>9, <1>10, <1>11, <1>12, <1>13, OneMoves

\* A step that moves the generator alone, while the bridge rests.
LEMMA GeneratorMoves ==
    ASSUME LLMBounds, CallInv, NEW c \in Call,
           call_pc[c] \in {"reading", "yielded"}, NEW to \in {"reading", "joining"},
           call_pc' = [call_pc EXCEPT ![c] = to],
           NEW gone \in BOOLEAN, left' = [left EXCEPT ![c] = gone], to = "joining" => gone,
           UNCHANGED <<kind, thread, attempt, iteration, messages, todo, chunk_queue, produced,
                       sentinels, failure, yielded, result>>
    PROVE  CallInv'
<1>1. CallsTyped /\ CallOK(c) /\ LLMTyped /\ Len(chunk_queue[c]) <= QueueSize
  BY BridgeTyped
<1>2. CallsTyped' /\ call_pc'[c] = to /\ left'[c] = gone
  BY <1>1 DEF CallsTyped, LLM!Place
<1>3. \A d \in Call \ {c} : Untouched(d)
  BY <1>1 DEF CallsTyped, Untouched
<1>4. IsFiniteSet(LLM!Busy') /\ Cardinality(LLM!Busy') <= Threads
  BY <1>1, <1>3, PoolShrinks
<1>5. kind[c] = "stream" /\ result[c] = "none"
  BY <1>1, StreamPlaces
<1>6. CallOK(c)'
  <2>1. PlaceOK(c)'
    BY <1>2, <1>5 DEF PlaceOK
  <2>2. ConversationOK(c)'
    BY <1>1, <1>2, ConversationRests DEF CallOK
  <2>3. StreamOK(c)'
    BY <1>1, <1>2 DEF StreamOK, CallOK
  <2>4. ResultOK(c)'
    BY <1>2, <1>5 DEF ResultOK
  <2> QED BY <2>1, <2>2, <2>3, <2>4 DEF CallOK
<1> QED BY <1>1, <1>2, <1>3, <1>4, <1>6, OneMoves

LEMMA CallerAsksKeeps ==
    ASSUME LLMBounds, CallInv, NEW c \in Call, LLM!CallerAsks(c)
    PROVE  CallInv'
<1>1. left \in [Call -> BOOLEAN]
  BY BridgeTyped DEF CallsTyped
<1>2. left[c] \in BOOLEAN /\ left = [left EXCEPT ![c] = left[c]]
  BY <1>1, Zenon
<1>3. /\ call_pc[c] = "yielded" /\ call_pc' = [call_pc EXCEPT ![c] = "reading"]
      /\ left' = left
      /\ UNCHANGED <<kind, thread, attempt, iteration, messages, todo, chunk_queue, produced,
                     sentinels, failure, yielded, result>>
  BY DEF LLM!CallerAsks, LLM!Goto, LLM!Set, LLM!loop, LLM!bridge
<1> QED BY <1>2, <1>3, GeneratorMoves

LEMMA CallerLeavesKeeps ==
    ASSUME LLMBounds, CallInv, NEW c \in Call, LLM!CallerLeaves(c)
    PROVE  CallInv'
<1>1. /\ call_pc[c] \in {"reading", "yielded"} /\ call_pc' = [call_pc EXCEPT ![c] = "joining"]
      /\ left' = [left EXCEPT ![c] = TRUE]
      /\ UNCHANGED <<kind, thread, attempt, iteration, messages, todo, chunk_queue, produced,
                     sentinels, failure, yielded, result>>
  BY DEF LLM!CallerLeaves, LLM!Goto, LLM!Set, LLM!loop
<1> QED BY <1>1, GeneratorMoves

\* A stream is over, with what its thread has told or without an answer.
LEMMA StreamDone ==
    ASSUME LLMBounds, CallInv, NEW c \in Call, call_pc[c] \in {"reading", "joining"},
           NEW r \in {"timeout", "error", "left", "complete"}, LLM!Return(c, r),
           \/ thread' = thread
           \/ thread[c] = "queued" /\ thread' = [thread EXCEPT ![c] = "none"],
           r = "complete" =>
             /\ Len(yielded[c]) = produced[c] /\ thread[c] \in Closed /\ thread' = thread
             /\ failure[c] # "error",
           UNCHANGED <<kind, LLM!loop, LLM!bridge>>
    PROVE  CallInv'
<1>1. CallsTyped /\ CallOK(c) /\ LLMTyped /\ Len(chunk_queue[c]) <= QueueSize
  BY BridgeTyped
<1>2. /\ call_pc' = [call_pc EXCEPT ![c] = "done"] /\ result' = [result EXCEPT ![c] = r]
      /\ UNCHANGED <<kind, attempt, iteration, messages, todo, chunk_queue, produced,
                     sentinels, failure, yielded, left>>
  BY DEF LLM!Return, LLM!Goto, LLM!Set, LLM!loop, LLM!bridge
<1>3. /\ thread' \in [Call -> {"none", "queued", "running", "closing", "ended"}]
      /\ \A d \in Call \ {c} : thread'[d] = thread[d]
      /\ thread'[c] = thread[c] \/ (thread[c] = "queued" /\ thread'[c] = "none")
  BY <1>1 DEF CallsTyped
<1>4. CallsTyped' /\ call_pc'[c] = "done" /\ result'[c] = r
  BY <1>1, <1>2, <1>3 DEF CallsTyped, LLM!Place, LLM!Failure
<1>5. \A d \in Call \ {c} : Untouched(d)
  BY <1>1, <1>2, <1>3 DEF CallsTyped, Untouched
<1>6. IsFiniteSet(LLM!Busy') /\ Cardinality(LLM!Busy') <= Threads
  BY <1>1, <1>3, <1>5, PoolShrinks DEF Held
<1>7. CallOK(c)'
  <2>1. kind[c] = "stream" /\ result[c] = "none"
    BY <1>1, StreamPlaces
  <2>2. PlaceOK(c)'
    BY <1>2, <1>4, <2>1 DEF PlaceOK
  <2>3. ConversationOK(c)'
    BY <1>4 DEF ConversationOK
  <2>4. StreamOK(c)'
    BY <1>1, <1>2, <1>3, <1>4 DEF StreamOK, CallOK, Closed
  <2>5. ResultOK(c)'
    BY <1>2, <1>4 DEF ResultOK
  <2> QED BY <2>2, <2>3, <2>4, <2>5 DEF CallOK
<1> QED BY <1>1, <1>2, <1>4, <1>5, <1>6, <1>7, OneMoves

LEMMA WaitTooLongKeeps ==
    ASSUME LLMBounds, CallInv, NEW c \in Call, LLM!WaitTooLong(c)
    PROVE  CallInv'
BY StreamDone DEF LLM!WaitTooLong, LLM!Set

LEMMA JoinKeeps ==
    ASSUME LLMBounds, CallInv, NEW c \in Call, LLM!Join(c)
    PROVE  CallInv'
<1>1. CallsTyped /\ CallOK(c)
  BY BridgeTyped
<1>2. /\ call_pc[c] = "joining" /\ thread[c] = "ended" /\ thread' = thread
      /\ UNCHANGED <<kind, LLM!loop, LLM!bridge>>
      /\ LLM!Return(c, IF failure[c] = "error" THEN "error"
                       ELSE IF left[c] THEN "left" ELSE "complete")
  BY DEF LLM!Join, LLM!Heard
<1>3. left[c] \in BOOLEAN
  BY <1>1 DEF CallsTyped
<1>4. CASE failure[c] = "error"
  BY <1>2, <1>4, StreamDone
<1>5. CASE failure[c] # "error" /\ left[c]
  BY <1>2, <1>5, StreamDone
<1>6. CASE failure[c] # "error" /\ ~left[c]
  <2>1. Len(yielded[c]) = produced[c] /\ thread[c] \in Closed
    BY <1>1, <1>2, <1>6 DEF CallOK, StreamOK, Closed
  <2>2. LLM!Return(c, "complete")
    BY <1>2, <1>6
  <2> QED BY <1>2, <1>6, <2>1, <2>2, StreamDone
<1> QED BY <1>3, <1>4, <1>5, <1>6

-----------------------------------------------------------------------------
(* The theorems *)

LEMMA CallInit ==
    ASSUME LLMBounds, LLM!Init
    PROVE  CallInv
<1> USE DEF LLM!Init
<1>1. CallsTyped
  <2>1. /\ 1 \in 1..LLM!TotalAttempts /\ 1 \in 1..MaxIterations /\ 0 \in 0..MaxChunks
        /\ 0 \in 0..2
    BY DEF LLM!TotalAttempts, LLMBounds
  <2>2. /\ <<>> \in Seq(Message) /\ <<>> \in Seq({"tool", "terminal"})
        /\ <<>> \in Seq(0..MaxChunks) /\ <<>> \in Seq(1..MaxChunks)
    OBVIOUS
  <2> QED BY <2>1, <2>2 DEF CallsTyped, LLM!Place
<1>2. \A c \in Call : Len(chunk_queue[c]) <= QueueSize
  BY DEF LLMBounds
<1>3. LLM!Busy = {}
  BY DEF LLM!Busy
<1>4. IsFiniteSet(LLM!Busy) /\ Cardinality(LLM!Busy) <= Threads
  BY <1>3, FS_EmptySet DEF LLMBounds
<1>5. LLMTyped
  BY <1>1, <1>2, <1>4, TypeParts DEF LLMTyped
<1>6. ASSUME NEW c \in Call PROVE CallOK(c)
  <2>1. PlaceOK(c)
    BY DEF PlaceOK, Closed
  <2>2. ConversationOK(c)
    BY DEF ConversationOK, AnsweredBut
  <2>3. StreamOK(c)
    BY DEF StreamOK, InBridge
  <2>4. ResultOK(c)
    BY DEF ResultOK
  <2> QED BY <2>1, <2>2, <2>3, <2>4 DEF CallOK
<1> QED BY <1>5, <1>6 DEF CallInv

LEMMA CallInductive ==
    ASSUME LLMBounds, CallInv, [LLM!Next]_LLM!vars
    PROVE  CallInv'
<1>1. CASE UNCHANGED LLM!vars
  <2>1. UNCHANGED <<kind, call_pc, thread, attempt, iteration, messages, todo, chunk_queue,
                    produced, sentinels, failure, yielded, left, result>>
    BY <1>1 DEF LLM!vars, LLM!loop, LLM!bridge
  <2>2. LLM!Busy' = LLM!Busy
    BY <2>1 DEF LLM!Busy
  <2>3. LLMTyped'
    <3>1. CallsTyped'
      BY <2>1, InvTyped DEF CallInv, CallsTyped
    <3>2. \A c \in Call : Len(chunk_queue'[c]) <= QueueSize
      BY <2>1, InvTyped
    <3>3. IsFiniteSet(LLM!Busy') /\ Cardinality(LLM!Busy') <= Threads
      BY <2>2, TypeParts DEF CallInv, LLMTyped
    <3> QED BY <3>1, <3>2, <3>3, SameCardinality
            DEF LLMTyped, LLM!TypeOK, CallsTyped, Message
  <2>4. \A c \in Call : CallOK(c)'
    BY <2>1, UntouchedStays DEF CallInv, Untouched
  <2> QED BY <2>3, <2>4 DEF CallInv
<1>2. CASE LLM!Next
  <2>1. PICK c \in Call : \/ LLM!Start(c) \/ LLM!RunInThread(c) \/ LLM!Request(c)
                          \/ LLM!Stream(c) \/ LLM!CallerLeaves(c) \/ LLM!WaitTooLong(c)
    BY <1>2 DEF LLM!Next
  <2>2. CASE LLM!Request(c)
    BY <2>2, RateLimitedKeeps, WakeUpKeeps, RequestFailsKeeps, GenerateReturnsKeeps,
       TextReturnedKeeps, RecoveredKeeps, RunRecoveredKeeps, ToolsCalledKeeps,
       TerminalCalledKeeps, ToolExecutedKeeps DEF LLM!Request
  <2>3. CASE LLM!Stream(c)
    BY <2>3, PutChunkKeeps, AnswerEndsKeeps, PutSentinelKeeps, YieldChunkKeeps,
       GetSentinelKeeps, CallerAsksKeeps, JoinKeeps DEF LLM!Stream
  <2> QED BY <2>1, <2>2, <2>3, StartKeeps, RunInThreadKeeps, CallerLeavesKeeps,
             WaitTooLongKeeps
<1> QED BY <1>1, <1>2

LEMMA CallsKeepInv == ASSUME LLMBounds PROVE LLM!Spec => []CallInv
<1>1. LLM!Init => CallInv
  BY CallInit
<1>2. CallInv /\ [LLM!Next]_LLM!vars => CallInv'
  BY CallInductive
<1> QED BY <1>1, <1>2, PTL DEF LLM!Spec

\* A conversation in which every tool call is answered, as the API counts it.
LEMMA AnsweredIsFollowed ==
    ASSUME NEW said \in Seq(Message), AnsweredBut(said, 0), NEW i \in DOMAIN said,
           said[i].role = "assistant", LLMBounds
    PROVE  LET n     == said[i].calls
               after == SubSeq(said, i + 1, Len(said))
           IN  /\ Len(after) >= n
               /\ \A k \in 1..n : after[k].role = "tool"
               /\ Len(after) > n => after[n + 1].role # "tool"
<1> DEFINE n     == said[i].calls
           after == SubSeq(said, i + 1, Len(said))
           len   == Len(said)
<1>1. i \in 1..len /\ i \in Nat /\ len \in Nat /\ DOMAIN said = 1..len
  OBVIOUS
<1>2. n \in Nat
  <2>1. said[i] \in Message
    OBVIOUS
  <2> QED BY <2>1 DEF Message
<1>3. Followed(said, i, n)
  BY <1>1 DEF AnsweredBut
<1>4. /\ Len(after) = len - i
      /\ \A k \in 1..len - i : after[k] = said[i + k]
  <2>1. CASE i = len
    BY <1>1, <2>1
  <2>2. CASE i < len
    BY <1>1, <2>2
  <2> QED BY <1>1, <2>1, <2>2
<1>5. /\ i + n <= len
      /\ \A k \in 1..n : said[i + k].role = "tool"
      /\ i + n < len => said[i + n + 1].role # "tool"
  BY <1>3 DEF Followed
<1> HIDE DEF n, after, len
<1>6. Len(after) >= n
  BY <1>1, <1>2, <1>4, <1>5
<1>7. \A k \in 1..n : after[k].role = "tool"
  <2>1. TAKE k \in 1..n
  <2>2. k \in 1..len - i
    BY <1>1, <1>2, <1>5
  <2> QED BY <1>4, <1>5, <2>2
<1>8. Len(after) > n => after[n + 1].role # "tool"
  <2>1. SUFFICES ASSUME Len(after) > n PROVE after[n + 1].role # "tool"
    OBVIOUS
  <2>2. n + 1 \in 1..len - i /\ i + n < len /\ i + (n + 1) = i + n + 1
    BY <1>1, <1>2, <1>4, <2>1
  <2>3. after[n + 1] = said[i + (n + 1)]
    BY <1>4, <2>2
  <2> QED BY <1>5, <2>2, <2>3
<1> QED BY <1>6, <1>7, <1>8 DEF n, after, len

\* For any number of calls, threads, retries and iterations, whenever the LLM is asked
\* again its messages with tool calls have their results: BaseAgent.tool_call_loop.
THEOREM ToolCallsAreAnswered == ASSUME LLMBounds PROVE LLM!Spec => []LLM!EveryCallAnswered
<1>1. CallInv => LLM!EveryCallAnswered
  <2>1. SUFFICES ASSUME CallInv, NEW c \in Call, call_pc[c] = "asking",
                        NEW i \in DOMAIN messages[c], messages[c][i].role = "assistant"
                 PROVE  LET n     == messages[c][i].calls
                            after == SubSeq(messages[c], i + 1, Len(messages[c]))
                        IN  /\ Len(after) >= n
                            /\ \A k \in 1..n : after[k].role = "tool"
                            /\ Len(after) > n => after[n + 1].role # "tool"
    BY DEF LLM!EveryCallAnswered
  <2>2. messages[c] \in Seq(Message) /\ AnsweredBut(messages[c], 0)
    BY <2>1, InvTyped DEF CallInv, CallOK, ConversationOK, CallsTyped
  <2> QED BY <2>1, <2>2, AnsweredIsFollowed
<1> QED BY <1>1, CallsKeepInv, PTL

\* What a stream hands out is what its thread received, in that order and whole if it
\* ends as complete, for any number of streams, sizes of the queue and answers: stream().
THEOREM StreamsAreFaithful == ASSUME LLMBounds PROVE LLM!Spec => []LLM!StreamFaithful
<1>1. CallInv => LLM!ChunksInOrder
  <2>1. SUFFICES ASSUME CallInv, NEW c \in Call
                 PROVE  LET put == yielded[c] \o chunk_queue[c] IN
                        \E k \in 0..2 :
                          /\ Len(put) <= produced[c] + k
                          /\ \A i \in DOMAIN put : put[i] = IF i <= produced[c] THEN i ELSE 0
    BY DEF LLM!ChunksInOrder, LLM!None
  <2> DEFINE put == yielded[c] \o chunk_queue[c]
             y == Len(yielded[c])
             q == Len(chunk_queue[c])
             n == produced[c]
  <2>2. /\ yielded[c] \in Seq(Nat) /\ chunk_queue[c] \in Seq(Nat)
        /\ y \in Nat /\ q \in Nat /\ n \in Nat /\ InBridge(yielded[c], chunk_queue[c], n)
    BY <2>1, BridgeTyped DEF CallOK, StreamOK
  <2>3. /\ y <= n /\ \A i \in 1..y : yielded[c][i] = i
        /\ y + q <= n + 2
        /\ \A i \in 1..q : chunk_queue[c][i] = IF y + i <= n THEN y + i ELSE 0
    <3>1. DOMAIN yielded[c] = 1..y /\ DOMAIN chunk_queue[c] = 1..q
      BY <2>2
    <3> HIDE DEF y, q, n
    <3>2. /\ y <= n /\ \A i \in DOMAIN yielded[c] : yielded[c][i] = i
          /\ y + q <= n + 2
          /\ \A i \in DOMAIN chunk_queue[c] :
               chunk_queue[c][i] = IF y + i <= n THEN y + i ELSE 0
      BY <2>2 DEF InBridge, y, q
    <3> QED BY <3>1, <3>2
  <2>4. /\ Len(put) = y + q /\ DOMAIN put = 1..y + q
        /\ \A i \in 1..y : put[i] = yielded[c][i]
        /\ \A i \in 1..y + q : i > y => put[i] = chunk_queue[c][i - y]
    <3>1. /\ put \in Seq(Nat) /\ Len(put) = y + q
          /\ \A i \in 1..y + q :
               put[i] = IF i <= y THEN yielded[c][i] ELSE chunk_queue[c][i - y]
      BY <2>2, ConcatProperties
    <3>2. DOMAIN put = 1..y + q
      BY <3>1
    <3> HIDE DEF put, y, q
    <3>3. 1..y \subseteq 1..y + q
      BY <2>2
    <3> QED BY <2>2, <3>1, <3>2, <3>3
  <2> HIDE DEF put, y, q, n
  <2>5. ASSUME NEW i \in DOMAIN put PROVE put[i] = IF i <= n THEN i ELSE 0
    <3>1. CASE i <= y
      BY <2>2, <2>3, <2>4, <3>1
    <3>2. CASE i > y
      <4>1. i - y \in 1..q /\ y + (i - y) = i
        BY <2>2, <2>4, <3>2
      <4> QED BY <2>3, <2>4, <3>2, <4>1
    <3> QED BY <2>2, <2>4, <3>1, <3>2
  <2>6. Len(put) <= n + 2 /\ 2 \in 0..2
    BY <2>3, <2>4
  <2>7. \E k \in 0..2 : Len(put) <= n + k /\ \A i \in DOMAIN put : put[i] = IF i <= n THEN i ELSE 0
    BY <2>5, <2>6
  <2> QED BY <2>7 DEF put, n
<1>2. CallInv => LLM!CompleteIsWhole
  BY DEF CallInv, CallOK, ResultOK, LLM!CompleteIsWhole
<1> QED BY <1>1, <1>2, CallsKeepInv, PTL DEF LLM!StreamFaithful

\* Calls keep their types, and the pool is never fuller than it is large.
THEOREM CallsAreTyped == ASSUME LLMBounds PROVE LLM!Spec => []LLM!TypeOK
<1>1. CallInv => LLM!TypeOK
  BY DEF CallInv, LLMTyped
<1> QED BY <1>1, CallsKeepInv, PTL

\* A call gives up on a rate limit only after its last attempt: _with_retry.
THEOREM GivesUpLast == ASSUME LLMBounds PROVE LLM!Spec => []LLM!ExhaustedFirst
<1>1. CallInv => LLM!ExhaustedFirst
  BY DEF CallInv, CallOK, ResultOK, LLM!ExhaustedFirst
<1> QED BY <1>1, CallsKeepInv, PTL
=============================================================================
