---------------------------- MODULE CourseSchedule ----------------------------
(***************************************************************************)
(* The two timetables of one course: the days its roadmap recommends       *)
(* (core/roadmap_service.py) and the learning schedule a student asks for  *)
(* (agents/schedule_agent.py, the schedule endpoints of app/course_api.py, *)
(* table 25 of db/postgres.py).                                            *)
(*                                                                         *)
(* Generating a schedule packs the modules into days, lays the modules of  *)
(* a day out over the study slots, asks the LLM for advice and saves the   *)
(* whole as one JSON document, over what was there.  Ticking a module      *)
(* reads that document, changes a flag, writes it back and reads it once   *)
(* more for the answer.                                                    *)
(***************************************************************************)
EXTENDS Integers, FiniteSets, SequencesExt

CONSTANTS
    Minutes,      \* estimates a module may have; 0 is a module without one
    MaxModules,   \* bound: modules of the course
    Paces,        \* paces the course may have
    Learners,     \* whom it may be for: each a set of "beginner" and "exam"
    Capacities,   \* minutes a day has: hours_per_day, at least half an hour
    Durations,    \* days the schedule may take
    Slot,         \* study slots, each the minute of the day it begins at
    MaxSlots,     \* bound: slots asked for
    Request,      \* requests the server can have in its hands
    MaxInFlight,  \* bound: requests at one time
    MaxRequests,  \* bound: requests ever begun
    MaxFaults     \* bound: handlers that die, LLM answers of a wrong shape

ASSUME SizeAssumption ==
    /\ Minutes \subseteq Nat /\ Paces \subseteq {"fast", "medium", "deep"}
    /\ Learners \subseteq SUBSET {"beginner", "exam"}
    /\ Capacities \subseteq Nat \ 0..29
    /\ Durations \subseteq Nat \ {0}
    /\ Slot \subseteq Nat /\ 360 \in Slot
ASSUME BoundAssumption ==
    {MaxModules, MaxSlots, MaxInFlight, MaxRequests, MaxFaults} \subseteq Nat

-----------------------------------------------------------------------------
(* What is computed *)

Lesser(a, b)  == IF a < b THEN a ELSE b
Greater(a, b) == IF a < b THEN b ELSE a
CeilDiv(a, b) == -((-a) \div b)
Total(ns) ==
    LET sum[i \in 0..Len(ns)] == IF i = 0 THEN 0 ELSE sum[i - 1] + ns[i]
    IN sum[Len(ns)]

\* The minutes of the modules in a queue, a day or a slot.
MinutesIn(queue, mins) == Total([i \in 1..Len(queue) |-> mins[queue[i]]])

\* The minutes a module is given: 30 without an estimate, 5 at least, and
\* never more than a day has.
Normalised(estimate, capacity) ==
    Greater(5, Lesser(IF estimate = 0 THEN 30 ELSE estimate, capacity))

\* Mistake: one day more than there is.
PlaceOnDayTooMany(packed, m, mins, study, target) ==
    IF /\ packed.used + mins[m] > target
       /\ packed.items # <<>>
       /\ Len(packed.days) < study
    THEN [days  |-> Append(packed.days, packed.items),
          items |-> <<m>>, used |-> mins[m]]
    ELSE [packed EXCEPT !.items = Append(@, m), !.used = @ + mins[m]]

\* A module that would take the day over the target opens the next day, if
\* there is one left to open.
Place(packed, m, mins, study, target) ==
    IF /\ packed.used + mins[m] > target
       /\ packed.items # <<>>
       /\ Len(packed.days) < study - 1
    THEN [days  |-> Append(packed.days, packed.items),
          items |-> <<m>>, used |-> mins[m]]
    ELSE [packed EXCEPT !.items = Append(@, m), !.used = @ + mins[m]]

\* Modules 1, 2, ... of the given minutes spread over the days they need.
PackModulesIntoDays(mins, days, capacity) ==
    LET study  == Greater(1, Lesser(CeilDiv(Total(mins), capacity), days))
        target == Lesser(CeilDiv(Total(mins), study), capacity)
        packed[m \in 0..Len(mins)] ==
          IF m = 0 THEN [days |-> <<>>, items |-> <<>>, used |-> 0]
          ELSE Place(packed[m - 1], m, mins, study, target)
    IN Append(packed[Len(mins)].days, packed[Len(mins)].items)

\* The modules of queue laid out in a slot from a minute on, with a break of
\* five minutes between two.
LaidOut(queue, slot, from, mins) ==
    [j \in 1..Len(queue) |->
       LET begin == from + 5 * (j - 1) + MinutesIn(SubSeq(queue, 1, j - 1), mins)
       IN [module |-> queue[j], slot |-> slot,
           start |-> begin, end |-> begin + mins[queue[j]]]]

\* Where what fits in no slot goes on: after the last module of the last slot.
LeftoverFrom(timed, slot) ==
    LET there == {i \in DOMAIN timed : timed[i].slot = slot}
    IN IF there = {} THEN slot ELSE timed[Max(there)].end + 5

\* The share a slot has of a day's minutes; one named twice has that of its last
\* place.
Budget(slot, slots, total) ==
    LET place == CHOOSE i \in 1..Len(slots) :
                   /\ slots[i] = slot
                   /\ \A k \in (i + 1)..Len(slots) : slots[k] # slot
    IN total \div Len(slots) + (IF place <= total % Len(slots) THEN 1 ELSE 0)

\* How many modules of a queue fit in so many minutes.
Fitting(queue, budget, mins) ==
    CHOOSE k \in 0..Len(queue) :
      /\ MinutesIn(SubSeq(queue, 1, k), mins) <= budget
      /\ k < Len(queue) => MinutesIn(SubSeq(queue, 1, k + 1), mins) > budget

\* A slot takes the modules that fit in it.
Fill(filled, slot, budget, mins) ==
    LET k == Fitting(filled.queue, budget, mins)
    IN [queue |-> SubSeq(filled.queue, k + 1, Len(filled.queue)),
        timed |-> filled.timed
                    \o LaidOut(SubSeq(filled.queue, 1, k), slot, slot, mins)]

\* The modules of a day laid out over the slots, in their order; the last one
\* takes what is left.
AssignTimes(items, slots, mins) ==
    LET filled[i \in 0..Len(slots)] ==
          IF i = 0 THEN [queue |-> items, timed |-> <<>>]
          ELSE Fill(filled[i - 1], slots[i],
                    Budget(slots[i], slots, MinutesIn(items, mins)), mins)
        done == filled[Len(slots)]
        over == Last(slots)
    IN done.timed \o LaidOut(done.queue, over, LeftoverFrom(done.timed, over), mins)

\* The days of a schedule, rest days included, as _pack and _assign make them.
\* Without a slot the day has the morning.
GenerateLearningSchedule(estimates, days, capacity, asked) ==
    LET mins   == [m \in DOMAIN estimates |-> Normalised(estimates[m], capacity)]
        slots  == IF asked = <<>> THEN <<360>> ELSE asked
        packed == PackModulesIntoDays(mins, days, capacity)
    IN [d \in 1..Greater(days, Len(packed)) |->
          IF d <= Len(packed) THEN AssignTimes(packed[d], slots, mins) ELSE <<>>]

(* The days of a roadmap *)

\* A module takes at least what its pace asks for; an exam raises the fast one.
ModuleMinutes(estimate, pace, learner) ==
    Greater(estimate, CASE pace = "fast"   -> IF "exam" \in learner THEN 45 ELSE 25
                        [] pace = "medium" -> 35
                        [] pace = "deep"   -> 55)

DailyCapacity(pace, learner) ==
    CASE pace = "deep"   -> IF "beginner" \in learner THEN 135 ELSE 165
      [] pace = "fast"   -> IF "beginner" \in learner THEN 95 ELSE 140
      [] pace = "medium" -> IF "beginner" \in learner THEN 115 ELSE 155

\* The modules of one day at most, one or two more in a course of many.
MaxModulesPerDay(pace, learner, n) ==
    LET base  == (IF pace = "fast" THEN 3 ELSE 2) + (IF "beginner" \in learner THEN 0 ELSE 1)
        large == IF n > 25 THEN Lesser(base + 1, 4) ELSE base
    IN IF n > 35 THEN Lesser(large + 1, 5) ELSE large

\* A day takes a module if it has none, or room for it and for twenty minutes
\* of review and practice.
DayTakes(day, m, mins, most, capacity) ==
    day = <<>> \/ (Len(day) < most /\ MinutesIn(day, mins) + mins[m] + 20 <= capacity)

\* What finish_day makes of a day: review, practice and a break are added.
Finished(day, mins) ==
    LET content == MinutesIn(day, mins)
    IN [items |-> day,
        total |-> content + 10 + (IF Len(day) >= 2 THEN 10 ELSE 5)
                    + (IF content >= 75 THEN 10 ELSE 0)]

\* The module goes to the day that is being filled, or to the next one.
Scheduled(built, m, mins, most, capacity) ==
    IF DayTakes(built.day, m, mins, most, capacity)
    THEN [built EXCEPT !.day = Append(@, m)]
    ELSE [done |-> Append(built.done, Finished(built.day, mins)), day |-> <<m>>]

\* The days recommended for a course of these modules.
BuildSchedule(estimates, pace, learner) ==
    LET mins == [m \in DOMAIN estimates |-> ModuleMinutes(estimates[m], pace, learner)]
        most == MaxModulesPerDay(pace, learner, Len(estimates))
        built[m \in 0..Len(estimates)] ==
          IF m = 0 THEN [done |-> <<>>, day |-> <<>>]
          ELSE Scheduled(built[m - 1], m, mins, most, DailyCapacity(pace, learner))
        last == built[Len(estimates)]
    IN Append(last.done, Finished(last.day, mins))

-----------------------------------------------------------------------------
VARIABLES
    modules,      \* the course's modules, each by its estimate; <<>>: deleted
    profile,      \* the pace and learner the course was created for
    roadmap,      \* the days its roadmap recommends
    schedule,     \* the row of course_schedules, if there is one
    told,         \* ticks whose requests have been answered since it was saved
    unsure,       \* modules with a tick written that no answer vouches for
    pc, job,      \* the handler of each request, with the document it holds
    overlapped,   \* requests in flight that were not alone all the time
    begun, faults \* what the bounds count

creation == <<profile, roadmap>>
answers  == <<told, unsure>>
vars == <<modules, creation, schedule, answers, pc, job, overlapped, begun, faults>>

SlotChoice == UNION {[1..k -> Slot] : k \in 0..MaxSlots}

NoSchedule == [days |-> <<>>, total_days |-> 0, capacity |-> 0,
               slots |-> <<>>, ticked |-> {}]
NoJob      == [row |-> NoSchedule, module |-> 0, completed |-> FALSE]

\* The ids a client may name: those of the modules and one of none.
ModuleId == 0..MaxModules

Idle(r)  == pc[r] = "idle"
InFlight == {r \in Request : ~Idle(r)}
Exists   == modules # <<>>
Saved    == schedule # NoSchedule

Init ==
    /\ modules \in UNION {[1..n -> Minutes] : n \in 1..MaxModules}
    /\ profile \in [pace : Paces, learner : Learners]
    /\ roadmap = BuildSchedule(modules, profile.pace, profile.learner)
    /\ schedule = NoSchedule /\ told = {} /\ unsure = {}
    /\ pc = [r \in Request |-> "idle"] /\ job = [r \in Request |-> NoJob]
    /\ overlapped = {}
    /\ begun = 0 /\ faults = 0

-----------------------------------------------------------------------------
Begin(r, to, work) ==
    /\ Idle(r) /\ Exists
    /\ Cardinality(InFlight) < MaxInFlight
    /\ begun < MaxRequests
    /\ begun' = begun + 1
    /\ pc' = [pc EXCEPT ![r] = to]
    /\ job' = [job EXCEPT ![r] = work]
    /\ overlapped' = IF InFlight = {} THEN {} ELSE InFlight \union {r}

End(r) ==
    /\ pc' = [pc EXCEPT ![r] = "idle"] /\ job' = [job EXCEPT ![r] = NoJob]
    /\ overlapped' = overlapped \ {r}

\* POST .../schedule/generate: the modules are read and packed, then the LLM
\* is asked for advice on the days.
GenerateSchedule(r, days, capacity, slots) ==
    /\ Begin(r, "enrich",
             [NoJob EXCEPT !.row =
                [days |-> GenerateLearningSchedule(modules, days, capacity, slots),
                 total_days |-> days, capacity |-> capacity,
                 slots |-> slots, ticked |-> {}]])
    /\ UNCHANGED <<modules, creation, schedule, answers, faults>>

\* The schedule is saved over what was there, with no module ticked; a course
\* that is deleted by now makes the insert fail.  No answer vouches for a tick
\* of it if another request is there to write on.
SaveCourseSchedule(r) ==
    /\ pc[r] = "enrich"
    /\ schedule' = IF Exists THEN job[r].row ELSE schedule
    /\ told' = IF Exists THEN {} ELSE told
    /\ unsure' = IF r \in overlapped THEN ModuleId ELSE IF Exists THEN {} ELSE unsure
    /\ End(r)
    /\ UNCHANGED <<modules, creation, begun, faults>>

\* PATCH .../schedule/progress reads the document; without one it is a 404.  The
\* id is not looked up: it may be that of no module.
ReadSchedule(r, m, completed) ==
    /\ Saved
    /\ Begin(r, "write",
             [row |-> schedule, module |-> m, completed |-> completed])
    /\ UNCHANGED <<modules, creation, schedule, answers, faults>>

Ticked(done, m, completed) == IF completed THEN done \union {m} ELSE done \ {m}

\* Mistake: the flag is changed in a copy of the document.
FlaggedInCopy(row, m, completed) == row

\* The items of the document with that id get the flag.
Flagged(row, m, completed) ==
    IF m \in DOMAIN modules
    THEN [row EXCEPT !.ticked = Ticked(@, m, completed)] ELSE row

\* The whole document is written back; the update says nothing of a row that
\* is gone.
UpdateScheduleModuleCompletion(r) ==
    LET m == job[r].module IN
    /\ pc[r] = "write"
    /\ schedule' = IF Saved THEN Flagged(job[r].row, m, job[r].completed) ELSE schedule
    /\ unsure' = unsure \union {m}
    /\ pc' = [pc EXCEPT ![r] = "answer"]
    /\ UNCHANGED <<modules, creation, told, job, overlapped, begun, faults>>

\* The document is read again, to be shown, and the request is answered as a
\* success.  The answer vouches for the tick if no other request was there.
AnswerTick(r) ==
    LET m == job[r].module IN
    /\ pc[r] = "answer"
    /\ told' = Ticked(told, m, job[r].completed)
    /\ unsure' = IF r \in overlapped THEN unsure ELSE unsure \ {m}
    /\ End(r)
    /\ UNCHANGED <<modules, creation, schedule, begun, faults>>

\* Deleting the course takes its roadmap and its schedule with it.
DeleteCourse ==
    /\ Exists
    /\ modules' = <<>> /\ roadmap' = <<>> /\ schedule' = NoSchedule
    /\ UNCHANGED <<profile, answers, pc, job, overlapped, begun, faults>>

\* A handler dies, also between the write and the answer, or the LLM's days are
\* of a shape that is not read: an answer that is no JSON, or none, is made up
\* for.
Fault(r) ==
    /\ ~Idle(r)
    /\ faults < MaxFaults /\ faults' = faults + 1
    /\ End(r)
    /\ UNCHANGED <<modules, creation, schedule, answers, begun>>

Next ==
    \/ DeleteCourse
    \/ \E r \in Request :
         \/ \E days \in Durations, capacity \in Capacities, slots \in SlotChoice :
              GenerateSchedule(r, days, capacity, slots)
         \/ \E m \in ModuleId, completed \in BOOLEAN : ReadSchedule(r, m, completed)
         \/ SaveCourseSchedule(r)
         \/ UpdateScheduleModuleCompletion(r) \/ AnswerTick(r) \/ Fault(r)

Spec == Init /\ [][Next]_vars

-----------------------------------------------------------------------------
(* Properties *)

ModulesOf(day) == [i \in DOMAIN day |-> day[i].module]
MinutesOf(day) == Total([i \in DOMAIN day |-> day[i].end - day[i].start])

\* A saved schedule holds every module of the course exactly once and in the
\* order of the course, however the packing fills the days and whichever
\* slots are too short for what they are given.
EveryModuleOnce ==
    Saved =>
      FlattenSeq([d \in DOMAIN schedule.days |-> ModulesOf(schedule.days[d])])
        = [m \in DOMAIN modules |-> m]

\* It takes the days it was asked for, rest days included.
TakesItsDays == Len(schedule.days) = schedule.total_days

\* Two modules of one slot are five minutes apart or more, also the ones that
\* fitted in no slot, as long as no slot is asked for twice.
BreaksBetween ==
    IsInjective(schedule.slots) =>
      \A d \in DOMAIN schedule.days :
        LET day == schedule.days[d]
        IN \A i, j \in DOMAIN day :
             i < j /\ day[i].slot = day[j].slot => day[i].end + 5 <= day[j].start

\* Only the last day that has modules has more of them than the day has
\* minutes for: it takes what is left.
OnlyLastOverflows ==
    \A d \in DOMAIN schedule.days :
      MinutesOf(schedule.days[d]) > schedule.capacity
        => \A e \in DOMAIN schedule.days : e > d => schedule.days[e] = <<>>

\* The roadmap, too, has every module once and in order, on days that keep to
\* the number of modules, and of which only one with a single module may be
\* more than ten minutes longer than the day's capacity.
RoadmapFits ==
    /\ FlattenSeq([d \in DOMAIN roadmap |-> roadmap[d].items])
         = [m \in DOMAIN modules |-> m]
    /\ \A d \in DOMAIN roadmap :
         Len(roadmap[d].items) > 1 =>
           /\ Len(roadmap[d].items)
                <= MaxModulesPerDay(profile.pace, profile.learner, Len(modules))
           /\ roadmap[d].total
                <= DailyCapacity(profile.pace, profile.learner) + 10

\* The timetables are sound in all of these ways, whatever was asked for.
SoundTimetables ==
    /\ EveryModuleOnce /\ TakesItsDays /\ BreaksBetween /\ OnlyLastOverflows
    /\ RoadmapFits

\* The schedule shows of a module what its last answered tick said, and nothing
\* of one never ticked, except where no answer vouches for it: a handler died
\* after it wrote a tick of the module, or the request that did so, or that saved
\* the schedule, was not alone (update_schedule_module_completion).
TicksShown ==
    Saved => \A m \in DOMAIN modules \ unsure : m \in schedule.ticked <=> m \in told

\* Where there is a day for every module, no day is given more minutes than it
\* has, as the packer's docstring says: the days are counted as if the modules
\* could be cut, and the last one takes what is left of them. Does not hold; no
\* run checks it (README, Disagreements).
NoDayOverstuffed ==
    schedule.total_days >= Len(modules) =>
      \A d \in DOMAIN schedule.days :
        MinutesOf(schedule.days[d]) <= schedule.capacity
=============================================================================
