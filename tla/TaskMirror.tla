------------------------------ MODULE TaskMirror ------------------------------
(* The workbench mirror: each open work item gets, once, a description for   *)
(* the people who work with it, with the state of the items below it and the *)
(* point where they wait.  The mirror locks the oldest item without one that *)
(* no other mirror has locked, reads what is below it, and records the       *)
(* description; the items below move on meanwhile.                           *)
EXTENDS Integers, Sequences, FiniteSets
LOCAL INSTANCE FiniteSetsExt

CONSTANTS Tasks,        \* work items, numbered in the order they were created
          GroupMessages,\* those that are group message requests
          Unsafe_,      \* those whose text must not leave the database
          MaxDepth,     \* MAX_DESCENDANT_DEPTH
          MaxRefs,      \* MAX_DESCENDANT_REFS
          Mirrors,
          TaskStates,   \* the states an item may be brought to: [st, pending, ready]
          MaxMoves      \* bound: changes of a work item

\* Items are numbered from 1; there are finitely many mirrors.
ASSUME TasksNumbered == Tasks \subseteq Nat \ {0} /\ IsFiniteSet(Mirrors)

VARIABLES above,     \* task |-> its parent, 0 if none
          work_,     \* task |-> [st, pending, ready]
          pins,      \* task |-> the description recorded
          notices,   \* task |-> how many times the recording was noted
          mirror,    \* mirror |-> [at, old, sts, task, refs, cut] of its transaction
          moves
hvars == <<above, work_, pins, notices, mirror, moves>>

Open == {"queued", "processing", "awaiting_review", "awaiting_publish", "failed"}
NoMirror == [at |-> "idle", old |-> {}, sts |-> <<>>, task |-> 0, refs |-> <<>>, cut |-> FALSE]

TasksInit ==
    /\ above \in {f \in [Tasks -> Tasks \cup {0}] : \A t \in Tasks : f[t] < t}
    /\ work_ = [t \in Tasks |-> [st |-> "queued", pending |-> FALSE, ready |-> FALSE]]
    /\ pins = <<>> /\ notices = [t \in Tasks |-> 0] /\ moves = 0
    /\ mirror = [m \in Mirrors |-> NoMirror]

LockedTasks == {mirror[m].task : m \in {q \in Mirrors : mirror[q].at \in {"locked", "planned"}}}

\* The other parts of the service work on an item; one that is locked waits.
TaskMoves(t, s) ==
    /\ moves < MaxMoves /\ moves' = moves + 1
    /\ t \notin LockedTasks /\ s # work_[t] /\ (s.ready => t \in GroupMessages)
    /\ work_' = [work_ EXCEPT ![t] = s]
    /\ UNCHANGED <<above, pins, notices, mirror>>

\* The statement that looks for an item sees the database as it is now.
run_once(m) ==
    /\ mirror[m].at = "idle"
    /\ mirror' = [mirror EXCEPT ![m] = [NoMirror EXCEPT !.at = "looking", !.old = Tasks \ DOMAIN pins,
                                                        !.sts = [t \in Tasks |-> work_[t].st]]]
    /\ UNCHANGED <<above, work_, pins, notices, moves>>

First(S) == CHOOSE i \in S : \A j \in S : i <= j

\* The first one it saw that is open and not locked.  An item another mirror
\* described in between is not changed by that, and can be locked again; the
\* status told is the one the statement saw.
lock_work_item(m, only) ==
    LET found == {t \in mirror[m].old \cap only : /\ mirror[m].sts[t] \in Open /\ work_[t].st \in Open
                                                  /\ t \notin LockedTasks}
    IN  /\ mirror[m].at = "looking"
        /\ mirror' = [mirror EXCEPT ![m] = IF found = {} THEN NoMirror
                                           ELSE [@ EXCEPT !.at = "locked", !.task = First(found)]]
        /\ UNCHANGED <<above, work_, pins, notices, moves>>

\* The items below, by depth and age, one more than are told.
descendant_status_sql(t) ==
    LET level[d \in 1 .. MaxDepth] ==
            IF d = 1 THEN {u \in Tasks : above[u] = t} ELSE {u \in Tasks : above[u] \in level[d - 1]}
        found == {p \in (1 .. MaxDepth) \X Tasks : p[2] \in level[p[1]]}
        before(x) == {y \in found : y[1] < x[1] \/ (y[1] = x[1] /\ y[2] < x[2])}
    IN  [i \in 1 .. Min({Cardinality(found), MaxRefs + 1}) |-> CHOOSE x \in found : Cardinality(before(x)) = i - 1]

blocking_reason_for(t) ==
    CASE work_[t].st = "failed" -> "retry"
      [] work_[t].st = "awaiting_publish" -> "confirmation"
      [] work_[t].st \notin {"failed", "awaiting_publish"} /\ work_[t].pending -> "artifact review"
      [] work_[t].st = "awaiting_review" /\ ~work_[t].pending -> "next step"
      [] work_[t].st = "queued" /\ ~work_[t].pending -> IF t \in GroupMessages /\ work_[t].ready THEN "adapter" ELSE "worker"
      [] work_[t].st = "processing" /\ ~work_[t].pending -> "claim"
      [] OTHER -> "none"

apply_status_refs(m) ==
    /\ mirror[m].at = "locked"
    /\ \E q \in {descendant_status_sql(mirror[m].task)} :
         mirror' = [mirror EXCEPT ![m].at = "planned", ![m].cut = Len(q) > MaxRefs,
                      ![m].refs = [i \in 1 .. Min({Len(q), MaxRefs}) |->
                                     [task |-> q[i][2], depth |-> q[i][1], why |-> blocking_reason_for(q[i][2])]]]
    /\ UNCHANGED <<above, work_, pins, notices, moves>>

\* The point where the work waits: the first item below that waits.
BlockingPoint(refs) ==
    LET waits == {i \in DOMAIN refs : refs[i].why # "none"} IN
    IF waits = {} THEN <<>> ELSE <<refs[First(waits)].task, refs[First(waits)].why>>

build_task_plan(m) == [section |-> mirror[m].sts[mirror[m].task], refs |-> mirror[m].refs, cut |-> mirror[m].cut,
                       waits |-> BlockingPoint(mirror[m].refs)]

\* An item that must not be shown fails the run; the next run finds it again.
upsert_workbench_ref(m) ==
    /\ mirror[m].at = "planned"
    /\ mirror' = [mirror EXCEPT ![m] = NoMirror]
    /\ IF mirror[m].task \in Unsafe_ THEN UNCHANGED <<pins, notices>>
       ELSE /\ pins' = [t \in DOMAIN pins \cup {mirror[m].task} |->
                          IF t = mirror[m].task THEN build_task_plan(m) ELSE pins[t]]
            /\ notices' = [notices EXCEPT ![mirror[m].task] = @ + 1]
    /\ UNCHANGED <<above, work_, moves>>

MirrorStops(m) ==
    /\ mirror[m].at # "idle"
    /\ mirror' = [mirror EXCEPT ![m] = NoMirror]
    /\ UNCHANGED <<above, work_, pins, notices, moves>>

TasksNext ==
    \/ \E t \in Tasks, s \in TaskStates : TaskMoves(t, s)
    \/ \E m \in Mirrors :
         \/ run_once(m)
         \/ \E only \in {Tasks} \cup {{t} : t \in Tasks} : lock_work_item(m, only)
         \/ apply_status_refs(m) \/ upsert_workbench_ref(m) \/ MirrorStops(m)

Below(t, u) == \E f \in [1 .. MaxDepth -> Tasks \cup {0}], d \in 1 .. MaxDepth :
                  f[1] = above[u] /\ f[d] = t /\ \A i \in 1 .. d - 1 : f[i] # 0 /\ f[i + 1] = above[f[i]]

\* Nothing unsafe is described, every description is noted, and at most as
\* often as there are mirrors, and none tells of a status the work had ended
\* in (workbench.rs, lock_work_item and upsert_workbench_ref).
NoticesTrue ==
    \A t \in DOMAIN pins : /\ t \notin Unsafe_ /\ pins[t].section \in Open
                           /\ notices[t] \in 1 .. Cardinality(Mirrors)

(* A description tells each item below once, the upper ones first, and all   *)
(* of them within the depth unless it says that some were left out; the      *)
(* point where the work waits is that of an item it tells of, and no item    *)
(* above that one waits; and NoticesTrue (workbench.rs, lock_work_item and   *)
(* apply_status_refs).                                                       *)
TasksTrue ==
    /\ NoticesTrue
    /\ \A t \in DOMAIN pins :
           LET r == pins[t].refs IN
           /\ \A i, j \in DOMAIN r : i < j => r[i].task # r[j].task /\ r[i].depth <= r[j].depth
           /\ \A i \in DOMAIN r : Below(t, r[i].task)
           /\ ~pins[t].cut => \A u \in Tasks : Below(t, u) => \E i \in DOMAIN r : r[i].task = u
           /\ pins[t].cut => Len(r) = MaxRefs
           /\ pins[t].waits # <<>> => \E i \in DOMAIN r : /\ <<r[i].task, r[i].why>> = pins[t].waits
                                                          /\ \A j \in 1 .. i - 1 : r[j].why = "none"
=============================================================================
