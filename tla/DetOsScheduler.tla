---------------------------- MODULE DetOsScheduler ----------------------------
(***************************************************************************)
(* The ready list of DetOS (lib-det-os/src/schedule_tasks.c): a linked     *)
(* list of tasks by descending priority, with pointers to its first task,  *)
(* to the running task and its predecessor, and to the last tasks of their *)
(* two priority groups.  Supervisor calls and the timer's tick have one    *)
(* level, so each is a step; calls are made by running tasks.              *)
(***************************************************************************)
EXTENDS Naturals

CONSTANTS
  MAX_NUMBER_OF_SCHEDULED_TASKS,   \* 5
  HighestPriority,   \* priorities are 0 .. HighestPriority: 255 in the code
  NormalPriority     \* TP_NORMAL_PRIORITY, the start task's: 127

VARIABLES
  tasks,     \* g_scheduledTasks: next task, priority and status of each slot
  pointers,  \* g_scheduledTaskPointers
  running,   \* the slot whose code the processor executes, None when idle
  started,   \* the first task has been dispatched
  halted     \* the scheduler is in its endless loop for errors

vars == <<tasks, pointers, running, started, halted>>

None == 0    \* nullptr; slot i of the code is i + 1
SlotNumbers == 1 .. MAX_NUMBER_OF_SCHEDULED_TASKS
Ready == {"scheduled", "suspended"}

Init ==
  /\ tasks = [i \in SlotNumbers |->
                [next |-> None, priority |-> NormalPriority,
                 status |-> IF i = 1 THEN "scheduled" ELSE "empty"]]
  /\ pointers = [root |-> 1, lastInRoot |-> 1, current |-> None, parent |-> None, lastInCurrent |-> 1]
  /\ running = None /\ started = FALSE /\ halted = FALSE

-----------------------------------------------------------------------------
(* What the calls come to.                                                  *)

Dispatch(t, p) ==
  /\ tasks' = t /\ pointers' = p
  /\ running' = p.current /\ started' = TRUE
  /\ UNCHANGED halted

\* R_ERR_STATE_CORRUPTED: the assembly code loops for ever.
Corrupted(t, p) ==
  /\ tasks' = t /\ pointers' = p
  /\ halted' = TRUE
  /\ UNCHANGED <<running, started>>

ContinuesExecution == UNCHANGED vars

RootRuns(p) == [p EXCEPT !.current = p.root, !.parent = None, !.lastInCurrent = p.lastInRoot]

RootIsReady(t, p) == p.root # None /\ t[p.root].status \in Ready

executeRootScheduledTask(t, p) ==
  \/ p.root = None /\ Dispatch(t, [p EXCEPT !.current = None, !.parent = None, !.lastInCurrent = None])
  \/ RootIsReady(t, p) /\ Dispatch([t EXCEPT ![p.root].status = "running"], RootRuns(p))
  \/ p.root # None /\ ~RootIsReady(t, p) /\ Corrupted(t, p)

suspendCurrentlyRunningTaskAndExecuteRootTask(t, p, old) ==
  \/ RootIsReady(t, p)
     /\ Dispatch([t EXCEPT ![old].status = "suspended", ![p.root].status = "running"], RootRuns(p))
  \/ ~RootIsReady(t, p) /\ Corrupted(t, p)

\* Task i is put behind the last of its group, and its predecessor before its successor.
MovedToTheEnd(t, i, parent, last) ==
  LET linked == IF parent = None THEN t ELSE [t EXCEPT ![parent].next = t[i].next]
      behind == [linked EXCEPT ![i].next = linked[last].next]
  IN [behind EXCEPT ![last].next = i]

MovedPointers(p, next) ==
  [p EXCEPT !.root = IF p.parent = None THEN next ELSE @,
            !.lastInRoot = IF p.lastInCurrent = @ THEN p.current ELSE @,
            !.lastInCurrent = p.current]

\* From task i along the list while the next task is among some; None if for ever.
Walk(t, i, some) ==
  LET goesOn(j) == t[j].next \in some
      at[n \in 0 .. MAX_NUMBER_OF_SCHEDULED_TASKS] ==
        IF n = 0 THEN i
        ELSE IF goesOn(at[n - 1]) THEN t[at[n - 1]].next ELSE at[n - 1]
      end == at[MAX_NUMBER_OF_SCHEDULED_TASKS]
  IN IF goesOn(end) THEN None ELSE end

-----------------------------------------------------------------------------
(* The calls.                                                               *)

Calls == running # None /\ ~halted

finishCurrentAndMoveToNextTaskSvc ==
  /\ Calls \/ ~started
  /\ LET c == pointers.current
         emptied == [tasks EXCEPT ![c].status = "empty"]
         next == tasks[c].next
     IN IF c = None THEN executeRootScheduledTask(tasks, pointers)
        ELSE IF pointers.parent = None
        THEN executeRootScheduledTask(emptied, [pointers EXCEPT !.root = next])
        ELSE executeRootScheduledTask([emptied EXCEPT ![pointers.parent].next = next], pointers)

\* The timer's tick.
suspendCurrentAndMoveToNextTaskSvc ==
  /\ started /\ ~halted
  /\ LET c == pointers.current
         isLast == c = pointers.lastInCurrent
         t == IF isLast THEN tasks ELSE MovedToTheEnd(tasks, c, pointers.parent, pointers.lastInCurrent)
         p == IF isLast THEN pointers ELSE MovedPointers(pointers, tasks[c].next)
     IN IF c = None
        THEN IF pointers.root = None THEN ContinuesExecution
             ELSE executeRootScheduledTask(tasks, pointers)
        ELSE IF c = pointers.root /\ isLast THEN ContinuesExecution
        ELSE suspendCurrentlyRunningTaskAndExecuteRootTask(t, p, c)

\* A root task of a group of its own lets the next task run.  The call then returns no
\* result: whatever is in the register sends the processor on, back or into the loop.
YieldToLowerPriority(c, next) ==
  LET last == Walk(tasks, next, {j \in SlotNumbers : tasks[j].priority = tasks[next].priority}) IN
  IF last = None \/ tasks[next].status \notin Ready THEN Corrupted(tasks, pointers)
  ELSE /\ tasks' = [tasks EXCEPT ![next].status = "running", ![c].status = "suspended"]
       /\ pointers' = [pointers EXCEPT !.current = next, !.parent = c, !.lastInCurrent = last]
       /\ running' \in {next, c} /\ halted' \in BOOLEAN
       /\ UNCHANGED started

\* The parent of a root task that yields to its own group is written, though there is none.
currentTaskYieldsAndMoveToNextTaskSvc ==
  /\ Calls
  /\ LET c == pointers.current
         next == tasks[c].next
     IN IF c # pointers.root
        THEN suspendCurrentlyRunningTaskAndExecuteRootTask(tasks, pointers, c)
        ELSE IF next = None THEN ContinuesExecution
        ELSE IF tasks[next].priority = tasks[c].priority
        THEN suspendCurrentlyRunningTaskAndExecuteRootTask(
               MovedToTheEnd(tasks, c, pointers.parent, pointers.lastInCurrent), pointers, c)
        ELSE YieldToLowerPriority(c, next)

EmptySlots == {i \in SlotNumbers : tasks[i].status = "empty"}

NewTask(priority, next) == [next |-> next, priority |-> priority, status |-> "scheduled"]

ScheduleAsRoot(i, priority) ==
  LET root == pointers.root IN
  /\ tasks' = [tasks EXCEPT ![i] = NewTask(priority, root)]
  /\ pointers' = [pointers EXCEPT !.root = i,
                    !.lastInRoot = IF @ = root \/ root = None THEN i ELSE @,
                    !.lastInCurrent = IF root = None THEN i ELSE @]
  /\ UNCHANGED <<running, started, halted>>

ScheduleBehind(i, priority) ==
  LET last == Walk(tasks, pointers.root, {j \in SlotNumbers : tasks[j].priority >= priority})
      follow(end) == IF end = last /\ tasks[last].priority = priority THEN i ELSE end
  IN IF last = None THEN Corrupted(tasks, pointers)
     ELSE /\ tasks' = [tasks EXCEPT ![i] = NewTask(priority, tasks[last].next), ![last].next = i]
          /\ pointers' = [pointers EXCEPT !.lastInRoot = follow(@), !.lastInCurrent = follow(@)]
          /\ UNCHANGED <<running, started, halted>>

\* With no empty slot the call returns R_ERR_STORAGE_FULL.
scheduleTaskSvc(priority) ==
  /\ Calls /\ EmptySlots # {}
  /\ LET i == CHOOSE j \in EmptySlots : \A k \in EmptySlots : j <= k IN
     IF pointers.root = None \/ priority > tasks[pointers.root].priority
     THEN ScheduleAsRoot(i, priority) ELSE ScheduleBehind(i, priority)

Next ==
  \/ finishCurrentAndMoveToNextTaskSvc
  \/ suspendCurrentAndMoveToNextTaskSvc
  \/ currentTaskYieldsAndMoveToNextTaskSvc
  \/ \E priority \in 0 .. HighestPriority : scheduleTaskSvc(priority)

Spec == Init /\ [][Next]_vars

-----------------------------------------------------------------------------
\* The idle task is executed if there are no scheduled tasks left: no task that was
\* scheduled and has not finished is forgotten (schedule_tasks.c:134).
IdleOnlyWhenNothingLeft ==
  started /\ running = None => \A i \in SlotNumbers : tasks[i].status \notin Ready
=============================================================================
