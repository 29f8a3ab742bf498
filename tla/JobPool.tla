------------------------------- MODULE JobPool --------------------------------
(***************************************************************************)
(* The thread pool of network/src/nw_job.c.  The main loop appends jobs to *)
(* one list; a thread takes the first, works on it without the lock,       *)
(* appends it to another list and writes a byte into a pipe; the main loop *)
(* wakes up when the pipe can be read, empties the pipe, and finishes jobs *)
(* until the list is empty.  Each use of the lock is a step.  Jobs are     *)
(* distinct, so that the ones being worked on are a set.                   *)
(***************************************************************************)
EXTENDS Integers, Sequences, FiniteSets

CONSTANTS
  WorkerNum           \* number of threads

ASSUME JobPoolAssumption == WorkerNum \in Nat \ {0}

VARIABLES
  request_list,       \* the jobs waiting for a thread
  working,            \* the jobs threads are working on
  reply_list,         \* the jobs waiting for the main loop
  readable,           \* there is a byte in the pipe
  reading             \* the main loop is in on_can_read, behind its first loop

pool == <<request_list, working, reply_list, readable, reading>>

\* nw_job_create
NoJobs ==
  /\ request_list = <<>> /\ working = {} /\ reply_list = <<>>
  /\ readable = FALSE /\ reading = FALSE

\* The threads and their jobs are gone with the process, and another begins.
AllJobsLost ==
  /\ request_list' = <<>> /\ working' = {} /\ reply_list' = <<>>
  /\ readable' = FALSE /\ reading' = FALSE

nw_job_add(job) ==
  /\ request_list' = Append(request_list, job)
  /\ UNCHANGED <<working, reply_list, readable, reading>>

\* thread_routine, the first part under the lock
JobTake ==
  /\ Cardinality(working) < WorkerNum
  /\ request_list # <<>>
  /\ working' = working \cup {Head(request_list)}
  /\ request_list' = Tail(request_list)
  /\ UNCHANGED <<reply_list, readable, reading>>

\* thread_routine, the second part under the lock
JobDone(job) ==
  /\ job \in working
  /\ working' = working \ {job}
  /\ reply_list' = Append(reply_list, job)
  /\ readable' = TRUE
  /\ UNCHANGED <<request_list, reading>>

\* on_can_read, the first loop
JobWake ==
  /\ ~reading /\ readable
  /\ readable' = FALSE
  /\ reading' = TRUE
  /\ UNCHANGED <<request_list, working, reply_list>>

\* (variant) one job is finished for each time the pipe can be read
JobFinish_Once ==
  /\ reading /\ reply_list # <<>>
  /\ reply_list' = Tail(reply_list)
  /\ reading' = FALSE
  /\ UNCHANGED <<request_list, working, readable>>

\* on_can_read, one turn of the second loop; on_finish is the user's.
JobFinish ==
  /\ reading /\ reply_list # <<>>
  /\ reply_list' = Tail(reply_list)
  /\ UNCHANGED <<request_list, working, readable, reading>>

JobDrained ==
  /\ reading /\ reply_list = <<>>
  /\ reading' = FALSE
  /\ UNCHANGED <<request_list, working, reply_list, readable>>
==============================================================================
